----------------------------- MODULE GlobProofs ------------------------------
(***************************************************************************)
(* glob_match, for patterns and texts of any length over any characters:   *)
(* it accepts only what the pattern describes, and, unless there are stars *)
(* in both, everything the pattern describes; and it ends soon.            *)
(***************************************************************************)
EXTENDS Glob, TLAPS

-----------------------------------------------------------------------------
(* The inductive invariant: the characters matched so far are aligned, and *)
(* so are those matched when the last star was met, with what that star    *)
(* has taken since.                                                        *)

IndicesInv ==
  /\ pattern \in Seq(Chars) /\ text \in Seq(Chars)
  /\ p \in 0..Len(pattern) /\ t \in 0..Len(text)
  /\ star # NoStar => /\ star \in 0..(p - 1) /\ match \in 0..t
                      /\ pattern[star + 1] = Star

AlignedInv ==
  /\ Aligned(t, p)
  /\ star # NoStar => Aligned(match, star + 1)
  /\ outcome = "match" => t = Len(text) /\ p = Len(pattern)

SoundInv == IndicesInv /\ AlignedInv

LEMMA EmptyAligned == Aligned(0, 0)
<1>1. [i \in 1..0 |-> 1] \in [1..0 -> 1..0]
  OBVIOUS
<1>2. Aligns([i \in 1..0 |-> 1], 0, 0)
  BY DEF Aligns
<1> QED
  BY <1>1, <1>2 DEF Aligned

\* One more character of the text stands under the next one of the pattern.
LEMMA AlignNext ==
  ASSUME NEW n \in Nat, NEW m \in Nat, Aligned(n, m),
         pattern[m + 1] \in {One, text[n + 1]}
  PROVE  Aligned(n + 1, m + 1)
<1>1. PICK f \in [1..n -> 1..m] : Aligns(f, n, m)
  BY DEF Aligned
<1> DEFINE g == [i \in 1..(n + 1) |-> IF i = n + 1 THEN m + 1 ELSE f[i]]
<1>2. \A i \in 1..(n + 1) : i # n + 1 => i \in 1..n
  OBVIOUS
<1>3. \A i \in 1..n : i \in 1..(n + 1) /\ i # n + 1 /\ f[i] \in 1..m
  BY <1>1
<1>4. g \in [1..(n + 1) -> 1..(m + 1)]
  BY <1>2, <1>3
<1>5. g[n + 1] = m + 1 /\ \A i \in 1..n : g[i] = f[i]
  BY <1>3
<1> HIDE DEF g
<1>6. \A i \in 1..(n + 1) : pattern[g[i]] \in {Star, One, text[i]}
  BY <1>1, <1>2, <1>5 DEF Aligns
<1>7. ASSUME NEW i \in 1..(n + 1), NEW j \in 1..(n + 1), i < j
      PROVE  g[i] <= g[j] /\ (g[i] = g[j] => pattern[g[i]] = Star)
  <2>1. i \in 1..n
    BY <1>7
  <2>2. CASE j = n + 1
    BY <1>3, <1>5, <2>1, <2>2
  <2>3. CASE j # n + 1
    BY <1>1, <1>2, <1>5, <1>7, <2>1, <2>3 DEF Aligns
  <2> QED
    BY <2>2, <2>3
<1>8. ASSUME NEW k \in 1..(m + 1), pattern[k] # Star
      PROVE  \E i \in 1..(n + 1) : g[i] = k
  <2>1. CASE k = m + 1
    BY <1>5, <2>1
  <2>2. CASE k # m + 1
    <3>1. PICK i \in 1..n : f[i] = k
      BY <1>1, <1>8, <2>2 DEF Aligns
    <3> QED
      BY <1>3, <1>5, <3>1
  <2> QED
    BY <2>1, <2>2
<1> QED
  BY <1>4, <1>6, <1>7, <1>8 DEF Aligned, Aligns

\* A star of the pattern that takes nothing.
LEMMA AlignStar ==
  ASSUME NEW n \in Nat, NEW m \in Nat, Aligned(n, m), pattern[m + 1] = Star
  PROVE  Aligned(n, m + 1)
<1>1. PICK f \in [1..n -> 1..m] : Aligns(f, n, m)
  BY DEF Aligned
<1>2. f \in [1..n -> 1..(m + 1)]
  OBVIOUS
<1>3. \A k \in 1..(m + 1) : pattern[k] # Star => k \in 1..m
  OBVIOUS
<1>4. Aligns(f, n, m + 1)
  BY <1>1, <1>3 DEF Aligns
<1> QED
  BY <1>2, <1>4 DEF Aligned

\* The star that ends the matched part of the pattern takes one character more.
LEMMA AlignMore ==
  ASSUME NEW n \in Nat, NEW m \in Nat \ {0}, Aligned(n, m), pattern[m] = Star
  PROVE  Aligned(n + 1, m)
<1>1. PICK f \in [1..n -> 1..m] : Aligns(f, n, m)
  BY DEF Aligned
<1> DEFINE g == [i \in 1..(n + 1) |-> IF i = n + 1 THEN m ELSE f[i]]
<1>2. \A i \in 1..(n + 1) : i # n + 1 => i \in 1..n
  OBVIOUS
<1>3. \A i \in 1..n : i \in 1..(n + 1) /\ i # n + 1 /\ f[i] \in 1..m
  BY <1>1
<1>4. g \in [1..(n + 1) -> 1..m]
  BY <1>2, <1>3
<1>5. g[n + 1] = m /\ \A i \in 1..n : g[i] = f[i]
  BY <1>3
<1> HIDE DEF g
<1>6. \A i \in 1..(n + 1) : pattern[g[i]] \in {Star, One, text[i]}
  BY <1>1, <1>2, <1>5 DEF Aligns
<1>7. ASSUME NEW i \in 1..(n + 1), NEW j \in 1..(n + 1), i < j
      PROVE  g[i] <= g[j] /\ (g[i] = g[j] => pattern[g[i]] = Star)
  <2>1. i \in 1..n
    BY <1>7
  <2>2. CASE j = n + 1
    BY <1>3, <1>5, <2>1, <2>2
  <2>3. CASE j # n + 1
    BY <1>1, <1>2, <1>5, <1>7, <2>1, <2>3 DEF Aligns
  <2> QED
    BY <2>2, <2>3
<1>8. \A k \in 1..m : pattern[k] # Star => \E i \in 1..(n + 1) : g[i] = k
  BY <1>1, <1>3, <1>5 DEF Aligns
<1> QED
  BY <1>4, <1>6, <1>7, <1>8 DEF Aligned, Aligns

LEMMA SoundInit == Init => SoundInv
<1> SUFFICES ASSUME Init PROVE SoundInv
  OBVIOUS
<1>1. \A w \in Words : w \in Seq(Chars)
  BY GlobAssumption DEF GlobAssumption, Words
<1>2. IndicesInv
  BY <1>1 DEF Init, IndicesInv
<1>3. AlignedInv
  BY EmptyAligned DEF Init, AlignedInv
<1> QED
  BY <1>2, <1>3 DEF SoundInv

LEMMA SoundStep == SoundInv /\ [Next]_vars => SoundInv'
<1> SUFFICES ASSUME SoundInv, [Next]_vars PROVE SoundInv'
  OBVIOUS
<1> USE DEF SoundInv
<1>1. CASE MatchChar
  <2>1. /\ t \in Nat /\ p \in Nat /\ p' = p + 1 /\ t' = t + 1
        /\ pattern[p + 1] \in {One, text[t + 1]}
        /\ UNCHANGED <<pattern, text, star, match, outcome>> /\ outcome = "running"
    BY <1>1 DEF MatchChar, CharMatches, Looping, IndicesInv
  <2>2. IndicesInv'
    BY <1>1 DEF MatchChar, CharMatches, Looping, IndicesInv
  <2>3. Aligned(t, p)' <=> Aligned(t + 1, p + 1)
    BY <2>1 DEF Aligned, Aligns
  <2>4. Aligned(match, star + 1)' <=> Aligned(match, star + 1)
    BY <2>1 DEF Aligned, Aligns
  <2> QED
    BY <2>1, <2>2, <2>3, <2>4, AlignNext DEF AlignedInv
<1>2. CASE TakeStar \/ SkipStar
  <2>1. /\ t \in Nat /\ p \in Nat /\ p' = p + 1 /\ t' = t /\ pattern[p + 1] = Star
        /\ UNCHANGED <<pattern, text, outcome>> /\ outcome = "running"
    BY <1>2 DEF TakeStar, SkipStar, AtStar, Looping, IndicesInv
  <2>2. IndicesInv'
    BY <1>2 DEF TakeStar, SkipStar, AtStar, Looping, IndicesInv
  <2>3. Aligned(t, p)'
    <3>1. Aligned(t, p + 1)
      BY <2>1, AlignStar DEF AlignedInv
    <3> QED
      BY <2>1, <3>1 DEF Aligned, Aligns
  <2>4. star' # NoStar => Aligned(match, star + 1)'
    <3>1. CASE TakeStar
      <4>1. star' + 1 = p' /\ match' = t'
        BY <2>1, <3>1 DEF TakeStar
      <4> QED
        BY <2>3, <4>1
    <3>2. CASE SkipStar
      BY <3>2 DEF SkipStar, AlignedInv, Aligned, Aligns
    <3> QED
      BY <1>2, <3>1, <3>2
  <2> QED
    BY <2>1, <2>2, <2>3, <2>4 DEF AlignedInv
<1>3. CASE Backtrack
  <2>1. /\ star \in Nat /\ match \in Nat /\ star # NoStar /\ star' = star
        /\ p' = star + 1 /\ match' = match + 1 /\ t' = match + 1
        /\ pattern[star + 1] = Star
        /\ UNCHANGED <<pattern, text, outcome>> /\ outcome = "running"
    BY <1>3 DEF Backtrack, Looping, IndicesInv
  <2>2. IndicesInv'
    BY <1>3 DEF Backtrack, Looping, IndicesInv
  <2>3. Aligned(match + 1, star + 1)
    BY <2>1, AlignMore DEF AlignedInv
  <2>4. Aligned(t, p)' /\ Aligned(match, star + 1)'
    BY <2>1, <2>3 DEF Aligned, Aligns
  <2> QED
    BY <2>1, <2>2, <2>4 DEF AlignedInv
<1>4. CASE Fail \/ Finish \/ UNCHANGED vars
  <2>1. UNCHANGED <<pattern, text, p, t, star, match>>
    BY <1>4 DEF Fail, Finish, vars
  <2>2. IndicesInv' /\ (Aligned(t, p)' <=> Aligned(t, p))
        /\ (Aligned(match, star + 1)' <=> Aligned(match, star + 1))
    BY <2>1 DEF IndicesInv, Aligned, Aligns
  <2>3. outcome' = "match" => t = Len(text) /\ p = Len(pattern)
    BY <1>4 DEF Fail, Finish, vars, AlignedInv
  <2> QED
    BY <2>1, <2>2, <2>3 DEF AlignedInv
<1> QED
  BY <1>1, <1>2, <1>3, <1>4 DEF Next

LEMMA SoundAlways == Spec => []SoundInv
BY SoundInit, SoundStep, PTL DEF Spec

\* glob_match never accepts a text that the pattern does not describe, although it comes
\* back to the last star only and forgets what it matched behind it.
THEOREM NoFalseMatch == Spec => []MatchesOnly
<1>1. SoundInv => MatchesOnly
  BY DEF SoundInv, IndicesInv, AlignedInv, MatchesOnly, Matches
<1> QED
  BY <1>1, SoundAlways, PTL

-----------------------------------------------------------------------------
(* That no match is missed.  The alignments that matter are those of the   *)
(* text behind match with the pattern from the last star on (from their    *)
(* beginnings before there is a star).  What was matched since then is the *)
(* earliest place for its characters: no alignment is ahead of the loop,   *)
(* and only one whose star takes more is behind it.                        *)

Rest(i) == (i + 1)..Len(text)
Suits(g, i, j) ==
  /\ \A x \in Rest(i) : pattern[g[x]] \in {Star, One, text[x]}
  /\ \A x, y \in Rest(i) : x < y => /\ g[x] <= g[y]
                                    /\ g[x] = g[y] => pattern[g[x]] = Star
  /\ \A k \in (j + 1)..Len(pattern) : pattern[k] # Star => \E x \in Rest(i) : g[x] = k
RestAlignments(i, j) == {g \in [Rest(i) -> (j + 1)..Len(pattern)] : Suits(g, i, j)}

Base == IF star = NoStar THEN 0 ELSE star
StarTakesMore(g) == star # NoStar /\ match < Len(text) /\ g[match + 1] = star + 1

EarliestInv ==
  \A g \in RestAlignments(match, Base) :
    /\ \A x \in Rest(match) : g[x] > p => x > t
    /\ StarTakesMore(g) \/ \A x \in Rest(t) : g[x] > p

CompleteInv ==
  /\ star = NoStar => match = 0
  /\ StarsApart =>
       /\ Matches => RestAlignments(match, Base) # {}
       /\ EarliestInv
       /\ MissesNothing

\* A character that is matched without a star is no star.
LEMMA NoStarMatched ==
  ASSUME IndicesInv, StarsApart, Looping, CharMatches
  PROVE  p + 1 \in 1..Len(pattern) /\ pattern[p + 1] # Star
BY GlobAssumption DEF GlobAssumption, IndicesInv, Looping, CharMatches, StarsApart, ToSet

\* An alignment that is not behind the loop stays so when one character is matched.
LEMMA KeepsUp ==
  ASSUME IndicesInv, t < Len(text), NEW i \in 0..t, NEW j \in 0..p, NEW g \in RestAlignments(i, j),
         p + 1 \in 1..Len(pattern), pattern[p + 1] # Star,
         \A x \in Rest(i) : g[x] > p => x > t
  PROVE  /\ \A x \in Rest(i) : g[x] > p + 1 => x > t + 1
         /\ (\A x \in Rest(t) : g[x] > p) =>
               g[t + 1] = p + 1 /\ \A x \in Rest(t + 1) : g[x] > p + 1
<1>1. /\ t \in Nat /\ p \in Nat /\ Len(text) \in Nat /\ i \in Nat
      /\ t + 1 \in Rest(i) /\ \A x \in Rest(t) : x \in Rest(i)
      /\ \A x \in Rest(t + 1) : x \in Rest(t) /\ x > t + 1
      /\ \A x \in Rest(i) : x \in Nat /\ g[x] \in Nat
  <2>1. t \in Nat /\ p \in Nat /\ Len(text) \in Nat /\ i \in 0..t
    BY DEF IndicesInv
  <2>2. g \in [Rest(i) -> (j + 1)..Len(pattern)] /\ (j + 1)..Len(pattern) \subseteq Nat
    BY DEF RestAlignments, IndicesInv
  <2> QED
    BY <2>1, <2>2 DEF Rest
<1>2. PICK z \in Rest(i) : g[z] = p + 1
  <2>1. p + 1 \in (j + 1)..Len(pattern)
    BY <1>1
  <2> QED
    BY <2>1 DEF RestAlignments, Suits
<1>3. z > t
  BY <1>1, <1>2
<1>4. \A x, y \in Rest(i) : x < y => g[x] <= g[y] /\ (g[x] = g[y] => pattern[g[x]] = Star)
  BY DEF RestAlignments, Suits
<1>5. ASSUME NEW x \in Rest(i), g[x] > p + 1
      PROVE  x > t + 1
  <2>1. x # z /\ ~(x < z)
    BY <1>1, <1>2, <1>4, <1>5
  <2> QED
    BY <1>1, <1>3, <2>1
<1>6. ASSUME \A x \in Rest(t) : g[x] > p
      PROVE  g[t + 1] = p + 1 /\ \A x \in Rest(t + 1) : g[x] > p + 1
  <2>1. t + 1 \in Rest(t)
    BY <1>1 DEF Rest
  <2>2. g[t + 1] > p
    BY <1>6, <2>1
  <2>3. z = t + 1
    <3>1. CASE t + 1 < z
      <4>1. g[t + 1] <= p + 1 /\ (g[t + 1] = p + 1 => pattern[p + 1] = Star)
        BY <1>1, <1>2, <1>4, <3>1
      <4> QED
        BY <1>1, <2>2, <4>1
    <3> QED
      BY <1>1, <1>3, <3>1
  <2>4. ASSUME NEW x \in Rest(t + 1)
        PROVE  g[x] > p + 1
    <3>1. x \in Rest(i) /\ t + 1 < x
      BY <1>1
    <3>2. g[t + 1] <= g[x] /\ g[t + 1] # g[x]
      BY <1>1, <1>2, <1>4, <2>3, <3>1
    <3> QED
      BY <1>1, <1>2, <2>3, <3>1, <3>2
  <2> QED
    BY <1>2, <2>3, <2>4
<1> QED
  BY <1>5, <1>6

\* Where the loop neither matches a character nor finds a star, every alignment is
\* behind it.
LEMMA FallsBehind ==
  ASSUME IndicesInv, Looping, ~CharMatches, ~AtStar, NEW i \in 0..t, NEW j \in 0..p,
         NEW g \in RestAlignments(i, j), \A x \in Rest(i) : g[x] > p => x > t
  PROVE  ~ \A x \in Rest(t) : g[x] > p
<1> SUFFICES ASSUME \A x \in Rest(t) : g[x] > p
             PROVE  FALSE
  OBVIOUS
<1>1. t \in Nat /\ t < Len(text) /\ Len(text) \in Nat /\ p \in 0..Len(pattern)
  BY DEF IndicesInv, Looping
<1>2. t + 1 \in Rest(t) /\ t + 1 \in Rest(i)
  BY <1>1 DEF Rest
<1>3. g[t + 1] \in (j + 1)..Len(pattern) /\ pattern[g[t + 1]] \in {Star, One, text[t + 1]}
  BY <1>2 DEF RestAlignments, Suits
<1>4. p < Len(pattern)
  BY <1>1, <1>2, <1>3
<1>5. p + 1 \in 1..Len(pattern) /\ pattern[p + 1] # Star
  BY <1>1, <1>4 DEF AtStar
<1>6. g[t + 1] = p + 1
  BY <1>1, <1>5, KeepsUp
<1> QED
  BY <1>3, <1>4, <1>5, <1>6 DEF CharMatches

LEMMA CompleteInit == Init => CompleteInv
<1> SUFFICES ASSUME Init, StarsApart PROVE CompleteInv
  BY DEF CompleteInv, Init
<1>1. /\ star = NoStar /\ match = 0 /\ p = 0 /\ t = 0 /\ outcome = "running" /\ Base = 0
      /\ pattern \in Seq(Chars) /\ text \in Seq(Chars)
  BY SoundInit DEF Init, Base, SoundInv, IndicesInv
<1>2. Rest(0) = 1..Len(text) /\ (0 + 1)..Len(pattern) = 1..Len(pattern)
  BY <1>1 DEF Rest
<1>3. ASSUME Matches
      PROVE  RestAlignments(0, 0) # {}
  <2>1. PICK f \in [1..Len(text) -> 1..Len(pattern)] : Aligns(f, Len(text), Len(pattern))
    BY <1>3 DEF Matches, Aligned
  <2>2. Suits(f, 0, 0)
    BY <1>2, <2>1 DEF Suits, Aligns
  <2> QED
    BY <1>2, <2>1, <2>2 DEF RestAlignments
<1>4. EarliestInv
  BY <1>1, <1>2 DEF EarliestInv, RestAlignments
<1> QED
  BY <1>1, <1>3, <1>4 DEF CompleteInv, MissesNothing

\* When the loop has just met or come back to a star, no alignment is ahead of it.
JustAfterStar ==
  /\ pattern \in Seq(Chars) /\ text \in Seq(Chars) /\ t \in 0..Len(text)
  /\ star # NoStar /\ star \in 0..(Len(pattern) - 1) /\ p = star + 1 /\ match = t

LEMMA FromStar == JustAfterStar => EarliestInv
<1> SUFFICES ASSUME JustAfterStar PROVE EarliestInv
  OBVIOUS
<1> USE DEF JustAfterStar
<1> SUFFICES ASSUME NEW g \in RestAlignments(t, star)
             PROVE  /\ \A x \in Rest(t) : g[x] > p => x > t
                    /\ StarTakesMore(g) \/ \A x \in Rest(t) : g[x] > p
  BY DEF EarliestInv, Base
<1>1. \A x \in Rest(t) : x \in Nat /\ x > t /\ g[x] \in (star + 1)..Len(pattern)
  BY DEF Rest, RestAlignments
<1>2. ASSUME ~StarTakesMore(g), NEW x \in Rest(t)
      PROVE  g[x] > p
  <2>1. t < Len(text) /\ t + 1 \in Rest(t)
    BY DEF Rest
  <2>2. g[t + 1] # star + 1
    BY <1>2, <2>1 DEF StarTakesMore
  <2>3. g[t + 1] > p
    BY <1>1, <2>1, <2>2
  <2>4. g[t + 1] <= g[x]
    <3>1. CASE x = t + 1
      BY <1>1, <3>1
    <3>2. CASE x # t + 1
      <4>1. t + 1 < x
        BY <3>2 DEF Rest
      <4> QED
        BY <2>1, <4>1 DEF RestAlignments, Suits
    <3> QED
      BY <3>1, <3>2
  <2> QED
    BY <1>1, <2>1, <2>3, <2>4
<1> QED
  BY <1>1, <1>2

\* The text behind t can be aligned with the pattern from a newly met star on: that star
\* takes whatever an alignment had put before it.
LEMMA StarSuffices ==
  ASSUME IndicesInv, AtStar, NEW i \in 0..t, NEW j \in 0..p, NEW g \in RestAlignments(i, j),
         \A x \in Rest(i) : g[x] > p => x > t
  PROVE  RestAlignments(t, p) # {}
<1> DEFINE h == [x \in Rest(t) |-> IF g[x] > p THEN g[x] ELSE p + 1]
<1>1. /\ p \in Nat /\ t \in Nat /\ p + 1 \in 1..Len(pattern) /\ pattern[p + 1] = Star
      /\ Len(pattern) \in Nat
  BY DEF IndicesInv, AtStar
<1>2. \A x \in Rest(t) : x \in Rest(i) /\ g[x] \in Nat /\ g[x] <= Len(pattern)
  BY <1>1 DEF Rest, RestAlignments, IndicesInv
<1>3. h \in [Rest(t) -> (p + 1)..Len(pattern)]
  BY <1>1, <1>2
<1>4. \A x \in Rest(t) : h[x] = IF g[x] > p THEN g[x] ELSE p + 1
  OBVIOUS
<1> HIDE DEF h
<1>5. \A x \in Rest(t) : pattern[h[x]] \in {Star, One, text[x]}
  BY <1>1, <1>2, <1>4 DEF RestAlignments, Suits
<1>6. ASSUME NEW x \in Rest(t), NEW y \in Rest(t), x < y
      PROVE  h[x] <= h[y] /\ (h[x] = h[y] => pattern[h[x]] = Star)
  <2>1. g[x] <= g[y] /\ (g[x] = g[y] => pattern[g[x]] = Star)
    BY <1>2, <1>6 DEF RestAlignments, Suits
  <2> QED
    BY <1>1, <1>2, <1>4, <2>1
<1>7. ASSUME NEW k \in (p + 1)..Len(pattern), pattern[k] # Star
      PROVE  \E x \in Rest(t) : h[x] = k
  <2>1. k \in (j + 1)..Len(pattern) /\ k > p
    BY <1>1
  <2>2. PICK x \in Rest(i) : g[x] = k
    BY <1>7, <2>1 DEF RestAlignments, Suits
  <2>3. x \in Rest(t)
    BY <1>1, <2>1, <2>2 DEF Rest, IndicesInv
  <2> QED
    BY <1>4, <2>1, <2>2, <2>3
<1> QED
  BY <1>3, <1>5, <1>6, <1>7 DEF RestAlignments, Suits

\* A star that takes the next character may as well be asked to match the text behind it.
LEMMA StarTakes ==
  ASSUME IndicesInv, match < Len(text), star # NoStar,
         NEW g \in RestAlignments(match, star), g[match + 1] = star + 1
  PROVE  RestAlignments(match + 1, star) # {}
<1> DEFINE h == [x \in Rest(match + 1) |-> g[x]]
<1>1. match \in Nat /\ star \in Nat /\ pattern[star + 1] = Star
  BY DEF IndicesInv
<1>2. \A x \in Rest(match + 1) : x \in Rest(match) /\ h[x] = g[x]
  BY <1>1 DEF Rest
<1>3. \A x \in Rest(match) : x # match + 1 => x \in Rest(match + 1)
  BY <1>1 DEF Rest, IndicesInv
<1>4. h \in [Rest(match + 1) -> (star + 1)..Len(pattern)]
  BY <1>2 DEF RestAlignments
<1> HIDE DEF h
<1>5. /\ \A x \in Rest(match + 1) : pattern[h[x]] \in {Star, One, text[x]}
      /\ \A x, y \in Rest(match + 1) :
           x < y => h[x] <= h[y] /\ (h[x] = h[y] => pattern[h[x]] = Star)
  BY <1>2 DEF RestAlignments, Suits
<1>6. ASSUME NEW k \in (star + 1)..Len(pattern), pattern[k] # Star
      PROVE  \E x \in Rest(match + 1) : h[x] = k
  <2>1. PICK x \in Rest(match) : g[x] = k
    BY <1>6 DEF RestAlignments, Suits
  <2>2. x # match + 1
    BY <1>1, <1>6, <2>1
  <2> QED
    BY <1>2, <1>3, <2>1, <2>2
<1> QED
  BY <1>4, <1>5, <1>6 DEF RestAlignments, Suits

\* What the loop leaves alone, alignments do not notice.
LEMMA SameAlignments ==
  ASSUME UNCHANGED <<pattern, text>>
  PROVE  /\ Matches' <=> Matches
         /\ \A i, j : RestAlignments(i, j)' = RestAlignments(i, j)
         /\ \A i : Rest(i)' = Rest(i)
BY DEF Matches, Aligned, Aligns, RestAlignments, Suits, Rest

LEMMA CompleteStep == SoundInv /\ CompleteInv /\ [Next]_vars => CompleteInv'
<1> SUFFICES ASSUME SoundInv, CompleteInv, [Next]_vars PROVE CompleteInv'
  OBVIOUS
<1>11. UNCHANGED <<pattern, text>> /\ (star' = NoStar => match' = 0)
  <2>1. CASE Next
    <3>1. p \in Nat
      BY DEF SoundInv, IndicesInv
    <3> QED
      BY <2>1, <3>1, GlobAssumption
         DEF Next, MatchChar, TakeStar, Backtrack, Fail, SkipStar, Finish, CompleteInv,
             GlobAssumption
  <2>2. CASE UNCHANGED vars
    BY <2>2 DEF vars, CompleteInv
  <2> QED
    BY <2>1, <2>2
<1>12. CASE ~StarsApart
  BY <1>11, <1>12 DEF CompleteInv, StarsApart, ToSet
<1> SUFFICES ASSUME StarsApart PROVE CompleteInv'
  BY <1>12
<1>13. IndicesInv'
  BY SoundStep DEF SoundInv
<1>1. /\ IndicesInv /\ EarliestInv
      /\ (star = NoStar => match = 0)
      /\ (Matches => RestAlignments(match, Base) # {})
      /\ MissesNothing
  BY DEF SoundInv, CompleteInv
<1>2. Base \in 0..p /\ match \in 0..t
  BY <1>1 DEF IndicesInv, Base
<1>3. \A g \in RestAlignments(match, Base) :
        /\ \A x \in Rest(match) : g[x] > p => x > t
        /\ StarTakesMore(g) \/ \A x \in Rest(t) : g[x] > p
  BY <1>1 DEF EarliestInv
<1>4. CASE MatchChar
  <2>1. /\ UNCHANGED <<pattern, text, star, match, outcome>> /\ outcome = "running"
        /\ p' = p + 1 /\ t' = t + 1 /\ t < Len(text)
    BY <1>4 DEF MatchChar, Looping
  <2>2. p + 1 \in 1..Len(pattern) /\ pattern[p + 1] # Star
    BY <1>1, <1>4, NoStarMatched DEF MatchChar
  <2>3. Base' = Base /\ Rest(match)' = Rest(match) /\ Rest(t)' = Rest(t + 1)
    BY <2>1 DEF Base, Rest
  <2>4. ASSUME NEW g \in RestAlignments(match, Base)
        PROVE  /\ \A x \in Rest(match) : g[x] > p + 1 => x > t + 1
               /\ StarTakesMore(g)' \/ \A x \in Rest(t + 1) : g[x] > p + 1
    <3>1. StarTakesMore(g)' <=> StarTakesMore(g)
      BY <2>1 DEF StarTakesMore
    <3> QED
      BY <1>1, <1>2, <1>3, <2>1, <2>2, <3>1, KeepsUp
  <2>5. EarliestInv'
    BY <2>1, <2>3, <2>4, SameAlignments DEF EarliestInv
  <2> QED
    BY <1>1, <2>1, <2>3, <2>5, SameAlignments DEF CompleteInv, MissesNothing
<1>5. CASE TakeStar
  <2>1. /\ UNCHANGED <<pattern, text, t, outcome>> /\ outcome = "running" /\ AtStar
        /\ star' = p /\ p' = p + 1 /\ match' = t /\ star' # NoStar
    BY <1>1, <1>5, GlobAssumption DEF TakeStar, Looping, GlobAssumption, IndicesInv
  <2>2. Matches => RestAlignments(t, p) # {}
    BY <1>1, <1>2, <1>3, <2>1, StarSuffices
  <2>3. JustAfterStar'
    BY <1>13, <2>1 DEF IndicesInv, JustAfterStar
  <2>4. EarliestInv'
    BY <2>3, FromStar, PTL
  <2> QED
    BY <2>1, <2>2, <2>4, SameAlignments DEF CompleteInv, MissesNothing, Base
<1>6. CASE Backtrack
  <2>1. /\ UNCHANGED <<pattern, text, star, outcome>> /\ outcome = "running" /\ star # NoStar
        /\ p' = star + 1 /\ match' = match + 1 /\ t' = match + 1
        /\ match < Len(text) /\ Looping /\ ~CharMatches /\ ~AtStar
    BY <1>1, <1>6 DEF Backtrack, Looping, IndicesInv
  <2>2. ASSUME NEW g \in RestAlignments(match, star)
        PROVE  g[match + 1] = star + 1
    <3>1. g \in RestAlignments(match, Base)
      BY <2>1 DEF Base
    <3>2. ~ \A x \in Rest(t) : g[x] > p
      BY <1>1, <1>2, <1>3, <2>1, <3>1, FallsBehind
    <3> QED
      BY <1>3, <3>1, <3>2 DEF StarTakesMore
  <2>3. Matches => RestAlignments(match + 1, star) # {}
    BY <1>1, <2>1, <2>2, StarTakes DEF Base
  <2>5. JustAfterStar'
    BY <1>13, <2>1 DEF IndicesInv, JustAfterStar
  <2>4. EarliestInv'
    BY <2>5, FromStar, PTL
  <2> QED
    BY <2>1, <2>3, <2>4, SameAlignments DEF CompleteInv, MissesNothing, Base
<1>7. CASE Fail
  <2>1. /\ UNCHANGED <<pattern, text, p, t, star, match>> /\ star = NoStar
        /\ Looping /\ ~CharMatches /\ ~AtStar
    BY <1>7 DEF Fail
  <2>2. ~Matches
    BY <1>1, <1>2, <1>3, <2>1, FallsBehind DEF StarTakesMore
  <2> QED
    BY <1>1, <2>1, <2>2, SameAlignments
       DEF CompleteInv, MissesNothing, EarliestInv, StarTakesMore, Base
<1>8. CASE SkipStar
  <2>1. /\ UNCHANGED <<pattern, text, t, star, match, outcome>> /\ outcome = "running"
        /\ p' = p + 1 /\ t = Len(text)
    BY <1>8 DEF SkipStar
  <2>2. Base' = Base /\ Rest(t)' = {}
    BY <1>1, <2>1 DEF Base, Rest, IndicesInv
  <2>3. ASSUME NEW g \in RestAlignments(match, Base), NEW x \in Rest(match), g[x] > p + 1
        PROVE  x > t
    <3>1. g[x] \in Nat /\ p \in Nat
      BY <1>1, <1>2 DEF RestAlignments, IndicesInv
    <3>2. g[x] > p
      BY <2>3, <3>1
    <3> QED
      BY <1>3, <3>2
  <2>4. EarliestInv'
    BY <2>1, <2>2, <2>3, SameAlignments DEF EarliestInv
  <2> QED
    BY <1>1, <2>1, <2>2, <2>4, SameAlignments DEF CompleteInv, MissesNothing
<1>9. CASE Finish
  <2>1. /\ UNCHANGED <<pattern, text, p, t, star, match>>
        /\ t = Len(text)
        /\ ~AtStar
        /\ (outcome' = "no match") => (p # Len(pattern))
    BY <1>9 DEF Finish
  <2>2. ASSUME p # Len(pattern), NEW g \in RestAlignments(match, Base)
        PROVE  FALSE
    <3>1. p + 1 \in (Base + 1)..Len(pattern) /\ pattern[p + 1] # Star
      <4>1. p \in 0..Len(pattern) /\ Len(pattern) \in Nat /\ Base \in 0..p
        BY <1>1, <1>2 DEF IndicesInv
      <4>2. p < Len(pattern)
        BY <2>2, <4>1
      <4>3. pattern[p + 1] # Star
        BY <2>1, <4>2 DEF AtStar
      <4> QED
        BY <4>1, <4>2, <4>3
    <3>2. PICK x \in Rest(match) : g[x] = p + 1
      BY <3>1 DEF RestAlignments, Suits
    <3>3. x > t
      <4>1. g[x] > p
        BY <1>1, <3>2 DEF IndicesInv
      <4> QED
        BY <1>3, <3>2, <4>1
    <3>4. x <= Len(text) /\ x \in Int
      BY <1>1, <1>2, <3>2 DEF Rest, IndicesInv
    <3>5. t = Len(text)
      BY <2>1
    <3> QED
      BY <1>1, <3>3, <3>4, <3>5 DEF IndicesInv
  <2>3. MissesNothing'
    BY <1>1, <2>1, <2>2, SameAlignments DEF MissesNothing
  <2> QED
    BY <1>1, <2>1, <2>3, SameAlignments
       DEF CompleteInv, EarliestInv, StarTakesMore, Base
<1>10. CASE UNCHANGED vars
  BY <1>1, <1>10, SameAlignments
     DEF vars, CompleteInv, EarliestInv, MissesNothing, StarTakesMore, Base
<1> QED
  BY <1>4, <1>5, <1>6, <1>7, <1>8, <1>9, <1>10 DEF Next

\* glob_match misses no text that the pattern describes, unless both have a star: forgetting
\* every star but the last loses nothing, because what was matched before it was matched as
\* early in the text as it can be.
THEOREM NoMissedMatch == Spec => []MissesNothing
<1>1. SoundInv /\ CompleteInv => MissesNothing
  BY DEF CompleteInv, MissesNothing
<1>2. Init => SoundInv /\ CompleteInv
  BY SoundInit, CompleteInit
<1>3. SoundInv /\ CompleteInv /\ [Next]_vars => (SoundInv /\ CompleteInv)'
  BY SoundStep, CompleteStep
<1> QED
  BY <1>1, <1>2, <1>3, PTL DEF Spec

-----------------------------------------------------------------------------
(* That the loop ends, and how soon.  Either less of the pattern is ahead  *)
(* of it, or less of the text is left to the last star, and a whole        *)
(* pattern is worth less than one character of the text.                   *)

\* The step in numbers: l and m are the lengths of text and pattern.
LEMMA LeftShrinks ==
  ASSUME NEW l \in Nat, NEW m \in Nat, NEW i \in 0..l, NEW k \in 0..l,
         NEW j \in 0..m, NEW n \in 0..m,
         k > i \/ (k = i /\ n > j)
  PROVE  /\ (l - k) * (m + 1) + (m - n) + 1 \in Nat \ {0}
         /\ (l - k) * (m + 1) + (m - n) + 1 < (l - i) * (m + 1) + (m - j) + 1
<1>1. (l - k) * (m + 1) \in Nat
  <2>1. l - k \in Nat /\ m + 1 \in Nat
    OBVIOUS
  <2> QED
    BY <2>1
<1>2. CASE k = i /\ n > j
  BY <1>1, <1>2
<1>3. CASE k > i
  <2>1. PICK a \in Nat : a = k - i - 1
    BY <1>3
  <2>2. l - i = (l - k) + a + 1
    BY <2>1
  <2>3. (l - i) * (m + 1) = (l - k) * (m + 1) + a * (m + 1) + (m + 1)
    BY <2>2
  <2>4. a * (m + 1) \in Nat
    BY <2>1
  <2> QED
    BY <1>1, <2>3, <2>4
<1> QED
  BY <1>2, <1>3

\* Where the loop stands while it runs.
StandsInv == IndicesInv /\ (star = NoStar => match = 0) /\ match \in 0..t

LEMMA Stands == SoundInv /\ CompleteInv => StandsInv
BY DEF SoundInv, IndicesInv, CompleteInv, StandsInv

LEMMA LeftIsNumber ==
  ASSUME StandsInv
  PROVE  Left \in Nat /\ (outcome = "running" => Left > 0)
<1>1. PICK l \in Nat, m \in Nat : l = Len(text) /\ m = Len(pattern)
  BY DEF StandsInv, IndicesInv
<1>2. l - match \in Nat /\ m - p \in Nat /\ m + 1 \in Nat
  BY <1>1 DEF StandsInv, IndicesInv
<1>3. (l - match) * (m + 1) \in Nat
  BY <1>2
<1> QED
  BY <1>1, <1>2, <1>3 DEF Left

LEMMA LeftStep ==
  ASSUME StandsInv, StandsInv', Next
  PROVE  Left' \in 0..(Left - 1)
<1>1. PICK l \in Nat, m \in Nat : l = Len(text) /\ m = Len(pattern)
  BY DEF StandsInv, IndicesInv
<1>2. pattern' = pattern /\ text' = text /\ outcome = "running"
  BY DEF Next, MatchChar, TakeStar, Backtrack, Fail, SkipStar, Finish, Looping
<1>3. /\ match \in 0..l /\ match' \in 0..l /\ p \in 0..m /\ p' \in 0..m
      /\ t \in 0..l
  BY <1>1, <1>2 DEF StandsInv, IndicesInv
<1>4. CASE Fail \/ Finish
  <2>1. outcome' # "running"
    BY <1>4 DEF Fail, Finish
  <2>2. Left' = 0
    BY <2>1 DEF Left
  <2> QED
    BY <1>2, <2>2, LeftIsNumber
<1>5. CASE MatchChar \/ TakeStar \/ Backtrack \/ SkipStar
  <2>1. outcome' = "running"
    BY <1>2, <1>5 DEF MatchChar, TakeStar, Backtrack, SkipStar
  <2>2. match' > match \/ (match' = match /\ p' > p)
    <3>1. CASE MatchChar \/ SkipStar
      BY <1>3, <3>1 DEF MatchChar, SkipStar
    <3>2. CASE TakeStar
      <4>1. match <= t
        BY <1>3 DEF StandsInv
      <4> QED
        BY <1>3, <3>2, <4>1 DEF TakeStar
    <3>3. CASE Backtrack
      BY <1>3, <3>3 DEF Backtrack
    <3> QED
      BY <1>5, <3>1, <3>2, <3>3
  <2>3. /\ Left = (l - match) * (m + 1) + (m - p) + 1
        /\ Left' = (l - match') * (m + 1) + (m - p') + 1
    BY <1>1, <1>2, <2>1 DEF Left
  <2>4. PICK i \in 0..l, k \in 0..l, j \in 0..m, n \in 0..m :
          i = match /\ k = match' /\ j = p /\ n = p'
    BY <1>3
  <2>5. Left' \in Nat \ {0} /\ Left' < Left
    <3>1. k > i \/ (k = i /\ n > j)
      BY <2>2, <2>4
    <3>2. /\ (l - k) * (m + 1) + (m - n) + 1 \in Nat \ {0}
          /\ (l - k) * (m + 1) + (m - n) + 1 < (l - i) * (m + 1) + (m - j) + 1
      BY <3>1, LeftShrinks
    <3> QED
      BY <2>3, <2>4, <3>2
  <2>6. Left \in Nat
    BY LeftIsNumber
  <2> QED
    BY <2>5, <2>6
<1> QED
  BY <1>4, <1>5 DEF Next

\* Whatever the pattern and the text, glob_match makes at most as many steps as the product
\* of their lengths, each increased by one, although it goes back in both.
THEOREM LoopBounded == Spec => WorkBounded
<1>1. Init => Left <= (Len(text) + 1) * (Len(pattern) + 1)
  <2> SUFFICES ASSUME Init
               PROVE  Left <= (Len(text) + 1) * (Len(pattern) + 1)
    OBVIOUS
  <2>1. StandsInv
    BY SoundInit, CompleteInit, Stands
  <2>2. PICK l \in Nat, m \in Nat : l = Len(text) /\ m = Len(pattern)
    BY <2>1 DEF StandsInv, IndicesInv
  <2>3. Left = l * (m + 1) + m + 1
    BY <2>2 DEF Init, Left
  <2>4. (l + 1) * (m + 1) = l * (m + 1) + m + 1
    OBVIOUS
  <2> QED
    BY <2>2, <2>3, <2>4
<1>2. SoundInv /\ CompleteInv /\ SoundInv' /\ CompleteInv' /\ [Next]_vars
        => [Left' \in 0..(Left - 1)]_vars
  <2>1. SoundInv' /\ CompleteInv' => StandsInv'
    BY DEF SoundInv, IndicesInv, CompleteInv, StandsInv
  <2> QED
    BY <2>1, Stands, LeftStep
<1> QED
  BY <1>1, <1>2, SoundInit, SoundStep, CompleteInit, CompleteStep, PTL DEF Spec, WorkBounded

=============================================================================
