-------------------------------- MODULE Glob ---------------------------------
(***************************************************************************)
(* glob_match of store.cpp, which KEYS applies to every key: one loop with *)
(* two indices and a single remembered star to come back to.               *)
(***************************************************************************)
EXTENDS Integers, SequencesExt

CONSTANTS
  Chars,  \* the characters of patterns and texts
  One,    \* '?', which matches any character
  Star,   \* '*', which matches any number of them
  MaxLen, \* bound: the length of patterns and texts
  NoStar  \* std::string_view::npos

ASSUME GlobAssumption ==
  /\ One \in Chars /\ Star \in Chars /\ One # Star
  /\ MaxLen \in Nat
  /\ NoStar \notin Nat

VARIABLES
  pattern, text, \* the arguments
  p, t,          \* characters of both that have been matched
  star,          \* the index of the last star met, or NoStar
  match,         \* characters of the text matched when the star takes no more
  outcome        \* "running", then "match" or "no match"

vars == <<pattern, text, p, t, star, match, outcome>>

Words == UNION {[1..n -> Chars] : n \in 0..MaxLen}

Init ==
  /\ pattern \in Words /\ text \in Words
  /\ p = 0 /\ t = 0
  /\ star = NoStar /\ match = 0
  /\ outcome = "running"

-----------------------------------------------------------------------------
(* The loop: the next character of the pattern matches, is a star, or what *)
(* was matched since the last star is given up.                            *)

Looping == outcome = "running" /\ t < Len(text)
CharMatches == p < Len(pattern) /\ pattern[p + 1] \in {One, text[t + 1]}
AtStar == p < Len(pattern) /\ pattern[p + 1] = Star

MatchChar ==
  /\ Looping /\ CharMatches
  /\ p' = p + 1 /\ t' = t + 1
  /\ UNCHANGED <<pattern, text, star, match, outcome>>

TakeStar ==
  /\ Looping /\ ~CharMatches /\ AtStar
  /\ star' = p /\ p' = p + 1
  /\ match' = t
  /\ UNCHANGED <<pattern, text, t, outcome>>

\* Mutants of Backtrack: the star takes no more than before; the match after it goes on
\* where it failed.
BacktrackInPlace ==
  /\ Looping /\ ~CharMatches /\ ~AtStar /\ star # NoStar
  /\ p' = star + 1
  /\ t' = match /\ match' = match
  /\ UNCHANGED <<pattern, text, star, outcome>>
BacktrackForward ==
  /\ Looping /\ ~CharMatches /\ ~AtStar /\ star # NoStar
  /\ p' = star + 1
  /\ t' = t + 1 /\ match' = t + 1
  /\ UNCHANGED <<pattern, text, star, outcome>>

\* The last star takes one character more, and the match behind it starts again.
Backtrack ==
  /\ Looping /\ ~CharMatches /\ ~AtStar /\ star # NoStar
  /\ p' = star + 1
  /\ match' = match + 1 /\ t' = match + 1
  /\ UNCHANGED <<pattern, text, star, outcome>>

Fail ==
  /\ Looping /\ ~CharMatches /\ ~AtStar /\ star = NoStar
  /\ outcome' = "no match"
  /\ UNCHANGED <<pattern, text, p, t, star, match>>

\* The text is used up: what is left of the pattern may only be stars.
SkipStar ==
  /\ outcome = "running" /\ t = Len(text) /\ AtStar
  /\ p' = p + 1
  /\ UNCHANGED <<pattern, text, t, star, match, outcome>>

\* Mutant of Finish: the rest of the pattern is not looked at.
FinishEarly ==
  /\ outcome = "running" /\ t = Len(text) /\ ~AtStar
  /\ outcome' = "match"
  /\ UNCHANGED <<pattern, text, p, t, star, match>>

Finish ==
  /\ outcome = "running" /\ t = Len(text) /\ ~AtStar
  /\ outcome' = IF p = Len(pattern) THEN "match" ELSE "no match"
  /\ UNCHANGED <<pattern, text, p, t, star, match>>

Next == MatchChar \/ TakeStar \/ Backtrack \/ Fail \/ SkipStar \/ Finish

Spec == Init /\ [][Next]_vars
FairSpec == Spec /\ WF_vars(Next)

-----------------------------------------------------------------------------
(* What a match is, without a word about how it is found.                  *)

\* f says which character of the pattern stands for each of the first n characters of
\* the text: in order, each of the first m of the pattern in turn, a star for any
\* number of them and every other character for exactly one it matches.
Aligns(f, n, m) ==
  /\ \A i \in 1..n : pattern[f[i]] \in {Star, One, text[i]}
  /\ \A i, j \in 1..n : i < j => /\ f[i] <= f[j]
                                 /\ f[i] = f[j] => pattern[f[i]] = Star
  /\ \A k \in 1..m : pattern[k] # Star => \E i \in 1..n : f[i] = k
Aligned(n, m) == \E f \in [1..n -> 1..m] : Aligns(f, n, m)
Matches == Aligned(Len(text), Len(pattern))

\* The result is never a false match: coming back to the last star only, and forgetting
\* those before it, accepts no text that the pattern does not describe.
MatchesOnly == outcome = "match" => Matches

\* No match is missed either, unless both the text and the pattern have a star.  The code
\* compares the next characters before it asks for a star, so that a star of the pattern
\* is used up by one of the text; "*" does not match "*a".
StarsApart == Star \notin ToSet(text) \/ Star \notin ToSet(pattern)
MissesNothing ==
  (outcome = "no match" /\ StarsApart) => ~Matches

\* The loop goes over the pattern at most once for each character that a star may take, and
\* once more: as many steps as the product of both lengths, each increased by one, and
\* no more, although it goes back in both.
Left ==
  IF outcome # "running" THEN 0
  ELSE (Len(text) - match) * (Len(pattern) + 1) + (Len(pattern) - p) + 1
WorkBounded ==
  /\ Left <= (Len(text) + 1) * (Len(pattern) + 1)
  /\ [][Left' \in 0..(Left - 1)]_vars

\* The loop ends, although it goes back in the text.
Terminates == <>(outcome # "running")

=============================================================================
