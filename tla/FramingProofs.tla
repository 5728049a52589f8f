---------------------------- MODULE FramingProofs ----------------------------
(***************************************************************************)
(* Proofs about the parser and the connection it reads from: what a parse  *)
(* finds is not changed by bytes that come later, and so the way a stream  *)
(* is cut does not show.                                                   *)
(***************************************************************************)
EXTENDS Framing, SequenceTheorems, WellFoundedInduction, TLAPS

-----------------------------------------------------------------------------
(* The steps of a parse, one after another.                                *)

LEMMA Induction ==
  ASSUME NEW S, 0 \in S, \A n \in Nat : n \in S => n + 1 \in S
  PROVE  Nat \subseteq S
<1> DEFINE T == Nat \ S
<1>1. SUFFICES ASSUME T # {} PROVE FALSE
  OBVIOUS
<1>2. PICK x \in T : \A y \in T : ~ (<<y, x>> \in OpToRel(<, Nat))
  BY <1>1, NatLessThanWellFounded, WFMin
<1>3. \A y \in T : ~(y < x)
  BY <1>2 DEF OpToRel
<1>4. x \in Nat /\ x # 0 /\ x \notin S
  OBVIOUS
<1>5. x - 1 \in Nat /\ x - 1 < x /\ (x - 1) + 1 = x
  BY <1>4
<1>6. x - 1 \in S
  BY <1>3, <1>5
<1> QED
  BY <1>4, <1>5, <1>6

Start == Reading(1, <<>>)

\* g holds the first n steps of a parse of bytes.
Begins(g, bytes, n) ==
  /\ g = [i \in 0..n |-> g[i]]
  /\ g[0] = Start
  /\ \A i \in 1..n : g[i] = ParseStep(bytes, g[i - 1])

LEMMA BeginningsAgree ==
  ASSUME NEW bytes, NEW m \in Nat, NEW n \in Nat, NEW g, NEW h,
         Begins(g, bytes, m), Begins(h, bytes, n), NEW i \in Nat, i <= m, i <= n
  PROVE  g[i] = h[i]
<1> DEFINE S == {j \in Nat : j <= m /\ j <= n => g[j] = h[j]}
<1>1. 0 \in S
  BY DEF Begins
<1>2. ASSUME NEW j \in Nat, j \in S
      PROVE  j + 1 \in S
  <2>1. SUFFICES ASSUME j + 1 <= m, j + 1 <= n
                 PROVE  g[j + 1] = h[j + 1]
    OBVIOUS
  <2>2. j + 1 \in 1..m /\ j + 1 \in 1..n /\ (j + 1) - 1 = j
    BY <2>1
  <2>3. g[j] = h[j]
    BY <1>2, <2>1
  <2>4. g[j + 1] = ParseStep(bytes, g[j]) /\ h[j + 1] = ParseStep(bytes, h[j])
    BY <2>2 DEF Begins
  <2> QED
    BY <2>3, <2>4
<1> HIDE DEF S
<1>3. Nat \subseteq S
  BY <1>1, <1>2, Induction
<1> QED
  BY <1>3 DEF S

LEMMA BeginningsExist ==
  ASSUME NEW bytes, NEW n \in Nat
  PROVE  \E g : Begins(g, bytes, n)
<1> DEFINE S == {j \in Nat : \E g : Begins(g, bytes, j)}
<1>1. 0 \in S
  <2>1. Begins([i \in 0..0 |-> Start], bytes, 0)
    BY DEF Begins
  <2> QED
    BY <2>1
<1>2. ASSUME NEW j \in Nat, j \in S
      PROVE  j + 1 \in S
  <2>1. PICK g : Begins(g, bytes, j)
    BY <1>2
  <2> DEFINE h == [i \in 0..(j + 1) |-> IF i = j + 1 THEN ParseStep(bytes, g[j]) ELSE g[i]]
  <2>2. h[0] = Start
    BY <2>1 DEF Begins
  <2>3. ASSUME NEW i \in 1..(j + 1)
        PROVE  h[i] = ParseStep(bytes, h[i - 1])
    <3>1. CASE i = j + 1
      <4>1. h[i - 1] = g[j]
        BY <3>1
      <4> QED
        BY <3>1, <4>1
    <3>2. CASE i # j + 1
      <4>1. i \in 1..j /\ i - 1 \in 0..j
        BY <3>2
      <4>2. h[i] = g[i] /\ h[i - 1] = g[i - 1]
        BY <4>1
      <4> QED
        BY <2>1, <4>1, <4>2 DEF Begins
    <3> QED
      BY <3>1, <3>2
  <2>4. Begins(h, bytes, j + 1)
    BY <2>2, <2>3 DEF Begins
  <2> QED
    BY <2>4
<1> HIDE DEF S
<1>3. Nat \subseteq S
  BY <1>1, <1>2, Induction
<1> QED
  BY <1>3 DEF S

\* The recursive definition of ParseStates defines a function.
LEMMA StatesDefined ==
  ASSUME NEW bytes
  PROVE  /\ ParseStates(bytes)[0] = Start
         /\ \A n \in Nat : ParseStates(bytes)[n + 1] = ParseStep(bytes, ParseStates(bytes)[n])
<1> DEFINE G(n) == CHOOSE g : Begins(g, bytes, n)
           f == [n \in Nat |-> G(n)[n]]
<1>1. \A n \in Nat : Begins(G(n), bytes, n)
  BY BeginningsExist
<1> HIDE DEF G
<1>2. f[0] = Start
  BY <1>1 DEF Begins
<1>3. ASSUME NEW n \in Nat, n # 0
      PROVE  f[n] = ParseStep(bytes, f[n - 1])
  <2>1. n - 1 \in Nat /\ n \in 1..n
    BY <1>3
  <2>2. G(n)[n - 1] = G(n - 1)[n - 1]
    BY <1>1, <2>1, BeginningsAgree
  <2>3. G(n)[n] = ParseStep(bytes, G(n)[n - 1])
    BY <1>1, <2>1 DEF Begins
  <2> QED
    BY <2>1, <2>2, <2>3
<1>4. f = [n \in Nat |-> IF n = 0 THEN Start ELSE ParseStep(bytes, f[n - 1])]
  BY <1>2, <1>3
<1> HIDE DEF f
<1>5. \E h : h = [n \in Nat |-> IF n = 0 THEN Start ELSE ParseStep(bytes, h[n - 1])]
  BY <1>4
<1>6. ParseStates(bytes) =
        [n \in Nat |-> IF n = 0 THEN Start ELSE ParseStep(bytes, ParseStates(bytes)[n - 1])]
  BY <1>5, Zenon DEF ParseStates, Start
<1>7. ASSUME NEW f2, f2 = [n \in Nat |-> IF n = 0 THEN Start ELSE ParseStep(bytes, f2[n - 1])]
      PROVE  f2[0] = Start /\ \A n \in Nat : f2[n + 1] = ParseStep(bytes, f2[n])
  BY <1>7
<1> QED
  BY <1>6, <1>7

-----------------------------------------------------------------------------
(* One step.                                                               *)

LEMMA Pieces ==
  ASSUME NEW S, NEW bytes \in Seq(S), NEW more \in Seq(S), NEW a \in Nat \ {0}, NEW b \in Int,
         b <= Len(bytes)
  PROVE  SubSeq(bytes \o more, a, b) = SubSeq(bytes, a, b)
<1>1. \A i \in 1..Len(bytes) : (bytes \o more)[i] = bytes[i]
  OBVIOUS
<1>2. \A i \in 1..(b - a + 1) : a + i - 1 \in 1..Len(bytes)
  OBVIOUS
<1> QED
  BY <1>1, <1>2

LEMMA LeastFound ==
  ASSUME NEW S, S \subseteq Nat, S # {}
  PROVE  Min(S) \in S /\ \A y \in S : Min(S) <= y
<1>1. PICK x \in S : \A y \in S : ~ (<<y, x>> \in OpToRel(<, Nat))
  BY NatLessThanWellFounded, WFMin
<1>2. \A y \in S : ~(y < x)
  BY <1>1 DEF OpToRel
<1>3. \E z \in S : \A y \in S : z <= y
  <2>1. \A y \in S : y \in Nat
    OBVIOUS
  <2>2. \A y \in S : x <= y
    BY <1>2, <2>1
  <2> QED
    BY <2>2
<1> QED
  BY <1>3, Zenon DEF Min

\* A line that ends keeps its end.
LEMMA LinesKept ==
  ASSUME NEW S, NEW bytes \in Seq(S), NEW more \in Seq(S), NEW pos \in Nat \ {0},
         LineEnds(bytes, pos) # {}
  PROVE  /\ LineEnds(bytes \o more, pos) # {}
         /\ Min(LineEnds(bytes \o more, pos)) = Min(LineEnds(bytes, pos))
         /\ Min(LineEnds(bytes, pos)) \in pos..(Len(bytes) - 1)
<1> DEFINE A == LineEnds(bytes, pos)
           B == LineEnds(bytes \o more, pos)
<1>1. A \subseteq pos..(Len(bytes) - 1) /\ A \subseteq Nat /\ B \subseteq Nat
  BY DEF LineEnds
<1>2. Len(bytes \o more) = Len(bytes) + Len(more) /\ Len(bytes) \in Nat /\ Len(more) \in Nat
  OBVIOUS
<1>3. \A i \in pos..(Len(bytes) - 1) : SubSeq(bytes \o more, i, i + 1) = SubSeq(bytes, i, i + 1)
  <2> SUFFICES ASSUME NEW i \in pos..(Len(bytes) - 1)
               PROVE  SubSeq(bytes \o more, i, i + 1) = SubSeq(bytes, i, i + 1)
    OBVIOUS
  <2>1. i \in Nat \ {0} /\ i + 1 \in Int /\ i + 1 <= Len(bytes)
    BY <1>2
  <2> QED
    BY <2>1, Pieces
<1>4. \A i \in pos..(Len(bytes) - 1) : i \in A <=> i \in B
  BY <1>2, <1>3 DEF LineEnds
<1> HIDE DEF A, B
<1>5. A # {} /\ B # {}
  BY <1>1, <1>4 DEF A
<1>6. Min(A) \in A /\ (\A y \in A : Min(A) <= y) /\ Min(B) \in B /\ (\A y \in B : Min(B) <= y)
  BY <1>1, <1>5, LeastFound
<1>7. Min(A) \in B /\ Min(B) <= Min(A)
  BY <1>1, <1>4, <1>6
<1>8. Min(A) \in pos..(Len(bytes) - 1) /\ Min(B) \in Nat
  BY <1>1, <1>6
<1>9. Min(B) >= pos
  <2>1. \A y \in B : y >= pos
    BY DEF B, LineEnds
  <2> QED
    BY <1>6, <2>1
<1>10. Min(B) \in A
  BY <1>2, <1>4, <1>6, <1>7, <1>8, <1>9
<1>11. Min(A) = Min(B)
  BY <1>1, <1>6, <1>7, <1>8, <1>10
<1> QED
  BY <1>5, <1>8, <1>11 DEF A, B

\* A text denotes at most one number.
LEMMA Numbers ==
  ASSUME NEW text, Length(text) \ {-1} # {}
  PROVE  (CHOOSE n \in ParseI64(text) : TRUE) \in Nat
<1> DEFINE number == CHOOSE n \in ParseI64(text) : TRUE
<1>1. \E x : ParseI64(text) \subseteq {x} \cap (-I64Max - 1)..I64Max
  BY DEF ParseI64
<1>2. PICK m \in ParseI64(text) : m >= -1 /\ m # -1
  BY DEF Length
<1>3. number \in ParseI64(text)
  BY <1>2
<1>4. number = m /\ m \in Int
  BY <1>1, <1>2, <1>3, RespAssumption
<1>5. m \in Nat
  BY <1>2, <1>4
<1> QED
  BY <1>4, <1>5

LEMMA PayloadParsed ==
  ASSUME NEW S, NEW bytes \in Seq(S), NEW more \in Seq(S), NEW open,
         NEW start \in Nat \ {0}, NEW len \in Nat, NEW r, r = ParseBulk(bytes, start, len, open)
  PROVE  /\ \/ r \in {Incomplete, Malformed}
            \/ \E v : \E c \in start..(Len(bytes) + 1) : r = Parsed(v, c, open)
         /\ r # Incomplete => ParseBulk(bytes \o more, start, len, open) = r
<1> DEFINE end == start + len
<1>1. end \in Nat \ {0} /\ start <= end /\ Len(bytes) \in Nat
  OBVIOUS
<1>2. Len(bytes \o more) >= Len(bytes)
  OBVIOUS
<1>3. CASE end + 1 > Len(bytes)
  BY <1>3 DEF ParseBulk
<1>4. CASE end + 1 <= Len(bytes)
  <2>1. SubSeq(bytes \o more, end, end + 1) = SubSeq(bytes, end, end + 1)
    BY <1>1, <1>4, Pieces
  <2>2. SubSeq(bytes \o more, start, end - 1) = SubSeq(bytes, start, end - 1)
    BY <1>1, <1>4, Pieces
  <2> DEFINE v == String(SubSeq(bytes, start, end - 1))
  <2>3. r = IF SubSeq(bytes, end, end + 1) # CRLF THEN Malformed ELSE Parsed(v, end + 2, open)
    BY <1>1, <1>4 DEF ParseBulk
  <2>4. ParseBulk(bytes \o more, start, len, open) =
          IF SubSeq(bytes \o more, end, end + 1) # CRLF THEN Malformed
          ELSE Parsed(String(SubSeq(bytes \o more, start, end - 1)), end + 2, open)
    BY <1>1, <1>2, <1>4 DEF ParseBulk
  <2>5. end + 2 \in start..(Len(bytes) + 1)
    BY <1>1, <1>4
  <2> HIDE DEF v
  <2> QED
    BY <2>1, <2>2, <2>3, <2>4, <2>5 DEF v
<1> QED
  BY <1>1, <1>3, <1>4

\* What a call may make of the message at pos.
Called(r, bytes, pos, open) ==
  \/ r \in {Incomplete, Malformed, Thrown}
  \/ \E v : \E c \in (pos + 3)..(Len(bytes) + 1) : r = Parsed(v, c, open)
  \/ \E len : \E c \in (pos + 3)..(Len(bytes) + 1) :
       r = Reading(c, Append(open, OpenArray(len, <<>>)))

\* ParseMessage, with its local definitions as parameters.
Message(type, text, number, start, bytes, open) ==
  CASE type = "+" -> Parsed(String(text), start, open)
    [] type = "-" -> Parsed(RespError(text), start, open)
    [] type = ":" /\ ParseI64(text) # {} -> Parsed(Integer(number), start, open)
    [] type = ":" /\ ParseI64(text) = {} -> Malformed
    [] type \in {"$", "*"} /\ Length(text) = {} -> Malformed
    [] type \in {"$", "*"} /\ Length(text) = {-1} -> Parsed(Null, start, open)
    [] type = "$" /\ Length(text) \ {-1} # {} -> ParseBulk(bytes, start, number, open)
    [] type = "*" /\ Length(text) \ {-1} # {} ->
         IF number > MaxReserve THEN Thrown
         ELSE Reading(start, Append(open, OpenArray(number, <<>>)))

LEMMA MessageParsed ==
  ASSUME NEW S, NEW bytes \in Seq(S), NEW more \in Seq(S), NEW open,
         NEW pos \in 1..Len(bytes), bytes[pos] \in {"+", "-", ":", "$", "*"},
         NEW end \in (pos + 1)..(Len(bytes) - 1), NEW r, r = ParseMessage(bytes, pos, end, open)
  PROVE  /\ Called(r, bytes, pos, open)
         /\ r # Incomplete => ParseMessage(bytes \o more, pos, end, open) = r
<1> DEFINE type == bytes[pos]
           text == SubSeq(bytes, pos + 1, end - 1)
           start == end + 2
           number == CHOOSE n \in ParseI64(text) : TRUE
<1>1. (bytes \o more)[pos] = type
  OBVIOUS
<1>2. SubSeq(bytes \o more, pos + 1, end - 1) = text
  BY Pieces
<1>3. /\ start \in (pos + 3)..(Len(bytes) + 1)
      /\ start \in Nat \ {0} /\ pos \in Nat
  OBVIOUS
<1>4. Len(bytes) \in Nat
  OBVIOUS
<1> HIDE DEF type, text, start, number
<1>5. ASSUME NEW b, b[pos] = type, SubSeq(b, pos + 1, end - 1) = text
      PROVE  ParseMessage(b, pos, end, open) = Message(type, text, number, start, b, open)
  <2>1. ParseMessage(b, pos, end, open) =
          Message(b[pos], SubSeq(b, pos + 1, end - 1),
                  CHOOSE n \in ParseI64(SubSeq(b, pos + 1, end - 1)) : TRUE, end + 2, b, open)
    BY Zenon DEF ParseMessage, Message
  <2> QED
    BY <1>5, <2>1 DEF number, start
<1>6. /\ r = ParseMessage(bytes, pos, end, open)
      /\ bytes[pos] = type /\ SubSeq(bytes, pos + 1, end - 1) = text
      /\ type \in {"+", "-", ":", "$", "*"}
  BY DEF type, text
<1>7. Length(text) \ {-1} # {} => number \in Nat
  BY Numbers DEF number
<1>8. CASE type = "$" /\ Length(text) \ {-1} # {}
  <2>1. Length(text) # {} /\ Length(text) # {-1}
    BY <1>8
  <2>2. r = ParseBulk(bytes, start, number, open)
    BY <1>5, <1>6, <1>8, <2>1 DEF Message
  <2>3. ParseMessage(bytes \o more, pos, end, open) = ParseBulk(bytes \o more, start, number, open)
    BY <1>1, <1>2, <1>5, <1>8, <2>1 DEF Message
  <2>4. /\ \/ r \in {Incomplete, Malformed}
           \/ \E v : \E c \in start..(Len(bytes) + 1) : r = Parsed(v, c, open)
        /\ r # Incomplete => ParseBulk(bytes \o more, start, number, open) = r
    BY <1>3, <1>7, <1>8, <2>2, PayloadParsed
  <2>5. start..(Len(bytes) + 1) \subseteq (pos + 3)..(Len(bytes) + 1)
    BY <1>3, <1>4
  <2> QED
    BY <2>3, <2>4, <2>5 DEF Called
<1>9. CASE ~(type = "$" /\ Length(text) \ {-1} # {})
  <2>1. ParseMessage(bytes \o more, pos, end, open) = r
    BY <1>1, <1>2, <1>5, <1>6, <1>9 DEF Message
  <2>2. Called(r, bytes, pos, open)
    BY <1>3, <1>5, <1>6, <1>9 DEF Called, Message
  <2> QED
    BY <2>1, <2>2
<1> QED
  BY <1>8, <1>9

\* A call at pos, and what more bytes change of it: nothing but that it may go on when
\* it had to wait for them.
LEMMA CallParsed ==
  ASSUME NEW S, NEW bytes \in Seq(S), NEW more \in Seq(S), NEW open, NEW pos \in Nat \ {0},
         NEW r, r = ParseAt(bytes, pos, open)
  PROVE  /\ Called(r, bytes, pos, open)
         /\ r # Incomplete => ParseAt(bytes \o more, pos, open) = r
<1>1. CASE pos > Len(bytes)
  BY <1>1 DEF ParseAt, Called
<1>2. CASE pos <= Len(bytes) /\ bytes[pos] \notin {"+", "-", ":", "$", "*"}
  <2>1. (bytes \o more)[pos] = bytes[pos] /\ ~(pos > Len(bytes \o more)) /\ ~(pos > Len(bytes))
    BY <1>2
  <2> QED
    BY <1>2, <2>1 DEF ParseAt, Called
<1>3. CASE pos <= Len(bytes) /\ bytes[pos] \in {"+", "-", ":", "$", "*"}
           /\ LineEnds(bytes, pos + 1) = {}
  BY <1>3 DEF ParseAt, Called
<1>4. CASE pos <= Len(bytes) /\ bytes[pos] \in {"+", "-", ":", "$", "*"}
           /\ LineEnds(bytes, pos + 1) # {}
  <2> DEFINE end == Min(LineEnds(bytes, pos + 1))
  <2>1. pos + 1 \in Nat \ {0} /\ pos \in 1..Len(bytes)
    BY <1>4
  <2>2. /\ LineEnds(bytes \o more, pos + 1) # {}
        /\ Min(LineEnds(bytes \o more, pos + 1)) = end
        /\ end \in (pos + 1)..(Len(bytes) - 1)
    BY <1>4, <2>1, LinesKept
  <2>3. (bytes \o more)[pos] = bytes[pos] /\ ~(pos > Len(bytes \o more)) /\ ~(pos > Len(bytes))
    BY <1>4
  <2> HIDE DEF end
  <2>4. r = ParseMessage(bytes, pos, end, open)
    BY <1>4, <2>3 DEF ParseAt, end
  <2>5. ParseAt(bytes \o more, pos, open) = ParseMessage(bytes \o more, pos, end, open)
    BY <1>4, <2>2, <2>3 DEF ParseAt
  <2> QED
    BY <1>4, <2>1, <2>2, <2>4, <2>5, MessageParsed
<1> QED
  BY <1>1, <1>2, <1>3, <1>4

-----------------------------------------------------------------------------
(* All steps.                                                              *)

\* What n steps may lead to.  Each of them reads at least three bytes or ends an array,
\* and an array is opened by a step that reads: so the steps left are bounded.
Reached(bytes, n, s) ==
  \/ s \in {Incomplete, Malformed, Thrown}
  \/ \E v : \E c \in 1..Len(bytes) : s = Complete(v, c)
  \/ \E S : \E open \in Seq(S) : \E cursor \in 1..(Len(bytes) + 1) :
       s = Reading(cursor, open) /\ n + Len(open) <= cursor - 1

LEMMA FrontType ==
  ASSUME NEW S, NEW s \in Seq(S), s # <<>>
  PROVE  Front(s) \in Seq(S) /\ Len(Front(s)) = Len(s) - 1
<1>1. Len(s) \in Nat \ {0}
  OBVIOUS
<1>2. \A i \in 1..(Len(s) - 1) : s[i] \in S
  OBVIOUS
<1>3. Front(s) = [i \in 1..(Len(s) - 1) |-> s[i]]
  BY <1>1 DEF Front
<1> QED
  BY <1>1, <1>2, <1>3

LEMMA ParsedReached ==
  ASSUME NEW bytes, Len(bytes) \in Nat, NEW S, NEW open \in Seq(S), NEW n \in Nat, NEW v,
         NEW c \in 2..(Len(bytes) + 1), n + Len(open) <= c - 1
  PROVE  Reached(bytes, n, Parsed(v, c, open))
<1>1. CASE open = <<>>
  <2>1. c - 1 \in 1..Len(bytes)
    OBVIOUS
  <2>2. Parsed(v, c, open) = Complete(v, c - 1)
    BY <1>1 DEF Parsed
  <2> QED
    BY <2>1, <2>2 DEF Reached
<1>2. CASE open # <<>>
  <2> DEFINE inner == OpenArray(Last(open).len, Append(Last(open).elems, v))
             after == Append(Front(open), inner)
  <2>1. Parsed(v, c, open) = Reading(c, after)
    BY <1>2 DEF Parsed
  <2> HIDE DEF inner
  <2>2. Len(open) \in Nat \ {0}
    BY <1>2
  <2>3. Front(open) \in Seq(S) /\ Len(Front(open)) = Len(open) - 1
    BY <1>2, FrontType
  <2>4. after \in Seq(S \cup {inner}) /\ Len(after) = Len(open)
    <3>1. Front(open) \in Seq(S \cup {inner}) /\ inner \in S \cup {inner}
      BY <2>3
    <3> QED
      BY <2>2, <2>3, <3>1
  <2> HIDE DEF after
  <2> QED
    BY <2>1, <2>4 DEF Reached
<1> QED
  BY <1>1, <1>2

\* The next step, and what more bytes change of it.
LEMMA StepParsed ==
  ASSUME NEW B, NEW bytes \in Seq(B), NEW more \in Seq(B), NEW n \in Nat, NEW s,
         Reached(bytes, n, s), NEW r, r = ParseStep(bytes, s)
  PROVE  /\ Reached(bytes, n + 1, r)
         /\ r # Incomplete => ParseStep(bytes \o more, s) = r
<1>1. CASE s \in {Incomplete, Malformed, Thrown}
  <2>1. s.status # "Reading"
    BY <1>1 DEF Incomplete, Malformed, Thrown
  <2> QED
    BY <1>1, <2>1 DEF ParseStep, Reached
<1>2. CASE \E v : \E c \in 1..Len(bytes) : s = Complete(v, c)
  <2>1. s.status # "Reading"
    BY <1>2 DEF Complete
  <2> QED
    BY <1>2, <2>1 DEF ParseStep, Reached
<1>3. CASE \E S : \E open \in Seq(S) : \E cursor \in 1..(Len(bytes) + 1) :
             s = Reading(cursor, open) /\ n + Len(open) <= cursor - 1
  <2>1. PICK S : \E open \in Seq(S) : \E cursor \in 1..(Len(bytes) + 1) :
             s = Reading(cursor, open) /\ n + Len(open) <= cursor - 1
    BY <1>3
  <2>2. PICK open \in Seq(S) : \E cursor \in 1..(Len(bytes) + 1) :
             s = Reading(cursor, open) /\ n + Len(open) <= cursor - 1
    BY <2>1
  <2>3. PICK cursor \in 1..(Len(bytes) + 1) :
             s = Reading(cursor, open) /\ n + Len(open) <= cursor - 1
    BY <2>2
  <2>4. s.status = "Reading" /\ s.open = open /\ s.cursor = cursor
    BY <2>3 DEF Reading
  <2>5. Len(open) \in Nat /\ Len(bytes) \in Nat /\ cursor \in Nat \ {0} /\ cursor <= Len(bytes) + 1
        /\ n + Len(open) <= cursor - 1
    BY <2>3
  <2>6. CASE open # <<>> /\ Len(Last(open).elems) = Last(open).len
    <3>1. /\ r = Parsed(Array(Last(open).elems), cursor, Front(open))
          /\ ParseStep(bytes \o more, s) = r
      BY <2>4, <2>6 DEF ParseStep
    <3>2. Front(open) \in Seq(S) /\ Len(Front(open)) = Len(open) - 1
      BY <2>6, FrontType
    <3>3. /\ n + 1 \in Nat /\ (n + 1) + Len(Front(open)) <= cursor - 1
          /\ cursor \in 2..(Len(bytes) + 1)
      BY <2>5, <2>6, <3>2
    <3> QED
      BY <2>5, <3>1, <3>2, <3>3, ParsedReached
  <2>7. CASE ~(open # <<>> /\ Len(Last(open).elems) = Last(open).len)
    <3>1. r = ParseAt(bytes, cursor, open)
      BY <2>4, <2>7 DEF ParseStep
    <3>2. ParseStep(bytes \o more, s) = ParseAt(bytes \o more, cursor, open)
      BY <2>4, <2>7 DEF ParseStep
    <3>3. /\ Called(r, bytes, cursor, open)
          /\ r # Incomplete => ParseAt(bytes \o more, cursor, open) = r
      BY <2>5, <3>1, CallParsed
    <3>4. CASE r \in {Incomplete, Malformed, Thrown}
      BY <3>2, <3>3, <3>4 DEF Reached
    <3>5. CASE \E v : \E c \in (cursor + 3)..(Len(bytes) + 1) : r = Parsed(v, c, open)
      <4>1. PICK v : \E c \in (cursor + 3)..(Len(bytes) + 1) : r = Parsed(v, c, open)
        BY <3>5
      <4>2. PICK c \in (cursor + 3)..(Len(bytes) + 1) : r = Parsed(v, c, open)
        BY <4>1
      <4>3. n + 1 \in Nat /\ c \in 2..(Len(bytes) + 1) /\ (n + 1) + Len(open) <= c - 1
        BY <2>5
      <4>4. Reached(bytes, n + 1, r)
        BY <2>5, <4>2, <4>3, ParsedReached
      <4> QED
        BY <3>2, <3>3, <4>4
    <3>6. CASE \E len : \E c \in (cursor + 3)..(Len(bytes) + 1) :
                 r = Reading(c, Append(open, OpenArray(len, <<>>)))
      <4>1. PICK len : \E c \in (cursor + 3)..(Len(bytes) + 1) :
                 r = Reading(c, Append(open, OpenArray(len, <<>>)))
        BY <3>6
      <4>2. PICK c \in (cursor + 3)..(Len(bytes) + 1) :
                 r = Reading(c, Append(open, OpenArray(len, <<>>)))
        BY <4>1
      <4> DEFINE x == OpenArray(len, <<>>)
      <4> HIDE DEF x
      <4>3. Append(open, x) \in Seq(S \cup {x}) /\ Len(Append(open, x)) = Len(open) + 1
        OBVIOUS
      <4>4. c \in 1..(Len(bytes) + 1) /\ (n + 1) + (Len(open) + 1) <= c - 1
        BY <2>5
      <4>5. r = Reading(c, Append(open, x))
        BY <4>2 DEF x
      <4>6. Reached(bytes, n + 1, r)
        BY <4>3, <4>4, <4>5 DEF Reached
      <4> QED
        BY <3>2, <3>3, <4>6
    <3> QED
      BY <3>3, <3>4, <3>5, <3>6 DEF Called
  <2> QED
    BY <2>6, <2>7
<1> QED
  BY <1>1, <1>2, <1>3 DEF Reached

LEMMA EachReached ==
  ASSUME NEW B, NEW bytes \in Seq(B), NEW n \in Nat
  PROVE  Reached(bytes, n, ParseStates(bytes)[n])
<1> DEFINE T == {j \in Nat : Reached(bytes, j, ParseStates(bytes)[j])}
<1>1. 0 \in T
  <2>1. <<>> \in Seq({}) /\ Len(<<>>) = 0 /\ 1 \in 1..(Len(bytes) + 1)
    OBVIOUS
  <2>2. ParseStates(bytes)[0] = Reading(1, <<>>)
    BY StatesDefined DEF Start
  <2>3. 0 + Len(<<>>) <= 1 - 1
    OBVIOUS
  <2>4. Reached(bytes, 0, Reading(1, <<>>))
    BY <2>1, <2>3 DEF Reached
  <2> QED
    BY <2>2, <2>4
<1>2. ASSUME NEW j \in Nat, j \in T
      PROVE  j + 1 \in T
  <2>1. ParseStates(bytes)[j + 1] = ParseStep(bytes, ParseStates(bytes)[j])
    BY StatesDefined
  <2>2. Reached(bytes, j, ParseStates(bytes)[j])
    BY <1>2
  <2>3. Reached(bytes, j + 1, ParseStates(bytes)[j + 1])
    BY <2>1, <2>2, StepParsed, EmptySeq
  <2> QED
    BY <2>3
<1> HIDE DEF T
<1>3. Nat \subseteq T
  BY <1>1, <1>2, Induction
<1> QED
  BY <1>3 DEF T

\* A parse that does not have to wait takes the same steps when more bytes have come.
LEMMA SameSteps ==
  ASSUME NEW B, NEW bytes \in Seq(B), NEW more \in Seq(B), NEW n \in Nat,
         ParseStates(bytes)[n] # Incomplete
  PROVE  ParseStates(bytes \o more)[n] = ParseStates(bytes)[n]
<1> DEFINE T == {j \in Nat : ParseStates(bytes)[j] # Incomplete =>
                               ParseStates(bytes \o more)[j] = ParseStates(bytes)[j]}
<1>1. 0 \in T
  BY StatesDefined
<1>2. ASSUME NEW j \in Nat, j \in T
      PROVE  j + 1 \in T
  <2>1. SUFFICES ASSUME ParseStates(bytes)[j + 1] # Incomplete
                 PROVE  ParseStates(bytes \o more)[j + 1] = ParseStates(bytes)[j + 1]
    OBVIOUS
  <2>2. ParseStates(bytes)[j + 1] = ParseStep(bytes, ParseStates(bytes)[j])
    BY StatesDefined
  <2>3. ParseStates(bytes \o more)[j + 1] = ParseStep(bytes \o more, ParseStates(bytes \o more)[j])
    BY StatesDefined
  <2>4. ParseStates(bytes)[j] # Incomplete
    <3>1. Incomplete.status # "Reading"
      BY DEF Incomplete
    <3>2. ParseStep(bytes, Incomplete) = Incomplete
      BY <3>1 DEF ParseStep
    <3> QED
      BY <2>1, <2>2, <3>2
  <2>5. ParseStates(bytes \o more)[j] = ParseStates(bytes)[j]
    BY <1>2, <2>4
  <2>6. Reached(bytes, j, ParseStates(bytes)[j])
    BY EachReached
  <2> QED
    BY <2>1, <2>2, <2>3, <2>5, <2>6, StepParsed
<1> HIDE DEF T
<1>3. Nat \subseteq T
  BY <1>1, <1>2, Induction
<1> QED
  BY <1>3 DEF T

LEMMA FinalStays ==
  ASSUME NEW bytes, NEW n \in Nat, NEW m \in Nat, n <= m,
         ParseStates(bytes)[n].status # "Reading"
  PROVE  ParseStates(bytes)[m] = ParseStates(bytes)[n]
<1> DEFINE T == {j \in Nat : ParseStates(bytes)[n + j] = ParseStates(bytes)[n]}
<1>1. 0 \in T
  OBVIOUS
<1>2. ASSUME NEW j \in Nat, j \in T
      PROVE  j + 1 \in T
  <2>1. n + j \in Nat /\ n + (j + 1) = (n + j) + 1
    OBVIOUS
  <2>2. ParseStates(bytes)[(n + j) + 1] = ParseStep(bytes, ParseStates(bytes)[n + j])
    BY <2>1, StatesDefined
  <2>3. ParseStates(bytes)[n + j] = ParseStates(bytes)[n]
    BY <1>2
  <2>4. ParseStates(bytes)[n + (j + 1)] = ParseStates(bytes)[n]
    BY <2>1, <2>2, <2>3 DEF ParseStep
  <2> QED
    BY <2>4
<1> HIDE DEF T
<1>3. Nat \subseteq T
  BY <1>1, <1>2, Induction
<1>4. m - n \in T /\ n + (m - n) = m
  BY <1>3
<1> QED
  BY <1>4 DEF T

\* The recursion of parse_at ends for every buffer, however its bytes nest: a message is
\* found, of at least one byte and no more than there are, or a reason why none is.
THEOREM EveryParseEnds ==
  ASSUME NEW B, NEW bytes \in Seq(B)
  PROVE  \/ Parse(bytes) \in {Incomplete, Malformed, Thrown}
         \/ \E v : \E c \in 1..Len(bytes) : Parse(bytes) = Complete(v, c)
<1>1. Len(bytes) \in Nat /\ Len(bytes) + 1 \in Nat
  OBVIOUS
<1>2. Reached(bytes, Len(bytes) + 1, Parse(bytes))
  BY <1>1, EachReached DEF Parse
<1>3. ASSUME NEW S, NEW open \in Seq(S), NEW cursor \in 1..(Len(bytes) + 1),
             (Len(bytes) + 1) + Len(open) <= cursor - 1
      PROVE  FALSE
  <2>1. Len(open) \in Nat
    OBVIOUS
  <2> QED
    BY <1>1, <1>3, <2>1
<1> QED
  BY <1>2, <1>3 DEF Reached

\* What a parse finds is not changed by bytes that come behind it: no message, no error
\* and no exception depends on how much of the stream has been received.
THEOREM ParseStable ==
  ASSUME NEW B, NEW bytes \in Seq(B), NEW more \in Seq(B), Parse(bytes) # Incomplete
  PROVE  Parse(bytes \o more) = Parse(bytes)
<1> DEFINE n == Len(bytes) + 1
           m == Len(bytes \o more) + 1
<1>1. n \in Nat /\ m \in Nat /\ n <= m
  OBVIOUS
<1>2. Parse(bytes).status # "Reading"
  BY EveryParseEnds DEF Incomplete, Malformed, Thrown, Complete
<1>3. Parse(bytes) = ParseStates(bytes)[n] /\ Parse(bytes \o more) = ParseStates(bytes \o more)[m]
  BY DEF Parse
<1> HIDE DEF n, m
<1>4. ParseStates(bytes \o more)[n] = ParseStates(bytes)[n]
  BY <1>1, <1>3, SameSteps
<1> QED
  BY <1>1, <1>2, <1>3, <1>4, FinalStays

-----------------------------------------------------------------------------
(* The connection.                                                         *)

LEMMA NothingToParse == Parse(<<>>) = Incomplete
<1>1. <<>> \in Seq(STRING) /\ Len(<<>>) = 0
  OBVIOUS
<1>2. ~(\E v : \E c \in 1..Len(<<>>) : Parse(<<>>) = Complete(v, c))
  BY <1>1
<1>3. Parse(<<>>) = ParseStates(<<>>)[0 + 1]
  BY <1>1 DEF Parse
<1>4. ParseStates(<<>>)[0 + 1] = ParseStep(<<>>, Reading(1, <<>>))
  BY StatesDefined DEF Start
<1>5. ParseStep(<<>>, Reading(1, <<>>)) = ParseAt(<<>>, 1, <<>>)
  BY DEF ParseStep, Reading
<1>6. ParseAt(<<>>, 1, <<>>) = Incomplete
  BY <1>1 DEF ParseAt
<1> QED
  BY <1>3, <1>4, <1>5, <1>6

\* Each piece of the wire, and two that meet.
LEMMA Piece ==
  ASSUME NEW S, NEW w \in Seq(S), NEW a \in Nat, NEW b \in Nat, a <= b, b <= Len(w)
  PROVE  SubSeq(w, a + 1, b) \in Seq(S) /\ Len(SubSeq(w, a + 1, b)) = b - a
<1>1. \A i \in (a + 1)..b : w[i] \in S
  OBVIOUS
<1>2. a + 1 \in Int /\ b \in Int
  OBVIOUS
<1>3. /\ SubSeq(w, a + 1, b) \in Seq(S)
      /\ Len(SubSeq(w, a + 1, b)) = IF a + 1 <= b THEN b - (a + 1) + 1 ELSE 0
  BY <1>1, <1>2, SubSeqProperties
<1> QED
  BY <1>3

LEMMA PiecesMeet ==
  ASSUME NEW S, NEW w \in Seq(S), NEW a \in Nat, NEW b \in Nat, NEW c \in Nat,
         a <= b, b <= c, c <= Len(w)
  PROVE  SubSeq(w, a + 1, b) \o SubSeq(w, b + 1, c) = SubSeq(w, a + 1, c)
<1> DEFINE x == SubSeq(w, a + 1, b)
           y == SubSeq(w, b + 1, c)
           z == SubSeq(w, a + 1, c)
<1>1. /\ x \in Seq(S) /\ Len(x) = b - a
      /\ y \in Seq(S) /\ Len(y) = c - b
      /\ z \in Seq(S) /\ Len(z) = c - a
  BY Piece
<1>2. /\ \A i \in 1..(b - a) : x[i] = w[a + i]
      /\ \A i \in 1..(c - b) : y[i] = w[b + i]
      /\ \A i \in 1..(c - a) : z[i] = w[a + i]
  OBVIOUS
<1> HIDE DEF x, y, z
<1>3. /\ x \o y \in Seq(S) /\ Len(x \o y) = Len(x) + Len(y)
      /\ \A i \in 1..(Len(x) + Len(y)) :
           (x \o y)[i] = IF i <= Len(x) THEN x[i] ELSE y[i - Len(x)]
  <2>1. x \in Seq(S) /\ y \in Seq(S)
    BY <1>1
  <2> QED
    BY <2>1, ConcatProperties
<1>4. PICK p, q : p = b - a /\ q = c - b
  OBVIOUS
<1>5. /\ p \in Nat /\ q \in Nat /\ p + q = c - a
      /\ Len(x) = p /\ Len(y) = q /\ Len(z) = p + q
      /\ a + p = b
  BY <1>1, <1>4
<1>6. ASSUME NEW i \in 1..(p + q)
      PROVE  (x \o y)[i] = z[i]
  <2>1. z[i] = w[a + i]
    BY <1>2, <1>5
  <2>2. CASE i <= p
    BY <1>2, <1>3, <1>4, <1>5, <2>1, <2>2
  <2>3. CASE i > p
    <3>1. i - p \in 1..q /\ b + (i - p) = a + i
      BY <1>5, <2>3
    <3>2. (x \o y)[i] = y[i - p]
      BY <1>3, <1>5, <2>3
    <3> QED
      BY <1>2, <1>4, <2>1, <3>1, <3>2
  <2>4. i <= p \/ i > p
    BY <1>5
  <2> QED
    BY <2>2, <2>3, <2>4
<1>7. z \in Seq(S)
  BY <1>1
<1>8. x \o y = z
  <2> DEFINE xy == x \o y
  <2>1. xy \in Seq(S) /\ Len(xy) = Len(z) /\ \A i \in 1..Len(z) : xy[i] = z[i]
    BY <1>3, <1>5, <1>6
  <2> HIDE DEF xy
  <2>2. xy = z
    BY <1>7, <2>1
  <2> QED
    BY <2>2 DEF xy
<1> QED
  BY <1>8 DEF x, y, z

\* What the peer has sent.
LaidOut ==
  /\ stream \in Seq(Frames)
  /\ wire \in Seq(STRING)
  /\ ends \in Seq(Nat) /\ Len(ends) = Len(stream)
  /\ fed \in 0..Len(wire)
  /\ stage \in {"recv", "parse", "closed", "terminated"}
  /\ EndOf(Len(stream)) = Len(wire)
  /\ \A i, j \in 0..Len(stream) : i <= j => EndOf(i) <= EndOf(j)
  /\ \A i \in 1..Len(stream) : SubSeq(wire, EndOf(i - 1) + 1, ends[i]) = stream[i].bytes

\* The first k frames have been parsed, and buf holds what came behind them.
ParsedUpTo(k) ==
  /\ values = Meanings(k)
  /\ EndOf(k) <= fed
  /\ buf = SubSeq(wire, EndOf(k) + 1, fed)

FInv ==
  /\ LaidOut
  /\ stage \in {"recv", "parse"} => \E k \in 0..Len(stream) : ParsedUpTo(k)
  /\ stage = "recv" => Parse(buf) = Incomplete
  /\ EndsAtTheRightFrame

LEMMA FrameBounds ==
  ASSUME LaidOut, NEW k \in 0..Len(stream)
  PROVE  /\ EndOf(k) \in Nat /\ EndOf(k) <= Len(wire)
         /\ Len(stream) \in Nat /\ Len(wire) \in Nat /\ fed \in Nat
<1>1. Len(stream) \in Nat /\ Len(wire) \in Nat /\ fed \in Nat
  BY DEF LaidOut
<1>2. EndOf(k) \in Nat
  BY <1>1 DEF LaidOut, EndOf
<1>3. EndOf(k) <= EndOf(Len(stream))
  BY <1>1 DEF LaidOut
<1> QED
  BY <1>1, <1>2, <1>3 DEF LaidOut

\* The frame behind the first k.
LEMMA NextFrame ==
  ASSUME LaidOut, NEW k \in 0..Len(stream), k # Len(stream)
  PROVE  /\ k + 1 \in 1..Len(stream) /\ stream[k + 1] \in Frames
         /\ EndOf(k + 1) = ends[k + 1] /\ EndOf(k) <= ends[k + 1] /\ ends[k + 1] \in Nat
         /\ ends[k + 1] <= Len(wire)
         /\ stream[k + 1].bytes = SubSeq(wire, EndOf(k) + 1, ends[k + 1])
         /\ stream[k + 1].bytes \in Seq(STRING)
         /\ Len(stream[k + 1].bytes) = ends[k + 1] - EndOf(k)
<1>1. /\ k \in Nat /\ k + 1 \in 1..Len(stream) /\ k + 1 \in 0..Len(stream) /\ k + 1 # 0
      /\ (k + 1) - 1 = k /\ k <= k + 1
  BY FrameBounds
<1>2. EndOf(k + 1) = ends[k + 1]
  BY <1>1 DEF EndOf
<1>3. EndOf(k) <= EndOf(k + 1)
  BY <1>1 DEF LaidOut
<1>4. EndOf(k) \in Nat /\ EndOf(k + 1) \in Nat /\ EndOf(k + 1) <= Len(wire)
  BY <1>1, FrameBounds
<1>5. stream[k + 1].bytes = SubSeq(wire, EndOf(k) + 1, EndOf(k + 1))
  BY <1>1, <1>2 DEF LaidOut
<1>6. wire \in Seq(STRING) /\ stream[k + 1] \in Frames
  BY <1>1 DEF LaidOut
<1>7. SubSeq(wire, EndOf(k) + 1, EndOf(k + 1)) \in Seq(STRING)
      /\ Len(SubSeq(wire, EndOf(k) + 1, EndOf(k + 1))) = EndOf(k + 1) - EndOf(k)
  BY <1>3, <1>4, <1>6, Piece
<1> QED
  BY <1>1, <1>2, <1>3, <1>4, <1>5, <1>6, <1>7

\* A frame alone: what the parser makes of it is never that it needs more.
LEMMA FrameAlone ==
  ASSUME NEW f \in Frames
  PROVE  /\ Parse(f.bytes) # Incomplete
         /\ Parse(f.bytes) = Malformed => f.means = Garbage
         /\ Parse(f.bytes) = Thrown => f.means = TooLong
         /\ \A v, c : Parse(f.bytes) = Complete(v, c) => v = f.means /\ c = Len(f.bytes)
<1>1. Parse(f.bytes) = CASE f.means = Garbage -> Malformed
                         [] f.means = TooLong -> Thrown
                         [] OTHER -> Complete(f.means, Len(f.bytes))
  BY FramingAssumption
<1>2. \/ f.means = Garbage /\ Parse(f.bytes) = Malformed
      \/ f.means = TooLong /\ Parse(f.bytes) = Thrown
      \/ Parse(f.bytes) = Complete(f.means, Len(f.bytes))
  BY <1>1
<1> QED
  BY <1>2 DEF Incomplete, Malformed, Thrown, Complete

\* Once a frame has been received whole, the parser does not wait.
LEMMA WholeFound ==
  ASSUME LaidOut, NEW k \in 0..Len(stream), ParsedUpTo(k), k # Len(stream),
         ends[k + 1] <= fed
  PROVE  Parse(buf) = Parse(stream[k + 1].bytes)
<1> DEFINE f == stream[k + 1]
           rest == SubSeq(wire, ends[k + 1] + 1, fed)
<1>1. /\ f \in Frames /\ EndOf(k) <= ends[k + 1] /\ ends[k + 1] \in Nat
      /\ f.bytes = SubSeq(wire, EndOf(k) + 1, ends[k + 1]) /\ f.bytes \in Seq(STRING)
  BY NextFrame
<1>2. EndOf(k) \in Nat /\ fed \in Nat /\ fed <= Len(wire) /\ wire \in Seq(STRING)
  BY FrameBounds DEF LaidOut
<1>3. buf = f.bytes \o rest
  <2>1. SubSeq(wire, EndOf(k) + 1, ends[k + 1]) \o SubSeq(wire, ends[k + 1] + 1, fed)
          = SubSeq(wire, EndOf(k) + 1, fed)
    BY <1>1, <1>2, PiecesMeet
  <2>2. buf = SubSeq(wire, EndOf(k) + 1, fed)
    BY DEF ParsedUpTo
  <2> QED
    BY <1>1, <2>1, <2>2
<1>4. rest \in Seq(STRING)
  BY <1>1, <1>2, Piece
<1>5. Parse(f.bytes) # Incomplete
  BY <1>1, FrameAlone
<1> HIDE DEF f, rest
<1>6. Parse(f.bytes \o rest) = Parse(f.bytes)
  BY <1>1, <1>4, <1>5, ParseStable
<1> QED
  BY <1>3, <1>6 DEF f

\* What the parser finds is the next frame: not a part of it, and not one behind it.
LEMMA FrameFound ==
  ASSUME LaidOut, NEW k \in 0..Len(stream), ParsedUpTo(k), Parse(buf) # Incomplete
  PROVE  /\ k # Len(stream) /\ fed > EndOf(k)
         /\ Parse(buf) = Parse(stream[k + 1].bytes)
         /\ \A v, c : Parse(buf) = Complete(v, c) => ends[k + 1] <= fed
<1>1. /\ EndOf(k) \in Nat /\ fed \in Nat /\ Len(wire) \in Nat /\ fed <= Len(wire)
      /\ EndOf(Len(stream)) = Len(wire) /\ wire \in Seq(STRING)
      /\ EndOf(k) <= fed /\ buf = SubSeq(wire, EndOf(k) + 1, fed)
  BY FrameBounds DEF LaidOut, ParsedUpTo
<1>2. buf \in Seq(STRING) /\ Len(buf) = fed - EndOf(k)
  BY <1>1, Piece
<1>3. fed > EndOf(k)
  <2>1. CASE fed = EndOf(k)
    <3>1. buf = <<>>
      BY <1>1, <1>2, <2>1
    <3> QED
      BY <3>1, NothingToParse
  <2> QED
    BY <1>1, <2>1
<1>4. k # Len(stream)
  BY <1>1, <1>3
<1> DEFINE f == stream[k + 1]
<1>5. /\ f \in Frames /\ EndOf(k) <= ends[k + 1] /\ ends[k + 1] \in Nat
      /\ ends[k + 1] <= Len(wire)
      /\ f.bytes = SubSeq(wire, EndOf(k) + 1, ends[k + 1]) /\ f.bytes \in Seq(STRING)
      /\ Len(f.bytes) = ends[k + 1] - EndOf(k)
  BY <1>4, NextFrame
<1>6. CASE ends[k + 1] <= fed
  BY <1>3, <1>4, <1>6, WholeFound
<1>7. CASE fed < ends[k + 1]
  <2> DEFINE rest == SubSeq(wire, fed + 1, ends[k + 1])
  <2>1. f.bytes = buf \o rest
    <3>1. /\ EndOf(k) \in Nat /\ fed \in Nat /\ ends[k + 1] \in Nat
          /\ EndOf(k) <= fed /\ fed <= ends[k + 1] /\ ends[k + 1] <= Len(wire)
          /\ wire \in Seq(STRING)
      BY <1>1, <1>5, <1>7
    <3>2. SubSeq(wire, EndOf(k) + 1, fed) \o SubSeq(wire, fed + 1, ends[k + 1])
            = SubSeq(wire, EndOf(k) + 1, ends[k + 1])
      BY <3>1, PiecesMeet
    <3> QED
      BY <1>1, <1>5, <3>2
  <2>2. rest \in Seq(STRING)
    BY <1>1, <1>5, <1>7, Piece
  <2> HIDE DEF f, rest
  <2>3. Parse(buf \o rest) = Parse(buf)
    BY <1>2, <2>2, ParseStable
  <2>4. Parse(f.bytes) = Parse(buf)
    BY <2>1, <2>3
  <2>5. ASSUME NEW v, NEW c, Parse(buf) = Complete(v, c)
        PROVE  FALSE
    <3>1. c = Len(f.bytes)
      BY <1>5, <2>4, <2>5, FrameAlone
    <3>2. \E u : \E d \in 1..Len(buf) : Parse(buf) = Complete(u, d)
      <4>1. \/ Parse(buf) \in {Incomplete, Malformed, Thrown}
            \/ \E u : \E d \in 1..Len(buf) : Parse(buf) = Complete(u, d)
        BY <1>2, EveryParseEnds
      <4>2. Parse(buf).status = "Complete"
        BY <2>5 DEF Complete
      <4>3. Parse(buf) \notin {Incomplete, Malformed, Thrown}
        BY <4>2 DEF Incomplete, Malformed, Thrown
      <4> QED
        BY <4>1, <4>3
    <3>3. c \in 1..Len(buf)
      BY <2>5, <3>2 DEF Complete
    <3> QED
      BY <1>1, <1>2, <1>5, <1>7, <3>1, <3>3
  <2> QED
    BY <1>3, <1>4, <2>4, <2>5 DEF f
<1> QED
  BY <1>1, <1>5, <1>6, <1>7

LEMMA MeaningsGrow ==
  ASSUME LaidOut, NEW k \in 0..Len(stream), k # Len(stream)
  PROVE  Append(Meanings(k), stream[k + 1].means) = Meanings(k + 1)
<1>1. k \in Nat
  BY FrameBounds
<1> DEFINE s == Meanings(k)
           S == {f.means : f \in Frames}
<1>2. s = [i \in 1..k |-> stream[i].means]
  BY DEF Meanings
<1>3. \A i \in 1..k : i \in 1..Len(stream) /\ stream[i] \in Frames
  BY <1>1, FrameBounds DEF LaidOut
<1>4. s \in Seq(S) /\ Len(s) = k
  BY <1>1, <1>2, <1>3
<1> HIDE DEF s
<1>5. Append(s, stream[k + 1].means) =
        [i \in 1..(k + 1) |-> IF i = k + 1 THEN stream[k + 1].means ELSE s[i]]
  BY <1>1, <1>4
<1>6. Meanings(k + 1) = [i \in 1..(k + 1) |-> stream[i].means]
  BY DEF Meanings
<1>7. \A i \in 1..(k + 1) :
        (IF i = k + 1 THEN stream[k + 1].means ELSE s[i]) = stream[i].means
  BY <1>1, <1>2
<1> QED
  BY <1>5, <1>6, <1>7 DEF s

LEMMA FInvInit == Init => FInv
<1> SUFFICES ASSUME Init
             PROVE  FInv
  OBVIOUS
<1>1. /\ stream = <<>> /\ ends = <<>> /\ wire = <<>> /\ fed = 0 /\ buf = <<>>
      /\ stage = "recv" /\ values = <<>>
  BY DEF Init
<1>2. Len(stream) = 0 /\ Len(ends) = 0 /\ Len(wire) = 0
  BY <1>1
<1>3. EndOf(0) = 0
  BY DEF EndOf
<1>4. LaidOut
  BY <1>1, <1>2, <1>3 DEF LaidOut
<1>5. ParsedUpTo(0)
  <2>1. Meanings(0) = <<>>
    BY DEF Meanings
  <2>2. SubSeq(wire, 0 + 1, 0) = <<>>
    BY <1>1
  <2> QED
    BY <1>1, <1>3, <2>1, <2>2 DEF ParsedUpTo
<1> QED
  BY <1>1, <1>2, <1>4, <1>5, NothingToParse DEF FInv, EndsAtTheRightFrame

\* The peer sends: what lies on the wire stays where it is.
LEMMA SendLays ==
  ASSUME LaidOut, Send
  PROVE  /\ LaidOut'
         /\ Len(stream') = Len(stream) + 1
         /\ \A k \in 0..Len(stream) : EndOf(k)' = EndOf(k) /\ Meanings(k)' = Meanings(k)
         /\ \A i \in 1..Len(stream) : stream'[i] = stream[i]
         /\ \A a, b \in Nat : a <= b /\ b <= Len(wire) =>
              SubSeq(wire', a + 1, b) = SubSeq(wire, a + 1, b)
<1>1. PICK f \in Frames : /\ stream' = Append(stream, f)
                          /\ ends' = Append(ends, Len(wire) + Len(f.bytes))
                          /\ wire' = wire \o f.bytes
  BY DEF Send
<1>2. f.bytes \in Seq(STRING)
  BY FramingAssumption
<1>3. /\ stream \in Seq(Frames) /\ wire \in Seq(STRING) /\ ends \in Seq(Nat)
      /\ Len(ends) = Len(stream) /\ fed \in 0..Len(wire) /\ fed' = fed /\ stage' = stage
      /\ stage \in {"recv", "parse", "closed", "terminated"}
      /\ Len(stream) \in Nat /\ Len(wire) \in Nat /\ Len(f.bytes) \in Nat
  BY <1>2 DEF LaidOut, Send
<1>4. PICK n, w, z : n = Len(stream) /\ w = Len(wire) /\ z = w + Len(f.bytes)
  OBVIOUS
<1>5. /\ n \in Nat /\ w \in Nat /\ z \in Nat /\ w <= z
      /\ stream' \in Seq(Frames) /\ Len(stream') = n + 1
      /\ ends' \in Seq(Nat) /\ Len(ends') = n + 1
      /\ \A i \in 1..n : stream'[i] = stream[i] /\ ends'[i] = ends[i]
      /\ stream'[n + 1] = f /\ ends'[n + 1] = z
  BY <1>1, <1>3, <1>4
<1>6. wire' \in Seq(STRING) /\ Len(wire') = z
  BY <1>1, <1>2, <1>3, <1>4, ConcatProperties
<1>7. ASSUME NEW k \in 0..n
      PROVE  EndOf(k)' = EndOf(k) /\ Meanings(k)' = Meanings(k)
  <2>1. k # 0 => k \in 1..n
    BY <1>5
  <2>2. EndOf(k)' = EndOf(k)
    BY <1>5, <2>1 DEF EndOf
  <2>3. \A i \in 1..k : i \in 1..n
    BY <1>5
  <2>4. Meanings(k)' = [i \in 1..k |-> stream'[i].means]
    BY DEF Meanings
  <2> QED
    BY <1>5, <2>2, <2>3, <2>4 DEF Meanings
<1>8. ASSUME NEW a \in Nat, NEW b \in Nat, a <= b, b <= w
      PROVE  SubSeq(wire', a + 1, b) = SubSeq(wire, a + 1, b)
  <2>1. a + 1 \in Nat \ {0} /\ b \in Int /\ b <= Len(wire)
    BY <1>4, <1>8
  <2> QED
    BY <1>1, <1>2, <1>3, <2>1, Pieces
<1>9. EndOf(n + 1)' = z
  BY <1>5 DEF EndOf
<1>10. \A k \in 0..n : EndOf(k) \in Nat /\ EndOf(k) <= w
  BY <1>4, FrameBounds
<1>11. /\ \A i, j \in 0..n : i <= j => EndOf(i) <= EndOf(j)
       /\ \A i \in 1..n : SubSeq(wire, EndOf(i - 1) + 1, ends[i]) = stream[i].bytes
       /\ EndOf(n) = w
  BY <1>4 DEF LaidOut
<1>12. ASSUME NEW i \in 0..(n + 1), NEW j \in 0..(n + 1), i <= j
       PROVE  EndOf(i)' <= EndOf(j)'
  <2>1. CASE j \in 0..n
    <3>1. i \in 0..n
      BY <1>5, <1>12, <2>1
    <3> QED
      BY <1>7, <1>11, <1>12, <2>1, <3>1
  <2>2. CASE j = n + 1 /\ i \in 0..n
    <3>1. EndOf(i)' <= w
      BY <1>7, <1>10, <2>2
    <3>2. EndOf(i)' \in Nat
      BY <1>7, <1>10, <2>2
    <3> QED
      BY <1>5, <1>9, <2>2, <3>1, <3>2
  <2>3. CASE j = n + 1 /\ i = n + 1
    BY <1>5, <1>9, <2>3
  <2> QED
    BY <1>5, <1>12, <2>1, <2>2, <2>3
<1>13. ASSUME NEW i \in 1..(n + 1)
       PROVE  SubSeq(wire', EndOf(i - 1)' + 1, ends'[i]) = stream'[i].bytes
  <2>1. CASE i \in 1..n
    <3>1. i - 1 \in 0..n /\ i \in 0..n /\ i # 0 /\ i - 1 <= i
      BY <1>5, <2>1
    <3>2. ends[i] = EndOf(i)
      BY <3>1 DEF EndOf
    <3>3. /\ EndOf(i - 1) \in Nat /\ EndOf(i) \in Nat /\ EndOf(i - 1) <= EndOf(i)
          /\ EndOf(i) <= w
      BY <1>10, <1>11, <3>1
    <3>4. SubSeq(wire', EndOf(i - 1) + 1, EndOf(i)) = SubSeq(wire, EndOf(i - 1) + 1, EndOf(i))
      BY <1>8, <3>3
    <3>5. ends'[i] = ends[i] /\ stream'[i] = stream[i] /\ EndOf(i - 1)' = EndOf(i - 1)
      BY <1>5, <1>7, <2>1, <3>1
    <3> QED
      BY <1>11, <2>1, <3>2, <3>4, <3>5
  <2>2. CASE i = n + 1
    <3>1. EndOf(i - 1)' = w /\ ends'[i] = z /\ stream'[i] = f
      <4>1. i - 1 = n /\ n \in 0..n
        BY <1>5, <2>2
      <4> QED
        BY <1>5, <1>7, <1>11, <2>2, <4>1
    <3>2. SubSeq(wire \o f.bytes, Len(wire) + 1, Len(wire \o f.bytes)) = f.bytes
      <4> DEFINE all == wire \o f.bytes
                 back == SubSeq(all, Len(wire) + 1, Len(all))
      <4>1. /\ all \in Seq(STRING) /\ Len(all) = Len(wire) + Len(f.bytes)
            /\ \A q \in 1..(Len(wire) + Len(f.bytes)) :
                 all[q] = IF q <= Len(wire) THEN wire[q] ELSE f.bytes[q - Len(wire)]
        BY <1>2, <1>3, ConcatProperties
      <4>2. back \in Seq(STRING) /\ Len(back) = Len(f.bytes)
        <5>1. Len(all) \in Nat /\ Len(wire) <= Len(all) /\ Len(all) - Len(wire) = Len(f.bytes)
          BY <1>3, <4>1
        <5> HIDE DEF all
        <5> QED
          BY <1>3, <4>1, <5>1, Piece
      <4>3. \A q \in 1..Len(f.bytes) : back[q] = all[Len(wire) + q]
        <5> HIDE DEF all
        <5>1. Len(all) - (Len(wire) + 1) + 1 = Len(f.bytes)
          BY <1>3, <4>1
        <5> QED
          BY <1>3, <4>1, <5>1
      <4>4. \A q \in 1..Len(f.bytes) : all[Len(wire) + q] = f.bytes[q]
        <5> HIDE DEF all
        <5>1. \A q \in 1..Len(f.bytes) :
                /\ Len(wire) + q \in 1..(Len(wire) + Len(f.bytes))
                /\ ~(Len(wire) + q <= Len(wire)) /\ (Len(wire) + q) - Len(wire) = q
          BY <1>3
        <5> QED
          BY <4>1, <5>1
      <4> HIDE DEF back
      <4>5. back = f.bytes
        BY <1>2, <4>2, <4>3, <4>4
      <4> QED
        BY <4>5 DEF back
    <3> QED
      BY <1>1, <1>4, <1>6, <3>1, <3>2
  <2> QED
    BY <1>5, <2>1, <2>2
<1>14. LaidOut'
  <2>1. fed' \in 0..Len(wire')
    BY <1>3, <1>4, <1>5, <1>6
  <2>2. EndOf(Len(stream))' = Len(wire)'
    BY <1>5, <1>6, <1>9
  <2> QED
    BY <1>3, <1>5, <1>6, <1>12, <1>13, <2>1, <2>2 DEF LaidOut
<1> QED
  BY <1>4, <1>5, <1>7, <1>8, <1>14

\* The part of FInv that says how an input ended stays true while the peer sends.
LEMMA SendKeeps ==
  ASSUME FInv, Send
  PROVE  FInv'
<1>1. LaidOut /\ fed \in Nat /\ Len(wire) \in Nat /\ Len(stream) \in Nat /\ fed <= Len(wire)
  BY DEF FInv, LaidOut
<1>2. /\ LaidOut'
      /\ Len(stream') = Len(stream) + 1
      /\ \A k \in 0..Len(stream) : EndOf(k)' = EndOf(k) /\ Meanings(k)' = Meanings(k)
      /\ \A i \in 1..Len(stream) : stream'[i] = stream[i]
      /\ \A a, b \in Nat : a <= b /\ b <= Len(wire) =>
           SubSeq(wire', a + 1, b) = SubSeq(wire, a + 1, b)
  BY <1>1, SendLays
<1>3. fed' = fed /\ buf' = buf /\ stage' = stage /\ values' = values
  BY DEF Send
<1>4. ASSUME NEW k \in 0..Len(stream), ParsedUpTo(k)
      PROVE  k \in 0..Len(stream') /\ ParsedUpTo(k)'
  <2>1. EndOf(k) \in Nat /\ EndOf(k) <= fed
    BY <1>1, <1>4, FrameBounds DEF ParsedUpTo
  <2>2. SubSeq(wire', EndOf(k) + 1, fed) = SubSeq(wire, EndOf(k) + 1, fed)
    BY <1>1, <1>2, <2>1
  <2>3. k \in 0..Len(stream')
    BY <1>1, <1>2
  <2> QED
    BY <1>2, <1>3, <1>4, <2>2, <2>3 DEF ParsedUpTo
<1>5. stage' \in {"recv", "parse"} => \E k \in 0..Len(stream') : ParsedUpTo(k)'
  <2>1. stage \in {"recv", "parse"} => \E k \in 0..Len(stream) : ParsedUpTo(k)
    BY DEF FInv
  <2> QED
    BY <1>3, <1>4, <2>1
<1>6. EndsAtTheRightFrame'
  <2> SUFFICES ASSUME stage \in {"closed", "terminated"}
               PROVE  \E i \in DOMAIN stream' :
                        /\ stream'[i].means = IF stage' = "closed" THEN Garbage ELSE TooLong
                        /\ values' = Meanings(i - 1)'
                        /\ fed' > EndOf(i - 1)'
    BY <1>3 DEF EndsAtTheRightFrame
  <2>1. PICK i \in DOMAIN stream :
          /\ stream[i].means = IF stage = "closed" THEN Garbage ELSE TooLong
          /\ values = Meanings(i - 1)
          /\ fed > EndOf(i - 1)
    BY DEF FInv, EndsAtTheRightFrame
  <2>2. i \in 1..Len(stream) /\ i - 1 \in 0..Len(stream)
    BY <1>1, <2>1 DEF LaidOut
  <2>3. i \in DOMAIN stream'
    BY <1>1, <1>2, <2>2 DEF LaidOut
  <2> QED
    BY <1>2, <1>3, <2>1, <2>2, <2>3
<1> QED
  BY <1>2, <1>3, <1>5, <1>6 DEF FInv

\* While the input goes on, nothing is claimed of how it ended.
LEMMA GoesOn ==
  ASSUME stage' \in {"recv", "parse"}
  PROVE  EndsAtTheRightFrame'
BY DEF EndsAtTheRightFrame

\* What the peer has sent lies still while the server works.
LEMMA LiesStill ==
  ASSUME LaidOut, UNCHANGED peer, fed' \in 0..Len(wire),
         stage' \in {"recv", "parse", "closed", "terminated"}
  PROVE  /\ LaidOut'
         /\ stream' = stream /\ wire' = wire
         /\ \A k : EndOf(k)' = EndOf(k) /\ Meanings(k)' = Meanings(k)
<1>1. stream' = stream /\ wire' = wire /\ ends' = ends
  BY DEF peer
<1>2. \A k : EndOf(k)' = EndOf(k) /\ Meanings(k)' = Meanings(k)
  BY <1>1 DEF EndOf, Meanings
<1>3. LaidOut'
  BY <1>1, <1>2 DEF LaidOut
<1> QED
  BY <1>1, <1>2, <1>3

LEMMA RecvKeeps ==
  ASSUME FInv, Recv
  PROVE  FInv'
<1>1. LaidOut /\ fed \in Nat /\ Len(wire) \in Nat /\ wire \in Seq(STRING) /\ stage = "recv"
  BY DEF FInv, LaidOut, Recv
<1>2. PICK n \in 1..RecvSize : /\ fed + n <= Len(wire)
                               /\ buf' = buf \o SubSeq(wire, fed + 1, fed + n)
                               /\ fed' = fed + n
  BY DEF Recv
<1>3. n \in Nat
  BY <1>2, FramingAssumption
<1>4. PICK m : m = fed + n
  OBVIOUS
<1>5. m \in Nat /\ m \in 0..Len(wire) /\ fed <= m /\ m <= Len(wire) /\ fed' = m
      /\ buf' = buf \o SubSeq(wire, fed + 1, m)
  BY <1>1, <1>2, <1>3, <1>4
<1>6. UNCHANGED peer /\ stage' = "parse" /\ values' = values
  BY DEF Recv
<1>7. LaidOut' /\ stream' = stream /\ wire' = wire
      /\ \A k : EndOf(k)' = EndOf(k) /\ Meanings(k)' = Meanings(k)
  BY <1>1, <1>5, <1>6, LiesStill
<1>8. PICK k \in 0..Len(stream) : ParsedUpTo(k)
  BY <1>1 DEF FInv
<1>9. /\ values = Meanings(k) /\ EndOf(k) \in Nat /\ EndOf(k) <= fed
      /\ buf = SubSeq(wire, EndOf(k) + 1, fed)
  BY <1>1, <1>8, FrameBounds DEF ParsedUpTo
<1>10. SubSeq(wire, EndOf(k) + 1, fed) \o SubSeq(wire, fed + 1, m) = SubSeq(wire, EndOf(k) + 1, m)
  BY <1>1, <1>5, <1>9, PiecesMeet
<1>11. EndOf(k) <= m
  BY <1>1, <1>5, <1>9
<1>12. ParsedUpTo(k)'
  BY <1>5, <1>6, <1>7, <1>9, <1>10, <1>11 DEF ParsedUpTo
<1>13. k \in 0..Len(stream')
  BY <1>7, <1>8
<1> QED
  BY <1>6, <1>7, <1>12, <1>13, GoesOn DEF FInv

LEMMA NextValueKeeps ==
  ASSUME FInv, NextValue
  PROVE  FInv'
<1>1. /\ LaidOut /\ stage = "parse" /\ fed \in 0..Len(wire) /\ fed \in Nat /\ Len(wire) \in Nat
      /\ fed <= Len(wire) /\ wire \in Seq(STRING) /\ Len(stream) \in Nat
  BY DEF FInv, LaidOut, NextValue
<1>2. /\ Parse(buf).status = "Complete"
      /\ buf' = SubSeq(buf, Parse(buf).consumed + 1, Len(buf))
      /\ values' = Append(values, Parse(buf).value)
      /\ UNCHANGED peer /\ fed' = fed /\ stage' = stage
  BY DEF NextValue, Consume
<1>3. PICK k \in 0..Len(stream) : ParsedUpTo(k)
  BY <1>1 DEF FInv
<1>4. /\ values = Meanings(k) /\ EndOf(k) \in Nat /\ EndOf(k) <= fed
      /\ buf = SubSeq(wire, EndOf(k) + 1, fed)
  BY <1>1, <1>3, FrameBounds DEF ParsedUpTo
<1>5. buf \in Seq(STRING) /\ Len(buf) = fed - EndOf(k)
  BY <1>1, <1>4, Piece
<1>6. Parse(buf) \notin {Incomplete, Malformed, Thrown}
  BY <1>2 DEF Incomplete, Malformed, Thrown
<1>7. \E v : \E c \in 1..Len(buf) : Parse(buf) = Complete(v, c)
  BY <1>5, <1>6, EveryParseEnds
<1>8. PICK v : \E c \in 1..Len(buf) : Parse(buf) = Complete(v, c)
  BY <1>7
<1>9. PICK c \in 1..Len(buf) : Parse(buf) = Complete(v, c)
  BY <1>8
<1>10. Parse(buf).value = v /\ Parse(buf).consumed = c
  BY <1>9 DEF Complete
<1>11. /\ k # Len(stream)
       /\ Parse(buf) = Parse(stream[k + 1].bytes)
       /\ ends[k + 1] <= fed
  BY <1>1, <1>3, <1>6, <1>9, FrameFound
<1>12. /\ k + 1 \in 1..Len(stream) /\ stream[k + 1] \in Frames
       /\ EndOf(k + 1) = ends[k + 1] /\ EndOf(k) <= ends[k + 1] /\ ends[k + 1] \in Nat
       /\ Len(stream[k + 1].bytes) = ends[k + 1] - EndOf(k)
  BY <1>1, <1>11, NextFrame
<1>13. v = stream[k + 1].means /\ c = ends[k + 1] - EndOf(k)
  BY <1>9, <1>11, <1>12, FrameAlone
<1>14. LaidOut' /\ stream' = stream /\ wire' = wire
       /\ \A i : EndOf(i)' = EndOf(i) /\ Meanings(i)' = Meanings(i)
  BY <1>1, <1>2, LiesStill
<1>15. buf' = SubSeq(wire, ends[k + 1] + 1, fed)
  <2>1. PICK a, e : a = EndOf(k) /\ e = ends[k + 1]
    OBVIOUS
  <2>2. /\ a \in Nat /\ e \in Nat /\ a <= e /\ e <= fed /\ c = e - a /\ c \in Nat
        /\ Len(buf) = fed - a /\ c + 1 \in Int /\ c <= Len(buf) /\ Len(buf) \in Nat
    <3>1. a \in Nat /\ e \in Nat /\ a <= e /\ e <= fed /\ c = e - a /\ fed \in Nat
      BY <1>1, <1>4, <1>11, <1>12, <1>13, <2>1
    <3>2. Len(buf) = fed - a /\ c \in 1..Len(buf)
      BY <1>5, <1>9, <2>1
    <3> QED
      BY <3>1, <3>2
  <2>3. /\ SubSeq(buf, c + 1, Len(buf)) \in Seq(STRING)
        /\ Len(SubSeq(buf, c + 1, Len(buf))) = Len(buf) - c
    BY <1>5, <2>2, Piece
  <2>4. /\ SubSeq(wire, e + 1, fed) \in Seq(STRING)
        /\ Len(SubSeq(wire, e + 1, fed)) = fed - e
    BY <1>1, <2>2, Piece
  <2>5. Len(buf) - c = fed - e
    BY <1>1, <2>2
  <2>6. ASSUME NEW q \in 1..(fed - e)
        PROVE  SubSeq(buf, c + 1, Len(buf))[q] = SubSeq(wire, e + 1, fed)[q]
    <3>1. /\ q \in Nat /\ c + q \in 1..Len(buf) /\ a + (c + q) = e + q
          /\ Len(buf) - (c + 1) + 1 = fed - e
      BY <1>1, <2>2, <2>5
    <3>2. SubSeq(wire, e + 1, fed)[q] = wire[e + q]
      BY <1>1, <2>2
    <3>3. SubSeq(buf, c + 1, Len(buf))[q] = buf[c + q]
      BY <1>5, <2>2, <3>1
    <3>4. buf[c + q] = wire[a + (c + q)]
      <4>1. \A i \in 1..(fed - a) : SubSeq(wire, a + 1, fed)[i] = wire[a + i]
        BY <1>1, <2>2
      <4> QED
        BY <1>4, <2>1, <2>2, <3>1, <4>1
    <3> QED
      BY <3>1, <3>2, <3>3, <3>4
  <2> DEFINE x == SubSeq(buf, c + 1, Len(buf))
             y == SubSeq(wire, e + 1, fed)
  <2>7. /\ x \in Seq(STRING) /\ y \in Seq(STRING) /\ Len(x) = Len(y)
        /\ \A q \in 1..Len(x) : x[q] = y[q]
    BY <2>3, <2>4, <2>5, <2>6
  <2> HIDE DEF x, y
  <2>8. x = y
    BY <2>7
  <2> QED
    BY <1>2, <1>10, <2>1, <2>8 DEF x, y
<1>16. values' = Meanings(k + 1)
  BY <1>1, <1>2, <1>4, <1>10, <1>11, <1>13, MeaningsGrow
<1>17. ParsedUpTo(k + 1)'
  BY <1>2, <1>11, <1>12, <1>14, <1>15, <1>16 DEF ParsedUpTo
<1>18. k + 1 \in 0..Len(stream')
  BY <1>1, <1>12, <1>14
<1> QED
  BY <1>1, <1>2, <1>14, <1>17, <1>18, GoesOn DEF FInv

LEMMA NeedsMoreKeeps ==
  ASSUME FInv, NeedsMore
  PROVE  FInv'
<1>1. /\ LaidOut /\ stage = "parse" /\ fed \in 0..Len(wire)
      /\ Parse(buf) = Incomplete /\ UNCHANGED peer /\ fed' = fed /\ buf' = buf
      /\ values' = values /\ stage' = "recv"
  BY DEF FInv, LaidOut, NeedsMore
<1>2. LaidOut' /\ stream' = stream /\ wire' = wire
      /\ \A k : EndOf(k)' = EndOf(k) /\ Meanings(k)' = Meanings(k)
  BY <1>1, LiesStill
<1>3. PICK k \in 0..Len(stream) : ParsedUpTo(k)
  BY <1>1 DEF FInv
<1>4. ParsedUpTo(k)'
  BY <1>1, <1>2, <1>3 DEF ParsedUpTo
<1> QED
  BY <1>1, <1>2, <1>4, GoesOn DEF FInv

\* The input ends at the frame behind the last value: what is wrong is wrong with that one.
LEMMA EndsKeep ==
  ASSUME FInv, Refuses \/ Terminates
  PROVE  FInv'
<1>1. /\ LaidOut /\ stage = "parse" /\ fed \in 0..Len(wire) /\ Len(stream) \in Nat
      /\ UNCHANGED peer /\ fed' = fed /\ values' = values
  BY DEF FInv, LaidOut, Refuses, Terminates
<1>2. \/ Parse(buf) = Malformed /\ stage' = "closed"
      \/ Parse(buf) = Thrown /\ stage' = "terminated"
  BY DEF Refuses, Terminates
<1>3. LaidOut' /\ stream' = stream /\ wire' = wire
      /\ \A k : EndOf(k)' = EndOf(k) /\ Meanings(k)' = Meanings(k)
  BY <1>1, <1>2, LiesStill
<1>4. PICK k \in 0..Len(stream) : ParsedUpTo(k)
  BY <1>1 DEF FInv
<1>5. Parse(buf) # Incomplete
  BY <1>2 DEF Malformed, Thrown, Incomplete
<1>6. k # Len(stream) /\ fed > EndOf(k) /\ Parse(buf) = Parse(stream[k + 1].bytes)
  BY <1>1, <1>4, <1>5, FrameFound
<1>7. k + 1 \in 1..Len(stream) /\ stream[k + 1] \in Frames /\ (k + 1) - 1 = k
  BY <1>1, <1>6, NextFrame
<1>8. stream[k + 1].means = IF stage' = "closed" THEN Garbage ELSE TooLong
  BY <1>2, <1>6, <1>7, FrameAlone
<1>9. k + 1 \in DOMAIN stream'
  BY <1>1, <1>3, <1>7 DEF LaidOut
<1>10. values' = Meanings(k)
  BY <1>1, <1>4 DEF ParsedUpTo
<1>11. EndsAtTheRightFrame'
  <2>1. /\ stream'[k + 1].means = IF stage' = "closed" THEN Garbage ELSE TooLong
        /\ values' = Meanings((k + 1) - 1)'
        /\ fed' > EndOf((k + 1) - 1)'
    BY <1>1, <1>3, <1>6, <1>7, <1>8, <1>10
  <2> QED
    BY <1>9, <2>1 DEF EndsAtTheRightFrame
<1> QED
  BY <1>2, <1>3, <1>11 DEF FInv

LEMMA FInvStep == FInv /\ [Next]_vars => FInv'
<1> SUFFICES ASSUME FInv, [Next]_vars
             PROVE  FInv'
  OBVIOUS
<1>1. CASE UNCHANGED vars
  <2>1. LaidOut' /\ stream' = stream /\ wire' = wire
        /\ \A k : EndOf(k)' = EndOf(k) /\ Meanings(k)' = Meanings(k)
    <3>1. UNCHANGED peer /\ fed' = fed /\ stage' = stage
      BY <1>1 DEF vars, peer
    <3>2. LaidOut /\ fed \in 0..Len(wire) /\ stage \in {"recv", "parse", "closed", "terminated"}
      BY DEF FInv, LaidOut
    <3> QED
      BY <3>1, <3>2, LiesStill
  <2>2. fed' = fed /\ buf' = buf /\ stage' = stage /\ values' = values
    BY <1>1 DEF vars
  <2>3. \A k : ParsedUpTo(k)' = ParsedUpTo(k)
    BY <2>1, <2>2 DEF ParsedUpTo
  <2> QED
    BY <2>1, <2>2, <2>3 DEF FInv, EndsAtTheRightFrame
<1>2. CASE Send
  BY <1>2, SendKeeps
<1>3. CASE Recv
  BY <1>3, RecvKeeps
<1>4. CASE NextValue
  BY <1>4, NextValueKeeps
<1>5. CASE NeedsMore
  BY <1>5, NeedsMoreKeeps
<1>6. CASE Refuses \/ Terminates
  BY <1>6, EndsKeep
<1> QED
  BY <1>1, <1>2, <1>3, <1>4, <1>5, <1>6 DEF Next

\* While recv is awaited, the frames received whole are those that have been parsed.
LEMMA WaitsForTheRest ==
  ASSUME FInv
  PROVE  SplitsDoNotShow
<1> SUFFICES ASSUME stage = "recv"
             PROVE  \E k \in 0..Len(stream) :
                      /\ Whole = 1..k
                      /\ values = Meanings(k)
                      /\ buf = SubSeq(wire, EndOf(k) + 1, fed)
  BY DEF SplitsDoNotShow
<1>1. LaidOut /\ Parse(buf) = Incomplete /\ Len(stream) \in Nat /\ fed \in Nat
      /\ DOMAIN stream = 1..Len(stream)
  BY DEF FInv, LaidOut
<1>2. PICK k \in 0..Len(stream) : ParsedUpTo(k)
  BY DEF FInv
<1>3. ASSUME NEW i \in 1..Len(stream)
      PROVE  i \in 0..Len(stream) /\ ends[i] = EndOf(i) /\ EndOf(i) \in Nat
  <2>1. i \in 0..Len(stream) /\ i # 0
    BY <1>1
  <2> QED
    BY <1>1, <2>1, FrameBounds DEF EndOf
<1>4. ASSUME NEW i \in 1..Len(stream), i <= k
      PROVE  ends[i] <= fed
  <2>1. EndOf(i) <= EndOf(k) /\ EndOf(k) <= fed /\ EndOf(k) \in Nat
    BY <1>1, <1>2, <1>3, <1>4, FrameBounds DEF LaidOut, ParsedUpTo
  <2> QED
    BY <1>1, <1>3, <2>1
<1>5. ASSUME NEW i \in 1..Len(stream), k < i
      PROVE  ends[i] > fed
  <2>1. k # Len(stream) /\ k + 1 \in 0..Len(stream) /\ k + 1 <= i
    <3>1. PICK n : n = Len(stream)
      OBVIOUS
    <3>2. n \in Nat /\ k \in 0..n /\ i \in 1..n /\ k < i
      BY <1>1, <1>2, <1>5, <3>1
    <3>3. k # n /\ k + 1 \in 0..n /\ k + 1 <= i
      BY <3>2
    <3> QED
      BY <3>1, <3>3
  <2>2. /\ stream[k + 1] \in Frames /\ EndOf(k + 1) = ends[k + 1] /\ ends[k + 1] \in Nat
    BY <1>1, <2>1, NextFrame
  <2>3. ~(ends[k + 1] <= fed)
    <3>1. Parse(stream[k + 1].bytes) # Incomplete
      BY <2>2, FrameAlone
    <3> QED
      BY <1>1, <1>2, <2>1, <3>1, WholeFound
  <2>4. EndOf(k + 1) <= EndOf(i)
    BY <1>1, <1>3, <2>1 DEF LaidOut
  <2> QED
    BY <1>1, <1>3, <2>2, <2>3, <2>4
<1>6. Whole = 1..k
  <2>1. \A i \in 1..Len(stream) : ends[i] <= fed <=> i <= k
    <3> SUFFICES ASSUME NEW i \in 1..Len(stream)
                 PROVE  ends[i] <= fed <=> i <= k
      OBVIOUS
    <3>1. CASE i <= k
      BY <1>4, <3>1
    <3>2. CASE k < i
      BY <1>1, <1>3, <1>5, <3>2
    <3> QED
      BY <1>1, <3>1, <3>2
  <2>2. Whole = {i \in 1..Len(stream) : i <= k}
    BY <1>1, <2>1 DEF Whole
  <2> QED
    BY <1>1, <2>2
<1> QED
  BY <1>2, <1>6 DEF ParsedUpTo

-----------------------------------------------------------------------------
(* The theorems about a connection.                                        *)

\* However the bytes of a stream are cut into pieces, and whatever the frames: when
\* on_readable waits for more, the values it has parsed are those of the frames that have
\* come whole, and the parser holds the bytes behind them.
THEOREM CutsDoNotShow == Spec => []SplitsDoNotShow
<1>1. Init => FInv
  BY FInvInit
<1>2. FInv /\ [Next]_vars => FInv'
  BY FInvStep
<1>3. FInv => SplitsDoNotShow
  BY WaitsForTheRest
<1> QED
  BY <1>1, <1>2, <1>3, PTL DEF Spec

\* A connection is closed at the first frame that is no message, and the process lost at the
\* first array that no vector can hold: never at an earlier or a later byte's fault.
THEOREM EndsRight == Spec => []EndsAtTheRightFrame
<1>1. Init => FInv
  BY FInvInit
<1>2. FInv /\ [Next]_vars => FInv'
  BY FInvStep
<1>3. FInv => EndsAtTheRightFrame
  BY DEF FInv
<1> QED
  BY <1>1, <1>2, <1>3, PTL DEF Spec

=============================================================================
