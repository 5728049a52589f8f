---------------------------- MODULE ProtocolProofs ----------------------------
(***************************************************************************)
(* Proofs about the replies of a connection: what the encoders write, the  *)
(* parser reads as what was meant, whatever it is and wherever it lies,    *)
(* and so a peer finds one reply for each message, in their order.         *)
(***************************************************************************)
EXTENDS Protocol, FramingProofs

-----------------------------------------------------------------------------
(* Numbers as text.                                                        *)

\* All symbols: of none that is written out do the provers know that it is in STRING.
Symbol == STRING \cup ToSet(Digits)
            \cup {CR, LF, "+", "-", ":", "$", "*", "'", "O", "K", "P", "E", "w"}

\* v holds what the first n of the digits denote.
Denoted(v, digits, n) ==
  v = [i \in 0..n |-> IF i = 0 THEN 0 ELSE 10 * v[i - 1] + Denotes(digits[i])]

LEMMA DenotedExists ==
  ASSUME NEW digits, NEW n \in Nat
  PROVE  \E v : Denoted(v, digits, n)
<1> DEFINE S == {j \in Nat : \E v : Denoted(v, digits, j)}
<1>1. 0 \in S
  <2> DEFINE v == [i \in 0..0 |-> 0]
  <2>1. v = [i \in 0..0 |-> IF i = 0 THEN 0 ELSE 10 * v[i - 1] + Denotes(digits[i])]
    OBVIOUS
  <2>2. Denoted(v, digits, 0)
    BY <2>1 DEF Denoted
  <2> QED
    BY <2>2
<1>2. ASSUME NEW j \in Nat, j \in S
      PROVE  j + 1 \in S
  <2>1. PICK v : Denoted(v, digits, j)
    BY <1>2
  <2> DEFINE w == [i \in 0..(j + 1) |-> IF i = j + 1 THEN 10 * v[j] + Denotes(digits[j + 1])
                                        ELSE v[i]]
  <2>2. ASSUME NEW i \in 0..(j + 1)
        PROVE  w[i] = IF i = 0 THEN 0 ELSE 10 * w[i - 1] + Denotes(digits[i])
    <3>1. CASE i = j + 1
      <4>1. i # 0 /\ w[i - 1] = v[j]
        BY <3>1
      <4> QED
        BY <3>1, <4>1
    <3>2. CASE i # j + 1
      <4>1. i \in 0..j /\ (i # 0 => i - 1 \in 0..j /\ i - 1 # j + 1)
        BY <3>2
      <4>2. v[i] = IF i = 0 THEN 0 ELSE 10 * v[i - 1] + Denotes(digits[i])
        BY <2>1, <4>1 DEF Denoted
      <4>3. w[i] = v[i] /\ (i # 0 => w[i - 1] = v[i - 1])
        BY <3>2, <4>1
      <4> QED
        BY <4>2, <4>3
    <3> QED
      BY <3>1, <3>2
  <2>3. DOMAIN w = 0..(j + 1) /\ w = [i \in 0..(j + 1) |-> w[i]]
    OBVIOUS
  <2> HIDE DEF w
  <2>4. w = [i \in 0..(j + 1) |-> IF i = 0 THEN 0 ELSE 10 * w[i - 1] + Denotes(digits[i])]
    BY <2>2, <2>3
  <2>5. Denoted(w, digits, j + 1)
    BY <2>4 DEF Denoted
  <2> QED
    BY <2>5
<1> HIDE DEF S
<1>3. Nat \subseteq S
  BY <1>1, <1>2, Induction
<1> QED
  BY <1>3 DEF S

\* Two texts with the same beginning.
LEMMA DenotedAgree ==
  ASSUME NEW d, NEW e, NEW m \in Nat, NEW n \in Nat, NEW v, NEW w,
         Denoted(v, d, m), Denoted(w, e, n), m <= n, \A i \in 1..m : d[i] = e[i]
  PROVE  v[m] = w[m]
<1> DEFINE S == {j \in Nat : j <= m => v[j] = w[j]}
<1>1. 0 \in S
  BY DEF Denoted
<1>2. ASSUME NEW j \in Nat, j \in S
      PROVE  j + 1 \in S
  <2>1. SUFFICES ASSUME j + 1 <= m
                 PROVE  v[j + 1] = w[j + 1]
    OBVIOUS
  <2>2. j + 1 \in 0..m /\ j + 1 \in 0..n /\ j + 1 \in 1..m /\ j + 1 # 0 /\ (j + 1) - 1 = j
    BY <2>1
  <2>3. v[j + 1] = 10 * v[j] + Denotes(d[j + 1])
    BY <2>2 DEF Denoted
  <2>4. w[j + 1] = 10 * w[j] + Denotes(e[j + 1])
    BY <2>2 DEF Denoted
  <2> QED
    BY <1>2, <2>1, <2>2, <2>3, <2>4
<1> HIDE DEF S
<1>3. Nat \subseteq S
  BY <1>1, <1>2, Induction
<1> QED
  BY <1>3 DEF S

LEMMA ValueDefined ==
  ASSUME NEW digits, Len(digits) \in Nat
  PROVE  \E v : Denoted(v, digits, Len(digits)) /\ ValueOf(digits) = v[Len(digits)]
<1> DEFINE N == Len(digits)
           f == CHOOSE v : v = [i \in 0..N |-> IF i = 0 THEN 0
                                               ELSE 10 * v[i - 1] + Denotes(digits[i])]
<1>1. \E v : v = [i \in 0..N |-> IF i = 0 THEN 0 ELSE 10 * v[i - 1] + Denotes(digits[i])]
  BY DenotedExists DEF Denoted
<1>2. f = [i \in 0..N |-> IF i = 0 THEN 0 ELSE 10 * f[i - 1] + Denotes(digits[i])]
  BY <1>1, Zenon
<1>3. ValueOf(digits) = f[N]
  BY Zenon DEF ValueOf
<1>4. Denoted(f, digits, N)
  BY <1>2, Zenon DEF Denoted
<1> QED
  BY <1>3, <1>4

\* One more digit.
LEMMA ValueGrows ==
  ASSUME NEW D, NEW d \in Seq(D), NEW c \in D
  PROVE  /\ ValueOf(<<c>>) = 10 * 0 + Denotes(c)
         /\ ValueOf(Append(d, c)) = 10 * ValueOf(d) + Denotes(c)
<1>1. ASSUME NEW e, NEW n \in Nat, Len(e) = n + 1
      PROVE  \E v : /\ Denoted(v, e, n + 1) /\ ValueOf(e) = 10 * v[n] + Denotes(e[n + 1])
                    /\ v[0] = 0
  <2>1. PICK v : Denoted(v, e, n + 1) /\ ValueOf(e) = v[n + 1]
    BY <1>1, ValueDefined
  <2>2. v[n + 1] = 10 * v[n] + Denotes(e[n + 1]) /\ v[0] = 0
    <3>1. n + 1 \in 0..(n + 1) /\ 0 \in 0..(n + 1) /\ n + 1 # 0 /\ (n + 1) - 1 = n
      OBVIOUS
    <3> QED
      BY <2>1, <3>1 DEF Denoted
  <2> QED
    BY <2>1, <2>2
<1>2. ValueOf(<<c>>) = 10 * 0 + Denotes(c)
  <2>1. Len(<<c>>) = 0 + 1 /\ <<c>>[0 + 1] = c
    OBVIOUS
  <2> QED
    BY <1>1, <2>1
<1>3. PICK n, e : n = Len(d) /\ e = Append(d, c)
  OBVIOUS
<1>4. n \in Nat /\ Len(e) = n + 1 /\ e[n + 1] = c /\ \A i \in 1..n : d[i] = e[i]
  BY <1>3
<1>5. PICK w : Denoted(w, e, n + 1) /\ ValueOf(e) = 10 * w[n] + Denotes(e[n + 1])
  BY <1>1, <1>4
<1>6. PICK v : Denoted(v, d, n) /\ ValueOf(d) = v[n]
  BY <1>3, <1>4, ValueDefined
<1>7. n <= n + 1 /\ n + 1 \in Nat
  BY <1>4
<1>8. v[n] = w[n]
  BY <1>4, <1>5, <1>6, <1>7, DenotedAgree
<1> QED
  BY <1>2, <1>3, <1>4, <1>5, <1>6, <1>8

LEMMA DigitDenotes ==
  ASSUME NEW k \in 0..9
  PROVE  Digits[k + 1] \in ToSet(Digits) /\ Denotes(Digits[k + 1]) = k
<1>1. DOMAIN Digits = 1..10
  BY DEF Digits
<1>2. \A i, j \in 1..10 : Digits[i] = Digits[j] => i = j
  BY DEF Digits
<1>3. k + 1 \in 1..10
  OBVIOUS
<1>4. (CHOOSE i \in DOMAIN Digits : Digits[i] = Digits[k + 1]) = k + 1
  BY <1>1, <1>2, <1>3
<1>5. Digits[k + 1] \in ToSet(Digits)
  BY <1>1, <1>3 DEF ToSet
<1>6. Denotes(Digits[k + 1]) = (k + 1) - 1
  BY <1>4 DEF Denotes
<1> QED
  BY <1>5, <1>6

\* text holds the numerals of the numbers up to n.
Spelt(text, n) ==
  text = [m \in 0..n |-> IF m < 10 THEN <<Digits[m + 1]>>
                         ELSE Append(text[m \div 10], Digits[(m % 10) + 1])]

LEMMA SpeltExists ==
  ASSUME NEW n \in Nat
  PROVE  \E text : Spelt(text, n)
<1> DEFINE S == {j \in Nat : \E text : Spelt(text, j)}
<1>1. 0 \in S
  <2> DEFINE t == [m \in 0..0 |-> <<Digits[m + 1]>>]
  <2>1. t = [m \in 0..0 |-> IF m < 10 THEN <<Digits[m + 1]>>
                            ELSE Append(t[m \div 10], Digits[(m % 10) + 1])]
    OBVIOUS
  <2>2. Spelt(t, 0)
    BY <2>1 DEF Spelt
  <2> QED
    BY <2>2
<1>2. ASSUME NEW j \in Nat, j \in S
      PROVE  j + 1 \in S
  <2>1. PICK t : Spelt(t, j)
    BY <1>2
  <2> DEFINE new == IF j + 1 < 10 THEN <<Digits[(j + 1) + 1]>>
                    ELSE Append(t[(j + 1) \div 10], Digits[((j + 1) % 10) + 1])
             u == [m \in 0..(j + 1) |-> IF m = j + 1 THEN new ELSE t[m]]
  <2>2. ASSUME NEW m \in 0..(j + 1)
        PROVE  u[m] = IF m < 10 THEN <<Digits[m + 1]>>
                      ELSE Append(u[m \div 10], Digits[(m % 10) + 1])
    <3>1. m >= 10 => m \div 10 \in 0..j /\ m \div 10 # j + 1 /\ m \div 10 \in 0..(j + 1)
      OBVIOUS
    <3>2. m >= 10 => u[m \div 10] = t[m \div 10]
      BY <3>1
    <3>3. CASE m = j + 1
      <4>1. u[m] = new
        BY <3>3
      <4> HIDE DEF u
      <4> QED
        BY <3>2, <3>3, <4>1
    <3>4. CASE m # j + 1
      <4>1. m \in 0..j
        BY <3>4
      <4>2. t[m] = IF m < 10 THEN <<Digits[m + 1]>>
                   ELSE Append(t[m \div 10], Digits[(m % 10) + 1])
        BY <2>1, <4>1 DEF Spelt
      <4>3. u[m] = t[m]
        BY <3>4
      <4> HIDE DEF u
      <4> QED
        BY <3>2, <4>2, <4>3
    <3> QED
      BY <3>3, <3>4
  <2>3. u = [m \in 0..(j + 1) |-> u[m]]
    OBVIOUS
  <2> HIDE DEF u
  <2>4. u = [m \in 0..(j + 1) |-> IF m < 10 THEN <<Digits[m + 1]>>
                                  ELSE Append(u[m \div 10], Digits[(m % 10) + 1])]
    BY <2>2, <2>3
  <2>5. Spelt(u, j + 1)
    BY <2>4 DEF Spelt
  <2> QED
    BY <2>5
<1> HIDE DEF S
<1>3. Nat \subseteq S
  BY <1>1, <1>2, Induction
<1> QED
  BY <1>3 DEF S

\* A numeral is a text of digits that denotes its number.
LEMMA NumeralDenotes ==
  ASSUME NEW n \in Nat
  PROVE  /\ Numeral(n) \in Seq(ToSet(Digits)) /\ Numeral(n) # <<>>
         /\ ValueOf(Numeral(n)) = n
<1> DEFINE f == CHOOSE t : t = [m \in 0..n |-> IF m < 10 THEN <<Digits[m + 1]>>
                                  ELSE Append(t[m \div 10], Digits[(m % 10) + 1])]
           D == ToSet(Digits)
           Good(t, m) == t \in Seq(D) /\ t # <<>> /\ ValueOf(t) = m
           S == {j \in Nat : \A m \in 0..j : m <= n => Good(f[m], m)}
<1>1. \E t : t = [m \in 0..n |-> IF m < 10 THEN <<Digits[m + 1]>>
                                  ELSE Append(t[m \div 10], Digits[(m % 10) + 1])]
  BY SpeltExists DEF Spelt
<1>2. f = [m \in 0..n |-> IF m < 10 THEN <<Digits[m + 1]>>
                          ELSE Append(f[m \div 10], Digits[(m % 10) + 1])]
  BY <1>1, Zenon
<1>3. Numeral(n) = f[n]
  BY Zenon DEF Numeral
<1> HIDE DEF f
<1>4. ASSUME NEW m \in 0..n, m < 10
      PROVE  Good(f[m], m)
  <2>1. f[m] = <<Digits[m + 1]>>
    BY <1>2, <1>4
  <2>2. Digits[m + 1] \in D /\ Denotes(Digits[m + 1]) = m
    BY <1>4, DigitDenotes
  <2>3. ValueOf(<<Digits[m + 1]>>) = 10 * 0 + Denotes(Digits[m + 1])
    <3>1. <<>> \in Seq(D)
      OBVIOUS
    <3> QED
      BY <2>2, <3>1, ValueGrows
  <2> QED
    BY <2>1, <2>2, <2>3
<1>5. ASSUME NEW m \in 0..n, m >= 10, Good(f[m \div 10], m \div 10)
      PROVE  Good(f[m], m)
  <2>1. PICK q, r : q = m \div 10 /\ r = m % 10
    OBVIOUS
  <2>2. q \in Nat /\ r \in 0..9 /\ m = 10 * q + r
    BY <2>1
  <2>3. f[m] = Append(f[q], Digits[r + 1])
    <3>1. f[m] = IF m < 10 THEN <<Digits[m + 1]>>
                 ELSE Append(f[m \div 10], Digits[(m % 10) + 1])
      BY <1>2
    <3>2. ~(m < 10)
      BY <1>5
    <3> QED
      BY <2>1, <3>1, <3>2
  <2>4. Digits[r + 1] \in D /\ Denotes(Digits[r + 1]) = r
    BY <2>2, DigitDenotes
  <2>5. f[q] \in Seq(D) /\ ValueOf(f[q]) = q
    BY <1>5, <2>1
  <2>6. ValueOf(Append(f[q], Digits[r + 1])) = 10 * ValueOf(f[q]) + Denotes(Digits[r + 1])
    BY <2>4, <2>5, ValueGrows
  <2>7. Append(f[q], Digits[r + 1]) \in Seq(D) /\ Append(f[q], Digits[r + 1]) # <<>>
    BY <2>4, <2>5
  <2> QED
    BY <2>2, <2>3, <2>4, <2>5, <2>6, <2>7
<1>6. 0 \in S
  BY <1>4
<1>7. ASSUME NEW j \in Nat, j \in S
      PROVE  j + 1 \in S
  <2>1. SUFFICES ASSUME NEW m \in 0..(j + 1), m <= n
                 PROVE  Good(f[m], m)
    OBVIOUS
  <2>2. CASE m < 10
    BY <1>4, <2>1, <2>2
  <2>3. CASE m >= 10
    <3>1. m \div 10 \in 0..j /\ m \div 10 <= n
      BY <2>1, <2>3
    <3>2. Good(f[m \div 10], m \div 10)
      BY <1>7, <3>1
    <3> QED
      BY <1>5, <2>1, <2>3, <3>2
  <2> QED
    BY <2>1, <2>2, <2>3
<1>8. n \in S
  <2> HIDE DEF S
  <2>1. Nat \subseteq S
    BY <1>6, <1>7, Induction
  <2> QED
    BY <2>1
<1>9. Good(f[n], n)
  BY <1>8
<1> QED
  BY <1>3, <1>9

\* What std::to_string writes is read as the number it was given.
LEMMA TextRead ==
  ASSUME NEW n \in (-I64Max - 1)..I64Max
  PROVE  /\ ToText(n) \in Seq(Symbol) /\ ToText(n) # <<>>
         /\ ParseI64(ToText(n)) = {n}
         /\ \A i \in 1..Len(ToText(n)) : ToText(n)[i] # CR
<1> DEFINE D == ToSet(Digits)
<1>1. D \subseteq Symbol /\ "-" \in Symbol /\ CR \notin D /\ "-" \notin D /\ CR # "-" /\ n \in Int
  <2>1. \A x \in D : x \in {"0", "1", "2", "3", "4", "5", "6", "7", "8", "9"}
    <3>1. DOMAIN Digits = 1..10
      BY DEF Digits
    <3>2. \A i \in 1..10 : Digits[i] \in {"0", "1", "2", "3", "4", "5", "6", "7", "8", "9"}
      BY DEF Digits
    <3> QED
      BY <3>1, <3>2 DEF ToSet
  <2>2. n \in Int
    BY RespAssumption
  <2>3. CR # "-" /\ CR \notin D /\ "-" \notin D
    BY <2>1 DEF CR
  <2>4. D \subseteq Symbol /\ "-" \in Symbol
    BY DEF Symbol
  <2> QED
    BY <2>2, <2>3, <2>4
<1>2. CASE n >= 0
  <2>1. PICK d : d = Numeral(n)
    OBVIOUS
  <2>2. d \in Seq(D) /\ d # <<>> /\ ValueOf(d) = n
    BY <1>1, <1>2, <2>1, NumeralDenotes
  <2>3. ToText(n) = d
    BY <1>1, <1>2, <2>1 DEF ToText
  <2>4. Head(d) # "-" /\ ToSet(d) \subseteq D /\ \A i \in 1..Len(d) : d[i] # CR
    BY <1>1, <2>2 DEF ToSet
  <2>5. d \in Seq(Symbol)
    BY <1>1, <2>2
  <2>6. ParseI64(d) = {ValueOf(d)} \cap (-I64Max - 1)..I64Max
    BY <2>2, <2>4 DEF ParseI64
  <2> QED
    BY <2>2, <2>3, <2>4, <2>5, <2>6
<1>3. CASE n < 0
  <2>1. PICK d : d = Numeral(-n)
    OBVIOUS
  <2>2. d \in Seq(D) /\ d # <<>> /\ ValueOf(d) = -n
    BY <1>1, <1>3, <2>1, NumeralDenotes
  <2>3. PICK t : t = <<"-">> \o d
    OBVIOUS
  <2>4. ToText(n) = t
    BY <1>1, <1>3, <2>1, <2>3 DEF ToText
  <2>5. /\ t \in Seq(Symbol) /\ t # <<>> /\ Head(t) = "-" /\ Tail(t) = d
        /\ \A i \in 1..Len(t) : t[i] # CR
    <3>1. d \in Seq(Symbol) /\ "-" \in Symbol
      BY <1>1, <2>2
    <3>2. \A i \in 1..Len(d) : d[i] # CR
      BY <1>1, <2>2
    <3>3. /\ t \in Seq(Symbol) /\ Len(t) = Len(d) + 1 /\ t[1] = "-"
          /\ \A i \in 1..Len(d) : t[i + 1] = d[i]
      BY <2>3, <3>1
    <3>4. Tail(t) = d
      BY <3>1, <3>3
    <3>5. \A i \in 1..Len(t) : i = 1 \/ (i - 1 \in 1..Len(d) /\ (i - 1) + 1 = i)
      BY <3>1, <3>3
    <3>6. \A i \in 1..Len(t) : t[i] # CR
      <4> SUFFICES ASSUME NEW i \in 1..Len(t)
                   PROVE  t[i] # CR
        OBVIOUS
      <4>1. CASE i = 1
        BY <1>1, <3>3, <4>1
      <4>2. CASE i # 1
        <5>1. PICK j : j = i - 1
          OBVIOUS
        <5>2. j \in 1..Len(d) /\ j + 1 = i
          BY <3>5, <4>2, <5>1
        <5>3. t[i] = d[j]
          BY <3>3, <5>2
        <5> QED
          BY <3>2, <5>2, <5>3
      <4> QED
        BY <4>1, <4>2
    <3> QED
      BY <3>1, <3>3, <3>4, <3>6
  <2>6. ToSet(d) \subseteq D
    BY <2>2 DEF ToSet
  <2>7. ParseI64(t) = {-ValueOf(d)} \cap (-I64Max - 1)..I64Max
    BY <2>2, <2>5, <2>6 DEF ParseI64
  <2>8. -ValueOf(d) = n
    BY <1>1, <2>2
  <2> QED
    BY <2>4, <2>5, <2>7, <2>8
<1> QED
  BY <1>1, <1>2, <1>3

-----------------------------------------------------------------------------
(* Lines.                                                                  *)

\* The piece lies in bytes, at pos.
Lies(bytes, pos, piece) ==
  /\ pos + Len(piece) - 1 <= Len(bytes)
  /\ \A i \in 1..Len(piece) : bytes[(pos - 1) + i] = piece[i]

LEMMA Joined ==
  ASSUME NEW S, NEW a \in Seq(S), NEW b \in Seq(S)
  PROVE  /\ a \o b \in Seq(S) /\ Len(a \o b) = Len(a) + Len(b)
         /\ \A i \in 1..Len(a) : (a \o b)[i] = a[i]
         /\ \A i \in 1..Len(b) : (a \o b)[Len(a) + i] = b[i]
<1>1. PICK m, n : m = Len(a) /\ n = Len(b)
  OBVIOUS
<1>2. m \in Nat /\ n \in Nat
  BY <1>1
<1>3. /\ a \o b \in Seq(S) /\ Len(a \o b) = m + n
      /\ \A i \in 1..(m + n) : (a \o b)[i] = IF i <= m THEN a[i] ELSE b[i - m]
  BY <1>1, ConcatProperties
<1>4. \A i \in 1..m : i \in 1..(m + n) /\ i <= m
  BY <1>2
<1>5. \A i \in 1..n : m + i \in 1..(m + n) /\ ~(m + i <= m) /\ (m + i) - m = i
  BY <1>2
<1> QED
  BY <1>1, <1>3, <1>4, <1>5

LEMMA LiesApart ==
  ASSUME NEW S, NEW a \in Seq(S), NEW b \in Seq(S), NEW bytes \in Seq(S),
         NEW pos \in Nat \ {0}, Lies(bytes, pos, a \o b)
  PROVE  Lies(bytes, pos, a) /\ Lies(bytes, pos + Len(a), b)
<1>1. PICK m, n, s : m = Len(a) /\ n = Len(b) /\ s = a \o b
  OBVIOUS
<1>2. m \in Nat /\ n \in Nat /\ Len(bytes) \in Nat
  BY <1>1
<1>3. /\ Len(s) = m + n
      /\ \A i \in 1..m : s[i] = a[i]
      /\ \A i \in 1..n : s[m + i] = b[i]
  BY <1>1, Joined
<1>4. pos + (m + n) - 1 <= Len(bytes) /\ \A i \in 1..(m + n) : bytes[(pos - 1) + i] = s[i]
  BY <1>1, <1>3 DEF Lies
<1>5. Lies(bytes, pos, a)
  <2>1. \A i \in 1..m : i \in 1..(m + n)
    BY <1>2
  <2>2. pos + m - 1 <= Len(bytes)
    BY <1>2, <1>4
  <2> QED
    BY <1>1, <1>3, <1>4, <2>1, <2>2 DEF Lies
<1>6. Lies(bytes, pos + m, b)
  <2>1. \A i \in 1..n : m + i \in 1..(m + n) /\ ((pos + m) - 1) + i = (pos - 1) + (m + i)
    BY <1>2
  <2>2. (pos + m) + n - 1 <= Len(bytes)
    BY <1>2, <1>4
  <2>3. \A i \in 1..n : bytes[((pos + m) - 1) + i] = b[i]
    BY <1>3, <1>4, <2>1
  <2> QED
    BY <1>1, <2>2, <2>3 DEF Lies
<1> QED
  BY <1>1, <1>5, <1>6

LEMMA LiesThere ==
  ASSUME NEW S, NEW a \in Seq(S), NEW bytes \in Seq(S), NEW pos \in Nat \ {0},
         Lies(bytes, pos, a)
  PROVE  SubSeq(bytes, pos, pos + Len(a) - 1) = a
<1>1. PICK m, p : m = Len(a) /\ p = pos - 1
  OBVIOUS
<1>2. /\ m \in Nat /\ p \in Nat /\ p + 1 = pos /\ Len(bytes) \in Nat /\ p + m <= Len(bytes)
      /\ pos + m - 1 = p + m
  BY <1>1 DEF Lies
<1>3. PICK x : x = SubSeq(bytes, p + 1, p + m)
  OBVIOUS
<1>4. x \in Seq(S) /\ Len(x) = m
  BY <1>2, <1>3, Piece
<1>5. \A i \in 1..m : x[i] = bytes[p + i]
  BY <1>2, <1>3
<1>6. \A i \in 1..m : bytes[p + i] = a[i]
  BY <1>1 DEF Lies
<1>7. x = a
  BY <1>1, <1>4, <1>5, <1>6
<1> QED
  BY <1>1, <1>2, <1>3, <1>7

LEMMA TwoBytes ==
  ASSUME NEW S, NEW bytes \in Seq(S), NEW i \in 1..(Len(bytes) - 1)
  PROVE  SubSeq(bytes, i, i + 1) = CRLF <=> bytes[i] = CR /\ bytes[i + 1] = LF
<1>1. PICK x : x = SubSeq(bytes, i, i + 1)
  OBVIOUS
<1>2. i \in Nat /\ i + 1 \in Nat /\ Len(bytes) \in Nat /\ i + 1 <= Len(bytes) /\ (i - 1) + 1 = i
      /\ i - 1 \in Nat
  OBVIOUS
<1>3. x \in Seq(S) /\ Len(x) = 2
  <2>1. /\ SubSeq(bytes, (i - 1) + 1, i + 1) \in Seq(S)
        /\ Len(SubSeq(bytes, (i - 1) + 1, i + 1)) = (i + 1) - (i - 1)
    <3>1. i - 1 <= i + 1
      BY <1>2
    <3> QED
      BY <1>2, <3>1, Piece
  <2>2. (i + 1) - (i - 1) = 2
    BY <1>2
  <2> QED
    BY <1>1, <1>2, <2>1, <2>2
<1>4. x[1] = bytes[i] /\ x[2] = bytes[i + 1]
  BY <1>1, <1>2
<1>5. x = <<x[1], x[2]>>
  BY <1>3
<1>6. x = CRLF <=> x[1] = CR /\ x[2] = LF
  BY <1>5 DEF CRLF
<1> QED
  BY <1>1, <1>4, <1>6

\* The line end that find_crlf finds: none is before it.
LEMMA LineFound ==
  ASSUME NEW S, NEW bytes \in Seq(S), NEW pos \in Nat \ {0}, NEW end \in Nat,
         pos <= end, end + 1 <= Len(bytes), bytes[end] = CR, bytes[end + 1] = LF,
         \A i \in pos..(end - 1) : ~(bytes[i] = CR /\ bytes[i + 1] = LF)
  PROVE  LineEnds(bytes, pos) # {} /\ Min(LineEnds(bytes, pos)) = end
<1> DEFINE L == LineEnds(bytes, pos)
<1>1. Len(bytes) \in Nat
  OBVIOUS
<1>2. \A i \in pos..(Len(bytes) - 1) : i \in 1..(Len(bytes) - 1)
  OBVIOUS
<1>3. \A i \in pos..(Len(bytes) - 1) : i \in L <=> bytes[i] = CR /\ bytes[i + 1] = LF
  BY <1>2, TwoBytes DEF LineEnds
<1>4. L \subseteq pos..(Len(bytes) - 1) /\ L \subseteq Nat
  BY <1>1 DEF LineEnds
<1> HIDE DEF L
<1>5. end \in L
  BY <1>1, <1>3
<1>6. Min(L) \in L /\ Min(L) <= end
  BY <1>4, <1>5, LeastFound
<1>7. PICK m : m = Min(L)
  OBVIOUS
<1>8. m \in pos..(Len(bytes) - 1) /\ bytes[m] = CR /\ bytes[m + 1] = LF /\ m <= end
  BY <1>3, <1>4, <1>6, <1>7
<1>9. m = end
  BY <1>1, <1>8
<1> QED
  BY <1>5, <1>7, <1>9 DEF L

LEMMA LineShape ==
  ASSUME NEW type \in Symbol, NEW text \in Seq(Symbol)
  PROVE  /\ Line(type, text) \in Seq(Symbol)
         /\ Len(Line(type, text)) = Len(text) + 3
         /\ Line(type, text)[1] = type
         /\ \A i \in 1..Len(text) : Line(type, text)[1 + i] = text[i]
         /\ Line(type, text)[Len(text) + 2] = CR
         /\ Line(type, text)[Len(text) + 3] = LF
<1>1. PICK n, head : n = Len(text) /\ head = <<type>> \o text
  OBVIOUS
<1>2. n \in Nat
  BY <1>1
<1>3. <<type>> \in Seq(Symbol) /\ Len(<<type>>) = 1 /\ <<type>>[1] = type
  OBVIOUS
<1>4. CRLF \in Seq(Symbol) /\ Len(CRLF) = 2 /\ CRLF[1] = CR /\ CRLF[2] = LF
  BY DEF CRLF, Symbol
<1>5. /\ head \in Seq(Symbol) /\ Len(head) = 1 + n /\ head[1] = type
      /\ \A i \in 1..n : head[1 + i] = text[i]
  <2>1. 1 \in 1..1
    OBVIOUS
  <2> QED
    BY <1>1, <1>3, <2>1, Joined
<1>6. PICK line : line = head \o CRLF
  OBVIOUS
<1>7. Line(type, text) = line
  BY <1>1, <1>6 DEF Line
<1>8. /\ line \in Seq(Symbol) /\ Len(line) = (1 + n) + 2
      /\ \A i \in 1..(1 + n) : line[i] = head[i]
      /\ \A i \in 1..2 : line[(1 + n) + i] = CRLF[i]
  <2>1. head \in Seq(Symbol) /\ CRLF \in Seq(Symbol)
    BY <1>4, <1>5
  <2>2. /\ head \o CRLF \in Seq(Symbol) /\ Len(head \o CRLF) = Len(head) + Len(CRLF)
        /\ \A i \in 1..Len(head) : (head \o CRLF)[i] = head[i]
        /\ \A i \in 1..Len(CRLF) : (head \o CRLF)[Len(head) + i] = CRLF[i]
    BY <2>1, Joined
  <2>3. Len(head) = 1 + n /\ Len(CRLF) = 2
    BY <1>4, <1>5
  <2> QED
    BY <1>6, <2>2, <2>3
<1>9. 1 \in 1..(1 + n) /\ (\A i \in 1..n : 1 + i \in 1..(1 + n))
      /\ (1 + n) + 1 = n + 2 /\ (1 + n) + 2 = n + 3
  BY <1>2
<1>10. line[1] = type /\ \A i \in 1..n : line[1 + i] = text[i]
  BY <1>5, <1>8, <1>9
<1>11. line[n + 2] = CR /\ line[n + 3] = LF
  BY <1>4, <1>8, <1>9
<1> QED
  BY <1>1, <1>7, <1>8, <1>9, <1>10, <1>11

\* A line is read as what it says, wherever it lies.
LEMMA LineRead ==
  ASSUME NEW bytes \in Seq(Symbol), NEW pos \in Nat \ {0}, NEW open,
         NEW type \in {"+", "-", ":", "$", "*"}, NEW text \in Seq(Symbol), ~BreaksLine(text),
         Lies(bytes, pos, Line(type, text))
  PROVE  ParseAt(bytes, pos, open) =
           Message(type, text, CHOOSE n \in ParseI64(text) : TRUE, pos + Len(text) + 3,
                   bytes, open)
<1>1. PICK n, line, end : n = Len(text) /\ line = Line(type, text) /\ end = pos + 1 + n
  OBVIOUS
<1>2. type \in Symbol
  BY DEF Symbol
<1>3. /\ n \in Nat /\ Len(bytes) \in Nat /\ end \in Nat
      /\ Len(line) = n + 3 /\ line[1] = type /\ line[n + 2] = CR /\ line[n + 3] = LF
      /\ \A i \in 1..n : line[1 + i] = text[i]
  <2>1. /\ Len(Line(type, text)) = Len(text) + 3
        /\ Line(type, text)[1] = type
        /\ \A i \in 1..Len(text) : Line(type, text)[1 + i] = text[i]
        /\ Line(type, text)[Len(text) + 2] = CR
        /\ Line(type, text)[Len(text) + 3] = LF
    BY <1>2, LineShape
  <2>2. n \in Nat /\ Len(bytes) \in Nat
    BY <1>1
  <2> QED
    BY <1>1, <2>1, <2>2
<1>4. pos + (n + 3) - 1 <= Len(bytes) /\ \A i \in 1..(n + 3) : bytes[(pos - 1) + i] = line[i]
  BY <1>1, <1>3 DEF Lies
<1>5. bytes[pos] = type /\ bytes[end] = CR /\ bytes[end + 1] = LF
  <2>1. /\ 1 \in 1..(n + 3) /\ n + 2 \in 1..(n + 3) /\ n + 3 \in 1..(n + 3)
        /\ (pos - 1) + 1 = pos /\ (pos - 1) + (n + 2) = end /\ (pos - 1) + (n + 3) = end + 1
    BY <1>1, <1>3
  <2> QED
    BY <1>3, <1>4, <2>1
<1>6. \A i \in 1..n : bytes[pos + i] = text[i]
  <2>1. \A i \in 1..n : 1 + i \in 1..(n + 3) /\ (pos - 1) + (1 + i) = pos + i
    BY <1>3
  <2> QED
    BY <1>3, <1>4, <2>1
<1>7. ASSUME NEW i \in (pos + 1)..(end - 1)
      PROVE  ~(bytes[i] = CR /\ bytes[i + 1] = LF)
  <2>1. PICK j : j = i - pos
    OBVIOUS
  <2>2. j \in 1..n /\ pos + j = i /\ i + 1 = pos + (j + 1)
    BY <1>1, <1>3, <2>1
  <2>3. bytes[i] = text[j]
    BY <1>6, <2>2
  <2>4. CASE j = n
    <3>1. i + 1 = end
      BY <1>1, <2>2, <2>4
    <3> QED
      BY <1>5, <3>1 DEF CR, LF
  <2>5. CASE j # n
    <3>1. j + 1 \in 1..n /\ j \in 1..(Len(text) - 1)
      BY <1>1, <1>3, <2>2, <2>5
    <3>2. bytes[i + 1] = text[j + 1]
      BY <1>6, <2>2, <3>1
    <3>3. ~(text[j] = CR /\ text[j + 1] = LF)
      BY <3>1 DEF BreaksLine
    <3> QED
      BY <2>3, <3>2, <3>3
  <2> QED
    BY <2>4, <2>5
<1>8. pos + 1 \in Nat \ {0} /\ pos + 1 <= end /\ end + 1 <= Len(bytes) /\ ~(pos > Len(bytes))
  BY <1>1, <1>3, <1>4
<1>9. LineEnds(bytes, pos + 1) # {} /\ Min(LineEnds(bytes, pos + 1)) = end
  BY <1>3, <1>5, <1>7, <1>8, LineFound
<1>10. ParseAt(bytes, pos, open) = ParseMessage(bytes, pos, end, open)
  BY <1>5, <1>8, <1>9 DEF ParseAt
<1>11. SubSeq(bytes, pos + 1, end - 1) = text
  <2>1. Lies(bytes, pos + 1, text)
    <3>1. \A i \in 1..n : ((pos + 1) - 1) + i = pos + i
      BY <1>3
    <3>2. (pos + 1) + n - 1 <= Len(bytes)
      BY <1>3, <1>4
    <3> QED
      BY <1>1, <1>6, <3>1, <3>2 DEF Lies
  <2>2. (pos + 1) + n - 1 = end - 1
    BY <1>1, <1>3
  <2>3. SubSeq(bytes, pos + 1, (pos + 1) + Len(text) - 1) = text
    BY <1>8, <2>1, LiesThere
  <2> QED
    BY <1>1, <2>2, <2>3
<1>12. ParseMessage(bytes, pos, end, open) =
         Message(bytes[pos], SubSeq(bytes, pos + 1, end - 1),
                 CHOOSE k \in ParseI64(SubSeq(bytes, pos + 1, end - 1)) : TRUE, end + 2,
                 bytes, open)
  BY Zenon DEF ParseMessage, Message
<1>13. end + 2 = pos + Len(text) + 3
  BY <1>1, <1>3
<1> QED
  BY <1>5, <1>10, <1>11, <1>12, <1>13

-----------------------------------------------------------------------------
(* Values.                                                                 *)

LEMMA TextOfNumber ==
  ASSUME NEW n \in (-I64Max - 1)..I64Max
  PROVE  /\ ToText(n) \in Seq(Symbol) /\ ~BreaksLine(ToText(n))
         /\ ParseI64(ToText(n)) # {}
         /\ (CHOOSE k \in ParseI64(ToText(n)) : TRUE) = n
         /\ n = -1 => Length(ToText(n)) = {-1}
         /\ n >= 0 => Length(ToText(n)) # {} /\ Length(ToText(n)) # {-1}
                      /\ Length(ToText(n)) \ {-1} # {}
<1>1. PICK t : t = ToText(n)
  OBVIOUS
<1>2. t \in Seq(Symbol) /\ ParseI64(t) = {n} /\ \A i \in 1..Len(t) : t[i] # CR
  BY <1>1, TextRead
<1>3. ~BreaksLine(t)
  <2>1. \A i \in 1..(Len(t) - 1) : i \in 1..Len(t)
    BY <1>2
  <2> QED
    BY <1>2, <2>1 DEF BreaksLine
<1>4. Length(t) = {k \in {n} : k >= -1} /\ n \in Int
  BY <1>2, RespAssumption DEF Length
<1> QED
  BY <1>1, <1>2, <1>3, <1>4

\* A line is read as a simple string or an error.
LEMMA TextLineRead ==
  ASSUME NEW bytes \in Seq(Symbol), NEW pos \in Nat \ {0}, NEW open, NEW s \in Seq(Symbol),
         ~BreaksLine(s)
  PROVE  /\ SimpleString(s) \in Seq(Symbol) /\ Len(SimpleString(s)) = Len(s) + 3
         /\ RespErrorReply(s) \in Seq(Symbol) /\ Len(RespErrorReply(s)) = Len(s) + 3
         /\ Lies(bytes, pos, SimpleString(s)) =>
              ParseAt(bytes, pos, open) = Parsed(String(s), pos + Len(s) + 3, open)
         /\ Lies(bytes, pos, RespErrorReply(s)) =>
              ParseAt(bytes, pos, open) = Parsed(RespError(s), pos + Len(s) + 3, open)
<1>1. "+" \in Symbol /\ "-" \in Symbol
  BY DEF Symbol
<1>2. \A type \in {"+", "-"} : Line(type, s) \in Seq(Symbol) /\ Len(Line(type, s)) = Len(s) + 3
  BY <1>1, LineShape
<1>3. ASSUME NEW type \in {"+", "-"}, Lies(bytes, pos, Line(type, s))
      PROVE  ParseAt(bytes, pos, open) =
               IF type = "+" THEN Parsed(String(s), pos + Len(s) + 3, open)
               ELSE Parsed(RespError(s), pos + Len(s) + 3, open)
  <2>1. type \in {"+", "-", ":", "$", "*"}
    OBVIOUS
  <2>2. ParseAt(bytes, pos, open) =
          Message(type, s, CHOOSE n \in ParseI64(s) : TRUE, pos + Len(s) + 3, bytes, open)
    BY <1>3, <2>1, LineRead
  <2> QED
    BY <2>2 DEF Message
<1> QED
  BY <1>2, <1>3 DEF SimpleString, RespErrorReply

LEMMA BulkShape ==
  ASSUME NEW s \in Seq(Symbol), Len(s) <= I64Max
  PROVE  /\ Line("$", ToText(Len(s))) \in Seq(Symbol)
         /\ Line("$", ToText(Len(s))) \o s \in Seq(Symbol)
         /\ CRLF \in Seq(Symbol) /\ Len(CRLF) = 2
         /\ RespBulk(s) \in Seq(Symbol)
         /\ Len(Line("$", ToText(Len(s)))) = Len(ToText(Len(s))) + 3
         /\ Len(Line("$", ToText(Len(s))) \o s) = Len(ToText(Len(s))) + 3 + Len(s)
         /\ Len(RespBulk(s)) = Len(ToText(Len(s))) + 3 + Len(s) + 2
         /\ Len(ToText(Len(s))) \in Nat
<1>1. PICK n, t, line : n = Len(s) /\ t = ToText(n) /\ line = Line("$", t)
  OBVIOUS
<1>2. n \in Nat /\ n \in (-I64Max - 1)..I64Max
  BY <1>1, RespAssumption
<1>3. t \in Seq(Symbol) /\ Len(t) \in Nat
  BY <1>1, <1>2, TextOfNumber
<1>4. line \in Seq(Symbol) /\ Len(line) = Len(t) + 3
  <2>1. "$" \in Symbol
    BY DEF Symbol
  <2> QED
    BY <1>1, <1>3, <2>1, LineShape
<1>5. line \o s \in Seq(Symbol) /\ Len(line \o s) = Len(line) + Len(s)
  BY <1>4, Joined
<1>6. CRLF \in Seq(Symbol) /\ Len(CRLF) = 2
  BY DEF CRLF, Symbol
<1>7. (line \o s) \o CRLF \in Seq(Symbol) /\ Len((line \o s) \o CRLF) = Len(line \o s) + Len(CRLF)
  BY <1>5, <1>6, Joined
<1>8. RespBulk(s) = (line \o s) \o CRLF
  BY <1>1 DEF RespBulk
<1> QED
  BY <1>1, <1>2, <1>3, <1>4, <1>5, <1>6, <1>7, <1>8

LEMMA BulkRead ==
  ASSUME NEW bytes \in Seq(Symbol), NEW pos \in Nat \ {0}, NEW open, NEW s \in Seq(Symbol),
         Len(s) <= I64Max, Lies(bytes, pos, RespBulk(s))
  PROVE  ParseAt(bytes, pos, open) = Parsed(String(s), pos + Len(RespBulk(s)), open)
<1>1. PICK n, t, line : n = Len(s) /\ t = ToText(n) /\ line = Line("$", t)
  OBVIOUS
<1>2. n \in Nat /\ n \in (-I64Max - 1)..I64Max /\ n >= 0
  BY <1>1, RespAssumption
<1>3. /\ t \in Seq(Symbol) /\ ~BreaksLine(t)
      /\ (CHOOSE k \in ParseI64(t) : TRUE) = n
      /\ Length(t) # {} /\ Length(t) # {-1} /\ Length(t) \ {-1} # {}
  BY <1>1, <1>2, TextOfNumber
<1>4. /\ line \in Seq(Symbol) /\ line \o s \in Seq(Symbol) /\ CRLF \in Seq(Symbol)
      /\ Len(line) = Len(t) + 3 /\ Len(line \o s) = Len(t) + 3 + n
      /\ Len(RespBulk(s)) = Len(t) + 3 + n + 2 /\ Len(t) \in Nat /\ Len(CRLF) = 2
  BY <1>1, BulkShape
<1>5. Lies(bytes, pos, (line \o s) \o CRLF)
  BY <1>1 DEF RespBulk
<1>6. Lies(bytes, pos, line \o s) /\ Lies(bytes, pos + Len(line \o s), CRLF)
  BY <1>4, <1>5, LiesApart
<1>7. Lies(bytes, pos, line) /\ Lies(bytes, pos + Len(line), s)
  BY <1>4, <1>6, LiesApart
<1>8. PICK start, end : start = pos + Len(t) + 3 /\ end = start + n
  OBVIOUS
<1>9. /\ start \in Nat \ {0} /\ end \in Nat \ {0}
      /\ pos + Len(line) = start /\ pos + Len(line \o s) = end
      /\ pos + Len(RespBulk(s)) = end + 2
  BY <1>2, <1>4, <1>8
<1>10. ParseAt(bytes, pos, open) = Message("$", t, n, start, bytes, open)
  <2>1. "$" \in {"+", "-", ":", "$", "*"}
    OBVIOUS
  <2>2. ParseAt(bytes, pos, open) =
          Message("$", t, CHOOSE k \in ParseI64(t) : TRUE, pos + Len(t) + 3, bytes, open)
    <3>1. Lies(bytes, pos, Line("$", t))
      BY <1>1, <1>7
    <3> QED
      BY <1>3, <2>1, <3>1, LineRead
  <2> QED
    BY <1>3, <1>8, <2>2
<1>11. Message("$", t, n, start, bytes, open) = ParseBulk(bytes, start, n, open)
  BY <1>3 DEF Message
<1>12. SubSeq(bytes, end, end + 1) = CRLF /\ end + 1 <= Len(bytes)
  <2>1. SubSeq(bytes, end, end + Len(CRLF) - 1) = CRLF
    BY <1>4, <1>6, <1>9, LiesThere
  <2>2. end + Len(CRLF) - 1 = end + 1
    BY <1>4, <1>9
  <2>3. end + Len(CRLF) - 1 <= Len(bytes)
    BY <1>6, <1>9 DEF Lies
  <2> QED
    BY <2>1, <2>2, <2>3
<1>13. SubSeq(bytes, start, end - 1) = s
  <2>1. SubSeq(bytes, start, start + Len(s) - 1) = s
    BY <1>7, <1>9, LiesThere
  <2>2. start + Len(s) - 1 = end - 1
    BY <1>1, <1>8
  <2> QED
    BY <2>1, <2>2
<1>14. ParseBulk(bytes, start, n, open) = Parsed(String(s), end + 2, open)
  <2>1. ~(end + 1 > Len(bytes))
    BY <1>9, <1>12
  <2> QED
    BY <1>8, <1>12, <1>13, <2>1 DEF ParseBulk
<1> QED
  BY <1>9, <1>10, <1>11, <1>14

\* A string, an integer or null: read as what was written, wherever it lies.
LEMMA PlainRead ==
  ASSUME NEW bytes \in Seq(Symbol), NEW pos \in Nat \ {0}, NEW open, NEW v, Plain(v)
  PROVE  /\ RespEncode(v) \in Seq(Symbol) /\ Len(RespEncode(v)) >= 3
         /\ Lies(bytes, pos, RespEncode(v)) =>
              ParseAt(bytes, pos, open) = Parsed(v, pos + Len(RespEncode(v)), open)
<1>1. ASSUME NEW type \in {":", "$"}, NEW n \in (-I64Max - 1)..I64Max,
             NEW b, b = Line(type, ToText(n))
      PROVE  /\ b \in Seq(Symbol) /\ Len(b) >= 3
             /\ Lies(bytes, pos, b) =>
                  ParseAt(bytes, pos, open) =
                    Message(type, ToText(n), n, pos + Len(b), bytes, open)
  <2>1. type \in Symbol /\ type \in {"+", "-", ":", "$", "*"}
    BY DEF Symbol
  <2>2. PICK t : t = ToText(n)
    OBVIOUS
  <2>3. t \in Seq(Symbol) /\ ~BreaksLine(t) /\ (CHOOSE k \in ParseI64(t) : TRUE) = n
    BY <2>2, TextOfNumber
  <2>4. b \in Seq(Symbol) /\ Len(b) = Len(t) + 3 /\ Len(t) \in Nat
    <3>1. Line(type, t) \in Seq(Symbol) /\ Len(Line(type, t)) = Len(t) + 3
      BY <2>1, <2>3, LineShape
    <3>2. b = Line(type, t)
      BY <1>1, <2>2
    <3> QED
      BY <2>3, <3>1, <3>2
  <2>5. ASSUME Lies(bytes, pos, b)
        PROVE  ParseAt(bytes, pos, open) = Message(type, t, n, pos + Len(b), bytes, open)
    <3>1. ParseAt(bytes, pos, open) =
            Message(type, t, CHOOSE k \in ParseI64(t) : TRUE, pos + Len(t) + 3, bytes, open)
      <4>1. Lies(bytes, pos, Line(type, t))
        BY <1>1, <2>2, <2>5
      <4> QED
        BY <2>1, <2>3, <4>1, LineRead
    <3>2. pos + Len(b) = pos + Len(t) + 3
      BY <2>4
    <3> QED
      BY <2>3, <3>1, <3>2
  <2> QED
    BY <2>2, <2>4, <2>5
<1>2. CASE v.type = "null" /\ v = Null
  <2>1. -1 \in (-I64Max - 1)..I64Max
    BY RespAssumption
  <2>2. RespEncode(v) = Line("$", ToText(-1))
    BY <1>2 DEF RespEncode, RespNullBulk
  <2>3. Length(ToText(-1)) = {-1}
    BY <2>1, TextOfNumber
  <2>4. Message("$", ToText(-1), -1, pos + Len(RespEncode(v)), bytes, open)
          = Parsed(v, pos + Len(RespEncode(v)), open)
    BY <1>2, <2>3 DEF Message
  <2> QED
    BY <1>1, <2>1, <2>2, <2>4
<1>3. CASE v.type = "string" /\ v = String(v.s) /\ v.s \in Seq(STRING) /\ Len(v.s) <= I64Max
  <2>1. RespEncode(v) = RespBulk(v.s)
    BY <1>3 DEF RespEncode
  <2>2. v.s \in Seq(Symbol)
    BY <1>3 DEF Symbol
  <2>3. RespBulk(v.s) \in Seq(Symbol) /\ Len(RespBulk(v.s)) >= 3
    BY <1>3, <2>2, BulkShape
  <2>4. Lies(bytes, pos, RespBulk(v.s)) =>
          ParseAt(bytes, pos, open) = Parsed(String(v.s), pos + Len(RespBulk(v.s)), open)
    BY <1>3, <2>2, BulkRead
  <2> QED
    BY <1>3, <2>1, <2>3, <2>4
<1>4. CASE v.type = "integer" /\ v = Integer(v.n) /\ v.n \in (-I64Max - 1)..I64Max
  <2>1. RespEncode(v) = Line(":", ToText(v.n))
    BY <1>4 DEF RespEncode, RespInteger
  <2>2. ParseI64(ToText(v.n)) # {}
    BY <1>4, TextOfNumber
  <2>3. Message(":", ToText(v.n), v.n, pos + Len(RespEncode(v)), bytes, open)
          = Parsed(v, pos + Len(RespEncode(v)), open)
    BY <1>4, <2>2 DEF Message
  <2> QED
    BY <1>1, <1>4, <2>1, <2>3
<1> QED
  BY <1>2, <1>3, <1>4 DEF Plain

-----------------------------------------------------------------------------
(* Replies.                                                                *)

\* The bytes are read as v, to the last of them.
ReadAs(bytes, v) == bytes \in Seq(Symbol) /\ Parse(bytes) = Complete(v, Len(bytes))

LEMMA LiesWhole ==
  ASSUME NEW bytes \in Seq(Symbol)
  PROVE  Lies(bytes, 1, bytes)
<1>1. \A i \in 1..Len(bytes) : (1 - 1) + i = i
  OBVIOUS
<1>2. 1 + Len(bytes) - 1 <= Len(bytes)
  OBVIOUS
<1> QED
  BY <1>1, <1>2 DEF Lies

\* A message that one step completes, or some n of them.
LEMMA DoneAfter ==
  ASSUME NEW bytes \in Seq(Symbol), NEW n \in Nat, n <= Len(bytes) + 1, NEW v,
         ParseStates(bytes)[n] = Complete(v, Len(bytes))
  PROVE  ReadAs(bytes, v)
<1>1. Len(bytes) + 1 \in Nat
  OBVIOUS
<1>2. ParseStates(bytes)[n].status # "Reading"
  BY DEF Complete
<1>3. ParseStates(bytes)[Len(bytes) + 1] = ParseStates(bytes)[n]
  BY <1>1, <1>2, FinalStays
<1> QED
  BY <1>3 DEF ReadAs, Parse

LEMMA FirstStep ==
  ASSUME NEW bytes
  PROVE  ParseStates(bytes)[1] = ParseAt(bytes, 1, <<>>)
<1>1. ParseStates(bytes)[0 + 1] = ParseStep(bytes, Reading(1, <<>>))
  BY StatesDefined DEF Start
<1>2. ParseStep(bytes, Reading(1, <<>>)) = ParseAt(bytes, 1, <<>>)
  BY DEF ParseStep, Reading
<1> QED
  BY <1>1, <1>2

LEMMA OneCall ==
  ASSUME NEW bytes \in Seq(Symbol), NEW v,
         ParseAt(bytes, 1, <<>>) = Parsed(v, 1 + Len(bytes), <<>>)
  PROVE  ReadAs(bytes, v)
<1>1. Parsed(v, 1 + Len(bytes), <<>>) = Complete(v, (1 + Len(bytes)) - 1)
  BY DEF Parsed
<1>2. (1 + Len(bytes)) - 1 = Len(bytes) /\ 1 <= Len(bytes) + 1 /\ 1 \in Nat
  OBVIOUS
<1>3. ParseStates(bytes)[1] = Complete(v, Len(bytes))
  BY <1>1, <1>2, FirstStep
<1> QED
  BY <1>2, <1>3, DoneAfter

LEMMA PlainReadAs ==
  ASSUME NEW v, Plain(v)
  PROVE  ReadAs(RespEncode(v), v)
<1>1. PICK b : b = RespEncode(v)
  OBVIOUS
<1>2. b \in Seq(Symbol)
  <2>1. <<>> \in Seq(Symbol) /\ 1 \in Nat \ {0}
    OBVIOUS
  <2> QED
    BY <1>1, <2>1, PlainRead
<1>3. ParseAt(b, 1, <<>>) = Parsed(v, 1 + Len(b), <<>>)
  <2>1. Lies(b, 1, b) /\ 1 \in Nat \ {0}
    BY <1>2, LiesWhole
  <2> QED
    BY <1>1, <1>2, <2>1, PlainRead
<1> QED
  BY <1>1, <1>2, <1>3, OneCall

LEMMA TextReadAs ==
  ASSUME NEW s \in Seq(Symbol), ~BreaksLine(s)
  PROVE  ReadAs(SimpleString(s), String(s)) /\ ReadAs(RespErrorReply(s), RespError(s))
<1>1. PICK b, c : b = SimpleString(s) /\ c = RespErrorReply(s)
  OBVIOUS
<1>2. 1 \in Nat \ {0} /\ <<>> \in Seq(Symbol) /\ Len(s) \in Nat
  OBVIOUS
<1>3. b \in Seq(Symbol) /\ c \in Seq(Symbol) /\ Len(b) = Len(s) + 3 /\ Len(c) = Len(s) + 3
  BY <1>1, <1>2, TextLineRead
<1>4. Lies(b, 1, b) /\ Lies(c, 1, c)
  BY <1>3, LiesWhole
<1>5. /\ ParseAt(b, 1, <<>>) = Parsed(String(s), 1 + Len(s) + 3, <<>>)
      /\ ParseAt(c, 1, <<>>) = Parsed(RespError(s), 1 + Len(s) + 3, <<>>)
  BY <1>1, <1>2, <1>3, <1>4, TextLineRead
<1>6. 1 + Len(s) + 3 = 1 + Len(b) /\ 1 + Len(s) + 3 = 1 + Len(c)
  BY <1>2, <1>3
<1> QED
  BY <1>1, <1>3, <1>5, <1>6, OneCall

\* w holds what has been written of an array after each of its elements.
Wrote(w, elems) ==
  w = [i \in 0..Len(elems) |-> IF i = 0 THEN Line("*", ToText(Len(elems)))
                               ELSE w[i - 1] \o RespEncode(elems[i])]

LEMMA WroteExists ==
  ASSUME NEW elems, Len(elems) \in Nat
  PROVE  \E w : Wrote(w, elems)
<1> DEFINE first == Line("*", ToText(Len(elems)))
           Upto(w, n) == w = [i \in 0..n |-> IF i = 0 THEN first
                                             ELSE w[i - 1] \o RespEncode(elems[i])]
           S == {j \in Nat : \E w : Upto(w, j)}
<1> HIDE DEF first
<1>1. 0 \in S
  <2> DEFINE w == [i \in 0..0 |-> first]
  <2>1. w = [i \in 0..0 |-> IF i = 0 THEN first ELSE w[i - 1] \o RespEncode(elems[i])]
    OBVIOUS
  <2> QED
    BY <2>1
<1>2. ASSUME NEW j \in Nat, j \in S
      PROVE  j + 1 \in S
  <2>1. PICK v : Upto(v, j)
    BY <1>2
  <2> DEFINE w == [i \in 0..(j + 1) |-> IF i = j + 1 THEN v[j] \o RespEncode(elems[j + 1])
                                        ELSE v[i]]
  <2>2. ASSUME NEW i \in 0..(j + 1)
        PROVE  w[i] = IF i = 0 THEN first ELSE w[i - 1] \o RespEncode(elems[i])
    <3>1. CASE i = j + 1
      <4>1. i # 0 /\ w[i - 1] = v[j]
        BY <3>1
      <4> QED
        BY <3>1, <4>1
    <3>2. CASE i # j + 1
      <4>1. i \in 0..j /\ (i # 0 => i - 1 \in 0..j /\ i - 1 # j + 1)
        BY <3>2
      <4>2. v[i] = IF i = 0 THEN first ELSE v[i - 1] \o RespEncode(elems[i])
        BY <2>1, <4>1
      <4>3. w[i] = v[i] /\ (i # 0 => w[i - 1] = v[i - 1])
        BY <3>2, <4>1
      <4> QED
        BY <4>2, <4>3
    <3> QED
      BY <3>1, <3>2
  <2>3. w = [i \in 0..(j + 1) |-> w[i]]
    OBVIOUS
  <2> HIDE DEF w
  <2>4. w = [i \in 0..(j + 1) |-> IF i = 0 THEN first ELSE w[i - 1] \o RespEncode(elems[i])]
    BY <2>2, <2>3
  <2> QED
    BY <2>4
<1> HIDE DEF S
<1>3. Nat \subseteq S
  BY <1>1, <1>2, Induction
<1>4. Len(elems) \in S
  BY <1>3
<1> QED
  BY <1>4 DEF S, Wrote, first

LEMMA ArrayWritten ==
  ASSUME NEW elems, Len(elems) \in Nat
  PROVE  \E w : Wrote(w, elems) /\ RespArray(elems) = w[Len(elems)]
<1> DEFINE f == CHOOSE w : w = [i \in 0..Len(elems) |-> IF i = 0 THEN Line("*", ToText(Len(elems)))
                                       ELSE w[i - 1] \o RespEncode(elems[i])]
<1>1. \E w : w = [i \in 0..Len(elems) |-> IF i = 0 THEN Line("*", ToText(Len(elems)))
                                          ELSE w[i - 1] \o RespEncode(elems[i])]
  BY WroteExists DEF Wrote
<1>2. f = [i \in 0..Len(elems) |-> IF i = 0 THEN Line("*", ToText(Len(elems)))
                                   ELSE f[i - 1] \o RespEncode(elems[i])]
  BY <1>1, Zenon
<1>3. RespArray(elems) = f[Len(elems)]
  BY Zenon DEF RespArray
<1>4. Wrote(f, elems)
  BY <1>2, Zenon DEF Wrote
<1> QED
  BY <1>3, <1>4

\* The pieces of an array, one behind another.
LEMMA PiecesWritten ==
  ASSUME NEW E, NEW elems \in Seq(E), Len(elems) <= MaxReserve,
         \A i \in 1..Len(elems) : Plain(elems[i]), NEW w, Wrote(w, elems)
  PROVE  /\ w[0] = Line("*", ToText(Len(elems)))
         /\ \A j \in 0..(Len(elems) - 1) : w[j + 1] = w[j] \o RespEncode(elems[j + 1])
         /\ \A j \in 0..Len(elems) : w[j] \in Seq(Symbol) /\ Len(w[j]) >= 3 + 3 * j
<1>1. PICK n : n = Len(elems)
  OBVIOUS
<1>2. n \in Nat /\ n \in (-I64Max - 1)..I64Max
  BY <1>1, RespAssumption
<1>3. w[0] = Line("*", ToText(n)) /\ \A i \in 1..n : w[i] = w[i - 1] \o RespEncode(elems[i])
  <2>1. w = [i \in 0..n |-> IF i = 0 THEN Line("*", ToText(n))
                            ELSE w[i - 1] \o RespEncode(elems[i])]
    BY <1>1 DEF Wrote
  <2> QED
    BY <1>2, <2>1
<1>4. \A j \in 0..(n - 1) : w[j + 1] = w[j] \o RespEncode(elems[j + 1])
  <2>1. \A j \in 0..(n - 1) : j + 1 \in 1..n /\ (j + 1) - 1 = j
    BY <1>2
  <2> QED
    BY <1>3, <2>1
<1> DEFINE S == {j \in Nat : j <= n => w[j] \in Seq(Symbol) /\ Len(w[j]) >= 3 + 3 * j}
<1>5. 0 \in S
  <2>1. ToText(n) \in Seq(Symbol) /\ "*" \in Symbol
    BY <1>2, TextOfNumber DEF Symbol
  <2>2. Line("*", ToText(n)) \in Seq(Symbol) /\ Len(Line("*", ToText(n))) = Len(ToText(n)) + 3
    BY <2>1, LineShape
  <2>3. Len(ToText(n)) \in Nat
    BY <2>1
  <2> QED
    BY <1>3, <2>2, <2>3
<1>6. ASSUME NEW j \in Nat, j \in S
      PROVE  j + 1 \in S
  <2>1. SUFFICES ASSUME j + 1 <= n
                 PROVE  w[j + 1] \in Seq(Symbol) /\ Len(w[j + 1]) >= 3 + 3 * (j + 1)
    OBVIOUS
  <2>2. PICK a, b : a = w[j] /\ b = RespEncode(elems[j + 1])
    OBVIOUS
  <2>3. a \in Seq(Symbol) /\ Len(a) >= 3 + 3 * j
    BY <1>2, <1>6, <2>1, <2>2
  <2>4. b \in Seq(Symbol) /\ Len(b) >= 3
    <3>1. Plain(elems[j + 1])
      BY <1>1, <1>2, <2>1
    <3>2. <<>> \in Seq(Symbol) /\ 1 \in Nat \ {0}
      OBVIOUS
    <3> QED
      BY <2>2, <3>1, <3>2, PlainRead
  <2>5. a \o b \in Seq(Symbol) /\ Len(a \o b) = Len(a) + Len(b)
    BY <2>3, <2>4, Joined
  <2>6. w[j + 1] = a \o b
    <3>1. j \in 0..(n - 1)
      BY <1>2, <2>1
    <3>2. w[j + 1] = w[j] \o RespEncode(elems[j + 1])
      BY <1>4, <3>1
    <3> QED
      BY <2>2, <3>2
  <2>7. Len(a) \in Nat /\ Len(b) \in Nat
    BY <2>3, <2>4
  <2>8. Len(a) + Len(b) >= 3 + 3 * (j + 1)
    BY <2>3, <2>4, <2>7
  <2> QED
    BY <2>5, <2>6, <2>8
<1> HIDE DEF S
<1>7. Nat \subseteq S
  BY <1>5, <1>6, Induction
<1>8. \A j \in 0..n : j \in Nat /\ j <= n
  BY <1>2
<1>9. \A j \in 0..n : w[j] \in Seq(Symbol) /\ Len(w[j]) >= 3 + 3 * j
  BY <1>7, <1>8 DEF S
<1> QED
  BY <1>1, <1>3, <1>4, <1>9

LEMMA PiecesLie ==
  ASSUME NEW n \in Nat, NEW w, NEW piece,
         \A j \in 0..(n - 1) : w[j + 1] = w[j] \o piece[j + 1] /\ piece[j + 1] \in Seq(Symbol),
         \A j \in 0..n : w[j] \in Seq(Symbol)
  PROVE  /\ \A j \in 0..n : Lies(w[n], 1, w[j])
         /\ \A j \in 0..(n - 1) : Lies(w[n], 1 + Len(w[j]), piece[j + 1])
<1>1. PICK bytes : bytes = w[n]
  OBVIOUS
<1>2. bytes \in Seq(Symbol) /\ Lies(bytes, 1, bytes)
  BY <1>1, LiesWhole
<1>3. ASSUME NEW j \in 0..(n - 1), Lies(bytes, 1, w[j + 1])
      PROVE  Lies(bytes, 1, w[j]) /\ Lies(bytes, 1 + Len(w[j]), piece[j + 1])
  <2>1. PICK a, b : a = w[j] /\ b = piece[j + 1]
    OBVIOUS
  <2>2. a \in Seq(Symbol) /\ b \in Seq(Symbol) /\ Lies(bytes, 1, a \o b) /\ 1 \in Nat \ {0}
    <3>1. j \in 0..n /\ 1 \in Nat \ {0}
      OBVIOUS
    <3>2. w[j] \in Seq(Symbol)
      BY <3>1
    <3>3. w[j + 1] = w[j] \o piece[j + 1] /\ piece[j + 1] \in Seq(Symbol)
      OBVIOUS
    <3>4. Lies(bytes, 1, w[j] \o piece[j + 1])
      BY <1>3, <3>3
    <3> QED
      BY <2>1, <3>1, <3>2, <3>3, <3>4
  <2>3. Lies(bytes, 1, a) /\ Lies(bytes, 1 + Len(a), b)
    BY <1>2, <2>2, LiesApart
  <2> QED
    BY <2>1, <2>3
<1> DEFINE S == {i \in Nat : i <= n => Lies(bytes, 1, w[n - i])}
<1>4. 0 \in S
  BY <1>1, <1>2
<1>5. ASSUME NEW i \in Nat, i \in S
      PROVE  i + 1 \in S
  <2>1. SUFFICES ASSUME i + 1 <= n
                 PROVE  Lies(bytes, 1, w[n - (i + 1)])
    OBVIOUS
  <2>2. PICK j : j = n - (i + 1)
    OBVIOUS
  <2>3. j \in 0..(n - 1) /\ j + 1 = n - i /\ i <= n
    BY <2>1, <2>2
  <2>4. Lies(bytes, 1, w[j + 1])
    BY <1>5, <2>3
  <2> QED
    BY <1>3, <2>2, <2>3, <2>4
<1> HIDE DEF S
<1>6. Nat \subseteq S
  BY <1>4, <1>5, Induction
<1>7. ASSUME NEW j \in 0..n
      PROVE  Lies(bytes, 1, w[j])
  <2>1. n - j \in Nat /\ n - j <= n /\ n - (n - j) = j
    OBVIOUS
  <2> QED
    BY <1>6, <2>1 DEF S
<1>8. \A j \in 0..(n - 1) : j + 1 \in 0..n
  OBVIOUS
<1> QED
  BY <1>1, <1>3, <1>7, <1>8

\* What is written of an array is read as the array.
LEMMA ArrayReadAs ==
  ASSUME NEW E, NEW elems \in Seq(E), Len(elems) <= MaxReserve,
         \A i \in 1..Len(elems) : Plain(elems[i])
  PROVE  ReadAs(RespArray(elems), Array(elems))
<1>1. PICK w : Wrote(w, elems) /\ RespArray(elems) = w[Len(elems)]
  <2>1. Len(elems) \in Nat
    OBVIOUS
  <2> QED
    BY <2>1, ArrayWritten
<1>2. PICK n, bytes, t : n = Len(elems) /\ bytes = w[n] /\ t = ToText(n)
  OBVIOUS
<1>3. n \in Nat /\ n \in (-I64Max - 1)..I64Max /\ n <= MaxReserve /\ n >= 0
  BY <1>2, RespAssumption
<1>4. /\ w[0] = Line("*", t)
      /\ \A j \in 0..(n - 1) : w[j + 1] = w[j] \o RespEncode(elems[j + 1])
      /\ \A j \in 0..n : w[j] \in Seq(Symbol) /\ Len(w[j]) >= 3 + 3 * j
  BY <1>1, <1>2, PiecesWritten
<1>5. bytes \in Seq(Symbol) /\ Len(bytes) >= 3 + 3 * n /\ Len(bytes) \in Nat
  BY <1>2, <1>3, <1>4
<1>6. \A i \in 1..n : Plain(elems[i])
  BY <1>2
<1>7. ASSUME NEW i \in 1..n
      PROVE  RespEncode(elems[i]) \in Seq(Symbol) /\ Len(RespEncode(elems[i])) \in Nat
  <2>1. <<>> \in Seq(Symbol) /\ 1 \in Nat \ {0}
    OBVIOUS
  <2>2. RespEncode(elems[i]) \in Seq(Symbol)
    BY <1>6, <2>1, PlainRead
  <2> QED
    BY <2>2
<1>8. /\ \A j \in 0..n : Lies(bytes, 1, w[j])
      /\ \A j \in 0..(n - 1) : Lies(bytes, 1 + Len(w[j]), RespEncode(elems[j + 1]))
  <2> DEFINE piece == [i \in 1..n |-> RespEncode(elems[i])]
  <2>1. \A j \in 0..(n - 1) : j + 1 \in 1..n /\ piece[j + 1] = RespEncode(elems[j + 1])
    BY <1>3
  <2>2. \A j \in 0..(n - 1) : w[j + 1] = w[j] \o piece[j + 1] /\ piece[j + 1] \in Seq(Symbol)
    BY <1>4, <1>7, <2>1
  <2> HIDE DEF piece
  <2>3. /\ \A j \in 0..n : Lies(w[n], 1, w[j])
        /\ \A j \in 0..(n - 1) : Lies(w[n], 1 + Len(w[j]), piece[j + 1])
    BY <1>3, <1>4, <2>2, PiecesLie
  <2> QED
    BY <1>2, <2>1, <2>3
<1> DEFINE After(j) == Reading(1 + Len(w[j]), <<OpenArray(n, SubSeq(elems, 1, j))>>)
           S == {j \in Nat : j <= n => ParseStates(bytes)[j + 1] = After(j)}
<1>9. 0 \in S
  <2>1. t \in Seq(Symbol) /\ ~BreaksLine(t) /\ (CHOOSE k \in ParseI64(t) : TRUE) = n
        /\ Length(t) # {} /\ Length(t) # {-1} /\ Length(t) \ {-1} # {} /\ Len(t) \in Nat
    BY <1>2, <1>3, TextOfNumber
  <2>2. "*" \in {"+", "-", ":", "$", "*"} /\ "*" \in Symbol /\ 1 \in Nat \ {0}
    BY DEF Symbol
  <2>3. ParseAt(bytes, 1, <<>>) =
          Message("*", t, CHOOSE k \in ParseI64(t) : TRUE, 1 + Len(t) + 3, bytes, <<>>)
    <3>1. Lies(bytes, 1, Line("*", t))
      BY <1>3, <1>4, <1>8
    <3> QED
      BY <1>5, <2>1, <2>2, <3>1, LineRead
  <2>4. Message("*", t, n, 1 + Len(t) + 3, bytes, <<>>)
          = Reading(1 + Len(t) + 3, Append(<<>>, OpenArray(n, <<>>)))
    BY <1>3, <2>1, RespAssumption DEF Message
  <2>5. Len(w[0]) = Len(t) + 3
    BY <1>4, <2>1, <2>2, LineShape
  <2>6. 1 + Len(t) + 3 = 1 + Len(w[0]) /\ SubSeq(elems, 1, 0) = <<>>
    BY <2>1, <2>5
  <2>7. Append(<<>>, OpenArray(n, <<>>)) = <<OpenArray(n, SubSeq(elems, 1, 0))>>
    <3>1. PICK x : x = OpenArray(n, <<>>)
      OBVIOUS
    <3>2. Append(<<>>, x) = <<x>>
      OBVIOUS
    <3> QED
      BY <2>6, <3>1, <3>2
  <2>8. ParseStates(bytes)[0 + 1] = After(0)
    <3>1. ParseAt(bytes, 1, <<>>) = After(0)
      BY <2>1, <2>3, <2>4, <2>6, <2>7
    <3>2. 0 + 1 = 1
      OBVIOUS
    <3> QED
      BY <3>1, <3>2, FirstStep
  <2> QED
    BY <2>8
<1>10. ASSUME NEW j \in Nat, j \in S
       PROVE  j + 1 \in S
  <2>1. SUFFICES ASSUME j + 1 <= n
                 PROVE  ParseStates(bytes)[(j + 1) + 1] = After(j + 1)
    OBVIOUS
  <2>2. PICK c, read, open, v : /\ c = 1 + Len(w[j]) /\ read = SubSeq(elems, 1, j)
                                /\ open = <<OpenArray(n, read)>> /\ v = elems[j + 1]
    OBVIOUS
  <2>3. j \in 0..(n - 1) /\ j \in 0..n /\ j + 1 \in 1..n /\ j + 1 \in Nat /\ j <= n
    BY <1>3, <2>1
  <2>4. ParseStates(bytes)[j + 1] = Reading(c, open)
    BY <1>10, <2>2, <2>3
  <2>5. ParseStates(bytes)[(j + 1) + 1] = ParseStep(bytes, Reading(c, open))
    BY <2>3, <2>4, StatesDefined
  <2>6. read \in Seq(E) /\ Len(read) = j /\ Append(read, v) = SubSeq(elems, 1, j + 1)
    <3>1. j <= Len(elems) /\ j + 1 \in 1..Len(elems)
      BY <1>2, <2>3
    <3>2. \A i \in 1..j : elems[i] \in E
      BY <3>1
    <3>3. read \in Seq(E) /\ Len(read) = j
      BY <2>2, <3>1, <3>2
    <3>4. Append(read, v) = SubSeq(elems, 1, j + 1)
      BY <2>2, <3>1, <3>3
    <3> QED
      BY <3>3, <3>4
  <2>7. open # <<>> /\ Last(open) = OpenArray(n, read) /\ Front(open) = <<>>
    BY <2>2 DEF Last, Front
  <2>8. ParseStep(bytes, Reading(c, open)) = ParseAt(bytes, c, open)
    <3>1. Len(read) # n
      BY <2>1, <2>6, <1>3
    <3> QED
      BY <2>7, <3>1 DEF ParseStep, Reading, OpenArray
  <2>9. c \in Nat \ {0} /\ Lies(bytes, c, RespEncode(v)) /\ Plain(v)
    BY <1>4, <1>6, <1>8, <2>2, <2>3
  <2>10. ParseAt(bytes, c, open) = Parsed(v, c + Len(RespEncode(v)), open)
    BY <1>5, <2>9, PlainRead
  <2>11. Parsed(v, c + Len(RespEncode(v)), open)
           = Reading(c + Len(RespEncode(v)), Append(<<>>, OpenArray(n, Append(read, v))))
    BY <2>7 DEF Parsed, OpenArray
  <2>12. Append(<<>>, OpenArray(n, Append(read, v))) = <<OpenArray(n, SubSeq(elems, 1, j + 1))>>
    BY <2>6
  <2>13. c + Len(RespEncode(v)) = 1 + Len(w[j + 1])
    <3>1. PICK a, b : a = w[j] /\ b = RespEncode(v)
      OBVIOUS
    <3>2. a \in Seq(Symbol) /\ b \in Seq(Symbol) /\ w[j + 1] = a \o b
      BY <1>4, <1>7, <2>2, <2>3, <3>1
    <3>3. Len(a \o b) = Len(a) + Len(b)
      <4>1. a \in Seq(Symbol) /\ b \in Seq(Symbol)
        BY <3>2
      <4> QED
        BY <4>1, Joined
    <3>4. Len(a) \in Nat /\ Len(b) \in Nat
      BY <3>2
    <3>5. PICK x, y, z : x = Len(a) /\ y = Len(b) /\ z = Len(w[j + 1])
      OBVIOUS
    <3>6. x \in Nat /\ y \in Nat /\ z = x + y /\ c = 1 + x
      BY <2>2, <3>1, <3>2, <3>3, <3>4, <3>5
    <3>7. c + y = 1 + z
      BY <3>6
    <3> QED
      BY <3>1, <3>5, <3>7
  <2> QED
    BY <2>5, <2>8, <2>10, <2>11, <2>12, <2>13
<1> HIDE DEF S, After
<1>11. Nat \subseteq S
  BY <1>9, <1>10, Induction
<1>12. ParseStates(bytes)[n + 1] = Reading(1 + Len(bytes), <<OpenArray(n, elems)>>)
  <2>1. ParseStates(bytes)[n + 1] = After(n)
    BY <1>3, <1>11 DEF S
  <2>2. SubSeq(elems, 1, n) = elems
    BY <1>2
  <2> QED
    BY <1>2, <2>1, <2>2 DEF After
<1>13. ParseStates(bytes)[n + 2] = Complete(Array(elems), Len(bytes))
  <2>1. PICK open : open = <<OpenArray(n, elems)>>
    OBVIOUS
  <2>2. open # <<>> /\ Last(open) = OpenArray(n, elems) /\ Front(open) = <<>>
    BY <2>1 DEF Last, Front
  <2>3. n + 1 \in Nat /\ (n + 1) + 1 = n + 2 /\ (1 + Len(bytes)) - 1 = Len(bytes)
    BY <1>3, <1>5
  <2>4. ParseStates(bytes)[n + 2] = ParseStep(bytes, Reading(1 + Len(bytes), open))
    BY <1>12, <2>1, <2>3, StatesDefined
  <2>5. ParseStep(bytes, Reading(1 + Len(bytes), open))
          = Parsed(Array(elems), 1 + Len(bytes), <<>>)
    BY <1>2, <2>2 DEF ParseStep, Reading, OpenArray
  <2>6. Parsed(Array(elems), 1 + Len(bytes), <<>>) = Complete(Array(elems), (1 + Len(bytes)) - 1)
    BY DEF Parsed
  <2> QED
    BY <2>3, <2>4, <2>5, <2>6
<1>14. n + 2 \in Nat /\ n + 2 <= Len(bytes) + 1
  BY <1>3, <1>5
<1>15. ReadAs(bytes, Array(elems))
  BY <1>5, <1>13, <1>14, DoneAfter
<1> QED
  BY <1>1, <1>2, <1>15

-----------------------------------------------------------------------------
(* What a parse can find.                                                  *)

\* A value that is a string was cut from the bytes.
CutFrom(bytes, v) == v.type = "string" => v.s \in Seq(STRING) /\ Len(v.s) <= Len(bytes)

\* So were the strings of an array.
AllCutFrom(bytes, elems) == \E S : elems \in Seq(S) /\ \A v \in S : CutFrom(bytes, v)

ValueCutFrom(bytes, v) == CutFrom(bytes, v) /\ (v.type = "array" => AllCutFrom(bytes, v.elems))

StateCutFrom(bytes, s) ==
  \/ s \in {Incomplete, Malformed, Thrown}
  \/ \E v, c : s = Complete(v, c) /\ ValueCutFrom(bytes, v)
  \/ \E S, open, c : /\ s = Reading(c, open) /\ open \in Seq(S)
                     /\ \A a \in S : AllCutFrom(bytes, a.elems)

\* A call cuts its string from the bytes.
LEMMA CallCuts ==
  ASSUME NEW bytes \in Seq(STRING), NEW pos \in Nat \ {0}, NEW open,
         NEW r, r = ParseAt(bytes, pos, open)
  PROVE  \/ r \in {Incomplete, Malformed, Thrown}
         \/ \E v, c : r = Parsed(v, c, open) /\ CutFrom(bytes, v) /\ v.type # "array"
         \/ \E len, c : r = Reading(c, Append(open, OpenArray(len, <<>>)))
<1>1. CASE pos > Len(bytes)
  BY <1>1 DEF ParseAt
<1>2. CASE pos <= Len(bytes) /\ bytes[pos] \notin {"+", "-", ":", "$", "*"}
  BY <1>2 DEF ParseAt
<1>3. CASE pos <= Len(bytes) /\ bytes[pos] \in {"+", "-", ":", "$", "*"}
           /\ LineEnds(bytes, pos + 1) = {}
  BY <1>3 DEF ParseAt
<1>4. CASE pos <= Len(bytes) /\ bytes[pos] \in {"+", "-", ":", "$", "*"}
           /\ LineEnds(bytes, pos + 1) # {}
  <2>1. PICK end : end = Min(LineEnds(bytes, pos + 1))
    OBVIOUS
  <2>2. end \in (pos + 1)..(Len(bytes) - 1) /\ Len(bytes) \in Nat
    <3>1. pos + 1 \in Nat \ {0} /\ <<>> \in Seq(STRING)
      OBVIOUS
    <3> QED
      BY <1>4, <2>1, <3>1, LinesKept
  <2>3. PICK type, text, number : /\ type = bytes[pos] /\ text = SubSeq(bytes, pos + 1, end - 1)
                                  /\ number = CHOOSE n \in ParseI64(text) : TRUE
    OBVIOUS
  <2>4. r = Message(type, text, number, end + 2, bytes, open)
    <3>1. r = ParseMessage(bytes, pos, end, open)
      <4>1. ~(pos > Len(bytes))
        BY <1>4, <2>2
      <4> QED
        BY <1>4, <2>1, <4>1 DEF ParseAt
    <3>2. ParseMessage(bytes, pos, end, open) =
            Message(bytes[pos], SubSeq(bytes, pos + 1, end - 1),
                    CHOOSE n \in ParseI64(SubSeq(bytes, pos + 1, end - 1)) : TRUE, end + 2,
                    bytes, open)
      BY Zenon DEF ParseMessage, Message
    <3> QED
      BY <2>3, <3>1, <3>2
  <2>5. text \in Seq(STRING) /\ Len(text) <= Len(bytes)
    <3>1. pos \in Nat /\ end - 1 \in Nat /\ pos <= end - 1 /\ end - 1 <= Len(bytes)
      BY <2>2
    <3>2. /\ SubSeq(bytes, pos + 1, end - 1) \in Seq(STRING)
          /\ Len(SubSeq(bytes, pos + 1, end - 1)) = (end - 1) - pos
      BY <3>1, Piece
    <3> QED
      BY <2>2, <2>3, <3>1, <3>2
  <2>6. CASE type = "$" /\ Length(text) \ {-1} # {}
    <3>1. Length(text) # {} /\ Length(text) # {-1} /\ number \in Nat
      BY <2>3, <2>6, Numbers
    <3>2. r = ParseBulk(bytes, end + 2, number, open)
      BY <2>4, <2>6, <3>1 DEF Message
    <3>3. PICK start, last : start = end + 2 /\ last = start + number
      OBVIOUS
    <3>4. start \in Nat \ {0} /\ last \in Nat /\ start <= last
      BY <2>2, <3>1, <3>3
    <3>5. CASE last + 1 > Len(bytes)
      BY <3>2, <3>3, <3>5 DEF ParseBulk
    <3>6. CASE last + 1 <= Len(bytes)
      <4>1. PICK s : s = SubSeq(bytes, start, last - 1)
        OBVIOUS
      <4>2. s \in Seq(STRING) /\ Len(s) <= Len(bytes)
        <5>1. PICK p : p = start - 1
          OBVIOUS
        <5>2. /\ p \in Nat /\ p + 1 = start
              /\ last - 1 \in Nat /\ p <= last - 1 /\ last - 1 <= Len(bytes)
          BY <2>2, <3>4, <3>6, <5>1
        <5>3. /\ SubSeq(bytes, p + 1, last - 1) \in Seq(STRING)
              /\ Len(SubSeq(bytes, p + 1, last - 1)) = (last - 1) - p
          BY <5>2, Piece
        <5> QED
          BY <2>2, <4>1, <5>2, <5>3
      <4>3. ~(last + 1 > Len(bytes))
        BY <2>2, <3>4, <3>6
      <4>4. r \in {Malformed, Parsed(String(s), last + 2, open)}
        BY <3>2, <3>3, <4>1, <4>3 DEF ParseBulk
      <4>5. CutFrom(bytes, String(s)) /\ String(s).type # "array"
        BY <4>2 DEF CutFrom, String
      <4> QED
        BY <4>4, <4>5
    <3> QED
      BY <2>2, <3>4, <3>5, <3>6
  <2>7. CASE ~(type = "$" /\ Length(text) \ {-1} # {})
    <3>1. type \in {"+", "-", ":", "$", "*"}
      BY <1>4, <2>3
    <3>2. /\ CutFrom(bytes, String(text)) /\ String(text).type # "array"
          /\ CutFrom(bytes, RespError(text)) /\ RespError(text).type # "array"
          /\ CutFrom(bytes, Integer(number)) /\ Integer(number).type # "array"
          /\ CutFrom(bytes, Null) /\ Null.type # "array"
      BY <2>5 DEF CutFrom, String, RespError, Integer, Null
    <3>3. \/ r \in {Malformed, Thrown}
          \/ r \in {Parsed(String(text), end + 2, open), Parsed(RespError(text), end + 2, open),
                    Parsed(Integer(number), end + 2, open), Parsed(Null, end + 2, open)}
          \/ r = Reading(end + 2, Append(open, OpenArray(number, <<>>)))
      BY <2>4, <2>7, <3>1 DEF Message
    <3> QED
      BY <3>2, <3>3
  <2> QED
    BY <2>6, <2>7
<1>5. Len(bytes) \in Nat
  OBVIOUS
<1> QED
  BY <1>1, <1>2, <1>3, <1>4, <1>5

\* A message is the whole, or the next element of the innermost array.
LEMMA ParsedCuts ==
  ASSUME NEW bytes, NEW S, NEW open \in Seq(S), \A a \in S : AllCutFrom(bytes, a.elems),
         NEW v, ValueCutFrom(bytes, v), NEW c
  PROVE  StateCutFrom(bytes, Parsed(v, c, open))
<1>1. CASE open = <<>>
  BY <1>1 DEF Parsed, StateCutFrom
<1>2. CASE open # <<>>
  <2>1. PICK elems, inner : /\ elems = Append(Last(open).elems, v)
                            /\ inner = OpenArray(Last(open).len, elems)
    OBVIOUS
  <2>2. Last(open) \in S
    <3>1. Len(open) \in 1..Len(open)
      BY <1>2
    <3> QED
      BY <3>1 DEF Last
  <2>3. PICK T : Last(open).elems \in Seq(T) /\ \A x \in T : CutFrom(bytes, x)
    BY <2>2 DEF AllCutFrom
  <2>4. elems \in Seq(T \cup {v})
    <3>1. PICK e : e = Last(open).elems
      OBVIOUS
    <3>2. e \in Seq(T \cup {v}) /\ v \in T \cup {v}
      BY <2>3, <3>1
    <3>3. Append(e, v) \in Seq(T \cup {v})
      BY <3>2
    <3> QED
      BY <2>1, <3>1, <3>3
  <2>5. \A x \in T \cup {v} : CutFrom(bytes, x)
    BY <2>3 DEF ValueCutFrom
  <2>6. AllCutFrom(bytes, elems)
    BY <2>4, <2>5 DEF AllCutFrom
  <2>7. inner.elems = elems
    BY <2>1 DEF OpenArray
  <2>8. PICK front : front = Front(open)
    OBVIOUS
  <2>9. front \in Seq(S \cup {inner}) /\ inner \in S \cup {inner}
    <3>1. front \in Seq(S)
      BY <1>2, <2>8, FrontType
    <3> QED
      BY <3>1
  <2>10. Append(front, inner) \in Seq(S \cup {inner})
    BY <2>9
  <2>11. \A a \in S \cup {inner} : AllCutFrom(bytes, a.elems)
    BY <2>6, <2>7
  <2>12. Parsed(v, c, open) = Reading(c, Append(front, inner))
    BY <1>2, <2>1, <2>8 DEF Parsed
  <2> QED
    BY <2>10, <2>11, <2>12 DEF StateCutFrom
<1> QED
  BY <1>1, <1>2

LEMMA StepCuts ==
  ASSUME NEW bytes \in Seq(STRING), NEW n \in Nat, NEW s,
         Reached(bytes, n, s), StateCutFrom(bytes, s)
  PROVE  StateCutFrom(bytes, ParseStep(bytes, s))
<1>1. CASE s.status # "Reading"
  BY <1>1 DEF ParseStep
<1>2. CASE s.status = "Reading"
  <2>1. \E S, open, c : /\ s = Reading(c, open) /\ open \in Seq(S)
                        /\ \A a \in S : AllCutFrom(bytes, a.elems)
    BY <1>2 DEF StateCutFrom, Incomplete, Malformed, Thrown, Complete
  <2>2. PICK S, open, c : /\ s = Reading(c, open) /\ open \in Seq(S)
                          /\ \A a \in S : AllCutFrom(bytes, a.elems)
    BY <2>1
  <2>3. s.open = open /\ s.cursor = c
    BY <2>2 DEF Reading
  <2>4. c \in Nat \ {0}
    <3>1. \E T : \E stack \in Seq(T) : \E cursor \in 1..(Len(bytes) + 1) :
            s = Reading(cursor, stack)
      BY <1>2 DEF Reached, Incomplete, Malformed, Thrown, Complete
    <3>2. \E cursor \in 1..(Len(bytes) + 1) : s.cursor = cursor
      BY <3>1 DEF Reading
    <3> QED
      BY <2>3, <3>2
  <2>5. CASE open # <<>> /\ Len(Last(open).elems) = Last(open).len
    <3>1. PICK v : v = Array(Last(open).elems)
      OBVIOUS
    <3>2. ParseStep(bytes, s) = Parsed(v, c, Front(open))
      BY <1>2, <2>3, <2>5, <3>1 DEF ParseStep
    <3>3. AllCutFrom(bytes, Last(open).elems)
      <4>1. Last(open) \in S
        <5>1. Len(open) \in 1..Len(open)
          BY <2>2, <2>5
        <5> QED
          BY <2>2, <5>1 DEF Last
      <4> QED
        BY <2>2, <4>1
    <3>4. ValueCutFrom(bytes, v)
      <4>1. v.type = "array" /\ v.elems = Last(open).elems
        BY <3>1 DEF Array
      <4> QED
        BY <3>3, <4>1 DEF ValueCutFrom, CutFrom
    <3>5. Front(open) \in Seq(S)
      BY <2>2, <2>5, FrontType
    <3> QED
      BY <2>2, <3>2, <3>4, <3>5, ParsedCuts
  <2>6. CASE ~(open # <<>> /\ Len(Last(open).elems) = Last(open).len)
    <3>1. PICK r : r = ParseAt(bytes, c, open)
      OBVIOUS
    <3>2. ParseStep(bytes, s) = r
      BY <1>2, <2>3, <2>6, <3>1 DEF ParseStep
    <3>3. \/ r \in {Incomplete, Malformed, Thrown}
          \/ \E v, e : r = Parsed(v, e, open) /\ CutFrom(bytes, v) /\ v.type # "array"
          \/ \E len, e : r = Reading(e, Append(open, OpenArray(len, <<>>)))
      BY <2>4, <3>1, CallCuts
    <3>4. CASE r \in {Incomplete, Malformed, Thrown}
      BY <3>2, <3>4 DEF StateCutFrom
    <3>5. CASE \E v, e : r = Parsed(v, e, open) /\ CutFrom(bytes, v) /\ v.type # "array"
      <4>1. PICK v, e : r = Parsed(v, e, open) /\ CutFrom(bytes, v) /\ v.type # "array"
        BY <3>5
      <4>2. ValueCutFrom(bytes, v)
        BY <4>1 DEF ValueCutFrom
      <4> QED
        BY <2>2, <3>2, <4>1, <4>2, ParsedCuts
    <3>6. CASE \E len, e : r = Reading(e, Append(open, OpenArray(len, <<>>)))
      <4>1. PICK len, e : r = Reading(e, Append(open, OpenArray(len, <<>>)))
        BY <3>6
      <4>2. PICK x : x = OpenArray(len, <<>>)
        OBVIOUS
      <4>3. x.elems = <<>>
        BY <4>2 DEF OpenArray
      <4>4. AllCutFrom(bytes, <<>>)
        <5>1. PICK none : none = {}
          OBVIOUS
        <5>2. <<>> \in Seq(none) /\ \A v \in none : CutFrom(bytes, v)
          BY <5>1
        <5> QED
          BY <5>2 DEF AllCutFrom
      <4>5. Append(open, x) \in Seq(S \cup {x})
        <5>1. open \in Seq(S \cup {x}) /\ x \in S \cup {x}
          BY <2>2
        <5> QED
          BY <5>1
      <4>6. \A a \in S \cup {x} : AllCutFrom(bytes, a.elems)
        BY <2>2, <4>3, <4>4
      <4>7. r = Reading(e, Append(open, x))
        BY <4>1, <4>2
      <4> QED
        BY <3>2, <4>5, <4>6, <4>7 DEF StateCutFrom
    <3> QED
      BY <3>3, <3>4, <3>5, <3>6
  <2> QED
    BY <2>5, <2>6
<1> QED
  BY <1>1, <1>2

\* The strings of a message are parts of its bytes, also those of an array.
LEMMA FoundInBytes ==
  ASSUME NEW bytes \in Seq(STRING), NEW v, NEW c, Parse(bytes) = Complete(v, c)
  PROVE  ValueCutFrom(bytes, v)
<1> DEFINE T == {j \in Nat : StateCutFrom(bytes, ParseStates(bytes)[j])}
<1>1. 0 \in T
  <2>1. ParseStates(bytes)[0] = Reading(1, <<>>)
    BY StatesDefined DEF Start
  <2>2. PICK none : none = {}
    OBVIOUS
  <2>3. <<>> \in Seq(none) /\ \A a \in none : AllCutFrom(bytes, a.elems)
    BY <2>2
  <2>4. StateCutFrom(bytes, Reading(1, <<>>))
    BY <2>3 DEF StateCutFrom
  <2> QED
    BY <2>1, <2>4
<1>2. ASSUME NEW j \in Nat, j \in T
      PROVE  j + 1 \in T
  <2>1. ParseStates(bytes)[j + 1] = ParseStep(bytes, ParseStates(bytes)[j])
    BY StatesDefined
  <2>2. Reached(bytes, j, ParseStates(bytes)[j])
    BY EachReached
  <2>3. StateCutFrom(bytes, ParseStates(bytes)[j + 1])
    BY <1>2, <2>1, <2>2, StepCuts
  <2> QED
    BY <2>3
<1> HIDE DEF T
<1>3. Nat \subseteq T
  BY <1>1, <1>2, Induction
<1>4. Len(bytes) + 1 \in Nat
  OBVIOUS
<1>5. StateCutFrom(bytes, Complete(v, c))
  BY <1>3, <1>4 DEF T, Parse
<1>6. \E v2, c2 : Complete(v, c) = Complete(v2, c2) /\ ValueCutFrom(bytes, v2)
  BY <1>5 DEF StateCutFrom, Complete, Incomplete, Malformed, Thrown, Reading
<1>7. PICK v2, c2 : Complete(v, c) = Complete(v2, c2) /\ ValueCutFrom(bytes, v2)
  BY <1>6
<1>8. v = v2
  BY <1>7 DEF Complete
<1> QED
  BY <1>7, <1>8

-----------------------------------------------------------------------------
(* What is answered.                                                       *)

\* A reply says what it means, but for the error that quotes a line end.
Says(reply) ==
  /\ reply.bytes \in Seq(Symbol)
  /\ ReadBack(reply.bytes, reply.means, Len(reply.bytes))

LEMMA ReadSays ==
  ASSUME NEW bytes, NEW v, ReadAs(bytes, v), ~(v.type = "error" /\ BreaksLine(v.s))
  PROVE  Says(Reply(bytes, v))
<1>1. Reply(bytes, v).bytes = bytes /\ Reply(bytes, v).means = v
  BY DEF Reply
<1> QED
  BY <1>1 DEF Says, ReadAs, ReadBack

\* An error that quotes a line end is read as an error that ends there.
LEMMA BrokenErrorRead ==
  ASSUME NEW msg \in Seq(Symbol), BreaksLine(msg)
  PROVE  /\ Parse(RespErrorReply(msg)).status = "Complete"
         /\ Parse(RespErrorReply(msg)).value.type = "error"
         /\ Parse(RespErrorReply(msg)).consumed < Len(RespErrorReply(msg))
<1>1. PICK bytes, n : bytes = RespErrorReply(msg) /\ n = Len(msg)
  OBVIOUS
<1>2. /\ bytes \in Seq(Symbol) /\ Len(bytes) = n + 3 /\ bytes[1] = "-"
      /\ \A i \in 1..n : bytes[1 + i] = msg[i]
      /\ n \in Nat
  <2>1. "-" \in Symbol
    BY DEF Symbol
  <2>2. /\ Line("-", msg) \in Seq(Symbol) /\ Len(Line("-", msg)) = Len(msg) + 3
        /\ Line("-", msg)[1] = "-"
        /\ \A i \in 1..Len(msg) : Line("-", msg)[1 + i] = msg[i]
    BY <2>1, LineShape
  <2>3. bytes = Line("-", msg)
    BY <1>1 DEF RespErrorReply
  <2> QED
    BY <1>1, <2>2, <2>3
<1>3. PICK i \in 1..(n - 1) : msg[i] = CR /\ msg[i + 1] = LF
  BY <1>1 DEF BreaksLine
<1>4. PICK at : at = i + 1
  OBVIOUS
<1>5. /\ at \in 2..n /\ at \in 1..(Len(bytes) - 1) /\ at \in 2..(Len(bytes) - 1)
      /\ i \in 1..n /\ i + 1 \in 1..n /\ 1 + i = at /\ 1 + (i + 1) = at + 1
  BY <1>2, <1>3, <1>4
<1>6. bytes[at] = CR /\ bytes[at + 1] = LF
  BY <1>2, <1>3, <1>5
<1>7. at \in LineEnds(bytes, 2)
  <2>1. SubSeq(bytes, at, at + 1) = CRLF
    BY <1>2, <1>5, <1>6, TwoBytes
  <2> QED
    BY <1>5, <2>1 DEF LineEnds
<1>8. PICK end : end = Min(LineEnds(bytes, 2))
  OBVIOUS
<1>9. end \in 2..n
  <2>1. PICK found : found = LineEnds(bytes, 2)
    OBVIOUS
  <2>2. found \subseteq Nat /\ \A x \in found : x >= 2
    BY <1>2, <2>1 DEF LineEnds
  <2>3. Min(found) \in found /\ Min(found) <= at
    BY <1>7, <2>1, <2>2, LeastFound
  <2> QED
    BY <1>2, <1>5, <1>8, <2>1, <2>2, <2>3
<1>10. PICK text : text = SubSeq(bytes, 1 + 1, end - 1)
  OBVIOUS
<1>11. ParseAt(bytes, 1, <<>>) = ParseMessage(bytes, 1, end, <<>>)
  <2>1. ~(1 > Len(bytes)) /\ 1 + 1 = 2
    BY <1>2
  <2>2. LineEnds(bytes, 2) # {}
    BY <1>7
  <2> QED
    BY <1>2, <1>8, <2>1, <2>2 DEF ParseAt
<1>12. ParseMessage(bytes, 1, end, <<>>) = Parsed(RespError(text), end + 2, <<>>)
  BY <1>2, <1>10 DEF ParseMessage
<1>13. Parsed(RespError(text), end + 2, <<>>) = Complete(RespError(text), (end + 2) - 1)
  BY DEF Parsed
<1>14. ParseStates(bytes)[1] = Complete(RespError(text), (end + 2) - 1)
  BY <1>11, <1>12, <1>13, FirstStep
<1>15. Parse(bytes) = ParseStates(bytes)[1]
  <2>1. 1 \in Nat /\ Len(bytes) + 1 \in Nat /\ 1 <= Len(bytes) + 1
    BY <1>2
  <2>2. ParseStates(bytes)[1].status # "Reading"
    BY <1>14 DEF Complete
  <2> QED
    BY <2>1, <2>2, FinalStays DEF Parse
<1>16. (end + 2) - 1 < n + 3
  BY <1>2, <1>9
<1> QED
  BY <1>1, <1>2, <1>14, <1>15, <1>16 DEF Complete, RespError

LEMMA ErrorSays ==
  ASSUME NEW msg \in Seq(Symbol)
  PROVE  Says(ErrorReply(msg))
<1>1. ErrorReply(msg).bytes = RespErrorReply(msg) /\ ErrorReply(msg).means = RespError(msg)
  BY DEF ErrorReply, Reply
<1>2. RespErrorReply(msg) \in Seq(Symbol)
  <2>1. "-" \in Symbol
    BY DEF Symbol
  <2> QED
    BY <2>1, LineShape DEF RespErrorReply
<1>3. RespError(msg).type = "error" /\ RespError(msg).s = msg
  BY DEF RespError
<1>4. CASE BreaksLine(msg)
  BY <1>1, <1>2, <1>3, <1>4, BrokenErrorRead DEF Says, ReadBack
<1>5. CASE ~BreaksLine(msg)
  <2>1. ReadAs(RespErrorReply(msg), RespError(msg))
    BY <1>5, TextReadAs
  <2> QED
    BY <1>3, <1>5, <2>1, ReadSays DEF ErrorReply
<1> QED
  BY <1>4, <1>5

\* The errors that quote nothing.
LEMMA PlainErrorsSay == Says(WrongArity) /\ Says(ProtocolError)
<1>1. \A c \in {"w", "E"} : <<c>> \in Seq(Symbol)
  BY DEF Symbol
<1>2. Says(ErrorReply(<<"w">>))
  BY <1>1, ErrorSays
<1>3. Says(ErrorReply(<<"E">>))
  BY <1>1, ErrorSays
<1> QED
  BY <1>2, <1>3 DEF WrongArity, ProtocolError

LEMMA BulkSays ==
  ASSUME NEW s \in Seq(STRING), Len(s) <= I64Max
  PROVE  Says(BulkReply(s))
<1>1. PICK v : v = String(s)
  OBVIOUS
<1>2. v.type = "string" /\ v.s = s
  BY <1>1 DEF String
<1>3. Plain(v)
  BY <1>1, <1>2 DEF Plain
<1>4. RespEncode(v) = RespBulk(s)
  BY <1>2 DEF RespEncode
<1>5. ReadAs(RespEncode(v), v)
  BY <1>3, PlainReadAs
<1> QED
  BY <1>1, <1>2, <1>4, <1>5, ReadSays DEF BulkReply

LEMMA StoreSays == \A reply \in StoreReplies : Says(reply)
<1>1. Says(Reply(RespOk, String(<<"O", "K">>)))
  <2>1. PICK ok : ok = <<"O", "K">>
    OBVIOUS
  <2>2. ok \in Seq(Symbol) /\ ~BreaksLine(ok)
    BY <2>1 DEF Symbol, BreaksLine, CR
  <2>3. ReadAs(SimpleString(ok), String(ok))
    BY <2>2, TextReadAs
  <2>4. String(ok).type # "error"
    BY DEF String
  <2>5. Says(Reply(SimpleString(ok), String(ok)))
    BY <2>3, <2>4, ReadSays
  <2> QED
    BY <2>1, <2>5 DEF RespOk
<1>2. ASSUME NEW v \in StoreValues
      PROVE  Says(Reply(IF v.type = "array" THEN RespArray(v.elems) ELSE RespEncode(v), v))
  <2>1. PICK bytes : bytes = IF v.type = "array" THEN RespArray(v.elems) ELSE RespEncode(v)
    OBVIOUS
  <2>2. ReadAs(bytes, v)
    <3>1. CASE Plain(v)
      <4>1. v.type # "array"
        BY <3>1 DEF Plain
      <4> QED
        BY <2>1, <3>1, <4>1, PlainReadAs
    <3>2. CASE ~Plain(v)
      <4>1. /\ v.type = "array" /\ v = Array(v.elems)
            /\ v.elems \in Seq(ToSet(v.elems)) /\ Len(v.elems) <= MaxReserve
            /\ \A i \in DOMAIN v.elems : Plain(v.elems[i])
        BY <3>2, ProtocolAssumption
      <4>2. PICK elems : elems = v.elems
        OBVIOUS
      <4>3. elems \in Seq(ToSet(elems)) /\ Len(elems) <= MaxReserve
        BY <4>1, <4>2
      <4>4. DOMAIN elems = 1..Len(elems)
        BY <4>3
      <4>5. \A i \in 1..Len(elems) : Plain(elems[i])
        BY <4>1, <4>2, <4>4
      <4>6. ReadAs(RespArray(elems), Array(elems))
        BY <4>3, <4>5, ArrayReadAs
      <4> QED
        BY <2>1, <4>1, <4>2, <4>6
    <3> QED
      BY <3>1, <3>2
  <2>3. v.type # "error"
    <3>1. Plain(v) \/ v.type = "array"
      BY ProtocolAssumption
    <3> QED
      BY <3>1 DEF Plain
  <2>4. Says(Reply(bytes, v))
    BY <2>2, <2>3, ReadSays
  <2> QED
    BY <2>1, <2>4
<1> QED
  BY <1>1, <1>2, PlainErrorsSay DEF StoreReplies

\* An unknown command is quoted, in upper case.
LEMMA UnknownSays ==
  ASSUME NEW s \in Seq(STRING)
  PROVE  Says(UnknownCommand(Uppercase(s)))
<1>1. PICK name, n, quote : name = Uppercase(s) /\ n = Len(s) /\ quote = <<"'">>
  OBVIOUS
<1>2. n \in Nat /\ DOMAIN s = 1..n /\ \A i \in 1..n : s[i] \in STRING
  BY <1>1
<1>3. /\ name \in Seq(Symbol) /\ Len(name) = n
      /\ \A i \in 1..n : (name[i] = CR => s[i] = CR) /\ (name[i] = LF => s[i] = LF)
  <2>1. name = [i \in 1..n |-> CASE s[i] = "p" -> "P" [] s[i] = "e" -> "E" [] OTHER -> s[i]]
    BY <1>1, <1>2 DEF Uppercase
  <2>2. \A i \in 1..n : name[i] \in {"P", "E", s[i]}
    BY <2>1
  <2>3. "P" \in Symbol /\ "E" \in Symbol /\ \A i \in 1..n : s[i] \in Symbol
    BY <1>2 DEF Symbol
  <2>4. \A i \in 1..n : name[i] \in Symbol
    BY <2>2, <2>3
  <2>5. name \in [1..n -> Symbol]
    BY <2>1, <2>4
  <2> QED
    BY <1>2, <2>2, <2>5 DEF CR, LF
<1>4. quote \in Seq(Symbol) /\ Len(quote) = 1 /\ quote[1] = "'"
  BY <1>1 DEF Symbol
<1>5. PICK head : head = quote \o name
  OBVIOUS
<1>6. /\ head \in Seq(Symbol) /\ Len(head) = 1 + n /\ head[1] = "'"
      /\ \A i \in 1..n : head[1 + i] = name[i]
  <2>1. quote \in Seq(Symbol) /\ name \in Seq(Symbol)
    BY <1>3, <1>4
  <2>2. /\ quote \o name \in Seq(Symbol) /\ Len(quote \o name) = Len(quote) + Len(name)
        /\ \A i \in 1..Len(quote) : (quote \o name)[i] = quote[i]
        /\ \A i \in 1..Len(name) : (quote \o name)[Len(quote) + i] = name[i]
    BY <2>1, Joined
  <2>3. 1 \in 1..1
    OBVIOUS
  <2> QED
    BY <1>3, <1>4, <1>5, <2>2, <2>3
<1>7. PICK msg : msg = head \o quote
  OBVIOUS
<1>8. /\ msg \in Seq(Symbol) /\ Len(msg) = (1 + n) + 1
      /\ \A i \in 1..(1 + n) : msg[i] = head[i]
      /\ \A i \in 1..1 : msg[(1 + n) + i] = quote[i]
  <2>1. head \in Seq(Symbol) /\ quote \in Seq(Symbol)
    BY <1>4, <1>6
  <2>2. /\ head \o quote \in Seq(Symbol) /\ Len(head \o quote) = Len(head) + Len(quote)
        /\ \A i \in 1..Len(head) : (head \o quote)[i] = head[i]
        /\ \A i \in 1..Len(quote) : (head \o quote)[Len(head) + i] = quote[i]
    BY <2>1, Joined
  <2> QED
    BY <1>4, <1>6, <1>7, <2>2
<1>9. UnknownCommand(name) = ErrorReply(msg)
  BY <1>1, <1>5, <1>7 DEF UnknownCommand
<1> QED
  BY <1>1, <1>8, <1>9, ErrorSays

\* Every reply to a message of no more bytes than an integer can count says what it means.
LEMMA RepliesSay ==
  ASSUME NEW bytes \in Seq(STRING), Len(bytes) <= I64Max, NEW v, ValueCutFrom(bytes, v),
         NEW reply \in RepliesTo(v)
  PROVE  Says(reply)
<1>1. CASE ~IsCommand(v)
  BY <1>1, PlainErrorsSay DEF RepliesTo
<1>2. CASE IsCommand(v)
  <2>1. PICK elems, n : elems = v.elems /\ n = Len(elems)
    OBVIOUS
  <2>2. /\ v.type = "array" /\ elems # <<>> /\ \A i \in DOMAIN elems : elems[i].type = "string"
    BY <1>2, <2>1 DEF IsCommand
  <2>3. PICK S : elems \in Seq(S) /\ \A x \in S : CutFrom(bytes, x)
    BY <2>1, <2>2 DEF ValueCutFrom, AllCutFrom
  <2>4. n \in Nat /\ n # 0 /\ DOMAIN elems = 1..n /\ \A i \in 1..n : elems[i] \in S
    BY <2>1, <2>2, <2>3
  <2>5. \A i \in 1..n : elems[i].s \in Seq(STRING) /\ Len(elems[i].s) <= I64Max
    <3> SUFFICES ASSUME NEW i \in 1..n
                 PROVE  elems[i].s \in Seq(STRING) /\ Len(elems[i].s) <= I64Max
      OBVIOUS
    <3>1. elems[i].s \in Seq(STRING) /\ Len(elems[i].s) <= Len(bytes)
      BY <2>2, <2>3, <2>4 DEF CutFrom
    <3>2. Len(elems[i].s) \in Nat /\ Len(bytes) \in Nat /\ I64Max \in Nat
      BY <3>1, RespAssumption
    <3> QED
      BY <3>1, <3>2
  <2>6. PICK name, args : /\ name = Uppercase(elems[1].s)
                          /\ args = [i \in 1..(n - 1) |-> elems[i + 1].s]
    OBVIOUS
  <2>7. ParseCommand(v).name = name /\ ParseCommand(v).args = args
    BY <2>1, <2>6 DEF ParseCommand
  <2>8. \/ reply = HandlePing(args) \/ reply = HandleEcho(args)
        \/ reply \in StoreReplies \/ reply = UnknownCommand(name)
    <3>1. reply \in Dispatch(ParseCommand(v))
      BY <1>2 DEF RepliesTo
    <3> QED
      BY <2>7, <3>1 DEF Dispatch
  <2>9. Len(args) = 1 => args[1] \in Seq(STRING) /\ Len(args[1]) <= I64Max
    <3>1. args \in Seq({elems[i].s : i \in 1..n}) /\ Len(args) = n - 1
      <4>1. \A i \in 1..(n - 1) : i + 1 \in 1..n
        BY <2>4
      <4>2. n - 1 \in Nat
        BY <2>4
      <4> QED
        BY <2>6, <4>1, <4>2
    <3>2. Len(args) = 1 => 1 \in 1..(n - 1) /\ 1 + 1 \in 1..n
      <4>1. n - 1 = 1 => 1 \in 1..(n - 1) /\ 1 + 1 \in 1..n
        BY <2>4
      <4> QED
        BY <3>1, <4>1
    <3> QED
      BY <2>5, <2>6, <3>2
  <2>10. Says(HandlePing(args))
    <3>1. PICK p, pong : p = <<"P">> /\ pong = Reply(SimpleString(<<"P">>), String(<<"P">>))
      OBVIOUS
    <3>2. Says(pong)
      <4>1. p \in Seq(Symbol) /\ ~BreaksLine(p)
        BY <3>1 DEF Symbol, BreaksLine
      <4>2. ReadAs(SimpleString(p), String(p))
        BY <4>1, TextReadAs
      <4>3. String(p).type # "error"
        BY DEF String
      <4>4. Says(Reply(SimpleString(p), String(p)))
        BY <4>2, <4>3, ReadSays
      <4> QED
        BY <3>1, <4>4
    <3>3. HandlePing(args) = CASE args = <<>> -> pong
                               [] Len(args) = 1 -> BulkReply(args[1])
                               [] OTHER -> WrongArity
      BY <3>1, Zenon DEF HandlePing
    <3>4. \/ HandlePing(args) \in {pong, WrongArity}
          \/ Len(args) = 1 /\ HandlePing(args) = BulkReply(args[1])
      <4>1. Len(<<>>) # 1
        OBVIOUS
      <4> QED
        BY <3>3, <4>1
    <3> QED
      BY <2>9, <3>2, <3>4, BulkSays, PlainErrorsSay
  <2>11. Says(HandleEcho(args))
    BY <2>9, BulkSays, PlainErrorsSay DEF HandleEcho
  <2>12. Says(UnknownCommand(name))
    <3>1. elems[1].s \in Seq(STRING)
      BY <2>4, <2>5
    <3> QED
      BY <2>6, <3>1, UnknownSays
  <2> QED
    BY <2>8, <2>10, <2>11, <2>12, StoreSays
<1> QED
  BY <1>1, <1>2

-----------------------------------------------------------------------------
(* The replies of a connection.                                            *)

\* A peer reads what lies in the queue behind the replies before it as the i-th reply.
ReadInTurn(i) ==
  ReadBack(SubSeq(out, RepliesEnd(i - 1) + 1, Len(out)), answers[i].means,
           answers[i].end - RepliesEnd(i - 1))

RInv ==
  /\ FInv
  /\ out \in Seq(Symbol)
  /\ \E S : values \in Seq(S)
  /\ \E S : answers \in Seq(S)
  /\ Len(answers) = Len(values)
  /\ \A i \in 0..Len(answers) : RepliesEnd(i) \in 0..Len(out)
  /\ RepliesEnd(Len(answers)) = Len(out)
  /\ \A i \in 1..Len(answers) : ReadInTurn(i)

LEMMA RInvFramed ==
  ASSUME RInv
  PROVE  RepliesFramed
<1>1. DOMAIN answers = 1..Len(answers)
  <2>1. PICK S : answers \in Seq(S)
    BY DEF RInv
  <2> QED
    BY <2>1
<1> QED
  BY <1>1 DEF RInv, RepliesFramed, ReadInTurn

LEMMA RInvInit == ProtocolInit => RInv
<1> SUFFICES ASSUME ProtocolInit
             PROVE  RInv
  OBVIOUS
<1>1. FInv /\ values = <<>> /\ out = <<>> /\ answers = <<>>
  BY FInvInit DEF ProtocolInit, Init
<1>2. out \in Seq(Symbol) /\ Len(out) = 0 /\ Len(answers) = 0 /\ Len(values) = 0
  BY <1>1
<1>3. PICK S : S = {}
  OBVIOUS
<1>4. values \in Seq(S) /\ answers \in Seq(S)
  BY <1>1
<1>5. RepliesEnd(0) = 0
  BY DEF RepliesEnd
<1>6. \A i \in 0..0 : i = 0
  OBVIOUS
<1>7. 1..0 = {}
  OBVIOUS
<1> QED
  BY <1>1, <1>2, <1>4, <1>5, <1>6, <1>7 DEF RInv

\* The tail of the queue grows by what is queued.
LEMMA TailsGrow ==
  ASSUME NEW S, NEW q \in Seq(S), NEW b \in Seq(S), NEW e \in 0..Len(q)
  PROVE  SubSeq(q \o b, e + 1, Len(q \o b)) = SubSeq(q, e + 1, Len(q)) \o b
<1>1. PICK m, n, r : m = Len(q) /\ n = Len(b) /\ r = q \o b
  OBVIOUS
<1>2. m \in Nat /\ n \in Nat /\ e \in Nat /\ e <= m
  BY <1>1
<1>3. /\ r \in Seq(S) /\ Len(r) = m + n
      /\ \A i \in 1..n : r[m + i] = b[i]
  BY <1>1, Joined
<1>4. SubSeq(q, e + 1, m) \in Seq(S)
  BY <1>1, <1>2, Piece
<1>5. SubSeq(r, e + 1, m) = SubSeq(q, e + 1, m)
  <2>1. e + 1 \in Nat \ {0} /\ m \in Int /\ m <= Len(q)
    BY <1>1, <1>2
  <2> QED
    BY <1>1, <2>1, Pieces
<1>6. SubSeq(r, e + 1, m) \o SubSeq(r, m + 1, m + n) = SubSeq(r, e + 1, m + n)
  <2>1. e <= m /\ m <= m + n /\ m + n <= Len(r) /\ m + n \in Nat
    BY <1>2, <1>3
  <2> QED
    BY <1>2, <1>3, <2>1, PiecesMeet
<1>7. SubSeq(r, m + 1, m + n) = b
  <2>1. Lies(r, m + 1, b)
    <3>1. \A i \in 1..n : ((m + 1) - 1) + i = m + i
      BY <1>2
    <3>2. (m + 1) + n - 1 <= Len(r)
      BY <1>2, <1>3
    <3> QED
      BY <1>1, <1>3, <3>1, <3>2 DEF Lies
  <2>2. m + 1 \in Nat \ {0} /\ (m + 1) + n - 1 = m + n
    BY <1>2
  <2>3. SubSeq(r, m + 1, (m + 1) + Len(b) - 1) = b
    BY <1>3, <2>1, <2>2, LiesThere
  <2> QED
    BY <1>1, <2>2, <2>3
<1> QED
  BY <1>1, <1>3, <1>4, <1>5, <1>6, <1>7

\* What is parsed next has been cut from a frame.
LEMMA NextCutFromFrame ==
  ASSUME FInv, NextValue
  PROVE  \E f \in Frames : ValueCutFrom(f.bytes, Parse(buf).value)
<1>1. LaidOut /\ stage = "parse" /\ Parse(buf).status = "Complete"
  BY DEF FInv, NextValue
<1>2. PICK k \in 0..Len(stream) : ParsedUpTo(k)
  BY <1>1 DEF FInv
<1>3. Parse(buf) \notin {Incomplete, Malformed, Thrown}
  BY <1>1 DEF Incomplete, Malformed, Thrown
<1>4. k # Len(stream) /\ Parse(buf) = Parse(stream[k + 1].bytes)
  BY <1>1, <1>2, <1>3, FrameFound
<1>5. PICK f : f = stream[k + 1]
  OBVIOUS
<1>6. f \in Frames /\ f.bytes \in Seq(STRING)
  BY <1>1, <1>4, <1>5, NextFrame, FramingAssumption
<1>7. \E v, c : Parse(f.bytes) = Complete(v, c)
  BY <1>3, <1>4, <1>5, <1>6, EveryParseEnds
<1>8. PICK v, c : Parse(f.bytes) = Complete(v, c)
  BY <1>7
<1>9. ValueCutFrom(f.bytes, v)
  BY <1>6, <1>8, FoundInBytes
<1>10. Parse(buf).value = v
  BY <1>4, <1>5, <1>8 DEF Complete
<1> QED
  BY <1>6, <1>9, <1>10

\* A reply is queued behind the others, which are read as before.
LEMMA AnswerKeeps ==
  ASSUME RInv, AnswerNext
  PROVE  RInv'
<1>1. FInv /\ NextValue
  BY DEF RInv, AnswerNext
<1>2. FInv'
  BY <1>1, NextValueKeeps
<1>3. PICK v : v = Parse(buf).value
  OBVIOUS
<1>4. values' = Append(values, v)
  BY <1>1, <1>3 DEF NextValue
<1>5. PICK T : values \in Seq(T)
  BY DEF RInv
<1>6. /\ values' \in Seq(T \cup {v}) /\ Len(values') = Len(values) + 1 /\ Last(values') = v
      /\ values'[Len(values) + 1] = v
      /\ \A i \in 1..Len(values) : values'[i] = values[i]
      /\ Len(values) \in Nat /\ DOMAIN values = 1..Len(values)
      /\ DOMAIN values' = 1..(Len(values) + 1)
  <2>1. PICK s : s = values
    OBVIOUS
  <2>2. s \in Seq(T \cup {v}) /\ v \in T \cup {v}
    BY <1>5, <2>1
  <2>3. /\ Append(s, v) \in Seq(T \cup {v}) /\ Len(Append(s, v)) = Len(s) + 1
        /\ Append(s, v)[Len(s) + 1] = v /\ \A i \in 1..Len(s) : Append(s, v)[i] = s[i]
        /\ Len(s) \in Nat /\ DOMAIN s = 1..Len(s) /\ DOMAIN Append(s, v) = 1..(Len(s) + 1)
    BY <2>2
  <2>4. Last(Append(s, v)) = v
    BY <2>3 DEF Last
  <2> QED
    BY <1>4, <2>1, <2>3, <2>4
<1>7. PICK reply \in RepliesTo(v) :
        /\ out' = out \o reply.bytes
        /\ answers' = Append(answers, [means |-> reply.means, end |-> Len(out')])
  <2>1. \E reply \in RepliesTo(Last(values')) :
          /\ out' = out \o reply.bytes
          /\ answers' = Append(answers, [means |-> reply.means, end |-> Len(out')])
    BY DEF AnswerNext
  <2> QED
    BY <1>6, <2>1
<1>8. PICK f \in Frames : ValueCutFrom(f.bytes, v)
  BY <1>1, <1>3, NextCutFromFrame
<1>9. Says(reply)
  <2>1. f.bytes \in Seq(STRING) /\ Len(f.bytes) <= I64Max
    BY FramingAssumption, ProtocolAssumption
  <2> QED
    BY <1>7, <1>8, <2>1, RepliesSay
<1>10. PICK q, q2, b, n, last : /\ q = out /\ q2 = out' /\ b = reply.bytes /\ n = Len(answers)
                                /\ last = [means |-> reply.means, end |-> Len(out')]
  OBVIOUS
<1>11. /\ q \in Seq(Symbol) /\ b \in Seq(Symbol) /\ q2 = q \o b
       /\ Len(q) \in Nat /\ Len(b) \in Nat
  BY <1>7, <1>9, <1>10 DEF RInv, Says
<1>12. q2 \in Seq(Symbol) /\ Len(q2) = Len(q) + Len(b)
  BY <1>11, Joined
<1>13. PICK A : answers \in Seq(A)
  BY DEF RInv
<1>14. /\ answers' \in Seq(A \cup {last}) /\ Len(answers') = n + 1 /\ answers'[n + 1] = last
       /\ \A i \in 1..n : answers'[i] = answers[i]
       /\ n \in Nat
  <2>1. PICK s : s = answers
    OBVIOUS
  <2>2. s \in Seq(A \cup {last}) /\ last \in A \cup {last}
    BY <1>13, <2>1
  <2>3. /\ Append(s, last) \in Seq(A \cup {last}) /\ Len(Append(s, last)) = Len(s) + 1
        /\ Append(s, last)[Len(s) + 1] = last /\ \A i \in 1..Len(s) : Append(s, last)[i] = s[i]
        /\ Len(s) \in Nat
    BY <2>2
  <2> QED
    BY <1>7, <1>10, <2>1, <2>3
<1>15. Len(answers') = Len(values')
  BY <1>6, <1>10, <1>14 DEF RInv
<1>16. ASSUME NEW i \in 0..n
       PROVE  RepliesEnd(i)' = RepliesEnd(i) /\ RepliesEnd(i) \in 0..Len(q)
  <2>1. i # 0 => i \in 1..n
    BY <1>14
  <2>2. RepliesEnd(i)' = RepliesEnd(i)
    BY <1>14, <2>1 DEF RepliesEnd
  <2> QED
    BY <1>10, <2>2 DEF RInv
<1>17. RepliesEnd(n) = Len(q) /\ RepliesEnd(n + 1)' = Len(q2)
  BY <1>10, <1>14 DEF RInv, RepliesEnd
<1>18. \A i \in 0..(n + 1) : RepliesEnd(i)' \in 0..Len(q2)
  <2> SUFFICES ASSUME NEW i \in 0..(n + 1)
               PROVE  RepliesEnd(i)' \in 0..Len(q2)
    OBVIOUS
  <2>1. CASE i = n + 1
    <3>1. Len(q2) \in 0..Len(q2)
      BY <1>11, <1>12
    <3> QED
      BY <1>17, <2>1, <3>1
  <2>2. CASE i # n + 1
    <3>1. i \in 0..n
      BY <1>14, <2>2
    <3>2. RepliesEnd(i)' \in 0..Len(q)
      BY <1>16, <3>1
    <3> QED
      BY <1>11, <1>12, <3>2
  <2> QED
    BY <2>1, <2>2
<1>19. ASSUME NEW i \in 1..(n + 1)
       PROVE  ReadInTurn(i)'
  <2>1. CASE i = n + 1
    <3>2. ReadBack(b, reply.means, Len(b))
      BY <1>9, <1>10 DEF Says
    <3>3. SubSeq(q2, Len(q) + 1, Len(q2)) = b
      <4>1. SubSeq(q \o b, Len(q) + 1, Len(q \o b)) = SubSeq(q, Len(q) + 1, Len(q)) \o b
        <5>1. q \in Seq(Symbol) /\ b \in Seq(Symbol) /\ Len(q) \in 0..Len(q)
          BY <1>11
        <5> QED
          BY <5>1, TailsGrow
      <4>2. SubSeq(q, Len(q) + 1, Len(q)) = <<>> /\ <<>> \o b = b
        BY <1>11
      <4> QED
        BY <1>11, <4>1, <4>2
    <3>4. RepliesEnd(i - 1)' = Len(q)
      <4>1. i - 1 = n /\ n \in 0..n
        BY <1>14, <2>1
      <4> QED
        BY <1>16, <1>17, <4>1
    <3>5. answers'[i].means = reply.means /\ answers'[i].end = Len(q2)
      BY <1>10, <1>14, <2>1
    <3>6. Len(q2) - Len(q) = Len(b)
      BY <1>11, <1>12
    <3>7. ReadBack(SubSeq(q2, Len(q) + 1, Len(q2)), reply.means, Len(q2) - Len(q))
      BY <3>2, <3>3, <3>6
    <3> QED
      BY <1>10, <3>4, <3>5, <3>7 DEF ReadInTurn
  <2>2. CASE i # n + 1
    <3>1. i \in 1..n /\ i - 1 \in 0..n
      BY <1>14, <2>2
    <3>3. ReadInTurn(i)
      BY <1>10, <3>1 DEF RInv
    <3>4. PICK e \in 0..Len(q) : e = RepliesEnd(i - 1) /\ RepliesEnd(i - 1)' = e
      BY <1>16, <3>1
    <3>5. PICK rest : rest = SubSeq(q, e + 1, Len(q))
      OBVIOUS
    <3>6. ReadBack(rest, answers[i].means, answers[i].end - e)
      BY <1>10, <3>3, <3>4, <3>5 DEF ReadInTurn
    <3>7. rest \in Seq(Symbol) /\ SubSeq(q2, e + 1, Len(q2)) = rest \o b
      <4>1. q \in Seq(Symbol) /\ b \in Seq(Symbol) /\ e \in 0..Len(q)
        BY <1>11
      <4>2. SubSeq(q \o b, e + 1, Len(q \o b)) = SubSeq(q, e + 1, Len(q)) \o b
        BY <4>1, TailsGrow
      <4>3. SubSeq(q, e + 1, Len(q)) \in Seq(Symbol)
        BY <4>1, Piece
      <4> QED
        BY <1>11, <3>5, <4>2, <4>3
    <3>8. Parse(rest) # Incomplete
      BY <3>6 DEF ReadBack, Complete, Incomplete
    <3>9. Parse(rest \o b) = Parse(rest)
      BY <1>11, <3>7, <3>8, ParseStable
    <3>10. answers'[i] = answers[i]
      BY <1>14, <3>1
    <3>11. ReadBack(SubSeq(q2, e + 1, Len(q2)), answers[i].means, answers[i].end - e)
      BY <1>11, <3>6, <3>7, <3>9 DEF ReadBack
    <3> QED
      BY <1>10, <3>4, <3>10, <3>11 DEF ReadInTurn
  <2> QED
    BY <2>1, <2>2
<1>20. /\ out' \in Seq(Symbol)
       /\ \E S : values' \in Seq(S)
       /\ \E S : answers' \in Seq(S)
       /\ RepliesEnd(Len(answers))' = Len(out')
  <2>1. RepliesEnd(Len(answers))' = RepliesEnd(n + 1)'
    BY <1>14
  <2> QED
    BY <1>6, <1>10, <1>12, <1>14, <1>17, <2>1
<1> QED
  BY <1>2, <1>10, <1>14, <1>15, <1>18, <1>19, <1>20 DEF RInv

\* No other step queues or changes a reply.
LEMMA OthersKeep ==
  ASSUME RInv, [Next]_vars, UNCHANGED <<out, answers, values>>
  PROVE  RInv'
<1>1. FInv'
  BY FInvStep DEF RInv
<1>2. out' = out /\ answers' = answers /\ values' = values
  OBVIOUS
<1>3. \A i : RepliesEnd(i)' = RepliesEnd(i) /\ ReadInTurn(i)' = ReadInTurn(i)
  BY <1>2 DEF RepliesEnd, ReadInTurn
<1> QED
  BY <1>1, <1>2, <1>3 DEF RInv

LEMMA RInvStep == RInv /\ [ProtocolNext]_ProtocolVars => RInv'
<1> SUFFICES ASSUME RInv, [ProtocolNext]_ProtocolVars
             PROVE  RInv'
  OBVIOUS
<1>1. CASE AnswerNext
  BY <1>1, AnswerKeeps
<1>2. CASE (Send \/ Recv \/ NeedsMore \/ Refuses \/ Terminates) /\ UNCHANGED <<out, answers>>
  <2>1. [Next]_vars
    BY <1>2 DEF Next
  <2>2. values' = values
    BY <1>2 DEF Send, Recv, NeedsMore, Refuses, Terminates
  <2> QED
    BY <1>2, <2>1, <2>2, OthersKeep
<1>3. CASE UNCHANGED ProtocolVars
  <2>1. UNCHANGED vars /\ UNCHANGED <<out, answers, values>>
    BY <1>3 DEF ProtocolVars, vars
  <2> QED
    BY <2>1, OthersKeep
<1> QED
  BY <1>1, <1>2, <1>3 DEF ProtocolNext

\* Whatever the peer sends and however it is cut, and whatever the store answers with: the
\* bytes queued as replies are read, by the grammar of the parser itself, as one reply
\* for each message, each where it was queued and none running into another; an error
\* that quotes a line end is read as an error that ends too soon, and changes no other.
THEOREM RepliesStayFramed == ProtocolSpec => []RepliesFramed
<1>1. ProtocolInit => RInv
  BY RInvInit
<1>2. RInv /\ [ProtocolNext]_ProtocolVars => RInv'
  BY RInvStep
<1>3. RInv => RepliesFramed
  BY RInvFramed
<1> QED
  BY <1>1, <1>2, <1>3, PTL DEF ProtocolSpec

\* Answering does not change how the connection reads: every behaviour of Protocol is one of
\* Framing, and what is proved of that holds of it.
THEOREM AnsweringOnlyReads == ProtocolSpec => Spec
<1>1. ProtocolInit => Init
  BY DEF ProtocolInit
<1>2. [ProtocolNext]_ProtocolVars => [Next]_vars
  BY DEF ProtocolNext, AnswerNext, Next, ProtocolVars
<1> QED
  BY <1>1, <1>2, PTL DEF ProtocolSpec, Spec

\* So the two properties of Framing hold of a connection that answers, too.
COROLLARY AnsweredConnectionsFramed ==
  ProtocolSpec => [](SplitsDoNotShow /\ EndsAtTheRightFrame)
BY AnsweringOnlyReads, CutsDoNotShow, EndsRight, PTL

=============================================================================
