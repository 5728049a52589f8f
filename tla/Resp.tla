-------------------------------- MODULE Resp ---------------------------------
(***************************************************************************)
(* What bytes on the wire mean: RespParser's parse_at.  A byte is a        *)
(* symbol; the two bytes that end a line are CR and LF.  parse_at calls    *)
(* itself for each element of an array; here the calls that are under way  *)
(* are a stack of open arrays, and a step is one call or one return.       *)
(***************************************************************************)
EXTENDS Integers, SequencesExt

CONSTANTS
  I64Max,    \* std::int64_t is -I64Max - 1 .. I64Max
  MaxReserve \* the elements for which a vector can reserve room

ASSUME RespAssumption == I64Max \in Nat /\ MaxReserve \in 0..I64Max

CR == "CR"
LF == "LF"
CRLF == <<CR, LF>>
Digits == <<"0", "1", "2", "3", "4", "5", "6", "7", "8", "9">>
Denotes(digit) == (CHOOSE i \in DOMAIN Digits : Digits[i] = digit) - 1

-----------------------------------------------------------------------------
(* RespValue: what a message means.                                        *)

Null == [type |-> "null"]
String(s) == [type |-> "string", s |-> s]
Integer(n) == [type |-> "integer", n |-> n]
RespError(s) == [type |-> "error", s |-> s]
Array(elems) == [type |-> "array", elems |-> elems]

-----------------------------------------------------------------------------
(* Numbers.                                                                *)

\* The number that digits denote, from the first on.
ValueOf(digits) ==
  LET value[i \in 0..Len(digits)] ==
        IF i = 0 THEN 0 ELSE 10 * value[i - 1] + Denotes(digits[i])
  IN  value[Len(digits)]

\* parse_i64: the number that a text denotes in full, if it is one in range.
ParseI64(text) ==
  LET negative == text # <<>> /\ Head(text) = "-"
      digits == IF negative THEN Tail(text) ELSE text
  IN  IF digits = <<>> \/ ~(ToSet(digits) \subseteq ToSet(Digits)) THEN {}
      ELSE {IF negative THEN -ValueOf(digits) ELSE ValueOf(digits)} \cap (-I64Max - 1)..I64Max

\* The length that a header announces, if it is one; -1 stands for null.
Length(text) == {n \in ParseI64(text) : n >= -1}

-----------------------------------------------------------------------------
(* Parsing.                                                                *)

Complete(v, consumed) == [status |-> "Complete", value |-> v, consumed |-> consumed]
Incomplete == [status |-> "Incomplete"]
Malformed == [status |-> "Error"]
\* std::vector::reserve throws: the exception leaves the parser.
Thrown == [status |-> "Thrown"]

\* Not done: the next byte to read, and the arrays being read, the innermost last.
Reading(cursor, open) == [status |-> "Reading", cursor |-> cursor, open |-> open]
OpenArray(len, elems) == [len |-> len, elems |-> elems]

\* The message v ends before cursor: the one asked for, or an element of an array.
Parsed(v, cursor, open) ==
  IF open = <<>> THEN Complete(v, cursor - 1)
  ELSE LET inner == Last(open)
       IN  Reading(cursor, Append(Front(open), OpenArray(inner.len, Append(inner.elems, v))))

\* Mutant of ParseBulk: a payload whose line end has not come yet is taken for malformed.
ParseBulkImpatient(buf, start, len, open) ==
  LET end == start + len
  IN  IF end - 1 > Len(buf) THEN Incomplete
      ELSE IF end + 1 > Len(buf) \/ SubSeq(buf, end, end + 1) # CRLF THEN Malformed
      ELSE Parsed(String(SubSeq(buf, start, end - 1)), end + 2, open)

\* The payload of a bulk string of len bytes, from start.
ParseBulk(buf, start, len, open) ==
  LET end == start + len
  IN  IF end + 1 > Len(buf) THEN Incomplete
      ELSE IF SubSeq(buf, end, end + 1) # CRLF THEN Malformed
      ELSE Parsed(String(SubSeq(buf, start, end - 1)), end + 2, open)

\* The message at pos, whose first line ends before end.
ParseMessage(buf, pos, end, open) ==
  LET type == buf[pos]
      text == SubSeq(buf, pos + 1, end - 1)
      start == end + 2
      Whole(v) == Parsed(v, start, open)
      number == CHOOSE n \in ParseI64(text) : TRUE
  IN  CASE type = "+" -> Whole(String(text))
        [] type = "-" -> Whole(RespError(text))
        [] type = ":" /\ ParseI64(text) # {} -> Whole(Integer(number))
        [] type = ":" /\ ParseI64(text) = {} -> Malformed
        [] type \in {"$", "*"} /\ Length(text) = {} -> Malformed
        [] type \in {"$", "*"} /\ Length(text) = {-1} -> Whole(Null)
        [] type = "$" /\ Length(text) \ {-1} # {} -> ParseBulk(buf, start, number, open)
        [] type = "*" /\ Length(text) \ {-1} # {} ->
             IF number > MaxReserve THEN Thrown
             ELSE Reading(start, Append(open, OpenArray(number, <<>>)))

\* find_crlf: where the line ends that starts at pos, if it does.
LineEnds(buf, pos) == {i \in pos..(Len(buf) - 1) : SubSeq(buf, i, i + 1) = CRLF}

\* The call of parse_at at pos: it ends, or goes on with the first element of an array.
ParseAt(buf, pos, open) ==
  IF pos > Len(buf) THEN Incomplete
  ELSE IF buf[pos] \notin {"+", "-", ":", "$", "*"} THEN Malformed
  ELSE IF LineEnds(buf, pos + 1) = {} THEN Incomplete
  ELSE ParseMessage(buf, pos, Min(LineEnds(buf, pos + 1)), open)

\* An array that has all its elements is a message itself; any other calls for one more.
\* What is no message ends all calls, however deep.
ParseStep(buf, s) ==
  IF s.status # "Reading" THEN s
  ELSE IF s.open # <<>> /\ Len(Last(s.open).elems) = Last(s.open).len
       THEN Parsed(Array(Last(s.open).elems), s.cursor, Front(s.open))
       ELSE ParseAt(buf, s.cursor, s.open)

ParseStates(buf) ==
  LET state[n \in Nat] == IF n = 0 THEN Reading(1, <<>>) ELSE ParseStep(buf, state[n - 1])
  IN  state

\* The message at the head of buf, parsed anew each time more of it has come.  No parse
\* takes more steps than there are bytes, but for the step that finds too few.
Parse(buf) == ParseStates(buf)[Len(buf) + 1]

=============================================================================
