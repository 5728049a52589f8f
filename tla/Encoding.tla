------------------------------ MODULE Encoding -------------------------------
(* The encoders of resp.cpp.  A reply is a value or an array of values: no *)
(* handler nests arrays.                                                   *)
EXTENDS Resp

\* std::to_string.
Numeral(n) ==
  LET text[m \in 0..n] == IF m < 10 THEN <<Digits[m + 1]>>
                          ELSE Append(text[m \div 10], Digits[(m % 10) + 1])
  IN  text[n]
ToText(n) == IF n < 0 THEN <<"-">> \o Numeral(-n) ELSE Numeral(n)

Line(type, text) == <<type>> \o text \o CRLF

SimpleString(s) == Line("+", s)
\* Mutant of RespOk: the line does not end.
RespOkOpen == <<"+", "O", "K">>
RespOk == SimpleString(<<"O", "K">>)
RespErrorReply(msg) == Line("-", msg)
RespInteger(n) == Line(":", ToText(n))
RespNullBulk == Line("$", ToText(-1))
RespBulk(s) == Line("$", ToText(Len(s))) \o s \o CRLF

\* resp_encode of a value that is no array.
RespEncode(v) ==
  CASE v.type = "null" -> RespNullBulk
    [] v.type = "string" -> RespBulk(v.s)
    [] v.type = "integer" -> RespInteger(v.n)
    [] v.type = "error" -> RespErrorReply(v.s)

\* The header of an array, and the elements behind it one after another.
RespArray(elems) ==
  LET written[i \in 0..Len(elems)] ==
        IF i = 0 THEN Line("*", ToText(Len(elems)))
        ELSE written[i - 1] \o RespEncode(elems[i])
  IN  written[Len(elems)]

=============================================================================
