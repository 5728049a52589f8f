----------------------------- MODULE MCProtocol ------------------------------
(* A small instance of Protocol: messages of every type, split anywhere.   *)
EXTENDS Protocol

Frame(bytes, v) == [bytes |-> bytes, means |-> v]
ArrayOf(elems) == Frame(RespArray(elems), Array(elems))
Cmd(words) == ArrayOf([i \in DOMAIN words |-> String(words[i])])

\* An array of an array and an error.
Nested == Frame(Line("*", ToText(2)) \o RespArray(<<Null, Integer(-12)>>) \o RespErrorReply(<<"x">>),
                Array(<<Array(<<Null, Integer(-12)>>), RespError(<<"x">>)>>))

\* Payloads that look like the end of a line, or like a header.
Tricky == <<"CR", "LF">>
Header == <<"$", "1">>

MCStoreValues == {Null, Integer(-1), Array(<<String(<<>>), Null>>)}

MCFrames ==
  {Cmd(<< <<"p">> >>), Cmd(<< <<"E">>, Tricky >>), Cmd(<< <<"S">>, <<>>, Header >>),
   Cmd(<< <<"CR", "LF">> >>),
   Nested, ArrayOf(<<>>),
   Frame(<<"+", "CR", "x", "CR", "LF">>, String(<<"CR", "x">>)),
   Frame(<<"*", "-", "1", "CR", "LF">>, Null),
   Frame(<<"$", "-", "2", "CR", "LF">>, Garbage),
   Frame(<<":", "1", "-", "CR", "LF">>, Garbage),
   Frame(<<"$", "1", "CR", "LF", "x", "LF", "CR">>, Garbage),
   Frame(<<"*", "2", "CR", "LF", "*", "0", "CR", "LF", "~">>, Garbage),
   Frame(<<"*", "9", "9", "CR", "LF">>, TooLong)}

=============================================================================
