------------------------------ MODULE Protocol -------------------------------
(***************************************************************************)
(* One connection of redix at the level of bytes: Client::on_readable      *)
(* makes a command of every message that its parser returns (Framing) and  *)
(* queues the encoded reply.  What Client abstracts to units is shown here *)
(* of the bytes.                                                           *)
(***************************************************************************)
EXTENDS Framing, Encoding

CONSTANT StoreValues \* what the handlers that call the store may answer with

\* A string, an integer or null, with which a reply and the peer's parser can deal.
Plain(v) ==
  \/ v.type = "null" /\ v = Null
  \/ v.type = "string" /\ v = String(v.s) /\ v.s \in Seq(STRING) /\ Len(v.s) <= I64Max
  \/ v.type = "integer" /\ v = Integer(v.n) /\ v.n \in (-I64Max - 1)..I64Max

\* No vector of bytes is longer than a std::int64_t can say, no array nests another, and
\* the peer has room for those that the store has room for.
ASSUME ProtocolAssumption ==
  /\ \A f \in Frames : Len(f.bytes) <= I64Max
  /\ \A v \in StoreValues :
       \/ Plain(v)
       \/ /\ v.type = "array" /\ v = Array(v.elems)
          /\ v.elems \in Seq(ToSet(v.elems)) /\ Len(v.elems) <= MaxReserve
          /\ \A i \in DOMAIN v.elems : Plain(v.elems[i])

VARIABLES
  out,     \* the bytes queued as replies (write_buf_)
  answers  \* of each reply what it is meant to say, a RespValue, and where it ends in out

ProtocolVars == <<vars, out, answers>>

ProtocolInit == Init /\ out = <<>> /\ answers = <<>>

-----------------------------------------------------------------------------
(* Commands and replies.  A command's name is one letter, an error message *)
(* one letter and what it quotes.                                          *)

\* A reply: its bytes, and what it means to say.
Reply(bytes, v) == [bytes |-> bytes, means |-> v]
ErrorReply(msg) == Reply(RespErrorReply(msg), RespError(msg))
BulkReply(s) == Reply(RespBulk(s), String(s))

Uppercase(name) ==
  [i \in DOMAIN name |-> CASE name[i] = "p" -> "P" [] name[i] = "e" -> "E" [] OTHER -> name[i]]

\* parse_command: an array of strings, of which the first is the name.
IsCommand(v) ==
  /\ v.type = "array" /\ v.elems # <<>>
  /\ \A i \in DOMAIN v.elems : v.elems[i].type = "string"
  /\ v.elems[1].s # <<>>
ParseCommand(v) ==
  [name |-> Uppercase(v.elems[1].s), args |-> [i \in 1..(Len(v.elems) - 1) |-> v.elems[i + 1].s]]
ProtocolError == ErrorReply(<<"E">>)
WrongArity == ErrorReply(<<"w">>)

HandlePing(args) ==
  CASE args = <<>> -> Reply(SimpleString(<<"P">>), String(<<"P">>))
    [] Len(args) = 1 -> BulkReply(args[1])
    [] OTHER -> WrongArity
HandleEcho(args) == IF Len(args) = 1 THEN BulkReply(args[1]) ELSE WrongArity

\* The replies of the handlers that call the store.
StoreReplies ==
  {Reply(RespOk, String(<<"O", "K">>)), WrongArity}
    \cup {Reply(IF v.type = "array" THEN RespArray(v.elems) ELSE RespEncode(v), v) : v \in StoreValues}

\* The message quotes the name, which is in upper case by now and else as it was sent.
UnknownCommand(name) == ErrorReply(<<"'">> \o name \o <<"'">>)

Dispatch(cmd) ==
  CASE cmd.name = <<"P">> -> {HandlePing(cmd.args)}
    [] cmd.name = <<"E">> -> {HandleEcho(cmd.args)}
    [] cmd.name = <<"S">> -> StoreReplies
    [] OTHER -> {UnknownCommand(cmd.name)}

RepliesTo(v) == IF IsCommand(v) THEN Dispatch(ParseCommand(v)) ELSE {ProtocolError}

-----------------------------------------------------------------------------
(* on_readable.                                                            *)

\* A whole message has come: it is executed and answered.
AnswerNext ==
  /\ NextValue
  /\ \E reply \in RepliesTo(Last(values')) :
       /\ out' = out \o reply.bytes
       /\ answers' = Append(answers, [means |-> reply.means, end |-> Len(out')])

ProtocolNext ==
  \/ AnswerNext
  \/ (Send \/ Recv \/ NeedsMore \/ Refuses \/ Terminates) /\ UNCHANGED <<out, answers>>

ProtocolSpec == ProtocolInit /\ [][ProtocolNext]_ProtocolVars

-----------------------------------------------------------------------------
(* Properties.                                                             *)

BreaksLine(s) == \E i \in 1..(Len(s) - 1) : s[i] = CR /\ s[i + 1] = LF

\* Where the first i replies end.
RepliesEnd(i) == IF i = 0 THEN 0 ELSE answers[i].end

\* What a peer finds that expects a reply that means v, in size bytes, at the head of
\* bytes: that reply.  Only an error that quotes a line end ends too soon, at that line
\* end; it is an error all the same.
ReadBack(bytes, v, size) ==
  LET found == Parse(bytes)
  IN  IF v.type = "error" /\ BreaksLine(v.s)
      THEN found.status = "Complete" /\ found.value.type = "error" /\ found.consumed < size
      ELSE found = Complete(v, size)

\* One reply for each message, in their order.  Wherever a reply begins among the queued
\* bytes, the grammar that the server reads with finds there what was meant, and it ends
\* where the next one begins: no reply runs into another.  An unknown command with a line
\* end in its name spoils its own reply, and no other.
RepliesFramed ==
  /\ Len(answers) = Len(values)
  /\ RepliesEnd(Len(answers)) = Len(out)
  /\ \A i \in DOMAIN answers :
       ReadBack(SubSeq(out, RepliesEnd(i - 1) + 1, Len(out)), answers[i].means,
                answers[i].end - RepliesEnd(i - 1))

=============================================================================
