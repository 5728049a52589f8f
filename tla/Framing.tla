------------------------------- MODULE Framing -------------------------------
(***************************************************************************)
(* One connection of redix as its parser sees it: Client::on_readable      *)
(* feeds RespParser with what recv returned, whatever the pieces, and      *)
(* takes every complete message from it.                                   *)
(***************************************************************************)
EXTENDS Resp

CONSTANTS
  Frames,    \* what a peer may send: records of bytes and what they mean
  MaxFrames, \* bound: the frames of one stream
  RecvSize   \* bytes that one recv returns at most

\* The meaning of a frame is a RespValue, or one of:
Garbage == [type |-> "garbage"]   \* it is no message
TooLong == [type |-> "too long"]  \* no vector has room for the array it announces

\* A frame, alone and whole, means what the parser makes of it, to its last byte.
ASSUME FramingAssumption ==
  /\ MaxFrames \in Nat
  /\ RecvSize \in Nat \ {0}
  /\ \A f \in Frames :
       /\ f.bytes \in Seq(STRING)
       /\ Parse(f.bytes) = CASE f.means = Garbage -> Malformed
                             [] f.means = TooLong -> Thrown
                             [] OTHER -> Complete(f.means, Len(f.bytes))

VARIABLES
  stream,  \* the frames that the peer has sent
  ends,    \* where each of them ends
  wire,    \* their bytes
  fed,     \* how many of these the server has received
  buf,     \* RespParser::buf_
  stage,   \* of on_readable: "recv", "parse"; "closed", or "terminated" (the process)
  values   \* the values parsed so far

peer == <<stream, ends, wire>>
vars == <<stream, ends, wire, fed, buf, stage, values>>

Init ==
  /\ stream = <<>>
  /\ ends = <<>>
  /\ wire = <<>>
  /\ fed = 0
  /\ buf = <<>>
  /\ stage = "recv"
  /\ values = <<>>

\* The peer sends another frame.
Send ==
  /\ Len(stream) < MaxFrames
  /\ \E f \in Frames :
       /\ stream' = Append(stream, f)
       /\ ends' = Append(ends, Len(wire) + Len(f.bytes))
       /\ wire' = wire \o f.bytes
  /\ UNCHANGED <<fed, buf, stage, values>>

\* recv returns bytes, as few as it likes, and feed appends them to buf_.
Recv ==
  /\ stage = "recv"
  /\ \E n \in 1..RecvSize :
       /\ fed + n <= Len(wire)
       /\ buf' = buf \o SubSeq(wire, fed + 1, fed + n)
       /\ fed' = fed + n
  /\ stage' = "parse"
  /\ UNCHANGED <<peer, values>>

\* Mutant of Consume: what came behind the message is dropped with it.
ConsumeAll(consumed) == <<>>

\* try_parse erases the message it returns from buf_.
Consume(consumed) == SubSeq(buf, consumed + 1, Len(buf))

\* A whole message has come.
NextValue ==
  /\ stage = "parse"
  /\ LET result == Parse(buf)
     IN  /\ result.status = "Complete"
         /\ buf' = Consume(result.consumed)
         /\ values' = Append(values, result.value)
  /\ UNCHANGED <<peer, fed, stage>>

NeedsMore ==
  /\ stage = "parse"
  /\ Parse(buf) = Incomplete
  /\ stage' = "recv"
  /\ UNCHANGED <<peer, fed, buf, values>>

\* The parser is reset and the connection closed.
Refuses ==
  /\ stage = "parse"
  /\ Parse(buf) = Malformed
  /\ buf' = <<>>
  /\ stage' = "closed"
  /\ UNCHANGED <<peer, fed, values>>

\* Nothing catches the exception of the parser.
Terminates ==
  /\ stage = "parse"
  /\ Parse(buf) = Thrown
  /\ stage' = "terminated"
  /\ UNCHANGED <<peer, fed, buf, values>>

Next == Send \/ Recv \/ NextValue \/ NeedsMore \/ Refuses \/ Terminates

Spec == Init /\ [][Next]_vars

-----------------------------------------------------------------------------
(* Properties.                                                             *)

\* The first k frames, what they mean and where they end.
Meanings(k) == [i \in 1..k |-> stream[i].means]
EndOf(k) == IF k = 0 THEN 0 ELSE ends[k]
\* The frames that have been received to the last byte.
Whole == {i \in DOMAIN stream : ends[i] <= fed}

\* However a stream was cut, between any two bytes and in any number of pieces, the
\* values parsed when more is waited for are those of the frames received whole, and
\* buf_ holds exactly the bytes behind them: nothing is parsed early, twice or late,
\* and no frame that cannot be parsed is waited on once it has been received.
SplitsDoNotShow ==
  stage = "recv" => \E k \in 0..Len(stream) :
                      /\ Whole = 1..k
                      /\ values = Meanings(k)
                      /\ buf = SubSeq(wire, EndOf(k) + 1, fed)

\* A connection is closed, or the process lost, at the first frame that deserves it, after
\* every message before it has been parsed.
EndsAtTheRightFrame ==
  stage \in {"closed", "terminated"} =>
    \E i \in DOMAIN stream :
      /\ stream[i].means = IF stage = "closed" THEN Garbage ELSE TooLong
      /\ values = Meanings(i - 1)
      /\ fed > EndOf(i - 1)

=============================================================================
