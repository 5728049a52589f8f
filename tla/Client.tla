------------------------------- MODULE Client --------------------------------
(***************************************************************************)
(* redix::Client: one connection's parser and reply buffer, as operators   *)
(* on its record.  The parser holds the units of the request that is not   *)
(* complete yet.                                                           *)
(***************************************************************************)
EXTENDS EventLoop

\* The reply to the n-th request of a connection, and to those from m + 1 to n.
Replies(m, n) ==
  [i \in 1..((n - m) * ReplyUnits) |->
     <<m + 1 + (i - 1) \div ReplyUnits, 1 + ((i - 1) % ReplyUnits)>>]

NewClient(c) ==
  [conn |-> c, state |-> "Reading", parsed |-> 0, write_buf |-> <<>>, write_offset |-> 0]

\* Mutant of EnqueueResponse: the reply takes the place of what was queued.
EnqueueResponseAnew(cl, response) ==
  [cl EXCEPT !.write_buf = response, !.state = "Writing"]

EnqueueResponse(cl, response) ==
  [cl EXCEPT !.write_buf = @ \o response, !.state = "Writing"]

\* The requests that n more units complete; they are executed and answered in turn.
Completed(cl, n) == (cl.parsed + n) \div RequestUnits

\* Mutant of Feed: completing a request drops what was received behind it.
FeedDropsRest(cl, n, done) ==
  LET k == Completed(cl, n)
  IN  IF k = 0 THEN [cl EXCEPT !.parsed = @ + n]
      ELSE EnqueueResponse([cl EXCEPT !.parsed = 0], Replies(done, done + k))

\* recv returned n units to a client that has had done replies: the parser keeps what
\* completes no request.
Feed(cl, n, done) ==
  LET fed == [cl EXCEPT !.parsed = (@ + n) % RequestUnits]
      k == Completed(cl, n)
  IN  IF k = 0 THEN fed ELSE EnqueueResponse(fed, Replies(done, done + k))

Unsent(cl) == SubSeq(cl.write_buf, cl.write_offset + 1, Len(cl.write_buf))

Sent(cl, n) == [cl EXCEPT !.write_offset = @ + n]

\* Mutant of Flushed: the offset survives the buffer.
FlushedKeepsOffset(cl) == [cl EXCEPT !.write_buf = <<>>, !.state = "Reading"]

Flushed(cl) == [cl EXCEPT !.write_buf = <<>>, !.write_offset = 0, !.state = "Reading"]

=============================================================================
