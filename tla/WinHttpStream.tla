---------------------------- MODULE WinHttpStream ----------------------------
(***************************************************************************)
(* basic_winhttp_request_stream_handle: async_read_some and                *)
(* async_write_some on a request, driven by boost::asio's async_write and  *)
(* async_read in the order the repository's tests use them: send the       *)
(* headers, write the whole request body, receive the response, read its   *)
(* body buffer by buffer until a read comes back short.                    *)
(***************************************************************************)
EXTENDS WinHttpTransport

VARIABLES
  stage,     \* where the user's coroutine is
  opState,   \* state_ of the running async_read_some_op / async_write_some_op
  size,      \* size_ of that operation
  total,     \* the length of the request body
  written,   \* bytes async_write has got rid of
  want,      \* the length of the buffer given to async_read
  have,      \* bytes async_read has put there
  data       \* every byte the user has been given

userVars == <<stage, opState, size, total, written, want, have, data>>
vars == <<transportVars, userVars>>

Stage == {"start", "sending", "writing", "receiving", "ready", "reading",
          "ended", "failed"}

TypeOK ==
  /\ TransportTypeOK
  /\ stage \in Stage
  /\ opState \in {"idle", "query_data", "read_data", "write_data", "done"}
  /\ {size, total, written, want, have} \subseteq 0 .. MaxBody
  /\ data \in Seq(0 .. MaxBody)

Init ==
  /\ TransportInit
  /\ stage = "start"
  /\ opState = "idle"
  /\ size = 0
  /\ total = 0
  /\ written = 0
  /\ want = 0
  /\ have = 0
  /\ data = <<>>

\* The sizes boost::asio passes on at once when n bytes are left: a part.
Portion(n) == IF n = 0 THEN {0} ELSE 1 .. n

\* async_send with dwTotalLength the length of the body to follow.
Send ==
  /\ stage = "start"
  /\ stage' = "sending"
  /\ total' \in 0 .. MaxBody
  /\ Step!Start("send_request")
  /\ UNCHANGED <<resumed, body, consumed, asked, area, sent, opState, size,
                 written, want, have, data>>

\* The handler of a step runs, and the step succeeded.
Resumes(s, os) ==
  /\ resumed
  /\ got.ec = NoError
  /\ stage = s
  /\ opState = os
  /\ resumed' = FALSE

\* if (ec) in either operation: complete(ec, len) goes through async_read or
\* async_write to the user, who gives the request up.
Fails ==
  /\ resumed
  /\ got.ec # NoError
  /\ resumed' = FALSE
  /\ stage' = "failed"
  /\ UNCHANGED <<phase, op, outcome, got, body, consumed, asked, area, sent,
                 opState, size, total, written, want, have, data>>

\* Faulty variant: what has been written already is not taken off the length.
WriteSomeWholeLength(w) ==
  /\ stage' = "writing"
  /\ opState' = "write_data"
  /\ written' = w
  /\ size' \in Portion(total)
  /\ StartWrite(Bytes(w, w + size'), size')
  /\ UNCHANGED <<total, want, have, data>>

\* async_write_some from position w on: case state::idle.
WriteSome(w) ==
  /\ stage' = "writing"
  /\ opState' = "write_data"
  /\ written' = w
  /\ size' \in Portion(total - w)
  /\ StartWrite(Bytes(w, w + size'), size')
  /\ UNCHANGED <<total, want, have, data>>

\* async_recieve_response, once the request body is written.
ReceiveResponse(w) ==
  /\ stage' = "receiving"
  /\ opState' = "idle"
  /\ written' = w
  /\ Start("headers_available")
  /\ UNCHANGED <<size, total, want, have, data>>

\* async_write asks for one write also if there is nothing to write.
SentHeaders == Resumes("sending", "idle") /\ WriteSome(0)

\* Faulty variant: WinHTTP is taken to have written all it was given.
WriteContinuesAfterAll ==
  /\ Resumes("writing", "write_data")
  /\ got.len # 0
  /\ written + size < total
  /\ WriteSome(written + size)

\* case state::write_data completes with len; async_write goes on until all
\* is written or nothing more is taken.
WriteContinues ==
  /\ Resumes("writing", "write_data")
  /\ got.len # 0
  /\ written + got.len < total
  /\ WriteSome(written + got.len)

WriteCompletes ==
  /\ Resumes("writing", "write_data")
  /\ got.len = 0 \/ written + got.len = total
  /\ ReceiveResponse(written + got.len)

ReceivedResponse ==
  /\ Resumes("receiving", "idle")
  /\ stage' = "ready"
  /\ UNCHANGED <<phase, op, outcome, got, body, consumed, asked, area, sent,
                 opState, size, total, written, want, have, data>>

\* async_read_some into a part of the n bytes left: case state::idle.
ReadSome(n) ==
  /\ opState' = "query_data"
  /\ size' \in Portion(n)
  /\ Start("data_available")

\* async_read into a buffer of w bytes.
Read(w) ==
  /\ stage = "ready"
  /\ stage' = "reading"
  /\ want' = w
  /\ have' = 0
  /\ ReadSome(w)
  /\ UNCHANGED <<resumed, total, written, data>>

\* Faulty variant: everything announced is read, whatever the buffer holds.
ReadLenAnnounced == got.len

\* case state::query_data.
ReadLen == Lesser(got.len, size)

\* Faulty variant: nothing announced, nothing done.
QueriedSomething ==
  /\ Resumes("reading", "query_data")
  /\ got.len # 0
  /\ opState' = "read_data"
  /\ StartRead(size, ReadLen)
  /\ UNCHANGED <<stage, size, total, written, want, have, data>>

Queried ==
  /\ Resumes("reading", "query_data")
  /\ opState' = "read_data"
  /\ StartRead(size, ReadLen)
  /\ UNCHANGED <<stage, size, total, written, want, have, data>>

\* case state::read_data completes with len: the bytes are the user's.
Take ==
  /\ Resumes("reading", "read_data")
  /\ have' = have + got.len
  /\ data' = data \o SubSeq(area, 1, got.len)
  /\ UNCHANGED <<total, written, want>>

\* async_read goes on until its buffer is full or a read returned nothing.
ReadContinues ==
  /\ Take
  /\ got.len # 0 /\ have' < want
  /\ ReadSome(want - have')
  /\ UNCHANGED stage

\* Faulty variant: a read that does not fill its buffer is taken for the last.
ReadCompletesShort ==
  /\ Take
  /\ got.len < size \/ have' = want
  /\ stage' = IF have' < want THEN "ended" ELSE "ready"
  /\ opState' = "done"
  /\ UNCHANGED <<phase, op, outcome, got, body, consumed, asked, area, sent,
                 size>>

ReadCompletes ==
  /\ Take
  /\ got.len = 0 \/ have' = want
  /\ stage' = IF have' < want THEN "ended" ELSE "ready"
  /\ opState' = "done"
  /\ UNCHANGED <<phase, op, outcome, got, body, consumed, asked, area, sent,
                 size>>

\* The user opens the handle again for another request.
Reopen ==
  /\ stage \in {"ready", "ended", "failed"}
  /\ stage' = "start"
  /\ opState' = "idle"
  /\ size' = 0 /\ total' = 0 /\ written' = 0 /\ want' = 0 /\ have' = 0
  /\ data' = <<>>
  /\ NewResponse
  /\ UNCHANGED <<phase, op, outcome, got, resumed, asked, area>>

Handler ==
  \/ Fails \/ SentHeaders \/ WriteContinues \/ WriteCompletes
  \/ ReceivedResponse \/ Queried \/ ReadContinues \/ ReadCompletes

Transport ==
  /\ (\E r \in Result : Settle(r)) \/ Resume
  /\ UNCHANGED userVars

Next ==
  \/ Send
  \/ \E w \in 0 .. MaxBody : Read(w)
  \/ Reopen
  \/ Handler
  \/ Transport

\* A handler that was entered is finished; AsyncStep!Fairness for the steps.
Fairness ==
  /\ WF_vars(Handler)
  /\ WF_vars((\E r \in Result : Settle(r)) /\ UNCHANGED userVars)
  /\ WF_vars(Resume /\ UNCHANGED userVars)

Spec == Init /\ [][Next]_vars /\ Fairness

(***************************************************************************)
(* Properties.                                                             *)
(***************************************************************************)

\* async_read stops without an error and without a full buffer only at the
\* end of the body: as boost::asio takes a read of zero bytes for a reason to
\* stop, async_read_some must not return zero while there is more to read
\* (winhttp_stream.hpp:55).
ShortReadMeansEnd == stage = "ended" => data = Bytes(0, body)

\* The buffers given to successive reads are filled with consecutive bytes
\* of the body and WinHTTP is never asked to write past one of them, although
\* more may have been announced than the buffer holds (winhttp_stream.hpp:49).
ReadInOrder ==
  /\ data = Bytes(0, Len(data))
  /\ phase = "pending" /\ op = "read_complete" => asked <= Len(area)

\* The response is asked for when the server has got exactly the bytes that
\* async_send announced, each once and in order, however many WinHTTP took
\* at a time.
WholeRequestBeforeResponse ==
  stage \in {"receiving", "ready", "reading"} => sent = Bytes(0, total)

\* async_write, async_read and the steps around them come to an end.
OperationsEnd ==
  /\ stage = "writing" ~> stage \in {"receiving", "failed"}
  /\ stage = "reading" ~> stage \in {"ready", "ended", "failed"}
=============================================================================
