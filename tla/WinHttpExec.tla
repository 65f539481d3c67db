----------------------------- MODULE WinHttpExec -----------------------------
(***************************************************************************)
(* async_exec, async_exec_op and async_read_body_op: a whole request as a  *)
(* chain of asynchronous steps, each started by the handler of the one     *)
(* before it.  The body is read by asking how much is available, preparing *)
(* one byte more than that in the caller's buffer, reading, and committing *)
(* what was read, until a read returns nothing.                            *)
(***************************************************************************)
EXTENDS WinHttpTransport

VARIABLES
  status,     \* "idle", "running", or "posted" (a handler is on its way)
  execState,  \* async_exec_op::state_
  bodyState,  \* async_read_body_op::state_
  buffer,     \* what has been committed to the caller's buffer
  handed,     \* what the body operation has completed with and the outer
              \* operator() has not been run with yet, or NoResult
  result,     \* the code the caller's last handler was given
  fault       \* history: the code of the first thing of the last call that
              \* failed, or NoError

execVars == <<status, execState, bodyState, buffer, handed, result, fault>>
vars == <<transportVars, execVars>>

TypeOK ==
  /\ TransportTypeOK
  /\ asked <= MaxLen
  /\ status \in {"idle", "running", "posted"}
  /\ execState \in {"idle", "send", "receive_response", "done"}
  /\ bodyState \in {"idle", "query_data", "read_data", "done"}
  /\ buffer \in Seq(0 .. MaxBody)
  /\ handed \in Result \cup {NoResult}
  /\ result \in ErrorCode \cup {NoError, "none"}
  /\ fault \in ErrorCode \cup {NoError}

Init ==
  /\ TransportInit
  /\ status = "idle"
  /\ execState = "idle"
  /\ bodyState = "idle"
  /\ buffer = <<>>
  /\ handed = NoResult
  /\ result = "none"
  /\ fault = NoError

\* The buffer the caller brings is empty.
NewCall ==
  /\ status = "idle"
  /\ NewResponse
  /\ buffer' = <<>>
  /\ UNCHANGED <<bodyState, handed, result, asked, area, resumed>>

\* async_exec: managed_open or set_option failed and the handler is posted.
ExecFails ==
  /\ NewCall
  /\ status' = "posted"
  /\ execState' = "idle"
  /\ fault' = "failed"
  /\ UNCHANGED <<phase, op, outcome, got>>

\* The posted handler runs.
RunPosted ==
  /\ status = "posted"
  /\ status' = "idle"
  /\ result' = "failed"
  /\ UNCHANGED <<transportVars, execState, bodyState, buffer, handed, fault>>

\* async_exec composes async_exec_op, whose first run sends the request.
ExecStarts ==
  /\ NewCall
  /\ status' = "running"
  /\ execState' = "send"
  /\ fault' = NoError
  /\ Step!Start("send_request")

\* What operator() leaves as it is when it starts no step.
stepVars == <<phase, op, outcome, got, body, consumed, asked, area, sent>>

\* A run of operator() after a step that reported success.
Resumes(es) ==
  /\ resumed
  /\ got.ec = NoError
  /\ execState = es
  /\ resumed' = FALSE

\* A run of the body operation's operator(), likewise.
BodyResumes(bs) == Resumes("done") /\ bodyState = bs

\* Faulty variant: the body operation takes an error for the end of the body.
BodyHandsSuccess(r) == handed' = Success(0)

\* self.complete(ec, len) of the body operation: operator() of the outer one
\* is its handler.
BodyHands(r) == handed' = r

\* if (ec) in the body operation.
BodyFails ==
  /\ resumed
  /\ execState = "done"
  /\ got.ec # NoError
  /\ resumed' = FALSE
  /\ BodyHands(got)
  /\ UNCHANGED <<stepVars, status, execState, bodyState, buffer, result, fault>>

\* The outer operator() is run with r, by a step of its own or by the body
\* operation.
ExecRuns(r) ==
  IF execState = "done" THEN handed # NoResult /\ r = handed
  ELSE resumed /\ r = got

\* self.complete(ec, ...) of the outer operation: the caller's handler.
Complete(e) ==
  /\ status' = "idle"
  /\ result' = e
  /\ resumed' = FALSE
  /\ handed' = NoResult
  /\ UNCHANGED <<stepVars, execState, bodyState, buffer, fault>>

\* if (ec) in the outer operation.
OpFails ==
  \E r \in Result : ExecRuns(r) /\ r.ec # NoError /\ Complete(r.ec)

\* case state::done.
OpDone ==
  /\ execState = "done"
  /\ \E r \in Result : ExecRuns(r) /\ r.ec = NoError /\ Complete(r.ec)

\* case state::send.
OpSent ==
  /\ Resumes("send")
  /\ execState' = "receive_response"
  /\ Start("headers_available")
  /\ UNCHANGED <<status, bodyState, buffer, handed, result, fault>>

\* case state::receive_response: async_read_body is composed and makes its
\* first run, case state::idle.
OpReceived ==
  /\ Resumes("receive_response")
  /\ execState' = "done"
  /\ bodyState' = "query_data"
  /\ Start("data_available")
  /\ UNCHANGED <<status, buffer, handed, result, fault>>

\* Faulty variant: the spare byte is read into as well.
BodyQueriedIntoSpare ==
  /\ BodyResumes("query_data")
  /\ bodyState' = "read_data"
  /\ StartRead(got.len + 1, got.len + 1)
  /\ UNCHANGED <<status, execState, buffer, handed, result, fault>>

\* case state::query_data: prepare one byte more than is asked for.
BodyQueried ==
  /\ BodyResumes("query_data")
  /\ bodyState' = "read_data"
  /\ StartRead(got.len + 1, got.len)
  /\ UNCHANGED <<status, execState, buffer, handed, result, fault>>

\* Faulty variant: everything that was asked for is committed.
CommittedAsked(n) == buffer \o SubSeq(area, 1, asked)

\* commit(n) makes the first n bytes of the prepared memory readable.
Committed(n) == buffer \o SubSeq(area, 1, n)

\* case state::read_data, len != 0.
BodyRead ==
  /\ BodyResumes("read_data")
  /\ got.len # 0
  /\ buffer' = Committed(got.len)
  /\ bodyState' = "query_data"
  /\ Start("data_available")
  /\ UNCHANGED <<status, execState, handed, result, fault>>

\* Faulty variant: a short read is taken for the last one.
BodyEndsOnShortRead ==
  /\ BodyResumes("read_data")
  /\ got.len < asked \/ got.len = 0
  /\ bodyState' = "done"
  /\ BodyHands(Success(0))
  /\ UNCHANGED <<stepVars, status, execState, buffer, result, fault>>

\* case state::read_data, len == 0.
BodyEnds ==
  /\ BodyResumes("read_data")
  /\ got.len = 0
  /\ bodyState' = "done"
  /\ BodyHands(Success(0))
  /\ UNCHANGED <<stepVars, status, execState, buffer, result, fault>>

Operator ==
  \/ OpFails \/ OpSent \/ OpReceived \/ OpDone
  \/ BodyFails \/ BodyQueried \/ BodyRead \/ BodyEnds

\* WinHTTP is done with a step, and with what.
StepSettles ==
  /\ \E r \in Result :
       /\ Settle(r)
       /\ fault' = IF fault = NoError THEN r.ec ELSE fault
  /\ UNCHANGED <<status, execState, bodyState, buffer, handed, result>>

HandlerRuns == Resume /\ UNCHANGED execVars

Next ==
  \/ ExecFails
  \/ RunPosted
  \/ ExecStarts
  \/ Operator
  \/ StepSettles
  \/ HandlerRuns

\* The executor runs what is posted and finishes a handler it has entered;
\* AsyncStep!Fairness for the steps.
Fairness ==
  /\ WF_vars(RunPosted)
  /\ WF_vars(Operator)
  /\ WF_vars(StepSettles)
  /\ WF_vars(HandlerRuns)

SafeSpec == Init /\ [][Next]_vars
Spec == SafeSpec /\ Fairness

(***************************************************************************)
(* Properties.                                                             *)
(***************************************************************************)

\* WinHTTP writes only inside the memory prepared for it, and what the body
\* operation then commits is only what WinHTTP wrote there: no byte of the
\* caller's buffer is uninitialised (winhttp_asio.hpp:494-500).
ReadWithinPrepared ==
  /\ phase = "pending" /\ op = "read_complete" => asked < Len(area)
  /\ \A i \in DOMAIN buffer : buffer[i] # 0

\* Between a read and its commit nothing is forgotten: what WinHTTP has
\* handed out is in the caller's buffer, or is about to be committed by the
\* handler of the read, or the whole call is failing.
NothingDropped ==
  status = "running" =>
    \/ Len(buffer) = consumed
    \/ /\ op = "read_complete" /\ bodyState = "read_data"
       /\ IF phase = "idle"
          THEN Len(buffer) + got.len = consumed
          ELSE phase = "settled" /\ Len(buffer) + outcome.len = consumed

\* An error ends the call and is its result: once WinHTTP has failed a step,
\* of either of the two nested operations, it is asked for no other, and what
\* the caller is told is the code of that very failure, through both of them;
\* success only if nothing failed, not even the last read, which brings no
\* byte (client.hpp:50, winhttp_asio.hpp:477).
FirstErrorIsResult ==
  /\ status = "running" /\ fault # NoError => phase # "pending"
  /\ status = "idle" /\ result # "none" => result = fault

\* The chain of steps keeps the promise made to the caller of async_exec.
Fetch == INSTANCE FetchSpec
  WITH Body <- 0 .. MaxBody, Code <- ErrorCode, Ok <- NoError,
       status <- IF status = "idle" THEN "idle" ELSE "running"
ExecSpec == Fetch!Spec
=============================================================================
