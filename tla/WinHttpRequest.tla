--------------------------- MODULE WinHttpRequest ---------------------------
(***************************************************************************)
(* basic_winhttp_request_asio_handle and its asio_request_context: how one *)
(* asynchronous step of a WinHTTP request is carried out.                  *)
(*                                                                         *)
(* Three threads take part.  The io thread runs user code: it starts a     *)
(* step (async_send, async_recieve_response, async_query_data_available,   *)
(* async_read_data, async_write_data), calls WinHTTP, and registers the    *)
(* handler with the context's one manual-reset event.  A WinHTTP thread    *)
(* runs BasicAsioAsyncCallback, which stores a result in the context and   *)
(* sets the event, one store at a time; it may run before, while or after  *)
(* the handler is registered.  The wait thread of the operating system     *)
(* sees the event and queues the handler on the executor.                  *)
(***************************************************************************)
EXTENDS WinHttpDefs

VARIABLES
  handle,    \* HINTERNET of the request: "null", "bare" (open, no callback
             \* set) or "managed" (open, with the callback)
  bound,     \* a send has given this handle the address of ctx_
  lost,      \* the handle the last call was made on has been closed since
  ctx,       \* the memory of ctx_: "alive" or "destroyed"
  ctxState,  \* asio_request_context::state_
  event,     \* step_event is signalled
  stepEc,    \* asio_request_context::step_ec
  stepLen,   \* asio_request_context::step_len
  pc,        \* where the io thread is in the running step
  cur,       \* the kind of the running step, or of the last one
  api,       \* WinHTTP has accepted a call it has not reported on
  cb,        \* the next store of the running callback, or "idle"
  cbRes,     \* what that callback reports
  outcome,   \* history: what WinHTTP reported for the running step
  got        \* history: what the last handler was given

ctxVars == <<ctxState, event, stepEc, stepLen>>
handleVars == <<handle, bound, lost, ctx>>
callbackVars == <<api, cb, cbRes>>
vars == <<handle, bound, lost, ctx, ctxState, event, stepEc, stepLen, pc,
          cur, api, cb, cbRes, outcome, got>>

TypeOK ==
  /\ handle \in {"null", "bare", "managed"}
  /\ bound \in BOOLEAN
  /\ lost \in BOOLEAN
  /\ ctx \in {"alive", "destroyed"}
  /\ ctxState \in CtxState
  /\ event \in BOOLEAN
  /\ stepEc \in ErrorCode \cup {NoError}
  /\ stepLen \in 0 .. MaxLen
  /\ pc \in {"user", "reset", "called", "waiting", "queued"}
  /\ cur \in StepOp \cup {"idle"}
  /\ api \in BOOLEAN
  /\ cb \in {"idle", "ec", "len", "set"}
  /\ cbRes \in Result \cup {NoResult}
  /\ outcome \in Result \cup {NoResult}
  /\ got \in Result \cup {NoResult}

Init ==
  /\ handle = "null"
  /\ bound = FALSE
  /\ lost = FALSE
  /\ ctx = "alive"
  /\ ctxState = "idle"
  /\ event = FALSE
  /\ stepEc = NoError
  /\ stepLen = 0
  /\ pc = "user"
  /\ cur = "idle"
  /\ api = FALSE
  /\ cb = "idle"
  /\ cbRes = NoResult
  /\ outcome = NoResult
  /\ got = NoResult

(***************************************************************************)
(* asio_request_context.                                                   *)
(***************************************************************************)
\* Faulty variant: ResetEvent is forgotten.
StepResetKeepsSignal ==
  /\ UNCHANGED event
  /\ stepEc' = NoError
  /\ stepLen' = 0

StepReset ==
  /\ event' = FALSE
  /\ stepEc' = NoError
  /\ stepLen' = 0

\* step_complete on the io thread, where nothing can come between its stores.
StepComplete(r) ==
  /\ stepEc' = r.ec
  /\ stepLen' = r.len
  /\ event' = TRUE

(***************************************************************************)
(* The io thread.                                                          *)
(***************************************************************************)

\* managed_open: WinHttpOpenRequest may fail and leave the handle as it was;
\* once it succeeds the old handle is closed, whatever is running on it, and
\* setting the callback may fail, which leaves the new handle open without
\* one.  Like close(), it may be called by another handler while a step is
\* running.
ManagedOpen ==
  /\ pc \in {"user", "waiting", "queued"}
  /\ ctx = "alive"
  /\ \/ UNCHANGED <<handle, bound, lost>>
     \/ handle' \in {"bare", "managed"} /\ bound' = FALSE /\ lost' = TRUE
  /\ UNCHANGED <<ctx, ctxVars, pc, cur, callbackVars, outcome, got>>

\* Faulty variant: set_state is forgotten.
InitiateWithoutState(o) ==
  /\ pc = "user"
  /\ ctx = "alive"
  /\ handle # "bare"
  /\ UNCHANGED ctxState
  /\ StepReset
  /\ pc' = "reset"
  /\ cur' = o
  /\ outcome' = NoResult
  /\ UNCHANGED <<handleVars, callbackVars, got>>

\* The first half of every async_* member: set_state(o), then step_reset().
\* A handle left without a callback is not used: managed_open reported it.
Initiate(o) ==
  /\ pc = "user"
  /\ ctx = "alive"
  /\ handle # "bare"
  /\ ctxState' = o
  /\ StepReset
  /\ pc' = "reset"
  /\ cur' = o
  /\ outcome' = NoResult
  /\ UNCHANGED <<handleVars, callbackVars, got>>

\* A request accepts nothing but a send until a send gave it its context.
Acceptable == handle = "managed" /\ (cur = "send_request" \/ bound)

\* The WinHTTP function returned TRUE: its result comes to the callback.
ApiAccepted ==
  /\ pc = "reset"
  /\ Acceptable
  /\ pc' = "called"
  /\ api' = TRUE
  /\ bound' = TRUE
  /\ lost' = FALSE
  /\ UNCHANGED <<handle, ctx, ctxVars, cur, cb, cbRes, outcome, got>>

\* The error GetLastError() gives for a refused call.
RefusalCode == IF handle = "null" THEN "invalid_handle" ELSE "failed"

\* The function returned FALSE: the member completes the step itself.
ApiRefused ==
  /\ pc = "reset"
  /\ pc' = "called"
  /\ ctxState' = "error"
  /\ StepComplete(Failure(RefusalCode))
  /\ outcome' = Failure(RefusalCode)
  /\ UNCHANGED <<handleVars, cur, callbackVars, got>>

\* async_compose runs async_op: the handler moves into step_event.async_wait.
AsyncWait ==
  /\ pc = "called"
  /\ pc' = "waiting"
  /\ UNCHANGED <<handleVars, ctxVars, cur, callbackVars, outcome, got>>

\* The wait thread sees the event signalled and posts the handler.
WaitFires ==
  /\ pc = "waiting"
  /\ event
  /\ pc' = "queued"
  /\ UNCHANGED <<handleVars, ctxVars, cur, callbackVars, outcome, got>>

\* self.complete(*c) or self.complete(*c, *l): the handler gets the context's
\* result as it is now.  User code runs again.
RunHandler ==
  /\ pc = "queued"
  /\ pc' = "user"
  /\ got' = [ec |-> stepEc, len |-> IF cur \in LenOp THEN stepLen ELSE 0]
  /\ UNCHANGED <<handleVars, ctxVars, cur, callbackVars, outcome>>

\* close(), also from another handler while a step is running.
Close ==
  /\ pc \in {"user", "waiting", "queued"}
  /\ ctx = "alive"
  /\ handle # "null"
  /\ handle' = "null"
  /\ bound' = FALSE
  /\ lost' = TRUE
  /\ UNCHANGED <<ctx, ctxVars, pc, cur, callbackVars, outcome, got>>

\* The destructor, once no step is running: ctx_ goes first, the base class
\* closes the handle after it.
Destroy ==
  /\ pc = "user"
  /\ ctx = "alive"
  /\ ctx' = "destroyed"
  /\ handle' = "null"
  /\ bound' = FALSE
  /\ lost' = TRUE
  /\ UNCHANGED <<ctxVars, pc, cur, callbackVars, outcome, got>>

(***************************************************************************)
(* The WinHTTP thread: BasicAsioAsyncCallback.                             *)
(***************************************************************************)

\* What WinHTTP can report for the accepted call: it is cancelled only if the
\* handle it was made on is closed, by close() or by an open over it.
Reports ==
  {r \in ResultsOf(cur) :
     /\ r.ec # "invalid_handle"
     /\ r.ec = "operation_cancelled" => lost}

\* Faulty variant: REQUEST_ERROR completes no step that carries no length.
CompletesLenOpsOnly(r) == r.ec = NoError \/ ctxState \in LenOp

\* REQUEST_ERROR completes a step only in one of the states of its switch.
Completes(r) == r.ec = NoError \/ ctxState \in StepOp

CallbackEnter(r) ==
  /\ api
  /\ cb = "idle"
  /\ r \in Reports
  /\ api' = FALSE
  /\ cb' = IF Completes(r) THEN "ec" ELSE "idle"
  /\ cbRes' = r
  /\ outcome' = r
  /\ UNCHANGED <<handleVars, ctxVars, pc, cur, got>>

\* Faulty variant: step_complete sets the event first.
CallbackSignalsFirst ==
  /\ cb = "ec"
  /\ stepEc' = cbRes.ec
  /\ event' = TRUE
  /\ cb' = "len"
  /\ UNCHANGED <<handleVars, ctxState, stepLen, pc, cur, api, cbRes,
                 outcome, got>>

CallbackStoreEc ==
  /\ cb = "ec"
  /\ stepEc' = cbRes.ec
  /\ cb' = "len"
  /\ UNCHANGED <<handleVars, ctxState, event, stepLen, pc, cur, api, cbRes,
                 outcome, got>>

\* Faulty variant: the byte prepared in addition is counted as read.
CallbackStoreLenPlusOne ==
  /\ cb = "len"
  /\ stepLen' = cbRes.len + 1
  /\ cb' = "set"
  /\ UNCHANGED <<handleVars, ctxState, event, stepEc, pc, cur, api, cbRes,
                 outcome, got>>

CallbackStoreLen ==
  /\ cb = "len"
  /\ stepLen' = cbRes.len
  /\ cb' = "set"
  /\ UNCHANGED <<handleVars, ctxState, event, stepEc, pc, cur, api, cbRes,
                 outcome, got>>

CallbackSetEvent ==
  /\ cb = "set"
  /\ event' = TRUE
  /\ cb' = "idle"
  /\ UNCHANGED <<handleVars, ctxState, stepEc, stepLen, pc, cur, api, cbRes,
                 outcome, got>>

Callback ==
  \/ \E r \in Result : CallbackEnter(r)
  \/ CallbackStoreEc
  \/ CallbackStoreLen
  \/ CallbackSetEvent

\* A destroyed object has nothing left to do.
Terminated == ctx = "destroyed" /\ UNCHANGED vars

Next ==
  \/ ManagedOpen
  \/ \E o \in StepOp : Initiate(o)
  \/ ApiAccepted
  \/ ApiRefused
  \/ AsyncWait
  \/ WaitFires
  \/ RunHandler
  \/ Close
  \/ Destroy
  \/ Callback
  \/ Terminated

SafeSpec == Init /\ [][Next]_vars

\* The io thread goes on with a step it began, WinHTTP reports every call it
\* accepted and its callback runs to its end, the wait thread sees the event.
Fairness ==
  /\ WF_vars(ApiAccepted \/ ApiRefused)
  /\ WF_vars(AsyncWait)
  /\ WF_vars(WaitFires)
  /\ WF_vars(RunHandler)
  /\ WF_vars(Callback)

Spec == SafeSpec /\ Fairness

(***************************************************************************)
(* Properties.                                                             *)
(***************************************************************************)

\* The assertions of BasicAsioAsyncCallback: when a result for a step of one
\* kind arrives, the context is in the state of that kind, whatever the io
\* thread has done since the call, also if it has closed the handle or opened
\* another in its place (winhttp_asio.hpp:209-274).
CallbackStateMatches == (api \/ cb # "idle") => ctxState = cur

\* ctx_ outlives every use of it by WinHTTP: while a call is pending or the
\* callback still has a store to make, the context is not destroyed, although
\* user code may destroy the object as soon as a handler has run.
CallbackOnLiveContext == (api \/ cb # "idle") => ctx = "alive"

\* The one event carries no stale signal: whenever it is signalled while a
\* step runs, that very step has been settled and the context already holds
\* its whole result, so the handler can be run without another look.
EventMeansSettled ==
  event /\ pc # "user" =>
    /\ outcome # NoResult
    /\ stepEc = outcome.ec
    /\ stepLen = outcome.len
    /\ cb = "idle"

\* The detailed step keeps the promise of AsyncStep: one result per step,
\* handed unchanged to one handler, which eventually runs.
Step == INSTANCE AsyncStep
  WITH phase <- IF pc = "user" THEN "idle"
                ELSE IF outcome = NoResult THEN "pending" ELSE "settled",
       op <- cur
StepSafe == Step!SafeSpec
StepSpec == Step!Spec
=============================================================================
