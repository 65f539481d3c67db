------------------------------ MODULE AsyncStep ------------------------------
(***************************************************************************)
(* What one asynchronous step of a WinHTTP request handle promises to the  *)
(* code that starts it, whatever threads carry it out: a step is started   *)
(* when none is running, the platform settles it once with a result its    *)
(* kind can have, and that very result is handed to the handler, once.     *)
(* WinHttpRequest implements this; WinHttpExec and WinHttpStream rely on   *)
(* nothing else.                                                           *)
(***************************************************************************)
EXTENDS WinHttpDefs

VARIABLES
  phase,     \* "idle", "pending" or "settled"
  op,        \* the kind of the running step, or of the last one
  outcome,   \* what the platform reported for that step
  got        \* what the last handler was given

stepVars == <<phase, op, outcome, got>>

TypeOK ==
  /\ phase \in {"idle", "pending", "settled"}
  /\ op \in CtxState
  /\ outcome \in Result \cup {NoResult}
  /\ got \in Result \cup {NoResult}

Init ==
  /\ phase = "idle"
  /\ op = "idle"
  /\ outcome = NoResult
  /\ got = NoResult

\* An async_* member function is called.
Start(o) ==
  /\ phase = "idle"
  /\ phase' = "pending"
  /\ op' = o
  /\ outcome' = NoResult
  /\ UNCHANGED got

\* WinHTTP refuses the call, or reports its completion to the callback.
Settle(r) ==
  /\ phase = "pending"
  /\ r \in ResultsOf(op)
  /\ phase' = "settled"
  /\ outcome' = r
  /\ UNCHANGED <<op, got>>

\* The handler runs on the executor.
Deliver ==
  /\ phase = "settled"
  /\ phase' = "idle"
  /\ got' = outcome
  /\ UNCHANGED <<op, outcome>>

Next ==
  \/ \E o \in StepOp : Start(o)
  \/ \E r \in Result : Settle(r)
  \/ Deliver

SafeSpec == Init /\ [][Next]_stepVars

\* A started step is settled and its handler runs.
Fairness ==
  /\ WF_stepVars(\E r \in Result : Settle(r))
  /\ WF_stepVars(Deliver)

Spec == SafeSpec /\ Fairness
=============================================================================
