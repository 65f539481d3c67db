------------------------ MODULE WinHttpRequestProofs ------------------------
(***************************************************************************)
(* Proofs about WinHttpRequest, for every MaxLen.  The invariants that TLC *)
(* checks say what holds when the callback or the event is active; they    *)
(* are not inductive, because nothing in them says that a thread which has *)
(* not been asked for anything stays out of the way.  IInv does.           *)
(***************************************************************************)
EXTENDS WinHttpRequest, TLAPS

\* Between steps no thread of WinHTTP has any business with the context.
UserQuiet == pc = "user" => ~api /\ cb = "idle"

\* Only a context no step is using has been destroyed.
DestroyedQuiet == ctx = "destroyed" => pc = "user"

\* The context carries the kind of the running step.
StateIsCur == ctxState = cur /\ cur \in StepOp

\* After set_state and step_reset, before WinHTTP is called.
ResetClean ==
  pc = "reset" => ~api /\ cb = "idle" /\ ~event /\ outcome = NoResult
                  /\ StateIsCur

\* WinHTTP has accepted the call and not reported yet.
Pending == api /\ cb = "idle" /\ ~event /\ outcome = NoResult /\ StateIsCur

\* The callback is between its first and its last store.
Reporting ==
  /\ ~api
  /\ cb # "idle"
  /\ ~event
  /\ StateIsCur
  /\ cbRes \in Result
  /\ outcome = cbRes
  /\ outcome \in ResultsOf(cur)
  /\ cb \in {"len", "set"} => stepEc = cbRes.ec
  /\ cb = "set" => stepLen = cbRes.len

\* The result is in the context and the event is signalled.
Settled ==
  /\ ~api
  /\ cb = "idle"
  /\ event
  /\ outcome \in Result
  /\ outcome \in ResultsOf(cur)
  /\ stepEc = outcome.ec
  /\ stepLen = outcome.len

CalledPhases ==
  pc \in {"called", "waiting", "queued"} => Pending \/ Reporting \/ Settled

QueuedSettled == pc = "queued" => event

IInv ==
  /\ TypeOK
  /\ UserQuiet
  /\ DestroyedQuiet
  /\ ResetClean
  /\ CalledPhases
  /\ QueuedSettled

-----------------------------------------------------------------------------
(* Results.                                                                *)

\* A result of any kind of step is a Result, and it never is the absence of
\* one: async_op and async_len_op always have something to hand on.
LEMMA ResultFacts ==
  ASSUME NEW o
  PROVE  /\ ResultsOf(o) \subseteq Result
         /\ NoResult \notin Result
  BY MaxLenAssumption
  DEF ResultsOf, Result, NoResult, Failure, Success, ErrorCode, NoError

\* The two steps that report only an error code report no length, so the
\* handler of async_op loses nothing.
LEMMA NoLength ==
  ASSUME NEW o, o \notin LenOp, NEW r \in ResultsOf(o)
  PROVE  r.len = 0
  BY DEF ResultsOf, Failure, Success

\* A refused call fails with an error code and a length of zero.
LEMMA RefusalFacts ==
  ASSUME NEW o
  PROVE  /\ Failure(RefusalCode) \in ResultsOf(o)
         /\ Failure(RefusalCode) \in Result
         /\ RefusalCode \in ErrorCode
         /\ Failure(RefusalCode).ec = RefusalCode
         /\ Failure(RefusalCode).len = 0
<1>1. RefusalCode \in ErrorCode
  BY DEF RefusalCode, ErrorCode
<1>2. Failure(RefusalCode) \in ResultsOf(o)
  BY <1>1 DEF ResultsOf
<1> QED
  BY <1>1, <1>2, ResultFacts DEF Failure

-----------------------------------------------------------------------------
(* The inductive invariant.                                                *)

LEMMA InitIInv == Init => IInv
<1> SUFFICES ASSUME Init
             PROVE  IInv
  OBVIOUS
<1>1. stepLen \in 0 .. MaxLen
  BY MaxLenAssumption DEF Init
<1>2. TypeOK
  BY <1>1 DEF Init, TypeOK, CtxState
<1> QED
  BY <1>2 DEF Init, IInv, UserQuiet, DestroyedQuiet, ResetClean,
              CalledPhases, QueuedSettled

LEMMA IInvNext == IInv /\ [Next]_vars => IInv'
<1> SUFFICES ASSUME IInv, [Next]_vars
             PROVE  IInv'
  OBVIOUS
<1> USE DEF IInv, handleVars, ctxVars, callbackVars
<1>1. CASE ManagedOpen
  <2>1. bound' \in BOOLEAN /\ lost' \in BOOLEAN
    BY <1>1, Zenon DEF ManagedOpen, TypeOK
  <2>2. handle' \in {"null", "bare", "managed"}
    BY <1>1 DEF ManagedOpen, TypeOK
  <2>3. TypeOK'
    BY <1>1, <2>1, <2>2 DEF ManagedOpen, TypeOK
  <2> QED
    BY <1>1, <2>3
    DEF ManagedOpen, UserQuiet, DestroyedQuiet, ResetClean, CalledPhases,
        QueuedSettled, Pending, Reporting, Settled, StateIsCur
<1>2. ASSUME NEW o \in StepOp, Initiate(o)
      PROVE  IInv'
  <2>1. stepLen' \in 0 .. MaxLen
    BY <1>2, MaxLenAssumption DEF Initiate, StepReset
  <2>3. TypeOK'
    BY <1>2, <2>1 DEF Initiate, StepReset, TypeOK, CtxState
  <2>2. ResetClean'
    BY <1>2 DEF Initiate, StepReset, ResetClean, StateIsCur, UserQuiet
  <2> QED
    BY <1>2, <2>2, <2>3
    DEF Initiate, UserQuiet, DestroyedQuiet, CalledPhases, QueuedSettled
<1>3. CASE ApiAccepted
  <2>1. TypeOK'
    BY <1>3 DEF ApiAccepted, TypeOK
  <2>2. Pending'
    BY <1>3 DEF ApiAccepted, Pending, ResetClean, StateIsCur
  <2> QED
    BY <1>3, <2>1, <2>2
    DEF ApiAccepted, UserQuiet, DestroyedQuiet, ResetClean, CalledPhases,
        QueuedSettled
<1>4. CASE ApiRefused
  <2>1. TypeOK'
    BY <1>4, RefusalFacts, MaxLenAssumption
    DEF ApiRefused, StepComplete, TypeOK, CtxState
  <2>2. Settled'
    BY <1>4, RefusalFacts
    DEF ApiRefused, StepComplete, Settled, ResetClean
  <2> QED
    BY <1>4, <2>1, <2>2
    DEF ApiRefused, UserQuiet, DestroyedQuiet, ResetClean, CalledPhases,
        QueuedSettled
<1>5. CASE AsyncWait
  BY <1>5 DEF AsyncWait, TypeOK, UserQuiet, DestroyedQuiet, ResetClean,
              CalledPhases, QueuedSettled, Pending, Reporting, Settled,
              StateIsCur
<1>6. CASE WaitFires
  BY <1>6 DEF WaitFires, TypeOK, UserQuiet, DestroyedQuiet, ResetClean,
              CalledPhases, QueuedSettled, Pending, Reporting, Settled,
              StateIsCur
<1>7. CASE RunHandler
  <2>1. Settled
    BY <1>7 DEF RunHandler, CalledPhases, QueuedSettled, Pending, Reporting
  <2>2. TypeOK'
    BY <1>7, MaxLenAssumption DEF RunHandler, TypeOK, Result
  <2> QED
    BY <1>7, <2>1, <2>2
    DEF RunHandler, Settled, UserQuiet, DestroyedQuiet, ResetClean,
        CalledPhases, QueuedSettled
<1>8. CASE Close
  BY <1>8 DEF Close, TypeOK, UserQuiet, DestroyedQuiet, ResetClean,
              CalledPhases, QueuedSettled, Pending, Reporting, Settled,
              StateIsCur
<1>9. CASE Destroy
  BY <1>9 DEF Destroy, TypeOK, UserQuiet, DestroyedQuiet, ResetClean,
              CalledPhases, QueuedSettled
<1>10. CASE Callback
  <2>1. ASSUME NEW r \in Result, CallbackEnter(r)
        PROVE  IInv'
    <3>1. Pending /\ pc \in {"called", "waiting"}
      BY <2>1 DEF CallbackEnter, TypeOK, UserQuiet, ResetClean,
                  CalledPhases, QueuedSettled, Pending, Reporting, Settled
    <3>2. cb' = "ec" /\ r \in ResultsOf(cur)
      BY <2>1, <3>1 DEF CallbackEnter, Completes, Reports, Pending,
                        StateIsCur
    <3>3. TypeOK'
      BY <2>1, <3>2 DEF CallbackEnter, TypeOK
    <3>4. Reporting'
      BY <2>1, <3>1, <3>2 DEF CallbackEnter, Reporting, Pending, StateIsCur
    <3> QED
      BY <2>1, <3>1, <3>3, <3>4
      DEF CallbackEnter, UserQuiet, DestroyedQuiet, ResetClean,
          CalledPhases, QueuedSettled
  <2>2. ASSUME cb # "idle"
        PROVE  Reporting /\ pc \in {"called", "waiting"}
    BY <2>2 DEF TypeOK, UserQuiet, ResetClean, CalledPhases, QueuedSettled,
                Pending, Reporting, Settled
  <2>3. CASE CallbackStoreEc
    <3>1. TypeOK'
      BY <2>2, <2>3 DEF CallbackStoreEc, TypeOK, Reporting, Result
    <3>2. Reporting'
      BY <2>2, <2>3 DEF CallbackStoreEc, Reporting, StateIsCur
    <3> QED
      BY <2>2, <2>3, <3>1, <3>2
      DEF CallbackStoreEc, UserQuiet, DestroyedQuiet, ResetClean,
          CalledPhases, QueuedSettled
  <2>4. CASE CallbackStoreLen
    <3>1. TypeOK'
      BY <2>2, <2>4 DEF CallbackStoreLen, TypeOK, Reporting, Result
    <3>2. Reporting'
      BY <2>2, <2>4 DEF CallbackStoreLen, Reporting, StateIsCur
    <3> QED
      BY <2>2, <2>4, <3>1, <3>2
      DEF CallbackStoreLen, UserQuiet, DestroyedQuiet, ResetClean,
          CalledPhases, QueuedSettled
  <2>5. CASE CallbackSetEvent
    <3>1. TypeOK'
      BY <2>5 DEF CallbackSetEvent, TypeOK
    <3>2. Settled'
      BY <2>2, <2>5 DEF CallbackSetEvent, Reporting, Settled
    <3> QED
      BY <2>2, <2>5, <3>1, <3>2
      DEF CallbackSetEvent, UserQuiet, DestroyedQuiet, ResetClean,
          CalledPhases, QueuedSettled
  <2> QED
    BY <1>10, <2>1, <2>3, <2>4, <2>5 DEF Callback
<1>11. CASE UNCHANGED vars
  BY <1>11 DEF vars, TypeOK, UserQuiet, DestroyedQuiet, ResetClean,
               CalledPhases, QueuedSettled, Pending, Reporting, Settled,
               StateIsCur
<1> QED
  BY <1>1, <1>2, <1>3, <1>4, <1>5, <1>6, <1>7, <1>8, <1>9, <1>10, <1>11
  DEF Next, Terminated

\* IInv holds in every reachable state.
LEMMA IInvInvariant == SafeSpec => []IInv
  BY InitIInv, IInvNext, PTL DEF SafeSpec

-----------------------------------------------------------------------------
(* What follows from it.                                                   *)

\* Every variable keeps its type; in particular step_len stays within the
\* longest transfer, whichever thread stored it.
THEOREM TypeCorrect == SafeSpec => []TypeOK
  BY IInvInvariant, PTL DEF IInv

\* The BOOST_ASSERTs of BasicAsioAsyncCallback never fail: a report arrives
\* in the state of the kind of step it is for.
THEOREM CallbackStateMatchesThm == SafeSpec => []CallbackStateMatches
<1>1. IInv => CallbackStateMatches
  BY DEF IInv, TypeOK, CallbackStateMatches, UserQuiet, ResetClean,
         CalledPhases, Pending, Reporting, Settled, StateIsCur
<1> QED
  BY <1>1, IInvInvariant, PTL

\* No thread of WinHTTP touches ctx_ after the object is destroyed, if the
\* object is destroyed only when no handler is outstanding.
THEOREM CallbackOnLiveContextThm == SafeSpec => []CallbackOnLiveContext
<1>1. IInv => CallbackOnLiveContext
  BY DEF IInv, TypeOK, CallbackOnLiveContext, UserQuiet, DestroyedQuiet
<1> QED
  BY <1>1, IInvInvariant, PTL

\* A signalled event always belongs to the running step, whose whole result
\* is in the context: step_reset leaves no stale signal, and step_complete
\* signals last.
THEOREM EventMeansSettledThm == SafeSpec => []EventMeansSettled
<1>1. IInv => EventMeansSettled
  <2> SUFFICES ASSUME IInv, event, pc # "user"
               PROVE  /\ outcome # NoResult
                      /\ stepEc = outcome.ec
                      /\ stepLen = outcome.len
                      /\ cb = "idle"
    BY DEF EventMeansSettled
  <2>1. Settled
    BY DEF IInv, TypeOK, ResetClean, CalledPhases, Pending, Reporting
  <2> QED
    BY <2>1, ResultFacts DEF Settled
<1> QED
  BY <1>1, IInvInvariant, PTL

\* The abstract step speaks of the same kinds and results.
LEMMA StepVocabulary ==
  /\ Step!NoResult = NoResult
  /\ Step!Result = Result
  /\ Step!StepOp = StepOp
  /\ \A o : Step!ResultsOf(o) = ResultsOf(o)
  BY DEF Step!NoResult, NoResult, Step!Result, Result, Step!StepOp, StepOp,
         Step!ResultsOf, ResultsOf, Step!ErrorCode, ErrorCode, Step!NoError,
         NoError, Step!Failure, Failure, Step!Success, Success, Step!LenOp,
         LenOp

\* A step of the detailed specification starts, settles or delivers the
\* abstract step, or leaves it as it is.
LEMMA StepRefines ==
  IInv /\ [Next]_vars => [Step!Next]_(Step!stepVars)
<1> SUFFICES ASSUME IInv, [Next]_vars
             PROVE  [Step!Next]_(Step!stepVars)
  OBVIOUS
<1> USE DEF IInv, handleVars, ctxVars, callbackVars
<1>1. ASSUME NEW o \in StepOp, Initiate(o)
      PROVE  Step!Start(o)
  BY <1>1, StepVocabulary DEF Initiate, Step!Start
<1>2. CASE ApiRefused
  <2>1. Step!Settle(Failure(RefusalCode))
    BY <1>2, RefusalFacts, ResultFacts, StepVocabulary
    DEF ApiRefused, ResetClean, Step!Settle
  <2> QED
    BY <2>1, RefusalFacts, StepVocabulary DEF Step!Next
<1>3. CASE RunHandler
  <2>1. Settled
    BY <1>3 DEF RunHandler, CalledPhases, QueuedSettled, Pending, Reporting
  <2>2. got' = outcome
    <3>1. outcome = [ec |-> outcome.ec, len |-> outcome.len]
      BY <2>1 DEF Settled, Result
    <3> QED
      BY <1>3, <2>1, <3>1, NoLength DEF RunHandler, Settled
  <2>3. outcome # NoResult
    BY <2>1, ResultFacts DEF Settled
  <2>4. Step!Deliver
    BY <1>3, <2>2, <2>3 DEF RunHandler, Step!Deliver
  <2> QED
    BY <2>4 DEF Step!Next
<1>4. ASSUME NEW r \in Result, CallbackEnter(r)
      PROVE  Step!Settle(r)
  <2>1. Pending /\ pc \in {"called", "waiting"}
    BY <1>4 DEF CallbackEnter, TypeOK, UserQuiet, ResetClean,
                CalledPhases, QueuedSettled, Pending, Reporting, Settled
  <2> QED
    BY <1>4, <2>1, ResultFacts, StepVocabulary
    DEF CallbackEnter, Pending, Reports, Step!Settle
<1>5. ASSUME UNCHANGED <<cur, outcome, got>>,
             pc = "user" <=> pc' = "user"
      PROVE  UNCHANGED Step!stepVars
  BY <1>5 DEF Step!stepVars
<1>6. CASE ManagedOpen \/ Close \/ Destroy \/ UNCHANGED vars
  BY <1>5, <1>6 DEF ManagedOpen, Close, Destroy, vars
<1>7. CASE ApiAccepted \/ AsyncWait \/ WaitFires
  BY <1>5, <1>7 DEF ApiAccepted, AsyncWait, WaitFires
<1>8. CASE CallbackStoreEc \/ CallbackStoreLen \/ CallbackSetEvent
  BY <1>5, <1>8 DEF CallbackStoreEc, CallbackStoreLen, CallbackSetEvent
<1> QED
  BY <1>1, <1>2, <1>3, <1>4, <1>6, <1>7, <1>8, StepVocabulary
  DEF Next, Callback, Terminated, Step!Next

\* The three threads together keep the safety part of the promise of
\* AsyncStep: each step gets one result, of its own kind, and exactly that
\* result is handed to exactly one handler.
THEOREM StepRefinement == SafeSpec => StepSafe
<1>1. Init => Step!Init
  BY StepVocabulary DEF Init, Step!Init
<1> QED
  BY <1>1, StepRefines, IInvInvariant, PTL
  DEF SafeSpec, StepSafe, Step!SafeSpec
=============================================================================
