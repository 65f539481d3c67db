-------------------------- MODULE WinHttpExecProofs --------------------------
(***************************************************************************)
(* Proofs about WinHttpExec, for bodies and transfers of any length.  What *)
(* a read leaves in the prepared memory is only known together with how    *)
(* the read came about: how much was announced, what was asked for, which  *)
(* part of the body WinHTTP wrote.  IInv follows a read from the query to  *)
(* the commit.                                                             *)
(***************************************************************************)
EXTENDS WinHttpExec, ByteSeqsProofs

(***************************************************************************)
(* The invariant.                                                          *)
(***************************************************************************)

\* The states of the two nested operations say which step is running.
AtStep ==
  \/ execState = "send" /\ op = "send_request"
  \/ execState = "receive_response" /\ op = "headers_available"
  \/ execState = "done" /\ bodyState = "query_data" /\ op = "data_available"
  \/ execState = "done" /\ bodyState = "read_data" /\ op = "read_complete"

\* The body operation has completed and the outer one has not been told: no
\* step is running, and what is passed on is the end of the last one.
HandedOver ==
  /\ execState = "done"
  /\ phase = "idle"
  /\ resumed = FALSE
  /\ handed.ec = got.ec
  /\ handed.ec = NoError => op = "read_complete" /\ got.len = 0

\* A running call is in one step, which WinHTTP has or whose handler was
\* entered, or between its two operations; otherwise there is none.
OneStep ==
  /\ status = "running" /\ handed = NoResult =>
       AtStep /\ (resumed <=> phase = "idle")
  /\ handed # NoResult => status = "running" /\ HandedOver
  /\ status # "running" => phase = "idle" /\ resumed = FALSE

\* The step has been reported, and what was reported.
Over == status = "running" /\ phase # "pending"
Reported == IF phase = "settled" THEN outcome ELSE got

ReportFits == Over => Reported \in ResultsOf(op)

BufferIsBody == buffer = Bytes(0, Len(buffer))

\* Outside of a read, what was handed out is in the buffer.
NoneInFlight ==
  status = "running" /\ op # "read_complete" => consumed = Len(buffer)

\* An announcement is of bytes that are there, and of none only at the end.
QueryFits ==
  Over /\ op = "data_available" /\ Reported.ec = NoError =>
    /\ Reported.len <= body - consumed
    /\ Reported.len = 0 => consumed = body

\* A read that WinHTTP has: it was asked for what was announced.
ReadAsked ==
  status = "running" /\ op = "read_complete" /\ phase = "pending" =>
    /\ consumed = Len(buffer)
    /\ Len(area) = asked + 1
    /\ asked <= body - consumed
    /\ asked = 0 => consumed = body

\* A read that is over: the memory begins with the next bytes of the body.
ReadFits ==
  Over /\ op = "read_complete" =>
    /\ consumed = Len(buffer) + Reported.len
    /\ SubSeq(area, 1, Reported.len) = Bytes(Len(buffer), consumed)
    /\ Reported.ec = NoError /\ Reported.len = 0 => consumed = body

\* Where the code of what failed is on its way to the caller.
FaultKnown ==
  /\ status = "running" =>
       fault = IF phase = "pending" THEN NoError ELSE Reported.ec
  /\ status = "posted" => fault = "failed"
  /\ status = "idle" /\ result # "none" => result = fault

IInv ==
  /\ TypeOK
  /\ OneStep
  /\ ReportFits
  /\ BufferIsBody
  /\ NoneInFlight
  /\ QueryFits
  /\ ReadAsked
  /\ ReadFits
  /\ FaultKnown


\* AsyncStep is instantiated with the vocabulary of this module.
LEMMA StepVocabulary ==
  /\ Step!CtxState = CtxState
  /\ Step!Result = Result
  /\ Step!NoResult = NoResult
  /\ \A o : Step!ResultsOf(o) = ResultsOf(o)
  BY DEF Step!CtxState, Step!StepOp, Step!Result, Step!ErrorCode, Step!NoError,
         Step!NoResult, Step!ResultsOf, Step!Failure, Step!Success, Step!LenOp,
         CtxState, StepOp, Result, ErrorCode, NoError, NoResult, ResultsOf,
         Failure, Success, LenOp

\* A result is not the absence of one.
LEMMA NoResultIsNone == NoResult \notin Result
  BY DEF NoResult, Result, ErrorCode, NoError

\* Nothing has been asked for.
LEMMA InitInvariant == Init => IInv
<1> SUFFICES ASSUME Init
             PROVE  IInv
  OBVIOUS
<1>1. TypeOK
  <2>1. /\ area \in Seq(0 .. MaxBody)
        /\ sent \in Seq(1 .. MaxBody)
        /\ buffer \in Seq(0 .. MaxBody)
    BY EmptySeq DEF Init, TransportInit
  <2>2. Step!TypeOK
    BY StepVocabulary DEF Init, TransportInit, Step!Init, Step!TypeOK, CtxState
  <2>3. /\ body \in 0 .. MaxBody /\ consumed \in 0 .. body
        /\ asked \in 0 .. MaxBody + 1 /\ asked <= MaxLen
    BY MaxLenAssumption, MaxBodyAssumption DEF Init, TransportInit
  <2>4. resumed \in BOOLEAN
    BY DEF Init, TransportInit
  <2> QED
    BY <2>1, <2>2, <2>3, <2>4
    DEF Init, TypeOK, TransportTypeOK
<1>2. buffer = <<>> /\ Len(buffer) = 0 /\ status = "idle"
  BY EmptySeq DEF Init
<1>3. BufferIsBody
  BY <1>2, BytesNone DEF BufferIsBody
<1> QED
  BY <1>1, <1>2, <1>3
  DEF Init, TransportInit, Step!Init, IInv, OneStep, Over, ReportFits,
      NoneInFlight, QueryFits, ReadAsked, ReadFits, FaultKnown

\* A new call begins with an empty buffer.
LEMMA NewCallInvariant ==
  ASSUME IInv, ExecFails \/ ExecStarts
  PROVE  IInv'
<1>1. NewCall
  BY DEF ExecFails, ExecStarts
<1>2. /\ buffer' = <<>> /\ Len(buffer') = 0 /\ buffer' \in Seq(0 .. MaxBody)
      /\ sent' \in Seq(1 .. MaxBody)
  BY <1>1, EmptySeq DEF NewCall, NewResponse
<1>3. BufferIsBody'
  BY <1>2, BytesNone DEF BufferIsBody
<1>4. CASE ExecFails
  <2>1. TypeOK'
    BY <1>1, <1>2, <1>4, MaxBodyAssumption
    DEF IInv, TypeOK, TransportTypeOK, Step!TypeOK, ExecFails, NewCall,
        NewResponse, ErrorCode
  <2> QED
    BY <1>1, <1>3, <1>4, <2>1
    DEF IInv, OneStep, ExecFails, NewCall, Over, ReportFits, NoneInFlight,
        QueryFits, ReadAsked, ReadFits, FaultKnown
<1>5. CASE ExecStarts
  <2>1. TypeOK'
    BY <1>1, <1>2, <1>5, MaxBodyAssumption, StepVocabulary
    DEF IInv, TypeOK, TransportTypeOK, Step!TypeOK, ExecStarts, NewCall,
        NewResponse, Step!Start, CtxState, StepOp, NoResult
  <2>2. /\ OneStep'
        /\ phase' = "pending" /\ op' = "send_request"
        /\ consumed' = Len(buffer') /\ fault' = NoError
        /\ status' = "running"
    BY <1>1, <1>2, <1>5
    DEF IInv, OneStep, AtStep, ExecStarts, NewCall, NewResponse, Step!Start
  <2> QED
    BY <1>3, <2>1, <2>2
    DEF IInv, Over, ReportFits, NoneInFlight, QueryFits, ReadAsked, ReadFits,
        FaultKnown
<1> QED
  BY <1>4, <1>5

\* A handler that is entered is that of a step of the running call, and
\* nothing failed before that step.
LEMMA EnteredReported ==
  ASSUME IInv, resumed
  PROVE  /\ status = "running" /\ phase = "idle" /\ handed = NoResult
         /\ AtStep /\ Over /\ Reported = got /\ fault = got.ec
<1>1. status = "running" /\ phase = "idle" /\ handed = NoResult /\ AtStep
  BY DEF IInv, OneStep, HandedOver
<1> QED
  BY <1>1 DEF Over, Reported, IInv, FaultKnown

\* The outer operator() is run with what the last step reported, whether that
\* was a step of its own or of the body operation.
LEMMA ExecRunsReported ==
  ASSUME IInv, NEW r \in Result, ExecRuns(r)
  PROVE  /\ status = "running" /\ phase = "idle" /\ Over
         /\ Reported = got /\ r.ec = got.ec /\ fault = r.ec
         /\ execState = "done" /\ r.ec = NoError =>
              op = "read_complete" /\ got.len = 0
<1>1. CASE execState = "done"
  <2>1. handed # NoResult /\ r = handed
    BY <1>1 DEF ExecRuns
  <2>2. status = "running" /\ HandedOver
    BY <2>1 DEF IInv, OneStep, TypeOK
  <2> QED
    BY <2>1, <2>2 DEF HandedOver, Over, Reported, IInv, FaultKnown
<1>2. CASE execState # "done"
  <2>1. resumed /\ r = got
    BY <1>2 DEF ExecRuns
  <2> QED
    BY <1>2, <2>1, EnteredReported
<1> QED
  BY <1>1, <1>2

\* A call ends, with the code of what failed or with success.
LEMMA EndInvariant ==
  ASSUME IInv, RunPosted \/ OpFails \/ OpDone
  PROVE  IInv'
<1>1. /\ status' = "idle" /\ resumed' = FALSE /\ handed' = NoResult
      /\ phase' = "idle"
      /\ result' = fault
      /\ UNCHANGED <<op, outcome, got, body, consumed, asked, area,
                     sent, execState, bodyState, buffer, fault>>
  <2>1. CASE RunPosted
    BY <2>1 DEF RunPosted, transportVars, IInv, OneStep, FaultKnown
  <2>2. CASE OpFails \/ OpDone
    <3>1. PICK r \in Result : ExecRuns(r) /\ Complete(r.ec)
      BY <2>2 DEF OpFails, OpDone
    <3>2. phase = "idle" /\ fault = r.ec
      BY <3>1, ExecRunsReported
    <3> QED
      BY <3>1, <3>2 DEF Complete, stepVars
  <2> QED
    BY <2>1, <2>2
<1>2. TypeOK'
  <2>1. result' \in ErrorCode \cup {NoError, "none"} /\ fault' \in ErrorCode \cup {NoError}
    BY <1>1 DEF IInv, TypeOK
  <2> QED
    BY <1>1, <2>1 DEF IInv, TypeOK, TransportTypeOK, Step!TypeOK
<1> QED
  BY <1>1, <1>2
  DEF IInv, OneStep, BufferIsBody, Over, ReportFits, NoneInFlight, QueryFits,
      ReadAsked, ReadFits, FaultKnown

\* The body operation completes: nothing else changes.
LEMMA HandInvariant ==
  ASSUME IInv, BodyFails \/ BodyEnds
  PROVE  IInv'
<1>1. /\ resumed /\ execState = "done"
      /\ resumed' = FALSE
      /\ UNCHANGED <<phase, op, outcome, got, body, consumed, asked, area,
                     sent, status, execState, buffer, result, fault>>
  BY DEF BodyFails, BodyEnds, BodyResumes, Resumes, stepVars
<1>2. status = "running" /\ handed = NoResult /\ phase = "idle" /\ AtStep
  BY <1>1, EnteredReported
<1>3. got \in Result /\ Over /\ Reported = got
  <2>1. Over /\ Reported = got
    BY <1>1, EnteredReported
  <2>2. got \in ResultsOf(op)
    BY <2>1 DEF IInv, ReportFits
  <2>3. 0 \in 0 .. MaxLen
    BY MaxLenAssumption
  <2>4. ResultsOf(op) \subseteq Result
    BY <2>3 DEF ResultsOf, Result, Failure, Success
  <2> QED
    BY <2>1, <2>2, <2>4
<1>4. /\ handed' \in Result
      /\ handed'.ec = got.ec
      /\ handed'.ec = NoError => op = "read_complete" /\ got.len = 0
      /\ bodyState' \in {"idle", "query_data", "read_data", "done"}
  <2>1. CASE BodyFails
    BY <1>3, <2>1 DEF BodyFails, BodyHands, IInv, TypeOK
  <2>2. CASE BodyEnds
    <3>1. op = "read_complete" /\ got.len = 0 /\ got.ec = NoError
      BY <1>2, <2>2 DEF BodyEnds, BodyResumes, Resumes, AtStep
    <3>2. handed' = Success(0) /\ bodyState' = "done"
      BY <2>2 DEF BodyEnds, BodyHands
    <3>3. 0 \in 0 .. MaxLen
      BY MaxLenAssumption
    <3> QED
      BY <3>1, <3>2, <3>3 DEF Success, Result
  <2> QED
    BY <2>1, <2>2
<1>5. OneStep'
  BY <1>1, <1>2, <1>4, NoResultIsNone DEF OneStep, HandedOver
<1>6. TypeOK'
  BY <1>1, <1>4 DEF IInv, TypeOK, TransportTypeOK, Step!TypeOK
<1> QED
  BY <1>1, <1>2, <1>5, <1>6
  DEF IInv, BufferIsBody, Over, Reported, ReportFits, NoneInFlight, QueryFits,
      ReadAsked, ReadFits, FaultKnown

\* The handler of one step starts the next, and nothing is in flight.
LEMMA NextStepInvariant ==
  ASSUME IInv, OpSent \/ OpReceived
  PROVE  IInv'
<1>1. /\ status = "running" /\ consumed = Len(buffer)
      /\ status' = status
      /\ phase' = "pending" /\ resumed' = FALSE
      /\ AtStep' /\ op' # "read_complete"
      /\ handed' = NoResult /\ fault' = NoError
      /\ UNCHANGED <<got, body, consumed, asked, area, sent, buffer, result>>
  BY EnteredReported
  DEF IInv, AtStep, NoneInFlight, OpSent, OpReceived, Resumes, Start, Step!Start
<1>2. TypeOK'
  BY <1>1, StepVocabulary
  DEF IInv, TypeOK, TransportTypeOK, Step!TypeOK, OpSent, OpReceived, Start,
      Step!Start, CtxState, StepOp, NoResult
<1> QED
  BY <1>1, <1>2
  DEF IInv, OneStep, BufferIsBody, Over, ReportFits, NoneInFlight, QueryFits,
      ReadAsked, ReadFits, FaultKnown

\* The read is asked for what was announced, in memory of one byte more
\* (winhttp_asio.hpp:494-500).
LEMMA QueriedInvariant ==
  ASSUME IInv, BodyQueried
  PROVE  IInv'
<1>1. /\ status = "running" /\ op = "data_available" /\ Over
      /\ Reported = got /\ got.ec = NoError
      /\ handed = NoResult /\ fault = NoError
  BY EnteredReported DEF AtStep, BodyQueried, BodyResumes, Resumes
<1>2. /\ got.len \in Nat /\ got.len <= MaxLen
      /\ got.len <= body - consumed
      /\ got.len = 0 => consumed = body
      /\ consumed = Len(buffer)
  <2>1. got \in ResultsOf(op)
    BY <1>1 DEF IInv, ReportFits
  <2>2. got.len \in 0 .. MaxLen
    BY <1>1, <2>1, MaxLenAssumption
    DEF ResultsOf, Failure, Success, LenOp
  <2> QED
    BY <1>1, <2>2, MaxLenAssumption DEF IInv, QueryFits, NoneInFlight
<1>3. /\ area' \in Seq(0 .. MaxBody)
      /\ Len(area') = got.len + 1
  <2>1. area' = Fresh(got.len + 1)
    BY DEF BodyQueried, StartRead
  <2>2. Fresh(got.len + 1) \in Seq({0}) /\ Len(Fresh(got.len + 1)) = got.len + 1
    <3>1. PICK k \in Nat : k = got.len + 1
      BY <1>2
    <3>2. Fresh(k) \in Seq({0}) /\ Len(Fresh(k)) = k
      BY FreshSeq
    <3> QED
      BY <3>1, <3>2
  <2>3. {0} \subseteq 0 .. MaxBody
    BY MaxBodyAssumption
  <2> QED
    BY <2>1, <2>2, <2>3, SeqMonotonic
<1>4. /\ status' = "running" /\ op' = "read_complete" /\ phase' = "pending"
      /\ resumed' = FALSE /\ asked' = got.len
      /\ bodyState' = "read_data" /\ execState' = "done"
      /\ outcome' = NoResult /\ handed' = NoResult /\ fault' = NoError
      /\ UNCHANGED <<got, body, consumed, sent, buffer, result>>
  BY <1>1, StepVocabulary DEF BodyQueried, BodyResumes, Resumes, StartRead, Step!Start
<1>5. TypeOK'
  <2>1. asked' \in 0 .. MaxBody + 1 /\ asked' <= MaxLen
    BY <1>2, <1>4, MaxBodyAssumption
    DEF IInv, TypeOK, TransportTypeOK
  <2> QED
    BY <1>3, <1>4, <2>1, StepVocabulary
    DEF IInv, TypeOK, TransportTypeOK, Step!TypeOK, CtxState, StepOp
<1> QED
  BY <1>2, <1>3, <1>4, <1>5
  DEF IInv, OneStep, AtStep, BufferIsBody, Over, ReportFits, NoneInFlight,
      QueryFits, ReadAsked, ReadFits, FaultKnown

\* commit(len) joins the bytes that were read to those before them.
LEMMA ReadInvariant ==
  ASSUME IInv, BodyRead
  PROVE  IInv'
<1>1. /\ status = "running" /\ op = "read_complete" /\ Over
      /\ Reported = got /\ got.ec = NoError
      /\ handed = NoResult /\ fault = NoError
  BY EnteredReported DEF AtStep, BodyRead, BodyResumes, Resumes
<1>2. /\ Len(buffer) \in Nat /\ consumed \in Nat /\ Len(buffer) <= consumed
      /\ consumed <= MaxBody
      /\ SubSeq(area, 1, got.len) = Bytes(Len(buffer), consumed)
  <2>1. got \in ResultsOf(op)
    BY <1>1 DEF IInv, ReportFits
  <2>2. got.len \in 0 .. MaxLen
    BY <1>1, <2>1, MaxLenAssumption DEF ResultsOf, Failure, Success, LenOp
  <2>3. Len(buffer) \in Nat
    BY DEF IInv, TypeOK
  <2>4. consumed \in Nat /\ consumed <= MaxBody
    BY MaxBodyAssumption DEF IInv, TypeOK, TransportTypeOK
  <2>5. /\ consumed = Len(buffer) + got.len
        /\ SubSeq(area, 1, got.len) = Bytes(Len(buffer), consumed)
    BY <1>1 DEF IInv, ReadFits
  <2> QED
    BY <2>2, <2>3, <2>4, <2>5
<1>3. buffer' = Bytes(0, consumed)
  <2>1. buffer' = Bytes(0, Len(buffer)) \o Bytes(Len(buffer), consumed)
    BY <1>2 DEF IInv, BufferIsBody, BodyRead, Committed
  <2>2. 0 \in Nat /\ 0 <= Len(buffer) /\ Len(buffer) \in Nat /\ consumed \in Nat
        /\ Len(buffer) <= consumed
    BY <1>2
  <2> QED
    BY <2>1, <2>2, BytesJoin
<1>4. Len(buffer') = consumed /\ buffer' \in Seq(0 .. MaxBody)
  <2>1. Bytes(0, consumed) \in Seq(1 .. consumed) /\ Len(Bytes(0, consumed)) = consumed
    BY <1>2, BytesSeq
  <2>2. 1 .. consumed \subseteq 0 .. MaxBody
    BY <1>2, MaxBodyAssumption
  <2> QED
    BY <1>3, <2>1, <2>2, SeqMonotonic
<1>5. /\ status' = "running" /\ op' = "data_available" /\ phase' = "pending"
      /\ resumed' = FALSE /\ outcome' = NoResult
      /\ bodyState' = "query_data" /\ execState' = "done"
      /\ handed' = NoResult /\ fault' = NoError
      /\ UNCHANGED <<got, body, consumed, asked, area, sent, result>>
  BY <1>1, StepVocabulary
  DEF BodyRead, BodyResumes, Resumes, Start, Step!Start
<1>6. TypeOK'
  BY <1>4, <1>5, StepVocabulary
  DEF IInv, TypeOK, TransportTypeOK, Step!TypeOK, CtxState, StepOp
<1> QED
  BY <1>3, <1>4, <1>5, <1>6
  DEF IInv, OneStep, AtStep, BufferIsBody, Over, ReportFits, NoneInFlight,
      QueryFits, ReadAsked, ReadFits, FaultKnown

\* What a step of kind o reports: no length with an error.
LEMMA ResultsOfShape ==
  ASSUME NEW o, NEW r \in ResultsOf(o)
  PROVE  /\ r \in Result
         /\ r.ec # NoError => r.len = 0
<1>1. 0 \in 0 .. MaxLen
  BY MaxLenAssumption
<1>2. CASE \E e \in ErrorCode : r = Failure(e)
  BY <1>1, <1>2 DEF Failure, Result
<1>3. CASE \E n \in 0 .. MaxLen : r = Success(n)
  BY <1>3 DEF Success, Result
<1> QED
  BY <1>1, <1>2, <1>3 DEF ResultsOf

\* WinHTTP writes inside the prepared memory, the next bytes of the body.
SettlesWith(r) ==
  /\ fault' = IF fault = NoError THEN r.ec ELSE fault
  /\ UNCHANGED <<status, execState, bodyState, buffer, handed, result>>

LEMMA SettleInvariant ==
  ASSUME IInv, NEW r \in Result, Settle(r), SettlesWith(r)
  PROVE  IInv'
<1>1. /\ phase = "pending" /\ phase' = "settled" /\ outcome' = r
      /\ r \in ResultsOf(op)
      /\ UNCHANGED <<op, got, body, asked, resumed, status, execState,
                     bodyState, buffer, handed, result>>
  BY StepVocabulary DEF Settle, Step!Settle, SettlesWith
<1>2. /\ status = "running" /\ AtStep /\ resumed = FALSE
      /\ handed = NoResult /\ op # "write_complete"
  BY <1>1 DEF IInv, OneStep, HandedOver, AtStep
<1>3. /\ r.len \in Nat /\ r.len <= MaxLen
      /\ r.ec # NoError => r.len = 0
  BY <1>1, ResultsOfShape, MaxLenAssumption DEF Result
<1>4. sent' = sent
  BY <1>2 DEF Settle
<1>5. OneStep' /\ BufferIsBody' /\ Reported' = r /\ ReportFits'
  BY <1>1, <1>2
  DEF IInv, OneStep, AtStep, BufferIsBody, Reported, ReportFits
<1>9. FaultKnown' /\ fault' \in ErrorCode \cup {NoError}
  <2>1. fault' = r.ec
    BY <1>1, <1>2 DEF SettlesWith, IInv, FaultKnown
  <2> QED
    BY <1>1, <1>2, <1>5, <2>1 DEF FaultKnown, Result
<1>6. /\ body \in Nat /\ consumed \in Nat /\ consumed <= body
      /\ body <= MaxBody /\ asked \in Nat
  BY MaxBodyAssumption DEF IInv, TypeOK, TransportTypeOK
<1>7. CASE op # "read_complete"
  <2>1. UNCHANGED <<consumed, area>>
    BY <1>7 DEF Settle
  <2>2. TypeOK'
    BY <1>1, <1>2, <1>4, <1>9, <2>1, StepVocabulary
    DEF IInv, TypeOK, TransportTypeOK, Step!TypeOK
  <2>3. QueryFits'
    <3> SUFFICES ASSUME op = "data_available", r.ec = NoError
                 PROVE  /\ r.len <= body - consumed
                        /\ r.len = 0 => consumed = body
      BY <1>1, <1>5, <2>1 DEF QueryFits
    <3>1. r.len \in Lengths
      BY DEF Settle
    <3>2. r.len \in IF body - consumed = 0 THEN {0}
                    ELSE 1 .. Lesser(body - consumed, MaxLen)
      BY <3>1 DEF Lengths
    <3> QED
      BY <1>3, <1>6, <3>2, MaxLenAssumption DEF Lesser
  <2> QED
    BY <1>1, <1>2, <1>5, <1>7, <1>9, <2>1, <2>2, <2>3
    DEF IInv, Over, NoneInFlight, ReadAsked, ReadFits
<1>8. CASE op = "read_complete"
  <2>1. /\ consumed' = consumed + r.len
        /\ area' = Overwrite(area, Bytes(consumed, consumed + r.len))
    BY <1>8 DEF Settle
  <2>2. /\ consumed = Len(buffer)
        /\ Len(area) = asked + 1
        /\ asked <= body - consumed
        /\ asked = 0 => consumed = body
    BY <1>1, <1>2, <1>8 DEF IInv, ReadAsked
  <2>3. /\ r.len <= asked
        /\ r.ec = NoError /\ r.len = 0 => consumed = body
    <3>1. CASE r.ec = NoError
      <4>1. r.len \in Lengths
        BY <3>1 DEF Settle
      <4>2. r.len \in IF Lesser(asked, body - consumed) = 0 THEN {0}
                      ELSE 1 .. Lesser(Lesser(asked, body - consumed), MaxLen)
        BY <1>8, <4>1 DEF Lengths
      <4> QED
        BY <1>3, <1>6, <2>2, <4>2, MaxLenAssumption DEF Lesser
    <3>2. CASE r.ec # NoError
      BY <1>3, <1>6, <3>2
    <3> QED
      BY <3>1, <3>2
  <2>4. /\ area' \in Seq(0 .. MaxBody)
        /\ SubSeq(area', 1, r.len) = Bytes(consumed, consumed + r.len)
    <3>1. /\ consumed + r.len \in Nat /\ consumed <= consumed + r.len
          /\ (consumed + r.len) - consumed = r.len
          /\ r.len <= Len(area)
          /\ 1 .. consumed + r.len \subseteq 0 .. MaxBody
      BY <1>3, <1>6, <2>2, <2>3, MaxBodyAssumption
    <3>2. area \in Seq(0 .. MaxBody)
      BY DEF IInv, TypeOK, TransportTypeOK
    <3> DEFINE S == 0 .. MaxBody
               n == consumed + r.len
               w == Overwrite(area, Bytes(consumed, n))
    <3>3. /\ w \in Seq(S)
          /\ SubSeq(w, 1, n - consumed) = Bytes(consumed, n)
      <4>1. /\ area \in Seq(S) /\ consumed \in Nat /\ n \in Nat /\ consumed <= n
            /\ n - consumed <= Len(area) /\ 1 .. n \subseteq S
        BY <1>6, <3>1, <3>2
      <4> HIDE DEF S, n
      <4> QED
        BY <4>1, OverwriteBegins
    <3> QED
      BY <2>1, <3>1, <3>3
  <2>5. consumed' \in 0 .. body
    BY <1>3, <1>6, <2>1, <2>2, <2>3
  <2>6. TypeOK'
    BY <1>1, <1>2, <1>4, <1>9, <2>4, <2>5, StepVocabulary
    DEF IInv, TypeOK, TransportTypeOK, Step!TypeOK
  <2>7. ReadFits'
    BY <1>1, <1>3, <1>5, <1>6, <2>1, <2>2, <2>3, <2>4 DEF ReadFits
  <2> QED
    BY <1>1, <1>2, <1>5, <1>8, <1>9, <2>6, <2>7
    DEF IInv, Over, NoneInFlight, QueryFits, ReadAsked
<1> QED
  BY <1>7, <1>8

\* The handler is given what was reported.
LEMMA ResumeInvariant ==
  ASSUME IInv, Resume, UNCHANGED execVars
  PROVE  IInv'
<1>1. /\ phase = "settled" /\ phase' = "idle" /\ got' = outcome
      /\ resumed' = TRUE
      /\ UNCHANGED <<op, outcome, body, consumed, asked, area, sent, status,
                     execState, bodyState, buffer, handed, result, fault>>
  BY DEF Resume, Step!Deliver, execVars
<1>2. status = "running" /\ AtStep /\ handed = NoResult
  BY <1>1 DEF IInv, OneStep, HandedOver
<1>3. Reported' = Reported /\ Over /\ Over'
  BY <1>1, <1>2 DEF Reported, Over
<1>4. TypeOK'
  BY <1>1 DEF IInv, TypeOK, TransportTypeOK, Step!TypeOK
<1> QED
  BY <1>1, <1>2, <1>3, <1>4
  DEF IInv, OneStep, AtStep, BufferIsBody, ReportFits, NoneInFlight, QueryFits,
      ReadAsked, ReadFits, FaultKnown

LEMMA StepInvariant == IInv /\ [Next]_vars => IInv'
<1> SUFFICES ASSUME IInv, [Next]_vars
             PROVE  IInv'
  OBVIOUS
<1>1. CASE ExecFails \/ ExecStarts
  BY <1>1, NewCallInvariant
<1>2. CASE RunPosted \/ OpFails \/ OpDone
  BY <1>2, EndInvariant
<1>3. CASE OpSent \/ OpReceived
  BY <1>3, NextStepInvariant
<1>4. CASE BodyFails \/ BodyEnds
  BY <1>4, HandInvariant
<1>5. CASE BodyQueried
  BY <1>5, QueriedInvariant
<1>6. CASE BodyRead
  BY <1>6, ReadInvariant
<1>7. CASE StepSettles
  <2>1. PICK r \in Result : Settle(r) /\ SettlesWith(r)
    BY <1>7 DEF StepSettles, SettlesWith
  <2> QED
    BY <2>1, SettleInvariant
<1>8. CASE HandlerRuns
  BY <1>8, ResumeInvariant DEF HandlerRuns
<1>9. CASE UNCHANGED vars
  BY <1>9
  DEF vars, transportVars, execVars, IInv, TypeOK, TransportTypeOK,
      Step!TypeOK, OneStep, HandedOver, AtStep, BufferIsBody, Over, Reported,
      ReportFits, NoneInFlight, QueryFits, ReadAsked, ReadFits, FaultKnown
<1> QED
  BY <1>1, <1>2, <1>3, <1>4, <1>5, <1>6, <1>7, <1>8, <1>9 DEF Next, Operator

LEMMA Invariance == SafeSpec => []IInv
  BY InitInvariant, StepInvariant, PTL DEF SafeSpec

(***************************************************************************)
(* The theorems.                                                           *)
(***************************************************************************)

\* The types; a read never asks for more than WinHTTP announced.
THEOREM TypeCorrect == SafeSpec => []TypeOK
<1>1. IInv => TypeOK
  BY DEF IInv
<1> QED
  BY <1>1, Invariance, PTL

\* WinHTTP writes only inside the prepared memory and no uninitialised byte
\* is committed (winhttp_asio.hpp:494-500).
THEOREM ReadWithinPreparedThm == SafeSpec => []ReadWithinPrepared
<1>1. IInv => ReadWithinPrepared
  <2> SUFFICES ASSUME IInv
               PROVE  ReadWithinPrepared
    OBVIOUS
  <2>1. phase = "pending" /\ op = "read_complete" => asked < Len(area)
    <3>1. phase = "pending" => status = "running"
      BY DEF IInv, OneStep
    <3> QED
      BY <3>1, MaxBodyAssumption
      DEF IInv, ReadAsked, TypeOK, TransportTypeOK
  <2>2. \A i \in DOMAIN buffer : buffer[i] # 0
    <3>1. Len(buffer) \in Nat /\ buffer = Bytes(0, Len(buffer))
      BY LenProperties DEF IInv, BufferIsBody, TypeOK
    <3> QED
      BY <3>1 DEF Bytes
  <2> QED
    BY <2>1, <2>2 DEF ReadWithinPrepared
<1> QED
  BY <1>1, Invariance, PTL

\* What WinHTTP has handed out is in the buffer or about to be committed.
THEOREM NothingDroppedThm == SafeSpec => []NothingDropped
<1>1. IInv => NothingDropped
  <2> SUFFICES ASSUME IInv, status = "running", Len(buffer) # consumed
               PROVE  /\ op = "read_complete" /\ bodyState = "read_data"
                      /\ IF phase = "idle"
                         THEN Len(buffer) + got.len = consumed
                         ELSE phase = "settled" /\ Len(buffer) + outcome.len = consumed
    BY DEF NothingDropped
  <2>1. op = "read_complete" /\ phase \in {"idle", "pending", "settled"}
    BY DEF IInv, NoneInFlight, TypeOK, TransportTypeOK, Step!TypeOK
  <2>2. Over /\ consumed = Len(buffer) + Reported.len
    BY <2>1 DEF IInv, ReadAsked, ReadFits, Over
  <2>3. handed = NoResult
    <3> SUFFICES ASSUME handed # NoResult
                 PROVE  FALSE
      OBVIOUS
    <3>1. HandedOver
      BY DEF IInv, OneStep
    <3>2. Reported = got /\ got \in ResultsOf(op)
      BY <2>2, <3>1 DEF HandedOver, Reported, IInv, ReportFits
    <3>3. got.len = 0
      BY <3>1, <3>2, ResultsOfShape DEF HandedOver
    <3>4. Len(buffer) \in Nat
      BY LenProperties DEF IInv, TypeOK
    <3> QED
      BY <2>2, <3>2, <3>3, <3>4
  <2>4. bodyState = "read_data"
    BY <2>1, <2>3 DEF IInv, OneStep, AtStep
  <2> QED
    BY <2>1, <2>2, <2>4 DEF Over, Reported
<1> QED
  BY <1>1, Invariance, PTL

\* An error ends both operations and is what the caller is told; success is
\* told only if no step failed (client.hpp:50, winhttp_asio.hpp:477).
THEOREM FirstErrorIsResultThm == SafeSpec => []FirstErrorIsResult
<1>1. IInv => FirstErrorIsResult
  BY DEF IInv, FaultKnown, FirstErrorIsResult
<1> QED
  BY <1>1, Invariance, PTL

(***************************************************************************)
(* The refinement.                                                         *)
(***************************************************************************)

\* FetchSpec without the promise that a call ends.
FetchSafe == Fetch!SafeSpec

\* A commit adds the next bytes, an end with success comes after the last.
LEMMA FetchStep == IInv /\ [Next]_vars => [Fetch!Next]_(Fetch!fetchVars)
<1> SUFFICES ASSUME IInv, [Next]_vars
             PROVE  Fetch!Next \/ UNCHANGED Fetch!fetchVars
  OBVIOUS
<1>1. CASE ExecFails \/ ExecStarts
  <2>1. Fetch!Call
    BY <1>1
    DEF ExecFails, ExecStarts, NewCall, NewResponse, Fetch!Call
  <2> QED
    BY <2>1 DEF Fetch!Next
<1>2. CASE RunPosted
  <2>1. Fetch!Finish("failed")
    BY <1>2 DEF RunPosted, transportVars, Fetch!Finish, NoError
  <2> QED
    BY <2>1 DEF Fetch!Next, ErrorCode
<1>3. CASE OpFails
  <2>1. PICK r \in Result : ExecRuns(r) /\ r.ec # NoError /\ Complete(r.ec)
    BY <1>3 DEF OpFails
  <2>2. r.ec \in ErrorCode /\ status = "running"
    BY <2>1, ExecRunsReported DEF Result
  <2>3. Fetch!Finish(r.ec)
    BY <2>1, <2>2 DEF Complete, stepVars, Fetch!Finish
  <2> QED
    BY <2>2, <2>3 DEF Fetch!Next
<1>4. CASE OpSent \/ OpReceived
  BY <1>4 DEF OpSent, OpReceived, Start, Fetch!fetchVars
<1>5. CASE BodyQueried
  BY <1>5 DEF BodyQueried, StartRead, Fetch!fetchVars
<1>6. CASE BodyRead
  <2>1. /\ status = "running" /\ op = "read_complete" /\ Over /\ Reported = got
        /\ got.ec = NoError /\ got.len # 0
    BY <1>6, EnteredReported DEF AtStep, BodyRead, BodyResumes, Resumes
  <2>2. got.len \in Nat
    <3>1. got \in ResultsOf(op)
      BY <2>1 DEF IInv, ReportFits
    <3> QED
      BY <3>1, ResultsOfShape, MaxLenAssumption DEF Result
  <2>3. /\ Len(buffer) \in Nat
        /\ consumed = Len(buffer) + got.len
        /\ SubSeq(area, 1, got.len) = Bytes(Len(buffer), consumed)
        /\ consumed \in Nat /\ consumed <= body /\ body \in Nat
    BY <2>1, MaxBodyAssumption
    DEF IInv, ReadFits, TypeOK, TransportTypeOK
  <2>4. buffer' = Bytes(0, consumed)
    <3>1. buffer' = Bytes(0, Len(buffer)) \o Bytes(Len(buffer), consumed)
      BY <1>6, <2>3 DEF IInv, BufferIsBody, BodyRead, Committed
    <3>2. /\ 0 \in Nat /\ 0 <= Len(buffer) /\ Len(buffer) \in Nat
          /\ consumed \in Nat /\ Len(buffer) <= consumed
      BY <2>2, <2>3
    <3> QED
      BY <3>1, <3>2, BytesJoin
  <2>5. consumed \in Len(buffer) + 1 .. body
    BY <2>1, <2>2, <2>3
  <2>6. buffer' = Fetch!BodyPrefix(consumed)
    BY <2>3, <2>4 DEF Bytes, Fetch!BodyPrefix
  <2>7. Fetch!Receive
    BY <1>6, <2>1, <2>5, <2>6 DEF BodyRead, Start, Fetch!Receive
  <2> QED
    BY <2>7 DEF Fetch!Next
<1>7. CASE OpDone
  <2>1. PICK r \in Result :
          ExecRuns(r) /\ r.ec = NoError /\ Complete(r.ec) /\ execState = "done"
    BY <1>7 DEF OpDone
  <2>2. /\ status = "running" /\ op = "read_complete" /\ Over /\ Reported = got
        /\ got.ec = NoError /\ got.len = 0
    BY <2>1, ExecRunsReported
  <2>3. Len(buffer) = body
    BY <2>2, MaxBodyAssumption
    DEF IInv, ReadFits, TypeOK, TransportTypeOK
  <2>4. buffer = Fetch!BodyPrefix(body)
    <3>1. buffer = Bytes(0, body) /\ body \in Nat
      BY <2>3, MaxBodyAssumption
      DEF IInv, BufferIsBody, TypeOK, TransportTypeOK
    <3> QED
      BY <3>1 DEF Bytes, Fetch!BodyPrefix
  <2>5. Fetch!Finish(NoError)
    BY <2>1, <2>2, <2>4 DEF Complete, stepVars, Fetch!Finish
  <2> QED
    BY <2>5 DEF Fetch!Next
<1>8. CASE BodyFails \/ BodyEnds
  BY <1>8 DEF BodyFails, BodyEnds, stepVars, Fetch!fetchVars
<1>9. CASE StepSettles \/ HandlerRuns
  BY <1>9 DEF StepSettles, HandlerRuns, Settle, Resume, execVars, Fetch!fetchVars
<1>10. CASE UNCHANGED vars
  BY <1>10 DEF vars, transportVars, execVars, Fetch!fetchVars
<1> QED
  BY <1>1, <1>2, <1>3, <1>4, <1>5, <1>6, <1>7, <1>8, <1>9, <1>10
  DEF Next, Operator

\* async_exec keeps its promise, except that TLC alone checks that it ends: at
\* any time the caller's buffer holds a beginning of the body, on success
\* the whole, and each call has one result (client.hpp:55, winhttp_asio.hpp:482).
THEOREM FetchRefinement == SafeSpec => FetchSafe
<1>1. Init => Fetch!Init
  BY DEF Init, TransportInit, Fetch!Init
<1> QED
  BY <1>1, Invariance, FetchStep, PTL DEF SafeSpec, FetchSafe, Fetch!SafeSpec
=============================================================================
