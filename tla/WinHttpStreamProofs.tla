------------------------- MODULE WinHttpStreamProofs -------------------------
(***************************************************************************)
(* Proofs about WinHttpStream, for bodies, buffers and transfers of any    *)
(* length.  The invariant follows each part of the request body from the   *)
(* memory it is written from, and each part of the response from the       *)
(* announcement to the user's buffer.                                      *)
(***************************************************************************)
EXTENDS WinHttpStream, ByteSeqsProofs

(***************************************************************************)
(* The invariant.                                                          *)
(***************************************************************************)

\* The user waits for async_send, async_write, async_recieve_response or
\* async_read.
Busy == stage \in {"sending", "writing", "receiving", "reading"}

\* The stage and the state of the operation say which step is running.
AtStep ==
  \/ stage = "sending" /\ opState = "idle" /\ op = "send_request"
  \/ stage = "writing" /\ opState = "write_data" /\ op = "write_complete"
  \/ stage = "receiving" /\ opState = "idle" /\ op = "headers_available"
  \/ stage = "reading" /\ opState = "query_data" /\ op = "data_available"
  \/ stage = "reading" /\ opState = "read_data" /\ op = "read_complete"

\* While the user waits there is one step, which WinHTTP has or whose handler
\* was entered.
OneStep ==
  IF Busy THEN AtStep /\ (resumed <=> phase = "idle")
  ELSE phase = "idle" /\ ~resumed

\* The step has been reported, and what was reported.
Over == Busy /\ phase # "pending"
Reported == IF phase = "settled" THEN outcome ELSE got

ReportFits == Over => Reported \in ResultsOf(op)

DataIsBody == data = Bytes(0, Len(data))

\* Where the request body is: nothing, a beginning, or all of it is sent.
RequestSent ==
  /\ stage \in {"start", "sending"} => written = 0 /\ sent = <<>>
  /\ stage = "writing" => written + size <= total /\ (size = 0 => total = 0)
  /\ stage \in {"receiving", "ready", "reading"} => sent = Bytes(0, total)

\* A write that WinHTTP has is of the next bytes.
WriteAsked ==
  stage = "writing" /\ phase = "pending" =>
    /\ sent = Bytes(0, written)
    /\ asked = size
    /\ area = Bytes(written, written + size)

\* A write that is over took some of them, if there were any.
WriteFits ==
  stage = "writing" /\ phase # "pending" =>
    /\ Reported.len <= size
    /\ sent = Bytes(0, written + Reported.len)
    /\ Reported.ec = NoError /\ Reported.len = 0 => size = 0

\* The buffer of async_read and the part given to async_read_some.
BufferFits ==
  stage = "reading" => have + size <= want /\ (size = 0 => want = 0)

\* Outside of a read, the user has what was handed out.
NoneInFlight ==
  (\/ stage \in {"start", "sending", "writing", "receiving", "ready"}
   \/ stage = "reading" /\ op = "data_available") =>
    consumed = Len(data)

\* An announcement is of bytes that are there, and of none only at the end.
QueryFits ==
  Over /\ op = "data_available" /\ Reported.ec = NoError =>
    /\ Reported.len <= body - consumed
    /\ Reported.len = 0 => consumed = body

\* A read that WinHTTP has.
ReadAsked ==
  stage = "reading" /\ op = "read_complete" /\ phase = "pending" =>
    /\ consumed = Len(data)
    /\ Len(area) = size
    /\ asked <= size
    /\ asked <= body - consumed
    /\ asked = 0 => consumed = body \/ want = 0

\* A read that is over: the memory begins with the next bytes of the body.
ReadFits ==
  Over /\ op = "read_complete" =>
    /\ consumed = Len(data) + Reported.len
    /\ Reported.len <= size
    /\ SubSeq(area, 1, Reported.len) = Bytes(Len(data), consumed)
    /\ Reported.ec = NoError /\ Reported.len = 0 => consumed = body \/ want = 0

StartIdle == stage = "start" => opState = "idle"

IInv ==
  /\ TypeOK
  /\ OneStep
  /\ ReportFits
  /\ DataIsBody
  /\ RequestSent
  /\ WriteAsked
  /\ WriteFits
  /\ BufferFits
  /\ NoneInFlight
  /\ QueryFits
  /\ ReadAsked
  /\ ReadFits
  /\ ShortReadMeansEnd
  /\ StartIdle

(***************************************************************************)
(* Facts about the steps.                                                  *)
(***************************************************************************)

\* AsyncStep is instantiated with the vocabulary of this module.
LEMMA StepVocabulary ==
  /\ Step!CtxState = CtxState
  /\ Step!Result = Result
  /\ Step!NoResult = NoResult
  /\ \A o : Step!ResultsOf(o) = ResultsOf(o)
  BY DEF Step!CtxState, Step!StepOp, Step!Result, Step!ErrorCode, Step!NoError,
         Step!NoResult, Step!ResultsOf, Step!Failure, Step!Success, Step!LenOp,
         CtxState, StepOp, Result, ErrorCode, NoError, NoResult, ResultsOf,
         Failure, Success, LenOp

\* What a step reports: no length with an error.
LEMMA ResultsOfShape ==
  ASSUME NEW o, NEW r \in ResultsOf(o)
  PROVE  /\ r \in Result
         /\ r.len \in Nat
         /\ r.ec # NoError => r.len = 0
<1>1. 0 \in 0 .. MaxLen
  BY MaxLenAssumption
<1>2. r \in Result /\ (r.ec # NoError => r.len = 0)
  <2>1. CASE \E e \in ErrorCode : r = Failure(e)
    BY <1>1, <2>1 DEF Failure, Result
  <2>2. CASE \E n \in 0 .. MaxLen : r = Success(n)
    BY <2>2 DEF Success, Result
  <2> QED
    BY <1>1, <2>1, <2>2 DEF ResultsOf
<1> QED
  BY <1>2, MaxLenAssumption DEF Result

\* The lengths and positions of a state are numbers up to MaxBody.
LEMMA Numbers ==
  ASSUME TypeOK
  PROVE  /\ size \in Nat /\ size <= MaxBody
         /\ total \in Nat /\ total <= MaxBody
         /\ written \in Nat /\ want \in Nat /\ have \in Nat
         /\ want <= MaxBody
         /\ body \in Nat /\ body <= MaxBody
         /\ consumed \in Nat /\ consumed <= body
         /\ asked \in Nat
         /\ Len(data) \in Nat
  BY MaxBodyAssumption DEF TypeOK, TransportTypeOK

\* Bytes of a body fit the types of memory and of what is sent.
LEMMA BytesTypes ==
  ASSUME NEW m \in Nat, NEW n \in Nat, m <= n, n <= MaxBody
  PROVE  Bytes(m, n) \in Seq(1 .. MaxBody) /\ Bytes(m, n) \in Seq(0 .. MaxBody)
<1>1. Bytes(m, n) \in Seq(1 .. n)
  BY BytesSeq
<1>2. 1 .. n \subseteq 1 .. MaxBody /\ 1 .. n \subseteq 0 .. MaxBody
  BY MaxBodyAssumption
<1> QED
  BY <1>1, <1>2, SeqMonotonic

\* boost::asio passes on some of the bytes, if there are any.
LEMMA PortionBounds ==
  ASSUME NEW n \in Nat, NEW s \in Portion(n)
  PROVE  s \in Nat /\ s <= n /\ (n # 0 => 1 <= s)
  BY DEF Portion

\* The handler of a step runs with success: the step is over.
LEMMA Resumed ==
  ASSUME IInv, resumed, got.ec = NoError
  PROVE  /\ Over /\ Busy /\ AtStep /\ phase = "idle" /\ Reported = got
         /\ got.len \in Nat
<1>1. Over /\ Busy /\ AtStep /\ phase = "idle" /\ Reported = got
  BY DEF IInv, OneStep, Over, Reported
<1>2. got \in ResultsOf(op)
  BY <1>1 DEF IInv, ReportFits
<1> QED
  BY <1>1, <1>2, ResultsOfShape

(***************************************************************************)
(* The actions.                                                            *)
(***************************************************************************)

\* Nothing has been sent.
LEMMA InitInvariant == Init => IInv
<1> SUFFICES ASSUME Init
             PROVE  IInv
  OBVIOUS
<1>1. TypeOK
  <2>1. /\ area \in Seq(0 .. MaxBody)
        /\ sent \in Seq(1 .. MaxBody)
        /\ data \in Seq(0 .. MaxBody)
    BY EmptySeq DEF Init, TransportInit
  <2>2. Step!TypeOK
    BY StepVocabulary DEF Init, TransportInit, Step!Init, Step!TypeOK, CtxState
  <2>3. /\ body \in 0 .. MaxBody /\ consumed \in 0 .. body
        /\ asked \in 0 .. MaxBody + 1
        /\ {size, total, written, want, have} \subseteq 0 .. MaxBody
    BY MaxBodyAssumption DEF Init, TransportInit
  <2>4. resumed \in BOOLEAN
    BY DEF Init, TransportInit
  <2> QED
    BY <2>1, <2>2, <2>3, <2>4 DEF Init, TypeOK, TransportTypeOK, Stage
<1>2. data = <<>> /\ Len(data) = 0 /\ stage = "start"
  BY EmptySeq DEF Init
<1>3. DataIsBody
  BY <1>2, BytesNone DEF DataIsBody
<1> QED
  BY <1>1, <1>2, <1>3
  DEF Init, TransportInit, Step!Init, IInv, Busy, OneStep, Over, ReportFits,
      RequestSent, WriteAsked, WriteFits, BufferFits, NoneInFlight, QueryFits,
      ReadAsked, ReadFits, ShortReadMeansEnd, StartIdle

\* The headers announce a body of any length.
LEMMA SendInvariant ==
  ASSUME IInv, Send
  PROVE  IInv'
<1>1. /\ stage = "start" /\ stage' = "sending" /\ phase' = "pending"
      /\ op' = "send_request" /\ outcome' = NoResult
      /\ total' \in 0 .. MaxBody
      /\ UNCHANGED <<got, resumed, body, consumed, asked, area, sent, opState,
                     size, written, want, have, data>>
  BY StepVocabulary DEF Send, Step!Start
<1>2. resumed = FALSE
  BY <1>1 DEF IInv, OneStep, Busy, TypeOK, TransportTypeOK
<1>3. TypeOK'
  BY <1>1, StepVocabulary
  DEF IInv, TypeOK, TransportTypeOK, Step!TypeOK, CtxState, StepOp, Stage
<1>4. opState = "idle"
  BY <1>1 DEF IInv, StartIdle
<1> QED
  BY <1>1, <1>2, <1>3, <1>4
  DEF IInv, Busy, OneStep, AtStep, Over, ReportFits, DataIsBody, RequestSent,
      WriteAsked, WriteFits, BufferFits, NoneInFlight, QueryFits, ReadAsked,
      ReadFits, ShortReadMeansEnd, StartIdle

\* An error: the request is given up.
LEMMA FailsInvariant ==
  ASSUME IInv, Fails
  PROVE  IInv'
<1>1. /\ stage' = "failed" /\ resumed' = FALSE /\ resumed
      /\ UNCHANGED <<phase, op, outcome, got, body, consumed, asked, area, sent,
                     opState, size, total, written, want, have, data>>
  BY DEF Fails
<1>2. phase = "idle"
  BY <1>1 DEF IInv, OneStep
<1>3. TypeOK'
  BY <1>1 DEF IInv, TypeOK, TransportTypeOK, Step!TypeOK, Stage
<1> QED
  BY <1>1, <1>2, <1>3
  DEF IInv, Busy, OneStep, Over, ReportFits, DataIsBody, RequestSent,
      WriteAsked, WriteFits, BufferFits, NoneInFlight, QueryFits, ReadAsked,
      ReadFits, ShortReadMeansEnd, StartIdle

\* The next part of the request body is written.
LEMMA WriteSomeInvariant ==
  ASSUME IInv, NEW w \in Nat, w < total \/ (total = 0 /\ w = 0),
         sent = Bytes(0, w),
         consumed = Len(data), resumed' = FALSE, WriteSome(w)
  PROVE  IInv'
<1>1. /\ stage' = "writing" /\ opState' = "write_data" /\ written' = w
      /\ phase' = "pending" /\ op' = "write_complete" /\ outcome' = NoResult
      /\ asked' = size' /\ area' = Bytes(w, w + size')
      /\ UNCHANGED <<got, body, consumed, sent, total, want, have, data>>
  BY StepVocabulary DEF WriteSome, StartWrite, Step!Start
<1>2. total \in Nat /\ total <= MaxBody
  BY Numbers DEF IInv
<1>3. PICK s \in Portion(total - w) : size' = s
  BY DEF WriteSome
<1>4. s \in Nat /\ w + s <= total /\ (s = 0 => total = 0)
  <2>1. total - w \in Nat /\ (total - w = 0 => total = 0)
    BY <1>2
  <2> QED
    BY <1>2, <2>1, PortionBounds
<1>5. TypeOK'
  <2>1. area' \in Seq(0 .. MaxBody)
    <3>1. w + s \in Nat /\ w <= w + s /\ w + s <= MaxBody
      BY <1>2, <1>4, MaxBodyAssumption
    <3>2. area' = Bytes(w, w + s)
      BY <1>1, <1>3
    <3> QED
      BY <3>1, <3>2, BytesTypes
  <2>2. s \in 0 .. MaxBody + 1 /\ s \in 0 .. MaxBody /\ w \in 0 .. MaxBody
    BY <1>2, <1>4, MaxBodyAssumption
  <2>3. {size', total', written', want', have'} \subseteq 0 .. MaxBody
    BY <1>1, <1>3, <2>2 DEF IInv, TypeOK
  <2>4. asked' \in 0 .. MaxBody + 1
    BY <1>1, <1>3, <2>2
  <2> QED
    BY <1>1, <2>1, <2>3, <2>4, StepVocabulary
    DEF IInv, TypeOK, TransportTypeOK, Step!TypeOK, CtxState, StepOp, Stage
<1>6. RequestSent' /\ WriteAsked'
  BY <1>1, <1>3, <1>4 DEF RequestSent, WriteAsked
<1> QED
  BY <1>1, <1>5, <1>6
  DEF IInv, Busy, OneStep, AtStep, Over, ReportFits, DataIsBody, RequestSent,
      WriteAsked, WriteFits, BufferFits, NoneInFlight, QueryFits, ReadAsked,
      ReadFits, ShortReadMeansEnd, StartIdle

\* The response is asked for when all is sent.
LEMMA ReceiveResponseInvariant ==
  ASSUME IInv, NEW w \in Nat, w = total, sent = Bytes(0, total),
         consumed = Len(data), resumed' = FALSE, ReceiveResponse(w)
  PROVE  IInv'
<1>1. /\ stage' = "receiving" /\ opState' = "idle" /\ written' = w
      /\ phase' = "pending" /\ op' = "headers_available" /\ outcome' = NoResult
      /\ UNCHANGED <<got, body, consumed, asked, area, sent, size, total, want,
                     have, data>>
  BY StepVocabulary DEF ReceiveResponse, Start, Step!Start
<1>2. TypeOK'
  <2>1. {size', total', written', want', have'} \subseteq 0 .. MaxBody
    BY <1>1 DEF IInv, TypeOK
  <2> QED
    BY <1>1, <2>1, StepVocabulary
    DEF IInv, TypeOK, TransportTypeOK, Step!TypeOK, CtxState, StepOp, Stage
<1> QED
  BY <1>1, <1>2
  DEF IInv, Busy, OneStep, AtStep, Over, ReportFits, DataIsBody, RequestSent,
      WriteAsked, WriteFits, BufferFits, NoneInFlight, QueryFits, ReadAsked,
      ReadFits, ShortReadMeansEnd, StartIdle

LEMMA SentHeadersInvariant ==
  ASSUME IInv, SentHeaders
  PROVE  IInv'
<1>1. stage = "sending" /\ resumed' = FALSE
  BY DEF SentHeaders, Resumes
<1>2. /\ sent = Bytes(0, 0) /\ consumed = Len(data)
      /\ total \in Nat
  BY <1>1, BytesNone, Numbers DEF IInv, RequestSent, NoneInFlight
<1>3. 0 \in Nat /\ (0 < total \/ total = 0)
  BY <1>2
<1> QED
  BY <1>1, <1>2, <1>3, WriteSomeInvariant DEF SentHeaders

\* async_write goes on behind what was taken, or has got rid of everything.
LEMMA WrittenInvariant ==
  ASSUME IInv, WriteContinues \/ WriteCompletes
  PROVE  IInv'
<1>1. stage = "writing" /\ resumed /\ got.ec = NoError /\ resumed' = FALSE
  BY DEF WriteContinues, WriteCompletes, Resumes
<1>2. Over /\ phase = "idle" /\ Reported = got /\ got.len \in Nat
  BY <1>1, Resumed
<1>3. /\ sent = Bytes(0, written + got.len)
      /\ got.len = 0 => size = 0 /\ total = 0 /\ written + size <= total
      /\ consumed = Len(data)
  BY <1>1, <1>2 DEF IInv, WriteFits, RequestSent, NoneInFlight
<1>4. written \in Nat /\ total \in Nat /\ written + got.len \in Nat
  BY <1>2, Numbers DEF IInv
<1>5. CASE WriteContinues
  BY <1>1, <1>3, <1>4, <1>5, WriteSomeInvariant DEF WriteContinues
<1>6. CASE WriteCompletes
  <2>1. written + got.len = total
    BY <1>2, <1>3, <1>4, <1>6 DEF WriteCompletes
  <2> QED
    BY <1>1, <1>3, <1>4, <1>6, <2>1, ReceiveResponseInvariant
    DEF WriteCompletes
<1> QED
  BY <1>5, <1>6

LEMMA ReceivedInvariant ==
  ASSUME IInv, ReceivedResponse
  PROVE  IInv'
<1>1. /\ stage = "receiving" /\ stage' = "ready" /\ resumed /\ resumed' = FALSE
      /\ UNCHANGED <<phase, op, outcome, got, body, consumed, asked, area, sent,
                     opState, size, total, written, want, have, data>>
  BY DEF ReceivedResponse, Resumes
<1>2. phase = "idle"
  BY <1>1 DEF IInv, OneStep
<1>3. TypeOK'
  BY <1>1 DEF IInv, TypeOK, TransportTypeOK, Step!TypeOK, Stage
<1> QED
  BY <1>1, <1>2, <1>3
  DEF IInv, Busy, OneStep, Over, ReportFits, DataIsBody, RequestSent,
      WriteAsked, WriteFits, BufferFits, NoneInFlight, QueryFits, ReadAsked,
      ReadFits, ShortReadMeansEnd, StartIdle

\* async_read hands a part of its buffer to async_read_some, which asks how
\* much is available.
LEMMA ReadSomeInvariant ==
  ASSUME IInv, NEW n \in Nat, NEW w \in Nat, NEW h \in Nat,
         w <= MaxBody, h + n = w, n = 0 => w = 0,
         sent = Bytes(0, total), ReadSome(n), resumed' = FALSE,
         stage' = "reading", want' = w, have' = h,
         UNCHANGED <<total, written>>,
         data' \in Seq(0 .. MaxBody), data' = Bytes(0, consumed)
  PROVE  IInv'
<1>1. /\ opState' = "query_data" /\ phase' = "pending"
      /\ op' = "data_available" /\ outcome' = NoResult
      /\ UNCHANGED <<got, body, consumed, asked, area, sent>>
  BY StepVocabulary DEF ReadSome, Start, Step!Start
<1>2. PICK s \in Portion(n) : size' = s
  BY DEF ReadSome
<1>3. s \in Nat /\ h + s <= w /\ (s = 0 => w = 0)
  BY PortionBounds
<1>4. Len(data') = consumed
  <2>1. consumed \in Nat
    BY Numbers DEF IInv
  <2>2. Len(Bytes(0, consumed)) = consumed
    BY <2>1, BytesSeq
  <2> QED
    BY <2>2
<1>5. TypeOK'
  <2>1. {w, h, s} \subseteq 0 .. MaxBody
    BY <1>3, MaxBodyAssumption
  <2>2. {size', total', written', want', have'} \subseteq 0 .. MaxBody
    BY <1>2, <2>1 DEF IInv, TypeOK
  <2> QED
    BY <1>1, <2>2, StepVocabulary
    DEF IInv, TypeOK, TransportTypeOK, Step!TypeOK, CtxState, StepOp, Stage
<1>6. BufferFits'
  BY <1>2, <1>3 DEF BufferFits
<1>7. DataIsBody' /\ NoneInFlight'
  BY <1>1, <1>4 DEF DataIsBody, NoneInFlight
<1> QED
  BY <1>1, <1>5, <1>6, <1>7
  DEF IInv, Busy, OneStep, AtStep, Over, ReportFits, RequestSent, WriteAsked,
      WriteFits, QueryFits, ReadAsked, ReadFits, ShortReadMeansEnd, StartIdle

LEMMA ReadInvariant ==
  ASSUME IInv, NEW w \in 0 .. MaxBody, Read(w)
  PROVE  IInv'
<1>1. /\ stage = "ready" /\ stage' = "reading" /\ want' = w /\ have' = 0
      /\ ReadSome(w) /\ UNCHANGED <<resumed, total, written, data>>
  BY DEF Read
<1>2. /\ resumed' = FALSE /\ sent = Bytes(0, total)
      /\ data' \in Seq(0 .. MaxBody) /\ data' = Bytes(0, consumed)
  BY <1>1
  DEF IInv, TypeOK, TransportTypeOK, OneStep, Busy, RequestSent, NoneInFlight,
      DataIsBody
<1>3. w \in Nat /\ w <= MaxBody /\ 0 + w = w /\ 0 \in Nat
  BY MaxBodyAssumption
<1> QED
  BY <1>1, <1>2, <1>3, ReadSomeInvariant

\* The read is asked for no more than was announced and the part holds
\* (winhttp_stream.hpp:49).
LEMMA QueriedInvariant ==
  ASSUME IInv, Queried
  PROVE  IInv'
<1>1. /\ stage = "reading" /\ opState = "query_data" /\ resumed
      /\ got.ec = NoError
  BY DEF Queried, Resumes
<1>2. /\ Over /\ Reported = got /\ got.len \in Nat /\ op = "data_available"
      /\ phase = "idle"
  BY <1>1, Resumed DEF AtStep
<1>3. /\ got.len <= body - consumed
      /\ got.len = 0 => consumed = body
      /\ consumed = Len(data)
      /\ size = 0 => want = 0
  BY <1>1, <1>2 DEF IInv, QueryFits, NoneInFlight, BufferFits
<1> DEFINE n == Lesser(got.len, size)
<1>4. /\ n \in Nat /\ n <= size /\ n <= body - consumed /\ size \in Nat
      /\ n = 0 => consumed = body \/ want = 0
      /\ n <= MaxBody
  BY <1>2, <1>3, Numbers, MaxBodyAssumption DEF IInv, Lesser
<1>5. /\ stage' = "reading" /\ opState' = "read_data" /\ phase' = "pending"
      /\ op' = "read_complete" /\ outcome' = NoResult /\ resumed' = FALSE
      /\ asked' = n /\ area' = Fresh(size)
      /\ UNCHANGED <<got, body, consumed, sent, size, total, written, want,
                     have, data>>
  BY <1>1, StepVocabulary
  DEF Queried, Resumes, StartRead, Step!Start, ReadLen
<1> HIDE DEF n
<1>6. area' \in Seq(0 .. MaxBody) /\ Len(area') = size
  <2>1. Fresh(size) \in Seq({0}) /\ Len(Fresh(size)) = size
    BY <1>4, FreshSeq
  <2>2. {0} \subseteq 0 .. MaxBody
    BY MaxBodyAssumption
  <2> QED
    BY <1>5, <2>1, <2>2, SeqMonotonic
<1>7. TypeOK'
  <2>1. n \in 0 .. MaxBody + 1
    BY <1>4, MaxBodyAssumption
  <2> QED
    BY <1>5, <1>6, <2>1, StepVocabulary
    DEF IInv, TypeOK, TransportTypeOK, Step!TypeOK, CtxState, StepOp, Stage
<1>8. ReadAsked'
  BY <1>3, <1>4, <1>5, <1>6 DEF ReadAsked
<1> QED
  BY <1>1, <1>5, <1>7, <1>8
  DEF IInv, Busy, OneStep, AtStep, Over, ReportFits, DataIsBody, RequestSent,
      WriteAsked, WriteFits, BufferFits, NoneInFlight, QueryFits, ReadFits,
      ShortReadMeansEnd, StartIdle

\* The bytes that were read follow those the user has.
LEMMA Taken ==
  ASSUME IInv, Take
  PROVE  /\ stage = "reading" /\ opState = "read_data" /\ op = "read_complete"
         /\ phase = "idle" /\ resumed' = FALSE
         /\ got.len \in Nat /\ have \in Nat
         /\ have' = have + got.len /\ have + got.len <= want
         /\ data' = Bytes(0, consumed) /\ data' \in Seq(0 .. MaxBody)
         /\ got.len = 0 => consumed = body \/ want = 0
         /\ UNCHANGED <<total, written, want>>
<1>1. /\ stage = "reading" /\ opState = "read_data" /\ resumed
      /\ got.ec = NoError /\ resumed' = FALSE
      /\ have' = have + got.len /\ data' = data \o SubSeq(area, 1, got.len)
      /\ UNCHANGED <<total, written, want>>
  BY DEF Take, Resumes
<1>2. /\ Over /\ Reported = got /\ got.len \in Nat /\ op = "read_complete"
      /\ phase = "idle"
  BY <1>1, Resumed DEF AtStep
<1>3. /\ consumed = Len(data) + got.len /\ got.len <= size
      /\ SubSeq(area, 1, got.len) = Bytes(Len(data), consumed)
      /\ got.len = 0 => consumed = body \/ want = 0
  BY <1>1, <1>2 DEF IInv, ReadFits
<1>4. /\ have \in Nat /\ want \in Nat /\ size \in Nat /\ have + size <= want
      /\ Len(data) \in Nat /\ consumed \in Nat /\ consumed <= MaxBody
  <2>1. have + size <= want
    BY <1>1 DEF IInv, BufferFits
  <2>2. /\ have \in Nat /\ want \in Nat /\ size \in Nat /\ Len(data) \in Nat
        /\ consumed \in Nat /\ consumed <= body /\ body \in Nat /\ body <= MaxBody
    BY Numbers DEF IInv
  <2> QED
    BY <2>1, <2>2, MaxBodyAssumption
<1>5. data' = Bytes(0, consumed)
  <2>1. data' = Bytes(0, Len(data)) \o Bytes(Len(data), consumed)
    BY <1>1, <1>3 DEF IInv, DataIsBody
  <2>2. /\ 0 \in Nat /\ 0 <= Len(data) /\ Len(data) \in Nat
        /\ consumed \in Nat /\ Len(data) <= consumed
    BY <1>2, <1>3, <1>4
  <2> QED
    BY <2>1, <2>2, BytesJoin
<1>6. data' \in Seq(0 .. MaxBody)
  BY <1>4, <1>5, BytesTypes
<1>7. have + got.len <= want
  BY <1>2, <1>3, <1>4
<1> QED
  BY <1>1, <1>2, <1>3, <1>4, <1>5, <1>6, <1>7

LEMMA ReadContinuesInvariant ==
  ASSUME IInv, ReadContinues
  PROVE  IInv'
<1>1. /\ stage = "reading" /\ resumed' = FALSE
      /\ got.len \in Nat /\ have \in Nat
      /\ have' = have + got.len /\ have + got.len <= want
      /\ data' = Bytes(0, consumed) /\ data' \in Seq(0 .. MaxBody)
      /\ UNCHANGED <<total, written, want>>
  BY Taken DEF ReadContinues
<1>2. sent = Bytes(0, total) /\ want \in Nat /\ want <= MaxBody
  BY <1>1, Numbers DEF IInv, RequestSent
<1>3. have + got.len < want /\ ReadSome(want - (have + got.len)) /\ stage' = stage
  BY <1>1 DEF ReadContinues
<1> DEFINE h == have + got.len
           n == want - h
<1>4. h \in Nat /\ n \in Nat /\ h + n = want /\ n # 0
  <2>1. /\ got.len \in Nat /\ have \in Nat /\ want \in Nat
        /\ have + got.len < want
    BY <1>1, <1>2, <1>3
  <2> QED
    BY <2>1
<1>5. ReadSome(n) /\ have' = h /\ want' = want /\ stage' = "reading"
  BY <1>1, <1>3
<1> HIDE DEF h, n
<1> QED
  BY <1>1, <1>2, <1>4, <1>5, ReadSomeInvariant

LEMMA ReadCompletesInvariant ==
  ASSUME IInv, ReadCompletes
  PROVE  IInv'
<1>1. /\ stage = "reading" /\ phase = "idle" /\ resumed' = FALSE
      /\ got.len \in Nat /\ have \in Nat
      /\ have' = have + got.len /\ have + got.len <= want
      /\ data' = Bytes(0, consumed) /\ data' \in Seq(0 .. MaxBody)
      /\ got.len = 0 => consumed = body \/ want = 0
      /\ UNCHANGED <<total, written, want>>
  BY Taken DEF ReadCompletes
<1>2. /\ opState' = "done"
      /\ UNCHANGED <<phase, op, outcome, got, body, consumed, asked, area, sent,
                     size>>
      /\ got.len = 0 \/ have + got.len = want
      /\ stage' = IF have + got.len < want THEN "ended" ELSE "ready"
  BY <1>1 DEF ReadCompletes
<1>3. /\ want \in Nat /\ want <= MaxBody /\ consumed \in Nat
      /\ have + got.len \in 0 .. MaxBody
  <2>1. /\ want \in Nat /\ want <= MaxBody /\ consumed \in Nat /\ have \in Nat
    BY Numbers DEF IInv
  <2> QED
    BY <1>1, <2>1, MaxBodyAssumption
<1>4. TypeOK'
  <2>1. {size', total', written', want', have'} \subseteq 0 .. MaxBody
    BY <1>1, <1>2, <1>3 DEF IInv, TypeOK
  <2> QED
    BY <1>1, <1>2, <2>1
    DEF IInv, TypeOK, TransportTypeOK, Step!TypeOK, Stage
<1>5. Len(data') = consumed
  BY <1>1, <1>3, BytesSeq
<1>6. ShortReadMeansEnd'
  BY <1>1, <1>2, <1>3 DEF ShortReadMeansEnd
<1>7. DataIsBody' /\ NoneInFlight'
  BY <1>1, <1>2, <1>5 DEF DataIsBody, NoneInFlight
<1> QED
  BY <1>1, <1>2, <1>4, <1>6, <1>7
  DEF IInv, Busy, OneStep, Over, ReportFits, RequestSent, WriteAsked, WriteFits,
      BufferFits, QueryFits, ReadAsked, ReadFits, StartIdle

\* The handle is opened again for another request.
LEMMA ReopenInvariant ==
  ASSUME IInv, Reopen
  PROVE  IInv'
<1>1. /\ stage \in {"ready", "ended", "failed"}
      /\ stage' = "start" /\ opState' = "idle"
      /\ size' = 0 /\ total' = 0 /\ written' = 0 /\ want' = 0 /\ have' = 0
      /\ data' = <<>> /\ sent' = <<>> /\ consumed' = 0 /\ body' \in 0 .. MaxBody
      /\ UNCHANGED <<phase, op, outcome, got, resumed, asked, area>>
  BY DEF Reopen, NewResponse
<1>2. phase = "idle" /\ resumed = FALSE
  BY <1>1 DEF IInv, OneStep, Busy, TypeOK, TransportTypeOK
<1>3. data' = Bytes(0, 0) /\ Len(data') = 0
  BY <1>1, BytesNone, EmptySeq
<1>4. TypeOK'
  <2>1. <<>> \in Seq(0 .. MaxBody) /\ <<>> \in Seq(1 .. MaxBody)
    BY EmptySeq
  <2>2. PICK b \in 0 .. MaxBody : body' = b
    BY <1>1
  <2>3. consumed' \in 0 .. body'
    <3>1. 0 \in 0 .. b
      BY MaxBodyAssumption
    <3> QED
      BY <1>1, <2>2, <3>1
  <2>4. {size', total', written', want', have'} \subseteq 0 .. MaxBody
    BY <1>1, MaxBodyAssumption
  <2> QED
    BY <1>1, <1>2, <2>1, <2>3, <2>4
    DEF IInv, TypeOK, TransportTypeOK, Step!TypeOK, Stage
<1> QED
  BY <1>1, <1>2, <1>3, <1>4
  DEF IInv, Busy, OneStep, Over, ReportFits, DataIsBody, RequestSent, WriteAsked,
      WriteFits, BufferFits, NoneInFlight, QueryFits, ReadAsked, ReadFits,
      ShortReadMeansEnd, StartIdle

\* WinHTTP takes bytes of the part it was given to write, or writes the next
\* bytes of the body inside the buffer it was given to read into.
LEMMA SettleInvariant ==
  ASSUME IInv, NEW r \in Result, Settle(r), UNCHANGED userVars
  PROVE  IInv'
<1>1. /\ phase = "pending" /\ phase' = "settled" /\ outcome' = r
      /\ r \in ResultsOf(op)
      /\ UNCHANGED <<op, got, body, asked, resumed, stage, opState, size, total,
                     written, want, have, data>>
  BY StepVocabulary DEF Settle, Step!Settle, userVars
<1>2. Busy /\ AtStep /\ resumed = FALSE
  BY <1>1 DEF IInv, TypeOK, TransportTypeOK, OneStep
<1>3. /\ r.len \in Nat /\ r.len <= MaxLen
      /\ r.ec # NoError => r.len = 0
  BY <1>1, ResultsOfShape, MaxLenAssumption DEF Result
<1>4. /\ OneStep' /\ Reported' = r /\ ReportFits' /\ Busy'
      /\ DataIsBody' /\ ShortReadMeansEnd' /\ StartIdle' /\ BufferFits'
  BY <1>1, <1>2
  DEF IInv, OneStep, AtStep, Busy, DataIsBody, Reported, ReportFits,
      ShortReadMeansEnd, StartIdle, BufferFits
<1>5. /\ body \in Nat /\ consumed \in Nat /\ consumed <= body
      /\ body <= MaxBody /\ asked \in Nat /\ size \in Nat /\ written \in Nat
      /\ total \in Nat /\ total <= MaxBody
  BY Numbers DEF IInv
<1>6. CASE op \notin {"read_complete", "write_complete"}
  <2>1. UNCHANGED <<consumed, area, sent>>
    BY <1>6 DEF Settle
  <2>2. TypeOK'
    BY <1>1, <1>2, <2>1, StepVocabulary
    DEF IInv, TypeOK, TransportTypeOK, Step!TypeOK
  <2>3. QueryFits'
    <3> SUFFICES ASSUME op = "data_available", r.ec = NoError
                 PROVE  /\ r.len <= body - consumed
                        /\ r.len = 0 => consumed = body
      BY <1>1, <1>4, <2>1 DEF QueryFits
    <3>1. r.len \in Lengths
      BY DEF Settle
    <3>2. r.len \in IF body - consumed = 0 THEN {0}
                    ELSE 1 .. Lesser(body - consumed, MaxLen)
      BY <3>1 DEF Lengths
    <3> QED
      BY <1>3, <1>5, <3>2, MaxLenAssumption DEF Lesser
  <2>4. stage # "writing"
    BY <1>2, <1>6 DEF AtStep
  <2>5. /\ RequestSent' /\ WriteAsked' /\ WriteFits' /\ NoneInFlight'
        /\ ReadAsked' /\ ReadFits'
    BY <1>1, <1>6, <2>1, <2>4
    DEF IInv, RequestSent, WriteAsked, WriteFits, NoneInFlight, Over, ReadAsked,
        ReadFits
  <2> QED
    BY <1>4, <2>2, <2>3, <2>5 DEF IInv
<1>7. CASE op = "write_complete"
  <2>1. stage = "writing"
    BY <1>2, <1>7 DEF AtStep
  <2>2. UNCHANGED <<consumed, area>> /\ sent' = sent \o SubSeq(area, 1, r.len)
    BY <1>7 DEF Settle
  <2>3. /\ sent = Bytes(0, written) /\ asked = size
        /\ area = Bytes(written, written + size)
        /\ written + size <= total
    BY <1>1, <2>1 DEF IInv, WriteAsked, RequestSent
  <2>4. r.len <= size /\ (r.ec = NoError /\ r.len = 0 => size = 0)
    <3>1. CASE r.ec = NoError
      <4>1. r.len \in Lengths
        BY <3>1 DEF Settle
      <4>2. r.len \in IF asked = 0 THEN {0} ELSE 1 .. Lesser(asked, MaxLen)
        BY <1>7, <4>1 DEF Lengths
      <4> QED
        BY <1>3, <1>5, <2>3, <4>2, MaxLenAssumption DEF Lesser
    <3>2. CASE r.ec # NoError
      BY <1>3, <1>5, <3>2
    <3> QED
      BY <3>1, <3>2
  <2>5. sent' = Bytes(0, written + r.len)
    <3> DEFINE m == written
               j == r.len
               n == written + size
    <3>1. /\ m \in Nat /\ j \in Nat /\ n \in Nat /\ m <= n /\ m + j <= n
          /\ m + j \in Nat /\ m <= m + j /\ 0 \in Nat /\ 0 <= m
      BY <1>3, <1>5, <2>4
    <3>2. sent' = Bytes(0, m) \o SubSeq(Bytes(m, n), 1, j)
      BY <2>2, <2>3
    <3> HIDE DEF m, j, n
    <3>3. SubSeq(Bytes(m, n), 1, j) = Bytes(m, m + j)
      BY <3>1, BytesBeginning
    <3>4. Bytes(0, m) \o Bytes(m, m + j) = Bytes(0, m + j)
      BY <3>1, BytesJoin
    <3>5. sent' = Bytes(0, m + j)
      BY <3>2, <3>3, <3>4
    <3> QED
      BY <3>5 DEF m, j
  <2>6. sent' \in Seq(1 .. MaxBody)
    <3>1. /\ 0 \in Nat /\ written + r.len \in Nat /\ 0 <= written + r.len
          /\ written + r.len <= MaxBody
      BY <1>3, <1>5, <2>3, <2>4, MaxBodyAssumption
    <3> QED
      BY <2>5, <3>1, BytesTypes
  <2>7. TypeOK'
    BY <1>1, <1>2, <2>2, <2>6, StepVocabulary
    DEF IInv, TypeOK, TransportTypeOK, Step!TypeOK
  <2>8. /\ RequestSent' /\ WriteAsked' /\ WriteFits' /\ NoneInFlight'
        /\ QueryFits' /\ ReadAsked' /\ ReadFits'
    BY <1>1, <1>4, <1>7, <2>1, <2>2, <2>3, <2>4, <2>5
    DEF IInv, RequestSent, WriteAsked, WriteFits, NoneInFlight, Over, QueryFits,
        ReadAsked, ReadFits
  <2> QED
    BY <1>4, <2>7, <2>8 DEF IInv
<1>8. CASE op = "read_complete"
  <2>1. stage = "reading"
    BY <1>2, <1>8 DEF AtStep
  <2>2. /\ consumed' = consumed + r.len
        /\ area' = Overwrite(area, Bytes(consumed, consumed + r.len))
        /\ sent' = sent
    BY <1>8 DEF Settle
  <2>3. /\ consumed = Len(data)
        /\ Len(area) = size
        /\ asked <= size
        /\ asked <= body - consumed
        /\ asked = 0 => consumed = body \/ want = 0
    BY <1>1, <1>8, <2>1 DEF IInv, ReadAsked
  <2>4. /\ r.len <= asked
        /\ r.ec = NoError /\ r.len = 0 => consumed = body \/ want = 0
    <3>1. CASE r.ec = NoError
      <4>1. r.len \in Lengths
        BY <3>1 DEF Settle
      <4>2. r.len \in IF Lesser(asked, body - consumed) = 0 THEN {0}
                      ELSE 1 .. Lesser(Lesser(asked, body - consumed), MaxLen)
        BY <1>8, <4>1 DEF Lengths
      <4> QED
        BY <1>3, <1>5, <2>3, <4>2, MaxLenAssumption DEF Lesser
    <3>2. CASE r.ec # NoError
      BY <1>3, <1>5, <3>2
    <3> QED
      BY <3>1, <3>2
  <2>5. /\ area' \in Seq(0 .. MaxBody)
        /\ SubSeq(area', 1, r.len) = Bytes(consumed, consumed + r.len)
    <3>1. /\ consumed + r.len \in Nat /\ consumed <= consumed + r.len
          /\ (consumed + r.len) - consumed = r.len
          /\ r.len <= Len(area)
          /\ 1 .. consumed + r.len \subseteq 0 .. MaxBody
      BY <1>3, <1>5, <2>3, <2>4, MaxBodyAssumption
    <3>2. area \in Seq(0 .. MaxBody)
      BY DEF IInv, TypeOK, TransportTypeOK
    <3> DEFINE S == 0 .. MaxBody
               n == consumed + r.len
               w == Overwrite(area, Bytes(consumed, n))
    <3>3. /\ w \in Seq(S)
          /\ SubSeq(w, 1, n - consumed) = Bytes(consumed, n)
      <4>1. /\ area \in Seq(S) /\ consumed \in Nat /\ n \in Nat /\ consumed <= n
            /\ n - consumed <= Len(area) /\ 1 .. n \subseteq S
        BY <1>5, <3>1, <3>2
      <4> HIDE DEF S, n
      <4> QED
        BY <4>1, OverwriteBegins
    <3> QED
      BY <2>2, <3>1, <3>3
  <2>6. consumed' \in 0 .. body
    BY <1>3, <1>5, <2>2, <2>3, <2>4
  <2>7. TypeOK'
    BY <1>1, <1>2, <2>2, <2>5, <2>6, StepVocabulary
    DEF IInv, TypeOK, TransportTypeOK, Step!TypeOK
  <2>8. ReadFits'
    BY <1>1, <1>3, <1>4, <1>5, <2>2, <2>3, <2>4, <2>5 DEF ReadFits
  <2>9. /\ RequestSent' /\ WriteAsked' /\ WriteFits' /\ NoneInFlight'
        /\ QueryFits' /\ ReadAsked'
    BY <1>1, <1>4, <1>8, <2>1, <2>2
    DEF IInv, RequestSent, WriteAsked, WriteFits, NoneInFlight, Over, QueryFits,
        ReadAsked
  <2> QED
    BY <1>4, <2>7, <2>8, <2>9 DEF IInv
<1> QED
  BY <1>6, <1>7, <1>8

\* The handler is given what was reported.
LEMMA ResumeInvariant ==
  ASSUME IInv, Resume, UNCHANGED userVars
  PROVE  IInv'
<1>1. /\ phase = "settled" /\ phase' = "idle" /\ got' = outcome
      /\ resumed' = TRUE
      /\ UNCHANGED <<op, outcome, body, consumed, asked, area, sent, stage,
                     opState, size, total, written, want, have, data>>
  BY DEF Resume, Step!Deliver, userVars
<1>2. Busy /\ AtStep
  BY <1>1 DEF IInv, OneStep
<1>3. Reported' = Reported /\ Over /\ Over' /\ Busy'
  BY <1>1, <1>2 DEF Reported, Over, Busy
<1>4. TypeOK'
  BY <1>1 DEF IInv, TypeOK, TransportTypeOK, Step!TypeOK
<1>5. OneStep' /\ ReportFits' /\ DataIsBody' /\ RequestSent' /\ BufferFits'
  BY <1>1, <1>2, <1>3
  DEF IInv, OneStep, AtStep, ReportFits, DataIsBody, RequestSent, BufferFits
<1>6. /\ WriteAsked' /\ WriteFits' /\ NoneInFlight' /\ QueryFits' /\ ReadAsked'
      /\ ReadFits' /\ ShortReadMeansEnd' /\ StartIdle'
  BY <1>1, <1>3
  DEF IInv, WriteAsked, WriteFits, NoneInFlight, QueryFits, ReadAsked, ReadFits,
      ShortReadMeansEnd, StartIdle
<1> QED
  BY <1>4, <1>5, <1>6 DEF IInv

LEMMA StepInvariant == IInv /\ [Next]_vars => IInv'
<1> SUFFICES ASSUME IInv, [Next]_vars
             PROVE  IInv'
  OBVIOUS
<1>1. CASE Send
  BY <1>1, SendInvariant
<1>2. ASSUME NEW w \in 0 .. MaxBody, Read(w)
      PROVE  IInv'
  BY <1>2, ReadInvariant
<1>3. CASE Reopen
  BY <1>3, ReopenInvariant
<1>4. CASE Handler
  BY <1>4, FailsInvariant, SentHeadersInvariant, WrittenInvariant,
     ReceivedInvariant, QueriedInvariant, ReadContinuesInvariant,
     ReadCompletesInvariant
  DEF Handler
<1>5. CASE Transport
  <2>1. ASSUME NEW r \in Result, Settle(r)
        PROVE  IInv'
    BY <1>5, <2>1, SettleInvariant DEF Transport
  <2>2. CASE Resume
    BY <1>5, <2>2, ResumeInvariant DEF Transport
  <2> QED
    BY <1>5, <2>1, <2>2 DEF Transport
<1>6. CASE UNCHANGED vars
  BY <1>6
  DEF vars, transportVars, userVars, IInv, TypeOK, TransportTypeOK, Step!TypeOK,
      Busy, OneStep, AtStep, Over, Reported, ReportFits, DataIsBody, RequestSent,
      WriteAsked, WriteFits, BufferFits, NoneInFlight, QueryFits, ReadAsked,
      ReadFits, ShortReadMeansEnd, StartIdle
<1> QED
  BY <1>1, <1>2, <1>3, <1>4, <1>5, <1>6 DEF Next

LEMMA Invariance == Spec => []IInv
  BY InitInvariant, StepInvariant, PTL DEF Spec

(***************************************************************************)
(* The theorems.                                                           *)
(***************************************************************************)

\* The types: no position leaves the body or the buffer it belongs to.
THEOREM TypeCorrect == Spec => []TypeOK
<1>1. IInv => TypeOK
  BY DEF IInv
<1> QED
  BY <1>1, Invariance, PTL

\* async_read comes back short and without an error only at the end of the
\* body (winhttp_stream.hpp:55).
THEOREM ShortReadMeansEndThm == Spec => []ShortReadMeansEnd
<1>1. IInv => ShortReadMeansEnd
  BY DEF IInv
<1> QED
  BY <1>1, Invariance, PTL

\* Buffers are filled with consecutive bytes of the body and never written
\* past their end (winhttp_stream.hpp:49).
THEOREM ReadInOrderThm == Spec => []ReadInOrder
<1>1. IInv => ReadInOrder
  <2> SUFFICES ASSUME IInv
               PROVE  ReadInOrder
    OBVIOUS
  <2>1. phase = "pending" /\ op = "read_complete" => stage = "reading"
    BY DEF IInv, OneStep, AtStep
  <2>2. phase = "pending" /\ op = "read_complete" => asked <= Len(area)
    BY <2>1 DEF IInv, ReadAsked
  <2> QED
    BY <2>2 DEF IInv, DataIsBody, ReadInOrder
<1> QED
  BY <1>1, Invariance, PTL

\* The response is asked for when the server has the whole request body, in
\* order and once, however WinHTTP split the writes (winhttp_stream.hpp:94).
THEOREM WholeRequestBeforeResponseThm == Spec => []WholeRequestBeforeResponse
<1>1. IInv => WholeRequestBeforeResponse
  BY DEF IInv, RequestSent, WholeRequestBeforeResponse
<1> QED
  BY <1>1, Invariance, PTL
=============================================================================
