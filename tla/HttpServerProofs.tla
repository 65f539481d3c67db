-------------------------- MODULE HttpServerProofs --------------------------
(***************************************************************************)
(* Proofs about HttpServer, for any number of requests and objects, bodies *)
(* of any length and any hint.  What one object may do rests on what the   *)
(* others cannot have done to its request: the invariant says who holds a  *)
(* request, how far its body has been handed out, and what a completion on *)
(* its way to a handler stands for.                                        *)
(***************************************************************************)
EXTENDS HttpServer, ByteSeqsProofs, FiniteSetTheorems

(***************************************************************************)
(* The invariant, object by object.                                        *)
(***************************************************************************)

\* An object that is not in use is as it was made.
IdleFits(c) ==
  stage[c] = "none" =>
    /\ io[c] = None
    /\ id[c] = NullId
    /\ buffer[c] = <<>>
    /\ response[c] = Reply!NewResponse

\* What the completion of a receive says of the request.
ReceivePosted(c) ==
  \/ io[c].ec = "ok" /\ id[c] \in Request
  \/ io[c].ec = "more_data" /\ id[c] \in Request /\ io[c].len = HeaderSize(id[c])
  \/ io[c].ec = "aborted" /\ id[c] = NullId
  \/ io[c].ec = "invalid" /\ id[c] \in Request /\ status[id[c]] = "dropped"

\* An object that receives has no request yet, or one nothing was read of.
ReceivingFits(c) ==
  stage[c] = "receiving" =>
    /\ buffer[c] = <<>>
    /\ response[c] = Reply!NewResponse
    /\ \/ io[c] = Waiting("receive") /\ id[c] = NullId
       \/ io[c].at = "posted" /\ ReceivePosted(c)
    /\ id[c] \in Request =>
         status[id[c]] \in {"taken", "dropped"} /\ taken[id[c]] = 0

\* An object that reads a body has what was handed out, or is about to.
BodyFits(c) ==
  stage[c] = "body" =>
    /\ id[c] \in Request
    /\ status[id[c]] \in {"taken", "dropped"}
    /\ response[c] = Reply!NewResponse
    /\ \/ /\ io[c] = Waiting("body")
          /\ status[id[c]] = "taken"
          /\ buffer[c] = Bytes(0, taken[id[c]])
       \/ /\ io[c].at = "posted"
          /\ io[c].ec \in {"ok", "eof"}
          /\ Committed(c) = Bytes(0, taken[id[c]])
          /\ io[c].ec = "eof" => taken[id[c]] = body[id[c]]
       \/ /\ io[c].at = "posted"
          /\ io[c].ec = "invalid"
          /\ status[id[c]] = "dropped"

\* An object that sends has the whole body and the response to it.
SendingFits(c) ==
  stage[c] = "sending" =>
    /\ id[c] \in Request
    /\ buffer[c] = Bytes(0, body[id[c]])
    /\ response[c].chunks = Reply!Parts(Handled(Reply!NewResponse, id[c]))
    /\ \/ io[c] = Waiting("send") /\ status[id[c]] = "taken"
       \/ io[c].at = "posted" /\ status[id[c]] \in {"answered", "dropped"}

Fits(c) == IdleFits(c) /\ ReceivingFits(c) /\ BodyFits(c) /\ SendingFits(c)

(***************************************************************************)
(* The invariant between objects.                                          *)
(***************************************************************************)

\* No two objects hold one request.
HeldAlone ==
  \A c, d \in Conn : id[c] = id[d] /\ id[c] \in Request => c = d

\* A request that was given away and not dropped is held.
TakenHeld == \A r \in Request : status[r] = "taken" => \E c \in Conn : id[c] = r

\* One that was not is held by nobody, and nothing of it was read.
NewUntouched ==
  \A r \in Request : status[r] \in {"unsent", "queued"} =>
    taken[r] = 0 /\ \A c \in Conn : id[c] # r

\* Who receives: nobody, once a connection was refused; otherwise one.
Deaf == refused /\ server = "connection"
Receiver ==
  /\ Deaf => \A c \in Conn : stage[c] # "receiving"
  /\ ~Deaf => \E c \in Conn : stage[c] = "receiving"
  /\ \A c, d \in Conn : stage[c] = "receiving" /\ stage[d] = "receiving" => c = d

IInv ==
  /\ TypeOK
  /\ \A c \in Conn : Fits(c)
  /\ HeldAlone
  /\ TakenHeld
  /\ NewUntouched
  /\ Receiver
  /\ AnswerIsResponse

(***************************************************************************)
(* Facts about the parts.                                                  *)
(***************************************************************************)

\* The type of an overlapped operation.
Operation == [at : {"none", "receive", "body", "send", "posted"},
              ec : Code, len : 0 .. MaxBody + 2]

LEMMA OperationTypes ==
  /\ None \in Operation
  /\ \A k \in {"receive", "body", "send"} : Waiting(k) \in Operation
  /\ \A e \in Code, n \in {0, 1, 2} : Posted(e, n) \in Operation
<1>1. {0, 1, 2} \subseteq 0 .. MaxBody + 2 /\ "ok" \in Code
  BY QueueAssumption DEF Code
<1> QED
  BY <1>1 DEF None, Waiting, Posted, Operation

\* What the calls and HTTP.sys answer are operations.
LEMMA CallTypes ==
  ASSUME NEW r \in Request
  PROVE  /\ HeaderSize(r) \in {1, 2}
         /\ BodyCall(r) \in Operation
         /\ SendCall(r) \in Operation
         /\ \A n : ReceiveById(r, n) \in Operation /\ Received(r, n) \in Operation
<1>1. HeaderSize(r) \in {1, 2}
  BY DEF HeaderSize
<1>2. {"ok", "more_data", "eof", "invalid", "insufficient"} \subseteq Code
  BY DEF Code
<1> QED
  BY <1>1, <1>2, OperationTypes DEF BodyCall, SendCall, ReceiveById, Received

\* The lengths of buffers.
LEMMA SizeTypes == {0, 1, 2, Hint} \subseteq 0 .. MaxBody + 2
  BY QueueAssumption, ServerAssumption

\* A handler's answer is one list of its parts.
LEMMA ResponseParts ==
  ASSUME NEW r \in Request
  PROVE  LET resp == Handled(Reply!NewResponse, r)
         IN  /\ Reply!GetResponse(resp) \in Reply!Response
             /\ Reply!GetResponse(resp).chunks = Reply!Parts(resp)
<1> DEFINE resp == Handled(Reply!NewResponse, r)
           parts == Reply!Parts(resp)
<1>1. /\ resp \in Reply!Response
      /\ resp.chunks = <<>>
      /\ resp.body \in Reply!Content /\ resp.trailers \in Reply!Content
  <2>1. <<>> \in Seq(Reply!Chunk)
    BY EmptySeq
  <2>2. r \in Reply!Content /\ Empty \in Reply!Content
    BY DEF Reply!Content
  <2> QED
    BY <2>1, <2>2
    DEF Handled, Reply!NewResponse, Reply!AddTrailer, Reply!SetBody,
        Reply!Response
<1>2. ASSUME NEW p \in {"body", "trailers"}, NEW t \in Reply!Content
      PROVE  Reply!ChunkOf(p, t) \in Seq(Reply!Chunk)
  <2>1. CASE t = Empty
    BY <2>1, EmptySeq DEF Reply!ChunkOf
  <2>2. CASE t # Empty
    <3>1. <<p, t>> \in Reply!Chunk
      BY <2>2 DEF Reply!Chunk, Reply!Content
    <3> QED
      BY <2>2, <3>1 DEF Reply!ChunkOf
  <2> QED
    BY <2>1, <2>2
<1>3. parts \in Seq(Reply!Chunk)
  <2> DEFINE b == Reply!ChunkOf("body", resp.body)
             t == Reply!ChunkOf("trailers", resp.trailers)
  <2>1. b \in Seq(Reply!Chunk) /\ t \in Seq(Reply!Chunk)
    BY <1>1, <1>2
  <2>2. parts = b \o t
    BY DEF Reply!Parts
  <2> HIDE DEF b, t, parts
  <2> QED
    BY <2>1, <2>2, ConcatProperties
<1>4. <<>> \o parts = parts
  <2> HIDE DEF parts
  <2> QED
    BY <1>3
<1>5. Reply!GetResponse(resp) = [resp EXCEPT !.chunks = parts]
  BY <1>1, <1>4 DEF Reply!GetResponse
<1> HIDE DEF resp, parts
<1>6. /\ Reply!GetResponse(resp) \in Reply!Response
      /\ Reply!GetResponse(resp).chunks = parts
  BY <1>1, <1>3, <1>5 DEF Reply!Response
<1> QED
  BY <1>6 DEF resp, parts

\* What happens elsewhere leaves an object and its request as they are.
LEMMA Elsewhere ==
  ASSUME NEW c \in Conn, Fits(c),
         stage'[c] = stage[c], io'[c] = io[c], id'[c] = id[c],
         buffer'[c] = buffer[c], response'[c] = response[c], area'[c] = area[c],
         server' = server, body' = body,
         id[c] \in Request =>
           status'[id[c]] = status[id[c]] /\ taken'[id[c]] = taken[id[c]]
  PROVE  Fits(c)'
<1>1. IdleFits(c)'
  BY DEF Fits, IdleFits
<1>2. ReceivingFits(c)'
  BY DEF Fits, ReceivingFits, ReceivePosted
<1>3. BodyFits(c)'
  BY DEF Fits, BodyFits, Committed
<1>4. SendingFits(c)'
  BY DEF Fits, SendingFits, Handled
<1> QED
  BY <1>1, <1>2, <1>3, <1>4 DEF Fits

\* A request has the body it came with, and is numbered from its start.
LEMMA BodyNumbers ==
  ASSUME TypeOK, NEW r \in Request
  PROVE  /\ body[r] \in Nat /\ body[r] <= MaxBody
         /\ taken[r] \in Nat /\ taken[r] <= body[r]
  BY QueueAssumption DEF TypeOK, QueueTypeOK

\* Bytes of a body fit the types of the buffers.
LEMMA BytesTypes ==
  ASSUME NEW m \in Nat, NEW n \in Nat, m <= n, n <= MaxBody
  PROVE  Bytes(m, n) \in Seq(1 .. MaxBody)
<1>1. Bytes(m, n) \in Seq(1 .. n)
  BY BytesSeq
<1>2. 1 .. n \subseteq 1 .. MaxBody
  BY QueueAssumption
<1> QED
  BY <1>1, <1>2, SeqMonotonic

\* An object that holds no request is as it was made.
LEMMA NewResponseType == Reply!NewResponse \in Reply!Response
<1>1. <<>> \in Seq(Reply!Chunk) /\ Empty \in Reply!Content
  BY EmptySeq DEF Reply!Content
<1> QED
  BY <1>1 DEF Reply!NewResponse, Reply!Response

(***************************************************************************)
(* The actions.                                                            *)
(***************************************************************************)

\* One object receives, and no request has been sent.
LEMMA InitInvariant == Init => IInv
<1> SUFFICES ASSUME Init
             PROVE  IInv
  OBVIOUS
<1>1. PICK c \in Conn :
        /\ stage = [d \in Conn |-> IF d = c THEN "receiving" ELSE "none"]
        /\ io = [d \in Conn |-> IF d = c THEN Waiting("receive") ELSE None]
        /\ size = [d \in Conn |-> IF d = c THEN InitialSize ELSE 0]
  BY DEF Init
<1>2. TypeOK
  <2>1. /\ area \in [Conn -> Seq(1 .. MaxBody)]
        /\ buffer \in [Conn -> Seq(1 .. MaxBody)]
        /\ answer \in [Request -> Seq(Reply!Chunk) \cup {Freed}]
    <3>1. <<>> \in Seq(1 .. MaxBody) /\ <<>> \in Seq(Reply!Chunk)
      BY EmptySeq
    <3> QED
      BY <3>1 DEF Init, QueueInit
  <2>2. io \in [Conn -> Operation]
    BY <1>1, OperationTypes
  <2>3. size \in [Conn -> {0, 1, 2, Hint}] /\ size \in [Conn -> 0 .. MaxBody + 2]
    BY <1>1, SizeTypes DEF InitialSize
  <2>4. /\ body \in [Request -> 0 .. MaxBody]
        /\ taken \in [Request -> 0 .. MaxBody]
        /\ \A r \in Request : taken[r] <= body[r]
    BY QueueAssumption DEF Init, QueueInit
  <2>5. response \in [Conn -> Reply!Response]
    BY NewResponseType DEF Init
  <2>6. /\ stage \in [Conn -> {"none", "receiving", "body", "sending"}]
        /\ status \in
             [Request -> {"unsent", "queued", "taken", "answered", "dropped"}]
        /\ id \in [Conn -> Request \cup {NullId}]
        /\ up \in BOOLEAN /\ refused \in BOOLEAN
        /\ server \in {"connection", "controller"}
    BY <1>1 DEF Init, QueueInit
  <2> QED
    BY <2>1, <2>2, <2>3, <2>4, <2>5, <2>6 DEF TypeOK, QueueTypeOK, Operation
<1>3. /\ \A d \in Conn : id[d] = NullId /\ id[d] \notin Request
      /\ \A r \in Request : status[r] = "unsent" /\ taken[r] = 0
  BY QueueAssumption DEF Init, QueueInit
<1>4. \A d \in Conn : Fits(d)
  BY <1>1, <1>3
  DEF Init, Fits, IdleFits, ReceivingFits, BodyFits, SendingFits
<1>5. Receiver
  BY <1>1 DEF Init, Receiver, Deaf
<1> QED
  BY <1>2, <1>3, <1>4, <1>5
  DEF IInv, HeldAlone, TakenHeld, NewUntouched, AnswerIsResponse

\* The last handler is done, and the object goes: its request is over.
LEMMA DestroysInvariant ==
  ASSUME IInv, NEW c \in Conn, Destroys(c),
         id[c] \in Request => status[id[c]] # "taken",
         refused' \in BOOLEAN,
         IF stage[c] = "receiving" THEN Deaf' ELSE refused' = refused,
         UNCHANGED <<requestVars, area, server, answer>>
  PROVE  IInv'
<1>1. UNCHANGED <<up, status, body, taken, area, server, answer>>
  BY DEF requestVars
<1>2. TypeOK'
  <2>1. io' \in [Conn -> Operation]
    BY OperationTypes DEF IInv, TypeOK, QueueTypeOK, Operation, Destroys
  <2>2. buffer' \in [Conn -> Seq(1 .. MaxBody)]
    <3>1. <<>> \in Seq(1 .. MaxBody)
      BY EmptySeq
    <3> QED
      BY <3>1 DEF IInv, TypeOK, Destroys
  <2>3. response' \in [Conn -> Reply!Response]
    BY NewResponseType DEF IInv, TypeOK, Destroys
  <2>4. /\ size' \in [Conn -> {0, 1, 2, Hint}]
        /\ size' \in [Conn -> 0 .. MaxBody + 2]
    BY SizeTypes DEF IInv, TypeOK, QueueTypeOK, Destroys
  <2>5. /\ stage' \in [Conn -> {"none", "receiving", "body", "sending"}]
        /\ id' \in [Conn -> Request \cup {NullId}]
    BY DEF IInv, TypeOK, QueueTypeOK, Destroys
  <2> QED
    BY <1>1, <2>1, <2>2, <2>3, <2>4, <2>5
    DEF IInv, TypeOK, QueueTypeOK, Operation
<1>3. /\ stage'[c] = "none" /\ io'[c] = None /\ id'[c] = NullId
      /\ buffer'[c] = <<>> /\ response'[c] = Reply!NewResponse
      /\ \A d \in Conn \ {c} :
           /\ stage'[d] = stage[d] /\ io'[d] = io[d] /\ id'[d] = id[d]
           /\ buffer'[d] = buffer[d] /\ response'[d] = response[d]
  BY DEF IInv, TypeOK, QueueTypeOK, Destroys
<1>4. \A d \in Conn : Fits(d)'
  <2>1. Fits(c)'
    BY <1>3 DEF Fits, IdleFits, ReceivingFits, BodyFits, SendingFits
  <2>2. ASSUME NEW d \in Conn \ {c}
        PROVE  Fits(d)'
    BY <1>1, <1>3, Elsewhere DEF IInv
  <2> QED
    BY <2>1, <2>2
<1>5. HeldAlone' /\ TakenHeld' /\ NewUntouched'
  BY <1>1, <1>3, QueueAssumption DEF IInv, HeldAlone, TakenHeld, NewUntouched
<1>6. Receiver'
  <2>1. CASE stage[c] = "receiving"
    BY <1>3, <2>1 DEF IInv, Receiver
  <2>2. CASE stage[c] # "receiving"
    BY <1>1, <1>3, <2>2 DEF IInv, Receiver, Deaf
  <2> QED
    BY <2>1, <2>2
<1>7. AnswerIsResponse'
  BY <1>1 DEF IInv, AnswerIsResponse, Handled
<1> QED
  BY <1>2, <1>4, <1>5, <1>6, <1>7 DEF IInv

\* The second receive is of the same request, in a buffer that holds it.
LEMMA RetryInvariant ==
  ASSUME IInv, NEW c \in Conn, Retry(c)
  PROVE  IInv'
<1>1. /\ stage[c] = "receiving" /\ io[c].at = "posted" /\ io[c].ec = "more_data"
      /\ io' = [io EXCEPT ![c] = ReceiveById(id[c], io[c].len)]
      /\ size' = [size EXCEPT ![c] = io[c].len]
      /\ UNCHANGED <<up, status, body, taken, id, area, server, stage, buffer,
                     response, answer, refused>>
  BY DEF Retry, Runs, requestVars, serverVars, replyVars
<1>2. /\ id[c] \in Request /\ io[c].len = HeaderSize(id[c])
      /\ status[id[c]] \in {"taken", "dropped"} /\ taken[id[c]] = 0
      /\ buffer[c] = <<>> /\ response[c] = Reply!NewResponse
  BY <1>1 DEF IInv, Fits, ReceivingFits, ReceivePosted, Waiting
<1>3. HeaderSize(id[c]) \in {1, 2}
  BY <1>2, CallTypes
<1>4. TypeOK'
  <2>1. io' \in [Conn -> Operation]
    BY <1>1, <1>2, CallTypes DEF IInv, TypeOK, QueueTypeOK, Operation
  <2>2. /\ size' \in [Conn -> {0, 1, 2, Hint}]
        /\ size' \in [Conn -> 0 .. MaxBody + 2]
    BY <1>1, <1>2, <1>3, SizeTypes DEF IInv, TypeOK, QueueTypeOK
  <2> QED
    BY <1>1, <2>1, <2>2 DEF IInv, TypeOK, QueueTypeOK, Operation
<1>5. /\ io'[c] = ReceiveById(id[c], HeaderSize(id[c]))
      /\ \A d \in Conn \ {c} : io'[d] = io[d]
  BY <1>1, <1>2 DEF IInv, TypeOK, QueueTypeOK
<1>6. \/ io'[c] = Posted("ok", HeaderSize(id[c]))
      \/ io'[c] = Posted("invalid", 0) /\ status[id[c]] = "dropped"
  BY <1>3, <1>5 DEF ReceiveById, Received
<1>7. \A d \in Conn : Fits(d)'
  <2>1. Fits(c)'
    BY <1>1, <1>2, <1>6
    DEF Fits, IdleFits, ReceivingFits, ReceivePosted, BodyFits, SendingFits,
        Posted
  <2>2. ASSUME NEW d \in Conn \ {c}
        PROVE  Fits(d)'
    BY <1>1, <1>5, Elsewhere DEF IInv
  <2> QED
    BY <2>1, <2>2
<1> QED
  BY <1>1, <1>4, <1>7
  DEF IInv, HeldAlone, TakenHeld, NewUntouched, Receiver, Deaf,
      AnswerIsResponse, Handled

\* How reading a body goes on, from what has been read.
LEMMA BodyCallFits ==
  ASSUME TypeOK, NEW r \in Request, status[r] \in {"taken", "dropped"}
  PROVE  \/ BodyCall(r) = Waiting("body") /\ status[r] = "taken"
         \/ BodyCall(r) = Posted("eof", 0) /\ taken[r] = body[r]
         \/ BodyCall(r) = Posted("invalid", 0) /\ status[r] = "dropped"
  BY DEF BodyCall

\* Nothing is committed with the end of the body.
LEMMA NothingCommitted ==
  ASSUME NEW b \in Seq(1 .. MaxBody), NEW a \in Seq(1 .. MaxBody)
  PROVE  b \o SubSeq(a, 1, 0) = b
<1>1. SubSeq(a, 1, 0) = <<>>
  OBVIOUS
<1> QED
  BY <1>1

\* Reading goes on from what is in the buffer.
LEMMA BodyCalledFits ==
  ASSUME IInv, NEW c \in Conn, NEW b \in Seq(1 .. MaxBody),
         id[c] \in Request, status[id[c]] \in {"taken", "dropped"},
         response[c] = Reply!NewResponse, b = Bytes(0, taken[id[c]]),
         stage'[c] = "body", io'[c] = BodyCall(id[c]), buffer'[c] = b,
         UNCHANGED <<status, body, taken, id, area, response>>
  PROVE  Fits(c)'
<1>1. BodyFits(c)'
  <2>1. CASE BodyCall(id[c]) = Waiting("body") /\ status[id[c]] = "taken"
    BY <2>1 DEF BodyFits
  <2>2. CASE BodyCall(id[c]) = Posted("eof", 0) /\ taken[id[c]] = body[id[c]]
    <3>1. b \o SubSeq(area[c], 1, 0) = b
      BY NothingCommitted DEF IInv, TypeOK, QueueTypeOK
    <3>2. io'[c].at = "posted" /\ io'[c].ec = "eof" /\ io'[c].len = 0
      BY <2>2 DEF Posted
    <3>3. Committed(c)' = b
      BY <3>1, <3>2 DEF Committed
    <3> QED
      BY <2>2, <3>2, <3>3 DEF BodyFits
  <2>3. CASE BodyCall(id[c]) = Posted("invalid", 0) /\ status[id[c]] = "dropped"
    BY <2>3 DEF BodyFits, Posted
  <2> QED
    BY <2>1, <2>2, <2>3, BodyCallFits DEF IInv
<1> QED
  BY <1>1 DEF Fits, IdleFits, ReceivingFits, SendingFits

\* The request goes on to its body, and another object receives.
LEMMA AcceptsInvariant ==
  ASSUME IInv, NEW c \in Conn, Accepts(c)
  PROVE  IInv'
<1>1. PICK d \in Unused :
        /\ ReceiveAny(d, [io EXCEPT ![c] = BodyCall(id[c])], id)
        /\ stage' = [stage EXCEPT ![c] = "body", ![d] = "receiving"]
        /\ size' = [size EXCEPT ![c] = Hint, ![d] = InitialSize]
  BY DEF Accepts
<1>2. /\ stage[c] = "receiving" /\ io[c].at = "posted" /\ io[c].ec \in {"ok", "eof"}
      /\ UNCHANGED <<up, status, body, taken, area, server, buffer, response,
                     answer, refused>>
  BY DEF Accepts, Runs, requestVars, replyVars
<1>3. d \in Conn /\ stage[d] = "none" /\ c # d
  BY <1>2 DEF Unused
<1>4. /\ id[c] \in Request
      /\ status[id[c]] \in {"taken", "dropped"} /\ taken[id[c]] = 0
      /\ buffer[c] = <<>> /\ response[c] = Reply!NewResponse
  BY <1>2 DEF IInv, Fits, ReceivingFits, ReceivePosted, Waiting
<1>5. /\ id[d] = NullId /\ id[d] \notin Request
      /\ buffer[d] = <<>> /\ response[d] = Reply!NewResponse
  BY <1>3, QueueAssumption DEF IInv, Fits, IdleFits
<1>6. /\ stage'[c] = "body" /\ stage'[d] = "receiving"
      /\ io'[c] = BodyCall(id[c])
      /\ \/ io'[d] = Waiting("receive")
         \/ io'[d] = Posted("aborted", 0)
      /\ id' = id
      /\ \A e \in Conn \ {c, d} : stage'[e] = stage[e] /\ io'[e] = io[e]
  BY <1>1, <1>3, <1>5 DEF IInv, TypeOK, QueueTypeOK, ReceiveAny
<1>7. TypeOK'
  <2>1. io' \in [Conn -> Operation]
    <3>1. BodyCall(id[c]) \in Operation
      BY <1>4, CallTypes
    <3>2. Waiting("receive") \in Operation /\ Posted("aborted", 0) \in Operation
      BY OperationTypes DEF Code
    <3> QED
      BY <1>1, <1>3, <3>1, <3>2 DEF IInv, TypeOK, QueueTypeOK, Operation, ReceiveAny
  <2>2. /\ size' \in [Conn -> {0, 1, 2, Hint}]
        /\ size' \in [Conn -> 0 .. MaxBody + 2]
    BY <1>1, <1>3, SizeTypes DEF IInv, TypeOK, QueueTypeOK, InitialSize
  <2>3. stage' \in [Conn -> {"none", "receiving", "body", "sending"}]
    BY <1>1, <1>3 DEF IInv, TypeOK
  <2> QED
    BY <1>2, <1>6, <2>1, <2>2, <2>3 DEF IInv, TypeOK, QueueTypeOK, Operation
<1>8. \A e \in Conn : Fits(e)'
  <2>1. Fits(c)'
    <3>1. buffer[c] = Bytes(0, taken[id[c]])
      BY <1>4, BytesNone
    <3>2. buffer[c] \in Seq(1 .. MaxBody)
      BY DEF IInv, TypeOK
    <3> QED
      BY <1>2, <1>4, <1>6, <3>1, <3>2, BodyCalledFits
  <2>2. Fits(d)'
    BY <1>2, <1>5, <1>6
    DEF Fits, IdleFits, ReceivingFits, ReceivePosted, BodyFits, SendingFits,
        Posted
  <2>3. ASSUME NEW e \in Conn \ {c, d}
        PROVE  Fits(e)'
    BY <1>2, <1>6, Elsewhere DEF IInv
  <2> QED
    BY <2>1, <2>2, <2>3
<1>9. Receiver'
  BY <1>2, <1>3, <1>6 DEF IInv, Receiver, Deaf
<1> QED
  BY <1>2, <1>6, <1>7, <1>8, <1>9
  DEF IInv, HeldAlone, TakenHeld, NewUntouched, AnswerIsResponse, Handled

\* A receive fails: the request, if there is one, was dropped.
LEMMA RefusesInvariant ==
  ASSUME IInv, NEW c \in Conn, Refuses(c)
  PROVE  IInv'
<1>1. /\ stage[c] = "receiving" /\ io[c].at = "posted"
      /\ io[c].ec \notin {"ok", "eof", "more_data"}
      /\ refused' = TRUE
      /\ UNCHANGED <<requestVars, area, server, answer>>
  BY DEF Refuses, Runs
<1>2. id[c] \in Request => status[id[c]] = "dropped"
  BY <1>1, QueueAssumption DEF IInv, Fits, ReceivingFits, ReceivePosted, Waiting
<1>3. CASE server # "controller"
  <2>1. Destroys(c) /\ Deaf'
    BY <1>1, <1>3 DEF Refuses, Deaf, IInv, TypeOK
  <2> QED
    BY <1>1, <1>2, <2>1, DestroysInvariant
<1>4. CASE server = "controller"
  <2>1. /\ io' = [io EXCEPT ![c] = IF up THEN Waiting("receive")
                                   ELSE Posted("aborted", 0)]
        /\ id' = [id EXCEPT ![c] = NullId]
        /\ size' = [size EXCEPT ![c] = InitialSize]
        /\ UNCHANGED <<up, status, body, taken, area, server, answer, stage,
                       buffer, response>>
    BY <1>1, <1>4 DEF Refuses, ReceiveAny, requestVars
  <2>2. TypeOK'
    <3>1. io' \in [Conn -> Operation]
      <4>1. Waiting("receive") \in Operation /\ Posted("aborted", 0) \in Operation
        BY OperationTypes DEF Code
      <4> QED
        BY <2>1, <4>1 DEF IInv, TypeOK, QueueTypeOK, Operation
    <3>2. /\ size' \in [Conn -> {0, 1, 2, Hint}]
          /\ size' \in [Conn -> 0 .. MaxBody + 2]
          /\ id' \in [Conn -> Request \cup {NullId}]
      BY <2>1, SizeTypes DEF IInv, TypeOK, QueueTypeOK, InitialSize
    <3> QED
      BY <1>1, <2>1, <3>1, <3>2 DEF IInv, TypeOK, QueueTypeOK, Operation
  <2>3. /\ io'[c] = Waiting("receive") \/ io'[c] = Posted("aborted", 0)
        /\ id'[c] = NullId /\ id'[c] \notin Request
        /\ \A d \in Conn \ {c} : io'[d] = io[d] /\ id'[d] = id[d]
    BY <2>1, QueueAssumption DEF IInv, TypeOK, QueueTypeOK
  <2>4. \A d \in Conn : Fits(d)'
    <3>1. Fits(c)'
      BY <1>1, <2>1, <2>3
      DEF IInv, Fits, IdleFits, ReceivingFits, ReceivePosted, BodyFits,
          SendingFits, Posted
    <3>2. ASSUME NEW d \in Conn \ {c}
          PROVE  Fits(d)'
      BY <2>1, <2>3, Elsewhere DEF IInv
    <3> QED
      BY <3>1, <3>2
  <2>5. HeldAlone' /\ TakenHeld' /\ NewUntouched'
    BY <1>2, <2>1, <2>3, QueueAssumption
    DEF IInv, HeldAlone, TakenHeld, NewUntouched
  <2>6. Receiver'
    BY <1>1, <1>4, <2>1 DEF IInv, Receiver, Deaf
  <2> QED
    BY <2>1, <2>2, <2>4, <2>5, <2>6 DEF IInv, AnswerIsResponse, Handled
<1> QED
  BY <1>3, <1>4

\* What was read is committed, and the rest is asked for.
LEMMA BodyContinuesInvariant ==
  ASSUME IInv, NEW c \in Conn, BodyContinues(c)
  PROVE  IInv'
<1>1. /\ stage[c] = "body" /\ io[c].at = "posted" /\ io[c].ec = "ok"
      /\ buffer' = [buffer EXCEPT ![c] = Committed(c)]
      /\ size' = [size EXCEPT ![c] = NextSize(io[c].len)]
      /\ io' = [io EXCEPT ![c] = BodyCall(id[c])]
      /\ UNCHANGED <<up, status, body, taken, id, area, server, stage, response,
                     answer, refused>>
  BY DEF BodyContinues, Runs, requestVars, replyVars
<1>2. /\ id[c] \in Request /\ status[id[c]] \in {"taken", "dropped"}
      /\ response[c] = Reply!NewResponse
      /\ Committed(c) = Bytes(0, taken[id[c]])
  BY <1>1 DEF IInv, Fits, BodyFits, Waiting
<1>3. Committed(c) \in Seq(1 .. MaxBody)
  <2>1. /\ 0 \in Nat /\ taken[id[c]] \in Nat /\ 0 <= taken[id[c]]
        /\ taken[id[c]] <= MaxBody
    BY <1>2, BodyNumbers, QueueAssumption DEF IInv
  <2> QED
    BY <1>2, <2>1, BytesTypes
<1>4. TypeOK'
  <2>1. io' \in [Conn -> Operation]
    BY <1>1, <1>2, CallTypes DEF IInv, TypeOK, QueueTypeOK, Operation
  <2>2. /\ size' \in [Conn -> {0, 1, 2, Hint}]
        /\ size' \in [Conn -> 0 .. MaxBody + 2]
    BY <1>1, SizeTypes DEF IInv, TypeOK, QueueTypeOK, NextSize
  <2>3. buffer' \in [Conn -> Seq(1 .. MaxBody)]
    BY <1>1, <1>3 DEF IInv, TypeOK
  <2> QED
    BY <1>1, <2>1, <2>2, <2>3 DEF IInv, TypeOK, QueueTypeOK, Operation
<1>5. /\ io'[c] = BodyCall(id[c]) /\ buffer'[c] = Committed(c)
      /\ \A d \in Conn \ {c} : io'[d] = io[d] /\ buffer'[d] = buffer[d]
  BY <1>1 DEF IInv, TypeOK, QueueTypeOK
<1>6. \A d \in Conn : Fits(d)'
  <2>1. Fits(c)'
    BY <1>1, <1>2, <1>3, <1>5, BodyCalledFits
  <2>2. ASSUME NEW d \in Conn \ {c}
        PROVE  Fits(d)'
    BY <1>1, <1>5, Elsewhere DEF IInv
  <2> QED
    BY <2>1, <2>2
<1> QED
  BY <1>1, <1>4, <1>6
  DEF IInv, HeldAlone, TakenHeld, NewUntouched, Receiver, Deaf,
      AnswerIsResponse, Handled

\* The user's handler is called at the end of the body, with all of it.
LEMMA BodyEndsInvariant ==
  ASSUME IInv, NEW c \in Conn, BodyEnds(c)
  PROVE  IInv'
<1>1. /\ stage[c] = "body" /\ io[c].at = "posted" /\ io[c].ec = "eof"
      /\ buffer' = [buffer EXCEPT ![c] = Committed(c)]
      /\ stage' = [stage EXCEPT ![c] = "sending"]
      /\ response' = [response EXCEPT
                        ![c] = Reply!GetResponse(Handled(response[c], id[c]))]
      /\ io' = [io EXCEPT ![c] = SendCall(id[c])]
      /\ UNCHANGED <<up, status, body, taken, size, id, area, server, answer,
                     refused>>
  BY DEF BodyEnds, Runs, requestVars
<1>2. /\ id[c] \in Request /\ status[id[c]] \in {"taken", "dropped"}
      /\ response[c] = Reply!NewResponse
      /\ Committed(c) = Bytes(0, taken[id[c]])
      /\ taken[id[c]] = body[id[c]]
  BY <1>1 DEF IInv, Fits, BodyFits, Waiting
<1>3. Committed(c) \in Seq(1 .. MaxBody)
  <2>1. /\ 0 \in Nat /\ taken[id[c]] \in Nat /\ 0 <= taken[id[c]]
        /\ taken[id[c]] <= MaxBody
    BY <1>2, BodyNumbers, QueueAssumption DEF IInv
  <2> QED
    BY <1>2, <2>1, BytesTypes
<1> DEFINE resp == Reply!GetResponse(Handled(Reply!NewResponse, id[c]))
<1>4. /\ resp \in Reply!Response
      /\ resp.chunks = Reply!Parts(Handled(Reply!NewResponse, id[c]))
  BY <1>2, ResponseParts
<1>5. response' = [response EXCEPT ![c] = resp]
  BY <1>1, <1>2
<1> HIDE DEF resp
<1>6. TypeOK'
  <2>1. io' \in [Conn -> Operation]
    BY <1>1, <1>2, CallTypes DEF IInv, TypeOK, QueueTypeOK, Operation
  <2>2. response' \in [Conn -> Reply!Response]
    BY <1>4, <1>5 DEF IInv, TypeOK
  <2>3. /\ buffer' \in [Conn -> Seq(1 .. MaxBody)]
        /\ stage' \in [Conn -> {"none", "receiving", "body", "sending"}]
    BY <1>1, <1>3 DEF IInv, TypeOK
  <2> QED
    BY <1>1, <2>1, <2>2, <2>3 DEF IInv, TypeOK, QueueTypeOK, Operation
<1>7. /\ io'[c] = SendCall(id[c]) /\ buffer'[c] = Committed(c)
      /\ stage'[c] = "sending" /\ response'[c] = resp
      /\ \A d \in Conn \ {c} :
           /\ io'[d] = io[d] /\ buffer'[d] = buffer[d]
           /\ stage'[d] = stage[d] /\ response'[d] = response[d]
  BY <1>1, <1>5 DEF IInv, TypeOK, QueueTypeOK
<1>8. \A d \in Conn : Fits(d)'
  <2>1. Fits(c)'
    <3>1. \/ io'[c] = Waiting("send") /\ status[id[c]] = "taken"
          \/ io'[c] = Posted("invalid", 0) /\ status[id[c]] = "dropped"
      BY <1>2, <1>7 DEF SendCall
    <3>2. SendingFits(c)'
      BY <1>1, <1>2, <1>4, <1>7, <3>1 DEF SendingFits, Posted, Handled
    <3> QED
      BY <1>7, <3>2 DEF Fits, IdleFits, ReceivingFits, BodyFits
  <2>2. ASSUME NEW d \in Conn \ {c}
        PROVE  Fits(d)'
    BY <1>1, <1>7, Elsewhere DEF IInv
  <2> QED
    BY <2>1, <2>2
<1>9. Receiver'
  BY <1>1, <1>7 DEF IInv, Receiver, Deaf
<1> QED
  BY <1>1, <1>6, <1>8, <1>9
  DEF IInv, HeldAlone, TakenHeld, NewUntouched, AnswerIsResponse, Handled

\* The object goes after a body that failed, and after its response.
LEMMA OverInvariant ==
  ASSUME IInv, NEW c \in Conn, BodyFails(c) \/ SendEnds(c)
  PROVE  IInv'
<1>1. /\ Destroys(c) /\ stage[c] # "receiving" /\ refused' = refused
      /\ refused' \in BOOLEAN
      /\ UNCHANGED <<requestVars, area, server, answer>>
  BY DEF BodyFails, SendEnds, Runs, IInv, TypeOK
<1>2. id[c] \in Request => status[id[c]] # "taken"
  <2>1. CASE BodyFails(c)
    BY <2>1 DEF IInv, Fits, BodyFits, BodyFails, Runs, Waiting
  <2>2. CASE SendEnds(c)
    BY <2>2 DEF IInv, Fits, SendingFits, SendEnds, Runs, Waiting
  <2> QED
    BY <2>1, <2>2
<1> QED
  BY <1>1, <1>2, DestroysInvariant

\* HTTP.sys gives a request to the object that receives.
LEMMA DeliversInvariant ==
  ASSUME IInv, NEW c \in Conn, NEW r \in Request, Delivers(c, r),
         UNCHANGED serverVars
  PROVE  IInv'
<1>1. /\ io[c] = Waiting("receive") /\ status[r] = "queued"
      /\ status' = [status EXCEPT ![r] = "taken"]
      /\ id' = [id EXCEPT ![c] = r]
      /\ io' = [io EXCEPT ![c] = Received(r, size[c])]
      /\ UNCHANGED <<up, body, taken, size, area, server, stage, buffer,
                     response, answer, refused>>
  BY DEF Delivers, serverVars, replyVars
<1>2. /\ stage[c] = "receiving" /\ id[c] = NullId /\ id[c] \notin Request
      /\ buffer[c] = <<>> /\ response[c] = Reply!NewResponse
  <2>1. stage[c] = "receiving"
    <3>1. stage[c] \in {"none", "receiving", "body", "sending"}
      BY DEF IInv, TypeOK
    <3>2. io[c].at = "receive" /\ None.at = "none"
      BY <1>1 DEF Waiting, None
    <3>3. Waiting("body").at = "body" /\ Waiting("send").at = "send"
      BY DEF Waiting
    <3> QED
      BY <3>1, <3>2, <3>3 DEF IInv, Fits, IdleFits, BodyFits, SendingFits
  <2> QED
    BY <1>1, <2>1, QueueAssumption DEF IInv, Fits, ReceivingFits, Waiting
<1>3. taken[r] = 0 /\ \A d \in Conn : id[d] # r
  BY <1>1 DEF IInv, NewUntouched
<1>4. TypeOK'
  <2>1. io' \in [Conn -> Operation]
    BY <1>1, CallTypes DEF IInv, TypeOK, QueueTypeOK, Operation
  <2>2. /\ status' \in
             [Request -> {"unsent", "queued", "taken", "answered", "dropped"}]
        /\ id' \in [Conn -> Request \cup {NullId}]
    BY <1>1 DEF IInv, TypeOK, QueueTypeOK
  <2> QED
    BY <1>1, <2>1, <2>2 DEF IInv, TypeOK, QueueTypeOK, Operation
<1>5. /\ io'[c] = Received(r, size[c]) /\ id'[c] = r /\ status'[r] = "taken"
      /\ \A d \in Conn \ {c} : io'[d] = io[d] /\ id'[d] = id[d]
      /\ \A q \in Request \ {r} : status'[q] = status[q]
  BY <1>1 DEF IInv, TypeOK, QueueTypeOK
<1>6. \A d \in Conn : Fits(d)'
  <2>1. Fits(c)'
    BY <1>1, <1>2, <1>3, <1>5
    DEF Fits, IdleFits, ReceivingFits, ReceivePosted, BodyFits, SendingFits,
        Received, Posted
  <2>2. ASSUME NEW d \in Conn \ {c}
        PROVE  Fits(d)'
    BY <1>1, <1>3, <1>5, Elsewhere DEF IInv
  <2> QED
    BY <2>1, <2>2
<1>7. HeldAlone' /\ TakenHeld' /\ NewUntouched'
  BY <1>1, <1>2, <1>3, <1>5 DEF IInv, HeldAlone, TakenHeld, NewUntouched
<1>8. Receiver' /\ AnswerIsResponse'
  BY <1>1, <1>5 DEF IInv, Receiver, Deaf, AnswerIsResponse, Handled
<1> QED
  BY <1>4, <1>6, <1>7, <1>8 DEF IInv

\* HTTP.sys writes the next bytes of the body into the buffer.
LEMMA FillsBufferInvariant ==
  ASSUME IInv, NEW c \in Conn, FillsBuffer(c), UNCHANGED serverVars
  PROVE  IInv'
<1> DEFINE r == id[c]
           n == Lesser(size[c], body[r] - taken[r])
           t == taken[r] + n
<1>1. /\ io[c] = Waiting("body")
      /\ taken' = [taken EXCEPT ![r] = t]
      /\ area' = [area EXCEPT ![c] = Bytes(taken[r], t)]
      /\ io' = [io EXCEPT ![c] = Posted("ok", n)]
      /\ UNCHANGED <<up, status, body, size, id, server, stage, buffer,
                     response, answer, refused>>
  BY DEF FillsBuffer, serverVars, replyVars
<1>2. stage[c] = "body"
  <2>1. stage[c] \in {"none", "receiving", "body", "sending"}
    BY DEF IInv, TypeOK
  <2>2. io[c].at = "body" /\ None.at = "none"
    BY <1>1 DEF Waiting, None
  <2>3. Waiting("receive").at = "receive" /\ Waiting("send").at = "send"
    BY DEF Waiting
  <2> QED
    BY <2>1, <2>2, <2>3 DEF IInv, Fits, IdleFits, ReceivingFits, SendingFits
<1>3. /\ r \in Request /\ status[r] = "taken" /\ buffer[c] = Bytes(0, taken[r])
      /\ response[c] = Reply!NewResponse
  <2>1. io[c].at # "posted"
    BY <1>1 DEF Waiting
  <2> QED
    BY <1>2, <2>1 DEF IInv, Fits, BodyFits
<1>4. /\ taken[r] \in Nat /\ n \in Nat /\ t \in Nat /\ taken[r] <= t
      /\ t <= body[r] /\ body[r] <= MaxBody /\ body[r] \in Nat
      /\ t = taken[r] + n
  <2>1. body[r] \in Nat /\ body[r] <= MaxBody /\ taken[r] \in Nat /\ taken[r] <= body[r]
    BY <1>3, BodyNumbers DEF IInv
  <2>2. size[c] \in Nat
    BY QueueAssumption DEF IInv, TypeOK, QueueTypeOK
  <2> QED
    BY <2>1, <2>2 DEF Lesser
<1> HIDE DEF n, t
<1>5. /\ Bytes(taken[r], t) \in Seq(1 .. MaxBody)
      /\ SubSeq(Bytes(taken[r], t), 1, n) = Bytes(taken[r], t)
      /\ Bytes(0, taken[r]) \o Bytes(taken[r], t) = Bytes(0, t)
  <2>1. /\ taken[r] \in Nat /\ n \in Nat /\ t \in Nat /\ taken[r] <= t /\ t <= MaxBody
        /\ taken[r] + n <= t /\ taken[r] + n = t /\ 0 \in Nat /\ 0 <= taken[r]
    BY <1>4, QueueAssumption
  <2>2. Bytes(taken[r], t) \in Seq(1 .. MaxBody)
    BY <2>1, BytesTypes
  <2>3. SubSeq(Bytes(taken[r], t), 1, n) = Bytes(taken[r], t)
    BY <2>1, BytesBeginning
  <2>4. Bytes(0, taken[r]) \o Bytes(taken[r], t) = Bytes(0, t)
    BY <2>1, BytesJoin
  <2> QED
    BY <2>2, <2>3, <2>4
<1>6. /\ taken'[r] = t /\ \A q \in Request \ {r} : taken'[q] = taken[q]
      /\ area'[c] = Bytes(taken[r], t) /\ io'[c] = Posted("ok", n)
      /\ \A d \in Conn \ {c} : area'[d] = area[d] /\ io'[d] = io[d]
  <2>1. taken'[r] = t /\ \A q \in Request \ {r} : taken'[q] = taken[q]
    BY <1>1, <1>3 DEF IInv, TypeOK, QueueTypeOK
  <2> QED
    BY <1>1, <2>1 DEF IInv, TypeOK, QueueTypeOK
<1>7. TypeOK'
  <2>1. io' \in [Conn -> Operation]
    <3>1. n \in 0 .. MaxBody + 2 /\ "ok" \in Code
      BY <1>4, QueueAssumption DEF Code
    <3>2. Posted("ok", n) \in Operation
      BY <3>1 DEF Posted, Operation
    <3> QED
      BY <1>1, <3>2 DEF IInv, TypeOK, QueueTypeOK, Operation
  <2>2. area' \in [Conn -> Seq(1 .. MaxBody)]
    BY <1>1, <1>5 DEF IInv, TypeOK, QueueTypeOK
  <2>3. /\ taken' \in [Request -> 0 .. MaxBody]
        /\ \A q \in Request : taken'[q] <= body[q]
    <3>1. t \in 0 .. MaxBody
      BY <1>4, QueueAssumption
    <3> QED
      BY <1>1, <1>4, <1>6, <3>1 DEF IInv, TypeOK, QueueTypeOK
  <2> QED
    BY <1>1, <2>1, <2>2, <2>3 DEF IInv, TypeOK, QueueTypeOK, Operation
<1>8. \A d \in Conn : Fits(d)'
  <2>1. Fits(c)'
    <3>1. io'[c].at = "posted" /\ io'[c].ec = "ok" /\ io'[c].len = n
      BY <1>6 DEF Posted
    <3>2. Committed(c)' = Bytes(0, taken'[r])
      BY <1>1, <1>3, <1>5, <1>6, <3>1 DEF Committed
    <3>3. BodyFits(c)'
      BY <1>1, <1>3, <3>1, <3>2 DEF BodyFits
    <3> QED
      BY <1>1, <1>2, <3>3 DEF Fits, IdleFits, ReceivingFits, SendingFits
  <2>2. ASSUME NEW d \in Conn \ {c}
        PROVE  Fits(d)'
    <3>1. id[d] \in Request => id[d] # r
      BY <1>3 DEF IInv, HeldAlone
    <3> QED
      BY <1>1, <1>6, <3>1, Elsewhere DEF IInv
  <2> QED
    BY <2>1, <2>2
<1>9. NewUntouched'
  BY <1>1, <1>3, <1>6 DEF IInv, NewUntouched
<1> QED
  BY <1>1, <1>7, <1>8, <1>9
  DEF IInv, HeldAlone, TakenHeld, Receiver, Deaf, AnswerIsResponse, Handled

\* A response is sent: the answer to the request its object holds.
LEMMA AnswersInvariant ==
  ASSUME IInv, NEW c \in Conn, Answers(c)
  PROVE  IInv'
<1> DEFINE r == id[c]
<1>1. /\ io[c] = Waiting("send")
      /\ status' = [status EXCEPT ![r] = "answered"]
      /\ io' = [io EXCEPT ![c] = Posted("ok", 0)]
      /\ UNCHANGED <<up, body, taken, size, id, area, server, stage, buffer,
                     response, refused>>
  BY DEF Answers, Sent
<1>2. stage[c] = "sending"
  <2>1. stage[c] \in {"none", "receiving", "body", "sending"}
    BY DEF IInv, TypeOK
  <2>2. io[c].at = "send" /\ None.at = "none"
    BY <1>1 DEF Waiting, None
  <2>3. Waiting("receive").at = "receive" /\ Waiting("body").at = "body"
    BY DEF Waiting
  <2> QED
    BY <2>1, <2>2, <2>3 DEF IInv, Fits, IdleFits, ReceivingFits, BodyFits
<1>3. /\ r \in Request /\ status[r] = "taken"
      /\ buffer[c] = Bytes(0, body[r])
      /\ response[c].chunks = Reply!Parts(Handled(Reply!NewResponse, r))
  <2>1. io[c].at # "posted"
    BY <1>1 DEF Waiting
  <2> QED
    BY <1>2, <2>1 DEF IInv, Fits, SendingFits
<1>4. PICK a \in {response[c].chunks} \cup (IF Kept(c) THEN {} ELSE {Freed}) :
        answer' = [answer EXCEPT ![r] = a]
  BY DEF Answers
<1>5. /\ a \in Seq(Reply!Chunk) \cup {Freed}
      /\ \/ a = Reply!Parts(Handled(Reply!NewResponse, r))
         \/ a = Freed /\ server = "controller"
  <2>1. response[c].chunks \in Seq(Reply!Chunk)
    BY DEF IInv, TypeOK, Reply!Response
  <2> QED
    BY <1>3, <2>1 DEF IInv, TypeOK, Kept
<1>6. /\ status'[r] = "answered" /\ \A q \in Request \ {r} : status'[q] = status[q]
      /\ answer'[r] = a /\ \A q \in Request \ {r} : answer'[q] = answer[q]
      /\ io'[c] = Posted("ok", 0) /\ \A d \in Conn \ {c} : io'[d] = io[d]
  BY <1>1, <1>3, <1>4 DEF IInv, TypeOK, QueueTypeOK
<1>7. TypeOK'
  <2>1. io' \in [Conn -> Operation]
    <3>1. Posted("ok", 0) \in Operation
      BY OperationTypes DEF Code
    <3> QED
      BY <1>1, <3>1 DEF IInv, TypeOK, QueueTypeOK, Operation
  <2>2. answer' \in [Request -> Seq(Reply!Chunk) \cup {Freed}]
    BY <1>4, <1>5 DEF IInv, TypeOK
  <2>3. status' \in
          [Request -> {"unsent", "queued", "taken", "answered", "dropped"}]
    BY <1>1 DEF IInv, TypeOK, QueueTypeOK
  <2> QED
    BY <1>1, <2>1, <2>2, <2>3 DEF IInv, TypeOK, QueueTypeOK, Operation
<1>8. \A d \in Conn : Fits(d)'
  <2>1. Fits(c)'
    <3>1. SendingFits(c)'
      BY <1>1, <1>3, <1>6 DEF SendingFits, Posted, Handled
    <3> QED
      BY <1>1, <1>2, <3>1 DEF Fits, IdleFits, ReceivingFits, BodyFits
  <2>2. ASSUME NEW d \in Conn \ {c}
        PROVE  Fits(d)'
    <3>1. id[d] \in Request => id[d] # r
      BY <1>3 DEF IInv, HeldAlone
    <3> QED
      BY <1>1, <1>6, <3>1, Elsewhere DEF IInv
  <2> QED
    BY <2>1, <2>2
<1>9. TakenHeld' /\ NewUntouched'
  BY <1>1, <1>3, <1>6 DEF IInv, TakenHeld, NewUntouched
<1>10. AnswerIsResponse'
  BY <1>1, <1>5, <1>6 DEF IInv, AnswerIsResponse, Handled
<1> QED
  BY <1>1, <1>7, <1>8, <1>9, <1>10 DEF IInv, HeldAlone, Receiver, Deaf

\* A client's request comes in.
LEMMA ArrivesInvariant ==
  ASSUME IInv, NEW r \in Request, Arrives(r), UNCHANGED serverVars
  PROVE  IInv'
<1>1. /\ status[r] = "unsent"
      /\ status' = [status EXCEPT ![r] = IF up THEN "queued" ELSE "dropped"]
      /\ UNCHANGED <<up, body, taken, io, size, id, area, server, stage,
                     buffer, response, answer, refused>>
  BY DEF Arrives, serverVars, replyVars
<1>2. TypeOK'
  <2>1. status' \in
          [Request -> {"unsent", "queued", "taken", "answered", "dropped"}]
    BY <1>1 DEF IInv, TypeOK, QueueTypeOK
  <2> QED
    BY <1>1, <2>1 DEF IInv, TypeOK, QueueTypeOK
<1>3. /\ status'[r] \in {"queued", "dropped"}
      /\ \A q \in Request \ {r} : status'[q] = status[q]
  BY <1>1 DEF IInv, TypeOK, QueueTypeOK
<1>4. ASSUME NEW d \in Conn
      PROVE  Fits(d)'
  <2>1. id[d] # r
    BY <1>1 DEF IInv, NewUntouched
  <2> QED
    BY <1>1, <1>3, <2>1, Elsewhere DEF IInv
<1> QED
  BY <1>1, <1>2, <1>3, <1>4
  DEF IInv, HeldAlone, TakenHeld, NewUntouched, Receiver, Deaf,
      AnswerIsResponse, Handled

\* A client goes: what its request waits for fails.
LEMMA DropsInvariant ==
  ASSUME IInv, NEW r \in Request, Drops(r), UNCHANGED serverVars
  PROVE  IInv'
<1>1. /\ status[r] \in {"queued", "taken"}
      /\ status' = [status EXCEPT ![r] = "dropped"]
      /\ io' = [c \in Conn |-> IF io[c].at \in {"body", "send"} /\ id[c] = r
                               THEN Posted("invalid", 0) ELSE io[c]]
      /\ UNCHANGED <<up, body, taken, size, id, area, server, stage, buffer,
                     response, answer, refused>>
  BY DEF Drops, serverVars, replyVars
<1>2. TypeOK'
  <2>1. status' \in
          [Request -> {"unsent", "queued", "taken", "answered", "dropped"}]
    BY <1>1 DEF IInv, TypeOK, QueueTypeOK
  <2>2. io' \in [Conn -> Operation]
    <3>1. Posted("invalid", 0) \in Operation
      BY OperationTypes DEF Code
    <3> QED
      BY <1>1, <3>1 DEF IInv, TypeOK, QueueTypeOK, Operation
  <2> QED
    BY <1>1, <2>1, <2>2 DEF IInv, TypeOK, QueueTypeOK, Operation
<1>3. status'[r] = "dropped" /\ \A q \in Request \ {r} : status'[q] = status[q]
  BY <1>1 DEF IInv, TypeOK, QueueTypeOK
<1>4. ASSUME NEW d \in Conn
      PROVE  Fits(d)'
  <2>1. CASE id[d] # r
    <3>1. io'[d] = io[d]
      BY <1>1, <2>1
    <3> QED
      BY <1>1, <1>3, <2>1, <3>1, Elsewhere DEF IInv
  <2>2. CASE id[d] = r
    <3>1. io[d].at = "body" => stage[d] # "sending"
      BY DEF IInv, Fits, SendingFits, Waiting
    <3>2. Fits(d) /\ Waiting("body").at = "body" /\ Waiting("send").at = "send"
          /\ Waiting("receive").at = "receive"
      BY DEF IInv, Waiting
    <3>3. IdleFits(d)'
      BY <1>1, <2>2, <3>2, QueueAssumption DEF Fits, IdleFits
    <3>4. ReceivingFits(d)'
      <4> SUFFICES ASSUME stage[d] = "receiving"
                   PROVE  ReceivingFits(d)'
        BY <1>1 DEF ReceivingFits
      <4>1. io[d].at = "posted" /\ ReceivePosted(d)
        BY <2>2, <3>2, QueueAssumption DEF Fits, ReceivingFits
      <4>2. io'[d] = io[d]
        BY <1>1, <4>1
      <4> QED
        BY <1>1, <1>3, <2>2, <3>2, <4>1, <4>2
        DEF Fits, ReceivingFits, ReceivePosted
    <3>5. BodyFits(d)'
      <4> SUFFICES ASSUME stage[d] = "body"
                   PROVE  BodyFits(d)'
        BY <1>1 DEF BodyFits
      <4>1. CASE io[d].at = "body"
        <5>1. io'[d] = Posted("invalid", 0)
          BY <1>1, <2>2, <4>1
        <5> QED
          BY <1>1, <1>3, <2>2, <3>2, <5>1 DEF Fits, BodyFits, Posted
      <4>2. CASE io[d].at = "posted"
        <5>1. io'[d] = io[d]
          BY <1>1, <4>2
        <5> QED
          BY <1>1, <1>3, <2>2, <3>2, <4>2, <5>1 DEF Fits, BodyFits, Committed
      <4> QED
        BY <3>2, <4>1, <4>2 DEF Fits, BodyFits
    <3>6. SendingFits(d)'
      <4> SUFFICES ASSUME stage[d] = "sending"
                   PROVE  SendingFits(d)'
        BY <1>1 DEF SendingFits
      <4>1. io'[d].at = "posted"
        BY <1>1, <2>2, <3>2 DEF Fits, SendingFits, Posted
      <4> QED
        BY <1>1, <1>3, <2>2, <3>2, <4>1 DEF Fits, SendingFits, Handled
    <3> QED
      BY <3>3, <3>4, <3>5, <3>6 DEF Fits
  <2> QED
    BY <2>1, <2>2
<1>5. TakenHeld' /\ NewUntouched' /\ AnswerIsResponse'
  BY <1>1, <1>3 DEF IInv, TakenHeld, NewUntouched, AnswerIsResponse, Handled
<1> QED
  BY <1>1, <1>2, <1>4, <1>5 DEF IInv, HeldAlone, Receiver, Deaf

\* The queue is shut down: the receive that waits is cancelled.
LEMMA ShutdownInvariant ==
  ASSUME IInv, Shutdown, UNCHANGED serverVars
  PROVE  IInv'
<1>1. /\ up' = FALSE
      /\ status' = [r \in Request |-> IF status[r] = "queued" THEN "dropped"
                                      ELSE status[r]]
      /\ io' = [c \in Conn |-> IF io[c] = Waiting("receive")
                               THEN Posted("aborted", 0) ELSE io[c]]
      /\ UNCHANGED <<body, taken, size, id, area, server, stage, buffer,
                     response, answer, refused>>
  BY DEF Shutdown, serverVars, replyVars
<1>2. TypeOK'
  <2>1. status' \in
          [Request -> {"unsent", "queued", "taken", "answered", "dropped"}]
    BY <1>1 DEF IInv, TypeOK, QueueTypeOK
  <2>2. io' \in [Conn -> Operation]
    <3>1. Posted("aborted", 0) \in Operation
      BY OperationTypes DEF Code
    <3> QED
      BY <1>1, <3>1 DEF IInv, TypeOK, QueueTypeOK, Operation
  <2> QED
    BY <1>1, <2>1, <2>2 DEF IInv, TypeOK, QueueTypeOK, Operation
<1>3. \A r \in Request : status[r] # "queued" => status'[r] = status[r]
  BY <1>1
<1>4. ASSUME NEW d \in Conn
      PROVE  Fits(d)'
  <2>1. id[d] \in Request => status'[id[d]] = status[id[d]]
    BY <1>3 DEF IInv, NewUntouched
  <2>2. CASE io[d] # Waiting("receive")
    <3>1. io'[d] = io[d]
      BY <1>1, <2>2
    <3> QED
      BY <1>1, <2>1, <3>1, Elsewhere DEF IInv
  <2>3. CASE io[d] = Waiting("receive")
    <3>1. stage[d] = "receiving"
      <4>1. stage[d] \in {"none", "receiving", "body", "sending"}
        BY DEF IInv, TypeOK
      <4>2. io[d].at = "receive" /\ None.at = "none"
        BY <2>3 DEF Waiting, None
      <4>3. Waiting("body").at = "body" /\ Waiting("send").at = "send"
        BY DEF Waiting
      <4> QED
        BY <4>1, <4>2, <4>3 DEF IInv, Fits, IdleFits, BodyFits, SendingFits
    <3>2. /\ id[d] = NullId /\ id[d] \notin Request /\ buffer[d] = <<>>
          /\ response[d] = Reply!NewResponse
      BY <2>3, <3>1, QueueAssumption DEF IInv, Fits, ReceivingFits, Waiting
    <3>3. io'[d] = Posted("aborted", 0)
      BY <1>1, <2>3
    <3> QED
      BY <1>1, <3>1, <3>2, <3>3
      DEF Fits, IdleFits, ReceivingFits, ReceivePosted, BodyFits, SendingFits,
          Posted
  <2> QED
    BY <2>2, <2>3
<1>5. TakenHeld' /\ NewUntouched' /\ AnswerIsResponse'
  BY <1>1 DEF IInv, TakenHeld, NewUntouched, AnswerIsResponse, Handled
<1> QED
  BY <1>1, <1>2, <1>4, <1>5 DEF IInv, HeldAlone, Receiver, Deaf

LEMMA StepInvariant == IInv /\ [Next]_vars => IInv'
<1> SUFFICES ASSUME IInv, [Next]_vars
             PROVE  IInv'
  OBVIOUS
<1>1. ASSUME NEW c \in Conn, Handler(c)
      PROVE  IInv'
  BY <1>1, RetryInvariant, AcceptsInvariant, RefusesInvariant,
     BodyContinuesInvariant, BodyEndsInvariant, OverInvariant
  DEF Handler
<1>2. ASSUME NEW c \in Conn, Kernel(c)
      PROVE  IInv'
  BY <1>2, DeliversInvariant, FillsBufferInvariant, AnswersInvariant
  DEF Kernel, Receives
<1>3. CASE Outside
  BY <1>3, ArrivesInvariant, DropsInvariant, ShutdownInvariant DEF Outside
<1>4. CASE UNCHANGED vars
  <2>1. UNCHANGED <<up, status, body, taken, io, size, id, area, server, stage,
                    buffer, response, answer, refused>>
    BY <1>4 DEF vars, queueVars, requestVars, serverVars, replyVars
  <2>2. \A c \in Conn : Fits(c)'
    BY <2>1, Elsewhere DEF IInv
  <2> QED
    BY <2>1, <2>2
    DEF IInv, TypeOK, QueueTypeOK, HeldAlone, TakenHeld, NewUntouched, Receiver,
        Deaf, AnswerIsResponse, Handled
<1> QED
  BY <1>1, <1>2, <1>3, <1>4 DEF Next, Quiet

LEMMA Invariance == SafeSpec => []IInv
  BY InitInvariant, StepInvariant, PTL DEF SafeSpec

(***************************************************************************)
(* The theorems.                                                           *)
(***************************************************************************)

\* The types: no length leaves its buffer, nothing of a body is made up.
THEOREM TypeCorrect == SafeSpec => []TypeOK
<1>1. IInv => TypeOK
  BY DEF IInv
<1> QED
  BY <1>1, Invariance, PTL

\* Exactly one object receives, however many are in use, until a receive of
\* an http_connection fails (temp.hpp:86, basic_http_controller.hpp:115).
THEOREM OneReceivesThm == SafeSpec => []OneReceives
<1>1. IInv => OneReceives
  <2> SUFFICES ASSUME IInv
               PROVE  OneReceives
    OBVIOUS
  <2> DEFINE R == {c \in Conn : stage[c] = "receiving"}
  <2>1. CASE Deaf
    <3>1. R = {}
      BY <2>1 DEF IInv, Receiver
    <3> QED
      BY <2>1, <3>1, FS_EmptySet DEF OneReceives, Deaf
  <2>2. CASE ~Deaf
    <3>1. PICK c \in Conn : R = {c}
      BY <2>2 DEF IInv, Receiver
    <3> QED
      BY <2>2, <3>1, FS_Singleton DEF OneReceives, Deaf
  <2> QED
    BY <2>1, <2>2
<1> QED
  BY <1>1, Invariance, PTL

\* A request that was given away is held by one object until it is answered
\* or dropped, also when it took two receives (http_asio.hpp:64-68).
THEOREM HeldOnceThm == SafeSpec => []HeldOnce
<1>1. IInv => HeldOnce
  <2> SUFFICES ASSUME IInv, NEW r \in Request, status[r] = "taken"
               PROVE  Cardinality({c \in Conn : id[c] = r}) = 1
    BY DEF HeldOnce
  <2>1. PICK c \in Conn : id[c] = r
    BY DEF IInv, TakenHeld
  <2>2. {d \in Conn : id[d] = r} = {c}
    BY <2>1 DEF IInv, HeldAlone
  <2> QED
    BY <2>2, FS_Singleton
<1> QED
  BY <1>1, Invariance, PTL

\* The user's handler has the whole body and nothing else, for any length and
\* any hint (http_asio.hpp:141-153).
THEOREM WholeBodyHandledThm == SafeSpec => []WholeBodyHandled
<1>1. IInv => WholeBodyHandled
  BY DEF IInv, Fits, SendingFits, WholeBodyHandled
<1> QED
  BY <1>1, Invariance, PTL

\* A request is answered with the parts set for it, once each and in order,
\* or with freed memory, by a controller (convert.hpp:206-238,
\* basic_http_controller.hpp:152).
THEOREM AnswerIsResponseThm == SafeSpec => []AnswerIsResponse
<1>1. IInv => AnswerIsResponse
  BY DEF IInv
<1> QED
  BY <1>1, Invariance, PTL
=============================================================================
