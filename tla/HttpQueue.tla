------------------------------ MODULE HttpQueue ------------------------------
(***************************************************************************)
(* A request queue of HTTP.sys and basic_http_queue_handle, which turns    *)
(* its calls into asio operations: what a call returns and what the        *)
(* completion port reports later are both posted to the handler, as a      *)
(* code and a length.  HTTP.sys itself is outside the repository; it is    *)
(* modelled as far as the code written against it relies on it.            *)
(*                                                                         *)
(* The headers of a request are as long as the first buffer the server     *)
(* offers, 1, or longer, 2.                                                *)
(***************************************************************************)
EXTENDS ByteSeqs, FiniteSets

CONSTANTS
  Request,    \* bound: the requests clients send
  Big,        \* those whose headers need more than the first buffer
  Conn,       \* bound: the connection objects or request contexts
  NullId,     \* HTTP_NULL_ID
  MaxBody,    \* bound: the longest body of a request, in bytes
  MayDrop     \* whether a client may drop its connection

ASSUME QueueAssumption ==
  /\ Big \subseteq Request
  /\ NullId \notin Request
  /\ MaxBody \in Nat
  /\ MayDrop \in BOOLEAN

VARIABLES
  up,      \* HttpShutdownRequestQueue has not been called
  status,  \* of a request
  body,    \* the length of its body
  taken,   \* bytes of its body the server has been given
  io,      \* of a connection: its overlapped operation
  size,    \* the length of the buffer given with that operation
  id,      \* RequestId in the connection's request buffer
  area     \* what HTTP.sys wrote into the last buffer for a body

requestVars == <<up, status, body, taken>>
queueVars == <<requestVars, io, size, id, area>>

Code == {"ok", "more_data", "eof", "aborted", "invalid", "insufficient"}

None == [at |-> "none", ec |-> "ok", len |-> 0]

\* An operation of kind k, "receive", "body" or "send", that HTTP.sys holds.
Waiting(k) == [at |-> k, ec |-> "ok", len |-> 0]

\* A completion on its way to the handler.
Posted(e, n) == [at |-> "posted", ec |-> e, len |-> n]

QueueTypeOK ==
  /\ up \in BOOLEAN
  /\ status \in
       [Request -> {"unsent", "queued", "taken", "answered", "dropped"}]
  /\ body \in [Request -> 0 .. MaxBody]
  /\ taken \in [Request -> 0 .. MaxBody]
  /\ \A r \in Request : taken[r] <= body[r]
  /\ io \in [Conn -> [at : {"none", "receive", "body", "send", "posted"},
                      ec : Code, len : 0 .. MaxBody + 2]]
  /\ size \in [Conn -> 0 .. MaxBody + 2]
  /\ id \in [Conn -> Request \cup {NullId}]
  /\ area \in [Conn -> Seq(1 .. MaxBody)]

QueueInit ==
  /\ up = TRUE
  /\ status = [r \in Request |-> "unsent"]
  /\ body \in [Request -> 0 .. MaxBody]
  /\ taken = [r \in Request |-> 0]
  /\ area = [c \in Conn |-> <<>>]

HeaderSize(r) == IF r \in Big THEN 2 ELSE 1

\* How a receive of r into a buffer of n ends: the length is what was
\* written, or what would have been needed.
Received(r, n) ==
  Posted(IF HeaderSize(r) <= n THEN "ok" ELSE "more_data", HeaderSize(r))

(***************************************************************************)
(* The calls.  A call that pends or succeeds is completed by the port; any *)
(* other result is posted by optr.complete(ec, 0), with no length.         *)
(***************************************************************************)

\* async_recieve_request for any request, with HTTP_NULL_ID, by c, after the
\* handler has brought the operations to ios and the ids to ids.
ReceiveAny(c, ios, ids) ==
  /\ io' = [ios EXCEPT ![c] = IF up THEN Waiting("receive")
                              ELSE Posted("aborted", 0)]
  /\ id' = [ids EXCEPT ![c] = NullId]

\* How async_recieve_request ends for one request, by its id.
ReceiveById(r, n) ==
  IF n = 0 THEN Posted("insufficient", 0)
  ELSE IF status[r] = "dropped" THEN Posted("invalid", 0)
  ELSE Received(r, n)

\* async_recieve_body with FILL_BUFFER: nothing left, or it waits.
BodyCall(r) ==
  IF status[r] = "dropped" THEN Posted("invalid", 0)
  ELSE IF taken[r] = body[r] THEN Posted("eof", 0)
  ELSE Waiting("body")

\* async_send_response.
SendCall(r) ==
  IF status[r] = "dropped" THEN Posted("invalid", 0) ELSE Waiting("send")

(***************************************************************************)
(* What HTTP.sys does of its own accord.                                   *)
(***************************************************************************)

\* A client's request arrives.
Arrives(r) ==
  /\ status[r] = "unsent"
  /\ status' = [status EXCEPT ![r] = IF up THEN "queued" ELSE "dropped"]
  /\ UNCHANGED <<up, body, taken, io, size, id, area>>

\* A waiting receive is given a request.
Delivers(c, r) ==
  /\ io[c] = Waiting("receive")
  /\ status[r] = "queued"
  /\ status' = [status EXCEPT ![r] = "taken"]
  /\ id' = [id EXCEPT ![c] = r]
  /\ io' = [io EXCEPT ![c] = Received(r, size[c])]
  /\ UNCHANGED <<up, body, taken, size, area>>

\* A waiting read of the body fills its buffer, or reaches the end.
FillsBuffer(c) ==
  /\ io[c] = Waiting("body")
  /\ LET r == id[c]
         n == Lesser(size[c], body[r] - taken[r])
     IN  /\ taken' = [taken EXCEPT ![r] = @ + n]
         /\ area' = [area EXCEPT ![c] = Bytes(taken[r], taken[r] + n)]
         /\ io' = [io EXCEPT ![c] = Posted("ok", n)]
  /\ UNCHANGED <<up, status, body, size, id>>

\* A waiting response has been sent.
Sent(c) ==
  /\ io[c] = Waiting("send")
  /\ status' = [status EXCEPT ![id[c]] = "answered"]
  /\ io' = [io EXCEPT ![c] = Posted("ok", 0)]
  /\ UNCHANGED <<up, body, taken, size, id, area>>

\* A client drops its connection; what waits for it fails.
Drops(r) ==
  /\ MayDrop
  /\ status[r] \in {"queued", "taken"}
  /\ status' = [status EXCEPT ![r] = "dropped"]
  /\ io' = [c \in Conn |-> IF io[c].at \in {"body", "send"} /\ id[c] = r
                           THEN Posted("invalid", 0) ELSE io[c]]
  /\ UNCHANGED <<up, body, taken, size, id, area>>

\* shutdown: HttpShutdownRequestQueue cancels the receives that wait, and no
\* request is queued any more.
Shutdown ==
  /\ up
  /\ up' = FALSE
  /\ status' = [r \in Request |-> IF status[r] = "queued" THEN "dropped"
                                  ELSE status[r]]
  /\ io' = [c \in Conn |-> IF io[c] = Waiting("receive")
                           THEN Posted("aborted", 0) ELSE io[c]]
  /\ UNCHANGED <<body, taken, size, id, area>>
=============================================================================
