----------------------------- MODULE HttpServer -----------------------------
(***************************************************************************)
(* async_receive, async_receive_body and the two servers built on them:    *)
(* http_connection, where each connection object starts the next one once  *)
(* it has a request, and basic_http_controller, which receives the next    *)
(* request before it looks at the outcome of the last receive.  Either way *)
(* a request goes through receive, receive_body, the user's handler and    *)
(* send_response, in one object, while other objects are at other points.  *)
(*                                                                         *)
(* A handler is one action: what it calls never waits, and touches nothing *)
(* of another object, so nothing that happens between two of its calls can *)
(* tell them from calls made at once.                                      *)
(***************************************************************************)
EXTENDS HttpQueue

CONSTANTS
  Hint,      \* body_size_hint
  Routed,    \* the requests whose URL and verb are in the controller's table
  Trailing,  \* those whose answer has trailers
  Empty,     \* an empty part of a response
  Freed      \* what HTTP.sys finds in memory that was freed

ASSUME ServerAssumption ==
  /\ Hint \in Nat \ {0}
  /\ Hint <= MaxBody + 2
  /\ Routed \subseteq Request
  /\ Trailing \subseteq Request
  /\ Empty \notin Request

\* What an answer says is the request it is the answer to.
Reply == INSTANCE HttpResponse WITH Text <- Request

VARIABLES
  server,   \* which of the two was started: "connection" or "controller"
  stage,    \* of an object: "none", "receiving", "body" or "sending"
  buffer,   \* its body buffer
  response, \* its response
  answer,   \* of a request: the chunks HTTP.sys sent for it
  refused   \* history: some receive has ended with an error

replyVars == <<response, answer>>
serverVars == <<server, stage, buffer, replyVars, refused>>
vars == <<queueVars, serverVars>>

TypeOK ==
  /\ QueueTypeOK
  /\ size \in [Conn -> {0, 1, 2, Hint}]
  /\ server \in {"connection", "controller"}
  /\ stage \in [Conn -> {"none", "receiving", "body", "sending"}]
  /\ buffer \in [Conn -> Seq(1 .. MaxBody)]
  /\ response \in [Conn -> Reply!Response]
  /\ answer \in [Request -> Seq(Reply!Chunk) \cup {Freed}]
  /\ refused \in BOOLEAN

\* The first buffer for a request.
InitialSize == 1

\* start() has been called on the first object.
Init ==
  /\ QueueInit
  /\ server \in {"connection", "controller"}
  /\ \E c \in Conn :
       /\ stage = [d \in Conn |-> IF d = c THEN "receiving" ELSE "none"]
       /\ io = [d \in Conn |-> IF d = c THEN Waiting("receive")
                               ELSE None]
       /\ size = [d \in Conn |-> IF d = c THEN InitialSize ELSE 0]
  /\ id = [d \in Conn |-> NullId]
  /\ buffer = [d \in Conn |-> <<>>]
  /\ response = [d \in Conn |-> Reply!NewResponse]
  /\ answer = [r \in Request |-> <<>>]
  /\ refused = FALSE

Unused == {c \in Conn : stage[c] = "none"}

\* The handler of c runs, at this stage and with one of these codes.
Runs(c, s, codes) ==
  /\ stage[c] = s
  /\ io[c].at = "posted"
  /\ io[c].ec \in codes

\* Faulty variant: the object is kept for another request, and its response
\* with it.
DestroysNot(c) ==
  /\ stage' = [stage EXCEPT ![c] = "none"]
  /\ io' = [io EXCEPT ![c] = None]
  /\ id' = [id EXCEPT ![c] = NullId]
  /\ size' = [size EXCEPT ![c] = 0]
  /\ buffer' = [buffer EXCEPT ![c] = <<>>]
  /\ UNCHANGED response

\* The object goes with the last handler that refers to it.
Destroys(c) ==
  /\ stage' = [stage EXCEPT ![c] = "none"]
  /\ io' = [io EXCEPT ![c] = None]
  /\ id' = [id EXCEPT ![c] = NullId]
  /\ size' = [size EXCEPT ![c] = 0]
  /\ buffer' = [buffer EXCEPT ![c] = <<>>]
  /\ response' = [response EXCEPT ![c] = Reply!NewResponse]

(***************************************************************************)
(* async_receive.                                                          *)
(***************************************************************************)

\* Faulty variant: the length is not heeded.
RetrySameSize(c) ==
  /\ Runs(c, "receiving", {"more_data"})
  /\ io' = [io EXCEPT ![c] = ReceiveById(id[c], size[c])]
  /\ UNCHANGED <<requestVars, size, id, area, serverVars>>

\* Faulty variant: the id is reset before the second receive, too.
RetryAny(c) ==
  /\ Runs(c, "receiving", {"more_data"})
  /\ size' = [size EXCEPT ![c] = io[c].len]
  /\ ReceiveAny(c, io, id)
  /\ UNCHANGED <<requestVars, area, serverVars>>

\* ERROR_MORE_DATA: prepare the length that was reported and receive again,
\* by the id the short buffer was left with.
Retry(c) ==
  /\ Runs(c, "receiving", {"more_data"})
  /\ size' = [size EXCEPT ![c] = io[c].len]
  /\ io' = [io EXCEPT ![c] = ReceiveById(id[c], io[c].len)]
  /\ UNCHANGED <<requestVars, id, area, serverVars>>

\* Faulty variant: nobody receives the next request.
AcceptsOnly(c) ==
  /\ Runs(c, "receiving", {"ok", "eof"})
  /\ io' = [io EXCEPT ![c] = BodyCall(id[c])]
  /\ stage' = [stage EXCEPT ![c] = "body"]
  /\ size' = [size EXCEPT ![c] = Hint]
  /\ UNCHANGED <<requestVars, id, area, server, buffer, replyVars, refused>>

\* The receive succeeds: this object goes on to read the body, another one
\* receives the next request.  async_receive_op treats the end of a file like
\* a success; no receive of HttpQueue ends so.
Accepts(c) ==
  /\ Runs(c, "receiving", {"ok", "eof"})
  /\ \E d \in Unused :
       /\ ReceiveAny(d, [io EXCEPT ![c] = BodyCall(id[c])], id)
       /\ stage' = [stage EXCEPT ![c] = "body", ![d] = "receiving"]
       /\ size' = [size EXCEPT ![c] = Hint, ![d] = InitialSize]
  /\ UNCHANGED <<requestVars, area, server, buffer, replyVars, refused>>

\* Faulty variant: a connection receives again after an error.
RefusesNever(c) ==
  /\ Runs(c, "receiving", Code \ {"ok", "eof", "more_data"})
  /\ ReceiveAny(c, io, id)
  /\ size' = [size EXCEPT ![c] = InitialSize]
  /\ UNCHANGED <<requestVars, area, serverVars>>

\* The receive fails.  The controller has begun to receive again by then, in
\* a new context that takes the place of this one; a connection just goes.
Refuses(c) ==
  /\ Runs(c, "receiving", Code \ {"ok", "eof", "more_data"})
  /\ refused' = TRUE
  /\ IF server = "controller"
     THEN /\ ReceiveAny(c, io, id)
          /\ size' = [size EXCEPT ![c] = InitialSize]
          /\ UNCHANGED <<stage, buffer, response>>
     ELSE Destroys(c)
  /\ UNCHANGED <<requestVars, area, server, answer>>

(***************************************************************************)
(* async_receive_body and what follows it.                                 *)
(***************************************************************************)

\* Faulty variant: a read that did not fill its buffer is not committed.
CommittedIfFull(c) ==
  IF io[c].len < Hint THEN buffer[c] ELSE buffer[c] \o area[c]

\* buff_.commit(len).
Committed(c) == buffer[c] \o SubSeq(area[c], 1, io[c].len)

\* Faulty variant: the buffer grows by what was read.
NextSizeGrows(len) == Hint + len

\* The length of the next read: after one that did not fill its buffer, the
\* shortest there is, as only the end can follow.
NextSize(len) == IF len < Hint THEN 1 ELSE Hint

BodyContinues(c) ==
  /\ Runs(c, "body", {"ok"})
  /\ buffer' = [buffer EXCEPT ![c] = Committed(c)]
  /\ size' = [size EXCEPT ![c] = NextSize(io[c].len)]
  /\ io' = [io EXCEPT ![c] = BodyCall(id[c])]
  /\ UNCHANGED <<requestVars, id, area, server, stage, replyVars, refused>>

\* The user's handler sets the response to request r.  A controller answers
\* a request that is not in its table itself, 404 without a body.
Handled(resp, r) ==
  IF server = "controller" /\ r \notin Routed THEN resp
  ELSE Reply!AddTrailer(Reply!SetBody(resp, r),
                        IF r \in Trailing THEN r ELSE Empty)

\* ERROR_HANDLE_EOF: the user's handler is called with the whole request, and
\* its response is sent.
BodyEnds(c) ==
  /\ Runs(c, "body", {"eof"})
  /\ buffer' = [buffer EXCEPT ![c] = Committed(c)]
  /\ stage' = [stage EXCEPT ![c] = "sending"]
  /\ response' = [response EXCEPT
                    ![c] = Reply!GetResponse(Handled(@, id[c]))]
  /\ io' = [io EXCEPT ![c] = SendCall(id[c])]
  /\ UNCHANGED <<requestVars, size, id, area, server, answer, refused>>

\* Any other error of the body is dropped, and the request with it.
BodyFails(c) ==
  /\ Runs(c, "body", Code \ {"ok", "eof"})
  /\ Destroys(c)
  /\ UNCHANGED <<requestVars, area, server, answer, refused>>

\* The handler of async_send_response does nothing, whatever the outcome.
SendEnds(c) ==
  /\ Runs(c, "sending", Code)
  /\ Destroys(c)
  /\ UNCHANGED <<requestVars, area, server, answer, refused>>

Handler(c) ==
  \/ Retry(c) \/ Accepts(c) \/ Refuses(c)
  \/ BodyContinues(c) \/ BodyEnds(c) \/ BodyFails(c) \/ SendEnds(c)

(***************************************************************************)
(* The system.                                                             *)
(***************************************************************************)

\* Faulty variant: the send handler of a connection does not hold it.
KeptByNobody(c) == FALSE

\* The object HTTP.sys was given pointers into lives until the response is
\* sent: a connection is held by the send handler.  A controller's handler
\* holds a copy of the context, and the context itself goes with the handler
\* of the body.
Kept(c) == server = "connection"

\* HTTP.sys reads the response when it is given it, or later.
Answers(c) ==
  /\ Sent(c)
  /\ \E a \in {response[c].chunks} \cup (IF Kept(c) THEN {} ELSE {Freed}) :
       answer' = [answer EXCEPT ![id[c]] = a]
  /\ UNCHANGED <<server, stage, buffer, response, refused>>

Receives(c) ==
  /\ (\E r \in Request : Delivers(c, r)) \/ FillsBuffer(c)
  /\ UNCHANGED serverVars

Kernel(c) == Receives(c) \/ Answers(c)

Outside ==
  /\ (\E r \in Request : Arrives(r) \/ Drops(r)) \/ Shutdown
  /\ UNCHANGED serverVars

\* Nothing is under way but a receive, or nothing at all.
Quiet ==
  /\ \A c \in Conn : io[c] \in {None, Waiting("receive")}
  /\ UNCHANGED vars

Next ==
  \/ \E c \in Conn : Handler(c) \/ Kernel(c)
  \/ Outside
  \/ Quiet

SafeSpec == Init /\ [][Next]_vars

\* The io_context runs what is posted to it, HTTP.sys carries out what it
\* has been asked to do.
Fairness == \A c \in Conn : WF_vars(Handler(c)) /\ WF_vars(Kernel(c))

Spec == SafeSpec /\ Fairness

(***************************************************************************)
(* Properties.                                                             *)
(***************************************************************************)

\* One object receives at a time, and one always does: no request finds the
\* server deaf between two connections.  An http_connection stops at the
\* first receive that fails, a controller at none (temp.hpp:86,
\* basic_http_controller.hpp:115).
OneReceives ==
  Cardinality({c \in Conn : stage[c] = "receiving"}) =
    IF refused /\ server = "connection" THEN 0 ELSE 1

\* A request HTTP.sys has given away is in the hands of one object until it is
\* answered, also when its headers took two receives (http_asio.hpp:64-68).
HeldOnce ==
  \A r \in Request : status[r] = "taken" =>
    Cardinality({c \in Conn : id[c] = r}) = 1

\* The user's handler is called with the whole body, whatever its length is
\* to the hint: no part missing, repeated or made up (http_asio.hpp:141-153).
WholeBodyHandled ==
  \A c \in Conn : stage[c] = "sending" =>
    buffer[c] = Bytes(0, body[id[c]])

\* An answer holds what the user's handler set for that very request, each
\* part once and in order (convert.hpp:206-238).  That it is read from memory
\* which is still there is only so for connections (temp.hpp:119,
\* basic_http_controller.hpp:152).
AnswerIsResponse ==
  \A r \in Request : status[r] = "answered" =>
    \/ answer[r] = Reply!Parts(Handled(Reply!NewResponse, r))
    \/ answer[r] = Freed /\ server = "controller"

\* Each request that reaches the queue is answered, unless its client or the
\* queue goes; or unless the one http_connection that receives met an error,
\* perhaps with another client's request, and took the listener with it.
RequestsAnswered ==
  \A r \in Request :
    status[r] = "queued" ~> \/ status[r] \in {"answered", "dropped"}
                            \/ refused /\ server = "connection"

\* After shutdown the chain of connections runs out of work, so that
\* io_context.run returns; a controller receives again all the same
\* (http_server_test.cpp:134-138).
ShutdownDrains ==
  ~up /\ server = "connection" ~> \A c \in Conn : stage[c] = "none"
=============================================================================
