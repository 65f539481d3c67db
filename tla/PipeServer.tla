----------------------------- MODULE PipeServer -----------------------------
(***************************************************************************)
(* named_pipe_acceptor and the servers built on it.  The listener accepts  *)
(* one connection after another, either into the acceptor's own pipe,      *)
(* which the handler is given (the movable and the coroutine echo server), *)
(* or into a pipe of the server's, which the handler moves away (the other *)
(* echo server and the HTTP example).  A session echoes until its client   *)
(* hangs up, or answers one HTTP request, shuts the pipe down and has a    *)
(* deadline.                                                               *)
(*                                                                         *)
(* Handlers run on the threads that run the io_context, as many at a time  *)
(* as there are threads.  A handler that makes several system calls is one *)
(* action for each of them and keeps its thread in between; every other    *)
(* handler is one action.                                                  *)
(***************************************************************************)
EXTENDS PipeKernel

CONSTANTS
  MaxThreads,   \* bound: the threads that may run the io_context
  Servers,      \* the servers that may be started
  NoInstance,   \* a pipe object without a handle
  MaxFailures,  \* bound: how often CreateNamedPipe fails
  Few           \* bound: the clients that call a server with deadlines or
                \* with several threads

ASSUME ServerAssumption ==
  /\ MaxThreads \in Nat \ {0}
  /\ Servers \subseteq {"movable", "echo", "http", "coroutine"}
  /\ NoInstance \notin Instance
  /\ MaxFailures \in Nat
  /\ Few \subseteq Client

VARIABLES
  server,    \* the one that was started
  threads,   \* threads that run the io_context, fixed when the server starts
  listener,  \* "create", "connect": in async_accept; "waiting"; "over", the
             \* coroutine has ended; "dead", the process has
  pipe,      \* the handle of the pipe that is accepted into
  doomed,    \* the handle of a pipe the running handler will destroy
  depth,     \* accept handlers on the stack of the listener's thread
  failures,  \* CreateNamedPipe has failed so often
  session,   \* of an instance: "none", "open", "flushing" (in shutdown, on
             \* a thread) or "closed" (the deadline closed its pipe)
  io,        \* the session's operation: "none", "read", "write", or a posted
             \* completion, "read_ok", "read_err", "write_ok", "write_err"
  timer,     \* the session's deadline: "none", "armed", "cancelled"
  expired    \* history: the clients whose pipe a deadline has closed

listenerVars == <<server, threads, listener, pipe, doomed, depth, failures>>
sessionVars == <<session, io, timer, expired>>
vars == <<kernelVars, listenerVars, sessionVars>>

TypeOK ==
  /\ KernelTypeOK
  /\ server \in Servers
  /\ threads \in 1 .. MaxThreads
  /\ listener \in {"create", "connect", "waiting", "over", "dead"}
  /\ {pipe, doomed} \subseteq Instance \cup {NoInstance}
  /\ failures \in 0 .. MaxFailures
  /\ depth \in 0 .. failures + 1
  /\ session \in [Instance -> {"none", "open", "flushing", "closed"}]
  /\ io \in [Instance -> {"none", "read", "write", "read_ok", "read_err",
                          "write_ok", "write_err"}]
  /\ timer \in [Instance -> {"none", "armed", "cancelled"}]
  /\ expired \subseteq Client \cup {NoClient}

\* The acceptor's own pipe is accepted into, and given to the handler.
Movable == server \in {"movable", "coroutine"}
Http == server = "http"

\* The server begins to accept before any thread runs.  The examples with
\* HTTP and with coroutines have one thread.
Init ==
  /\ KernelInit
  /\ server \in Servers
  /\ threads \in 1 .. MaxThreads
  /\ server \in {"http", "coroutine"} => threads = 1
  /\ listener = "create"
  /\ pipe = NoInstance
  /\ doomed = NoInstance
  /\ depth = 0
  /\ failures = 0
  /\ session = [i \in Instance |-> "none"]
  /\ io = [i \in Instance |-> "none"]
  /\ timer = [i \in Instance |-> "none"]
  /\ expired = {}

\* A thread is free to run a handler.
ThreadFree ==
  Cardinality({i \in Instance : session[i] = "flushing"}) +
    (IF listener \in {"create", "connect"} THEN 1 ELSE 0) < threads

(***************************************************************************)
(* The listener.                                                           *)
(***************************************************************************)

\* The name a new instance gets in this model is one that neither the kernel
\* nor a session uses any more; which one makes no difference.
Nameable == {j \in Unused : session[j] = "none"}

\* server_create: CreateNamedPipe, then assign, which throws already_open if
\* the pipe object still has a handle.  The exception leaves io_context.run
\* and ends the process, which closes every handle.
ServerCreate ==
  /\ listener = "create"
  /\ Nameable # {}
  /\ LET i == CHOOSE j \in Nameable : TRUE
     IN  IF pipe = NoInstance
         THEN /\ pipe' = i
              /\ listener' = "connect"
              /\ serverEnd' = [serverEnd EXCEPT ![i] = "listening"]
              /\ request' = [request EXCEPT ![i] = FALSE]
              /\ UNCHANGED <<reply, accept, doomed, sessionVars>>
         ELSE /\ listener' = "dead"
              /\ pipe' = NoInstance
              /\ doomed' = NoInstance
              /\ CloseServerEnds(Instance)
              /\ accept' = [j \in Instance |-> "none"]
              /\ session' = [j \in Instance |-> "none"]
              /\ io' = [j \in Instance |-> "none"]
              /\ timer' = [j \in Instance |-> "none"]
              /\ UNCHANGED <<request, expired>>
  /\ UNCHANGED <<clientEnd, clientVars, server, threads, depth, failures>>

\* CreateNamedPipe fails: async_accept calls the handler itself, which calls
\* async_accept again, one frame deeper.  The listening coroutine ends.
CreateFails ==
  /\ listener = "create"
  /\ failures < MaxFailures
  /\ failures' = failures + 1
  /\ IF server = "coroutine" THEN listener' = "over" /\ UNCHANGED depth
     ELSE depth' = depth + 1 /\ UNCHANGED listener
  /\ UNCHANGED <<kernelVars, sessionVars, server, threads, pipe, doomed>>

\* Faulty variant: async_accept does not return before the next handler.
ServerConnectNests ==
  /\ listener = "connect"
  /\ accept' = [accept EXCEPT ![pipe] = ConnectResult(pipe)]
  /\ listener' = "waiting"
  /\ doomed' = NoInstance
  /\ CloseServerEnds({doomed})
  /\ UNCHANGED <<clientEnd, request, clientVars, server, threads, pipe, depth,
                 failures, sessionVars>>

\* async_server_connect: in progress, or its handler is posted.  Then
\* async_accept returns, and so do the handlers that called it; the pipe a
\* handler was given with an error is destroyed.
ServerConnect ==
  /\ listener = "connect"
  /\ accept' = [accept EXCEPT ![pipe] = ConnectResult(pipe)]
  /\ listener' = "waiting"
  /\ depth' = 0
  /\ doomed' = NoInstance
  /\ CloseServerEnds({doomed})
  /\ UNCHANGED <<clientEnd, request, clientVars, server, threads, pipe, failures,
                 sessionVars>>

\* Faulty variant: the pipe is not moved into the session.
AcceptHandlerKeepsPipe ==
  /\ listener = "waiting"
  /\ ThreadFree
  /\ accept[pipe] \in {"ok", "failed"}
  /\ listener' = "create"
  /\ depth' = depth + 1
  /\ accept' = [accept EXCEPT ![pipe] = "none"]
  /\ IF accept[pipe] = "ok"
     THEN /\ session' = [session EXCEPT ![pipe] = "open"]
          /\ io' = [io EXCEPT ![pipe] = "read"]
          /\ timer' = [timer EXCEPT ![pipe] = IF Http THEN "armed" ELSE "none"]
     ELSE UNCHANGED <<session, io, timer>>
  /\ UNCHANGED <<serverEnd, clientEnd, request, reply, clientVars, server, threads,
                 failures, expired, pipe, doomed>>

\* Faulty variant: after an error the pipe is destroyed before the next
\* accept.
AcceptHandlerClosesFirst ==
  /\ listener = "waiting"
  /\ ThreadFree
  /\ accept[pipe] \in {"ok", "failed"}
  /\ listener' = "create"
  /\ depth' = depth + 1
  /\ accept' = [accept EXCEPT ![pipe] = "none"]
  /\ pipe' = NoInstance
  /\ IF accept[pipe] = "ok"
     THEN /\ session' = [session EXCEPT ![pipe] = "open"]
          /\ io' = [io EXCEPT ![pipe] = "read"]
          /\ UNCHANGED <<serverEnd, reply>>
     ELSE CloseServerEnds({pipe}) /\ UNCHANGED <<session, io>>
  /\ UNCHANGED <<clientEnd, request, clientVars, server, threads, failures, expired,
                 timer, doomed>>

\* Faulty variant: the pipe the coroutine was given outlives its exception.
CoroutineFailsKeepsPipe ==
  /\ server = "coroutine"
  /\ listener = "waiting"
  /\ ThreadFree
  /\ accept[pipe] = "failed"
  /\ listener' = "over"
  /\ pipe' = NoInstance
  /\ accept' = [accept EXCEPT ![pipe] = "none"]
  /\ UNCHANGED <<serverEnd, clientEnd, request, reply, clientVars, server,
                 threads, doomed, depth, failures, sessionVars>>

\* The accept of the coroutine fails: it is an exception in listener(), which
\* ends there, with the pipe and the acceptor, and nobody is told.
CoroutineFails ==
  /\ server = "coroutine"
  /\ listener = "waiting"
  /\ ThreadFree
  /\ accept[pipe] = "failed"
  /\ listener' = "over"
  /\ pipe' = NoInstance
  /\ CloseServerEnds({pipe})
  /\ accept' = [accept EXCEPT ![pipe] = "none"]
  /\ UNCHANGED <<clientEnd, request, clientVars, server, threads, doomed,
                 depth, failures, sessionVars>>

\* The accept handler starts a session if there was no error, and accepts
\* again in any case.  The movable form of the handler owns the pipe also
\* when there was an error.
AcceptHandler ==
  /\ listener = "waiting"
  /\ ThreadFree
  /\ accept[pipe] \in {"ok", "failed"}
  /\ accept[pipe] = "failed" => server # "coroutine"
  /\ listener' = "create"
  /\ depth' = depth + 1
  /\ accept' = [accept EXCEPT ![pipe] = "none"]
  /\ IF accept[pipe] = "ok"
     THEN /\ session' = [session EXCEPT ![pipe] = "open"]
          /\ io' = [io EXCEPT ![pipe] = "read"]
          /\ timer' = [timer EXCEPT ![pipe] = IF Http THEN "armed" ELSE "none"]
          /\ pipe' = NoInstance
          /\ UNCHANGED doomed
     ELSE /\ IF Movable THEN doomed' = pipe /\ pipe' = NoInstance
             ELSE UNCHANGED <<doomed, pipe>>
          /\ UNCHANGED <<session, io, timer>>
  /\ UNCHANGED <<serverEnd, clientEnd, request, reply, clientVars, server, threads,
                 failures, expired>>

(***************************************************************************)
(* The operations of a session, completed by the kernel.                   *)
(***************************************************************************)
ReadCompletes(i) ==
  /\ io[i] = "read"
  /\ request[i] \/ ClientGone(i)
  /\ io' = [io EXCEPT ![i] = IF request[i] THEN "read_ok" ELSE "read_err"]
  /\ request' = [request EXCEPT ![i] = FALSE]
  /\ UNCHANGED <<serverEnd, clientEnd, accept, reply, clientVars,
                 listenerVars, session, timer, expired>>

\* The bytes fit into the buffer of the instance, so a write waits for
\* nobody.
WriteCompletes(i) ==
  /\ io[i] = "write"
  /\ io' = [io EXCEPT ![i] = IF ClientGone(i) THEN "write_err"
                             ELSE "write_ok"]
  /\ reply' = [reply EXCEPT ![i] = ~ClientGone(i)]
  /\ UNCHANGED <<serverEnd, clientEnd, accept, request, clientVars,
                 listenerVars, session, timer, expired>>

(***************************************************************************)
(* The handlers of a session.                                              *)
(***************************************************************************)

\* A handler returns, leaving the session with operation o and deadline t.
\* When neither holds a reference to it any more, the session is destroyed
\* and its pipe closed.
Returns(i, o, t) ==
  /\ io' = [io EXCEPT ![i] = o]
  /\ timer' = [timer EXCEPT ![i] = t]
  /\ IF o = "none" /\ t = "none"
     THEN /\ session' = [session EXCEPT ![i] = "none"]
          /\ CloseServerEnds({i})
     ELSE UNCHANGED <<session, serverEnd, reply>>

\* Faulty variant: a failed read is tried again.
ReadHandlerRetries(i) ==
  /\ ThreadFree
  /\ io[i] \in {"read_ok", "read_err"}
  /\ Returns(i, IF io[i] = "read_err" THEN "read"
                ELSE IF session[i] = "closed" THEN "write_err" ELSE "write",
             timer[i])
  /\ UNCHANGED <<clientEnd, accept, request, clientVars, listenerVars,
                 expired>>

\* do_write, or process_request and write_response, on a pipe that may have
\* been closed meanwhile; nothing, if the read failed.
ReadHandler(i) ==
  /\ ThreadFree
  /\ io[i] \in {"read_ok", "read_err"}
  /\ Returns(i, IF io[i] = "read_err" THEN "none"
                ELSE IF session[i] = "closed" THEN "write_err" ELSE "write",
             timer[i])
  /\ UNCHANGED <<clientEnd, accept, request, clientVars, listenerVars,
                 expired>>

\* The echo session reads again after a write that succeeded.
EchoWritten(i) ==
  /\ ~Http
  /\ ThreadFree
  /\ io[i] \in {"write_ok", "write_err"}
  /\ Returns(i, IF io[i] = "write_ok" THEN "read" ELSE "none", timer[i])
  /\ UNCHANGED <<clientEnd, accept, request, clientVars, listenerVars,
                 expired>>

\* The HTTP session calls shutdown whether or not the write succeeded.  A
\* pipe that is open goes into FlushFileBuffers, on this thread.
HttpWritten(i) ==
  /\ Http
  /\ ThreadFree
  /\ io[i] \in {"write_ok", "write_err"}
  /\ IF session[i] = "open"
     THEN /\ session' = [session EXCEPT ![i] = "flushing"]
          /\ io' = [io EXCEPT ![i] = "none"]
          /\ UNCHANGED <<timer, serverEnd, reply>>
     ELSE Returns(i, "none", timer[i])
  /\ UNCHANGED <<clientEnd, accept, request, clientVars, listenerVars,
                 expired>>

\* Faulty variant: the pipe is disconnected without FlushFileBuffers.
FlushedAtOnce(i) == TRUE

\* FlushFileBuffers returns when the client has read everything, and shutdown
\* disconnects; or it fails because the client is gone.  The handler then
\* cancels the deadline.
Flushed(i) == ~reply[i] \/ ClientGone(i)
ShutdownReturns(i) ==
  /\ session[i] = "flushing"
  /\ Flushed(i)
  /\ session' = [session EXCEPT ![i] = "open"]
  /\ timer' = [timer EXCEPT ![i] = "cancelled"]
  /\ IF ClientGone(i) THEN UNCHANGED <<serverEnd, reply>>
     ELSE /\ serverEnd' = [serverEnd EXCEPT ![i] = "disconnected"]
          /\ reply' = [reply EXCEPT ![i] = FALSE]
  /\ UNCHANGED <<clientEnd, accept, request, clientVars, listenerVars, io,
                 expired>>

\* The operation of a session whose pipe is closed under it.
Aborted(o) ==
  CASE o = "read"  -> "read_err"
    [] o = "write" -> "write_err"
    [] OTHER       -> o

\* The deadline passes: close the pipe, which cancels what is outstanding.
DeadlinePasses(i) ==
  /\ ThreadFree
  /\ timer[i] = "armed"
  /\ timer' = [timer EXCEPT ![i] = "none"]
  /\ io' = [io EXCEPT ![i] = Aborted(@)]
  /\ session' = [session EXCEPT ![i] = IF io[i] = "none" THEN "none"
                                       ELSE "closed"]
  /\ CloseServerEnds({i})
  /\ expired' = expired \cup {clientEnd[i]}
  /\ UNCHANGED <<clientEnd, accept, request, clientVars, listenerVars>>

\* Faulty variant: nothing is done when the deadline is cancelled, not even
\* the reference to the session is dropped.
DeadlineCancelledKeeps(i) ==
  /\ ThreadFree
  /\ timer[i] = "cancelled"
  /\ UNCHANGED vars

\* The handler of a cancelled deadline does nothing but let the session go.
DeadlineCancelled(i) ==
  /\ ThreadFree
  /\ timer[i] = "cancelled"
  /\ Returns(i, io[i], "none")
  /\ UNCHANGED <<clientEnd, accept, request, clientVars, listenerVars,
                 expired>>
(***************************************************************************)
(* The system.                                                             *)
(***************************************************************************)

\* The clients of this server.
Calls(c) == Http \/ threads > 1 => c \in Few

\* Clients are started once the server has created its first instance.
Launch(c) ==
  /\ pc[c] = "idle"
  /\ Calls(c)
  /\ listener \in {"connect", "waiting", "over"}
  /\ Goto(c, "opening")
  /\ UNCHANGED <<instanceVars, outcome, listenerVars, sessionVars>>

ClientActs(c) == ClientNext(c) /\ UNCHANGED <<listenerVars, sessionVars>>

ListenerStep ==
  \/ ServerCreate \/ CreateFails \/ ServerConnect
  \/ AcceptHandler \/ CoroutineFails

SessionStep(i) ==
  \/ ReadCompletes(i) \/ WriteCompletes(i)
  \/ ReadHandler(i) \/ EchoWritten(i) \/ HttpWritten(i)
  \/ ShutdownReturns(i) \/ DeadlineCancelled(i)

\* io_context.run goes on waiting, for clients that may never come.  The
\* liveness properties say that nobody who came is left out.
ServerWaits ==
  /\ listener \in {"waiting", "over", "dead"}
  /\ UNCHANGED vars

Next ==
  \/ \E c \in Client : Launch(c) \/ ClientActs(c)
  \/ ListenerStep
  \/ \E i \in Instance : SessionStep(i) \/ DeadlinePasses(i)
  \/ ServerWaits

SafeSpec == Init /\ [][Next]_vars

\* The io_context is run: handlers that are ready get a free thread, also if
\* others keep taking it, and a deadline passes.  It is enough to ask this of
\* the sessions together, as a call makes only so many steps of its session.
ServerFairness ==
  /\ WF_vars(ServerCreate)
  /\ WF_vars(ServerConnect)
  /\ SF_vars(AcceptHandler \/ CoroutineFails)
  /\ SF_vars(\E i \in Instance : SessionStep(i))
  /\ SF_vars(\E i \in Instance : DeadlinePasses(i))

\* A client goes on with its call: it reads the reply it waits for.
ClientFairness ==
  \A c \in Client :
    WF_vars(ClientStep(c) /\ UNCHANGED <<listenerVars, sessionVars>>)

Spec == SafeSpec /\ ServerFairness /\ ClientFairness

\* Clients owe the server nothing.
SpecServerOnly == SafeSpec /\ ServerFairness

(***************************************************************************)
(* Properties.                                                             *)
(***************************************************************************)

\* Each open server end belongs to exactly one of the listener's pipe, the
\* pipe a failed accept is about to destroy, and a session: moving the pipe
\* out of the acceptor neither loses a handle nor shares one.
OneOwner ==
  \A i \in Instance :
    Cardinality({x \in {"pipe", "doomed", "session"} :
                   \/ x = "pipe" /\ pipe = i
                   \/ x = "doomed" /\ doomed = i
                   \/ x = "session" /\ session[i] \in {"open", "flushing"}})
      = IF serverEnd[i] = "closed" THEN 0 ELSE 1

\* The name of the pipe exists from the first accept on: whatever sessions
\* end, no client is told there is no such pipe (named_pipe_test.cpp:48).
ClientsFindPipe == \A c \in Client : outcome[c] # "not_found"

\* The server accepts for ever, whatever happens to a connection
\* (beast_server.cpp:180).  Only the coroutine server ends with the first
\* accept that fails, and goes on with the sessions it has.
AcceptsForever == listener \in {"dead", "over"} => server = "coroutine"

\* shutdown flushes before it disconnects, so a client that is connected
\* fails to get its request through, or its reply, only if the deadline of
\* its own session passed (named_pipe.hpp:161).
NoReplyLost ==
  \A c \in Client : outcome[c] = "error" => c \in expired

\* A client that could not connect keeps no handle on the pipe: it was given
\* none it could free (named_pipe_client_details.hpp:21).
FailedConnectHoldsNothing ==
  \A c \in Client : outcome[c] = "mode_failed" =>
    \A i \in Instance : clientEnd[i] # c

\* With one thread the listener is back at accepting before any session can
\* end, so that the name does not vanish while the server listens
\* (echoserver_movable.hpp:37, echoserver_coro.cpp:54).
OneThreadKeepsName == threads = 1 /\ listener # "over" => ClientsFindPipe

\* A client that opens the pipe is answered or told why it is not.  The
\* instance that WaitNamedPipe promised may be gone when the pipe is opened,
\* taken by another client, and then by a third; but every accept is
\* followed by the next, so none of the calls is left waiting.
ClientsEnd ==
  \A c \in Client : pc[c] = "opening" ~> pc[c] = "end"

\* No session outlives its client for ever, and none its deadline.
SessionsEnd ==
  \A i \in Instance : session[i] # "none" ~> session[i] = "none"
=============================================================================
