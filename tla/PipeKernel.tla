----------------------------- MODULE PipeKernel -----------------------------
(***************************************************************************)
(* Named pipes as Windows provides them, and the processes that connect to *)
(* one with named_pipe::connect.                                           *)
(*                                                                         *)
(* An instance has a server end and a client end.  A client can connect to *)
(* an instance as soon as it is created; ConnectNamedPipe only tells the   *)
(* server.  The name of the pipe exists while some server end is open.     *)
(***************************************************************************)
EXTENDS Naturals, FiniteSets, FiniteSetsExt

CONSTANTS
  Client,     \* bound: the client processes; each makes one call
  Instance,   \* bound: the instances the kernel can create
  NoClient,   \* no process holds the client end
  GiveUp      \* whether a client may close its end at any moment

ASSUME KernelAssumption ==
  /\ NoClient \notin Client
  /\ GiveUp \in BOOLEAN
  /\ IsFiniteSet(Instance)

VARIABLES
  serverEnd,  \* of an instance: "closed", "listening", "connected" or
              \* "disconnected"
  clientEnd,  \* the client that holds the client end
  accept,     \* the ConnectNamedPipe operation of the instance: "none",
              \* "pending", or its posted completion, "ok" or "failed"
  request,    \* unread bytes from the client are in the instance
  reply,      \* unread bytes from the server are in the instance
  pc,         \* where a client is in its call
  outcome     \* how the call of a client ended

instanceVars == <<serverEnd, clientEnd, accept, request, reply>>
clientVars == <<pc, outcome>>
kernelVars == <<instanceVars, clientVars>>

Outcome == {"ok", "not_found", "timeout", "mode_failed", "error",
            "gave_up"}

KernelTypeOK ==
  /\ serverEnd \in
       [Instance -> {"closed", "listening", "connected", "disconnected"}]
  /\ clientEnd \in [Instance -> Client \cup {NoClient}]
  /\ accept \in [Instance -> {"none", "pending", "ok", "failed"}]
  /\ request \in [Instance -> BOOLEAN]
  /\ reply \in [Instance -> BOOLEAN]
  /\ pc \in [Client -> {"idle", "opening", "busy", "mode", "ready",
                        "waiting", "closing", "end"}]
  /\ outcome \in [Client -> Outcome \cup {"none"}]

KernelInit ==
  /\ serverEnd = [i \in Instance |-> "closed"]
  /\ clientEnd = [i \in Instance |-> NoClient]
  /\ accept = [i \in Instance |-> "none"]
  /\ request = [i \in Instance |-> FALSE]
  /\ reply = [i \in Instance |-> FALSE]
  /\ pc = [c \in Client |-> "idle"]
  /\ outcome = [c \in Client |-> "none"]

(***************************************************************************)
(* System calls of the server.                                             *)
(***************************************************************************)
Unused == {i \in Instance : serverEnd[i] = "closed" /\ clientEnd[i] = NoClient}

ClientGone(i) == clientEnd[i] = NoClient

\* The server ends after those of the set S were closed.  What the client
\* has not read by then is gone.
CloseServerEnds(S) ==
  /\ serverEnd' = [i \in Instance |-> IF i \in S THEN "closed"
                                      ELSE serverEnd[i]]
  /\ reply' = [i \in Instance |-> reply[i] /\ i \notin S]

\* Faulty variant: ERROR_PIPE_CONNECTED is handled like ERROR_IO_PENDING.
ConnectResultWaits(i) ==
  IF serverEnd[i] = "connected" /\ ClientGone(i) THEN "failed"
  ELSE "pending"

\* What ConnectNamedPipe makes of the instance: pending, complete because a
\* client is there, or failed with ERROR_NO_DATA because one was.  It does not
\* return nonzero for a pipe opened with FILE_FLAG_OVERLAPPED, so the branch
\* for that is never taken.
ConnectResult(i) ==
  IF serverEnd[i] = "listening" THEN "pending"
  ELSE IF ClientGone(i) THEN "failed" ELSE "ok"

(***************************************************************************)
(* The client: named_pipe::connect, then a request and its reply.          *)
(***************************************************************************)
Goto(c, l) == pc' = [pc EXCEPT ![c] = l]

\* The call is over; the client's pipe object closes what it holds.
Ends(c, o) ==
  /\ Goto(c, "closing")
  /\ outcome' = [outcome EXCEPT ![c] = o]

Listening == {i \in Instance : serverEnd[i] = "listening"}
NameExists == \E i \in Instance : serverEnd[i] # "closed"

\* CreateFile succeeds on some listening instance.
OpenPipe(c) ==
  /\ pc[c] = "opening"
  /\ \E i \in Listening :
       /\ serverEnd' = [serverEnd EXCEPT ![i] = "connected"]
       /\ clientEnd' = [clientEnd EXCEPT ![i] = c]
       /\ accept' = [accept EXCEPT ![i] = IF @ = "pending" THEN "ok" ELSE @]
  /\ Goto(c, "mode")
  /\ UNCHANGED <<request, reply, outcome>>

\* CreateFile fails: ERROR_PIPE_BUSY leads to WaitNamedPipe, any other error
\* out of the loop.
OpenFails(c) ==
  /\ pc[c] = "opening"
  /\ Listening = {}
  /\ IF NameExists THEN Goto(c, "busy") /\ UNCHANGED outcome
     ELSE Ends(c, "not_found")
  /\ UNCHANGED instanceVars

\* WaitNamedPipe returns: an instance listens, or the name is gone.
WaitReturns(c) ==
  /\ pc[c] = "busy"
  /\ \/ Listening # {} /\ Goto(c, "opening") /\ UNCHANGED outcome
     \/ ~NameExists /\ Ends(c, "not_found")
  /\ UNCHANGED instanceVars

WaitTimesOut(c) ==
  /\ pc[c] = "busy"
  /\ Ends(c, "timeout")
  /\ UNCHANGED instanceVars

\* SetNamedPipeHandleState succeeds while the server end is there.  When it
\* fails the error is returned, and the handle is neither closed nor handed
\* to the caller.
SetMode(c) ==
  /\ pc[c] = "mode"
  /\ \E i \in Instance :
       /\ clientEnd[i] = c
       /\ IF serverEnd[i] = "connected"
          THEN Goto(c, "ready") /\ UNCHANGED outcome
          ELSE /\ Goto(c, "end")
               /\ outcome' = [outcome EXCEPT ![c] = "mode_failed"]
  /\ UNCHANGED instanceVars

Write(c) ==
  /\ pc[c] = "ready"
  /\ \E i \in Instance :
       /\ clientEnd[i] = c
       /\ IF serverEnd[i] = "connected"
          THEN /\ request' = [request EXCEPT ![i] = TRUE]
               /\ Goto(c, "waiting")
               /\ UNCHANGED outcome
          ELSE Ends(c, "error") /\ UNCHANGED request
  /\ UNCHANGED <<serverEnd, clientEnd, accept, reply>>

ReadReply(c) ==
  /\ pc[c] = "waiting"
  /\ \E i \in Instance :
       /\ clientEnd[i] = c
       /\ \/ reply[i] /\ Ends(c, "ok")
          \/ ~reply[i] /\ serverEnd[i] # "connected" /\ Ends(c, "error")
       /\ reply' = [reply EXCEPT ![i] = FALSE]
  /\ UNCHANGED <<serverEnd, clientEnd, accept, request>>

ClientCloses(c) ==
  /\ pc[c] = "closing"
  /\ clientEnd' = [i \in Instance |-> IF clientEnd[i] = c THEN NoClient
                                      ELSE clientEnd[i]]
  /\ reply' = [i \in Instance |-> reply[i] /\ clientEnd[i] # c]
  /\ Goto(c, "end")
  /\ UNCHANGED <<serverEnd, accept, request, outcome>>

\* The client process dies, or its user loses patience.
GivesUp(c) ==
  /\ GiveUp
  /\ pc[c] \in {"mode", "ready", "waiting"}
  /\ Ends(c, "gave_up")
  /\ UNCHANGED instanceVars

\* What a client does of its own accord once it has begun.
ClientStep(c) ==
  \/ OpenPipe(c) \/ OpenFails(c) \/ WaitReturns(c) \/ SetMode(c)
  \/ Write(c) \/ ReadReply(c) \/ ClientCloses(c)

ClientNext(c) == ClientStep(c) \/ WaitTimesOut(c) \/ GivesUp(c)
=============================================================================
