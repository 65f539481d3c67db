-------------------------- MODULE PipeServerProofs --------------------------
(***************************************************************************)
(* Proofs about PipeServer, for any number of clients, instances, threads  *)
(* and failures.  Owned says who holds each server end and is proved for   *)
(* every server.  On top of it, Named says why the name of the pipe does   *)
(* not vanish while a server with one thread listens, Awaiting why a       *)
(* client that does not give up is there when it is accepted, and Served   *)
(* why a client that waits for its reply gets it.                          *)
(***************************************************************************)
EXTENDS PipeServer, FiniteSetTheorems, TLAPS

(***************************************************************************)
(* The invariant about handles.                                            *)
(***************************************************************************)

\* The handles of the listener.
ListenerFits ==
  /\ listener = "create" /\ Movable => pipe = NoInstance
  /\ listener \in {"connect", "waiting"} => pipe \in Instance
  /\ listener = "waiting" => depth = 0
  /\ listener \in {"over", "dead"} => pipe = NoInstance
  /\ doomed \in Instance =>
       listener \in {"create", "connect"} /\ server = "movable"
  /\ listener = "over" => server = "coroutine"
  /\ listener = "dead" => ~Movable

\* The pipe that is accepted into.
PipeFits(i) ==
  pipe = i =>
    /\ serverEnd[i] \in {"listening", "connected"}
    /\ session[i] = "none"
    /\ ~reply[i]

\* The pipe a handler was given with an error: its client is gone.
DoomedFits(i) ==
  doomed = i =>
    /\ pipe # i
    /\ serverEnd[i] = "connected"
    /\ clientEnd[i] = NoClient
    /\ session[i] = "none"

\* An operation of ConnectNamedPipe, which fails when a client came and went.
AcceptFits(i) ==
  accept[i] # "none" =>
    /\ listener = "waiting" /\ pipe = i
    /\ accept[i] # "pending" => serverEnd[i] = "connected"
    /\ accept[i] = "failed" => clientEnd[i] = NoClient

\* Nobody has used an instance that listens.
ListeningFits(i) ==
  serverEnd[i] = "listening" =>
    pipe = i /\ clientEnd[i] = NoClient /\ ~request[i]

\* A server end is closed when its owner is gone, and not before.
ClosedFits(i) ==
  /\ serverEnd[i] = "closed" =>
       session[i] \notin {"open", "flushing"} /\ ~reply[i]
  /\ serverEnd[i] # "closed" =>
       pipe = i \/ doomed = i \/ session[i] \in {"open", "flushing"}

\* What a session leaves outstanding.
SessionFits(i) ==
  /\ session[i] = "none" => io[i] = "none" /\ timer[i] = "none"
  /\ session[i] = "flushing" => io[i] = "none"
  /\ io[i] = "write" => session[i] = "open"
  /\ timer[i] = "cancelled" => session[i] = "open" /\ io[i] = "none"

Fits(i) ==
  /\ PipeFits(i) /\ DoomedFits(i) /\ AcceptFits(i) /\ ListeningFits(i)
  /\ ClosedFits(i) /\ SessionFits(i)

Owned ==
  /\ TypeOK
  /\ ListenerFits
  /\ \A i \in Instance : Fits(i)

(***************************************************************************)
(* The invariant about the name.                                           *)
(***************************************************************************)

\* A listener that has one thread keeps the name: while it accepts no session
\* can end.
Named ==
  threads = 1 /\ listener \notin {"over", "dead"} =>
    /\ NameExists \/ \A c \in Client : pc[c] = "idle"
    /\ ClientsFindPipe

(***************************************************************************)
(* The invariant about clients that are accepted.                          *)
(***************************************************************************)

\* A process holds one client end, from opening the pipe on.
HoldsOne ==
  /\ \A i, j \in Instance :
       clientEnd[i] = clientEnd[j] /\ clientEnd[i] \in Client => i = j
  /\ \A i \in Instance : clientEnd[i] \in Client =>
       pc[clientEnd[i]] \in {"mode", "ready", "waiting", "closing", "end"}

\* A client that is in the middle of its call.
Calling(i) ==
  clientEnd[i] \in Client /\ pc[clientEnd[i]] \in {"mode", "ready", "waiting"}

\* A client that does not give up is there when the accept completes, so that
\* the servers with a pipe of their own accept without an error.
NoneLeaves ==
  ~Movable =>
    /\ listener = "create" => pipe = NoInstance
    /\ listener # "dead"
    /\ \A i \in Instance :
         /\ accept[i] # "failed"
         /\ pipe = i /\ serverEnd[i] = "connected" => Calling(i)

Awaiting == HoldsOne /\ NoneLeaves

(***************************************************************************)
(* The invariant about replies.                                            *)
(***************************************************************************)

\* The request of the client is still to be read: by a session, or by the one
\* the listener will start.
Awaited(i) == pipe = i \/ (session[i] = "open" /\ io[i] = "read")

\* A client in the middle of its call to whom the server owes an answer: the
\* deadline of its session has not passed.
Due(i) == Calling(i) /\ clientEnd[i] \notin expired

\* The server will not close the end of such a client.
ClientServed(i) ==
  /\ Due(i) /\ pc[clientEnd[i]] \in {"mode", "ready"} =>
       serverEnd[i] = "connected" /\ ~request[i] /\ ~reply[i] /\ Awaited(i)
  /\ Due(i) /\ pc[clientEnd[i]] = "waiting" =>
       /\ serverEnd[i] = "connected"
       /\ \/ request[i] /\ ~reply[i] /\ Awaited(i)
          \/ /\ ~request[i] /\ ~reply[i]
             /\ session[i] = "open" /\ io[i] \in {"read_ok", "write"}
          \/ /\ ~request[i] /\ reply[i]
             /\ \/ session[i] = "open" /\ io[i] \in {"write_ok", "read"}
                \/ session[i] = "flushing"

Served ==
  /\ \A i \in Instance : ClientServed(i)
  /\ \A c \in Client : outcome[c] = "error" => c \in expired

(***************************************************************************)
(* Facts about the parts.                                                  *)
(***************************************************************************)

\* What closing server ends does to them and to the bytes in them.
LEMMA CloseFacts ==
  ASSUME TypeOK, NEW S, CloseServerEnds(S)
  PROVE  /\ serverEnd' \in
              [Instance -> {"closed", "listening", "connected", "disconnected"}]
         /\ reply' \in [Instance -> BOOLEAN]
         /\ \A i \in Instance :
              IF i \in S THEN serverEnd'[i] = "closed" /\ reply'[i] = FALSE
              ELSE serverEnd'[i] = serverEnd[i] /\ reply'[i] = reply[i]
  BY DEF TypeOK, KernelTypeOK, CloseServerEnds

LEMMA CloseOneFacts ==
  ASSUME TypeOK, NEW d, CloseServerEnds({d})
  PROVE  /\ serverEnd' \in
              [Instance -> {"closed", "listening", "connected", "disconnected"}]
         /\ reply' \in [Instance -> BOOLEAN]
         /\ d \in Instance => serverEnd'[d] = "closed" /\ reply'[d] = FALSE
         /\ \A i \in Instance :
              i # d => serverEnd'[i] = serverEnd[i] /\ reply'[i] = reply[i]
<1> DEFINE S == {d}
<1>1. CloseServerEnds(S) /\ \A i : i \in S <=> i = d
  OBVIOUS
<1> HIDE DEF S
<1> QED
  BY <1>1, CloseFacts

\* What happens elsewhere leaves an instance as it is.
LEMMA Elsewhere ==
  ASSUME NEW i \in Instance, Fits(i),
         serverEnd'[i] = serverEnd[i], clientEnd'[i] = clientEnd[i],
         accept'[i] = accept[i], request'[i] = request[i], reply'[i] = reply[i],
         session'[i] = session[i], io'[i] = io[i], timer'[i] = timer[i],
         pipe' = i <=> pipe = i,
         doomed' = i <=> doomed = i,
         accept[i] # "none" => listener' = "waiting"
  PROVE  Fits(i)'
<1>1. PipeFits(i)' /\ DoomedFits(i)'
  BY DEF Fits, PipeFits, DoomedFits
<1>2. AcceptFits(i)' /\ ListeningFits(i)'
  BY DEF Fits, AcceptFits, ListeningFits
<1>3. ClosedFits(i)' /\ SessionFits(i)'
  BY DEF Fits, ClosedFits, SessionFits
<1> QED
  BY <1>1, <1>2, <1>3 DEF Fits

\* The pipe object without a handle owns nothing.
LEMMA NoInstanceFits == \A i \in Instance : i # NoInstance
  BY ServerAssumption

(***************************************************************************)
(* Owned: the listener.                                                    *)
(***************************************************************************)

LEMMA InitOwned == Init => Owned
<1> SUFFICES ASSUME Init
             PROVE  Owned
  OBVIOUS
<1>1. TypeOK
  <2>1. KernelTypeOK
    BY DEF Init, KernelInit, KernelTypeOK
  <2>2. 0 \in 0 .. MaxFailures /\ 0 \in 0 .. 0 + 1
    BY ServerAssumption
  <2> QED
    BY <2>1, <2>2 DEF Init, TypeOK
<1>2. ListenerFits
  BY NoInstanceFits DEF Init, ListenerFits
<1>3. \A i \in Instance : Fits(i)
  BY NoInstanceFits
  DEF Init, KernelInit, Fits, PipeFits, DoomedFits, AcceptFits, ListeningFits,
      ClosedFits, SessionFits
<1> QED
  BY <1>1, <1>2, <1>3 DEF Owned

\* A new instance belongs to the listener; or the process ends.
LEMMA ServerCreateOwned ==
  ASSUME Owned, ServerCreate
  PROVE  Owned'
<1>1. PICK i \in Nameable : i = CHOOSE j \in Nameable : TRUE
  BY DEF ServerCreate
<1>2. /\ i \in Instance /\ serverEnd[i] = "closed" /\ clientEnd[i] = NoClient
      /\ session[i] = "none"
  BY <1>1 DEF Nameable, Unused
<1>3. /\ listener = "create"
      /\ UNCHANGED <<clientEnd, pc, outcome, server, threads, depth, failures>>
  BY DEF ServerCreate, clientVars
<1>4. CASE pipe = NoInstance
  <2>1. /\ pipe' = i /\ listener' = "connect"
        /\ serverEnd' = [serverEnd EXCEPT ![i] = "listening"]
        /\ request' = [request EXCEPT ![i] = FALSE]
        /\ UNCHANGED <<reply, accept, doomed, session, io, timer, expired>>
    BY <1>1, <1>4 DEF ServerCreate, sessionVars
  <2>2. TypeOK'
    BY <1>2, <1>3, <2>1 DEF Owned, TypeOK, KernelTypeOK
  <2>3. ListenerFits'
    BY <1>2, <1>3, <2>1 DEF Owned, ListenerFits, Movable
  <2>4. Fits(i)'
    <3>1. serverEnd'[i] = "listening" /\ request'[i] = FALSE
      BY <1>2, <2>1 DEF Owned, TypeOK, KernelTypeOK
    <3>2. Fits(i) /\ reply[i] = FALSE /\ doomed # i /\ accept[i] = "none"
      BY <1>2, <1>3
      DEF Owned, TypeOK, KernelTypeOK, Fits, ClosedFits, DoomedFits, AcceptFits
    <3> QED
      BY <1>2, <1>3, <2>1, <3>1, <3>2
      DEF Fits, PipeFits, DoomedFits, AcceptFits, ListeningFits, ClosedFits,
          SessionFits
  <2>5. ASSUME NEW j \in Instance \ {i}
        PROVE  Fits(j)'
    <3>1. serverEnd'[j] = serverEnd[j] /\ request'[j] = request[j]
      BY <2>1 DEF Owned, TypeOK, KernelTypeOK
    <3>2. Fits(j) /\ accept[j] = "none"
      BY <1>3 DEF Owned, Fits, AcceptFits
    <3> QED
      BY <1>3, <1>4, <2>1, <3>1, <3>2, NoInstanceFits, Elsewhere
  <2> QED
    BY <2>2, <2>3, <2>4, <2>5 DEF Owned
<1>5. CASE pipe # NoInstance
  <2>1. /\ listener' = "dead" /\ pipe' = NoInstance /\ doomed' = NoInstance
        /\ CloseServerEnds(Instance)
        /\ accept' = [j \in Instance |-> "none"]
        /\ session' = [j \in Instance |-> "none"]
        /\ io' = [j \in Instance |-> "none"]
        /\ timer' = [j \in Instance |-> "none"]
        /\ UNCHANGED <<request, expired>>
    BY <1>5 DEF ServerCreate
  <2>2. /\ serverEnd' \in
             [Instance -> {"closed", "listening", "connected", "disconnected"}]
        /\ reply' \in [Instance -> BOOLEAN]
        /\ \A j \in Instance : serverEnd'[j] = "closed" /\ reply'[j] = FALSE
    BY <2>1, CloseFacts DEF Owned
  <2>3. TypeOK'
    BY <1>3, <2>1, <2>2 DEF Owned, TypeOK, KernelTypeOK
  <2>4. ListenerFits'
    BY <1>3, <1>5, <2>1, NoInstanceFits DEF Owned, ListenerFits, Movable
  <2>5. ASSUME NEW j \in Instance
        PROVE  Fits(j)'
    BY <2>1, <2>2, NoInstanceFits
    DEF Fits, PipeFits, DoomedFits, AcceptFits, ListeningFits, ClosedFits,
        SessionFits
  <2> QED
    BY <2>3, <2>4, <2>5 DEF Owned
<1> QED
  BY <1>4, <1>5

\* The listener tries again, or the coroutine ends, which holds nothing.
LEMMA CreateFailsOwned ==
  ASSUME Owned, CreateFails
  PROVE  Owned'
<1>1. /\ listener = "create" /\ failures < MaxFailures /\ failures' = failures + 1
      /\ UNCHANGED <<serverEnd, clientEnd, accept, request, reply, pc, outcome,
                     session, io, timer, expired, server, threads, pipe, doomed>>
  BY DEF CreateFails, kernelVars, instanceVars, clientVars, sessionVars
<1>2. failures \in Nat /\ depth \in Nat /\ depth <= failures + 1 /\ MaxFailures \in Nat
  BY ServerAssumption DEF Owned, TypeOK
<1>3. /\ failures + 1 \in 0 .. MaxFailures
      /\ depth \in 0 .. (failures + 1) + 1
      /\ depth + 1 \in 0 .. (failures + 1) + 1
  <2>1. failures < MaxFailures
    BY <1>1
  <2> QED
    BY <1>2, <2>1
<1>4. /\ depth' \in {depth, depth + 1}
      /\ listener' = IF server = "coroutine" THEN "over" ELSE "create"
  BY <1>1 DEF CreateFails
<1>5. TypeOK'
  <2>1. failures' \in 0 .. MaxFailures /\ depth' \in 0 .. failures' + 1
    BY <1>1, <1>3, <1>4
  <2> QED
    BY <1>1, <1>4, <2>1 DEF Owned, TypeOK, KernelTypeOK
<1>6. ListenerFits'
  BY <1>1, <1>4 DEF Owned, ListenerFits, Movable
<1>7. ASSUME NEW i \in Instance
      PROVE  Fits(i)'
  <2>1. Fits(i) /\ accept[i] = "none"
    BY <1>1 DEF Owned, Fits, AcceptFits
  <2> QED
    BY <1>1, <2>1, Elsewhere
<1> QED
  BY <1>5, <1>6, <1>7 DEF Owned

\* The accept is under way, and the pipe of the last one is gone.
LEMMA ServerConnectOwned ==
  ASSUME Owned, ServerConnect
  PROVE  Owned'
<1>0. PICK p \in Instance, d \in Instance \cup {NoInstance} :
        pipe = p /\ doomed = d
  BY DEF Owned, TypeOK, ListenerFits, ServerConnect
<1>1. /\ listener = "connect" /\ listener' = "waiting" /\ depth' = 0
      /\ doomed' = NoInstance /\ CloseServerEnds({d})
      /\ accept' = [accept EXCEPT ![p] = ConnectResult(p)]
      /\ UNCHANGED <<clientEnd, request, pc, outcome, server, threads, pipe,
                     failures, session, io, timer, expired>>
  BY <1>0 DEF ServerConnect, clientVars, sessionVars
<1>2. /\ p # d
      /\ serverEnd[p] \in {"listening", "connected"} /\ session[p] = "none"
  BY <1>0, <1>1 DEF Owned, ListenerFits, Fits, PipeFits, DoomedFits
<1>3. /\ serverEnd' \in
           [Instance -> {"closed", "listening", "connected", "disconnected"}]
      /\ reply' \in [Instance -> BOOLEAN]
      /\ \A i \in Instance :
           IF i = d THEN serverEnd'[i] = "closed" /\ reply'[i] = FALSE
           ELSE serverEnd'[i] = serverEnd[i] /\ reply'[i] = reply[i]
  BY <1>1, CloseOneFacts DEF Owned
<1>4. /\ accept'[p] = ConnectResult(p)
      /\ \A i \in Instance \ {p} : accept'[i] = accept[i]
      /\ accept' \in [Instance -> {"none", "pending", "ok", "failed"}]
  BY <1>1, <1>2 DEF Owned, TypeOK, KernelTypeOK, ConnectResult
<1>5. TypeOK'
  <2>1. 0 \in 0 .. failures + 1
    BY ServerAssumption DEF Owned, TypeOK
  <2> QED
    BY <1>1, <1>3, <1>4, <2>1 DEF Owned, TypeOK, KernelTypeOK
<1>6. ListenerFits'
  BY <1>0, <1>1, <1>2, NoInstanceFits DEF Owned, ListenerFits, Movable
<1>7. Fits(p)'
  <2>1. /\ ConnectResult(p) # "pending" => serverEnd[p] = "connected"
        /\ ConnectResult(p) = "failed" => clientEnd[p] = NoClient
    BY <1>2 DEF ConnectResult, ClientGone
  <2>2. Fits(p) /\ serverEnd'[p] = serverEnd[p] /\ reply'[p] = reply[p]
    BY <1>2, <1>3 DEF Owned
  <2> QED
    BY <1>0, <1>1, <1>2, <1>4, <2>1, <2>2, NoInstanceFits
    DEF Fits, PipeFits, DoomedFits, AcceptFits, ListeningFits, ClosedFits,
        SessionFits
<1>8. ASSUME NEW i \in Instance \ {p}
      PROVE  Fits(i)'
  <2>1. Fits(i) /\ accept[i] = "none"
    BY <1>0, <1>1 DEF Owned, Fits, AcceptFits
  <2>2. CASE i = d
    BY <1>0, <1>1, <1>3, <1>4, <2>1, <2>2, NoInstanceFits
    DEF Fits, PipeFits, DoomedFits, AcceptFits, ListeningFits, ClosedFits,
        SessionFits
  <2>3. CASE i # d
    BY <1>0, <1>1, <1>3, <1>4, <2>1, <2>3, NoInstanceFits, Elsewhere
  <2> QED
    BY <2>2, <2>3
<1> QED
  BY <1>5, <1>6, <1>7, <1>8 DEF Owned

\* The coroutine ends, and the pipe it was given is closed with it.
LEMMA CoroutineFailsOwned ==
  ASSUME Owned, CoroutineFails
  PROVE  Owned'
<1>0. PICK p \in Instance : pipe = p
  BY DEF Owned, ListenerFits, CoroutineFails
<1>1. /\ listener = "waiting" /\ listener' = "over" /\ server = "coroutine"
      /\ pipe' = NoInstance /\ CloseServerEnds({p})
      /\ accept' = [accept EXCEPT ![p] = "none"]
      /\ UNCHANGED <<clientEnd, request, pc, outcome, server, threads, doomed,
                     depth, failures, session, io, timer, expired>>
  BY <1>0 DEF CoroutineFails, clientVars, sessionVars
<1>2. session[p] = "none" /\ doomed \notin Instance
  BY <1>0, <1>1 DEF Owned, ListenerFits, Fits, PipeFits
<1>3. /\ serverEnd' \in
           [Instance -> {"closed", "listening", "connected", "disconnected"}]
      /\ reply' \in [Instance -> BOOLEAN]
      /\ \A i \in Instance :
           IF i = p THEN serverEnd'[i] = "closed" /\ reply'[i] = FALSE
           ELSE serverEnd'[i] = serverEnd[i] /\ reply'[i] = reply[i]
  BY <1>1, CloseOneFacts DEF Owned
<1>4. /\ accept'[p] = "none"
      /\ \A i \in Instance \ {p} : accept'[i] = accept[i]
      /\ accept' \in [Instance -> {"none", "pending", "ok", "failed"}]
  BY <1>1, <1>2 DEF Owned, TypeOK, KernelTypeOK
<1>5. TypeOK'
  BY <1>1, <1>3, <1>4 DEF Owned, TypeOK, KernelTypeOK
<1>6. ListenerFits'
  BY <1>1, <1>2 DEF Owned, ListenerFits, Movable
<1>7. Fits(p)'
  BY <1>1, <1>2, <1>3, <1>4, NoInstanceFits
  DEF Owned, Fits, PipeFits, DoomedFits, AcceptFits, ListeningFits, ClosedFits,
      SessionFits
<1>8. ASSUME NEW i \in Instance \ {p}
      PROVE  Fits(i)'
  <2>1. Fits(i) /\ accept[i] = "none"
    BY <1>0, <1>1 DEF Owned, Fits, AcceptFits
  <2> QED
    BY <1>0, <1>1, <1>3, <1>4, <2>1, NoInstanceFits, Elsewhere
<1> QED
  BY <1>5, <1>6, <1>7, <1>8 DEF Owned

\* The pipe goes to a session, or to the handler, or stays.
LEMMA AcceptHandlerOwned ==
  ASSUME Owned, AcceptHandler
  PROVE  Owned'
<1>0. PICK p \in Instance : pipe = p
  BY DEF Owned, ListenerFits, AcceptHandler
<1>1. /\ listener = "waiting" /\ listener' = "create" /\ depth' = depth + 1
      /\ accept[p] \in {"ok", "failed"}
      /\ accept' = [accept EXCEPT ![p] = "none"]
      /\ UNCHANGED <<serverEnd, clientEnd, request, reply, pc, outcome, server,
                     threads, failures, expired>>
  BY <1>0 DEF AcceptHandler, clientVars
<1>2. /\ session[p] = "none" /\ doomed \notin Instance
      /\ serverEnd[p] \in {"listening", "connected"} /\ depth = 0
  BY <1>0, <1>1 DEF Owned, ListenerFits, Fits, PipeFits
<1>3. /\ accept'[p] = "none"
      /\ \A i \in Instance \ {p} : accept'[i] = accept[i]
      /\ accept' \in [Instance -> {"none", "pending", "ok", "failed"}]
  BY <1>1, <1>2 DEF Owned, TypeOK, KernelTypeOK
<1>4. depth' \in 0 .. failures' + 1
  <2>1. depth + 1 \in 0 .. failures + 1
    BY <1>2, ServerAssumption DEF Owned, TypeOK
  <2> QED
    BY <1>1, <2>1
<1>5. CASE accept[p] = "ok"
  <2>1. /\ session' = [session EXCEPT ![p] = "open"]
        /\ io' = [io EXCEPT ![p] = "read"]
        /\ timer' = [timer EXCEPT ![p] = IF Http THEN "armed" ELSE "none"]
        /\ pipe' = NoInstance /\ doomed' = doomed
    BY <1>0, <1>5 DEF AcceptHandler
  <2>2. TypeOK'
    BY <1>1, <1>3, <1>4, <2>1 DEF Owned, TypeOK, KernelTypeOK
  <2>3. ListenerFits'
    BY <1>0, <1>1, <1>2, <2>1 DEF Owned, ListenerFits, Movable
  <2>4. Fits(p)'
    <3>1. /\ session'[p] = "open" /\ io'[p] = "read"
          /\ timer'[p] \in {"armed", "none"}
      BY <1>2, <2>1 DEF Owned, TypeOK
    <3>2. serverEnd[p] = "connected"
      BY <1>2, <1>5 DEF Owned, Fits, AcceptFits
    <3> QED
      BY <1>1, <1>2, <1>3, <2>1, <3>1, <3>2, NoInstanceFits
      DEF Fits, PipeFits, DoomedFits, AcceptFits, ListeningFits, ClosedFits,
          SessionFits
  <2>5. ASSUME NEW i \in Instance \ {p}
        PROVE  Fits(i)'
    <3>1. Fits(i) /\ accept[i] = "none"
      BY <1>0, <1>1 DEF Owned, Fits, AcceptFits
    <3>2. session'[i] = session[i] /\ io'[i] = io[i] /\ timer'[i] = timer[i]
      BY <2>1 DEF Owned, TypeOK
    <3> QED
      BY <1>0, <1>1, <1>3, <2>1, <3>1, <3>2, NoInstanceFits, Elsewhere
  <2> QED
    BY <2>2, <2>3, <2>4, <2>5 DEF Owned
<1>6. CASE accept[p] = "failed"
  <2>1. /\ IF Movable THEN doomed' = p /\ pipe' = NoInstance
           ELSE UNCHANGED <<doomed, pipe>>
        /\ server # "coroutine"
        /\ UNCHANGED <<session, io, timer>>
    BY <1>0, <1>6 DEF AcceptHandler
  <2>2. clientEnd[p] = NoClient /\ serverEnd[p] = "connected"
    BY <1>2, <1>6 DEF Owned, Fits, AcceptFits
  <2>3. TypeOK'
    <3>1. {pipe', doomed'} \subseteq Instance \cup {NoInstance}
      BY <1>2, <2>1 DEF Owned, TypeOK
    <3> QED
      BY <1>1, <1>3, <1>4, <2>1, <3>1 DEF Owned, TypeOK, KernelTypeOK
  <2>4. ListenerFits'
    BY <1>0, <1>1, <1>2, <2>1 DEF Owned, ListenerFits, Movable
  <2>5. Fits(p)'
    BY <1>0, <1>1, <1>2, <1>3, <2>1, <2>2, NoInstanceFits
    DEF Owned, Fits, PipeFits, DoomedFits, AcceptFits, ListeningFits, ClosedFits,
        SessionFits
  <2>6. ASSUME NEW i \in Instance \ {p}
        PROVE  Fits(i)'
    <3>1. Fits(i) /\ accept[i] = "none"
      BY <1>0, <1>1 DEF Owned, Fits, AcceptFits
    <3> QED
      BY <1>0, <1>1, <1>2, <1>3, <2>1, <3>1, NoInstanceFits, Elsewhere
  <2> QED
    BY <2>3, <2>4, <2>5, <2>6 DEF Owned
<1> QED
  BY <1>1, <1>5, <1>6

(***************************************************************************)
(* Owned: the sessions.                                                    *)
(***************************************************************************)

\* A session has its pipe to itself.
LEMMA SessionAlone ==
  ASSUME Owned, NEW i \in Instance, session[i] # "none"
  PROVE  pipe # i /\ doomed # i /\ accept[i] = "none" /\ Fits(i)
  BY DEF Owned, Fits, PipeFits, DoomedFits, AcceptFits

\* A step of the session on i that leaves the listener alone.
LEMMA SessionOwned ==
  ASSUME Owned, NEW i \in Instance, session[i] # "none", TypeOK',
         UNCHANGED <<clientEnd, accept, listenerVars>>,
         serverEnd'[i] # "listening",
         ClosedFits(i)', SessionFits(i)',
         \A j \in Instance \ {i} :
           /\ serverEnd'[j] = serverEnd[j] /\ request'[j] = request[j]
           /\ reply'[j] = reply[j] /\ session'[j] = session[j]
           /\ io'[j] = io[j] /\ timer'[j] = timer[j]
  PROVE  Owned'
<1>1. UNCHANGED <<server, threads, listener, pipe, doomed, depth, failures>>
  BY DEF listenerVars
<1>2. ListenerFits'
  BY <1>1 DEF Owned, ListenerFits, Movable
<1>3. Fits(i)'
  BY <1>1, SessionAlone
  DEF Fits, PipeFits, DoomedFits, AcceptFits, ListeningFits
<1>4. ASSUME NEW j \in Instance \ {i}
      PROVE  Fits(j)'
  <2>1. Fits(j) /\ (accept[j] # "none" => listener = "waiting")
    BY DEF Owned, Fits, AcceptFits
  <2> QED
    BY <1>1, <2>1, Elsewhere
<1> QED
  BY <1>2, <1>3, <1>4 DEF Owned

Operation == {"none", "read", "write", "read_ok", "read_err", "write_ok",
              "write_err"}
Deadline == {"none", "armed", "cancelled"}

\* A handler returns; the session ends when nothing refers to it.
LEMMA ReturnsOwned ==
  ASSUME Owned, NEW i \in Instance, NEW o \in Operation, NEW t \in Deadline,
         Returns(i, o, t), session[i] \in {"open", "closed"},
         o = "write" => session[i] = "open",
         t = "cancelled" => session[i] = "open" /\ o = "none",
         UNCHANGED <<clientEnd, accept, request, clientVars, listenerVars,
                     expired>>
  PROVE  Owned'
<1>1. /\ io' = [io EXCEPT ![i] = o] /\ timer' = [timer EXCEPT ![i] = t]
      /\ UNCHANGED <<clientEnd, accept, request, pc, outcome, server, threads,
                     listener, pipe, doomed, depth, failures, expired>>
  BY DEF Returns, clientVars, listenerVars
<1>2. /\ io'[i] = o /\ timer'[i] = t
      /\ \A j \in Instance \ {i} : io'[j] = io[j] /\ timer'[j] = timer[j]
      /\ io' \in [Instance -> Operation] /\ timer' \in [Instance -> Deadline]
  BY <1>1 DEF Owned, TypeOK, Operation, Deadline
<1>3. CASE o = "none" /\ t = "none"
  <2>1. session' = [session EXCEPT ![i] = "none"] /\ CloseServerEnds({i})
    BY <1>3 DEF Returns
  <2>2. /\ serverEnd' \in
             [Instance -> {"closed", "listening", "connected", "disconnected"}]
        /\ reply' \in [Instance -> BOOLEAN]
        /\ serverEnd'[i] = "closed" /\ reply'[i] = FALSE
        /\ \A j \in Instance \ {i} :
             serverEnd'[j] = serverEnd[j] /\ reply'[j] = reply[j]
    BY <2>1, CloseOneFacts DEF Owned
  <2>3. /\ session'[i] = "none"
        /\ \A j \in Instance \ {i} : session'[j] = session[j]
        /\ session' \in [Instance -> {"none", "open", "flushing", "closed"}]
    BY <2>1 DEF Owned, TypeOK
  <2>4. TypeOK'
    BY <1>1, <1>2, <2>2, <2>3
    DEF Owned, TypeOK, KernelTypeOK, Operation, Deadline
  <2>5. ClosedFits(i)' /\ SessionFits(i)'
    BY <1>2, <1>3, <2>2, <2>3 DEF ClosedFits, SessionFits
  <2> QED
    BY <1>1, <1>2, <2>2, <2>3, <2>4, <2>5, SessionOwned
<1>4. CASE ~(o = "none" /\ t = "none")
  <2>1. UNCHANGED <<session, serverEnd, reply>>
    BY <1>4 DEF Returns
  <2>2. TypeOK'
    BY <1>1, <1>2, <2>1 DEF Owned, TypeOK, KernelTypeOK, Operation, Deadline
  <2>3. Fits(i) /\ pipe # i
    BY SessionAlone
  <2>4. ClosedFits(i)' /\ SessionFits(i)' /\ serverEnd'[i] # "listening"
    BY <1>1, <1>2, <2>1, <2>3
    DEF Fits, ListeningFits, ClosedFits, SessionFits
  <2> QED
    BY <1>1, <1>2, <2>1, <2>2, <2>4, SessionOwned
<1> QED
  BY <1>3, <1>4

\* An operation that is under way belongs to a session.
LEMMA SessionBusy ==
  ASSUME Owned, NEW i \in Instance, io[i] # "none"
  PROVE  session[i] \in {"open", "closed"} /\ timer[i] # "cancelled"
  BY DEF Owned, TypeOK, Fits, SessionFits

\* The kernel completes a read or a write.
LEMMA CompletesOwned ==
  ASSUME Owned, NEW i \in Instance, ReadCompletes(i) \/ WriteCompletes(i)
  PROVE  Owned'
<1>1. /\ io[i] \in {"read", "write"}
      /\ UNCHANGED <<serverEnd, clientEnd, accept, pc, outcome, server, threads,
                     listener, pipe, doomed, depth, failures, session, timer,
                     expired>>
  BY DEF ReadCompletes, WriteCompletes, clientVars, listenerVars
<1>2. session[i] \in {"open", "closed"} /\ timer[i] # "cancelled"
  BY <1>1, SessionBusy
<1>3. Fits(i) /\ serverEnd[i] # "listening"
  BY <1>2, SessionAlone DEF Fits, ListeningFits
<1>4. CASE ReadCompletes(i)
  <2>1. /\ io' = [io EXCEPT ![i] = IF request[i] THEN "read_ok" ELSE "read_err"]
        /\ request' = [request EXCEPT ![i] = FALSE] /\ reply' = reply
    BY <1>4 DEF ReadCompletes
  <2>2. TypeOK'
    BY <1>1, <2>1 DEF Owned, TypeOK, KernelTypeOK
  <2>3. /\ io'[i] \in {"read_ok", "read_err"}
        /\ \A j \in Instance \ {i} : io'[j] = io[j] /\ request'[j] = request[j]
    BY <2>1 DEF Owned, TypeOK, KernelTypeOK
  <2>4. ClosedFits(i)' /\ SessionFits(i)'
    BY <1>1, <1>2, <1>3, <2>1, <2>3 DEF Fits, ClosedFits, SessionFits
  <2> QED
    BY <1>1, <1>2, <1>3, <2>1, <2>2, <2>3, <2>4, SessionOwned DEF listenerVars
<1>5. CASE WriteCompletes(i)
  <2>1. /\ io[i] = "write"
        /\ io' = [io EXCEPT ![i] = IF ClientGone(i) THEN "write_err"
                                   ELSE "write_ok"]
        /\ reply' = [reply EXCEPT ![i] = ~ClientGone(i)] /\ request' = request
    BY <1>5 DEF WriteCompletes
  <2>2. TypeOK'
    <3>1. (~ClientGone(i)) \in BOOLEAN
      BY DEF ClientGone
    <3>2. reply' \in [Instance -> BOOLEAN]
      BY <2>1, <3>1 DEF Owned, TypeOK, KernelTypeOK
    <3> QED
      BY <1>1, <2>1, <3>2 DEF Owned, TypeOK, KernelTypeOK
  <2>3. /\ io'[i] \in {"write_ok", "write_err"}
        /\ \A j \in Instance \ {i} : io'[j] = io[j] /\ reply'[j] = reply[j]
    BY <2>1 DEF Owned, TypeOK, KernelTypeOK
  <2>4. session[i] = "open" /\ serverEnd[i] # "closed"
    BY <1>3, <2>1 DEF Fits, ClosedFits, SessionFits
  <2>5. ClosedFits(i)' /\ SessionFits(i)'
    BY <1>1, <1>2, <2>3, <2>4 DEF ClosedFits, SessionFits
  <2> QED
    BY <1>1, <1>2, <1>3, <2>1, <2>2, <2>3, <2>5, SessionOwned DEF listenerVars
<1> QED
  BY <1>4, <1>5

\* A handler of a session that ends with Returns.
LEMMA HandlerOwned ==
  ASSUME Owned, NEW i \in Instance,
         \/ ReadHandler(i) \/ EchoWritten(i) \/ DeadlineCancelled(i)
         \/ HttpWritten(i) /\ session[i] # "open"
  PROVE  Owned'
<1>1. UNCHANGED <<clientEnd, accept, request, clientVars, listenerVars, expired>>
  BY DEF ReadHandler, EchoWritten, DeadlineCancelled, HttpWritten
<1>2. io[i] \in Operation /\ timer[i] \in Deadline
  BY DEF Owned, TypeOK, Operation, Deadline
<1>3. CASE DeadlineCancelled(i)
  <2>1. PICK o \in Operation : io[i] = o
    BY <1>2
  <2>2. Returns(i, o, "none") /\ session[i] = "open" /\ o = "none"
    BY <1>3, <2>1 DEF DeadlineCancelled, Owned, Fits, SessionFits
  <2>3. "none" \in Deadline
    BY DEF Deadline
  <2> QED
    BY <1>1, <2>2, <2>3, ReturnsOwned
<1>4. CASE ~DeadlineCancelled(i)
  <2>1. io[i] # "none"
    BY <1>4 DEF ReadHandler, EchoWritten, HttpWritten
  <2>2. session[i] \in {"open", "closed"} /\ timer[i] # "cancelled"
    BY <2>1, SessionBusy
  <2>3. PICK t \in Deadline : timer[i] = t
    BY <1>2
  <2>4. PICK o \in Operation :
          Returns(i, o, t) /\ (o = "write" => session[i] = "open")
    <3>1. CASE ReadHandler(i)
      <4>1. PICK o \in Operation :
              o = IF io[i] = "read_err" THEN "none"
                  ELSE IF session[i] = "closed" THEN "write_err" ELSE "write"
        BY DEF Operation
      <4>2. Returns(i, o, t)
        BY <2>3, <3>1, <4>1 DEF ReadHandler
      <4> QED
        BY <2>2, <4>1, <4>2
    <3>2. CASE EchoWritten(i)
      <4>1. PICK o \in Operation :
              o = IF io[i] = "write_ok" THEN "read" ELSE "none"
        BY DEF Operation
      <4>2. Returns(i, o, t)
        BY <2>3, <3>2, <4>1 DEF EchoWritten
      <4> QED
        BY <4>1, <4>2
    <3>3. CASE HttpWritten(i) /\ session[i] # "open"
      <4>1. "none" \in Operation /\ Returns(i, "none", t)
        BY <2>3, <3>3 DEF HttpWritten, Operation
      <4> QED
        BY <4>1
    <3> QED
      BY <1>4, <3>1, <3>2, <3>3
  <2> QED
    BY <1>1, <2>2, <2>3, <2>4, ReturnsOwned
<1> QED
  BY <1>3, <1>4

\* The HTTP session goes into shutdown and comes back.
LEMMA ShutdownOwned ==
  ASSUME Owned, NEW i \in Instance,
         (HttpWritten(i) /\ session[i] = "open") \/ ShutdownReturns(i)
  PROVE  Owned'
<1>1. UNCHANGED <<clientEnd, accept, request, pc, outcome, server, threads,
                  listener, pipe, doomed, depth, failures, expired>>
  BY DEF HttpWritten, ShutdownReturns, clientVars, listenerVars
<1>2. session[i] \in {"open", "flushing"}
  BY DEF ShutdownReturns
<1>3. Fits(i) /\ serverEnd[i] # "listening" /\ serverEnd[i] # "closed"
  BY <1>2, SessionAlone DEF Fits, ListeningFits, ClosedFits
<1>4. CASE HttpWritten(i) /\ session[i] = "open"
  <2>1. /\ session' = [session EXCEPT ![i] = "flushing"]
        /\ io' = [io EXCEPT ![i] = "none"]
        /\ UNCHANGED <<timer, serverEnd, reply>> /\ io[i] # "none"
    BY <1>4 DEF HttpWritten
  <2>2. TypeOK'
    BY <1>1, <2>1 DEF Owned, TypeOK, KernelTypeOK
  <2>3. /\ session'[i] = "flushing" /\ io'[i] = "none" /\ timer[i] # "cancelled"
        /\ \A j \in Instance \ {i} : session'[j] = session[j] /\ io'[j] = io[j]
    BY <2>1, SessionBusy DEF Owned, TypeOK
  <2>4. ClosedFits(i)' /\ SessionFits(i)'
    BY <1>3, <2>1, <2>3 DEF ClosedFits, SessionFits
  <2> QED
    BY <1>1, <1>2, <1>3, <2>1, <2>2, <2>3, <2>4, SessionOwned DEF listenerVars
<1>5. CASE ShutdownReturns(i)
  <2>1. /\ session[i] = "flushing" /\ session' = [session EXCEPT ![i] = "open"]
        /\ timer' = [timer EXCEPT ![i] = "cancelled"] /\ io' = io
        /\ serverEnd' \in {serverEnd, [serverEnd EXCEPT ![i] = "disconnected"]}
        /\ reply' \in {reply, [reply EXCEPT ![i] = FALSE]}
    BY <1>5 DEF ShutdownReturns
  <2>2. TypeOK'
    <3>1. serverEnd' \in
            [Instance -> {"closed", "listening", "connected", "disconnected"}]
      BY <2>1 DEF Owned, TypeOK, KernelTypeOK
    <3>2. reply' \in [Instance -> BOOLEAN]
      BY <2>1 DEF Owned, TypeOK, KernelTypeOK
    <3>3. /\ session' \in [Instance -> {"none", "open", "flushing", "closed"}]
          /\ timer' \in [Instance -> {"none", "armed", "cancelled"}]
      BY <2>1 DEF Owned, TypeOK
    <3> QED
      BY <1>1, <2>1, <3>1, <3>2, <3>3 DEF Owned, TypeOK, KernelTypeOK
  <2>3. /\ session'[i] = "open" /\ timer'[i] = "cancelled"
        /\ serverEnd'[i] \notin {"closed", "listening"}
        /\ \A j \in Instance \ {i} :
             /\ session'[j] = session[j] /\ timer'[j] = timer[j]
             /\ serverEnd'[j] = serverEnd[j] /\ reply'[j] = reply[j]
    BY <1>3, <2>1 DEF Owned, TypeOK, KernelTypeOK
  <2>4. ClosedFits(i)' /\ SessionFits(i)'
    BY <1>3, <2>1, <2>3 DEF Fits, ClosedFits, SessionFits
  <2> QED
    BY <1>1, <1>2, <2>1, <2>2, <2>3, <2>4, SessionOwned DEF listenerVars
<1> QED
  BY <1>4, <1>5

\* The deadline closes the pipe under the session.
LEMMA DeadlineOwned ==
  ASSUME Owned, NEW i \in Instance, DeadlinePasses(i)
  PROVE  Owned'
<1>1. /\ timer[i] = "armed" /\ timer' = [timer EXCEPT ![i] = "none"]
      /\ io' = [io EXCEPT ![i] = Aborted(io[i])]
      /\ session' = [session EXCEPT ![i] = IF io[i] = "none" THEN "none"
                                           ELSE "closed"]
      /\ CloseServerEnds({i}) /\ expired' = expired \cup {clientEnd[i]}
      /\ UNCHANGED <<clientEnd, accept, request, pc, outcome, server, threads,
                     listener, pipe, doomed, depth, failures>>
  BY DEF DeadlinePasses, clientVars, listenerVars
<1>2. session[i] # "none"
  BY <1>1 DEF Owned, Fits, SessionFits
<1>3. /\ serverEnd' \in
           [Instance -> {"closed", "listening", "connected", "disconnected"}]
      /\ reply' \in [Instance -> BOOLEAN]
      /\ serverEnd'[i] = "closed" /\ reply'[i] = FALSE
      /\ \A j \in Instance \ {i} :
           serverEnd'[j] = serverEnd[j] /\ reply'[j] = reply[j]
  BY <1>1, CloseOneFacts DEF Owned
<1>4. /\ Aborted(io[i]) \in Operation
      /\ Aborted(io[i]) # "write"
      /\ io[i] = "none" => Aborted(io[i]) = "none"
  <2>1. io[i] \in Operation
    BY DEF Owned, TypeOK, Operation
  <2> QED
    BY <2>1 DEF Aborted, Operation
<1>5. /\ timer'[i] = "none" /\ io'[i] = Aborted(io[i])
      /\ session'[i] = IF io[i] = "none" THEN "none" ELSE "closed"
      /\ \A j \in Instance \ {i} :
           session'[j] = session[j] /\ io'[j] = io[j] /\ timer'[j] = timer[j]
  BY <1>1 DEF Owned, TypeOK
<1>6. TypeOK'
  <2>1. io' \in [Instance -> Operation]
    BY <1>1, <1>4 DEF Owned, TypeOK, Operation
  <2> QED
    BY <1>1, <1>3, <2>1 DEF Owned, TypeOK, KernelTypeOK, Operation
<1>7. ClosedFits(i)' /\ SessionFits(i)'
  BY <1>3, <1>4, <1>5 DEF ClosedFits, SessionFits
<1> QED
  BY <1>1, <1>2, <1>3, <1>5, <1>6, <1>7, SessionOwned DEF listenerVars

(***************************************************************************)
(* Owned: the clients.                                                     *)
(***************************************************************************)

\* A client connects to the instance that listens.
LEMMA OpenPipeOwned ==
  ASSUME Owned, NEW c \in Client, OpenPipe(c),
         UNCHANGED <<listenerVars, sessionVars>>
  PROVE  Owned'
<1>1. PICK i \in Listening :
        /\ serverEnd' = [serverEnd EXCEPT ![i] = "connected"]
        /\ clientEnd' = [clientEnd EXCEPT ![i] = c]
        /\ accept' = [accept EXCEPT ![i] = IF @ = "pending" THEN "ok" ELSE @]
  BY DEF OpenPipe
<1>2. /\ pc' = [pc EXCEPT ![c] = "mode"]
      /\ UNCHANGED <<request, reply, outcome, server, threads, listener, pipe,
                     doomed, depth, failures, session, io, timer, expired>>
  BY DEF OpenPipe, Goto, listenerVars, sessionVars
<1>3. i \in Instance /\ serverEnd[i] = "listening"
  BY DEF Listening
<1>4. /\ Fits(i) /\ pipe = i /\ clientEnd[i] = NoClient /\ session[i] = "none"
      /\ accept[i] # "failed" /\ doomed # i
  BY <1>3
  DEF Owned, Fits, ListeningFits, PipeFits, AcceptFits, DoomedFits
<1>5. TypeOK'
  BY <1>1, <1>2, <1>3 DEF Owned, TypeOK, KernelTypeOK
<1>6. ListenerFits'
  BY <1>2 DEF Owned, ListenerFits, Movable
<1>7. Fits(i)'
  <2>1. /\ serverEnd'[i] = "connected"
        /\ accept'[i] = IF accept[i] = "pending" THEN "ok" ELSE accept[i]
    BY <1>1, <1>3 DEF Owned, TypeOK, KernelTypeOK
  <2> QED
    BY <1>2, <1>4, <2>1
    DEF Fits, PipeFits, DoomedFits, AcceptFits, ListeningFits, ClosedFits,
        SessionFits
<1>8. ASSUME NEW j \in Instance \ {i}
      PROVE  Fits(j)'
  <2>1. /\ serverEnd'[j] = serverEnd[j] /\ clientEnd'[j] = clientEnd[j]
        /\ accept'[j] = accept[j]
    BY <1>1 DEF Owned, TypeOK, KernelTypeOK
  <2>2. Fits(j) /\ (accept[j] # "none" => listener = "waiting")
    BY DEF Owned, Fits, AcceptFits
  <2> QED
    BY <1>2, <2>1, <2>2, Elsewhere
<1> QED
  BY <1>3, <1>5, <1>6, <1>7, <1>8 DEF Owned

\* The other calls of a client leave the server ends alone.
LEMMA ClientOwned ==
  ASSUME Owned, NEW c \in Client, ClientNext(c), ~OpenPipe(c),
         UNCHANGED <<listenerVars, sessionVars>>
  PROVE  Owned'
<1>1. UNCHANGED <<serverEnd, accept, server, threads, listener, pipe, doomed,
                  depth, failures, session, io, timer, expired>>
  BY DEF ClientNext, ClientStep, OpenFails, WaitReturns, SetMode, Write,
         ReadReply, ClientCloses, WaitTimesOut, GivesUp, instanceVars,
         listenerVars, sessionVars
<1>2. /\ clientEnd' \in [Instance -> Client \cup {NoClient}]
      /\ \A i \in Instance : clientEnd'[i] \in {clientEnd[i], NoClient}
  BY DEF Owned, TypeOK, KernelTypeOK, ClientNext, ClientStep, OpenFails,
         WaitReturns, SetMode, Write, ReadReply, ClientCloses, WaitTimesOut,
         GivesUp, instanceVars
<1>3. /\ request' \in [Instance -> BOOLEAN]
      /\ \A i \in Instance :
           serverEnd[i] # "connected" => request'[i] = request[i]
  <2>1. CASE Write(c)
    BY <2>1 DEF Owned, TypeOK, KernelTypeOK, Write
  <2>2. CASE ~Write(c)
    <3>1. request' = request
      BY <2>2
      DEF ClientNext, ClientStep, OpenFails, WaitReturns, SetMode, ReadReply,
          ClientCloses, WaitTimesOut, GivesUp, instanceVars
    <3> QED
      BY <3>1 DEF Owned, TypeOK, KernelTypeOK
  <2> QED
    BY <2>1, <2>2
<1>4. /\ reply' \in [Instance -> BOOLEAN]
      /\ \A i \in Instance : ~reply[i] => ~reply'[i]
  <2>1. CASE ReadReply(c)
    BY <2>1 DEF Owned, TypeOK, KernelTypeOK, ReadReply
  <2>2. CASE ClientCloses(c)
    BY <2>2 DEF Owned, TypeOK, KernelTypeOK, ClientCloses
  <2>3. CASE ~ReadReply(c) /\ ~ClientCloses(c)
    <3>1. reply' = reply
      BY <2>3
      DEF ClientNext, ClientStep, OpenFails, WaitReturns, SetMode, Write,
          WaitTimesOut, GivesUp, instanceVars
    <3> QED
      BY <3>1 DEF Owned, TypeOK, KernelTypeOK
  <2> QED
    BY <2>1, <2>2, <2>3
<1>5. /\ pc' \in [Client -> {"idle", "opening", "busy", "mode", "ready",
                             "waiting", "closing", "end"}]
      /\ outcome' \in [Client -> Outcome \cup {"none"}]
  BY DEF Owned, TypeOK, KernelTypeOK, ClientNext, ClientStep, OpenFails,
         WaitReturns, SetMode, Write, ReadReply, ClientCloses, WaitTimesOut,
         GivesUp, Goto, Ends, Outcome
<1>6. TypeOK'
  BY <1>1, <1>2, <1>3, <1>4, <1>5 DEF Owned, TypeOK, KernelTypeOK
<1>7. ListenerFits'
  BY <1>1 DEF Owned, ListenerFits, Movable
<1>8. ASSUME NEW i \in Instance
      PROVE  Fits(i)'
  <2>1. Fits(i)
    BY DEF Owned
  <2>2. PipeFits(i)' /\ DoomedFits(i)' /\ AcceptFits(i)' /\ SessionFits(i)'
    BY <1>1, <1>2, <1>4, <2>1 DEF Fits, PipeFits, DoomedFits, AcceptFits, SessionFits
  <2>3. ListeningFits(i)' /\ ClosedFits(i)'
    BY <1>1, <1>2, <1>3, <1>4, <2>1 DEF Fits, ListeningFits, ClosedFits
  <2> QED
    BY <2>2, <2>3 DEF Fits
<1> QED
  BY <1>6, <1>7, <1>8 DEF Owned

LEMMA LaunchOwned ==
  ASSUME Owned, NEW c \in Client, Launch(c)
  PROVE  Owned'
<1>1. /\ pc' = [pc EXCEPT ![c] = "opening"]
      /\ UNCHANGED <<serverEnd, clientEnd, accept, request, reply, outcome,
                     server, threads, listener, pipe, doomed, depth, failures,
                     session, io, timer, expired>>
  BY DEF Launch, Goto, instanceVars, listenerVars, sessionVars
<1>2. TypeOK'
  BY <1>1 DEF Owned, TypeOK, KernelTypeOK
<1>3. ListenerFits'
  BY <1>1 DEF Owned, ListenerFits, Movable
<1>4. ASSUME NEW i \in Instance
      PROVE  Fits(i)'
  <2>1. Fits(i) /\ (accept[i] # "none" => listener = "waiting")
    BY DEF Owned, Fits, AcceptFits
  <2> QED
    BY <1>1, <2>1, Elsewhere
<1> QED
  BY <1>2, <1>3, <1>4 DEF Owned

LEMMA StepOwned == Owned /\ [Next]_vars => Owned'
<1> SUFFICES ASSUME Owned, [Next]_vars
             PROVE  Owned'
  OBVIOUS
<1>1. ASSUME NEW c \in Client, Launch(c) \/ ClientActs(c)
      PROVE  Owned'
  BY <1>1, LaunchOwned, OpenPipeOwned, ClientOwned DEF ClientActs
<1>2. CASE ListenerStep
  BY <1>2, ServerCreateOwned, CreateFailsOwned, ServerConnectOwned,
     AcceptHandlerOwned, CoroutineFailsOwned
  DEF ListenerStep
<1>3. ASSUME NEW i \in Instance, SessionStep(i)
      PROVE  Owned'
  BY <1>3, CompletesOwned, HandlerOwned, ShutdownOwned DEF SessionStep
<1>4. ASSUME NEW i \in Instance, DeadlinePasses(i)
      PROVE  Owned'
  BY <1>4, DeadlineOwned
<1>5. CASE UNCHANGED vars
  <2>1. UNCHANGED <<serverEnd, clientEnd, accept, request, reply, pc, outcome,
                    server, threads, listener, pipe, doomed, depth, failures,
                    session, io, timer, expired>>
    BY <1>5
    DEF vars, kernelVars, instanceVars, clientVars, listenerVars, sessionVars
  <2>2. ASSUME NEW i \in Instance
        PROVE  Fits(i)'
    <3>1. Fits(i) /\ (accept[i] # "none" => listener = "waiting")
      BY DEF Owned, Fits, AcceptFits
    <3> QED
      BY <2>1, <3>1, Elsewhere
  <2> QED
    BY <2>1, <2>2 DEF Owned, TypeOK, KernelTypeOK, ListenerFits, Movable
<1> QED
  BY <1>1, <1>2, <1>3, <1>4, <1>5 DEF Next, ServerWaits

LEMMA Ownership == SafeSpec => []Owned
  BY InitOwned, StepOwned, PTL DEF SafeSpec

(***************************************************************************)
(* Named.                                                                  *)
(***************************************************************************)

\* While the listener is in async_accept, a single thread is taken.
LEMMA ThreadTaken ==
  ASSUME threads = 1, listener \in {"create", "connect"}
  PROVE  ~ThreadFree
<1> DEFINE F == {i \in Instance : session[i] = "flushing"}
<1>1. IsFiniteSet(F)
  BY KernelAssumption, FS_Subset
<1>2. Cardinality(F) \in Nat
  BY <1>1, FS_CardinalityType
<1> HIDE DEF F
<1>3. ~(Cardinality(F) + 1 < 1)
  BY <1>2
<1> QED
  BY <1>3 DEF ThreadFree, F

\* An instance the listener has, has a name.
LEMMA ListenerHasName ==
  ASSUME Owned, listener \in {"connect", "waiting"}
  PROVE  NameExists
  BY DEF Owned, ListenerFits, Fits, PipeFits, NameExists

\* Which server runs, on how many threads, is settled at the start, and a
\* listener that has ended does not come back.
LEMMA ServerSettled ==
  ASSUME [Next]_vars
  PROVE  /\ server' = server /\ threads' = threads
         /\ listener \in {"over", "dead"} => listener' = listener
<1>1. CASE UNCHANGED listenerVars
  BY <1>1 DEF listenerVars
<1>2. CASE ListenerStep
  BY <1>2
  DEF ListenerStep, ServerCreate, CreateFails, ServerConnect, AcceptHandler,
      CoroutineFails
<1>3. CASE ~ListenerStep
  <2>1. UNCHANGED listenerVars
    BY <1>3
    DEF Next, Launch, ClientActs, SessionStep, ReadCompletes, WriteCompletes,
        ReadHandler, EchoWritten, HttpWritten, ShutdownReturns,
        DeadlineCancelled, DeadlinePasses, ServerWaits, vars
  <2> QED
    BY <1>1, <2>1
<1> QED
  BY <1>2, <1>3

\* A client is told that there is no pipe only when there is none.
LEMMA OnlyWithoutName ==
  ASSUME TypeOK, NEW c \in Client, ClientNext(c), ClientsFindPipe,
         NameExists
  PROVE  ClientsFindPipe'
<1>1. PICK o \in Outcome \cup {"none"} :
        outcome' = [outcome EXCEPT ![c] = o] /\ o # "not_found"
  <2>1. CASE UNCHANGED outcome
    <3>1. outcome' = [outcome EXCEPT ![c] = outcome[c]]
      BY <2>1 DEF TypeOK, KernelTypeOK
    <3> QED
      BY <3>1 DEF TypeOK, KernelTypeOK, ClientsFindPipe
  <2>2. CASE outcome' # outcome
    BY <2>2
    DEF ClientNext, ClientStep, OpenPipe, OpenFails, WaitReturns, SetMode, Write,
        ReadReply, ClientCloses, WaitTimesOut, GivesUp, Ends, Outcome
  <2> QED
    BY <2>1, <2>2
<1> QED
  BY <1>1 DEF TypeOK, KernelTypeOK, ClientsFindPipe

LEMMA InitNamed == Init => Named
  BY DEF Init, KernelInit, Named, ClientsFindPipe

\* No step of a session ends it while the listener has the only thread.
LEMMA StepNamed ==
  ASSUME Owned, Owned', Named, [Next]_vars
  PROVE  Named'
<1> SUFFICES ASSUME threads' = 1, listener' \notin {"over", "dead"}
             PROVE  /\ NameExists' \/ \A c \in Client : pc'[c] = "idle"
                    /\ ClientsFindPipe'
  BY DEF Named
<1>1. /\ threads = 1 /\ listener \notin {"over", "dead"}
      /\ NameExists \/ \A c \in Client : pc[c] = "idle"
      /\ ClientsFindPipe
  BY ServerSettled DEF Named
<1>2. ClientsFindPipe'
  <2>1. CASE UNCHANGED outcome
    BY <1>1, <2>1 DEF ClientsFindPipe
  <2>2. ASSUME NEW c \in Client, ClientNext(c)
        PROVE  ClientsFindPipe'
    <3>1. pc[c] # "idle"
      BY <2>2
      DEF ClientNext, ClientStep, OpenPipe, OpenFails, WaitReturns, SetMode,
          Write, ReadReply, ClientCloses, WaitTimesOut, GivesUp
    <3>2. NameExists
      BY <1>1, <3>1
    <3> QED
      BY <1>1, <2>2, <3>2, OnlyWithoutName DEF Owned
  <2>3. UNCHANGED outcome \/ \E c \in Client : ClientNext(c)
    BY DEF Next, Launch, ClientActs, ListenerStep, ServerCreate, CreateFails,
           ServerConnect, AcceptHandler, CoroutineFails, SessionStep,
           ReadCompletes, WriteCompletes, ReadHandler, EchoWritten, HttpWritten,
           ShutdownReturns, DeadlineCancelled, DeadlinePasses, ServerWaits, vars,
           kernelVars, clientVars
  <2> QED
    BY <2>1, <2>2, <2>3
<1>3. CASE listener' \in {"connect", "waiting"}
  <2>1. NameExists'
    BY <1>3 DEF Owned, ListenerFits, Fits, PipeFits, NameExists
  <2> QED
    BY <1>2, <2>1
<1>4. CASE listener' = "create" /\ listener # "create"
  <2>1. AcceptHandler
    BY <1>4
    DEF Next, Launch, ClientActs, ListenerStep, ServerCreate, CreateFails,
        ServerConnect, CoroutineFails, SessionStep, ReadCompletes,
        WriteCompletes, ReadHandler, EchoWritten, HttpWritten, ShutdownReturns,
        DeadlineCancelled, DeadlinePasses, ServerWaits, vars, listenerVars
  <2>2. NameExists /\ serverEnd' = serverEnd
    BY <2>1, ListenerHasName DEF AcceptHandler
  <2> QED
    BY <1>2, <2>2 DEF NameExists
<1>5. CASE listener' = "create" /\ listener = "create"
  <2>1. ~ThreadFree
    BY <1>1, <1>5, ThreadTaken
  <2>2. NameExists => NameExists'
    <3>1. ASSUME NEW i \in Instance, serverEnd[i] # "closed",
                 ~UNCHANGED serverEnd
          PROVE  serverEnd'[i] # "closed"
      <4>1. CASE \E c \in Client : ClientActs(c)
        <5>1. PICK c \in Client : OpenPipe(c)
          BY <3>1, <4>1
          DEF ClientActs, ClientNext, ClientStep, OpenFails, WaitReturns,
              SetMode, Write, ReadReply, ClientCloses, WaitTimesOut, GivesUp,
              instanceVars
        <5> QED
          BY <3>1, <5>1 DEF OpenPipe, Owned, TypeOK, KernelTypeOK
      <4>2. CASE \E j \in Instance : ShutdownReturns(j)
        BY <3>1, <4>2 DEF ShutdownReturns, Owned, TypeOK, KernelTypeOK
      <4>3. CASE ListenerStep
        BY <1>5, <3>1, <4>3
        DEF ListenerStep, ServerCreate, CreateFails, ServerConnect,
            AcceptHandler, CoroutineFails, kernelVars, instanceVars
      <4> QED
        BY <2>1, <3>1, <4>1, <4>2, <4>3
        DEF Next, Launch, SessionStep, ReadCompletes, WriteCompletes,
            ReadHandler, EchoWritten, HttpWritten, DeadlineCancelled,
            DeadlinePasses, ServerWaits, vars, kernelVars, instanceVars
    <3> QED
      BY <3>1 DEF NameExists
  <2>3. (\A c \in Client : pc[c] = "idle") => UNCHANGED pc
    BY <1>5
    DEF Next, Launch, ClientActs, ClientNext, ClientStep, OpenPipe, OpenFails,
        WaitReturns, SetMode, Write, ReadReply, ClientCloses, WaitTimesOut,
        GivesUp, ListenerStep, ServerCreate, CreateFails, ServerConnect,
        AcceptHandler, CoroutineFails, SessionStep, ReadCompletes,
        WriteCompletes, ReadHandler, EchoWritten, HttpWritten, ShutdownReturns,
        DeadlineCancelled, DeadlinePasses, ServerWaits, vars, kernelVars, clientVars
  <2> QED
    BY <1>1, <1>2, <2>2, <2>3
<1> QED
  BY <1>3, <1>4, <1>5 DEF Owned, TypeOK

(***************************************************************************)
(* Awaiting.                                                               *)
(***************************************************************************)

LEMMA InitAwaiting == Init => Awaiting
<1> SUFFICES ASSUME Init
             PROVE  Awaiting
  OBVIOUS
<1>1. \A i \in Instance : clientEnd[i] \notin Client
  BY KernelAssumption DEF Init, KernelInit
<1> QED
  BY <1>1, NoInstanceFits DEF Init, KernelInit, Awaiting, HoldsOne, NoneLeaves

\* A step that leaves the clients, the listener and its pipe alone.
LEMMA AwaitingElsewhere ==
  ASSUME Awaiting,
         UNCHANGED <<clientEnd, accept, pc, server, listener, pipe>>,
         \A i \in Instance : pipe = i => serverEnd'[i] = serverEnd[i]
  PROVE  Awaiting'
  BY DEF Awaiting, HoldsOne, NoneLeaves, Calling, Movable

\* The process does not end, as its listener has no pipe yet.
LEMMA ServerCreateAwaiting ==
  ASSUME Owned, Awaiting, ServerCreate
  PROVE  Awaiting'
<1>1. PICK i \in Nameable : i = CHOOSE j \in Nameable : TRUE
  BY DEF ServerCreate
<1>2. pipe = NoInstance
  BY DEF ServerCreate, Owned, ListenerFits, Awaiting, NoneLeaves
<1>3. /\ pipe' = i /\ listener' = "connect"
      /\ serverEnd' = [serverEnd EXCEPT ![i] = "listening"]
      /\ UNCHANGED <<clientEnd, accept, pc, server>>
  BY <1>1, <1>2 DEF ServerCreate, clientVars
<1>4. serverEnd'[i] = "listening"
  BY <1>1, <1>3 DEF Nameable, Unused, Owned, TypeOK, KernelTypeOK
<1> QED
  BY <1>3, <1>4 DEF Awaiting, HoldsOne, NoneLeaves, Calling, Movable

\* A client that is there is accepted.
LEMMA ServerConnectAwaiting ==
  ASSUME Owned, Awaiting, ServerConnect
  PROVE  Awaiting'
<1>0. PICK p \in Instance, d \in Instance \cup {NoInstance} :
        pipe = p /\ doomed = d
  BY DEF Owned, TypeOK, ListenerFits, ServerConnect
<1>1. /\ listener' = "waiting" /\ CloseServerEnds({d})
      /\ accept' = [accept EXCEPT ![p] = ConnectResult(p)]
      /\ UNCHANGED <<clientEnd, pc, server, pipe>>
  BY <1>0 DEF ServerConnect, clientVars
<1>2. p # d /\ serverEnd[p] \in {"listening", "connected"}
  BY <1>0, NoInstanceFits DEF Owned, Fits, PipeFits, DoomedFits
<1>3. serverEnd'[p] = serverEnd[p]
  BY <1>1, <1>2, CloseOneFacts DEF Owned
<1>4. \A i \in Instance :
        accept'[i] = IF i = p THEN ConnectResult(p) ELSE accept[i]
  BY <1>1 DEF Owned, TypeOK, KernelTypeOK
<1>5. ~Movable => ConnectResult(p) # "failed"
  BY <1>0, <1>2, KernelAssumption
  DEF Awaiting, NoneLeaves, Calling, ConnectResult, ClientGone
<1> QED
  BY <1>0, <1>1, <1>3, <1>4, <1>5
  DEF Awaiting, HoldsOne, NoneLeaves, Calling, Movable

LEMMA ListenerAwaiting ==
  ASSUME Owned, Awaiting, CreateFails \/ AcceptHandler \/ CoroutineFails
  PROVE  Awaiting'
<1>1. CASE CreateFails
  <2>1. /\ listener = "create" /\ listener' # "dead"
        /\ UNCHANGED <<serverEnd, clientEnd, accept, pc, server, pipe>>
    BY <1>1 DEF CreateFails, kernelVars, instanceVars, clientVars
  <2> QED
    BY <2>1 DEF Awaiting, HoldsOne, NoneLeaves, Calling, Movable
<1>2. CASE AcceptHandler
  <2>0. PICK p \in Instance : pipe = p
    BY <1>2 DEF Owned, ListenerFits, AcceptHandler
  <2>1. /\ listener' = "create" /\ accept' = [accept EXCEPT ![p] = "none"]
        /\ accept[p] \in {"ok", "failed"}
        /\ UNCHANGED <<serverEnd, clientEnd, pc, server>>
    BY <1>2, <2>0 DEF AcceptHandler, clientVars
  <2>2. \A i \in Instance : accept'[i] \in {accept[i], "none"}
    BY <2>1 DEF Owned, TypeOK, KernelTypeOK
  <2>3. pipe' = NoInstance
    BY <1>2, <2>0, <2>1 DEF AcceptHandler, Awaiting, NoneLeaves
  <2> QED
    BY <2>1, <2>2, <2>3, NoInstanceFits
    DEF Awaiting, HoldsOne, NoneLeaves, Calling, Movable
<1>3. CASE CoroutineFails
  <2>1. server = "coroutine" /\ UNCHANGED <<clientEnd, pc, server>>
    BY <1>3 DEF CoroutineFails, clientVars
  <2> QED
    BY <2>1 DEF Awaiting, HoldsOne, NoneLeaves, Movable
<1> QED
  BY <1>1, <1>2, <1>3

\* What a session does, it does not do to the pipe of the listener.
LEMMA SessionAwaiting ==
  ASSUME Owned, Awaiting, NEW i \in Instance, SessionStep(i) \/ DeadlinePasses(i)
  PROVE  Awaiting'
<1>1. UNCHANGED <<clientEnd, accept, pc, server, listener, pipe>>
  BY DEF SessionStep, ReadCompletes, WriteCompletes, ReadHandler, EchoWritten,
         HttpWritten, ShutdownReturns, DeadlineCancelled, DeadlinePasses,
         clientVars, listenerVars
<1>2. session[i] # "none"
  BY DEF SessionStep, ReadCompletes, WriteCompletes, ReadHandler, EchoWritten,
         HttpWritten, ShutdownReturns, DeadlineCancelled, DeadlinePasses,
         Owned, Fits, SessionFits
<1>3. pipe # i
  BY <1>2, SessionAlone
<1>4. \A j \in Instance \ {i} : serverEnd'[j] = serverEnd[j]
  BY DEF SessionStep, ReadCompletes, WriteCompletes, ReadHandler, EchoWritten,
         HttpWritten, ShutdownReturns, DeadlineCancelled, DeadlinePasses,
         Returns, CloseServerEnds, Owned, TypeOK, KernelTypeOK
<1> QED
  BY <1>1, <1>3, <1>4, AwaitingElsewhere

LEMMA OpenPipeAwaiting ==
  ASSUME Owned, Awaiting, NEW c \in Client, OpenPipe(c),
         UNCHANGED <<listenerVars, sessionVars>>
  PROVE  Awaiting'
<1>1. PICK i \in Listening :
        /\ serverEnd' = [serverEnd EXCEPT ![i] = "connected"]
        /\ clientEnd' = [clientEnd EXCEPT ![i] = c]
        /\ accept' = [accept EXCEPT ![i] = IF @ = "pending" THEN "ok" ELSE @]
  BY DEF OpenPipe
<1>2. /\ pc[c] = "opening" /\ pc' = [pc EXCEPT ![c] = "mode"]
      /\ UNCHANGED <<server, listener, pipe>>
  BY DEF OpenPipe, Goto, listenerVars
<1>3. i \in Instance /\ pipe = i
  BY DEF Listening, Owned, Fits, ListeningFits
<1>4. \A j \in Instance : clientEnd[j] # c
  BY <1>2 DEF Awaiting, HoldsOne
<1>5. /\ clientEnd'[i] = c /\ accept'[i] \in {accept[i], "ok"}
      /\ \A j \in Instance \ {i} :
           clientEnd'[j] = clientEnd[j] /\ accept'[j] = accept[j]
  BY <1>1, <1>3 DEF Owned, TypeOK, KernelTypeOK
<1>6. pc'[c] = "mode" /\ \A b \in Client : b # c => pc'[b] = pc[b]
  BY <1>2 DEF Owned, TypeOK, KernelTypeOK
<1>7. HoldsOne'
  BY <1>4, <1>5, <1>6 DEF Awaiting, HoldsOne
<1>8. NoneLeaves'
  BY <1>2, <1>3, <1>5, <1>6 DEF Awaiting, NoneLeaves, Calling, Movable
<1> QED
  BY <1>7, <1>8 DEF Awaiting

\* A client on the pipe of the listener goes on with its call: its server end
\* is there, and no reply yet.
LEMMA CallAwaiting ==
  ASSUME Owned, Awaiting, GiveUp => Movable, NEW c \in Client,
         Launch(c) \/ (ClientNext(c) /\ ~OpenPipe(c)),
         UNCHANGED <<listenerVars, sessionVars>>
  PROVE  Awaiting'
<1>1. UNCHANGED <<serverEnd, accept, server, listener, pipe>>
  BY DEF Launch, ClientNext, ClientStep, OpenFails, WaitReturns, SetMode, Write,
         ReadReply, ClientCloses, WaitTimesOut, GivesUp, instanceVars,
         listenerVars
<1>2. \A i \in Instance :
        \/ clientEnd'[i] = clientEnd[i]
        \/ clientEnd'[i] = NoClient /\ clientEnd[i] = c /\ pc[c] = "closing"
  BY DEF Owned, TypeOK, KernelTypeOK, Launch, ClientNext, ClientStep, OpenFails,
         WaitReturns, SetMode, Write, ReadReply, ClientCloses, WaitTimesOut,
         GivesUp, instanceVars
<1>3. \A b \in Client : b # c => pc'[b] = pc[b]
  BY DEF Owned, TypeOK, KernelTypeOK, Launch, ClientNext, ClientStep, OpenFails,
         WaitReturns, SetMode, Write, ReadReply, ClientCloses, WaitTimesOut,
         GivesUp, Goto, Ends
<1>4. pc[c] \in {"mode", "ready", "waiting", "closing", "end"} =>
        pc'[c] \in {"mode", "ready", "waiting", "closing", "end"}
  BY DEF Owned, TypeOK, KernelTypeOK, Launch, ClientNext, ClientStep, OpenFails,
         WaitReturns, SetMode, Write, ReadReply, ClientCloses, WaitTimesOut,
         GivesUp, Goto, Ends
<1>5. HoldsOne'
  BY <1>2, <1>3, <1>4, KernelAssumption DEF Awaiting, HoldsOne
<1>6. ASSUME NEW i \in Instance, ~Movable, pipe = i, serverEnd[i] = "connected"
      PROVE  Calling(i)'
  <2>1. Calling(i) /\ ~reply[i]
    BY <1>6 DEF Awaiting, NoneLeaves, Owned, Fits, PipeFits
  <2>2. CASE clientEnd[i] # c
    BY <1>2, <1>3, <2>1, <2>2 DEF Calling
  <2>3. CASE clientEnd[i] = c
    <3>1. pc[c] \in {"mode", "ready", "waiting"}
      BY <2>1, <2>3 DEF Calling
    <3>2. \A j \in Instance : clientEnd[j] = c => j = i
      BY <2>3 DEF Awaiting, HoldsOne
    <3>3. pc'[c] \in {"ready", "waiting"}
      BY <1>6, <2>1, <3>1, <3>2
      DEF Owned, TypeOK, KernelTypeOK, Launch, ClientNext, ClientStep,
          OpenFails, WaitReturns, SetMode, Write, ReadReply, ClientCloses,
          WaitTimesOut, GivesUp, Goto
    <3> QED
      BY <1>2, <2>3, <3>1, <3>3 DEF Calling
  <2> QED
    BY <2>2, <2>3
<1>7. NoneLeaves'
  BY <1>1, <1>6 DEF Awaiting, NoneLeaves, Movable
<1> QED
  BY <1>5, <1>7 DEF Awaiting

LEMMA StepAwaiting ==
  ASSUME Owned, Awaiting, GiveUp => Movable, [Next]_vars
  PROVE  Awaiting'
<1>1. ASSUME NEW c \in Client, Launch(c) \/ ClientActs(c)
      PROVE  Awaiting'
  BY <1>1, OpenPipeAwaiting, CallAwaiting DEF Launch, ClientActs
<1>2. CASE ListenerStep
  BY <1>2, ServerCreateAwaiting, ServerConnectAwaiting, ListenerAwaiting
  DEF ListenerStep
<1>3. ASSUME NEW i \in Instance, SessionStep(i) \/ DeadlinePasses(i)
      PROVE  Awaiting'
  BY <1>3, SessionAwaiting
<1>4. CASE UNCHANGED vars
  <2>1. UNCHANGED <<serverEnd, clientEnd, accept, pc, server, listener, pipe>>
    BY <1>4 DEF vars, kernelVars, instanceVars, clientVars, listenerVars
  <2> QED
    BY <2>1, AwaitingElsewhere
<1> QED
  BY <1>1, <1>2, <1>3, <1>4 DEF Next, ServerWaits

LEMMA Accepted ==
  ASSUME GiveUp => Servers \subseteq {"movable", "coroutine"}
  PROVE  SafeSpec => []Awaiting
<1>1. Owned => (GiveUp => Movable)
  BY DEF Owned, TypeOK, Movable
<1>2. Owned /\ Awaiting /\ [Next]_vars => Awaiting'
  BY <1>1, StepAwaiting
<1> QED
  BY <1>2, InitAwaiting, Ownership, PTL DEF SafeSpec

(***************************************************************************)
(* Served: the server.                                                     *)
(***************************************************************************)

\* What happens elsewhere leaves a client served.
LEMMA ServedElsewhere ==
  ASSUME NEW i \in Instance, ClientServed(i),
         serverEnd'[i] = serverEnd[i], clientEnd'[i] = clientEnd[i],
         request'[i] = request[i], reply'[i] = reply[i],
         session'[i] = session[i], io'[i] = io[i],
         pipe' = i <=> pipe = i, expired' = expired,
         clientEnd[i] \in Client => pc'[clientEnd[i]] = pc[clientEnd[i]]
  PROVE  ClientServed(i)'
  BY DEF ClientServed, Awaited, Due, Calling

\* Nobody is in the middle of a call to an instance without a client.
LEMMA ServedAlone ==
  ASSUME NEW i \in Instance, clientEnd'[i] = NoClient
  PROVE  ClientServed(i)'
  BY KernelAssumption DEF ClientServed, Due, Calling

\* A step of the server leaves the clients where they are.
LEMMA ServerServed ==
  ASSUME Served, UNCHANGED <<clientEnd, pc, outcome, expired>>,
         \A i \in Instance : ClientServed(i)'
  PROVE  Served'
  BY DEF Served

LEMMA InitServed == Init => Served
<1> SUFFICES ASSUME Init
             PROVE  Served
  OBVIOUS
<1>1. \A i \in Instance : clientEnd[i] = NoClient /\ clientEnd[i] \notin Client
  BY KernelAssumption DEF Init, KernelInit
<1> QED
  BY <1>1 DEF Init, KernelInit, Served, ClientServed, Due, Calling

\* The process does not end, and the new instance has no client.
LEMMA ServerCreateServed ==
  ASSUME Owned, Awaiting, Served, ServerCreate
  PROVE  Served'
<1>1. PICK i \in Nameable : i = CHOOSE j \in Nameable : TRUE
  BY DEF ServerCreate
<1>2. i \in Instance /\ clientEnd[i] = NoClient /\ session[i] = "none"
  BY <1>1 DEF Nameable, Unused
<1>3. pipe = NoInstance
  BY DEF ServerCreate, Owned, ListenerFits, Awaiting, NoneLeaves
<1>4. /\ pipe' = i /\ listener' = "connect"
      /\ serverEnd' = [serverEnd EXCEPT ![i] = "listening"]
      /\ request' = [request EXCEPT ![i] = FALSE]
      /\ UNCHANGED <<clientEnd, reply, accept, pc, outcome, server, session, io,
                     expired>>
  BY <1>1, <1>3 DEF ServerCreate, sessionVars, clientVars
<1>5. ASSUME NEW j \in Instance
      PROVE  ClientServed(j)'
  <2>1. CASE j = i
    BY <1>2, <1>4, <2>1, ServedAlone
  <2>2. CASE j # i
    <3>1. serverEnd'[j] = serverEnd[j] /\ request'[j] = request[j]
      BY <1>4, <2>2 DEF Owned, TypeOK, KernelTypeOK
    <3> QED
      BY <1>3, <1>4, <2>2, <3>1, NoInstanceFits, ServedElsewhere DEF Served
  <2> QED
    BY <2>1, <2>2
<1> QED
  BY <1>4, <1>5, ServerServed

LEMMA CreateFailsServed ==
  ASSUME Served, CreateFails
  PROVE  Served'
<1>1. UNCHANGED <<serverEnd, clientEnd, request, reply, pc, outcome, session, io,
                  pipe, expired>>
  BY DEF CreateFails, kernelVars, instanceVars, clientVars, sessionVars
<1>2. ASSUME NEW i \in Instance
      PROVE  ClientServed(i)'
  BY <1>1, ServedElsewhere DEF Served
<1> QED
  BY <1>1, <1>2, ServerServed

\* The pipe that is destroyed has no client.
LEMMA ServerConnectServed ==
  ASSUME Owned, Served, ServerConnect
  PROVE  Served'
<1>0. PICK d \in Instance \cup {NoInstance} : doomed = d
  BY DEF Owned, TypeOK
<1>1. /\ CloseServerEnds({d})
      /\ UNCHANGED <<clientEnd, request, pc, outcome, pipe, session, io, expired>>
  BY <1>0 DEF ServerConnect, clientVars, sessionVars
<1>2. \A i \in Instance :
        i # d => serverEnd'[i] = serverEnd[i] /\ reply'[i] = reply[i]
  BY <1>1, CloseOneFacts DEF Owned
<1>3. ASSUME NEW i \in Instance
      PROVE  ClientServed(i)'
  <2>1. CASE i = d
    <3>1. clientEnd[i] = NoClient
      BY <1>0, <2>1 DEF Owned, Fits, DoomedFits
    <3> QED
      BY <1>1, <3>1, ServedAlone
  <2>2. CASE i # d
    BY <1>1, <1>2, <2>2, ServedElsewhere DEF Served
  <2> QED
    BY <2>1, <2>2
<1> QED
  BY <1>1, <1>3, ServerServed

\* The pipe that is closed with the coroutine has lost its client.
LEMMA CoroutineFailsServed ==
  ASSUME Owned, Served, CoroutineFails
  PROVE  Served'
<1>0. PICK p \in Instance : pipe = p
  BY DEF Owned, ListenerFits, CoroutineFails
<1>1. /\ accept[p] = "failed" /\ pipe' = NoInstance /\ CloseServerEnds({p})
      /\ UNCHANGED <<clientEnd, request, pc, outcome, session, io, expired>>
  BY <1>0 DEF CoroutineFails, clientVars, sessionVars
<1>2. clientEnd[p] = NoClient
  BY <1>1 DEF Owned, Fits, AcceptFits
<1>3. \A i \in Instance :
        i # p => serverEnd'[i] = serverEnd[i] /\ reply'[i] = reply[i]
  BY <1>1, CloseOneFacts DEF Owned
<1>4. ASSUME NEW i \in Instance
      PROVE  ClientServed(i)'
  <2>1. CASE i = p
    BY <1>1, <1>2, <2>1, ServedAlone
  <2>2. CASE i # p
    BY <1>0, <1>1, <1>3, <2>2, NoInstanceFits, ServedElsewhere DEF Served
  <2> QED
    BY <2>1, <2>2
<1> QED
  BY <1>1, <1>4, ServerServed

\* The session reads what the listener let wait.
LEMMA AcceptHandlerServed ==
  ASSUME Owned, Awaiting, Served, AcceptHandler
  PROVE  Served'
<1>0. PICK p \in Instance : pipe = p
  BY DEF Owned, ListenerFits, AcceptHandler
<1>1. /\ accept[p] \in {"ok", "failed"}
      /\ UNCHANGED <<serverEnd, clientEnd, request, reply, pc, outcome, expired>>
  BY <1>0 DEF AcceptHandler, clientVars
<1>2. pipe' = NoInstance
  BY <1>0, <1>1 DEF AcceptHandler, Awaiting, NoneLeaves
<1>3. ASSUME NEW i \in Instance \ {p}
      PROVE  ClientServed(i)'
  <2>1. session'[i] = session[i] /\ io'[i] = io[i]
    BY <1>0 DEF AcceptHandler, Owned, TypeOK
  <2> QED
    BY <1>0, <1>1, <1>2, <2>1, NoInstanceFits, ServedElsewhere DEF Served
<1>4. ClientServed(p)'
  <2>1. CASE accept[p] = "failed"
    <3>1. clientEnd[p] = NoClient
      BY <2>1 DEF Owned, Fits, AcceptFits
    <3> QED
      BY <1>1, <3>1, ServedAlone
  <2>2. CASE accept[p] = "ok"
    <3>1. session'[p] = "open" /\ io'[p] = "read"
      BY <1>0, <2>2 DEF AcceptHandler, Owned, TypeOK
    <3>2. session[p] = "none" /\ ClientServed(p)
      BY <1>0 DEF Owned, Fits, PipeFits, Served
    <3> QED
      BY <1>1, <3>1, <3>2 DEF ClientServed, Awaited, Due, Calling
  <2> QED
    BY <1>1, <2>1, <2>2
<1> QED
  BY <1>1, <1>3, <1>4, ServerServed

(***************************************************************************)
(* Served: the sessions.                                                   *)
(***************************************************************************)

\* A step of the session on i, which matters to a client in its call.
LEMMA SessionServed ==
  ASSUME Owned, Served, NEW i \in Instance, session[i] # "none",
         UNCHANGED <<clientEnd, clientVars, listenerVars, expired>>,
         Due(i) => ClientServed(i)',
         \A j \in Instance \ {i} :
           /\ serverEnd'[j] = serverEnd[j] /\ request'[j] = request[j]
           /\ reply'[j] = reply[j] /\ session'[j] = session[j]
           /\ io'[j] = io[j]
  PROVE  Served'
<1>1. UNCHANGED <<pipe, pc, outcome>>
  BY DEF listenerVars, clientVars
<1>2. ClientServed(i)'
  <2>1. CASE ~Due(i)
    BY <1>1, <2>1 DEF Served, ClientServed, Due, Calling
  <2> QED
    BY <2>1
<1>3. ASSUME NEW j \in Instance \ {i}
      PROVE  ClientServed(j)'
  BY <1>1, ServedElsewhere DEF Served
<1> QED
  BY <1>1, <1>2, <1>3, ServerServed

\* Where the session of a client in its call is.
LEMMA CallingSession ==
  ASSUME Owned, Served, NEW i \in Instance, Due(i), session[i] # "none"
  PROVE  /\ serverEnd[i] = "connected" /\ clientEnd[i] # NoClient
         /\ \/ /\ session[i] = "open" /\ io[i] = "read" /\ ~reply[i]
               /\ request[i] <=> pc[clientEnd[i]] = "waiting"
            \/ /\ session[i] = "open" /\ io[i] \in {"read_ok", "write"}
               /\ pc[clientEnd[i]] = "waiting" /\ ~request[i] /\ ~reply[i]
            \/ /\ \/ session[i] = "open" /\ io[i] \in {"write_ok", "read"}
                  \/ session[i] = "flushing"
               /\ pc[clientEnd[i]] = "waiting" /\ ~request[i] /\ reply[i]
<1>1. pipe # i
  BY SessionAlone
<1>2. ClientServed(i) /\ clientEnd[i] # NoClient
  BY KernelAssumption DEF Served, Due, Calling
<1> QED
  BY <1>1, <1>2 DEF ClientServed, Due, Calling, Awaited

LEMMA ReadCompletesServed ==
  ASSUME Owned, Served, NEW i \in Instance, ReadCompletes(i)
  PROVE  Served'
<1>1. /\ io[i] = "read" /\ (request[i] \/ ClientGone(i))
      /\ io' = [io EXCEPT ![i] = IF request[i] THEN "read_ok" ELSE "read_err"]
      /\ request' = [request EXCEPT ![i] = FALSE]
      /\ UNCHANGED <<serverEnd, clientEnd, accept, reply, clientVars,
                     listenerVars, session, pc, pipe, expired>>
  BY DEF ReadCompletes, clientVars, listenerVars
<1>2. session[i] # "none"
  BY <1>1, SessionBusy
<1>3. /\ io'[i] = IF request[i] THEN "read_ok" ELSE "read_err"
      /\ request'[i] = FALSE
      /\ \A j \in Instance \ {i} : io'[j] = io[j] /\ request'[j] = request[j]
  BY <1>1 DEF Owned, TypeOK, KernelTypeOK
<1>4. ASSUME Due(i)
      PROVE  ClientServed(i)'
  <2>1. request[i] /\ ~reply[i] /\ pc[clientEnd[i]] = "waiting"
        /\ session[i] = "open" /\ serverEnd[i] = "connected"
    BY <1>1, <1>2, <1>4, CallingSession DEF ClientGone
  <2> QED
    BY <1>1, <1>3, <2>1 DEF ClientServed, Due, Calling
<1> QED
  BY <1>1, <1>2, <1>3, <1>4, SessionServed

LEMMA WriteCompletesServed ==
  ASSUME Owned, Served, NEW i \in Instance, WriteCompletes(i)
  PROVE  Served'
<1>1. /\ io[i] = "write"
      /\ io' = [io EXCEPT ![i] = IF ClientGone(i) THEN "write_err"
                                 ELSE "write_ok"]
      /\ reply' = [reply EXCEPT ![i] = ~ClientGone(i)]
      /\ UNCHANGED <<serverEnd, clientEnd, accept, request, clientVars,
                     listenerVars, session, pc, pipe, expired>>
  BY DEF WriteCompletes, clientVars, listenerVars
<1>2. session[i] # "none"
  BY <1>1, SessionBusy
<1>3. /\ io'[i] = IF ClientGone(i) THEN "write_err" ELSE "write_ok"
      /\ ~ClientGone(i) => reply'[i] = TRUE
      /\ \A j \in Instance \ {i} : io'[j] = io[j] /\ reply'[j] = reply[j]
  BY <1>1 DEF Owned, TypeOK, KernelTypeOK
<1>4. ASSUME Due(i)
      PROVE  ClientServed(i)'
  <2>1. /\ ~request[i] /\ pc[clientEnd[i]] = "waiting" /\ ~ClientGone(i)
        /\ session[i] = "open" /\ serverEnd[i] = "connected"
    BY <1>1, <1>2, <1>4, SessionBusy, CallingSession DEF ClientGone
  <2> QED
    BY <1>1, <1>3, <2>1 DEF ClientServed, Due, Calling
<1> QED
  BY <1>1, <1>2, <1>3, <1>4, SessionServed

\* A handler that leaves the session with an operation, or lets it go when no
\* client is in its call.
LEMMA ReturnsServed ==
  ASSUME Owned, Served, NEW i \in Instance, NEW o \in Operation,
         NEW t \in Deadline, Returns(i, o, t), session[i] # "none",
         UNCHANGED <<clientEnd, accept, request, clientVars, listenerVars, expired>>,
         Due(i) =>
           \/ io[i] = "read_ok" /\ o = "write"
           \/ io[i] = "write_ok" /\ o = "read"
  PROVE  Served'
<1>1. /\ io' = [io EXCEPT ![i] = o] /\ UNCHANGED <<pc, pipe>>
      /\ IF o = "none" /\ t = "none"
         THEN session' = [session EXCEPT ![i] = "none"] /\ CloseServerEnds({i})
         ELSE UNCHANGED <<session, serverEnd, reply>>
  BY DEF Returns, clientVars, listenerVars
<1>2. io'[i] = o /\ \A j \in Instance \ {i} : io'[j] = io[j]
  BY <1>1 DEF Owned, TypeOK
<1>3. \A j \in Instance \ {i} :
        /\ serverEnd'[j] = serverEnd[j] /\ reply'[j] = reply[j]
        /\ session'[j] = session[j]
  <2>1. CASE o = "none" /\ t = "none"
    <3>1. session' = [session EXCEPT ![i] = "none"] /\ CloseServerEnds({i})
      BY <1>1, <2>1
    <3>2. \A j \in Instance \ {i} : session'[j] = session[j]
      BY <3>1 DEF Owned, TypeOK
    <3> QED
      BY <3>1, <3>2, CloseOneFacts DEF Owned
  <2>2. CASE ~(o = "none" /\ t = "none")
    BY <1>1, <2>2
  <2> QED
    BY <2>1, <2>2
<1>4. ASSUME Due(i)
      PROVE  ClientServed(i)'
  <2>1. UNCHANGED <<session, serverEnd, reply>>
    BY <1>1, <1>4
  <2>2. /\ serverEnd[i] = "connected" /\ ~request[i] /\ session[i] = "open"
        /\ pc[clientEnd[i]] = "waiting"
        /\ io[i] = "read_ok" => ~reply[i]
        /\ io[i] = "write_ok" => reply[i]
    BY <1>4, CallingSession DEF Owned, Fits, SessionFits
  <2> QED
    BY <1>1, <1>2, <1>4, <2>1, <2>2 DEF ClientServed, Due, Calling
<1> QED
  BY <1>2, <1>3, <1>4, SessionServed

LEMMA HandlerServed ==
  ASSUME Owned, Served, NEW i \in Instance,
         \/ ReadHandler(i) \/ EchoWritten(i) \/ DeadlineCancelled(i)
         \/ HttpWritten(i) /\ session[i] # "open"
  PROVE  Served'
<1>1. UNCHANGED <<clientEnd, accept, request, clientVars, listenerVars, expired>>
  BY DEF ReadHandler, EchoWritten, DeadlineCancelled, HttpWritten
<1>2. PICK t \in Deadline : timer[i] = t
  BY DEF Owned, TypeOK, Deadline
<1>3. CASE DeadlineCancelled(i)
  <2>1. PICK o \in Operation : io[i] = o
    BY DEF Owned, TypeOK, Operation
  <2>2. Returns(i, o, "none") /\ session[i] = "open" /\ io[i] = "none"
    BY <1>3, <2>1 DEF DeadlineCancelled, Owned, Fits, SessionFits
  <2>3. ~Due(i)
    BY <2>2, CallingSession
  <2>4. "none" \in Deadline
    BY DEF Deadline
  <2> QED
    BY <1>1, <2>2, <2>3, <2>4, ReturnsServed
<1>4. CASE ReadHandler(i)
  <2>1. PICK o \in Operation :
          o = IF io[i] = "read_err" THEN "none"
              ELSE IF session[i] = "closed" THEN "write_err" ELSE "write"
    BY DEF Operation
  <2>2. Returns(i, o, t) /\ io[i] \in {"read_ok", "read_err"}
    BY <1>2, <1>4, <2>1 DEF ReadHandler
  <2>3. session[i] # "none"
    BY <2>2, SessionBusy
  <2>4. Due(i) => io[i] = "read_ok" /\ o = "write"
    BY <2>1, <2>2, <2>3, SessionBusy, CallingSession
  <2> QED
    BY <1>1, <2>2, <2>3, <2>4, ReturnsServed
<1>5. CASE EchoWritten(i)
  <2>1. PICK o \in Operation : o = IF io[i] = "write_ok" THEN "read" ELSE "none"
    BY DEF Operation
  <2>2. Returns(i, o, t) /\ io[i] \in {"write_ok", "write_err"}
    BY <1>2, <1>5, <2>1 DEF EchoWritten
  <2>3. session[i] # "none"
    BY <2>2, SessionBusy
  <2>4. Due(i) => io[i] = "write_ok" /\ o = "read"
    BY <2>1, <2>2, <2>3, SessionBusy, CallingSession
  <2> QED
    BY <1>1, <2>2, <2>3, <2>4, ReturnsServed
<1>6. CASE HttpWritten(i) /\ session[i] # "open"
  <2>1. Returns(i, "none", t) /\ io[i] \in {"write_ok", "write_err"}
    BY <1>2, <1>6 DEF HttpWritten
  <2>2. session[i] # "none" /\ "none" \in Operation
    BY <2>1, SessionBusy DEF Operation
  <2>3. ~Due(i)
    BY <1>6, <2>1, <2>2, SessionBusy, CallingSession
  <2> QED
    BY <1>1, <2>1, <2>2, <2>3, ReturnsServed
<1> QED
  BY <1>3, <1>4, <1>5, <1>6

\* The HTTP session waits in shutdown until the client has its reply.
LEMMA ShutdownServed ==
  ASSUME Owned, Served, NEW i \in Instance,
         (HttpWritten(i) /\ session[i] = "open") \/ ShutdownReturns(i)
  PROVE  Served'
<1>1. UNCHANGED <<clientEnd, accept, request, clientVars, listenerVars, pc,
                  pipe, expired>>
  BY DEF HttpWritten, ShutdownReturns, clientVars, listenerVars
<1>2. session[i] # "none"
  BY DEF ShutdownReturns
<1>3. CASE HttpWritten(i) /\ session[i] = "open"
  <2>1. /\ io[i] \in {"write_ok", "write_err"}
        /\ session' = [session EXCEPT ![i] = "flushing"]
        /\ io' = [io EXCEPT ![i] = "none"] /\ UNCHANGED <<serverEnd, reply>>
    BY <1>3 DEF HttpWritten
  <2>2. /\ session'[i] = "flushing"
        /\ \A j \in Instance \ {i} : session'[j] = session[j] /\ io'[j] = io[j]
    BY <2>1 DEF Owned, TypeOK
  <2>3. ASSUME Due(i)
        PROVE  ClientServed(i)'
    <3>1. /\ serverEnd[i] = "connected" /\ ~request[i] /\ reply[i]
          /\ pc[clientEnd[i]] = "waiting"
      BY <1>2, <1>3, <2>1, <2>3, CallingSession
    <3> QED
      BY <1>1, <2>1, <2>2, <3>1 DEF ClientServed, Due, Calling
  <2> QED
    BY <1>1, <1>2, <2>1, <2>2, <2>3, SessionServed
<1>4. CASE ShutdownReturns(i)
  <2>1. /\ session[i] = "flushing" /\ (~reply[i] \/ ClientGone(i))
        /\ session' = [session EXCEPT ![i] = "open"] /\ io' = io
        /\ serverEnd' \in {serverEnd, [serverEnd EXCEPT ![i] = "disconnected"]}
        /\ reply' \in {reply, [reply EXCEPT ![i] = FALSE]}
    BY <1>4 DEF ShutdownReturns, Flushed
  <2>2. \A j \in Instance \ {i} :
          /\ session'[j] = session[j] /\ serverEnd'[j] = serverEnd[j]
          /\ reply'[j] = reply[j]
    BY <2>1 DEF Owned, TypeOK, KernelTypeOK
  <2>3. ~Due(i)
    BY <1>2, <2>1, CallingSession DEF ClientGone
  <2> QED
    BY <1>1, <1>2, <2>1, <2>2, <2>3, SessionServed
<1> QED
  BY <1>3, <1>4

(***************************************************************************)
(* Served: the clients.                                                    *)
(***************************************************************************)

\* A client that has not opened the pipe holds none.
LEMMA HoldsNothing ==
  ASSUME Awaiting, NEW c \in Client, pc[c] \in {"idle", "opening", "busy"}
  PROVE  \A i \in Instance : clientEnd[i] # c
  BY DEF Awaiting, HoldsOne

\* A client that holds nothing goes on.
LEMMA OutsideServed ==
  ASSUME Owned, Awaiting, Served, NEW c \in Client,
         pc[c] \in {"idle", "opening", "busy"},
         NEW l, pc' = [pc EXCEPT ![c] = l],
         UNCHANGED <<instanceVars, listenerVars, sessionVars>>,
         \A b \in Client : outcome'[b] = "error" => b \in expired'
  PROVE  Served'
<1>1. UNCHANGED <<serverEnd, clientEnd, request, reply, pipe, session, io, expired>>
  BY DEF instanceVars, listenerVars, sessionVars
<1>2. \A i \in Instance : clientEnd[i] # c
  BY HoldsNothing
<1>3. \A b \in Client : b # c => pc'[b] = pc[b]
  BY DEF Owned, TypeOK, KernelTypeOK
<1>4. ASSUME NEW i \in Instance
      PROVE  ClientServed(i)'
  BY <1>1, <1>2, <1>3, ServedElsewhere DEF Served
<1> QED
  BY <1>4 DEF Served

LEMMA WaitServed ==
  ASSUME Owned, Awaiting, Served, NEW c \in Client,
         \/ Launch(c)
         \/ /\ OpenFails(c) \/ WaitReturns(c) \/ WaitTimesOut(c)
            /\ UNCHANGED <<listenerVars, sessionVars>>
  PROVE  Served'
<1>1. /\ pc[c] \in {"idle", "opening", "busy"}
      /\ UNCHANGED <<instanceVars, listenerVars, sessionVars>>
      /\ \E l \in {"opening", "busy", "closing"} : pc' = [pc EXCEPT ![c] = l]
  BY DEF Launch, OpenFails, WaitReturns, WaitTimesOut, Ends, Goto
<1>2. \A b \in Client : outcome'[b] = "error" => b \in expired'
  <2>1. \/ outcome' = outcome
        \/ \E o \in {"not_found", "timeout"} : outcome' = [outcome EXCEPT ![c] = o]
    BY DEF Launch, OpenFails, WaitReturns, WaitTimesOut, Ends
  <2>2. expired' = expired
    BY <1>1 DEF sessionVars
  <2> QED
    BY <2>1, <2>2 DEF Served, Owned, TypeOK, KernelTypeOK
<1> QED
  BY <1>1, <1>2, OutsideServed

\* The instance a client opens is the listener's, and clean.
LEMMA OpenPipeServed ==
  ASSUME Owned, Awaiting, Served, NEW c \in Client, OpenPipe(c),
         UNCHANGED <<listenerVars, sessionVars>>
  PROVE  Served'
<1>1. PICK i \in Listening :
        /\ serverEnd' = [serverEnd EXCEPT ![i] = "connected"]
        /\ clientEnd' = [clientEnd EXCEPT ![i] = c]
  BY DEF OpenPipe
<1>2. /\ pc[c] = "opening" /\ pc' = [pc EXCEPT ![c] = "mode"]
      /\ UNCHANGED <<request, reply, outcome, pipe, session, io, expired>>
  BY DEF OpenPipe, Goto, listenerVars, sessionVars
<1>3. i \in Instance /\ serverEnd[i] = "listening"
  BY DEF Listening
<1>4. pipe = i /\ ~request[i] /\ ~reply[i]
  BY <1>3 DEF Owned, Fits, PipeFits, ListeningFits
<1>5. \A j \in Instance : clientEnd[j] # c
  BY <1>2, HoldsNothing
<1>6. /\ serverEnd'[i] = "connected" /\ clientEnd'[i] = c
      /\ \A j \in Instance \ {i} :
           serverEnd'[j] = serverEnd[j] /\ clientEnd'[j] = clientEnd[j]
  BY <1>1, <1>3 DEF Owned, TypeOK, KernelTypeOK
<1>7. pc'[c] = "mode" /\ \A b \in Client : b # c => pc'[b] = pc[b]
  BY <1>2 DEF Owned, TypeOK, KernelTypeOK
<1>8. ClientServed(i)'
  BY <1>2, <1>4, <1>6, <1>7 DEF ClientServed, Awaited, Due, Calling
<1>9. ASSUME NEW j \in Instance \ {i}
      PROVE  ClientServed(j)'
  BY <1>2, <1>5, <1>6, <1>7, ServedElsewhere DEF Served
<1> QED
  BY <1>2, <1>8, <1>9 DEF Served

\* A client that holds the end of instance i makes a call on it.
LEMMA CallServed ==
  ASSUME Owned, Awaiting, Served, NEW c \in Client, NEW i \in Instance,
         clientEnd[i] = c, NEW l, pc' = [pc EXCEPT ![c] = l],
         UNCHANGED <<serverEnd, clientEnd, listenerVars, sessionVars>>,
         \A j \in Instance \ {i} :
           request'[j] = request[j] /\ reply'[j] = reply[j],
         \A b \in Client : outcome'[b] = "error" => b \in expired',
         ClientServed(i)'
  PROVE  Served'
<1>1. UNCHANGED <<pipe, session, io, expired>>
  BY DEF listenerVars, sessionVars
<1>2. \A j \in Instance \ {i} : clientEnd[j] # c
  BY DEF Awaiting, HoldsOne
<1>3. \A b \in Client : b # c => pc'[b] = pc[b]
  BY DEF Owned, TypeOK, KernelTypeOK
<1>4. ASSUME NEW j \in Instance \ {i}
      PROVE  ClientServed(j)'
  BY <1>1, <1>2, <1>3, ServedElsewhere DEF Served
<1> QED
  BY <1>4 DEF Served

\* The call of a client whose session was closed by its deadline.
LEMMA ExcusedServed ==
  ASSUME Owned, Awaiting, Served, NEW c \in Client, NEW i \in Instance,
         clientEnd[i] = c, c \in expired, NEW l, pc' = [pc EXCEPT ![c] = l],
         UNCHANGED <<serverEnd, clientEnd, listenerVars, sessionVars>>,
         \A j \in Instance \ {i} :
           request'[j] = request[j] /\ reply'[j] = reply[j],
         NEW o, outcome' \in {outcome, [outcome EXCEPT ![c] = o]}
  PROVE  Served'
<1>1. expired' = expired
  BY DEF sessionVars
<1>2. ClientServed(i)'
  BY <1>1 DEF ClientServed, Due
<1>3. \A b \in Client : outcome'[b] = "error" => b \in expired'
  BY <1>1 DEF Served, Owned, TypeOK, KernelTypeOK
<1> QED
  BY <1>2, <1>3, CallServed

LEMMA SetModeServed ==
  ASSUME Owned, Awaiting, Served, NEW c \in Client, SetMode(c),
         UNCHANGED <<listenerVars, sessionVars>>
  PROVE  Served'
<1>1. PICK i \in Instance :
        /\ clientEnd[i] = c
        /\ IF serverEnd[i] = "connected"
           THEN pc' = [pc EXCEPT ![c] = "ready"] /\ UNCHANGED outcome
           ELSE /\ pc' = [pc EXCEPT ![c] = "end"]
                /\ outcome' = [outcome EXCEPT ![c] = "mode_failed"]
  BY DEF SetMode, Goto
<1>2. /\ pc[c] = "mode" /\ UNCHANGED <<serverEnd, clientEnd, request, reply>>
      /\ UNCHANGED <<pipe, session, io, expired>>
  BY DEF SetMode, instanceVars, listenerVars, sessionVars
<1>3. CASE c \in expired
  BY <1>1, <1>2, <1>3, ExcusedServed
<1>4. CASE c \notin expired
  <2>1. serverEnd[i] = "connected" /\ ~request[i] /\ ~reply[i] /\ Awaited(i)
    BY <1>1, <1>2, <1>4 DEF Served, ClientServed, Due, Calling
  <2>2. pc' = [pc EXCEPT ![c] = "ready"] /\ pc'[c] = "ready" /\ outcome' = outcome
    BY <1>1, <2>1 DEF Owned, TypeOK, KernelTypeOK
  <2>3. ClientServed(i)'
    BY <1>1, <1>2, <2>1, <2>2 DEF ClientServed, Awaited
  <2>4. \A b \in Client : outcome'[b] = "error" => b \in expired'
    BY <1>2, <2>2 DEF Served
  <2> QED
    BY <1>1, <1>2, <2>2, <2>3, <2>4, CallServed
<1> QED
  BY <1>3, <1>4

LEMMA WriteServed ==
  ASSUME Owned, Awaiting, Served, NEW c \in Client, Write(c),
         UNCHANGED <<listenerVars, sessionVars>>
  PROVE  Served'
<1>1. PICK i \in Instance :
        /\ clientEnd[i] = c
        /\ IF serverEnd[i] = "connected"
           THEN /\ request' = [request EXCEPT ![i] = TRUE]
                /\ pc' = [pc EXCEPT ![c] = "waiting"] /\ UNCHANGED outcome
           ELSE /\ pc' = [pc EXCEPT ![c] = "closing"]
                /\ outcome' = [outcome EXCEPT ![c] = "error"] /\ UNCHANGED request
  BY DEF Write, Ends, Goto
<1>2. /\ pc[c] = "ready" /\ UNCHANGED <<serverEnd, clientEnd, reply>>
      /\ UNCHANGED <<pipe, session, io, expired>>
      /\ \A j \in Instance \ {i} : request'[j] = request[j]
  BY <1>1 DEF Write, listenerVars, sessionVars, Owned, TypeOK, KernelTypeOK
<1>3. CASE c \in expired
  BY <1>1, <1>2, <1>3, ExcusedServed
<1>4. CASE c \notin expired
  <2>1. serverEnd[i] = "connected" /\ ~reply[i] /\ Awaited(i)
    BY <1>1, <1>2, <1>4 DEF Served, ClientServed, Due, Calling
  <2>2. /\ pc' = [pc EXCEPT ![c] = "waiting"] /\ pc'[c] = "waiting"
        /\ request'[i] = TRUE /\ outcome' = outcome
    BY <1>1, <2>1 DEF Owned, TypeOK, KernelTypeOK
  <2>3. ClientServed(i)'
    BY <1>1, <1>2, <2>1, <2>2 DEF ClientServed, Awaited
  <2>4. \A b \in Client : outcome'[b] = "error" => b \in expired'
    BY <1>2, <2>2 DEF Served
  <2> QED
    BY <1>1, <1>2, <2>2, <2>3, <2>4, CallServed
<1> QED
  BY <1>3, <1>4

\* A reply is there when the client reads: its session is done with it.
LEMMA ReadReplyServed ==
  ASSUME Owned, Awaiting, Served, NEW c \in Client, ReadReply(c),
         UNCHANGED <<listenerVars, sessionVars>>
  PROVE  Served'
<1>1. PICK i \in Instance :
        /\ clientEnd[i] = c
        /\ \/ reply[i] /\ Ends(c, "ok")
           \/ ~reply[i] /\ serverEnd[i] # "connected" /\ Ends(c, "error")
        /\ reply' = [reply EXCEPT ![i] = FALSE]
  BY DEF ReadReply
<1>2. pc[c] = "waiting" /\ UNCHANGED <<serverEnd, clientEnd, request, expired>>
  BY DEF ReadReply, sessionVars
<1>3. PICK o \in {"ok", "error"} :
        /\ pc' = [pc EXCEPT ![c] = "closing"]
        /\ outcome' = [outcome EXCEPT ![c] = o]
        /\ o = "error" => ~reply[i] /\ serverEnd[i] # "connected"
  BY <1>1 DEF Ends, Goto
<1>4. /\ pc'[c] = "closing"
      /\ \A j \in Instance \ {i} : reply'[j] = reply[j]
  BY <1>1, <1>3 DEF Owned, TypeOK, KernelTypeOK
<1>5. ClientServed(i)'
  BY <1>1, <1>2, <1>4 DEF ClientServed, Due, Calling
<1>6. o = "error" => c \in expired
  BY <1>1, <1>2, <1>3 DEF Served, ClientServed, Due, Calling
<1>7. \A b \in Client : outcome'[b] = "error" => b \in expired'
  BY <1>2, <1>3, <1>6 DEF Served, Owned, TypeOK, KernelTypeOK
<1> QED
  BY <1>1, <1>2, <1>3, <1>4, <1>5, <1>7, CallServed

\* A client that gives up hangs up, which the server survives.
LEMMA GivesUpServed ==
  ASSUME Owned, Awaiting, Served, NEW c \in Client, GivesUp(c),
         UNCHANGED <<listenerVars, sessionVars>>
  PROVE  Served'
<1>1. /\ UNCHANGED <<serverEnd, clientEnd, request, reply, pipe, session, io, expired>>
      /\ pc' = [pc EXCEPT ![c] = "closing"]
      /\ outcome' = [outcome EXCEPT ![c] = "gave_up"]
  BY DEF GivesUp, Ends, Goto, instanceVars, listenerVars, sessionVars
<1>2. pc'[c] = "closing" /\ \A b \in Client : b # c => pc'[b] = pc[b]
  BY <1>1 DEF Owned, TypeOK, KernelTypeOK
<1>3. \A b \in Client : outcome'[b] = "error" => b \in expired'
  BY <1>1 DEF Served, Owned, TypeOK, KernelTypeOK
<1>4. ASSUME NEW i \in Instance
      PROVE  ClientServed(i)'
  <2>1. CASE clientEnd[i] = c
    BY <1>1, <1>2, <2>1 DEF ClientServed, Due, Calling
  <2>2. CASE clientEnd[i] # c
    BY <1>1, <1>2, <2>2, ServedElsewhere DEF Served
  <2> QED
    BY <2>1, <2>2
<1> QED
  BY <1>3, <1>4 DEF Served

LEMMA ClientClosesServed ==
  ASSUME Owned, Awaiting, Served, NEW c \in Client, ClientCloses(c),
         UNCHANGED <<listenerVars, sessionVars>>
  PROVE  Served'
<1>1. /\ pc[c] = "closing" /\ pc' = [pc EXCEPT ![c] = "end"]
      /\ clientEnd' = [i \in Instance |-> IF clientEnd[i] = c THEN NoClient
                                          ELSE clientEnd[i]]
      /\ reply' = [i \in Instance |-> reply[i] /\ clientEnd[i] # c]
      /\ UNCHANGED <<serverEnd, request, outcome, pipe, session, io, expired>>
  BY DEF ClientCloses, Goto, listenerVars, sessionVars
<1>2. \A b \in Client : b # c => pc'[b] = pc[b]
  BY <1>1 DEF Owned, TypeOK, KernelTypeOK
<1>3. \A i \in Instance :
        IF clientEnd[i] = c THEN clientEnd'[i] = NoClient
        ELSE clientEnd'[i] = clientEnd[i] /\ reply'[i] = reply[i]
  BY <1>1 DEF Owned, TypeOK, KernelTypeOK
<1>4. ASSUME NEW i \in Instance
      PROVE  ClientServed(i)'
  <2>1. CASE clientEnd[i] = c
    BY <1>3, <2>1, ServedAlone
  <2>2. CASE clientEnd[i] # c
    BY <1>1, <1>2, <1>3, <2>2, ServedElsewhere DEF Served
  <2> QED
    BY <2>1, <2>2
<1> QED
  BY <1>1, <1>4 DEF Served

\* The deadline excuses the server from serving the client of its session,
\* and nobody else.
LEMMA DeadlineServed ==
  ASSUME Owned, Awaiting, Served, NEW i \in Instance, DeadlinePasses(i)
  PROVE  Served'
<1>1. /\ session' = [session EXCEPT ![i] = IF io[i] = "none" THEN "none"
                                           ELSE "closed"]
      /\ io' = [io EXCEPT ![i] = Aborted(io[i])]
      /\ CloseServerEnds({i}) /\ expired' = expired \cup {clientEnd[i]}
      /\ UNCHANGED <<clientEnd, request, pc, outcome, pipe>>
  BY DEF DeadlinePasses, clientVars, listenerVars
<1>2. \A j \in Instance \ {i} :
        /\ serverEnd'[j] = serverEnd[j] /\ reply'[j] = reply[j]
        /\ session'[j] = session[j] /\ io'[j] = io[j]
  <2>1. \A j \in Instance \ {i} : session'[j] = session[j] /\ io'[j] = io[j]
    BY <1>1 DEF Owned, TypeOK
  <2>2. \A j \in Instance \ {i} :
          serverEnd'[j] = serverEnd[j] /\ reply'[j] = reply[j]
    BY <1>1, CloseOneFacts DEF Owned
  <2> QED
    BY <2>1, <2>2
<1>3. ClientServed(i)'
  BY <1>1 DEF ClientServed, Due
<1>4. ASSUME NEW j \in Instance \ {i}
      PROVE  ClientServed(j)'
  <2>1. ClientServed(j)
    BY DEF Served
  <2> QED
    BY <1>1, <1>2, <2>1 DEF ClientServed, Awaited, Due, Calling
<1> QED
  BY <1>1, <1>3, <1>4 DEF Served

LEMMA StepServed ==
  ASSUME Owned, Awaiting, Served, [Next]_vars
  PROVE  Served'
<1>1. ASSUME NEW c \in Client, Launch(c) \/ ClientActs(c)
      PROVE  Served'
  BY <1>1, WaitServed, OpenPipeServed, SetModeServed, WriteServed,
     ReadReplyServed, GivesUpServed, ClientClosesServed
  DEF ClientActs, ClientNext, ClientStep
<1>2. CASE ListenerStep
  BY <1>2, ServerCreateServed, CreateFailsServed, ServerConnectServed,
     AcceptHandlerServed, CoroutineFailsServed
  DEF ListenerStep
<1>3. ASSUME NEW i \in Instance, SessionStep(i) \/ DeadlinePasses(i)
      PROVE  Served'
  BY <1>3, ReadCompletesServed, WriteCompletesServed, HandlerServed,
     ShutdownServed, DeadlineServed
  DEF SessionStep
<1>4. CASE UNCHANGED vars
  <2>1. UNCHANGED <<serverEnd, clientEnd, request, reply, pc, outcome, pipe,
                    session, io, expired>>
    BY <1>4
    DEF vars, kernelVars, instanceVars, clientVars, listenerVars, sessionVars
  <2>2. ASSUME NEW i \in Instance
        PROVE  ClientServed(i)'
    BY <2>1, ServedElsewhere DEF Served
  <2> QED
    BY <2>1, <2>2, ServerServed
<1> QED
  BY <1>1, <1>2, <1>3, <1>4 DEF Next, ServerWaits

(***************************************************************************)
(* The theorems.                                                           *)
(***************************************************************************)

\* The variables keep their types; and the handlers that async_accept calls
\* before it returns are stacked no deeper than one more than the number of
\* times CreateNamedPipe has failed (named_pipe_acceptor.hpp:91).
THEOREM TypeCorrect == SafeSpec => []TypeOK
<1>1. Owned => TypeOK
  BY DEF Owned
<1> QED
  BY <1>1, Ownership, PTL

\* Moving the pipe out of the acceptor, into a session or into the handler of
\* a failed accept, neither loses a handle nor shares one: for every server,
\* any number of threads and failures.
THEOREM OneOwnerThm == SafeSpec => []OneOwner
<1>1. ASSUME Owned, NEW i \in Instance
      PROVE  Cardinality({x \in {"pipe", "doomed", "session"} :
                   \/ x = "pipe" /\ pipe = i
                   \/ x = "doomed" /\ doomed = i
                   \/ x = "session" /\ session[i] \in {"open", "flushing"}})
               = IF serverEnd[i] = "closed" THEN 0 ELSE 1
  <2> DEFINE Owners == {x \in {"pipe", "doomed", "session"} :
                          \/ x = "pipe" /\ pipe = i
                          \/ x = "doomed" /\ doomed = i
                          \/ x = "session" /\ session[i] \in {"open", "flushing"}}
  <2>1. Fits(i)
    BY <1>1 DEF Owned
  <2>2. CASE serverEnd[i] = "closed"
    <3>1. Owners = {}
      BY <2>1, <2>2 DEF Fits, PipeFits, DoomedFits, ClosedFits
    <3> HIDE DEF Owners
    <3>2. Cardinality(Owners) = 0
      BY <3>1, FS_EmptySet
    <3> QED
      BY <2>2, <3>2 DEF Owners
  <2>3. CASE serverEnd[i] # "closed"
    <3>1. \/ pipe = i /\ doomed # i /\ session[i] \notin {"open", "flushing"}
          \/ pipe # i /\ doomed = i /\ session[i] \notin {"open", "flushing"}
          \/ pipe # i /\ doomed # i /\ session[i] \in {"open", "flushing"}
      BY <2>1, <2>3 DEF Fits, PipeFits, DoomedFits, ClosedFits
    <3>2. PICK w : Owners = {w}
      <4>1. \/ Owners = {"pipe"} \/ Owners = {"doomed"} \/ Owners = {"session"}
        BY <3>1
      <4> HIDE DEF Owners
      <4> QED
        BY <4>1
    <3> HIDE DEF Owners
    <3>3. Cardinality(Owners) = 1
      BY <3>2, FS_Singleton
    <3> QED
      BY <2>3, <3>3 DEF Owners
  <2> QED
    BY <2>2, <2>3
<1>2. Owned => OneOwner
  BY <1>1 DEF OneOwner
<1> QED
  BY <1>2, Ownership, PTL

\* The servers accept for ever, as beast_server.cpp:180 has it: none dies of
\* already_open when it accepts again (named_pipe.hpp:79), however often
\* CreateNamedPipe fails and sessions are closed by their deadline.  The
\* handlers that are given the pipe, also with an error
\* (named_pipe_acceptor.hpp:97), bear clients that come and go; those that
\* accept into a pipe of their own do as long as no client gives up, without
\* which the statement is false.
THEOREM AcceptsForeverThm ==
  ASSUME GiveUp => Servers \subseteq {"movable", "coroutine"}
  PROVE  SafeSpec => []AcceptsForever
<1>1. Owned /\ Awaiting => AcceptsForever
  BY DEF Owned, ListenerFits, Awaiting, NoneLeaves, AcceptsForever
<1> QED
  BY <1>1, Ownership, Accepted, PTL

\* The name of the pipe does not vanish while the server listens, when one
\* thread runs the handlers (echoserver_movable.hpp:37, echoserver_coro.cpp:54).
THEOREM OneThreadKeepsNameThm ==
  ASSUME GiveUp => Servers \subseteq {"movable", "coroutine"}
  PROVE  SafeSpec => []OneThreadKeepsName
<1>1. SafeSpec => []Named
  BY InitNamed, StepNamed, Ownership, PTL DEF SafeSpec
<1>2. Owned /\ Awaiting /\ Named => OneThreadKeepsName
  BY DEF Owned, ListenerFits, Awaiting, NoneLeaves, Named, OneThreadKeepsName
<1> QED
  BY <1>1, <1>2, Ownership, Accepted, PTL

\* A client that is connected gets its request through and its reply, unless
\* the deadline of its own session passed: shutdown flushes first (named_pipe.hpp:161), and the pipe of a session is
\* closed only after it (beast_server.cpp:162).  Again the servers with a pipe
\* of their own are supposed to have clients that do not give up, as one that
\* does can end the process and with it everyone's session.
THEOREM NoReplyLostThm ==
  ASSUME GiveUp => Servers \subseteq {"movable", "coroutine"}
  PROVE  SafeSpec => []NoReplyLost
<1>1. SafeSpec => []Served
  BY InitServed, StepServed, Ownership, Accepted, PTL DEF SafeSpec
<1>2. Served => NoReplyLost
  BY DEF Served, NoReplyLost
<1> QED
  BY <1>1, <1>2, PTL
=============================================================================
