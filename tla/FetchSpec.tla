------------------------------ MODULE FetchSpec ------------------------------
(***************************************************************************)
(* What async_exec promises its caller: each call ends with one call of    *)
(* the handler; it reports success only when the caller's buffer holds the *)
(* whole body of the response, and whatever it reports, the buffer never   *)
(* holds anything but a beginning of that body.                            *)
(***************************************************************************)
EXTENDS Naturals, Sequences

CONSTANTS Body,     \* bound: the lengths of body considered
          Code,     \* the error codes
          Ok        \* the code of success

VARIABLES
  status,    \* "idle" or "running"
  body,      \* the length of the body of the response
  buffer,    \* the caller's dynamic buffer
  result     \* what the last handler was told

fetchVars == <<status, body, buffer, result>>

BodyPrefix(n) == [i \in 1 .. n |-> i]

Init ==
  /\ status = "idle"
  /\ body = 0
  /\ buffer = <<>>
  /\ result = "none"

Call ==
  /\ status = "idle"
  /\ status' = "running"
  /\ body' \in Body
  /\ buffer' = <<>>
  /\ UNCHANGED result

Receive ==
  /\ status = "running"
  /\ \E n \in Len(buffer) + 1 .. body : buffer' = BodyPrefix(n)
  /\ UNCHANGED <<status, body, result>>

Finish(e) ==
  /\ status = "running"
  /\ status' = "idle"
  /\ result' = e
  /\ e = Ok => buffer = BodyPrefix(body)
  /\ UNCHANGED <<body, buffer>>

Next ==
  \/ Call
  \/ Receive
  \/ \E e \in Code \cup {Ok} : Finish(e)

SafeSpec == Init /\ [][Next]_fetchVars

\* Every call ends.
Spec == SafeSpec /\ WF_fetchVars(\E e \in Code \cup {Ok} : Finish(e))
=============================================================================
