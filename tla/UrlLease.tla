------------------------------- MODULE UrlLease -------------------------------
(***************************************************************************)
(* What a basic_http_url object promises: while it lives, HTTP.sys has its *)
(* URL, because of this object and no other; and not a moment longer.      *)
(***************************************************************************)
CONSTANTS Object, Url, Nobody, NoUrl

VARIABLES
  lease,  \* of an object: the URL it believes to hold
  table   \* of a URL: the object it is registered for

vars == <<lease, table>>

TypeOK ==
  /\ lease \in [Object -> Url \cup {NoUrl}]
  /\ table \in [Url -> Object \cup {Nobody}]

Init ==
  /\ lease = [o \in Object |-> NoUrl]
  /\ table = [u \in Url |-> Nobody]

Acquire(o, u) ==
  /\ lease[o] = NoUrl
  /\ table[u] = Nobody
  /\ lease' = [lease EXCEPT ![o] = u]
  /\ table' = [table EXCEPT ![u] = o]

Release(o) ==
  /\ lease[o] # NoUrl
  /\ lease' = [lease EXCEPT ![o] = NoUrl]
  /\ table' = [table EXCEPT ![lease[o]] = Nobody]

\* The process ends, and everything it holds with it.
Ends ==
  /\ lease' = [o \in Object |-> NoUrl]
  /\ table' = [u \in Url |-> Nobody]

Next ==
  \/ \E o \in Object : Release(o) \/ \E u \in Url : Acquire(o, u)
  \/ Ends

Spec == Init /\ [][Next]_vars

\* Belief and table agree, so that no URL has two holders.
Agreement ==
  \A o \in Object, u \in Url : lease[o] = u <=> table[u] = o
=============================================================================
