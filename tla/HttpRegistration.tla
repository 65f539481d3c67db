--------------------------- MODULE HttpRegistration ---------------------------
(***************************************************************************)
(* http_initializer, the request queue, and basic_http_url objects with    *)
(* their url_handler: how a process gets URLs from HTTP.sys and gives them *)
(* back.  Version 1 of the API adds a URL to the queue.  Version 2 makes a *)
(* server session and a URL group for every object, binds the group to the *)
(* queue and adds the URL to the group.                                    *)
(*                                                                         *)
(* Any call that asks for something may fail.  One that gives something    *)
(* back, in a destructor, fails only if there is nothing to give back.     *)
(* What the code does about a failure is to assert that there was none: a  *)
(* debug build ends the process, a release build goes on with whatever     *)
(* there is.  Constructors and destructors run on one thread, and nothing  *)
(* outside the process sees the calls one by one, so each is one action.   *)
(***************************************************************************)
EXTENDS Naturals

CONSTANTS
  Object,   \* bound: the basic_http_url objects
  Url,
  Nobody,   \* no object
  NoUrl     \* no URL

ASSUME RegistrationAssumption == Nobody \notin Object /\ NoUrl \notin Url

VARIABLES
  version,  \* of the API, 1 or 2
  build,    \* "debug" or "release"
  process,  \* "bare", "initialized", "serving" (with a queue), "aborted"
  url,      \* of an object: its URL, or NoUrl before and after its life
  added,    \* its add_url succeeded
  session,  \* session_id_ # 0
  group,    \* group_id_ # 0
  fault,    \* the assertion that ended the process, or "none"
  \* and in HTTP.sys
  library,  \* HttpInitialize was called and not undone
  sessions, \* server sessions, by the object that created them
  groups,   \* URL groups, likewise
  bound,    \* the groups bound to the queue
  table     \* of a URL: the object that added it

setupVars == <<version, build>>
objectVars == <<url, added, session, group>>
systemVars == <<library, sessions, groups, bound, table>>
vars == <<setupVars, process, objectVars, fault, systemVars>>

TypeOK ==
  /\ version \in {1, 2}
  /\ build \in {"debug", "release"}
  /\ process \in {"bare", "initialized", "serving", "aborted"}
  /\ url \in [Object -> Url \cup {NoUrl}]
  /\ added \in [Object -> BOOLEAN]
  /\ session \in [Object -> BOOLEAN]
  /\ group \in [Object -> BOOLEAN]
  /\ fault \in {"none", "initialize", "bind", "add", "remove",
                "close_group", "close_session"}
  /\ library \in BOOLEAN
  /\ {sessions, groups, bound} \subseteq SUBSET Object
  /\ table \in [Url -> Object \cup {Nobody}]
  /\ \A o \in Object : url[o] # NoUrl => process = "serving"

Init ==
  /\ version \in {1, 2}
  /\ build \in {"debug", "release"}
  /\ process = "bare"
  /\ url = [o \in Object |-> NoUrl]
  /\ added = [o \in Object |-> FALSE]
  /\ session = [o \in Object |-> FALSE]
  /\ group = [o \in Object |-> FALSE]
  /\ fault = "none"
  /\ library = FALSE
  /\ sessions = {}
  /\ groups = {}
  /\ bound = {}
  /\ table = [u \in Url |-> Nobody]

Alive == {o \in Object : url[o] # NoUrl}

\* A failed assertion of a debug build ends the process, and HTTP.sys undoes
\* all that was done for it.
Aborts(assertion) ==
  /\ process' = "aborted"
  /\ fault' = assertion
  /\ url' = [o \in Object |-> NoUrl]
  /\ added' = [o \in Object |-> FALSE]
  /\ session' = [o \in Object |-> FALSE]
  /\ group' = [o \in Object |-> FALSE]
  /\ library' = FALSE
  /\ sessions' = {}
  /\ groups' = {}
  /\ bound' = {}
  /\ table' = [u \in Url |-> Nobody]

(***************************************************************************)
(* http_initializer and the queue.                                         *)
(***************************************************************************)
Initialize ==
  /\ process = "bare"
  /\ \E ok \in BOOLEAN :
       IF ~ok /\ build = "debug" THEN Aborts("initialize")
       ELSE /\ process' = "initialized"
            /\ library' = ok
            /\ UNCHANGED <<objectVars, fault, sessions, groups, bound, table>>
  /\ UNCHANGED setupVars

\* create_http_queue, whose error the caller is told.
CreateQueue ==
  /\ process = "initialized"
  /\ library
  /\ process' = "serving"
  /\ UNCHANGED <<setupVars, objectVars, fault, systemVars>>

\* Faulty variant: the queue goes first.
CloseQueueEarly ==
  /\ process = "serving"
  /\ process' = "initialized"
  /\ UNCHANGED <<setupVars, objectVars, fault, systemVars>>

\* The queue is destroyed after the URL objects, which refer to it.
CloseQueue ==
  /\ process = "serving"
  /\ Alive = {}
  /\ process' = "initialized"
  /\ UNCHANGED <<setupVars, objectVars, fault, systemVars>>

\* ~http_initializer.  HttpTerminate fails only without HttpInitialize, which
\* a debug build does not survive.
Terminate ==
  /\ process = "initialized"
  /\ process' = "bare"
  /\ library' = FALSE
  /\ UNCHANGED <<setupVars, objectVars, fault, sessions, groups, bound, table>>

(***************************************************************************)
(* basic_http_url.                                                         *)
(***************************************************************************)

\* What the two constructors get for o and u: sess and grp are what the
\* url_handler has when it returns, early or not; add is the fate of the URL.
\* An id of 0 is not a group, and a URL is added once.
Constructed(o, u, sess, grp, bnd, add) ==
  /\ version = 1 => ~sess
  /\ grp => sess
  /\ bnd => grp
  /\ add => table[u] = Nobody /\ (version = 2 => grp)
  /\ url' = [url EXCEPT ![o] = u]
  /\ added' = [added EXCEPT ![o] = add]
  /\ session' = [session EXCEPT ![o] = sess]
  /\ group' = [group EXCEPT ![o] = grp]
  /\ sessions' = IF sess THEN sessions \cup {o} ELSE sessions
  /\ groups' = IF grp THEN groups \cup {o} ELSE groups
  /\ bound' = IF bnd THEN bound \cup {o} ELSE bound
  /\ table' = IF add THEN [table EXCEPT ![u] = o] ELSE table
  /\ UNCHANGED <<process, fault, library>>

\* The assertions: that the group, once there is one, could be bound, and
\* that the URL was added.
Construct(o, u) ==
  /\ process = "serving"
  /\ url[o] = NoUrl
  /\ \E sess, grp, bnd, add \in BOOLEAN :
       IF build = "debug" /\ ~(add /\ (version = 2 => bnd))
       THEN Aborts(IF grp /\ ~bnd THEN "bind" ELSE "add")
       ELSE Constructed(o, u, sess, grp, bnd, add)
  /\ UNCHANGED setupVars

\* Faulty variant: a group's URL can be removed through any group.
RemovedByAny(o) == table[url[o]] # Nobody

\* remove_url succeeds: version 1 asks for the URL of the queue, whoever
\* added it; version 2 for one of this object's group.
Removed(o) ==
  IF version = 1 THEN table[url[o]] # Nobody ELSE table[url[o]] = o

\* Faulty variant: the session is closed only by an object that has a group.
ClosesWithGroup(o) == group[o]

\* ~url_handler closes a session if there is one.
ClosesSession(o) == session[o]

\* Faulty variant: the session goes first, and its group with it.
GroupCloses(o) == o \in groups /\ ~session[o]

\* HttpCloseUrlGroup succeeds on a group that is still there.
GroupClosed(o) == o \in groups

\* The assertions of ~basic_http_url and ~url_handler, in their order.
DestructorFault(o) ==
  IF ~Removed(o) THEN "remove"
  ELSE IF group[o] /\ ~GroupClosed(o) THEN "close_group"
  ELSE IF ClosesSession(o) /\ o \notin sessions THEN "close_session"
  ELSE "none"

\* ~basic_http_url, then the destructor of its url_handler.
Destruct(o) ==
  /\ process = "serving"
  /\ url[o] # NoUrl
  /\ IF build = "debug" /\ DestructorFault(o) # "none"
     THEN Aborts(DestructorFault(o))
     ELSE /\ url' = [url EXCEPT ![o] = NoUrl]
          /\ added' = [added EXCEPT ![o] = FALSE]
          /\ session' = [session EXCEPT ![o] = FALSE]
          /\ group' = [group EXCEPT ![o] = FALSE]
          /\ groups' = groups \ {o}
          /\ bound' = bound \ {o}
          /\ sessions' = IF ClosesSession(o) THEN sessions \ {o} ELSE sessions
          /\ table' = IF Removed(o) THEN [table EXCEPT ![url[o]] = Nobody]
                      ELSE table
          /\ UNCHANGED <<process, fault, library>>
  /\ UNCHANGED setupVars

Next ==
  \/ Initialize \/ CreateQueue \/ CloseQueue \/ Terminate
  \/ \E o \in Object : Destruct(o) \/ \E u \in Url : Construct(o, u)
  \/ process = "aborted" /\ UNCHANGED vars

Spec == Init /\ [][Next]_vars

(***************************************************************************)
(* Properties.                                                             *)
(***************************************************************************)

\* Whichever call of a constructor fails, its object's destructor leaves
\* nothing in HTTP.sys: no session, no group, no URL
\* (http_url_handler.hpp:60-72, 81-91).
NothingLeft ==
  /\ sessions \cup groups \cup bound \subseteq Alive
  /\ \A u \in Url : table[u] \in Alive \cup {Nobody}

\* A debug build dies of what could not be got, never of giving it back: the
\* assertions of the destructors hold, in any order of construction and
\* destruction of objects with equal and different URLs
\* (basic_http_url.hpp:36, http_url_handler.hpp:85-89).
DestructorsAssertNothing ==
  fault \notin {"remove", "close_group", "close_session"}

\* Whether an object that failed to get its URL never ends up removing that
\* of another: so with version 2, where each has a group of its own, and in
\* debug builds, which do not survive the failure.  With version 1 a release
\* build removes it (http_url_handler.hpp:41).
Safe == version = 2 \/ build = "debug"

\* What the objects believe to hold, and what HTTP.sys has, as a lease.
Lease == INSTANCE UrlLease WITH
  lease <- [o \in Object |-> IF Safe /\ added[o] THEN url[o] ELSE NoUrl],
  table <- [u \in Url |-> IF Safe THEN table[u] ELSE Nobody]

\* An object whose URL was added keeps it until it is destroyed, whatever
\* other objects are constructed, fail and are destroyed meanwhile.
LeaseSpec == Lease!Spec
=============================================================================
