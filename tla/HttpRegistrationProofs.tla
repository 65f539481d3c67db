------------------------ MODULE HttpRegistrationProofs ------------------------
(***************************************************************************)
(* Theorems about HttpRegistration, for any set of objects and of URLs.    *)
(*                                                                         *)
(* What an object knows and what HTTP.sys has agree: the ids (IdsAgree),   *)
(* and, where only an object itself removes its URL, the URL (UrlsAgree).  *)
(* A debug build in addition has no object without a URL (DebugAdded).     *)
(* That is why each destructor finds what it is to undo.                   *)
(***************************************************************************)
EXTENDS HttpRegistration, TLAPS

\* A session or a group is there exactly if its object has the id.
IdsAgree ==
  /\ \A o \in Object : (session[o] <=> o \in sessions) /\ (group[o] <=> o \in groups)
  /\ bound \subseteq groups
  /\ \A o \in Object : url[o] = NoUrl => ~session[o] /\ ~group[o] /\ ~added[o]

\* A registered URL is that of the object it is registered for.
TableOwn == \A o \in Object, u \in Url : table[u] = o => url[o] = u

UrlsAgree ==
  Safe => \A o \in Object : added[o] => table[url[o]] = o

\* And an object that has its URL registered knows it.
AddedKnown == \A o \in Object, u \in Url : table[u] = o => added[o]

DebugAdded ==
  build = "debug" => \A o \in Object : url[o] # NoUrl => added[o]

IInv ==
  /\ TypeOK
  /\ IdsAgree
  /\ TableOwn
  /\ UrlsAgree
  /\ AddedKnown
  /\ DebugAdded
  /\ DestructorsAssertNothing

Unfaulted == {"none", "initialize", "bind", "add"}

\* The process has nothing when it starts.
LEMMA InitInvariant == Init => IInv
<1> SUFFICES ASSUME Init
             PROVE  IInv
  OBVIOUS
<1>1. TypeOK
  BY DEF Init, TypeOK
<1>2. IdsAgree /\ DestructorsAssertNothing
  BY DEF Init, IdsAgree, DestructorsAssertNothing
<1>3. TableOwn /\ UrlsAgree /\ AddedKnown /\ DebugAdded
  BY RegistrationAssumption DEF Init, TableOwn, UrlsAgree, AddedKnown, DebugAdded
<1> QED
  BY <1>1, <1>2, <1>3 DEF IInv

\* Nor after a failed assertion.
LEMMA AbortInvariant ==
  ASSUME IInv, NEW a \in Unfaulted, Aborts(a), UNCHANGED setupVars
  PROVE  IInv'
<1>1. TypeOK'
  BY DEF Aborts, Unfaulted, setupVars, IInv, TypeOK
<1>2. IdsAgree' /\ DestructorsAssertNothing'
  BY DEF Aborts, Unfaulted, IdsAgree, DestructorsAssertNothing
<1>3. TableOwn' /\ UrlsAgree' /\ AddedKnown' /\ DebugAdded'
  BY RegistrationAssumption
  DEF Aborts, TableOwn, UrlsAgree, AddedKnown, DebugAdded
<1> QED
  BY <1>1, <1>2, <1>3 DEF IInv

\* Steps of the process that touch no object.
LEMMA QuietInvariant ==
  ASSUME IInv, process' \in {"bare", "initialized", "serving", "aborted"},
         library' \in BOOLEAN,
         \A o \in Object : url[o] # NoUrl => process' = "serving",
         UNCHANGED <<setupVars, objectVars, fault, sessions, groups, bound, table>>
  PROVE  IInv'
  BY DEF IInv, TypeOK, IdsAgree, TableOwn, UrlsAgree, AddedKnown, DebugAdded,
         DestructorsAssertNothing, Safe, setupVars, objectVars

\* Constructing an object, with any outcome its build lets live.
LEMMA ConstructedInvariant ==
  ASSUME IInv, NEW o \in Object, NEW u \in Url,
         process = "serving", url[o] = NoUrl,
         NEW sess \in BOOLEAN, NEW grp \in BOOLEAN, NEW bnd \in BOOLEAN,
         NEW add \in BOOLEAN, Constructed(o, u, sess, grp, bnd, add),
         build = "debug" => add, UNCHANGED setupVars
  PROVE  IInv'
<1> USE DEF Constructed, setupVars
<1>1. u # NoUrl /\ o # Nobody
  BY RegistrationAssumption
<1>2. TypeOK'
  BY DEF IInv, TypeOK
<1>3. IdsAgree'
  BY <1>1 DEF IInv, TypeOK, IdsAgree
<1>4. \A v \in Url : table[v] # o
  BY DEF IInv, IdsAgree, AddedKnown
<1>5. TableOwn'
  BY <1>1, <1>4 DEF IInv, TypeOK, TableOwn
<1>6. UrlsAgree'
  <2>1. SUFFICES ASSUME Safe, NEW p \in Object, added'[p]
                 PROVE  table'[url'[p]] = p
    BY DEF UrlsAgree, Safe
  <2>2. CASE p = o
    BY <2>1, <2>2 DEF IInv, TypeOK
  <2>3. CASE p # o
    <3>1. added[p] /\ url'[p] = url[p]
      BY <2>1, <2>3 DEF IInv, TypeOK
    <3>2. table[url[p]] = p /\ url[p] \in Url
      BY <2>1, <3>1 DEF IInv, TypeOK, UrlsAgree, IdsAgree
    <3>3. add => url[p] # u
      BY <3>2, RegistrationAssumption
    <3> QED
      BY <3>1, <3>2, <3>3 DEF IInv, TypeOK
  <2> QED
    BY <2>2, <2>3
<1>7. AddedKnown'
  BY <1>4 DEF IInv, TypeOK, AddedKnown
<1>8. DebugAdded'
  BY DEF IInv, TypeOK, DebugAdded
<1> QED
  BY <1>2, <1>3, <1>5, <1>6, <1>7, <1>8 DEF IInv, DestructorsAssertNothing

\* A debug build's object removes its own URL, group and session.
LEMMA NoDestructorFault ==
  ASSUME IInv, NEW o \in Object, url[o] # NoUrl, build = "debug"
  PROVE  DestructorFault(o) = "none"
<1>1. added[o] /\ table[url[o]] = o /\ url[o] \in Url
  BY DEF IInv, TypeOK, DebugAdded, UrlsAgree, Safe
<1>2. Removed(o)
  BY <1>1, RegistrationAssumption DEF Removed
<1> QED
  BY <1>2 DEF DestructorFault, GroupClosed, ClosesSession, IInv, IdsAgree

\* Destroying an object takes nothing from another, where that is promised.
LEMMA DestructInvariant ==
  ASSUME IInv, NEW o \in Object, Destruct(o)
  PROVE  IInv'
<1>1. /\ url' = [url EXCEPT ![o] = NoUrl]
      /\ added' = [added EXCEPT ![o] = FALSE]
      /\ session' = [session EXCEPT ![o] = FALSE]
      /\ group' = [group EXCEPT ![o] = FALSE]
      /\ groups' = groups \ {o}
      /\ bound' = bound \ {o}
      /\ sessions' = IF session[o] THEN sessions \ {o} ELSE sessions
      /\ table' = IF Removed(o) THEN [table EXCEPT ![url[o]] = Nobody] ELSE table
      /\ UNCHANGED <<setupVars, process, fault, library>>
      /\ process = "serving"
  BY NoDestructorFault DEF Destruct, ClosesSession
<1>2. url[o] \in Url
  BY DEF Destruct, IInv, TypeOK
<1> USE DEF setupVars
<1>3. TypeOK'
  BY <1>1, <1>2 DEF IInv, TypeOK
<1>4. IdsAgree'
  BY <1>1 DEF IInv, TypeOK, IdsAgree
<1>5. \A v \in Url : table'[v] # Nobody => table'[v] = table[v] /\ table[v] # o
  <2>1. SUFFICES ASSUME NEW v \in Url, table'[v] # Nobody
                 PROVE  table'[v] = table[v] /\ table[v] # o
    OBVIOUS
  <2>2. table'[v] = table[v] /\ (Removed(o) => v # url[o])
    BY <1>1, <1>2, <2>1 DEF IInv, TypeOK
  <2>3. table[v] = o => v = url[o] /\ Removed(o)
    BY RegistrationAssumption DEF IInv, TableOwn, Removed
  <2> QED
    BY <2>2, <2>3
<1>6. TableOwn' /\ AddedKnown'
  <2>1. SUFFICES ASSUME NEW p \in Object, NEW v \in Url, table'[v] = p
                 PROVE  url'[p] = v /\ added'[p]
    BY DEF TableOwn, AddedKnown
  <2>2. table[v] = p /\ p # o
    BY <1>5, <2>1, RegistrationAssumption
  <2> QED
    BY <1>1, <2>2 DEF IInv, TypeOK, TableOwn, AddedKnown
<1>7. UrlsAgree'
  <2>1. SUFFICES ASSUME Safe, NEW p \in Object, added'[p]
                 PROVE  table'[url'[p]] = p
    BY <1>1 DEF UrlsAgree, Safe
  <2>2. p # o /\ added[p] /\ url'[p] = url[p]
    BY <1>1, <2>1 DEF IInv, TypeOK
  <2>3. table[url[p]] = p /\ url[p] \in Url
    BY <2>1, <2>2 DEF IInv, TypeOK, UrlsAgree, IdsAgree
  <2>4. Removed(o) => url[p] # url[o]
    <3>1. version = 2 => (Removed(o) => table[url[o]] = o)
      BY DEF Removed
    <3>2. version = 1 => table[url[o]] = o
      BY <2>1 DEF Safe, IInv, TypeOK, DebugAdded, UrlsAgree, Destruct
    <3> QED
      BY <2>2, <2>3, <3>1, <3>2 DEF IInv, TypeOK
  <2> QED
    BY <1>1, <1>2, <2>2, <2>3, <2>4 DEF IInv, TypeOK
<1>8. DebugAdded'
  BY <1>1 DEF IInv, TypeOK, DebugAdded
<1> QED
  BY <1>1, <1>3, <1>4, <1>6, <1>7, <1>8 DEF IInv, DestructorsAssertNothing

LEMMA StepInvariant == IInv /\ [Next]_vars => IInv'
<1> SUFFICES ASSUME IInv, [Next]_vars
             PROVE  IInv'
  OBVIOUS
<1>1. CASE Initialize
  <2>1. CASE Aborts("initialize")
    BY <1>1, <2>1, AbortInvariant DEF Unfaulted, Initialize
  <2>2. CASE /\ process' = "initialized" /\ library' \in BOOLEAN
             /\ UNCHANGED <<objectVars, fault, sessions, groups, bound, table>>
    <3>1. \A o \in Object : url[o] = NoUrl
      BY <1>1 DEF Initialize, IInv, TypeOK
    <3> QED
      BY <1>1, <2>2, <3>1, QuietInvariant DEF Initialize
  <2> QED
    BY <1>1, <2>1, <2>2 DEF Initialize
<1>2. CASE CreateQueue
  BY <1>2, QuietInvariant DEF CreateQueue, systemVars, IInv, TypeOK
<1>3. CASE CloseQueue
  <2>1. \A o \in Object : url[o] = NoUrl
    BY <1>3 DEF CloseQueue, Alive
  <2> QED
    BY <1>3, <2>1, QuietInvariant DEF CloseQueue, systemVars, IInv, TypeOK
<1>4. CASE Terminate
  <2>1. \A o \in Object : url[o] = NoUrl
    BY <1>4 DEF Terminate, IInv, TypeOK
  <2> QED
    BY <1>4, <2>1, QuietInvariant DEF Terminate
<1>5. ASSUME NEW o \in Object, Destruct(o)
      PROVE  IInv'
  BY <1>5, DestructInvariant
<1>6. ASSUME NEW o \in Object, NEW u \in Url, Construct(o, u)
      PROVE  IInv'
  <2>1. PICK sess \in BOOLEAN, grp \in BOOLEAN, bnd \in BOOLEAN, add \in BOOLEAN :
          IF build = "debug" /\ ~(add /\ (version = 2 => bnd))
          THEN Aborts(IF grp /\ ~bnd THEN "bind" ELSE "add")
          ELSE Constructed(o, u, sess, grp, bnd, add)
    BY <1>6 DEF Construct
  <2>2. process = "serving" /\ url[o] = NoUrl /\ UNCHANGED setupVars
    BY <1>6 DEF Construct
  <2>3. CASE build = "debug" /\ ~(add /\ (version = 2 => bnd))
    BY <2>1, <2>2, <2>3, AbortInvariant DEF Unfaulted
  <2>4. CASE ~(build = "debug" /\ ~(add /\ (version = 2 => bnd)))
    BY <2>1, <2>2, <2>4, ConstructedInvariant
  <2> QED
    BY <2>3, <2>4
<1>7. CASE UNCHANGED vars
  BY <1>7, QuietInvariant DEF vars, systemVars, IInv, TypeOK
<1> QED
  BY <1>1, <1>2, <1>3, <1>4, <1>5, <1>6, <1>7 DEF Next

LEMMA Invariance == Spec => []IInv
  BY InitInvariant, StepInvariant, PTL DEF Spec

\* The types, and that objects live only while there is a queue.
THEOREM TypeCorrect == Spec => []TypeOK
<1>1. IInv => TypeOK
  BY DEF IInv
<1> QED
  BY <1>1, Invariance, PTL

\* Whichever call of a constructor fails, its object's destructor leaves
\* nothing in HTTP.sys (http_url_handler.hpp:60-91).
THEOREM NothingLeftThm == Spec => []NothingLeft
<1>1. IInv => NothingLeft
  <2> SUFFICES ASSUME IInv
               PROVE  NothingLeft
    OBVIOUS
  <2>1. sessions \cup groups \cup bound \subseteq Alive
    BY DEF IInv, TypeOK, IdsAgree, Alive
  <2>2. \A u \in Url : table[u] \in Alive \cup {Nobody}
    BY RegistrationAssumption DEF IInv, TypeOK, TableOwn, Alive
  <2> QED
    BY <2>1, <2>2 DEF NothingLeft
<1> QED
  BY <1>1, Invariance, PTL

\* The assertions of the destructors hold (basic_http_url.hpp:38,
\* http_url_handler.hpp:86-90).
THEOREM DestructorsAssertNothingThm == Spec => []DestructorsAssertNothing
<1>1. IInv => DestructorsAssertNothing
  BY DEF IInv
<1> QED
  BY <1>1, Invariance, PTL

\* One step of the objects is one step of the lease, or none that it sees.
LEMMA LeaseStep ==
  ASSUME IInv, [Next]_vars
  PROVE  [Lease!Next]_(Lease!vars)
<1> DEFINE L == [o \in Object |-> IF Safe /\ added[o] THEN url[o] ELSE NoUrl]
           T == [u \in Url |-> IF Safe THEN table[u] ELSE Nobody]
<1>a. IInv'
  BY StepInvariant
<1>b. UNCHANGED setupVars
  BY DEF Next, vars, Initialize, CreateQueue, CloseQueue, Terminate, Destruct,
         Construct
<1>c. Safe' = Safe
  BY <1>b DEF Safe, setupVars
<1>1. ASSUME NEW a, Aborts(a)
      PROVE  Lease!Ends
  BY <1>1, <1>c DEF Aborts, Lease!Ends
<1>2. CASE UNCHANGED <<objectVars, table>>
  BY <1>2, <1>c DEF objectVars, Lease!vars
<1>3. CASE ~Safe
  BY <1>3, <1>c DEF Lease!vars
<1>4. ASSUME Safe, NEW o \in Object, Destruct(o)
      PROVE  Lease!Release(o) \/ UNCHANGED Lease!vars
  <2>1. /\ url' = [url EXCEPT ![o] = NoUrl]
        /\ added' = [added EXCEPT ![o] = FALSE]
        /\ table' = IF Removed(o) THEN [table EXCEPT ![url[o]] = Nobody]
                    ELSE table
        /\ url[o] \in Url
    BY <1>4, NoDestructorFault DEF Destruct, IInv, TypeOK
  <2>2. Removed(o) <=> added[o]
    <3>1. table[url[o]] = o <=> added[o]
      BY <1>4, <2>1 DEF IInv, UrlsAgree, AddedKnown
    <3>2. version = 1 => added[o]
      BY <1>4, <2>1, RegistrationAssumption DEF Safe, IInv, TypeOK, DebugAdded
    <3> QED
      BY <3>1, <3>2, RegistrationAssumption DEF Removed
  <2>3. L' = [L EXCEPT ![o] = NoUrl]
    BY <1>4, <1>c, <2>1 DEF IInv, TypeOK
  <2>4. CASE added[o]
    <3>1. L[o] = url[o]
      BY <1>4, <2>4
    <3>2. T' = [T EXCEPT ![L[o]] = Nobody]
      BY <1>4, <1>c, <2>1, <2>2, <2>4, <3>1 DEF IInv, TypeOK
    <3> QED
      BY <2>1, <2>3, <3>1, <3>2, RegistrationAssumption DEF Lease!Release
  <2>5. CASE ~added[o]
    <3>1. L[o] = NoUrl
      BY <2>5
    <3>2. L' = L /\ T' = T
      BY <1>c, <2>1, <2>2, <2>3, <2>5, <3>1
    <3> QED
      BY <3>2 DEF Lease!vars
  <2> QED
    BY <2>4, <2>5
<1>5. ASSUME Safe, NEW o \in Object, NEW u \in Url, NEW sess \in BOOLEAN,
             NEW grp \in BOOLEAN, NEW bnd \in BOOLEAN, NEW add \in BOOLEAN,
             url[o] = NoUrl, Constructed(o, u, sess, grp, bnd, add)
      PROVE  Lease!Acquire(o, u) \/ UNCHANGED Lease!vars
  <2>1. /\ url' = [url EXCEPT ![o] = u]
        /\ added' = [added EXCEPT ![o] = add]
        /\ table' = IF add THEN [table EXCEPT ![u] = o] ELSE table
        /\ add => table[u] = Nobody
        /\ ~added[o]
    BY <1>5 DEF Constructed, IInv, IdsAgree
  <2>2. CASE add
    <3>1. L[o] = NoUrl /\ T[u] = Nobody
      BY <1>5, <2>1, <2>2
    <3>2. L' = [L EXCEPT ![o] = u]
      BY <1>5, <1>c, <2>1, <2>2 DEF IInv, TypeOK
    <3>3. T' = [T EXCEPT ![u] = o]
      BY <1>5, <1>c, <2>1, <2>2 DEF IInv, TypeOK
    <3> QED
      BY <3>1, <3>2, <3>3 DEF Lease!Acquire
  <2>3. CASE ~add
    <3>1. L' = L
      BY <1>5, <1>c, <2>1, <2>3 DEF IInv, TypeOK
    <3>2. T' = T
      BY <1>c, <2>1, <2>3
    <3> QED
      BY <3>1, <3>2 DEF Lease!vars
  <2> QED
    BY <2>2, <2>3
<1>6. CASE Initialize
  BY <1>1, <1>2, <1>6 DEF Initialize, Lease!Next
<1>7. CASE CreateQueue \/ CloseQueue \/ Terminate \/ UNCHANGED vars
  BY <1>2, <1>7 DEF CreateQueue, CloseQueue, Terminate, systemVars, vars
<1>8. ASSUME NEW o \in Object, Destruct(o)
      PROVE  [Lease!Next]_(Lease!vars)
  BY <1>3, <1>4, <1>8 DEF Lease!Next
<1>9. ASSUME NEW o \in Object, NEW u \in Url, Construct(o, u)
      PROVE  [Lease!Next]_(Lease!vars)
  <2>1. PICK sess \in BOOLEAN, grp \in BOOLEAN, bnd \in BOOLEAN, add \in BOOLEAN :
          IF build = "debug" /\ ~(add /\ (version = 2 => bnd))
          THEN Aborts(IF grp /\ ~bnd THEN "bind" ELSE "add")
          ELSE Constructed(o, u, sess, grp, bnd, add)
    BY <1>9 DEF Construct
  <2>2. url[o] = NoUrl
    BY <1>9 DEF Construct
  <2>3. CASE Constructed(o, u, sess, grp, bnd, add)
    BY <1>3, <1>5, <2>2, <2>3 DEF Lease!Next
  <2>4. CASE Aborts(IF grp /\ ~bnd THEN "bind" ELSE "add")
    BY <1>1, <2>4 DEF Lease!Next
  <2> QED
    BY <2>1, <2>3, <2>4
<1> QED
  BY <1>6, <1>7, <1>8, <1>9 DEF Next

\* An object whose URL was added holds it until it is destroyed, and nobody
\* else does: the objects implement the lease (basic_http_url.hpp:27-39).
THEOREM LeaseRefinement == Spec => LeaseSpec
<1>1. Init => Lease!Init
  BY DEF Init, Lease!Init
<1>2. IInv /\ [Next]_vars => [Lease!Next]_(Lease!vars)
  BY LeaseStep
<1> QED
  BY <1>1, <1>2, Invariance, PTL DEF Spec, LeaseSpec, Lease!Spec
=============================================================================
