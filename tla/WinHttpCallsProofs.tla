-------------------------- MODULE WinHttpCallsProofs --------------------------
(***************************************************************************)
(* Theorems about WinHttpCalls, for any handles, headers, lengths and      *)
(* accept lists.                                                           *)
(*                                                                         *)
(* The lemmas say what cutting a sequence at its first null makes of it.   *)
(* The invariant adds to the properties that the array of accept types,    *)
(* once used, begins with the whole list (OutputBegins), and that a header *)
(* that was returned is still that of the response, or the request is      *)
(* closed (ResponseKept).                                                  *)
(***************************************************************************)
EXTENDS WinHttpCalls, TLAPS, FiniteSetTheorems, SequenceTheorems,
        WellFoundedInduction

(***************************************************************************)
(* Cutting a sequence.                                                     *)
(***************************************************************************)

\* What there is in a sequence, there is a first of.
LEMMA FirstAtProperties ==
  ASSUME NEW S, NEW s \in Seq(S), NEW x, NEW k \in DOMAIN s, s[k] = x
  PROVE  /\ FirstAt(s, x) \in 1 .. Len(s)
         /\ s[FirstAt(s, x)] = x
         /\ \A j \in 1 .. FirstAt(s, x) - 1 : s[j] # x
<1>1. DOMAIN s = 1 .. Len(s) /\ Len(s) \in Nat
  OBVIOUS
<1> DEFINE T == {1 .. i : i \in {j \in 1 .. Len(s) : s[j] = x}}
           R == StrictSubsetOrdering(Nat)
<1>2. T \subseteq FiniteSubsetsOf(Nat) /\ T # {}
  <2>1. \A i \in 1 .. Len(s) : IsFiniteSet(1 .. i) /\ 1 .. i \subseteq Nat
    BY <1>1, FS_Interval
  <2> QED
    BY <1>1, <2>1 DEF FiniteSubsetsOf
<1>3. PICK I \in T : \A J \in T : ~ (<<J, I>> \in R)
  <2>1. IsWellFoundedOn(R, FiniteSubsetsOf(Nat))
    BY FS_StrictSubsetOrderingWellFounded
  <2> HIDE DEF T, R
  <2> QED
    BY <1>2, <2>1, WFMin
<1>4. PICK i \in 1 .. Len(s) : s[i] = x /\ I = 1 .. i
  BY <1>3
<1>a. ASSUME NEW j \in 1 .. i - 1, s[j] = x
      PROVE  FALSE
  <2>1. 1 .. j \in T /\ i \in I /\ i \notin 1 .. j
    BY <1>1, <1>4, <1>a
  <2>2. 1 .. j \subseteq I /\ I \subseteq Nat
    BY <1>1, <1>4, <1>a
  <2> QED
    BY <1>3, <2>1, <2>2 DEF StrictSubsetOrdering
<1>5. \E j \in DOMAIN s : s[j] = x /\ \A l \in 1 .. j - 1 : s[l] # x
  BY <1>1, <1>4, <1>a
<1> QED
  BY <1>1, <1>5 DEF FirstAt

\* Before stops at the first x.
LEMMA BeforeIs ==
  ASSUME NEW S, NEW s \in Seq(S), NEW x, NEW n \in Nat, n < Len(s),
         s[n + 1] = x, \A i \in 1 .. n : s[i] # x
  PROVE  Before(s, x) = SubSeq(s, 1, n)
<1>1. n + 1 \in DOMAIN s /\ Len(s) \in Nat
  OBVIOUS
<1>2. /\ FirstAt(s, x) \in 1 .. Len(s)
      /\ s[FirstAt(s, x)] = x
      /\ \A j \in 1 .. FirstAt(s, x) - 1 : s[j] # x
  BY <1>1, FirstAtProperties
<1>3. FirstAt(s, x) = n + 1
  BY <1>1, <1>2
<1> QED
  BY <1>1, <1>3 DEF Before

\* And nothing of it is an x.
LEMMA BeforeType ==
  ASSUME NEW S, NEW x, NEW s \in Seq(S \cup {x})
  PROVE  Before(s, x) \in Seq(S)
<1>1. \A i \in 1 .. Len(s) : s[i] \in S \cup {x}
  BY ElementOfSeq
<1>2. DOMAIN s = 1 .. Len(s) /\ Len(s) \in Nat
  OBVIOUS
<1>3. ASSUME NEW k \in DOMAIN s, s[k] = x
      PROVE  Before(s, x) \in Seq(S)
  <2>1. /\ FirstAt(s, x) \in 1 .. Len(s)
        /\ \A j \in 1 .. FirstAt(s, x) - 1 : s[j] # x
    BY <1>3, FirstAtProperties
  <2>2. \A j \in 1 .. FirstAt(s, x) - 1 : s[j] \in S
    BY <1>1, <1>2, <2>1
  <2>3. SubSeq(s, 1, FirstAt(s, x) - 1) \in Seq(S)
    BY <2>1, <2>2, SubSeqProperties
  <2> QED
    BY <1>3, <2>3 DEF Before
<1>4. ASSUME \A k \in DOMAIN s : s[k] # x
      PROVE  Before(s, x) \in Seq(S)
  <2>1. \A i \in 1 .. Len(s) : s[i] \in S
    BY <1>1, <1>2, <1>4
  <2>2. s \in [1 .. Len(s) -> S]
    BY <1>2, <2>1
  <2>3. s \in Seq(S)
    BY <1>2, <2>2, SeqDef
  <2> QED
    BY <1>4, <2>3 DEF Before
<1> QED
  BY <1>3, <1>4

\* A value that was written over the beginning of a longer string is what is
\* left when the string is cut at its first null (winhttp.hpp:414-419).
LEMMA ValueRecovered ==
  ASSUME NEW h \in Header, NEW v \in Value(h), NEW s \in Seq(Header \cup {Nul}),
         Len(v) < Len(s)
  PROVE  Erased(Overwritten(s, v)) = v
<1>1. PICK n \in 0 .. MaxLength : v \in [1 .. n -> {h}]
  BY DEF Value
<1>2. n \in Nat /\ Len(v) = n /\ v \in Seq(Header)
  BY <1>1, CallsAssumption, SeqDef
<1>3. \A i \in 1 .. n : v[i] = h /\ h # Nul
  BY <1>1, CallsAssumption
<1> DEFINE w == Overwritten(s, v)
<1>4. DOMAIN s = 1 .. Len(s) /\ Len(s) \in Nat
  OBVIOUS
<1>5. w \in [1 .. Len(s) -> Header \cup {Nul}]
  <2>1. \A i \in 1 .. Len(s) : s[i] \in Header \cup {Nul}
    BY ElementOfSeq
  <2>2. \A i \in 1 .. Len(s) : i <= n => v[i] \in Header
    BY <1>2, <1>3
  <2> QED
    BY <1>2, <1>4, <2>1, <2>2 DEF Overwritten
<1>6. w \in Seq(Header \cup {Nul}) /\ Len(w) = Len(s)
  BY <1>4, <1>5, SeqDef
<1>7. w[n + 1] = Nul /\ \A i \in 1 .. n : w[i] = v[i]
  BY <1>2, <1>4 DEF Overwritten
<1>8. Before(w, Nul) = SubSeq(w, 1, n)
  <2> HIDE DEF w
  <2>1. \A i \in 1 .. n : w[i] # Nul
    BY <1>3, <1>7
  <2> QED
    BY <1>2, <1>6, <1>7, <2>1, BeforeIs
<1>9. SubSeq(w, 1, n) = v
  <2> HIDE DEF w
  <2>1. \A i \in 1 .. n : w[i] \in Header \cup {Nul}
    BY <1>3, <1>7
  <2>2. /\ SubSeq(w, 1, n) \in Seq(Header \cup {Nul})
        /\ Len(SubSeq(w, 1, n)) = n
        /\ \A i \in 1 .. n : SubSeq(w, 1, n)[i] = v[i]
    BY <1>2, <1>7, <2>1, SubSeqProperties
  <2> QED
    BY <1>2, <2>2, SeqEqual
<1> QED
  BY <1>8, <1>9 DEF Erased

(***************************************************************************)
(* The accept list.                                                        *)
(***************************************************************************)

\* The array begins with the types and a null.
BeginsWithList(out) ==
  /\ out \in Seq(Type \cup {Null})
  /\ Len(AcceptData) < Len(out)
  /\ out[Len(AcceptData) + 1] = Null
  /\ \A i \in 1 .. Len(AcceptData) : out[i] = AcceptData[i]

\* A finite set has a list of its elements.
LEMMA AcceptDataType == AcceptData \in Seq(Type)
<1> DEFINE N == Cardinality(Type)
<1>1. N \in Nat /\ ExistsBijection(1 .. N, Type)
  BY CallsAssumption, FS_CardinalityType
<1>2. \E s \in [1 .. N -> Type] :
        \A i, j \in DOMAIN s : s[i] = s[j] => i = j
  BY <1>1 DEF ExistsBijection, Bijection, Injection, IsInjective
<1>3. AcceptData \in [1 .. N -> Type]
  BY <1>2 DEF AcceptData
<1> QED
  BY <1>1, <1>3, SeqDef

\* accept_types::get leaves the list of its first call where it was
\* (winhttp.hpp:474-478).
LEMMA AppendedBegins ==
  ASSUME NEW out, out = <<>> \/ BeginsWithList(out), AcceptData # <<>>
  PROVE  BeginsWithList(Appended(out))
<1> DEFINE S == Type \cup {Null}
<1> DEFINE L == Append(AcceptData, Null)
<1>1. AcceptData \in Seq(S)
  <2>1. Type \subseteq S
    OBVIOUS
  <2> QED
    BY <2>1, AcceptDataType, SeqMonotonic
<1>2. /\ L \in Seq(S)
      /\ Len(L) = Len(AcceptData) + 1
      /\ L[Len(AcceptData) + 1] = Null
      /\ \A i \in 1 .. Len(AcceptData) : L[i] = AcceptData[i]
      /\ Len(AcceptData) \in Nat
  BY <1>1, AppendProperties
<1>3. CASE out = <<>>
  <2>1. out \o L = L
    <3> HIDE DEF L, S
    <3> QED
      BY <1>2, <1>3, ConcatEmptySeq
  <2>2. BeginsWithList(L)
    <3> HIDE DEF L
    <3> QED
      BY <1>2 DEF BeginsWithList
  <2> QED
    BY <2>1, <2>2 DEF Appended
<1>4. CASE BeginsWithList(out)
  <2>1. out \in Seq(S) /\ Len(out) \in Nat
    BY <1>4 DEF BeginsWithList
  <2>2. /\ out \o L \in Seq(S)
        /\ Len(out \o L) = Len(out) + Len(L)
        /\ \A i \in 1 .. Len(out) + Len(L) : (out \o L)[i] =
             IF i <= Len(out) THEN out[i] ELSE L[i - Len(out)]
    <3> HIDE DEF L, S
    <3> QED
      BY <1>2, <2>1, ConcatProperties
  <2>3. BeginsWithList(out \o L)
    <3> HIDE DEF L
    <3> QED
      BY <1>2, <1>4, <2>1, <2>2 DEF BeginsWithList
  <2> QED
    BY <2>3 DEF Appended
<1> QED
  BY <1>3, <1>4

\* So WinHTTP reads the whole list and nothing after it.
LEMMA ListReadIs ==
  ASSUME NEW out, BeginsWithList(out)
  PROVE  ListRead(out) = AcceptData
<1> DEFINE n == Len(AcceptData)
<1>1. n \in Nat /\ AcceptData \in Seq(Type \cup {Null})
  BY AcceptDataType, SeqMonotonic
<1>2. \A i \in 1 .. n : out[i] = AcceptData[i] /\ out[i] # Null
                        /\ out[i] \in Type \cup {Null}
  <2>1. \A i \in 1 .. n : AcceptData[i] \in Type
    BY AcceptDataType, ElementOfSeq
  <2> QED
    BY <2>1, CallsAssumption DEF BeginsWithList
<1>3. n + 1 \in DOMAIN out /\ out[n + 1] = Null
  BY <1>1 DEF BeginsWithList
<1>4. Before(out, Null) = SubSeq(out, 1, n)
  BY <1>1, <1>2, <1>3, BeforeIs DEF BeginsWithList
<1>5. SubSeq(out, 1, n) = AcceptData
  <2>1. /\ SubSeq(out, 1, n) \in Seq(Type \cup {Null})
        /\ Len(SubSeq(out, 1, n)) = n
        /\ \A i \in 1 .. n : SubSeq(out, 1, n)[i] = AcceptData[i]
    BY <1>1, <1>2, SubSeqProperties
  <2> QED
    BY <1>1, <2>1, SeqEqual
<1> QED
  BY <1>3, <1>4, <1>5 DEF ListRead

\* With no types there is no array and nothing to read (winhttp.hpp:471).
LEMMA PayloadList ==
  ASSUME NEW out, out = <<>> \/ BeginsWithList(out)
  PROVE  /\ Appended(out) = <<>> \/ BeginsWithList(Appended(out))
         /\ Appended(out) \in Seq(Type \cup {Null})
         /\ ListRead(Appended(out)) = AcceptData
<1>1. CASE AcceptData # <<>>
  <2>1. BeginsWithList(Appended(out))
    BY <1>1, AppendedBegins
  <2> QED
    BY <2>1, ListReadIs DEF BeginsWithList
<1>2. CASE AcceptData = <<>> /\ BeginsWithList(out)
  <2>1. Appended(out) = out
    BY <1>2 DEF Appended
  <2> QED
    BY <1>2, <2>1, ListReadIs DEF BeginsWithList
<1>3. CASE AcceptData = <<>> /\ out = <<>>
  <2>1. Appended(out) = <<>>
    BY <1>3 DEF Appended
  <2>2. ListRead(<<>>) = <<>>
    BY DEF ListRead
  <2>3. ListRead(Appended(out)) = AcceptData
    BY <1>3, <2>1, <2>2, Zenon
  <2>4. Appended(out) \in Seq(Type \cup {Null})
    BY <2>1, EmptySeq
  <2> QED
    BY <2>1, <2>3, <2>4
<1> QED
  BY <1>1, <1>2, <1>3

(***************************************************************************)
(* The invariant.                                                          *)
(***************************************************************************)
OutputBegins == output = <<>> \/ BeginsWithList(output)

ResponseKept ==
  did.call = "string" /\ did.ok => response # None \/ handle["request"] = Null

IInv ==
  /\ TypeOK
  /\ HandlesOwned
  /\ OutcomeReported
  /\ HeaderWhole
  /\ AcceptListGiven
  /\ OutputBegins
  /\ ResponseKept

\* Nothing is open and nothing was done.
LEMMA InitInvariant == Init => IInv
<1> SUFFICES ASSUME Init
             PROVE  IInv
  OBVIOUS
<1>1. TypeOK
  BY CallsAssumption DEF Init, TypeOK
<1>2. HandlesOwned
  BY DEF Init, HandlesOwned, Owner
<1> QED
  BY <1>1, <1>2 DEF Init, IInv, OutcomeReported, HeaderWhole, AcceptListGiven,
                    OutputBegins, ResponseKept

\* Opening an object, whatever it had (winhttp.hpp:104-109, 274-282).
LEMMA ReplacesOwned ==
  ASSUME IInv, NEW o \in Owner, Replaces(o)
  PROVE  /\ handle' \in [Owner -> Handle \cup {Null}]
         /\ open' \subseteq Handle
         /\ HandlesOwned'
<1>1. PICK h \in Handle \ open :
           /\ open' = (open \ {handle[o]}) \cup {h}
           /\ handle' = [handle EXCEPT ![o] = h]
  BY DEF Replaces, OpenWithout
<1>2. handle' \in [Owner -> Handle \cup {Null}] /\ open' \subseteq Handle
  BY <1>1 DEF IInv, TypeOK
<1>3. handle'[o] = h /\ \A p \in Owner \ {o} : handle'[p] = handle[p]
  BY <1>1 DEF IInv, TypeOK
<1>4. h # Null
  BY CallsAssumption
<1>5. \A p, q \in Owner : handle'[p] = handle'[q] => p = q \/ handle'[p] = Null
  <2>1. \A p \in Owner : handle[p] # h
    BY <1>1, <1>4 DEF IInv, HandlesOwned
  <2> QED
    BY <1>3, <2>1 DEF IInv, HandlesOwned
<1>6. open' = {handle'[p] : p \in Owner} \ {Null}
  <2>1. ASSUME NEW g \in open'
        PROVE  g \in {handle'[p] : p \in Owner} \ {Null}
    BY <1>1, <1>3, <1>4, <2>1 DEF IInv, HandlesOwned
  <2>2. ASSUME NEW p \in Owner, handle'[p] # Null
        PROVE  handle'[p] \in open'
    BY <1>1, <1>3, <2>2 DEF IInv, HandlesOwned
  <2> QED
    BY <2>1, <2>2
<1> QED
  BY <1>2, <1>5, <1>6 DEF HandlesOwned

\* Opening may fail, and then the object keeps what it had.
LEMMA OpensOwned ==
  ASSUME IInv, NEW o \in Owner, Replaces(o) \/ UNCHANGED <<handle, open>>,
         NEW ok \in BOOLEAN, Did("open", ok, None)
  PROVE  /\ handle' \in [Owner -> Handle \cup {Null}]
         /\ open' \subseteq Handle
         /\ HandlesOwned'
         /\ did'.ok = ok
         /\ did'.call = "open"
         /\ did' \in [call : {"none", "open", "string", "number", "add"},
                      ok : BOOLEAN, header : Header \cup {None}]
<1>1. /\ handle' \in [Owner -> Handle \cup {Null}]
      /\ open' \subseteq Handle
      /\ HandlesOwned'
  <2>1. CASE Replaces(o)
    BY <2>1, ReplacesOwned
  <2>2. CASE UNCHANGED <<handle, open>>
    BY <2>2 DEF IInv, TypeOK, HandlesOwned
  <2> QED
    BY <2>1, <2>2
<1> QED
  BY <1>1 DEF Did

LEMMA OpenHandleInvariant ==
  ASSUME IInv, NEW o \in Owner, OpenHandle(o)
  PROVE  IInv'
<1>1. UNCHANGED <<response, text, output, opens, list>>
  BY DEF OpenHandle
<1>2. PICK ok \in BOOLEAN :
        /\ Replaces(o) \/ UNCHANGED <<handle, open>>
        /\ ec' = IF ok THEN ec ELSE "failed"
        /\ Did("open", ok, None)
  BY DEF OpenHandle, Keeps
<1>3. /\ handle' \in [Owner -> Handle \cup {Null}]
      /\ open' \subseteq Handle
      /\ HandlesOwned'
      /\ did'.ok = ok
      /\ did'.call = "open"
      /\ did' \in [call : {"none", "open", "string", "number", "add"},
                   ok : BOOLEAN, header : Header \cup {None}]
  BY <1>2, OpensOwned
<1>4. TypeOK'
  BY <1>1, <1>2, <1>3 DEF IInv, TypeOK
<1> QED
  BY <1>1, <1>2, <1>3, <1>4
  DEF IInv, OutcomeReported, HeaderWhole, AcceptListGiven, OutputBegins,
      ResponseKept, BeginsWithList

\* async_exec opens the request, also one that had a handle
\* (winhttp_asio.hpp:313-328).
LEMMA UsePayloadInvariant ==
  ASSUME IInv, UsePayload
  PROVE  IInv'
<1>1. /\ opens < MaxOpens /\ opens' = opens + 1
      /\ output' = Appended(output)
      /\ \/ response' = None /\ list' = ListRead(output')
         \/ UNCHANGED <<response, list>>
      /\ UNCHANGED text
  BY DEF UsePayload, Keeps
<1>2. PICK ok \in BOOLEAN :
        /\ Replaces("request") \/ UNCHANGED <<handle, open>>
        /\ ec' = IF ok THEN "ok" ELSE "failed"
        /\ Did("open", ok, None)
  BY DEF UsePayload, Keeps
<1>3. /\ handle' \in [Owner -> Handle \cup {Null}]
      /\ open' \subseteq Handle
      /\ HandlesOwned'
      /\ did'.ok = ok
      /\ did'.call = "open"
      /\ did' \in [call : {"none", "open", "string", "number", "add"},
                   ok : BOOLEAN, header : Header \cup {None}]
  BY <1>2, OpensOwned DEF Owner
<1>4. /\ OutputBegins'
      /\ output' \in Seq(Type \cup {Null})
      /\ ListRead(output') = AcceptData
  BY <1>1, PayloadList DEF IInv, OutputBegins
<1>5. AcceptListGiven'
  BY <1>1, <1>4 DEF IInv, AcceptListGiven
<1>6. TypeOK'
  <2>1. list' \in Seq(Type) \cup {None}
    BY <1>5, AcceptDataType DEF AcceptListGiven
  <2>2. opens' \in 0 .. MaxOpens
    BY <1>1, CallsAssumption DEF IInv, TypeOK
  <2> QED
    BY <1>1, <1>2, <1>3, <1>4, <2>1, <2>2 DEF IInv, TypeOK
<1> QED
  BY <1>2, <1>3, <1>4, <1>5, <1>6
  DEF IInv, OutcomeReported, HeaderWhole, ResponseKept

\* Closing an object (winhttp.hpp:111-123).
LEMMA CloseInvariant ==
  ASSUME IInv, NEW o \in Owner, Close(o)
  PROVE  IInv'
<1>1. /\ handle[o] # Null
      /\ open' = open \ {handle[o]}
      /\ handle' = [handle EXCEPT ![o] = Null]
      /\ response' = IF o = "request" THEN None ELSE response
      /\ UNCHANGED <<ec, text, output, opens, list, did>>
  BY DEF Close, Closed
<1>2. TypeOK'
  BY <1>1 DEF IInv, TypeOK
<1>3. handle'[o] = Null /\ \A p \in Owner \ {o} : handle'[p] = handle[p]
  BY <1>1 DEF IInv, TypeOK
<1>4. HandlesOwned'
  <2>1. \A p, q \in Owner : handle'[p] = handle'[q] => p = q \/ handle'[p] = Null
    BY <1>3 DEF IInv, HandlesOwned
  <2>2. open' = {handle'[p] : p \in Owner} \ {Null}
    <3>1. ASSUME NEW g \in open'
          PROVE  g \in {handle'[p] : p \in Owner} \ {Null}
      BY <1>1, <1>3, <3>1 DEF IInv, HandlesOwned
    <3>2. ASSUME NEW p \in Owner, handle'[p] # Null
          PROVE  handle'[p] \in open'
      BY <1>1, <1>3, <3>2 DEF IInv, HandlesOwned
    <3> QED
      BY <3>1, <3>2
  <2> QED
    BY <2>1, <2>2 DEF HandlesOwned
<1>5. HeaderWhole' /\ ResponseKept'
  BY <1>1, <1>3 DEF IInv, HeaderWhole, ResponseKept, Owner
<1> QED
  BY <1>1, <1>2, <1>4, <1>5
  DEF IInv, OutcomeReported, AcceptListGiven, OutputBegins, BeginsWithList

\* A response arrives when no header was returned yet.
LEMMA RespondsInvariant ==
  ASSUME IInv, Responds
  PROVE  IInv'
<1>1. ~(did.call = "string" /\ did.ok)
  BY DEF Responds, IInv, ResponseKept
<1>2. TypeOK'
  BY DEF Responds, IInv, TypeOK
<1> QED
  BY <1>1, <1>2
  DEF Responds, IInv, HandlesOwned, OutcomeReported, HeaderWhole,
      AcceptListGiven, OutputBegins, ResponseKept, BeginsWithList

\* A header is asked for, into whatever string (winhttp.hpp:406-419).
LEMMA GetStringInvariant ==
  ASSUME IInv, NEW h \in Header, GetString(h)
  PROVE  IInv'
<1>1. UNCHANGED <<handle, open, response, output, opens, list>>
  BY DEF GetString
<1>2. SUFFICES /\ ec' \in {"ok", "failed", "not_found"}
               /\ text' \in Seq(Header)
               /\ \E ok \in BOOLEAN : Did("string", ok, h) /\ (ok <=> ec' = "ok")
               /\ ec' = "ok" => response # None /\ text' = response[h]
  <2>1. PICK ok \in BOOLEAN : Did("string", ok, h) /\ (ok <=> ec' = "ok")
    BY <1>2
  <2>2. did'.call = "string" /\ did'.ok = ok /\ did'.header = h
    BY <2>1 DEF Did
  <2>3. TypeOK'
    BY <1>1, <1>2, <2>1 DEF IInv, TypeOK, Did
  <2> QED
    BY <1>1, <1>2, <2>1, <2>2, <2>3
    DEF IInv, HandlesOwned, OutcomeReported, HeaderWhole, AcceptListGiven,
        OutputBegins, ResponseKept, BeginsWithList
<1>3. CASE /\ ec' = IF response = None THEN "failed" ELSE "not_found"
           /\ UNCHANGED text
           /\ Did("string", FALSE, h)
  BY <1>3 DEF IInv, TypeOK
<1>4. ASSUME response # None, response[h] # None, NEW ok \in BOOLEAN,
             text' = Erased(IF ok THEN Overwritten(Resized(text, SizeOf(response[h])),
                                                   response[h])
                            ELSE Resized(text, SizeOf(response[h]))),
             ec' = SecondQuery(ok), Did("string", ok, h)
      PROVE  /\ ec' \in {"ok", "failed", "not_found"}
             /\ text' \in Seq(Header)
             /\ \E b \in BOOLEAN : Did("string", b, h) /\ (b <=> ec' = "ok")
             /\ ec' = "ok" => response # None /\ text' = response[h]
  <2> DEFINE v == response[h]
             s == Resized(text, SizeOf(v))
  <2>1. v \in Value(h)
    BY <1>4 DEF IInv, TypeOK, Responses
  <2>2. v \in Seq(Header) /\ Len(v) \in Nat
    <3>1. PICK n \in 0 .. MaxLength : v \in [1 .. n -> {h}]
      BY <2>1 DEF Value
    <3>2. n \in Nat /\ v \in [1 .. n -> Header]
      BY <3>1, CallsAssumption
    <3> QED
      BY <3>2, SeqDef
  <2>3. s \in Seq(Header \cup {Nul}) /\ Len(v) < Len(s)
    <3>1. SizeOf(v) \in Nat /\ Len(v) < SizeOf(v)
      BY <2>2 DEF SizeOf
    <3>2. \A i \in 1 .. Len(text) : text[i] \in Header
      BY ElementOfSeq DEF IInv, TypeOK
    <3>3. text \in Seq(Header) /\ Len(text) \in Nat
      BY DEF IInv, TypeOK
    <3>4. s \in [1 .. SizeOf(v) -> Header \cup {Nul}]
      BY <3>1, <3>2, <3>3 DEF Resized
    <3> QED
      BY <3>1, <3>4, SeqDef
  <2> HIDE DEF s, v
  <2>4. ec' = IF ok THEN "ok" ELSE "failed"
    BY <1>4 DEF SecondQuery
  <2>5. CASE ok
    <3>1. text' = Erased(Overwritten(s, v))
      BY <1>4, <2>5 DEF s, v
    <3>2. text' = v
      BY <2>1, <2>3, <3>1, ValueRecovered
    <3> QED
      BY <1>4, <2>2, <2>4, <2>5, <3>2 DEF v
  <2>6. CASE ~ok
    <3>1. text' = Before(s, Nul)
      BY <1>4, <2>6 DEF s, v, Erased
    <3>2. text' \in Seq(Header)
      BY <2>3, <3>1, BeforeType
    <3> QED
      BY <1>4, <2>4, <2>6, <3>2
  <2> QED
    BY <2>5, <2>6
<1> QED
  BY <1>3, <1>4 DEF GetString

LEMMA StepInvariant == IInv /\ [Next]_vars => IInv'
<1> SUFFICES ASSUME IInv, [Next]_vars
             PROVE  IInv'
  OBVIOUS
<1>1. ASSUME NEW call \in {"number", "add"}, OneCall(call)
      PROVE  IInv'
  <2>1. PICK ok \in BOOLEAN : ec' = (IF ok THEN ec ELSE "failed") /\ Did(call, ok, None)
    BY <1>1 DEF OneCall
  <2>2. UNCHANGED <<handle, open, response, text, output, opens, list>>
    BY <1>1 DEF OneCall
  <2>3. did'.call = call /\ did'.ok = ok
    BY <2>1 DEF Did
  <2>4. TypeOK'
    BY <2>1, <2>2 DEF IInv, TypeOK, Did
  <2> QED
    BY <2>1, <2>2, <2>3, <2>4
    DEF IInv, HandlesOwned, OutcomeReported, HeaderWhole, AcceptListGiven,
        OutputBegins, ResponseKept, BeginsWithList
<1>2. CASE Clears
  <2>1. TypeOK'
    BY <1>2 DEF Clears, IInv, TypeOK
  <2> QED
    BY <1>2, <2>1
    DEF Clears, IInv, HandlesOwned, OutcomeReported, HeaderWhole,
        AcceptListGiven, OutputBegins, ResponseKept, BeginsWithList
<1>3. CASE UNCHANGED vars
  BY <1>3
  DEF vars, IInv, TypeOK, HandlesOwned, OutcomeReported, HeaderWhole,
      AcceptListGiven, OutputBegins, ResponseKept, BeginsWithList
<1> QED
  BY <1>1, <1>2, <1>3, OpenHandleInvariant, CloseInvariant,
     UsePayloadInvariant, RespondsInvariant, GetStringInvariant DEF Next

LEMMA Invariance == Spec => []IInv
  BY InitInvariant, StepInvariant, PTL DEF Spec

\* The types; in particular the caller's string never keeps a null.
THEOREM TypeCorrect == Spec => []TypeOK
<1>1. IInv => TypeOK
  BY DEF IInv
<1> QED
  BY <1>1, Invariance, PTL

\* No HINTERNET leaks and none is closed twice, through opening again,
\* failing and closing in any order (winhttp.hpp:104-123).
THEOREM HandlesOwnedThm == Spec => []HandlesOwned
<1>1. IInv => HandlesOwned
  BY DEF IInv
<1> QED
  BY <1>1, Invariance, PTL

\* No failure is taken for a success, although an error code is only written
\* by calls that fail (winhttp.hpp:316, 403-416).
THEOREM OutcomeReportedThm == Spec => []OutcomeReported
<1>1. IInv => OutcomeReported
  BY DEF IInv
<1> QED
  BY <1>1, Invariance, PTL

\* A header that is returned is the whole header and nothing else
\* (winhttp.hpp:414-419).
THEOREM HeaderWholeThm == Spec => []HeaderWhole
<1>1. IInv => HeaderWhole
  BY DEF IInv
<1> QED
  BY <1>1, Invariance, PTL

\* However often a payload is used, WinHTTP reads the same accept list
\* (winhttp.hpp:470-479).
THEOREM AcceptListGivenThm == Spec => []AcceptListGiven
<1>1. IInv => AcceptListGiven
  BY DEF IInv
<1> QED
  BY <1>1, Invariance, PTL
=============================================================================
