--------------------------- MODULE ByteSeqsProofs ---------------------------
(***************************************************************************)
(* Facts about bytes and memory that the proofs about WinHTTP and about    *)
(* HTTP.sys rest on, for bodies and buffers of any length.                 *)
(***************************************************************************)
EXTENDS ByteSeqs, SequenceTheorems, TLAPS

\* What Bytes is, as a sequence.
LEMMA BytesSeq ==
  ASSUME NEW m \in Nat, NEW n \in Nat, m <= n
  PROVE  /\ Bytes(m, n) \in Seq(1 .. n)
         /\ Bytes(m, n) \in Seq(Nat)
         /\ Len(Bytes(m, n)) = n - m
         /\ \A i \in 1 .. n - m : Bytes(m, n)[i] = m + i
  BY DEF Bytes

LEMMA BytesNone == ASSUME NEW n \in Nat PROVE Bytes(n, n) = <<>>
  BY DEF Bytes

\* A sequence that is as long as a range of bytes and has its elements.
LEMMA BytesEqual ==
  ASSUME NEW s \in Seq(Nat), NEW m \in Nat, NEW n \in Nat, m <= n,
         Len(s) = n - m, \A i \in 1 .. n - m : s[i] = m + i
  PROVE  s = Bytes(m, n)
<1>1. s \in [1 .. n - m -> Nat]
  BY LenProperties
<1> QED
  BY <1>1 DEF Bytes

\* Consecutive parts of a body join: what a commit of the next bytes does.
LEMMA BytesJoin ==
  ASSUME NEW k \in Nat, NEW m \in Nat, NEW n \in Nat, k <= m, m <= n
  PROVE  Bytes(k, m) \o Bytes(m, n) = Bytes(k, n)
<1>1. /\ Bytes(k, m) \in Seq(Nat)
      /\ Len(Bytes(k, m)) = m - k
      /\ \A i \in 1 .. m - k : Bytes(k, m)[i] = k + i
  BY BytesSeq
<1>2. /\ Bytes(m, n) \in Seq(Nat)
      /\ Len(Bytes(m, n)) = n - m
      /\ \A i \in 1 .. n - m : Bytes(m, n)[i] = m + i
  BY BytesSeq
<1> DEFINE s == Bytes(k, m) \o Bytes(m, n)
<1>3. /\ s \in Seq(Nat)
      /\ Len(s) = Len(Bytes(k, m)) + Len(Bytes(m, n))
      /\ \A i \in 1 .. Len(Bytes(k, m)) + Len(Bytes(m, n)) :
           s[i] = IF i <= Len(Bytes(k, m)) THEN Bytes(k, m)[i]
                  ELSE Bytes(m, n)[i - Len(Bytes(k, m))]
  BY <1>1, <1>2, ConcatProperties
<1> HIDE DEF s
<1>4. Len(s) = n - k /\ \A i \in 1 .. n - k : s[i] = k + i
  <2>1. Len(s) = n - k
    BY <1>1, <1>2, <1>3
  <2>2. ASSUME NEW i \in 1 .. n - k
        PROVE  s[i] = k + i
    <3>1. s[i] = IF i <= m - k THEN Bytes(k, m)[i]
                 ELSE Bytes(m, n)[i - (m - k)]
      BY <1>1, <1>2, <1>3
    <3>2. CASE i <= m - k
      BY <1>1, <3>1, <3>2
    <3>3. CASE ~(i <= m - k)
      <4>1. i - (m - k) \in 1 .. n - m
        BY <3>3
      <4> QED
        BY <1>2, <3>1, <3>3, <4>1
    <3> QED
      BY <3>2, <3>3
  <2> QED
    BY <2>1, <2>2
<1>5. s = Bytes(k, n)
  <2>1. s \in Seq(Nat) /\ k <= n
    BY <1>3
  <2> QED
    BY <1>4, <2>1, BytesEqual
<1> QED
  BY <1>5 DEF s

\* The beginning of a part of a body is a part of that body.
LEMMA BytesBeginning ==
  ASSUME NEW m \in Nat, NEW n \in Nat, NEW j \in Nat, m + j <= n
  PROVE  SubSeq(Bytes(m, n), 1, j) = Bytes(m, m + j)
<1> DEFINE s == SubSeq(Bytes(m, n), 1, j)
<1>1. \A i \in 1 .. j : Bytes(m, n)[i] = m + i /\ m + i \in Nat
  BY BytesSeq
<1>2. /\ s \in Seq(Nat)
      /\ Len(s) = IF 1 <= j THEN j - 1 + 1 ELSE 0
      /\ \A i \in 1 .. j - 1 + 1 : s[i] = Bytes(m, n)[1 + i - 1]
  BY <1>1, SubSeqProperties
<1> HIDE DEF s
<1>3. Len(s) = j /\ \A i \in 1 .. j : s[i] = m + i
  BY <1>1, <1>2
<1>4. s = Bytes(m, m + j)
  <2>1. m + j \in Nat /\ m <= m + j /\ (m + j) - m = j
    OBVIOUS
  <2> QED
    BY <1>2, <1>3, <2>1, BytesEqual
<1> QED
  BY <1>4 DEF s

\* WinHTTP writes the bytes from m to n into memory that holds them: the
\* memory keeps its length and begins with those bytes.
LEMMA OverwriteBegins ==
  ASSUME NEW S, NEW a \in Seq(S), NEW m \in Nat, NEW n \in Nat, m <= n,
         n - m <= Len(a), 1 .. n \subseteq S
  PROVE  /\ Overwrite(a, Bytes(m, n)) \in Seq(S)
         /\ Len(Overwrite(a, Bytes(m, n))) = Len(a)
         /\ SubSeq(Overwrite(a, Bytes(m, n)), 1, n - m) = Bytes(m, n)
<1> DEFINE b == Bytes(m, n)
           t == SubSeq(a, Len(b) + 1, Len(a))
<1>1. /\ b \in Seq(S)
      /\ Len(b) = n - m
      /\ \A i \in 1 .. n - m : b[i] = m + i
  BY BytesSeq, SeqMonotonic
<1>2. t \in Seq(S) /\ Len(t) = Len(a) - (n - m)
  <2> HIDE DEF b
  <2>1. \A i \in Len(b) + 1 .. Len(a) : a[i] \in S
    BY <1>1, ElementOfSeq
  <2> QED
    BY <1>1, <2>1, SubSeqProperties
<1>3. /\ b \o t \in Seq(S)
      /\ Len(b \o t) = Len(b) + Len(t)
      /\ \A i \in 1 .. Len(b) + Len(t) :
           (b \o t)[i] = IF i <= Len(b) THEN b[i] ELSE t[i - Len(b)]
  <2> HIDE DEF b, t
  <2> QED
    BY <1>1, <1>2, ConcatProperties
<1>4. SubSeq(b \o t, 1, n - m) = b
  <2> DEFINE w == b \o t
  <2>1. \A i \in 1 .. n - m : w[i] = m + i /\ w[i] \in Nat
    <3> HIDE DEF b, t
    <3> QED
      BY <1>1, <1>2, <1>3
  <2> HIDE DEF w
  <2>2. /\ SubSeq(w, 1, n - m) \in Seq(Nat)
        /\ Len(SubSeq(w, 1, n - m)) = n - m
        /\ \A i \in 1 .. n - m : SubSeq(w, 1, n - m)[i] = w[i]
    BY <2>1, SubSeqProperties
  <2>3. SubSeq(w, 1, n - m) = Bytes(m, n)
    BY <2>1, <2>2, BytesEqual
  <2> QED
    BY <2>3 DEF w
<1>5. Len(b \o t) = Len(a)
  <2> HIDE DEF b, t
  <2> QED
    BY <1>1, <1>2, <1>3
<1> QED
  BY <1>3, <1>4, <1>5 DEF Overwrite

LEMMA FreshSeq ==
  ASSUME NEW n \in Nat
  PROVE  Fresh(n) \in Seq({0}) /\ Len(Fresh(n)) = n
  BY DEF Fresh
=============================================================================
