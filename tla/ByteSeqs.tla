------------------------------ MODULE ByteSeqs ------------------------------
(***************************************************************************)
(* Bodies and memory as sequences of bytes, for the modules about WinHTTP  *)
(* and about HTTP.sys.  A byte of a body is named by its position in it,   *)
(* from 1, so that a lost, repeated or reordered byte shows; 0 is what     *)
(* uninitialised memory holds.                                             *)
(***************************************************************************)
EXTENDS Naturals, Sequences

Lesser(m, n) == IF m < n THEN m ELSE n

\* The bytes of a body from one position up to another.
Bytes(from, to) == [i \in 1 .. to - from |-> from + i]

\* n bytes of fresh memory.
Fresh(n) == [i \in 1 .. n |-> 0]

\* The memory m after s was written at its start.  A write past the end of m
\* makes it longer, which the properties look for.
Overwrite(m, s) == s \o SubSeq(m, Len(s) + 1, Len(m))
=============================================================================
