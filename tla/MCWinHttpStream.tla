--------------------------- MODULE MCWinHttpStream ---------------------------
(***************************************************************************)
(* WinHttpStream for TLC.  Bodies of up to three bytes moved at most two   *)
(* at a time, with buffers shorter than, as long as and longer than both   *)
(* what is announced and what is left.                                     *)
(***************************************************************************)
EXTENDS WinHttpStream
=============================================================================
