-------------------------- MODULE MCWinHttpRequest --------------------------
(***************************************************************************)
(* WinHttpRequest for TLC.  No counter grows in it, so only the longest    *)
(* transfer is bounded: 0, 1 and 2 tell an empty, a short and a full one.  *)
(***************************************************************************)
EXTENDS WinHttpRequest
=============================================================================
