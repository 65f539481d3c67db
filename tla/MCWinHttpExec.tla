---------------------------- MODULE MCWinHttpExec ----------------------------
(***************************************************************************)
(* WinHttpExec for TLC.  A body of three bytes, at most two at a time,     *)
(* needs several rounds, short reads and a last round of each length.      *)
(***************************************************************************)
EXTENDS WinHttpExec
=============================================================================
