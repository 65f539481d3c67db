---------------------------- MODULE MCWinHttpCalls ----------------------------
(***************************************************************************)
(* WinHttpCalls for TLC.  Handles for the three objects and one more, as   *)
(* an object that is opened again has two for a moment; two headers, of no *)
(* letter, of one and of two, so that a value may be shorter and longer    *)
(* than what the string held; two media types, used twice.                 *)
(***************************************************************************)
EXTENDS WinHttpCalls
=============================================================================
