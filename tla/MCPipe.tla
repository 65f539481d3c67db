------------------------------- MODULE MCPipe -------------------------------
(***************************************************************************)
(* PipeServer for TLC.  Each client makes one call, so an instance for     *)
(* each of them and one for the listener are all that is ever needed.      *)
(***************************************************************************)
EXTENDS PipeServer
=============================================================================
