-------------------------- MODULE MCHttpRegistration --------------------------
(***************************************************************************)
(* HttpRegistration for TLC.  Two URLs, so that objects can agree or       *)
(* differ, and three objects: with two of them at one URL the third can be *)
(* in any relation to both.                                                *)
(***************************************************************************)
EXTENDS HttpRegistration
=============================================================================
