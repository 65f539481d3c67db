---------------------------- MODULE MCHttpServer ----------------------------
(***************************************************************************)
(* HttpServer for TLC.  Two requests, one with long headers, and bodies of *)
(* up to three bytes read two at a time: none, a short one, one that just  *)
(* fills the buffer, and one that takes a full and a short read.  With two *)
(* requests under way a third object receives.                             *)
(***************************************************************************)
EXTENDS HttpServer
=============================================================================
