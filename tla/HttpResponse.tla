----------------------------- MODULE HttpResponse -----------------------------
(***************************************************************************)
(* simple_response: the parts of an answer that a user's handler sets, and *)
(* the list of chunks get_response gives HTTP.sys.  Headers are replaced   *)
(* on each call of get_response; chunks are appended.                      *)
(*                                                                         *)
(* The contents of a part are a model value, or Empty.                     *)
(***************************************************************************)
EXTENDS Naturals, Sequences

CONSTANTS
  Text,    \* what a part may contain
  Empty    \* no contents, which makes no chunk

Content == Text \cup {Empty}
Chunk == {"body", "trailers"} \X Text

\* An object: what has been set, and data_chunks_.
Response == [body : Content, trailers : Content, chunks : Seq(Chunk)]

\* simple_response().
NewResponse == [body |-> Empty, trailers |-> Empty, chunks |-> <<>>]

\* set_body and add_trailer.
SetBody(resp, t) == [resp EXCEPT !.body = t]
AddTrailer(resp, t) == [resp EXCEPT !.trailers = t]

\* The chunk of a part, if there is something in it.
ChunkOf(part, t) == IF t = Empty THEN <<>> ELSE <<<<part, t>>>>

\* What an answer made of the parts of resp consists of.
Parts(resp) == ChunkOf("body", resp.body) \o ChunkOf("trailers", resp.trailers)

\* get_response: the chunks are appended to what is there.
GetResponse(resp) == [resp EXCEPT !.chunks = @ \o Parts(resp)]
=============================================================================
