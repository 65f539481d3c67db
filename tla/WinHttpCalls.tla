----------------------------- MODULE WinHttpCalls -----------------------------
(***************************************************************************)
(* The synchronous calls of a WinHTTP client: a session, a connection and  *)
(* a request are opened and closed, each in an object of its own, headers  *)
(* of the response are queried, a payload with its accept_types is used    *)
(* again and again.  The caller passes one error code and one string to    *)
(* all of them, as the tests do, and may go on after an error.             *)
(*                                                                         *)
(* A call returns before the next is made, so each is one action.  What    *)
(* WinHTTP makes of it is outside the repository: it may fail.             *)
(***************************************************************************)
EXTENDS Naturals, Sequences, FiniteSets

CONSTANTS
  Handle,     \* bound: the HINTERNETs there can be
  Null,       \* no handle; also the pointer that ends a list
  Header,     \* the headers a response may have; one is made of its own letter
  Nul,        \* the character that ends a string
  MaxLength,  \* bound: the longest value of a header
  Type,       \* the media types of the payload's accept list
  MaxOpens,   \* bound: how often the payload is used
  None        \* no value yet

ASSUME CallsAssumption ==
  /\ Null \notin Handle \cup Type
  /\ Nul \notin Header
  /\ MaxLength \in Nat
  /\ MaxOpens \in Nat
  /\ IsFiniteSet(Type)

Owner == {"session", "connection", "request"}

VARIABLES
  handle,    \* of an object: its handle_
  open,      \* the HINTERNETs that WinHTTP has open
  response,  \* the headers received, or None
  ec,        \* the caller's error code
  text,      \* the caller's string
  output,    \* accept_types::output_
  opens,     \* how often the payload was used
  list,      \* the accept list WinHTTP read when it last opened a request
  did        \* the last call, whether WinHTTP did it, and for which header

vars == <<handle, open, response, ec, text, output, opens, list, did>>

\* The values of a header, and the accept list in the order it was given.
Value(h) == UNION {[1 .. n -> {h}] : n \in 0 .. MaxLength}
AcceptData == CHOOSE s \in [1 .. Cardinality(Type) -> Type] :
                \A i, j \in DOMAIN s : s[i] = s[j] => i = j

Responses ==
  {f \in [Header -> UNION {Value(h) : h \in Header} \cup {None}] :
     \A h \in Header : f[h] \in Value(h) \cup {None}}

TypeOK ==
  /\ handle \in [Owner -> Handle \cup {Null}]
  /\ open \subseteq Handle
  /\ response \in Responses \cup {None}
  /\ ec \in {"ok", "failed", "not_found"}
  /\ text \in Seq(Header)
  /\ output \in Seq(Type \cup {Null})
  /\ opens \in 0 .. MaxOpens
  /\ list \in Seq(Type) \cup {None}
  /\ did \in [call : {"none", "open", "string", "number", "add"},
              ok : BOOLEAN, header : Header \cup {None}]

Init ==
  /\ handle = [o \in Owner |-> Null]
  /\ open = {}
  /\ response = None
  /\ ec = "ok"
  /\ text = <<>>
  /\ output = <<>>
  /\ opens = 0
  /\ list = None
  /\ did = [call |-> "none", ok |-> TRUE, header |-> None]

Did(call, ok, h) == did' = [call |-> call, ok |-> ok, header |-> h]

(***************************************************************************)
(* Handles.                                                                *)
(***************************************************************************)

\* Faulty variant: the handle that was there is not closed.
StaysOpen(o) == open

\* assign closes the handle the object has.
OpenWithout(o) == open \ {handle[o]}

\* WinHttpOpen, WinHttpConnect or WinHttpOpenRequest gave a handle, which is
\* assigned to the object.  The second and the third need the handle of the
\* object before.
Replaces(o) ==
  \E h \in Handle \ open :
    /\ o = "connection" => handle["session"] # Null
    /\ o = "request" => handle["connection"] # Null
    /\ open' = OpenWithout(o) \cup {h}
    /\ handle' = [handle EXCEPT ![o] = h]

\* It gave none, and the object keeps what it had.
Keeps ==
  /\ ec' = "failed"
  /\ Did("open", FALSE, None)
  /\ UNCHANGED <<handle, open>>

OpenHandle(o) ==
  /\ o # "request"
  /\ \/ Replaces(o) /\ UNCHANGED ec /\ Did("open", TRUE, None)
     \/ Keeps
  /\ UNCHANGED <<response, text, output, opens, list>>

\* close() leaves the object without a handle.
Closed(o) == [handle EXCEPT ![o] = Null]

\* close, or destruction.
Close(o) ==
  /\ handle[o] # Null
  /\ open' = open \ {handle[o]}
  /\ handle' = Closed(o)
  /\ response' = IF o = "request" THEN None ELSE response
  /\ UNCHANGED <<ec, text, output, opens, list, did>>

(***************************************************************************)
(* The accept list of a payload.                                           *)
(***************************************************************************)
FirstAt(s, x) ==
  CHOOSE i \in DOMAIN s : s[i] = x /\ \A j \in 1 .. i - 1 : s[j] # x

\* The elements of s before the first x.
Before(s, x) ==
  IF \E i \in DOMAIN s : s[i] = x THEN SubSeq(s, 1, FirstAt(s, x) - 1) ELSE s

\* Faulty variant: the null is put between two lists, not after each.
AppendedBetween(out) ==
  (IF out = <<>> THEN <<>> ELSE Append(out, Null)) \o AcceptData

\* accept_types::get: the pointers are appended to those of earlier calls.  A
\* payload without types has no array.
Appended(out) ==
  IF AcceptData = <<>> THEN out ELSE out \o Append(AcceptData, Null)

\* What WinHTTP makes of the list: it reads up to a null, and does not stop
\* where there is none; without an array it reads nothing.
ListRead(out) ==
  IF \E i \in DOMAIN out : out[i] = Null THEN Before(out, Null)
  ELSE out \o out

\* async_exec up to the send, with an error code of its own, which the handler
\* is given.  When the request is open no response is there, and setting the
\* callback or an option may still fail: an error with the new handle in place
\* of the old one.
UsePayload ==
  /\ opens < MaxOpens
  /\ opens' = opens + 1
  /\ output' = Appended(output)
  /\ \/ /\ Replaces("request")
        /\ response' = None
        /\ list' = ListRead(output')
        /\ \E ok \in BOOLEAN : /\ ec' = IF ok THEN "ok" ELSE "failed"
                               /\ Did("open", ok, None)
     \/ Keeps /\ UNCHANGED <<response, list>>
  /\ UNCHANGED text

\* The request is sent and the headers of a response arrive.
Responds ==
  /\ handle["request"] # Null
  /\ response = None
  /\ response' \in Responses
  /\ UNCHANGED <<handle, open, ec, text, output, opens, list, did>>

(***************************************************************************)
(* Headers.                                                                *)
(***************************************************************************)

\* string.resize(n).
Resized(s, n) == [i \in 1 .. n |-> IF i <= Len(s) THEN s[i] ELSE Nul]

\* A value and its terminating character, written over the beginning of s.
Overwritten(s, v) ==
  [i \in DOMAIN s |-> IF i <= Len(v) THEN v[i]
                      ELSE IF i = Len(v) + 1 THEN Nul ELSE s[i]]

\* What the first query says the buffer must have: bytes, two for a
\* character, with the terminating one.
SizeOf(v) == 2 * (Len(v) + 1)

\* Faulty variant: only the size is cut to characters, nothing is erased.
ErasedHalf(s) == SubSeq(s, 1, Len(s) \div 2)

\* data.erase(find(begin, end, '\0'), end).
Erased(s) == Before(s, Nul)

\* Faulty variant: the error code is cleared after the second query.
SecondQueryUnseen(ok) == "ok"

\* The code after the second query, before which it was cleared.
SecondQuery(ok) == IF ok THEN "ok" ELSE "failed"

\* get_string_header_helper.  Without a buffer the query tells the size, as
\* an error; any other error goes to the caller, and the string stays.
GetString(h) ==
  /\ \/ /\ ec' = IF response = None THEN "failed" ELSE "not_found"
        /\ response # None => response[h] = None
        /\ UNCHANGED text
        /\ Did("string", FALSE, h)
     \/ /\ response # None
        /\ response[h] # None
        /\ \E ok \in BOOLEAN :
             LET s == Resized(text, SizeOf(response[h]))
             IN  /\ text' = Erased(IF ok THEN Overwritten(s, response[h])
                                   ELSE s)
                 /\ ec' = SecondQuery(ok)
                 /\ Did("string", ok, h)
  /\ UNCHANGED <<handle, open, response, output, opens, list>>

\* get_status_code and add_headers: one call, which touches the error code
\* only if it fails.
OneCall(call) ==
  /\ \E ok \in BOOLEAN :
       /\ ok => IF call = "number" THEN response # None
                ELSE handle["request"] # Null
       /\ ec' = IF ok THEN ec ELSE "failed"
       /\ Did(call, ok, None)
  /\ UNCHANGED <<handle, open, response, text, output, opens, list>>

\* The caller begins with a new error code.
Clears ==
  /\ ec' = "ok"
  /\ did' = [call |-> "none", ok |-> TRUE, header |-> None]
  /\ UNCHANGED <<handle, open, response, text, output, opens, list>>

Next ==
  \/ \E o \in Owner : OpenHandle(o) \/ Close(o)
  \/ UsePayload \/ Responds \/ Clears
  \/ \E h \in Header : GetString(h)
  \/ OneCall("number") \/ OneCall("add")

Spec == Init /\ [][Next]_vars

(***************************************************************************)
(* Properties.                                                             *)
(***************************************************************************)

\* No call reports a success that was none, with whatever error code it was
\* called; and the string helpers, which clear the code between their two
\* queries, report just their own outcome (winhttp.hpp:403-416).  A number or
\* a header that was added leaves an old error in place.
OutcomeReported ==
  /\ ec = "ok" => did.ok
  /\ did.call = "string" /\ did.ok => ec = "ok"

\* A string that is reported to be a header is all of it and nothing else,
\* whatever the string held before and although it was made too long for it
\* (winhttp.hpp:411-419).
HeaderWhole ==
  did.call = "string" /\ ec = "ok" =>
    response = None \/ text = response[did.header]

\* Each open HINTERNET belongs to one object and each object's handle is
\* open, through opening again, failing and closing in any order: none leaks
\* and none is closed twice, which close asserts (winhttp.hpp:104-120).
HandlesOwned ==
  /\ open = {handle[o] : o \in Owner} \ {Null}
  /\ \A o, p \in Owner : handle[o] = handle[p] => o = p \/ handle[o] = Null

\* A payload that is used again passes the same accept list, although the
\* array it is taken from has grown (winhttp.hpp:470-479).
AcceptListGiven == list # None => list = AcceptData
=============================================================================
