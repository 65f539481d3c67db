-------------------------- MODULE WinHttpTransport --------------------------
(***************************************************************************)
(* The asynchronous steps of one request as the composed operations see    *)
(* them: AsyncStep, together with the bytes that WinHTTP moves.  WinHTTP   *)
(* itself is outside the repository; what it may do with a step is what    *)
(* the code written against it relies on.                                  *)
(***************************************************************************)
EXTENDS WinHttpDefs, ByteSeqs

CONSTANT MaxBody    \* bound: the longest body, in bytes

ASSUME MaxBodyAssumption == MaxBody \in Nat

VARIABLES
  phase, op, outcome, got,   \* of AsyncStep
  resumed,   \* the composed operation's operator() has been given got
  body,      \* the length of the response body
  consumed,  \* bytes of it WinHttpReadData has handed out
  asked,     \* the length passed with the running read or write
  area,      \* the memory passed with the last read or write, as it is now
  sent       \* the bytes of the request body WinHTTP has taken

transportVars ==
  <<phase, op, outcome, got, resumed, body, consumed, asked, area,
    sent>>

Step == INSTANCE AsyncStep

TransportTypeOK ==
  /\ Step!TypeOK
  /\ resumed \in BOOLEAN
  /\ body \in 0 .. MaxBody
  /\ consumed \in 0 .. body
  /\ asked \in 0 .. MaxBody + 1
  /\ area \in Seq(0 .. MaxBody)
  /\ sent \in Seq(1 .. MaxBody)

TransportInit ==
  /\ Step!Init
  /\ resumed = FALSE
  /\ body = 0
  /\ consumed = 0
  /\ asked = 0
  /\ area = <<>>
  /\ sent = <<>>

\* A step without memory of its own is started.
Start(o) ==
  /\ Step!Start(o)
  /\ UNCHANGED <<body, consumed, asked, area, sent>>

\* async_read_data(buffer, n, ...) into a buffer of size bytes.
StartRead(size, n) ==
  /\ Step!Start("read_complete")
  /\ asked' = n
  /\ area' = Fresh(size)
  /\ UNCHANGED <<body, consumed, sent>>

\* async_write_data(buffer, n, ...) of memory that holds m.
StartWrite(m, n) ==
  /\ Step!Start("write_complete")
  /\ asked' = n
  /\ area' = m
  /\ UNCHANGED <<body, consumed, sent>>

\* The lengths a successful step can report: available bytes are announced
\* one or more at a time and zero means the end of the body; a read or a
\* write moves at least one byte of those it was asked for, if it can.
Lengths ==
  LET UpTo(n) == IF n = 0 THEN {0} ELSE 1 .. Lesser(n, MaxLen)
  IN  CASE op = "data_available" -> UpTo(body - consumed)
        [] op = "read_complete"  -> UpTo(Lesser(asked, body - consumed))
        [] op = "write_complete" -> UpTo(asked)
        [] OTHER                 -> {0}

\* WinHTTP is done with the running step.  One that fails moves nothing.
Settle(r) ==
  /\ Step!Settle(r)
  /\ r.ec = NoError => r.len \in Lengths
  /\ IF op = "read_complete"
     THEN /\ consumed' = consumed + r.len
          /\ area' = Overwrite(area, Bytes(consumed, consumed + r.len))
     ELSE UNCHANGED <<consumed, area>>
  /\ sent' = IF op = "write_complete" THEN sent \o SubSeq(area, 1, r.len)
             ELSE sent
  /\ UNCHANGED <<body, asked, resumed>>

\* The executor runs the handler: operator()(self, ec, len) is entered.
Resume ==
  /\ Step!Deliver
  /\ resumed' = TRUE
  /\ UNCHANGED <<body, consumed, asked, area, sent>>

\* The connection is used for a new request.
NewResponse ==
  /\ body' \in 0 .. MaxBody
  /\ consumed' = 0
  /\ sent' = <<>>
=============================================================================
