# winasio: a TLA+ verification project

winasio is a header-only C++ library that gives Windows APIs the shape of
boost::asio: WinHTTP (`include/boost/winasio/winhttp`), HTTP.sys
(`include/boost/winasio/http`) and named pipes
(`include/boost/winasio/named_pipe`). Paths in this file are relative to the
repository.

The library has little state of its own and few algorithms. What can go wrong
in it is the order of things: a callback of WinHTTP on another thread against
the handler that waits for it, a client that comes and goes between two system
calls of an accept, a request whose headers take two receives while its client
hangs up. That is what is modelled here.

## The system

### WinHTTP client

| part | state | operations |
|---|---|---|
| request handle, `winhttp_asio.hpp` | the HINTERNET; `asio_request_context`: `state_`, `step_event`, `step_ec`, `step_len` | `managed_open`, `async_send`, `async_recieve_response`, `async_query_data_available`, `async_read_data`, `async_write_data`, `close`, destruction; `BasicAsioAsyncCallback` |
| `async_exec`, `async_read_body` (`client.hpp`, `winhttp_asio.hpp`) | `state_` of the two nested operations, the caller's dynamic buffer | one run of `operator()` per completed step |
| stream handle, `winhttp_stream.hpp` | `state_`, `size_` | `async_read_some`, `async_write_some`, used through `boost::asio::async_read` and `async_write` |
| session, connection, request (`winhttp.hpp`) | a handle, or none | `open`, `connect`, `assign`, `close`, destruction |
| header helpers (`winhttp.hpp`) | the caller's error code and string; `accept_types::output_` | `get_status_code`, `get_version` and the like (ask for the size, then for the value), `add_headers`, `accept_types::get` |
| URL parsing, error strings (`winhttp.hpp`) | - | synchronous calls |

One request handle runs one step at a time. A step is started on the
**io thread** (`set_state`, `step_reset`, the WinHTTP call, then `async_wait` on
the event with the handler). The result comes on a **WinHTTP thread**, where the
callback stores the code, stores the length and sets the event. It may do so
before the handler has been registered, while it is being registered, or long
after. The system's **wait thread** sees the event and posts the handler to the
executor. All three work on the same `ctx_`, a member of the request object
whose raw address WinHTTP holds. Nothing in it is locked: correctness rests on
the order of the stores and on one step being outstanding at a time.

What makes it correct: a step's handler runs once, after its own result is
complete and with that result; no result and no signal of one step reaches
another, also when the handle is closed or opened again in between; WinHTTP
never uses a destroyed context; whatever is chained out of steps delivers the
whole body, in order, and ends with the first error.

The synchronous calls share what the caller passes on: one error code, which most
of them write only when they fail, one string, one payload that is used for several
requests. What makes them correct: a failure is never taken for a success, a
header comes back whole, a handle is closed once, and the second use of a payload
says what the first did.

### Named pipes

| part | state | operations |
|---|---|---|
| `named_pipe.hpp` | a handle; the endpoint | `server_create`, `async_server_connect`, `connect`, `shutdown`, `close`, reads and writes of the base class |
| `named_pipe_acceptor.hpp` | its own pipe, for the movable form | both forms of `async_accept` |
| `named_pipe_client_details.hpp` | - | `client_connect`: CreateFile, WaitNamedPipe, SetNamedPipeHandleState |
| `examples/named_pipe/*` | listener, sessions, the deadline of the HTTP example | accept handlers or, in `echoserver_coro.cpp`, coroutines; session handlers |

There is no listening object as with sockets: an acceptor creates an instance of
the pipe, a client may connect to it at once, and only then
`ConnectNamedPipe` asks for that client. An instance is handed to a session
by moving the pipe object, and the next one is created by the handler. So the
name of the pipe lives only as long as some instance does, and a client can come,
and go, before the server has asked. When `CreateNamedPipe` fails, `async_accept`
calls its handler itself. The listening coroutine, in contrast, ends with the first
accept that fails, as an exception nobody sees. `shutdown` calls `FlushFileBuffers`, which blocks a
thread of the io_context until the client has read.

What makes it correct: every handle has one owner; the server never stops
accepting; a client that calls finds the pipe, and is answered or told why not;
no reply is thrown away; no session outlives its client or its deadline.

### HTTP.sys server

| part | state | operations |
|---|---|---|
| request queue, `basic_http_queue_handle.hpp` | a handle | `async_recieve_request`, `async_recieve_body`, `async_send_response`, `shutdown` |
| composed operations, `http_asio.hpp` | the dynamic buffer and its prepared size | `async_receive` (starts again with the length HTTP.sys asks for), `async_receive_body` (reads up to a hint at a time until the end) |
| `http_connection`, `temp.hpp` | one request and one response per object | receive, receive the body, the user's handler, send; starts the next object |
| `basic_http_controller.hpp` | the table of handlers; a request context per request | the same, receiving the next request first |
| `simple_response`, `convert.hpp` | the body and trailers that were set; the list of chunks | `set_body`, `add_trailer`, `get_response`, which appends to the list |
| `basic_http_url.hpp`, `http_url_handler.hpp`, `http_initializer.hpp` | `session_id_`, `group_id_`; in HTTP.sys the sessions, groups and URLs | constructors and destructors, which can only assert that a call did not fail |

What makes it correct: one object receives at any time; a request that HTTP.sys
has given away belongs to one object until it is answered; the user's handler
sees the whole body, and the answer is what that handler set, read while it is still in
memory; every request is answered, or its client drops, as long as an object receives;
after a shutdown the chain of connections runs out of work. Of the registration: whichever call fails,
the destructors give back all that was got and nothing that belongs to another object.

## Modules

    ByteSeqs               bodies and memory as sequences of bytes
      ByteSeqsProofs
    WinHttpDefs            codes, kinds of steps, results
      AsyncStep            abstract: what one step promises
        WinHttpRequest     the three threads; implements AsyncStep
          WinHttpRequestProofs
        WinHttpTransport   AsyncStep plus the bytes WinHTTP moves
          WinHttpExec      async_exec / async_read_body; implements FetchSpec
            FetchSpec      abstract: what async_exec promises
            WinHttpExecProofs
          WinHttpStream    async_read_some / async_write_some
            WinHttpStreamProofs
    WinHttpCalls           handles, header helpers, accept_types
      WinHttpCallsProofs
    PipeKernel             named pipes of Windows, and clients (client_connect)
      PipeServer           acceptor, echo servers, coroutine server, HTTP example
        PipeServerProofs
    HttpQueue              HTTP.sys and basic_http_queue_handle
      HttpServer           composed operations, http_connection, controller
        HttpResponse       simple_response, instantiated by HttpServer
        HttpServerProofs
    HttpRegistration       initializer, queue, URL objects; implements UrlLease
      UrlLease             abstract: what a basic_http_url promises
      HttpRegistrationProofs

The modules `MC...` only extend the module they are named after for TLC.
`PROJECT.json` maps each definition to the lines it stands for. A definition
commented "Faulty variant" is no part of any specification: it is what a
plausible mistake in the code would make of the definition after it, and is
there to show that a property would notice.

**WinHttpRequest.** `handle`, `bound`, `ctx` are the HINTERNET, whether WinHTTP has
been given `&ctx_`, and whether `ctx_` still exists; `lost` says that the handle the last call was made
on is closed, so that WinHTTP may report its cancellation. `ctxState`, `event`,
`stepEc`, `stepLen` are the four fields of `asio_request_context`. `pc` says how far
the io thread is in the step: `Initiate` is `set_state` and `step_reset`;
`ApiAccepted` and `ApiRefused` are the two outcomes of the WinHTTP function, the
second with the `step_complete` the member makes itself; `AsyncWait` registers the
handler; `WaitFires` and `RunHandler` follow. The callback is one action per store
(`CallbackEnter`, `CallbackStoreEc`, `CallbackStoreLen`, `CallbackSetEvent`), because
the other threads can see each of them. `Close` and `ManagedOpen`, which replaces an open handle, may also come from
another handler while a step is outstanding. Two things are conditions on the caller. `Destroy` comes only when no
step is running: destroying a handle with a step outstanding would leave the handler on a freed event. And no step is
started on a handle whose `managed_open` failed between the open and the callback ("bare"): it would report to nobody.
The code ensures neither; no caller in the repository breaks them. `outcome` and `got` are history: what WinHTTP reported and what
the handler was given.

**AsyncStep** has three actions, `Start`, `Settle`, `Deliver`. WinHttpExec and
WinHttpStream are built on it and on nothing of WinHttpRequest, which is what
makes them small. **WinHttpTransport** adds the bytes, as **ByteSeqs** has them for HTTP.sys too:
byte *i* of a body is the number *i*, uninitialised memory is 0, so a lost, doubled, reordered or
made-up byte shows in the buffer. A WinHTTP write past the end of the prepared memory makes it
longer, which is visible as well.

**WinHttpExec** has one action per `case` of the two `operator()`s and one per `if (ec)` in each: what the inner
operation completes with is `handed` to the outer one, whose `operator()` is its handler. `fault` is history, the first thing of a
call that failed. **WinHttpStream** puts
`boost::asio::async_read` and `async_write` (external: they stop at a full buffer, an
error, or zero bytes, and ask for one part also when there is nothing to move) around the two operations, in
the order the tests use them.

**PipeKernel** is outside the repository except for `client_connect`: instances with a
server end and a client end, a name that exists while some server end is open,
`ConnectNamedPipe` with its three outcomes. **PipeServer** is one action per handler,
except where a handler makes several system calls between which a client or
another thread can act: `AcceptHandler`, `ServerCreate` and `ServerConnect` are
three actions of one handler, which keeps its thread meanwhile, and so is
`HttpWritten` with `ShutdownReturns`. `ThreadFree` counts the threads. `server` is the one of
the four servers that was started: it decides the form of `async_accept` (`Movable`), the kind of
session (`Http`), and what a failing accept does: `AcceptHandler` accepts again,
`CoroutineFails` and, for a coroutine, `CreateFails` leave the listener "over".

**HttpQueue** follows the three calls through their ways to return: what pends or
succeeds is completed later by the port with a length, any other result is posted
with length 0. No receive ends with ERROR_HANDLE_EOF there, so that branch of `async_receive_op` is in
the model (`Accepts`) and never taken. **HttpServer** has the handlers. A handler is one action there: no
call in it waits, its calls concern its own object, its own request or a
new object, and what HTTP.sys does in between could as well come after.
**HttpResponse** is the object a handler fills. What an answer says is the request it answers, so
an answer with another request's parts, or with parts twice, shows. `Answers` is where HTTP.sys
reads it: `Kept` says whether the object it has pointers into is sure to be there.

**HttpRegistration** has an action for each constructor and destructor. `Construct` chooses how far
`url_handler` gets and whether the URL is added; what the assertions make of it depends on
`build`. The calls of `Destruct`, which give things back, fail only if there is nothing to give back. `sessions`, `groups`, `bound` and `table` are what HTTP.sys has, `session`, `group` and
`added` what the object knows. **UrlLease** is a table of URLs and what their holders believe,
which agree.

**WinHttpCalls** has an action for each synchronous call; `did` is history, the last call
and what became of it. A header's value is a number of copies of its own letter, so that a
value cut short, run over, or mixed with what the string held before can be told from the right
one. `UsePayload` has the three ways `async_exec` can get on before it sends: no handle, a handle and all set, a new handle
and an error, as when the callback cannot be set. `ListRead` is how WinHTTP reads a list that a null ends, and what it must not meet: a list
with no null.

## Runs

Each property has a mutant in `PROJECT.json`: a faulty variant of a definition under
which the same run finds the property violated.

| run | checks | shows |
|---|---|---|
| `request_steps` | `TypeOK`, `CallbackStateMatches`, `CallbackOnLiveContext`, `EventMeansSettled`, `StepSpec` | every interleaving of the three threads with closing and reopening, also under an outstanding step, and destruction; the assertions in the callback hold, the context outlives its use, the event is never stale, and the handle implements `AsyncStep` with its liveness |
| `exec` | `TypeOK`, `ReadWithinPrepared`, `NothingDropped`, `FirstErrorIsResult`, `ExecSpec` | every body of up to three bytes announced and read in every way, with an error at every step: the first error is what the caller is told, through both operations, and `async_exec` implements `FetchSpec` |
| `stream` | `TypeOK`, `ShortReadMeansEnd`, `ReadInOrder`, `WholeRequestBeforeResponse`, `OperationsEnd` | partial writes, short reads, buffers smaller and larger than what is announced |
| `pipe_echo` | `TypeOK`, `OneOwner`, `AcceptsForever`, `OneThreadKeepsName`, `SessionsEnd` | the movable echo server on one thread and on two, and the coroutine server on one, with vanishing clients and a failing CreateNamedPipe: the movable server accepts for ever, the coroutine server ends without losing a handle or a session |
| `pipe_calls` | `OneOwner`, `NoReplyLost`, `ClientsEnd`, `SessionsEnd` | the echo server with a pipe of its own on one thread and on two, and the HTTP example with its deadline, while clients finish their calls: no client waits for ever for an instance that others keep taking, and a reply is lost only to the deadline of its own session |
| `http_server` | `TypeOK`, `OneReceives`, `HeldOnce`, `WholeBodyHandled`, `AnswerIsResponse`, `RequestsAnswered`, `ShutdownDrains` | the chain of connections and the controller, with clients that drop and a shutdown at any moment |
| `http_registration` | `TypeOK`, `NothingLeft`, `DestructorsAssertNothing`, `LeaseSpec` | both versions of the API, debug and release, a failure at every call that asks for something, objects for equal and different URLs constructed and destroyed in any order; the objects implement `UrlLease` |
| `winhttp_calls` | `TypeOK`, `OutcomeReported`, `HeaderWhole`, `HandlesOwned`, `AcceptListGiven` | the synchronous calls in any order, failing at will, with one error code and one string for all |

Five properties hold with an exception that the code makes; no document of the repository promises otherwise in any of
these cases.

- `LeaseSpec` speaks of version 2 and of debug builds (`Safe`). With version 1 a URL is removed by its name: an object
  whose `add_url` failed, which only a release build survives, removes in its destructor the URL of the object that has it.
- `AnswerIsResponse` allows a controller to answer from memory that was freed: its send handler keeps a copy of the
  request context, not the context that HTTP.sys was given pointers into.
- `OneReceives` and `RequestsAnswered` end, for the chain of `http_connection` objects, with the first receive that fails:
  the object that received is the one that starts the next, so nobody receives after it, and requests that come then are
  not answered. A client that drops between the two receives of its long headers is enough for that; a controller goes on.
- `ShutdownDrains` is about `http_connection`. A controller receives again whatever the outcome.

Four runs show where the code does not do what a document, a test or an assertion
of the repository says. Each expects its one property to be violated.

| run | violated | what happens |
|---|---|---|
| `pipe_accepts_forever` | `AcceptsForever` | a client connects and leaves before `ConnectNamedPipe`; the accept fails with ERROR_NO_DATA, the server's pipe object keeps its handle, and `assign` of the next accept throws `already_open` out of `io_context.run` (`named_pipe.hpp:79`). The movable form is safe: its handler takes the pipe also with an error, which `pipe_echo` shows |
| `pipe_name_gap` | `ClientsFindPipe` | with two threads a session can end between the moment the accept handler starts it and the next CreateNamedPipe; for that moment there is no pipe. With one thread it cannot: `OneThreadKeepsName` |
| `pipe_connect_leak` | `FailedConnectHoldsNothing` | when SetNamedPipeHandleState fails, `client_connect` reports the error and drops the open handle |
| `pipe_deadline` | `SessionsEnd` | a client that does not read its reply keeps the only thread in FlushFileBuffers, where the deadline that should end the session cannot run. Here the clients have no fairness, the server has all of it |

### Bounds

- `MaxLen = 2`, lengths reported by WinHTTP: 0, less than asked and all that was asked
  are different. The steps of WinHttpRequest do not compute with lengths at all.
- `MaxBody = 3` for WinHTTP: with parts of one and two bytes a body can be
  empty, come at once, in two parts of different size, or in three.
- Pipes: each client makes one call. Two can be served, or one be served while the other calls or waits for a
  busy pipe. A client that finds the pipe busy, waits, and finds it busy again needs two others, the one it waited
  for and the one that was faster: `pipe_calls` has three clients of the echo server on one thread, and this happens.
  With several threads or with deadlines (`Few`) there are two, as three are more than TLC can do in the time of a run. An instance
  is used again only when nobody refers to it, so one for each client and
  one for the listener are all that is needed. Two threads are the
  fewest that can run two handlers at once, and what the tests use. `MaxFailures = 1`: a
  failure nests one handler; another one nests another in the same way.
- HTTP.sys: two requests, one of which has headers too long for the first buffer,
  three objects (two requests under way, and one receiving), `Hint = 2` and bodies of
  up to three bytes: empty, shorter than the hint, just the hint, longer. The code's
  default hint is 128; only comparisons with it matter.
- `GiveUp = FALSE` in `pipe_calls` and `pipe_deadline`: clients neither vanish nor hang
  up early there. With vanishing clients those servers die, which is what
  `pipe_accepts_forever` shows, and little could be said after it.
- `Routed = {r1}`, `Trailing = {r1}`: a controller has a request it answers by a handler and one it
  answers 404; an answer has one part or two.
- Registration: three objects and two URLs, so that two objects are at one URL and the third is in
  any relation to them.
- Synchronous calls: `Handle` has one for each of the three objects and one more, as an object that is
  opened again has two for a moment; headers of up to `MaxLength = 2` characters, so that a value is empty, shorter and
  longer than what the string held; `MaxOpens = 2` uses of a payload: each further use appends
  another list behind the first null. That the list may be empty is left to the proof.
- `Servers` names the servers a run may start: the movable and the coroutine server in `pipe_echo`, the echo server with
  a pipe of its own and the HTTP example in `pipe_calls`.

Deadlock is checked in every run. Each specification says when it may stop: a
destroyed request handle, a server that waits for clients, a queue
nothing waits for (`Terminated`, `ServerWaits`, `Quiet`); that a waiting server has left no client behind is `ClientsEnd`; a caller of `async_exec` or of the
stream can always begin again.

### Fairness

- An executor that is run runs what was posted to it, and a handler that was entered is
  finished: weak fairness of the handlers. With several threads a ready handler may lose
  its thread to another again and again, so PipeServer has strong fairness for the
  accept handler, for the sessions and for the deadlines, each taken together; asio runs handlers in the order they were posted.
- WinHTTP reports every call it accepted, and its callback runs to its end; the wait
  thread sees a signalled event. This is what the API promises; the code has no other
  means against a lost report.
- HTTP.sys completes what it holds, but nobody owes it requests: a receive waits for ever
  if no client calls.
- Clients of a pipe go on with a call they made (`ClientFairness`), except in `pipe_deadline`.
  Nothing is assumed of vanishing, dropping, closing, shutting down, or a failing call.

## Proofs

Seven components are proved about with TLAPS; every safety property of the passing runs is a theorem.
Each proof has the same outline: an inductive invariant, a lemma that `Init` establishes it, lemmas that
the actions keep it, and theorems that read a property off it. TLC checked each of the
invariants on the instances of the runs before it was proved.

`WinHttpRequestProofs` proves, for every `MaxLen`:

| theorem | says |
|---|---|
| `TypeCorrect` | `SafeSpec => []TypeOK` |
| `CallbackStateMatchesThm` | the assertions of `BasicAsioAsyncCallback` hold |
| `CallbackOnLiveContextThm` | WinHTTP never uses a destroyed context |
| `EventMeansSettledThm` | the event, when signalled during a step, stands for that step's whole result |
| `StepRefinement` | `SafeSpec => StepSafe`: the three threads implement the safety part of `AsyncStep` |

The only assumption is that `MaxLen` is a natural number. None of the
invariants is inductive: that the event is not stale, say, depends on a step being outstanding only
in certain places of the io thread. The inductive invariant `IInv` therefore says where
things can be. Between steps nothing is pending and no callback is under way
(`UserQuiet`), and only then can the context be gone (`DestroyedQuiet`). After
`step_reset` the event and the result are clean (`ResetClean`). From the call on
(`CalledPhases`) a step is in exactly one of three situations, whatever the
io thread and the wait thread have done meanwhile: `Pending`, with the report to come;
`Reporting`, between the stores of the callback, with the event not yet
set and what was stored equal to what was reported; `Settled`, with the event set and the
context holding the whole outcome. A handler is queued only when the event was
seen (`QueuedSettled`), so what it reads is the outcome. The two temporal ingredients, an
invariant and a step-wise refinement, are combined with PTL.

`HttpRegistrationProofs` proves, for any sets `Object` and `Url`, when `Nobody` is not an object
and `NoUrl` not a URL (`RegistrationAssumption`):

| theorem | says |
|---|---|
| `TypeCorrect` | `Spec => []TypeOK` |
| `NothingLeftThm` | after the last object, nothing of the process is left in HTTP.sys, whatever failed |
| `DestructorsAssertNothingThm` | the destructors' assertions hold, if HTTP.sys takes back what it gave |
| `LeaseRefinement` | `Spec => LeaseSpec`: where it is `Safe`, the objects implement `UrlLease` |

`NothingLeft` speaks of one moment, when no object lives; to get there, each destructor has to find what
it must undo. So `IInv` relates, at every moment, what an object knows to what HTTP.sys has: the ids
and the sessions and groups (`IdsAgree`), the URL and its entry in the table, in both
directions (`TableOwn`, `AddedKnown`, and `UrlsAgree`, the one that version 1 in a release build breaks).
`DebugAdded` carries what a debug build's assertion in a constructor has settled. With these, each
construction is `Lease`'s taking or a stutter, each destruction its giving back.

`WinHttpCallsProofs` proves, for every finite list of types, every set of handles and headers and every
`MaxLength` and `MaxOpens`, when the null and the empty handle are none of these
(`CallsAssumption`):

| theorem | says |
|---|---|
| `TypeCorrect` | `Spec => []TypeOK`: no null stays in the caller's string |
| `HandlesOwnedThm` | what WinHTTP has open is what the objects have, each once |
| `OutcomeReportedThm` | a failed call is not taken for a success |
| `HeaderWholeThm` | a header comes back whole |
| `AcceptListGivenThm` | WinHTTP reads the list that was given, at every use of the payload |

`HeaderWhole` and `AcceptListGiven` rest on lemmas about cutting a sequence at its first null: `ValueRecovered`
says that a value written over a longer string and cut there is that value, `AppendedBegins` that
`accept_types::get` leaves the list of its first call where it was (`OutputBegins` in the invariant),
`ListReadIs` that WinHTTP therefore never reads further, `PayloadList` that the same holds of a payload without types, for
which there is no array.

`ByteSeqsProofs` has what the next three need of sequences of bytes: how pieces of a body join
(`BytesJoin`), what a beginning of one is (`BytesBeginning`), and what memory holds after a write into
it (`OverwriteBegins`).

`WinHttpExecProofs` proves, for every `MaxLen` and `MaxBody` in the natural numbers:

| theorem | says |
|---|---|
| `TypeCorrect` | `SafeSpec => []TypeOK` |
| `ReadWithinPreparedThm` | WinHTTP writes inside the prepared memory, and no uninitialised byte is committed |
| `NothingDroppedThm` | what was handed out of the body is in the buffer or about to be committed |
| `FirstErrorIsResultThm` | WinHTTP is asked for nothing after the first failure, whose code is the result of the call |
| `FetchRefinement` | `SafeSpec => FetchSafe`: `async_exec` implements the safety part of `FetchSpec` |

That a commit is right cannot be said of the moment of the commit alone. `IInv` follows a read from
the query to the commit: the states of the two nested operations say which step is running (`AtStep`, `OneStep`);
an announcement is of bytes that are there, and of none only at the end (`QueryFits`); a read that WinHTTP has
was asked for what was announced and has room for it (`ReadAsked`); a read that is over left the next bytes of
the body at the start of the memory (`ReadFits`); outside of a read the buffer has all that was handed out
(`NoneInFlight`) and is a beginning of the body (`BufferIsBody`); the code of what failed is in the report that is on its
way through the two operations (`FaultKnown`). A step that is
reported but not yet handled keeps its facts through `Reported`, which is where the result is at the moment.

`WinHttpStreamProofs` proves, under the same assumptions:

| theorem | says |
|---|---|
| `TypeCorrect` | `Spec => []TypeOK` |
| `ShortReadMeansEndThm` | a short read without an error is the end of the body |
| `ReadInOrderThm` | buffers get consecutive bytes and are not overrun |
| `WholeRequestBeforeResponseThm` | the response is asked for when the whole request was sent |

The invariant is that of WinHttpExec with the user's buffer in place of the dynamic one (`BufferFits`: the
part given to `async_read_some` lies in the buffer of `async_read`), and the same for the other direction:
what is sent is a beginning of the request (`RequestSent`), a write that WinHTTP has is of the next bytes
(`WriteAsked`), and one that is over took at least one of them, if there were any (`WriteFits`).

`HttpServerProofs` proves, for any sets of requests and objects, every hint and bodies of any length
(`QueueAssumption`, `ServerAssumption`; `Hint <= MaxBody + 2` only says that the bound `MaxBody` is not chosen
below the sizes of buffers the code uses, and leaves shorter bodies in):

| theorem | says |
|---|---|
| `TypeCorrect` | `SafeSpec => []TypeOK` |
| `OneReceivesThm` | exactly one object receives, until a receive of an `http_connection` fails |
| `HeldOnceThm` | a request that was given away belongs to one object |
| `WholeBodyHandledThm` | the user's handler sees the whole body |
| `AnswerIsResponseThm` | the answer is what was set, or freed memory, by a controller |

`HeldOnce` depends on what an object that starts a receive again with a request's id may
find, and `WholeBodyHandled` on what a read of zero bytes means, so `IInv` says for each stage
of an object what it holds, what its outstanding call is and what a posted completion says of
the request (`IdleFits`, `ReceivingFits`, `BodyFits`, `SendingFits`). Between objects there are three facts:
no two hold one request (`HeldAlone`), a request that is with the server is held
by someone (`TakenHeld`), one that has not been given away by nobody (`NewUntouched`). `Receiver` is the induction hypothesis
for the chain of objects that start one another.

`PipeServerProofs` proves, for any number of clients, threads and failures, and any finite set of instances
(`KernelAssumption`, `ServerAssumption`):

| theorem | for | says |
|---|---|---|
| `TypeCorrect` | every server | `SafeSpec => []TypeOK` |
| `OneOwnerThm` | every server | an open server end has exactly one owner |
| `AcceptsForeverThm` | with `GiveUp` the movable and the coroutine server, without it all four | no server dies of `already_open` |
| `OneThreadKeepsNameThm` | the same | with one thread no client is told that there is no pipe, while the server listens |
| `NoReplyLostThm` | the same | a reply is lost only to the deadline of its session |

The last three have the hypothesis `GiveUp => Servers \subseteq {"movable", "coroutine"}`. It is what the code
makes necessary: a client that gives up at the wrong moment ends a server that accepts into a pipe of its own, as
`pipe_accepts_forever` shows, and with it every session.

There are four invariants, each built on the ones before. `Owned` says who has each server end and what may be
outstanding on it: the listener (`PipeFits`, `AcceptFits`, `ListeningFits`), the handler of a failed accept (`DoomedFits`),
or a session (`SessionFits`), and that an end without one of them is closed (`ClosedFits`). `Named` says that the name
is there as long as some client has begun; the step that would break it, the end of the last session between two
accepts, needs a free thread, and `ThreadTaken` shows that there is none. `Awaiting` says that a client which
does not give up is still in its call when `ConnectNamedPipe` is asked for it, as nobody has answered it yet. `Served`
says, for a client in its call, which of the server's steps is next, through the read, the write and
`FlushFileBuffers`; it is given up for a client when the deadline of its session passes.

Only model-checked, as liveness under fairness is out of the prover's reach: the fair parts of `StepSpec` and
`ExecSpec`, `OperationsEnd`, `ClientsEnd`, `SessionsEnd`, `RequestsAnswered`, `ShutdownDrains`. The four
properties of the runs that expect a violation are false, and TLC shows it.

## What is not modelled

- `url_component` and the error strings of WinHTTP: one call of WinHttpCrackUrl into fixed arrays, and tables from codes
  to text. The class `headers`, which joins strings, and `header::add_header`, which cannot be instantiated: it calls
  an overload of `add_headers` without modifiers, which does not exist.
- Response and request headers in `convert.hpp`, and the functions that print a request: headers are set
  anew by each `get_response`.
- The synchronous `send_response` of the request queue, which nothing in the repository calls.
- What HttpReceiveHttpRequest returns at once when the buffer is too short. `async_recieve_request` completes anything
  but NO_ERROR and ERROR_IO_PENDING with length 0, with which `async_receive_op` could not go on; the code takes HTTP.sys
  to report ERROR_MORE_DATA by the completion, and so does HttpQueue.
- Copies of handles and of `accept_types`, which the compiler generates and no code of the repository makes.
- How the controller's table is filled: that is done before `start`.
- What the example clients ask and print; they make the calls of the test client, from which PipeKernel is
  translated. Boost.Beast programs used by tests; build files.
- `url_dispatch_tree.h`, a declaration without members.
- Memory ordering: stores of the callback are seen in program order, as the event's
  kernel transition and the executor's queue guarantee.

That a controller drains after a shutdown is not checked because it is false: it receives
again whatever the outcome. No document says that it can be shut down.

## Plan

Done, in this order: WinHttpDefs, AsyncStep, WinHttpRequest and its proofs;
WinHttpTransport, FetchSpec, WinHttpExec, WinHttpStream; PipeKernel, PipeServer; HttpQueue,
HttpServer; HttpResponse; UrlLease and HttpRegistration; the coroutine server in PipeServer; WinHttpCalls;
proofs for the last two components; ByteSeqs, and proofs for WinHttpExec with its refinement of `FetchSpec`, WinHttpStream,
HttpServer and PipeServer.

Next: action properties that hold from the invariants at hand, such as that a client once connected is never
handed from one session to another, or that what a stream has sent is never taken back; what a
server that has died leaves to its clients; and the safety half of `SessionsEnd`, that the deadline of a session is armed
or cancelled exactly as long as the session needs it.
