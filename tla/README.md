# Verification of the Minimal Embeddable HTTP Server

TLA+ models of the server in this repository, the TLC configurations that check
them on small instances, and theorems about them whose proofs TLAPS checks.
Paths below are relative to the repository; `tlc -config X.cfg M` and
`tlapm M.tla` are run in this directory.

## 1. The system

One process, started without arguments, is either a plain HTTP server or an
HTTPS server, depending on the certificates it finds.

| part | code | state | operations |
|---|---|---|---|
| start of the process | `main.cpp`, `functions.hpp` (`filechecks`, `is_SSL_there`, `is_htdocs_there`) | the port; `esketit.conf`; the certificate files | read the configuration line by line, choose the server, bind, load certificates |
| HTTP server | `http.hpp` (`http_connection`, `http_server`) | per connection: socket, outstanding read, write and wait, `request_`, `response_`, `deadline_`; the accept | accept, read, process, write and deadline handlers on one `io_context` thread |
| script runner of the HTTP server | `functions.hpp` (`gen_cgi_script`, `GetStdoutFromCommand`, `replace`), `POST_response` | the file `cgi.sh` of the working directory, shared by all connections | write the script file, run it and wait, turn its output into a page, remove the file |
| HTTPS server | `https.hpp` (`HttpsServer`, `HttpsAcceptor`), `main.cpp` | `m_Stop`; the main and the worker thread | start, accept loop, stop after five minutes, join |
| HTTPS requests | `https.hpp` (`HttpRequestParser`, `HttpsService`) | per connection: requested resource, script data, status, size, buffer; the index page; the two output files of scripts, `tempfile` and `cgi_tempfile`, which a process that dies leaves to the next one | handshake, read, parse, GET, POST, run a script, respond |
| thread-pool server | `original/http_web_server` (`HttpServer`, `HttpAcceptor`, `HttpService`), the ancestor of `https.hpp` | the `io_service` and its threads, `m_IsStopped`; per connection the `HttpService`; the files served, `tempfile`, `cgi_tempfile` | accept, read, GET, POST, HEAD, DELETE, OPTIONS, run a script, write, stop after five minutes. Not part of the program that is built |
| original HTTPS server | `original/https_web_server` (`HttpsServer`, `HttpsAcceptor`, `HttpsService`), what `https.hpp` was made from | as in `https.hpp`; the files served | as in `https.hpp`, and HEAD, DELETE, OPTIONS. Not part of the program that is built |
| first HTTP server | `original/http_server_small.cpp`, what `http.hpp` was made from | as in `http.hpp`, without scripts; the static counter of `request_count` | accept, read, process, write and deadline handlers. Not part of the program that is built |
| data and scripts | `original/sh`, `programs`, `sslcert`, `original/*/test` | | the environment of the models |

How they interact: `main` calls `filechecks` and `is_SSL_there`, then either runs
`http_server` on an `io_context` with one thread, for ever, or starts the worker
thread of `HttpsServer`, sleeps, stores `m_Stop` and joins.  The handlers of the
HTTP server are callbacks of Boost.Asio; the connections share the one thread
(which `popen` blocks while a script runs) and the file `cgi.sh`.  The HTTPS
worker does everything with blocking calls and shares `m_Stop` with `main`.

What is hard about each part, and what makes it correct:

- **HTTP server.**  Up to three asynchronous operations per connection, whose
  completions arrive in any order; a deadline that races the response and whose
  cancellation comes too late when the expiry is already queued; an object that
  lives as long as its handlers; one blocking call on the only thread.  It is
  correct when no socket is left open without a deadline, nothing is outstanding
  on a dead socket, a response is not touched once it is being sent, the client
  sees at most one response, with the status of its method, and every
  connection is released in the end.
- **Script runner.**  A file shared by all requests, whose opening is not checked
  and which a crash leaves behind.  A request must not run another one's script,
  and the page made of an output must show the document in it.
- **Start.**  The meaning of a configuration depends on the order of its lines;
  conversions throw; the server is chosen before what it needs is known to work.
- **HTTPS server.**  A stop flag that is read between two blocking calls.
- **HTTPS requests.**  Handlers that pass a request on, each of which sends or
  does not; members that are not initialized; errors that are caught and errors
  that end the process; output files that are opened without being cut, and stay
  behind when the process is killed; a read that takes what has come so far.
- **Original HTTPS server.**  The same, with eight methods in the parser and five
  in the switch, and a HEAD that sets the size of a response but no buffer.
- **First HTTP server.**  The same races of a deadline and a response as in
  `http.hpp`, and a counter that every connection takes a number from in one
  handler and shows in a later one.
- **Thread-pool server.**  Handlers of several connections at the same time, with
  two fixed names for the output of every script, files that another connection
  deletes between the look and the opening, objects that only delete themselves
  after a response, and a stop in the middle of it.

`PROJECT.json` lists these hazards at their lines, each with the properties
that cover it.

## 2. The modules

| module | models | state and actions |
|---|---|---|
| `ScriptPage` | `replace`, the page made in `POST_response` | operators on sequences of tokens; `Shown` and `Document` are the reference |
| `ScriptPage_proofs` | the theorem about `ScriptPage` | |
| `HttpConnection` | class `http_connection`, which `http.hpp` has from `original/http_server_small.cpp` | the record of one connection, and what starting, writing, the end of a write and a close do to it |
| `HttpServer` | `http.hpp`, `gen_cgi_script`, `GetStdoutFromCommand` | see below; extends `HttpConnection`, `ScriptPage` |
| `SmallHttpServer` | `original/http_server_small.cpp` | see below; extends `HttpConnection` |
| `SmallHttpServer_proofs` | theorems about `SmallHttpServer` | |
| `HttpExchange` | what each of the five servers promises its clients | `phase`, `question`, `answer` of each exchange; `Connect`, `Ask`, `Answer`, `HangUp`, `Forget` |
| `HttpServer_proofs` | theorems about `HttpServer` | |
| `Bootstrap` | `filechecks`, `is_SSL_there`, `main`, the constructor of `HttpsAcceptor` | `stage`, `at` (next line), `port`; one action per kind of line, then the choice, the bind and the certificates |
| `Bootstrap_proofs` | theorems about `Bootstrap` | |
| `RequestParser` | `HttpRequestParser` | operators on requests |
| `HttpsServer` | `HttpsServer`, `HttpsAcceptor`, `HttpsService`, the HTTPS half of `main` | see below; extends `RequestParser` |
| `HttpsServer_proofs` | theorems about `HttpsServer` | |
| `HttpsServerOriginal` | `original/https_web_server` | see below; extends `HttpsServer` |
| `HttpsServerOriginal_proofs` | theorems about `HttpsServerOriginal`; extends `HttpsServer_proofs` | |
| `PoolServer` | `original/http_web_server` | see below |
| `PoolServer_proofs` | theorems about `PoolServer` | |
| `PoolExchange_proofs` | that `PoolServer` implements `HttpExchange`; extends `PoolServer_proofs` | |
| `MCScriptPage`, `MCHttpServer`, `MCSmallHttpServer`, `MCBootstrap`, `MCHttpsServer`, `MCHttpsServerOriginal`, `MCPoolServer` | instances for TLC | |

**HttpExchange.**  Clients that connect, ask, get an answer or are hung up on:
one request per connection, at most one answer, from the set `Answers` gives for the
request, and none after a hang-up.  What an answer is differs: a status for the
HTTP servers, a status together with the kind of body for the others, where the
two are set in different functions.  `HttpServer`, `SmallHttpServer`,
`HttpsServer`, `HttpsServerOriginal` and `PoolServer` each implement it under a mapping
of their state (`PhaseOf`, `Phase`, `AnswerOf`): the property `ImplementsExchange`.

**HttpServer.**  `conn[c]` is a connection object: `sock`; `rd`, `wr`, `tm`, the
three asynchronous operations, each outstanding in the kernel ("pending") or
with its handler queued, with the result it will see; `late` (60 seconds have
passed); `req`, `resp`; and `sent`, what the client got.  `accept` is the accept
operation, `running` the connection whose script the thread waits for, `cgi_sh`
the shared file.  A handler is one action (`HandleAccept`, `HandleRead`,
`HandleWrite`, `HandleDeadline`, and those for errors), together with everything it
calls.  Only `process_request` is two actions when it runs a script,
`StartScript` and `EndScript`: between them time passes and the process may be
killed, and `running` keeps the thread from doing anything else.  `PollAccept`,
`PollRead`, `PollWrite`, `PollTimer` are the `io_context` asking the kernel;
results are fixed there, so that a handler already queued keeps its result
whatever happens before it runs, as in Boost.Asio.  `Settle` is the
`shared_ptr` count: the object is gone with its last handler.  `Kill` loses the
memory and keeps the file.

**SmallHttpServer.**  The same objects and the same loop, without anything that
waits: `process_request` is one action.  `count` is the static counter; the
response for `/count` carries its number.  (The page says "There have been N
requests so far", while only requests for that page are counted.)  `shown` and
`before` are not in the code: they record the largest number that has left on a
page, and what that was when a client's request came, so that `NumbersInOrder` can
say what two clients, one of which is gone, may compare.  Pages leave in any
order, and one with a smaller number may leave after one with a larger.

**HttpsServer.**  `main` and `worker` say where the two threads are: the function
that runs, or the blocking call.  `service` is the `HttpsService` of the current
connection, with the members the response depends on and, for the properties,
the reply the client got and the calls of `SendResponse`.  Uninitialized members
start with any value (`NewServices`).  A thrown `boost::system::system_error` is
the action `Caught`, possible at every call that throws it; what nothing catches,
and writing from a null buffer, is `Terminates`.  What the file system answers
(missing, cannot be opened, a directory, empty) is a choice in `GetFile`,
`PostNoFile`, `PostScript`, `EndScript`.  The two branches for an empty resource
are no actions: they cannot be reached, which is the invariant
`ResourceNeverEmpty`, and a theorem for every request.  A request has up to three
of the strings `Words`; TLC gets those that the code tells apart.

`output` says what each output file holds: nothing, what one script has written, or
what several have.  `PostScript` opens the file without cutting it, as
`boost::process` does, `EndScript` reads and removes it.  `Kill` ends the process
anywhere, `Restart` starts it again after that and after any other end, with the
files as they are; `mixed` counts the replies that hold what an earlier script
has written.

**HttpsServerOriginal.**  `https.hpp` was made from this server, and most of it is
the same, line by line: those parts are the actions of `HttpsServer` under other names
(`ExecuteProgram == EndScript`), with lines of their own in `PROJECT.json`.  New are
the parser, the switch, GET and POST with an index page that can be asked for by
name and deleted, HEAD, DELETE and OPTIONS.

The removal of the output file is assumed to succeed, here and in `PoolServer`:
the file was made by the same process in the same directory just before.

**PoolServer.**  `service[c]` is an `HttpService`: the operation it waits for
(`read_until`, `write`), its place in a handler, or "left", an object nothing will
ever delete.  Completions of operations (`Accept`, `ReadRequest`, `EndWrite`) need a
free thread of the pool (`ThreadFree`) and an `io_service` that is not stopped;
from then on the handler goes on in several actions, cut where it uses what
other threads use too: the look at the file (`Exists`), the opening or removal
(`OpenFile`, `DeleteFile`), the start of a script, which opens the output file
without cutting it (`StartScript`), the reading of the output (`EndScript`) and its
removal (`RemoveOutput`).  `output[f]` is the set of connections whose scripts have
written to the output file `f`; `writers` is what a response took from it, and
`met` notes the other scripts that used the same file meanwhile.  Exceptions that
nothing catches are `Terminates`; the client's address, `shutdown`, the look
at a path, the buffer for a directory that was opened (it has no size) and the
start of a program throw, and the empty request is a null pointer.
`m_ResponseStatusCode` and `m_ResourceSizeInBytes` are not initialized
here either: the code is `None` until it is set, and a write from a null buffer
ends like any write that fails, in `EndWrite`.  For a file that is served, and for
HEAD, DELETE and OPTIONS of a path that is there, no function sets a status:
`ImplementsExchange` promises one answer there with the right kind of body, and
says nothing of its status line.  Requests for the output files
themselves, and files that other programs change, are left out here and in the two
HTTPS servers.

**Not modelled.**  The text of headers, dates, log output (`GetIp` included), the
content of scripts and pages beyond the tokens of `ScriptPage`: no state depends on
them.  `m_ScriptData`, the last line of what came with the first one, which only
ends in a command line; how much of a request that is depends on how it was
cut into packets.  The arguments of the `main` functions of the ancestors, read
once before anything else runs.  Functions that are never called
(`HttpsAcceptor::Stop`, `Finish`, `ProcessOptionsRequest` of `https.hpp`, the members
declared without a body, `request_count` of `http.hpp`).  `Bootstrap` is not composed
with the servers: it hands over once, and nothing goes back.  The scripts, pages
and keys of the repository are data that servers are given.

The definitions named "Mutant of ..." are variants of a definition with a
mistake that the code could have had.  No action uses them.  Each shows that a
property can fail: with the mutant in place of the definition TLC finds the
property violated (`PROJECT.json` says which run).

## 3. The runs

| run | module, configuration | question | bounds |
|---|---|---|---|
| `http` | `MCHttpServer`, `MCHttpServer.cfg` | do the invariants hold, and does the server implement `HttpExchange`, under every interleaving of handlers, time, scripts and one fault (a kill, or `cgi.sh` that cannot be removed)? | 2 connections, 8 requests (each way through `process_request`), 3 outputs, 1 fault |
| `http_live` | `MCHttpServerLive.cfg` | are connections released, is the accept repeated, is the deadline enforced, when scripts end? | 2 connections, 3 requests, 1 output, no fault |
| `http_deadline` | `MCHttpServerDeadline.cfg` | is the deadline enforced whatever scripts do? **No.** | as above |
| `page_empty` | `MCScriptPage`, `MCScriptPageEmpty.cfg` | is an empty output reported? **No.** | every output of up to 6 tokens |
| `bootstrap` | `MCBootstrap`, `MCBootstrap.cfg` | is a configuration obeyed, where code and comments agree on what it means? | every file of up to 3 of 10 lines, values at the ends of the ranges |
| `https` | `MCHttpsServer`, `MCHttpsServer.cfg` | are replies consistent, single and only missing where known, does the output of an earlier script get into one only after a kill, does the server implement `HttpExchange`, and does Stop end the worker when clients keep coming? | every request line of up to 3 words over 3 methods, 5 resources, 2 versions; 2 kills, any number of restarts |
| `https_stop` | `MCHttpsServerStop.cfg` | does Stop end the worker by itself? **No.** | 4 requests |
| `https_missing` | `MCHttpsServerMissing.cfg` | is a missing file always answered? **No.** | 4 requests |
| `https_original` | `MCHttpsServerOriginal`, `MCHttpsServerOriginal.cfg` | the same questions for the server of `original/https_web_server`, with five handlers for eight methods | 5 methods on 5 paths, a method without a handler, an unknown one, a wrong version; 1 kill |
| `https_original_head` | `MCHttpsServerOriginalHead.cfg` | is HEAD of a file answered with the headers? **No.** | 3 requests |
| `pool` | `MCPoolServer`, `MCPoolServer.cfg` | is a script that runs alone answered with its own output, is an object abandoned only where known, does Stop end the threads, and does the server implement `HttpExchange`? | 2 connections, 2 threads, 15 requests (each way through the handlers, both output files) |
| `small` | `MCSmallHttpServer`, `MCSmallHttpServer.cfg` | is the deadline enforced whatever clients do, are connections released, is no number given twice, does a later client get a larger one, does the server implement `HttpExchange`? | 2 connections, 3 requests; requests for a number come while the counter is below 2 |

Why the bounds are enough.  Connections meet only in the accept, in `running` and
in `cgi_sh`; two of them give every interference (one waits while the other's
script runs; one finds the file of the other), and the objects are reused, so
sequences of any length over two live connections are covered.  One fault suffices
for a file that is left behind, and a second adds nothing that one does not
do.  The tests of `filechecks` relate a line to the last one that settled the
port, so three lines hold a settled port, what undoes it and what follows.
The theorems below cover all sizes for what they state.

A file left behind by a kill is met, and removed, by the next script of its kind, so two
kills cover one file that is left twice and two files that are left together.

In `small` the bound is on requests, so that the counter itself passes it: with two
connections three numbers are given.  That is enough for one shown on a connection that
is gone and two that are under way together and leave in either order.  The request for
`/time`, which the model has, is left out of the run: to what the run checks it is one
with a status and without a number, like that for a file.

In `PoolServer` two connections on two threads give every meeting of two handlers;
an object is used for one connection after another, so what an earlier request
leaves behind is covered too.

Deadlock is not checked where the system stops: the process that has ended
(`Bootstrap`, `PoolServer`, the violating runs of `HttpsServer` and `HttpsServerOriginal`), the longest output
(`page_empty`).  It is checked for `HttpServer`, `SmallHttpServer`, and, where the process is
started again, `HttpsServer` and `HttpsServerOriginal`.

**Findings.**  The runs that end in a violation each show a line of the repository
that the code does not live up to; `PROJECT.json` quotes the lines.  The counterexample
of `http_deadline` is a script that never ends; of `page_empty`, an empty
output, which gets the comment opener before the test; of `https_stop`, `Stop` while
the worker is in `accept`; of `https_missing`,
a 404 with a size that was never set and no buffer; of `https_original_head`, HEAD of a file
that is not empty, whose size is set for the headers and makes `SendResponse` send a body
from a null pointer.  In the same place as
`https_missing`: the responses 400 and 505 use the same two members.  `main.cpp:85` also
prints "Revert to port 80" for a server that takes the configured port.

Seen in the models, and not runs of their own.  A port out of range leaves the port of an
earlier line (`PortLine`), although the comment on that line of `filechecks` says "or use
default" (`functions.hpp:65`); `PortAsConfigured` and the theorem about it leave out the
files on which code and comment disagree.  Two scripts of the same kind
on two threads of `PoolServer` use one output file, and may be answered with each
other's output; `OwnOutputIfAlone` is about the others.  A GET of `/` writes the
default index page over one of the user, which that page itself asks to
replace.

**Fairness.**  `LoopFairness`: the `io_context` runs queued handlers in turn, so
each connection, and the acceptor, is served again and again; a script that runs
for one connection disables the steps of the others for a while, and may do so
again and again, which is why strong fairness is needed (`Turn`).  Time
passes (`WF(Expire)`).  Nothing is assumed about clients: they may never connect,
send or read.  `ScriptsEnd` is not the code's to give and therefore separate:
`http_live` assumes it, `http_deadline` does not.  `ServerSpec` of `HttpsServer`
says that both threads run when they are not blocked; `ClientSpec` adds that
blocking calls return, that is, that clients come and scripts end.  `OriginalClientSpec` is the same
for `HttpsServerOriginal`.  `LoopSpec` of `SmallHttpServer` needs weak fairness only: no step of
one connection disables those of another, since nothing waits on the thread.  `ThreadSpec` of
`PoolServer` says that the main thread and every thread that is in a handler run,
and that scripts end; no operation has to complete, since `Stop` does not wait for
any.

## 4. The proofs

`tlapm` checks every proof; no step is left without one.

`HttpServer_proofs`, for any set of connections, requests, outputs and any
bound on faults, from `HttpAssumption` alone:

- `Invariance`: `Spec => []IInv`.  The properties are not inductive by themselves.
  `IInv` adds to `TypeOK`: **Coupled**, how the fields of one connection go
  together (which operations can exist in which state of the socket, that there
  is a request once the read succeeded and a response once a write exists, that
  the wait is there as long as the socket is open, that what was sent is the
  response); **ScriptOwner**, that the connection whose script runs has a request
  that needs one and its read handler has not returned; **CgiFile**, that without
  a fault `cgi.sh` exists only while its owner's script runs.  `DeadlineArmed`, for instance, is not
  inductive: that the write handler cancels the wait only after the shutdown
  needs Coupled.
- `TypeCorrect`, `DeadlineAlwaysArmed`, `NoPendingOperation`, `OwnScriptOnly`:
  the invariants of the run `http` follow from `IInv`.
- `ResponsesFrozen`: the action property of that run; `IInv` is needed to
  exclude a second read handler after a response was built.
- `Refinement`: `Spec => ImplementsExchange`.  `InitIInv` and the definitions give
  the initial states; `ExchangeStep` goes through the actions with `OneMove`,
  which reduces a change of one connection to a step of its exchange.
- The lemmas `ReplaceFirstType` and `ScriptBodyType` say that the page of any
  output is a sequence of tokens.

`Bootstrap_proofs`, for every set of configuration files: `Invariance` with
`TypeCorrect`, `PortCorrect` and `FileCorrect`.  The inductive invariant
relates the port to the lines before `at` (**PortOfLastLine**, which also says what the
code makes of a port out of range: nothing) and says that those lines neither
threw nor disabled the server.

`SmallHttpServer_proofs`, for any set of connections and requests and any bound on the
counter, from `SmallAssumption`: `TypeCorrect`, `NumbersOrdered` and `Refinement`.
`IInv` adds to `TypeOK` the coupling of one connection (**Coupled**, here with the
status that belongs to the request), and **NumbersBelow** and **HistoryBelow**, that no
number in a response, shown so far or noted when a request came is above the counter.
Only a read handler gives a connection a number (step `<1>b` of `NextIInv` covers the
other actions); it is the counter's next, which is above all of these.  The
refinement goes through `OneMove` and `ExchangeStep` as for `HttpServer`.

`PoolServer_proofs`, for any number of connections and threads: `TypeCorrect`,
`OwnOutputCorrect` and `AbandonedCorrect`.  `OwnOutputIfAlone` is not
inductive: `IInv` adds **OutputUnderWay**, that an output file holds only what scripts
have written that are between start and removal; **MeetingNoticed**, that two such
scripts on one file both know of a meeting; and **ReadAfterScript**, that an output
is only held after the script.  Most steps change one object and go through the
lemma `OneService`; `StartScript`, which adds to the shared file, has a lemma of its
own.  The lemmas `Updated...` state that a record with changed members keeps its
type.

`PoolExchange_proofs`: `Refinement`, for any number of connections and threads.  It needs
**AllFit**: what each object has at its place in the handlers, and that from "send"
on its status and its buffer are an answer its request may get (`AllFitInvariance`).
`NextMoves` says that every step moves one object as the exchange allows, and leaves
the others as the exchange sees them; `StartScript`, which notes its meeting in other
objects, is the one that needs the second half.  `MoveStep` takes such a move to a step
of `HttpExchange`.

`HttpsServer_proofs`, for any words, requests and number of kills, from
`HttpsAssumption`: `TypeCorrect`, `OneReply`, `ResourceThere`, `ConsistentReplies`,
`SilentCases`, `MixedBounded`, `StopBounded` and `Refinement`.  None of these properties
is inductive.  `IInv` adds to `TypeOK`:

- **ServiceFits**, what the service has at each place of the worker: nothing set before
  a handler (`Blank`), a request with status 0, and so a known method and a resource, in
  a handler (`Accepted`; `QuestionsType` gets this from the parser, for any words),
  status, buffer and request that go together before `SendResponse` (`Ready`), and a
  reply, an exception or one of the silent cases after it (`Done`).
- **StopSeen**: the client that was accepted after Stop is the last, since the flag is
  read before the worker comes to accept again.
- **LeftBehind**: the mixed replies so far and the output files that hold something a
  dead process has left are together at most the kills.  A kill may leave one file,
  since one script runs at a time (`LeftKill`); the next script of its kind turns the
  file into at most one mixed reply (`LeftEndScript`).

Every step of the worker is reduced to `Goes(place, service)`, which says that it arrives
at a place where the service fits and that the exchange moves on the way as
`HttpExchange` allows; the invariant and the refinement (`EveryStepMoves`, `MoveStep`)
both follow from this.  The lemmas `Set...` say what a service with one changed member is.

`HttpsServerOriginal_proofs`, from the same assumption: `OriginalTypeCorrect`,
`OriginalOneReply`, `OriginalStopBounded`, `OriginalSilentCases`, `OriginalMixedBounded` and `OriginalRefinement`.  (`OriginalStopBounded` states
`AtMostOneAfterStop`, which only the run `https` checks: both servers have this loop.)  **OriginalFits** has the places of five
handlers and the requests of this parser; `StopSeen` and `LeftBehind`, and the lemmas about
them, are those of `HttpsServer`, whose actions these are.

`ScriptPage_proofs`: `DocumentAlwaysShown`, for outputs of any length.  It needs no induction
over the output: `PageWithDocument` says, position by position, that the page is the
output with two tokens put in, the opener in front and the closer before the first
"html", and `DocumentIsShown` compares what is hidden at a position of the page and at the same
position of the document.  That a set of positions has a first one (`FirstIs`) comes from the
well-foundedness of the order on the naturals.  The theorem is about `ScriptBody` and
`replace` as such; the outputs are those of `MCScriptPage`, any sequence of what
scripts write, whatever `MaxLen` is.

Only model-checked: liveness (`EveryConnectionReleased`, `AcceptsAgain`,
`DeadlineEnforced`, `StopStops`), which TLAPS does not prove under fairness.  Every
invariant, action property and refinement of a passing run is a theorem.  The other way
round, `AtMostOneAfterStop` of `HttpsServerOriginal` and `DocumentShown` are theorems without
a run of their own (TLC also finds `DocumentShown` true of all outputs of up to six tokens).

## 5. Plan

Done: every part of the system that has a program is modelled, and every safety
property that a run checks is proved for all values of the constants.  What is left:

1. More that can be said and proved of the parts that are there: for
   `HttpsServerOriginal` how status and body go together (`ReplyConsistent` has HEAD,
   DELETE and OPTIONS to deal with there), for `PoolServer` at most one reply for a
   request in the terms of its own state.
2. The safety half of liveness: that a thread that has begun a handler never waits
   for another one, as an invariant.
