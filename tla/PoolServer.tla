----------------------------- MODULE PoolServer -----------------------------
(***************************************************************************)
(* The asynchronous server of original/http_web_server, from which the     *)
(* request handling of https.hpp comes: HttpServer, HttpAcceptor and       *)
(* HttpService, with a pool of threads that run the handlers of one        *)
(* io_service.                                                             *)
(*                                                                         *)
(* Each connection has an HttpService, which has one operation outstanding *)
(* (a read, then a write) or runs in one handler, on any thread that is    *)
(* free.  Handlers of different connections run at the same time: a        *)
(* handler is cut into actions where it uses what they share, the files    *)
(* served and the two files the output of scripts goes to.                 *)
(*                                                                         *)
(* Nothing catches what a handler throws (the client is gone when its      *)
(* address is asked for or the socket is shut down, a path cannot be       *)
(* looked at, there is no buffer for what was opened, a program cannot be  *)
(* started) or its access through a null pointer (no request in an empty   *)
(* text, which is also what a failed read leaves): the process ends        *)
(* (alive = FALSE).  Two threads in the status table, one of which adds an *)
(* unknown code, have the same outcomes.                                   *)
(***************************************************************************)
EXTENDS Naturals, FiniteSets

CONSTANTS
    Conns,      \* the HttpService objects that can exist at the same time
    Threads,    \* the size of the pool
    Requests,   \* the requests clients send
    None

\* PUT stands for the methods without a handler: PUT, CONNECT, TRACE.
Methods   == {"GET", "POST", "HEAD", "DELETE", "OPTIONS", "PUT", "other"}
Resources == {"/", "index", "file", "php", "py"}

\* http11: the version is HTTP/1.1.
Request == [method : Methods, resource : Resources, http11 : BOOLEAN]

ASSUME PoolAssumption ==
    /\ IsFiniteSet(Conns)
    /\ Threads \in Nat \ {0}
    /\ Requests \subseteq Request
    /\ None \notin Request

VARIABLES
    main,         \* where the main thread is
    m_IsStopped,
    stopped,      \* the io_service is stopped
    alive,        \* the process runs
    accept,       \* the accept: outstanding, or the acceptor closed
    service,      \* the HttpService objects
    files,        \* the resources that exist
    output        \* for each output file, whose scripts have written to it;
                  \* empty if there is no such file

vars == <<main, m_IsStopped, stopped, alive, accept, service, files, output>>

-----------------------------------------------------------------------------
(***************************************************************************)
(* An HttpService.  at: the operation outstanding ("read_until", "write"), *)
(* the place in the handler, "none" (no object) or "left" (the handler has *)
(* returned and no operation is outstanding).  buffer, writers: what       *)
(* m_ResourceBuffer was read from, and whose output that was.  met: the    *)
(* scripts with the same output file that were under way at the same time. *)
(***************************************************************************)
InHandler == {"dispatch", "exists", "open", "script", "remove", "send"}

Service ==
    [at      : InHandler \cup {"none", "read_until", "write", "left"},
     request : Requests \cup {None},
     code    : {200, 400, 404, 500, 505, None},
     buffer  : {"none", "file", "output"},
     writers : SUBSET Conns,
     met     : SUBSET Conns]

NoService ==
    [at |-> "none", request |-> None, code |-> None, buffer |-> "none",
     writers |-> {}, met |-> {}]

\* boost::contains ".php", ".cgi", ".py" or ".pl"; py stands for the last three.
IsScript(q) == q.resource \in {"php", "py"}

OutputFiles == {"tempfile", "cgi_tempfile"}
OutputFile(q) == IF q.resource = "php" THEN "tempfile" ELSE "cgi_tempfile"

\* The file a request is about: "/" is the index for GET only.
Path(q) == IF q.method = "GET" /\ q.resource = "/" THEN "index" ELSE q.resource

\* Mutant of StatusOf: the parser reports the methods without a handler, with
\* a code the table of codes does not have.
StatusOfNotAllowed(q) ==
    IF ~ q.http11 THEN 505 ELSE IF q.method = "other" THEN 400
    ELSE IF q.method = "PUT" THEN 405 ELSE 0

\* The status is that of the last test that failed, 0 if none did.
StatusOf(q) ==
    IF ~ q.http11 THEN 505 ELSE IF q.method = "other" THEN 400 ELSE 0

Init ==
    /\ main = "sleep_for"
    /\ m_IsStopped = FALSE
    /\ stopped = FALSE
    /\ alive = TRUE
    /\ accept = "pending"
    /\ service = [c \in Conns |-> NoService]
    /\ files = Resources
    /\ output = [f \in OutputFiles |-> {}]

\* A thread of the pool is free to run the handler of a finished operation.
ThreadFree ==
    /\ alive /\ ~ stopped
    /\ Cardinality({c \in Conns : service[c].at \in InHandler}) < Threads

Running(c, place) == alive /\ service[c].at = place

\* The service of c goes on with some members changed.
Becomes(c, s) ==
    /\ service' = [service EXCEPT ![c] = s]
    /\ UNCHANGED <<main, m_IsStopped, stopped, alive, accept>>

Terminates ==
    /\ alive' = FALSE
    /\ UNCHANGED <<main, m_IsStopped, stopped, accept, service, files, output>>

-----------------------------------------------------------------------------
(***************************************************************************)
(* HttpAcceptor: the accept handler starts an HttpService, unless accept   *)
(* failed, and accepts the next client unless stopped.                     *)
(***************************************************************************)
AcceptNext ==
    /\ accept' = IF m_IsStopped THEN "closed" ELSE "pending"
    /\ UNCHANGED <<main, m_IsStopped, stopped, alive, files, output>>

Accept(c) ==
    /\ ThreadFree /\ accept = "pending"
    /\ service[c].at = "none"
    /\ service' = [service EXCEPT ![c] = [NoService EXCEPT !.at = "read_until"]]
    /\ AcceptNext

AcceptError ==
    /\ ThreadFree /\ accept = "pending"
    /\ AcceptNext
    /\ UNCHANGED service

-----------------------------------------------------------------------------
(***************************************************************************)
(* HttpService.                                                            *)
(***************************************************************************)

\* The read handler does not look at its error code: what was read is the
\* request, and nothing read ends the process.
ReadRequest(c) ==
    /\ ThreadFree /\ service[c].at = "read_until"
    /\ \/ \E q \in Requests :
             /\ Becomes(c, [service[c] EXCEPT !.at = "dispatch", !.request = q])
             /\ UNCHANGED <<files, output>>
       \/ Terminates

\* The status found by the parser, or the switch over the method.  A GET of
\* "/" writes the index.
Dispatch(c) ==
    /\ Running(c, "dispatch")
    /\ LET s == service[c]
           q == s.request
       IN  /\ CASE StatusOf(q) # 0 ->
                      Becomes(c, [s EXCEPT !.at = "send", !.code = StatusOf(q)])
                [] StatusOf(q) = 0 /\ q.method = "PUT" ->
                      Becomes(c, [s EXCEPT !.at = "left"])
                [] StatusOf(q) = 0 /\ q.method = "OPTIONS" ->
                      Becomes(c, [s EXCEPT !.at = "send"])
                [] OTHER ->
                      Becomes(c, [s EXCEPT !.at = "exists"])
           /\ IF StatusOf(q) = 0 /\ q.method = "GET" /\ q.resource = "/"
                THEN files' \in {files \cup {"index"}, files}
                ELSE UNCHANGED files
    /\ UNCHANGED output

\* Mutant of Exists: the status is set to 404 and nothing is sent, as in the
\* branch for a file that cannot be opened.
ExistsNotSent(c) ==
    /\ Running(c, "exists")
    /\ \/ /\ IF Path(service[c].request) \in files
               THEN Becomes(c, [service[c] EXCEPT !.at = "open"])
               ELSE Becomes(c, [service[c] EXCEPT !.at = "left", !.code = 404])
          /\ UNCHANGED <<files, output>>
       \/ Terminates

\* boost::filesystem::exists, in each handler but that of OPTIONS.
Exists(c) ==
    /\ Running(c, "exists")
    /\ \/ /\ IF Path(service[c].request) \in files
               THEN Becomes(c, [service[c] EXCEPT !.at = "open"])
               ELSE Becomes(c, [service[c] EXCEPT !.at = "send", !.code = 404])
          /\ UNCHANGED <<files, output>>
       \/ Terminates

\* Mutant of OpenFile: the file is read for HEAD as for GET.
OpenFileReading(c) ==
    /\ Running(c, "open")
    /\ LET s == service[c]
       IN  /\ \/ s.request.method = "HEAD"
              \/ s.request.method = "GET" /\ ~ IsScript(s.request)
           /\ \/ /\ Path(s.request) \in files
                 /\ Becomes(c, [s EXCEPT !.at = "send", !.buffer = "file"])
              \/ Becomes(c, [s EXCEPT !.at = "left", !.code = 500])
    /\ UNCHANGED <<files, output>>

\* GET and HEAD of a file: it is opened, if it is still there and readable,
\* or 500 is set and nothing sent.  A directory can be opened, but has no
\* size: GET gets no buffer for it.
OpenFile(c) ==
    /\ Running(c, "open")
    /\ LET s == service[c]
       IN  /\ \/ s.request.method = "HEAD"
              \/ s.request.method = "GET" /\ ~ IsScript(s.request)
           /\ \/ /\ Path(s.request) \in files
                 /\ Becomes(c, [s EXCEPT !.at = "send",
                                         !.buffer = IF s.request.method = "GET"
                                                      THEN "file" ELSE @])
              \/ Becomes(c, [s EXCEPT !.at = "left", !.code = 500])
              \/ /\ s.request.method = "GET" /\ Path(s.request) \in files
                 /\ Terminates
    /\ UNCHANGED <<files, output>>

\* DELETE: std::remove, which fails on the directory.
DeleteFile(c) ==
    /\ Running(c, "open")
    /\ service[c].request.method = "DELETE"
    /\ files' \in {files, files \ ({service[c].request.resource} \ {"/"})}
    /\ Becomes(c, [service[c] EXCEPT !.at = "send"])
    /\ UNCHANGED output

\* POST of what is no script: nothing is sent.
PostNoScript(c) ==
    /\ Running(c, "open")
    /\ service[c].request.method = "POST" /\ ~ IsScript(service[c].request)
    /\ Becomes(c, [service[c] EXCEPT !.at = "left"])
    /\ UNCHANGED <<files, output>>

\* The scripts under way with the same output file.
Others(c) ==
    {d \in Conns \ {c} :
        /\ service[d].at \in {"script", "remove"}
        /\ OutputFile(service[d].request) = OutputFile(service[c].request)}

\* ExecuteProgram: boost::process::system opens the output file, which it
\* makes if there is none, and starts the program.
StartScript(c) ==
    /\ Running(c, "open")
    /\ service[c].request.method \in {"GET", "POST"} /\ IsScript(service[c].request)
    /\ \/ LET f == OutputFile(service[c].request)
          IN  /\ output' = [output EXCEPT ![f] = @ \cup {c}]
              /\ service' =
                   [d \in Conns |->
                      IF d = c
                        THEN [service[c] EXCEPT !.at = "script", !.met = Others(c)]
                      ELSE IF d \in Others(c)
                        THEN [service[d] EXCEPT !.met = @ \cup {c}]
                      ELSE service[d]]
              /\ UNCHANGED <<main, m_IsStopped, stopped, alive, accept, files>>
       \/ Terminates

\* The program has ended: the output file, if there is one and it can be
\* opened, is read into m_ResourceBuffer.
EndScript(c) ==
    /\ Running(c, "script")
    /\ LET written == output[OutputFile(service[c].request)]
       IN  \/ /\ written # {}
              /\ Becomes(c, [service[c] EXCEPT !.at = "remove", !.code = 200,
                                               !.buffer = "output",
                                               !.writers = written])
           \/ Becomes(c, [service[c] EXCEPT !.at = "remove", !.code = 500])
    /\ UNCHANGED <<files, output>>

\* Mutant of RemoveOutput: the file stays if the program failed.
RemoveOutputOnSuccess(c) ==
    /\ Running(c, "remove")
    /\ IF service[c].code = 200
         THEN output' = [output EXCEPT ![OutputFile(service[c].request)] = {}]
         ELSE UNCHANGED output
    /\ Becomes(c, [service[c] EXCEPT !.at = "send"])
    /\ UNCHANGED files

\* std::remove of the output file, whoever made it.
RemoveOutput(c) ==
    /\ Running(c, "remove")
    /\ output' = [output EXCEPT ![OutputFile(service[c].request)] = {}]
    /\ Becomes(c, [service[c] EXCEPT !.at = "send"])
    /\ UNCHANGED files

\* SendResponse: the write is started and the handler returns.
SendResponse(c) ==
    /\ Running(c, "send")
    /\ \/ /\ Becomes(c, [service[c] EXCEPT !.at = "write"])
          /\ UNCHANGED <<files, output>>
       \/ Terminates

\* The write handler, whatever the result: Finish, which is delete this.
EndWrite(c) ==
    /\ ThreadFree /\ service[c].at = "write"
    /\ Becomes(c, NoService)
    /\ UNCHANGED <<files, output>>

-----------------------------------------------------------------------------
(***************************************************************************)
(* The main thread: HttpServer::Stop after five minutes.                   *)
(***************************************************************************)

\* HttpAcceptor::Stop.
StopAcceptor ==
    /\ alive /\ main = "sleep_for"
    /\ m_IsStopped' = TRUE
    /\ main' = "stop"
    /\ UNCHANGED <<stopped, alive, accept, service, files, output>>

\* Mutant of StopIOService: io_service::stop is not called, and the threads
\* have work as long as m_Work exists.
StopNothing ==
    /\ alive /\ main = "stop"
    /\ main' = "join"
    /\ UNCHANGED <<m_IsStopped, stopped, alive, accept, service, files, output>>

\* io_service::stop: no further handler is run.
StopIOService ==
    /\ alive /\ main = "stop"
    /\ stopped' = TRUE
    /\ main' = "join"
    /\ UNCHANGED <<m_IsStopped, alive, accept, service, files, output>>

\* The threads end when they return from the handlers they are in.
Join ==
    /\ alive /\ main = "join"
    /\ stopped
    /\ \A c \in Conns : service[c].at \notin InHandler
    /\ main' = "returned"
    /\ alive' = FALSE
    /\ UNCHANGED <<m_IsStopped, stopped, accept, service, files, output>>

MainThread == StopAcceptor \/ StopIOService \/ Join

\* A handler of c goes on, without waiting for anything but a script.
Handler(c) ==
    \/ Dispatch(c)
    \/ Exists(c)
    \/ OpenFile(c)
    \/ DeleteFile(c)
    \/ PostNoScript(c)
    \/ StartScript(c)
    \/ EndScript(c)
    \/ RemoveOutput(c)
    \/ SendResponse(c)

Next ==
    \/ MainThread
    \/ AcceptError
    \/ \E c \in Conns :
          \/ Accept(c)
          \/ ReadRequest(c)
          \/ Handler(c)
          \/ EndWrite(c)

Spec == Init /\ [][Next]_vars

(***************************************************************************)
(* Fairness.  A thread that is in a handler, and the main thread, run, and *)
(* scripts end.  No client has to come, to send or to read anything.       *)
(***************************************************************************)
ThreadSpec == Spec /\ WF_vars(MainThread) /\ \A c \in Conns : WF_vars(Handler(c))
-----------------------------------------------------------------------------
\* The type invariant.
TypeOK ==
    /\ main \in {"sleep_for", "stop", "join", "returned"}
    /\ m_IsStopped \in BOOLEAN
    /\ stopped \in BOOLEAN
    /\ alive \in BOOLEAN
    /\ accept \in {"pending", "closed"}
    /\ service \in [Conns -> Service]
    /\ files \subseteq Resources
    /\ output \in [OutputFiles -> SUBSET Conns]

(***************************************************************************)
(* A script that had its output file for itself from its start to the      *)
(* removal is answered with its own output and nothing else: no earlier    *)
(* request, answered, failed or without an output, leaves anything in the  *)
(* file.                                                                   *)
(***************************************************************************)
OwnOutputIfAlone ==
    \A c \in Conns :
        service[c].buffer = "output" /\ service[c].met = {} => service[c].writers = {c}

(***************************************************************************)
(* An HttpService is only ever abandoned without a response, and never     *)
(* deleted, in the known cases: a method without a handler, POST to what   *)
(* is no script, and a file that was there when it was looked up and could *)
(* not be opened then, be it because another connection has deleted it.    *)
(***************************************************************************)
AbandonedOnlyKnown ==
    \A c \in Conns : service[c].at = "left" =>
        LET q == service[c].request
        IN  \/ q.method = "PUT"
            \/ q.method = "POST" /\ ~ IsScript(q)
            \/ q.method \in {"GET", "HEAD"} /\ service[c].code = 500

(***************************************************************************)
(* "stop the server." (HttpServer.cpp): unlike the HTTPS server, this one  *)
(* comes to its end by itself, with no client to wait for.                 *)
(***************************************************************************)
StopStops == m_IsStopped ~> main = "returned" \/ ~ alive

-----------------------------------------------------------------------------
(***************************************************************************)
(* The server implements HttpExchange.  A response counts as delivered     *)
(* when it is given to async_write; a client whose HttpService is left     *)
(* waits for its answer for ever.  code = None is a status that no         *)
(* function sets: the line is then what the constructor left in the        *)
(* member.  That is so for a file that is served, and for HEAD, DELETE and *)
(* OPTIONS of a path that is there.                                        *)
(***************************************************************************)
AnswersTo(q) ==
    IF StatusOf(q) # 0 THEN [code : {StatusOf(q)}, body : {"none"}]
    ELSE IF q.method = "PUT" THEN {}
    ELSE IF q.method = "OPTIONS" THEN [code : {None}, body : {"none"}]
    ELSE [code : {404}, body : {"none"}] \cup
         (IF q.method \in {"HEAD", "DELETE"} THEN [code : {None}, body : {"none"}]
          ELSE IF IsScript(q)
            THEN [code : {200}, body : {"output"}] \cup [code : {500}, body : {"none"}]
          ELSE IF q.method = "GET" THEN [code : {None}, body : {"file"}]
          ELSE {})

PhaseOf(s) ==
    CASE s.at = "none"                   -> "idle"
      [] s.at = "read_until"             -> "connected"
      [] s.at \in InHandler \cup {"left"} -> "asked"
      [] s.at = "write"                  -> "answered"

AnswerOf(s) == IF s.at = "write" THEN [code |-> s.code, body |-> s.buffer] ELSE None

Exchange == INSTANCE HttpExchange WITH
    Clients  <- Conns,
    Answers  <- [q \in Requests |-> AnswersTo(q)],
    phase    <- [c \in Conns |-> PhaseOf(service[c])],
    question <- [c \in Conns |-> service[c].request],
    answer   <- [c \in Conns |-> AnswerOf(service[c])]

\* However the handlers of several connections mix on the threads of the
\* pool, and whatever they do to each other's files, a request is answered
\* once at most, and with the kind of body that its own method and path call
\* for.  The status is promised only where the code sets one, and is then the
\* one for this request and this body: nothing is said of the status line of
\* a file that is served, or of HEAD, DELETE and OPTIONS.
ImplementsExchange == Exchange!Spec
=============================================================================
