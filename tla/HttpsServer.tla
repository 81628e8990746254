----------------------------- MODULE HttpsServer -----------------------------
(***************************************************************************)
(* The HTTPS server of https.hpp: HttpsServer, HttpsAcceptor and           *)
(* HttpsService, started and stopped by main (main.cpp).                   *)
(*                                                                         *)
(* Two threads: main starts the server, sleeps five minutes, stores m_Stop *)
(* and joins; the worker accepts one client at a time and does everything  *)
(* for it with blocking calls, with no timeout.  worker is where the       *)
(* worker is: the function it is in, or the blocking call.                 *)
(*                                                                         *)
(* HttpsHandleRequest catches boost::system::system_error, which ends the  *)
(* connection (service.caught).  Any other exception, an exception thrown  *)
(* outside of it and an access through a null pointer end the process      *)
(* (alive = FALSE), and so does main when it returns.  It may be killed at *)
(* any moment, and started again: what it then finds is what the processes *)
(* before it have left in the directory of the programs.                   *)
(*                                                                         *)
(* HttpsService::HttpsService initializes neither m_ResponseStatusCode nor *)
(* m_ResourceSizeInBytes: they hold any value, Junk standing for the ones  *)
(* that are no status of the table, or not zero.                           *)
(***************************************************************************)
EXTENDS RequestParser

CONSTANTS
    Words,      \* the strings between blanks that clients send
    Requests,   \* the requests clients send
    MaxFaults,  \* how often the process is killed
    Junk,
    None

Request == [words : {w \in Seq(Words) : Len(w) <= 3}, text : BOOLEAN]

\* HttpRequest as the parser leaves it.
Parsed ==
    [method : Words \cup {Empty}, resource : Words \cup {Empty}, status : {0, 400, 505}]

Codes == {200, 400, 404, 500, 505, Junk}
Sizes == {0, 1, Junk}
Buffers == {None, "file", "output"}

Reply == [code : Codes, body : Buffers]

(***************************************************************************)
(* A service.  request: what was read, parsed.  code, size, buffer: the    *)
(* response to be (m_ResponseStatusCode, m_ResourceSizeInBytes,            *)
(* m_ResourceBuffer).  reply: the response the client got.  sends: calls   *)
(* of SendResponse.  caught: an exception was caught.                      *)
(***************************************************************************)
Service ==
    [request : Parsed \cup {None},
     code    : Codes,
     size    : Sizes,
     buffer  : Buffers,
     reply   : Reply \cup {None},
     sends   : Nat,
     caught  : BOOLEAN]

ASSUME HttpsAssumption ==
    /\ Empty \notin Words
    /\ Requests \subseteq Request
    /\ MaxFaults \in Nat
    /\ Junk \notin Nat /\ Junk # None
    /\ None \notin Parsed \cup Reply \cup Service \cup {"file", "output"}

VARIABLES
    main,       \* where the main thread is
    worker,     \* where the worker thread is
    m_Stop,
    alive,      \* the process runs
    service,    \* the HttpsService of the current connection, or None
    index,      \* the file programs/index.php
    output,     \* the two files the output of scripts goes to
    afterStop,  \* connections accepted since m_Stop was stored, up to 2
    faults,     \* times the process was killed
    mixed       \* replies with something that an earlier script has written

others == <<index, output, afterStop, faults, mixed>>
vars == <<main, worker, m_Stop, alive, service, others>>

-----------------------------------------------------------------------------
\* What a service may be when it is made.
NewServices ==
    [request : {None},
     code : {200, 404, Junk}, size : {0, Junk}, buffer : {None},
     reply : {None}, sends : {0}, caught : {FALSE}]

(***************************************************************************)
(* An output file is absent, or empty, or holds what one script has        *)
(* written, or what several have: it is opened without being cut, so that  *)
(* a longer output stays in part.                                          *)
(***************************************************************************)
OutputFiles == {"tempfile", "cgi_tempfile"}
OutputFile(resource) == IF resource = "php" THEN "tempfile" ELSE "cgi_tempfile"

Opened(f) == IF f = "absent" THEN "empty" ELSE f
Written(f) == IF f \in {"absent", "empty"} THEN "written" ELSE "mixed"

Init ==
    /\ main = "HttpsServer"
    /\ worker = "none"
    /\ m_Stop = FALSE
    /\ alive = TRUE
    /\ service = None
    /\ index \in {"absent", "user's"}
    /\ output = [f \in OutputFiles |-> "absent"]
    /\ afterStop = 0
    /\ faults = 0
    /\ mixed = 0

\* The worker goes on at another place, with the service in another state.
Goto(place, s) ==
    /\ worker' = place
    /\ service' = s
    /\ UNCHANGED <<main, m_Stop, alive>>

\* The process ends where it is.
Terminates ==
    /\ alive' = FALSE
    /\ UNCHANGED <<main, worker, m_Stop, service>>

At(place) == alive /\ worker = place

-----------------------------------------------------------------------------
(***************************************************************************)
(* The main thread.                                                        *)
(***************************************************************************)

\* HttpsServer::Start makes the worker thread.
Start ==
    /\ alive /\ main = "HttpsServer"
    /\ main' = "sleep_for"
    /\ worker' = "HttpsAcceptor"
    /\ UNCHANGED <<m_Stop, alive, service, others>>

\* HttpsServer::Stop after five minutes, whatever the worker is doing.
Stop ==
    /\ alive /\ main = "sleep_for"
    /\ m_Stop' = TRUE
    /\ main' = "join"
    /\ UNCHANGED <<worker, alive, service, others>>

Join ==
    /\ alive /\ main = "join" /\ worker = "ended"
    /\ main' = "returned"
    /\ alive' = FALSE
    /\ UNCHANGED <<worker, m_Stop, service, others>>

-----------------------------------------------------------------------------
(***************************************************************************)
(* The worker thread: HttpsAcceptor.                                       *)
(***************************************************************************)

\* The constructor takes the port and loads the certificates, or throws.
Construct ==
    /\ At("HttpsAcceptor")
    /\ \/ Goto("StartAcceptor", service)
       \/ Terminates
    /\ UNCHANGED others

\* Mutant of CheckStop: for(;;).
CheckStopNever ==
    /\ At("StartAcceptor")
    /\ Goto("accept", service)
    /\ UNCHANGED others

\* while(!m_Stop.load())
CheckStop ==
    /\ At("StartAcceptor")
    /\ Goto(IF m_Stop THEN "ended" ELSE "accept", service)
    /\ UNCHANGED others

\* accept blocks until a client comes.  It throws on any other result.
Accept ==
    /\ At("accept")
    /\ \/ /\ \E s \in NewServices : Goto("handshake", s)
          /\ afterStop' = IF m_Stop /\ afterStop < 2 THEN afterStop + 1 ELSE afterStop
       \/ Terminates /\ UNCHANGED afterStop
    /\ UNCHANGED <<index, output, faults, mixed>>

-----------------------------------------------------------------------------
(***************************************************************************)
(* The worker thread: HttpsService.                                        *)
(***************************************************************************)

\* A call throws boost::system::system_error: the client is gone, TLS
\* failed, the line is longer than the buffer.
Caught ==
    /\ \E place \in {"handshake", "read_until", "HttpsHandleRequest", "SendResponse"} :
          At(place)
    /\ Goto("Finished", [service EXCEPT !.caught = TRUE])
    /\ UNCHANGED others

Handshake ==
    /\ At("handshake")
    /\ Goto("read_until", service)
    /\ UNCHANGED others

\* What has come with the first line is taken for the request.  From an
\* empty text the parser makes no request, which is not tested.
Read ==
    /\ At("read_until")
    /\ \E q \in Requests :
          IF q.text
            THEN Goto("HttpsHandleRequest", [service EXCEPT !.request = GetHttpRequest(q)])
            ELSE Terminates
    /\ UNCHANGED others

\* Mutant of Dispatch: the switch does not depend on the status.
DispatchAnyStatus ==
    /\ At("HttpsHandleRequest")
    /\ LET method == service.request.method
       IN  IF method \notin {"GET", "POST"}
             THEN Goto("SendResponse", [service EXCEPT !.code = service.request.status])
             ELSE Goto(IF method = "GET"
                         THEN "ProcessGetRequest" ELSE "ProcessPostRequest", service)
    /\ UNCHANGED others

\* HttpsHandleRequest: the switch over the method, or the status found.
Dispatch ==
    /\ At("HttpsHandleRequest")
    /\ LET request == service.request
       IN  IF request.status # 0
             THEN Goto("SendResponse", [service EXCEPT !.code = request.status])
             ELSE Goto(IF request.method = "GET"
                         THEN "ProcessGetRequest" ELSE "ProcessPostRequest", service)
    /\ UNCHANGED others

\* ProcessGetRequest sends scripts on to ProcessPostRequest.
GetScript ==
    /\ At("ProcessGetRequest")
    /\ IsScript(service.request.resource)
    /\ Goto("ProcessPostRequest", service)
    /\ UNCHANGED others

\* For "/" the index page is written, whether it is there or not.
WriteIndex ==
    IF service.request.resource = "/"
      THEN index' \in {"default", index}
      ELSE UNCHANGED index

\* Whether a path is there is a choice, except for the index page.
Missing == service.request.resource = "/" => index' = "absent"
Present == service.request.resource = "/" => index' # "absent"

\* The rest of ProcessGetRequest: the path cannot be looked at, or is
\* missing, or cannot be opened, or it is a file, or a directory, whose size
\* is not a size.
GetFile ==
    /\ At("ProcessGetRequest")
    /\ ~ IsScript(service.request.resource)
    /\ WriteIndex
    /\ \/ Goto("Finished", [service EXCEPT !.caught = TRUE])
       \/ Missing /\ Goto("SendResponse", [service EXCEPT !.code = 404])
       \/ Present /\ Goto("Finished", [service EXCEPT !.code = 500])
       \/ /\ Present
          /\ \E size \in {0, 1} :
                Goto("SendResponse", [service EXCEPT !.size = size, !.buffer = "file"])
       \/ service.request.resource # "/" /\ Terminates
    /\ UNCHANGED <<output, afterStop, faults, mixed>>

\* Mutant of PostNoFile: the status is set and nothing sent, as in the branch
\* above it.
PostNoFileSilent ==
    /\ At("ProcessPostRequest")
    /\ \/ Goto("Finished", [service EXCEPT !.code = 404])
       \/ Goto("Finished", [service EXCEPT !.caught = TRUE])
    /\ UNCHANGED others

\* ProcessPostRequest for a path that is missing, or cannot be looked at.
PostNoFile ==
    /\ At("ProcessPostRequest")
    /\ \/ Goto("SendResponse", [service EXCEPT !.code = 404])
       \/ Goto("Finished", [service EXCEPT !.caught = TRUE])
    /\ UNCHANGED others

\* ProcessPostRequest for a path that is no script: nothing is sent.
PostNoScript ==
    /\ At("ProcessPostRequest")
    /\ ~ IsScript(service.request.resource)
    /\ Goto("Finished", service)
    /\ UNCHANGED others

\* ProcessPostRequest up to boost::process::system, which opens the output
\* file, and throws what is not a boost::system::system_error when the
\* program cannot be started.
PostScript ==
    /\ At("ProcessPostRequest")
    /\ IsScript(service.request.resource)
    /\ LET f == OutputFile(service.request.resource)
       IN  \/ Goto("ExecuteProgram", service) /\ output' = [output EXCEPT ![f] = Written(@)]
           \/ Terminates /\ output' = [output EXCEPT ![f] = Opened(@)]
    /\ UNCHANGED <<index, afterStop, faults, mixed>>

\* What is read from the output file when the script has ended.
ReadOutput(f) ==
    /\ \E size \in {0, 1} :
          Goto("SendResponse",
               [service EXCEPT !.code = 200, !.size = size, !.buffer = "output"])
    /\ mixed' \in IF output[f] = "mixed" THEN {mixed, mixed + 1} ELSE {mixed}

\* The output file cannot be opened.
NoOutput ==
    /\ Goto("SendResponse", [service EXCEPT !.code = 500])
    /\ UNCHANGED mixed

\* Mutants of EndScript: the status is not set to 200; the file stays when
\* it cannot be read.
EndScriptNoStatus ==
    /\ At("ExecuteProgram")
    /\ \/ \E size \in {0, 1} :
             Goto("SendResponse", [service EXCEPT !.size = size, !.buffer = "output"])
       \/ Goto("SendResponse", [service EXCEPT !.code = 500])
    /\ output' = [output EXCEPT ![OutputFile(service.request.resource)] = "absent"]
    /\ UNCHANGED <<index, afterStop, faults, mixed>>

EndScriptKeepingFile ==
    /\ At("ExecuteProgram")
    /\ LET f == OutputFile(service.request.resource)
       IN  \/ ReadOutput(f) /\ output' = [output EXCEPT ![f] = "absent"]
           \/ NoOutput /\ UNCHANGED output
    /\ UNCHANGED <<index, afterStop, faults>>

\* The script has ended: its output file is read, if it can be opened, and
\* removed.
EndScript ==
    /\ At("ExecuteProgram")
    /\ LET f == OutputFile(service.request.resource)
       IN  /\ ReadOutput(f) \/ NoOutput
           /\ output' = [output EXCEPT ![f] = "absent"]
    /\ UNCHANGED <<index, afterStop, faults>>

\* Mutant of SendResponse: the switch of HttpsHandleRequest has no break after
\* GET.
SendResponseNoBreak ==
    /\ At("SendResponse")
    /\ service.size = 0 \/ service.buffer # None
    /\ Goto(IF service.request.status = 0 /\ service.request.method = "GET"
               /\ service.sends = 0
              THEN "ProcessPostRequest" ELSE "Finished",
            [service EXCEPT !.sends = @ + 1])
    /\ UNCHANGED others

\* SendResponse: with a size that is not zero the buffer is sent, which ends
\* the process when there is none.
SendResponse ==
    /\ At("SendResponse")
    /\ IF service.size # 0 /\ service.buffer = None
         THEN Terminates
         ELSE Goto("Finished",
                   [service EXCEPT
                      !.sends = @ + 1,
                      !.size = 0,
                      !.reply = [code |-> service.code,
                                 body |-> IF service.size = 0 THEN None
                                          ELSE service.buffer]])
    /\ UNCHANGED others

\* Mutant of Finished: Start accepts in a loop of its own.
FinishedAccepting ==
    /\ At("Finished")
    /\ Goto("accept", None)
    /\ UNCHANGED others

\* HttpsAcceptor::Start returns: the stream and the service are destroyed.
Finished ==
    /\ At("Finished")
    /\ Goto("StartAcceptor", None)
    /\ UNCHANGED others

-----------------------------------------------------------------------------
(***************************************************************************)
(* Faults.                                                                 *)
(***************************************************************************)
Kill ==
    /\ alive /\ faults < MaxFaults
    /\ faults' = faults + 1
    /\ alive' = FALSE
    /\ UNCHANGED <<main, worker, m_Stop, service, index, output, afterStop, mixed>>

\* A process that has ended, in whatever way, is started again by somebody.
Restart ==
    /\ ~ alive
    /\ main' = "HttpsServer"
    /\ worker' = "none"
    /\ m_Stop' = FALSE
    /\ alive' = TRUE
    /\ service' = None
    /\ afterStop' = 0
    /\ UNCHANGED <<index, output, faults, mixed>>

-----------------------------------------------------------------------------
MainThread == Start \/ Stop \/ Join

\* The steps in which the worker waits for a client or a script.
Waiting ==
    \/ Accept
    \/ Handshake
    \/ Read
    \/ EndScript

Computing ==
    \/ Construct
    \/ CheckStop
    \/ Dispatch
    \/ GetScript
    \/ GetFile
    \/ PostNoFile
    \/ PostNoScript
    \/ PostScript
    \/ SendResponse
    \/ Finished

Next == MainThread \/ Waiting \/ Computing \/ Caught \/ Kill \/ Restart

Spec == Init /\ [][Next]_vars

(***************************************************************************)
(* Fairness.  Both threads run.  That a client comes and sends its         *)
(* request, and that a script ends, is a separate assumption.              *)
(***************************************************************************)
ServerSpec == Spec /\ WF_vars(MainThread) /\ WF_vars(Computing)
ClientSpec == ServerSpec /\ WF_vars(Waiting)
-----------------------------------------------------------------------------
\* The types of all variables but worker.
DataOK ==
    /\ main \in {"HttpsServer", "sleep_for", "join", "returned"}
    /\ m_Stop \in BOOLEAN
    /\ alive \in BOOLEAN
    /\ service \in Service \cup {None}
    /\ index \in {"absent", "user's", "default"}
    /\ output \in [OutputFiles -> {"absent", "empty", "written", "mixed"}]
    /\ afterStop \in 0 .. 2
    /\ faults \in 0 .. MaxFaults
    /\ mixed \in Nat

Places ==
    {"none", "HttpsAcceptor", "StartAcceptor", "accept", "handshake", "read_until",
     "HttpsHandleRequest", "ProcessGetRequest", "ProcessPostRequest",
     "ExecuteProgram", "SendResponse", "Finished", "ended"}

\* The type invariant.
TypeOK == worker \in Places /\ DataOK

(***************************************************************************)
(* However the handlers hand a request on to each other (GET to POST, POST *)
(* to ExecuteProgram), SendResponse is called at most once for it.         *)
(***************************************************************************)
AtMostOneReply == service # None => service.sends <= 1

(***************************************************************************)
(* The tests for an empty resource in both handlers never succeed: the     *)
(* parser finds the version only after a resource, and without a version   *)
(* nothing is dispatched.                                                  *)
(***************************************************************************)
ResourceNeverEmpty ==
    worker \in {"ProcessGetRequest", "ProcessPostRequest"} => service.request.resource # Empty

(***************************************************************************)
(* Status and body of a reply go together although three functions set     *)
(* them and two of them start as anything: a request that is refused gets  *)
(* its status and no body, without something read the status says so, and  *)
(* what a script wrote goes with 200 and to a request for a script only.   *)
(* (The status of a file is another matter: none is set.)                  *)
(***************************************************************************)
ReplyConsistent ==
    service # None /\ service.reply # None =>
        LET request == service.request
            reply   == service.reply
        IN  /\ request.status # 0 => reply = [code |-> request.status, body |-> None]
            /\ request.status = 0 /\ service.buffer = None =>
                   reply.code \in {404, 500} /\ reply.body = None
            /\ service.buffer = "output" => reply.code = 200 /\ IsScript(request.resource)
            /\ service.buffer = "file" => ~ IsScript(request.resource)

(***************************************************************************)
(* A connection that met no error is closed with a reply, except in two    *)
(* cases: a file that exists and cannot be opened (status 500, not sent),  *)
(* and POST to something that is no script.                                *)
(***************************************************************************)
SilentOnlyKnown ==
    worker = "Finished" /\ ~ service.caught /\ service.reply = None =>
        /\ service.request.status = 0
        /\ ~ IsScript(service.request.resource)
        /\ service.request.method = "GET" => service.code = 500

(***************************************************************************)
(* Output files are found again by later requests and later processes, and *)
(* are opened without being cut.  Whatever goes wrong in between (errors   *)
(* caught, an output that cannot be read, a program that cannot be         *)
(* started, a process that ends by itself), a reply holds something that   *)
(* an earlier script has written only after a process was killed, and one  *)
(* reply at most for each kill: the first that meets the file removes it.  *)
(***************************************************************************)
MixedOnlyAfterKill == mixed <= faults

(***************************************************************************)
(* The flag m_Stop is only read between two connections: the worker, which *)
(* may be in accept when it is stored, serves at most one more client.     *)
(***************************************************************************)
AtMostOneAfterStop == afterStop <= 1

(***************************************************************************)
(* "continue thread m_Thread until m_Stop becomes true" and "stop the      *)
(* server" (https.hpp): after Stop the thread comes to its end.  It does   *)
(* when clients keep coming and scripts end (ClientSpec), and does not by  *)
(* itself (ServerSpec).                                                    *)
(***************************************************************************)
StopStops == m_Stop ~> worker = "ended" \/ ~ alive

(***************************************************************************)
(* "check if file exists, otherwise set status code to 404 and send        *)
(* response to client" (https.hpp): the server does not go down on a       *)
(* request for a file that is missing.                                     *)
(***************************************************************************)
MissingFileAnswered ==
    worker = "SendResponse" /\ service.code = 404 /\ service.buffer = None => alive

-----------------------------------------------------------------------------
(***************************************************************************)
(* The server implements HttpExchange, for the one client it serves at a   *)
(* time.                                                                   *)
(***************************************************************************)
AnswersTo(r) ==
    IF r.status # 0 THEN {[code |-> r.status, body |-> None]}
    ELSE {[code |-> 404, body |-> None]} \cup
         (IF IsScript(r.resource)
            THEN [code : {500}, body : {None}] \cup [code : {200}, body : {None, "output"}]
          ELSE IF r.method = "GET"
            THEN [code : {200, Junk}, body : {None, "file"}]
                   \cup [code : {404}, body : {"file"}]
          ELSE {})

Phase ==
    IF service = None THEN "idle"
    ELSE IF service.reply # None THEN "answered"
    ELSE IF worker = "Finished" THEN "hung up"
    ELSE IF service.request = None THEN "connected"
    ELSE "asked"

Questions == {GetHttpRequest(q) : q \in {r \in Requests : r.text}}

Exchange == INSTANCE HttpExchange WITH
    Clients  <- {"client"},
    Requests <- Questions,
    Answers  <- [r \in Questions |-> AnswersTo(r)],
    phase    <- [c \in {"client"} |-> Phase],
    question <- [c \in {"client"} |-> IF service = None THEN None ELSE service.request],
    answer   <- [c \in {"client"} |-> IF service = None THEN None ELSE service.reply]

\* Through all the ways a request takes (GET to POST to ExecuteProgram, errors
\* caught in the middle, a process that ends and is started again) a client
\* gets one answer at most, one that its request allows, and none after the
\* handler has given up: the abstract specification of the plain HTTP server,
\* with other answers.
ImplementsExchange == Exchange!Spec
=============================================================================
