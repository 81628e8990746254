------------------------- MODULE HttpsServerOriginal -------------------------
(***************************************************************************)
(* The synchronous server of original/https_web_server, which became       *)
(* https.hpp: HttpsServer, HttpsAcceptor and HttpsService with a main of   *)
(* its own.                                                                *)
(*                                                                         *)
(* What https.hpp has kept as it was is taken from HttpsServer, each part  *)
(* under a name of its own.  What differs: the index page is index.html,   *)
(* the parser knows eight methods, and HEAD, DELETE and OPTIONS have       *)
(* handlers; three of the eight have none.  The resource "index" is the    *)
(* index page by its name.                                                 *)
(***************************************************************************)
EXTENDS HttpsServer

Handled == {"GET", "POST", "HEAD", "DELETE", "OPTIONS"}
Known   == Handled \cup {"PUT", "CONNECT", "TRACE"}

\* Mutant of ParseRequest: an unknown method gets 501.
ParseRequest501(q) ==
    [method   |-> Word(q, 1),
     resource |-> Word(q, 2),
     status   |-> IF Word(q, 3) # "HTTP/1.1" THEN 505
                  ELSE IF Word(q, 1) \notin Known THEN 501
                  ELSE 0]

\* The status is that of the last test that failed.
ParseRequest(q) ==
    [method   |-> Word(q, 1),
     resource |-> Word(q, 2),
     status   |-> IF Word(q, 3) # "HTTP/1.1" THEN 505
                  ELSE IF Word(q, 1) \notin Known THEN 400
                  ELSE 0]

-----------------------------------------------------------------------------
(***************************************************************************)
(* The two threads, as in https.hpp.                                       *)
(***************************************************************************)

\* HttpsServer::Start, then main sleeps.
StartServer == Start

\* HttpsServer::Stop stores m_Stop and joins; main returns.
StopServer == Stop \/ Join

\* The constructor of HttpsAcceptor.
Listen == Construct

\* HttpsServer::StartAcceptor.
Loop == CheckStop

\* HttpsAcceptor::Start, before and after the request is handled.
AcceptClient == Accept
EndClient    == Finished

-----------------------------------------------------------------------------
(***************************************************************************)
(* HttpsService.                                                           *)
(***************************************************************************)

\* The handler of exceptions in HttpsHandleRequest.
CatchError == Caught

ReadRequest ==
    /\ At("read_until")
    /\ \E q \in Requests :
          IF q.text
            THEN Goto("HttpsHandleRequest", [service EXCEPT !.request = ParseRequest(q)])
            ELSE Terminates
    /\ UNCHANGED others

\* The switch over the method; the methods without a handler do nothing.
HandlerOf(method) ==
    CASE method = "GET"     -> "ProcessGetRequest"
      [] method = "POST"    -> "ProcessPostRequest"
      [] method = "HEAD"    -> "ProcessHeadRequest"
      [] method = "DELETE"  -> "ProcessDeleteRequest"
      [] method = "OPTIONS" -> "ProcessOptionsRequest"
      [] OTHER              -> "Finished"

DispatchRequest ==
    /\ At("HttpsHandleRequest")
    /\ LET request == service.request
       IN  IF request.status # 0
             THEN Goto("SendResponse", [service EXCEPT !.code = request.status])
             ELSE Goto(HandlerOf(request.method), service)
    /\ UNCHANGED others

(***************************************************************************)
(* The look at a path, with i the index page at that time; whether any     *)
(* other path is there is a choice.                                        *)
(***************************************************************************)
IsIndex ==
    \/ service.request.resource = "index"
    \/ service.request.resource = "/" /\ service.request.method = "GET"

Exists(i) == IsIndex => i # "absent"

NotThere(i) ==
    /\ IsIndex => i = "absent"
    /\ Goto("SendResponse", [service EXCEPT !.code = 404])

CannotLook == Goto("Finished", [service EXCEPT !.caught = TRUE])

CannotOpen(i) == Exists(i) /\ Goto("Finished", [service EXCEPT !.code = 500])

\* A directory has a size that is not one, for which there is no memory.
ProcessGetRequest ==
    /\ At("ProcessGetRequest")
    /\ ~ IsScript(service.request.resource)
    /\ WriteIndex
    /\ \/ CannotLook
       \/ NotThere(index')
       \/ CannotOpen(index')
       \/ /\ Exists(index')
          /\ \E size \in {0, 1} :
                Goto("SendResponse", [service EXCEPT !.size = size, !.buffer = "file"])
       \/ ~ IsIndex /\ Terminates
    /\ UNCHANGED <<output, afterStop, faults, mixed>>

GetToPost == GetScript

\* ProcessPostRequest: the path is missing or no script, or the script is run.
ProcessPostRequest ==
    \/ /\ At("ProcessPostRequest")
       /\ CannotLook \/ NotThere(index)
       /\ UNCHANGED others
    \/ PostNoScript
    \/ PostScript

ExecuteProgram == EndScript

\* Mutant of ProcessHeadRequest: the file is read as for GET.
ProcessHeadRequestReading ==
    /\ At("ProcessHeadRequest")
    /\ \/ CannotLook
       \/ NotThere(index)
       \/ CannotOpen(index)
       \/ /\ Exists(index)
          /\ \E size \in {0, 1} :
                Goto("SendResponse", [service EXCEPT !.size = size, !.buffer = "file"])
    /\ UNCHANGED others

\* ProcessHeadRequest takes the size of the file, and of a directory, and
\* no buffer.
ProcessHeadRequest ==
    /\ At("ProcessHeadRequest")
    /\ \/ CannotLook
       \/ NotThere(index)
       \/ CannotOpen(index)
       \/ /\ Exists(index)
          /\ \E size \in {0, 1, Junk} :
                Goto("SendResponse", [service EXCEPT !.size = size])
    /\ UNCHANGED others

\* Mutant of ProcessDeleteRequest: it returns after the removal.
ProcessDeleteRequestSilent ==
    /\ At("ProcessDeleteRequest")
    /\ \/ (CannotLook \/ NotThere(index)) /\ UNCHANGED index
       \/ /\ Exists(index)
          /\ index' \in IF IsIndex THEN {index, "absent"} ELSE {index}
          /\ Goto("Finished", service)
    /\ UNCHANGED <<output, afterStop, faults, mixed>>

\* ProcessDeleteRequest: whether the removal succeeds is not looked at, and
\* no status is set.
ProcessDeleteRequest ==
    /\ At("ProcessDeleteRequest")
    /\ \/ (CannotLook \/ NotThere(index)) /\ UNCHANGED index
       \/ /\ Exists(index)
          /\ index' \in IF IsIndex THEN {index, "absent"} ELSE {index}
          /\ Goto("SendResponse", service)
    /\ UNCHANGED <<output, afterStop, faults, mixed>>

\* ProcessOptionsRequest: no status is set.
ProcessOptionsRequest ==
    /\ At("ProcessOptionsRequest")
    /\ Goto("SendResponse", service)
    /\ UNCHANGED others

\* SendResponse.
SendReply == SendResponse

-----------------------------------------------------------------------------
OriginalMainThread == StartServer \/ StopServer

OriginalWaiting ==
    \/ AcceptClient
    \/ Handshake
    \/ ReadRequest
    \/ ExecuteProgram

OriginalComputing ==
    \/ Listen
    \/ Loop
    \/ DispatchRequest
    \/ ProcessGetRequest
    \/ GetToPost
    \/ ProcessPostRequest
    \/ ProcessHeadRequest
    \/ ProcessDeleteRequest
    \/ ProcessOptionsRequest
    \/ SendReply
    \/ EndClient

OriginalNext ==
    OriginalMainThread \/ OriginalWaiting \/ OriginalComputing \/ CatchError \/ Kill \/ Restart

OriginalSpec == Init /\ [][OriginalNext]_vars

\* Both threads run, clients keep coming and send their requests, scripts end.
OriginalClientSpec ==
    /\ OriginalSpec
    /\ WF_vars(OriginalMainThread) /\ WF_vars(OriginalComputing) /\ WF_vars(OriginalWaiting)

-----------------------------------------------------------------------------
\* The type invariant.
OriginalTypeOK ==
    /\ worker \in Places \cup {"ProcessHeadRequest", "ProcessDeleteRequest",
                              "ProcessOptionsRequest"}
    /\ DataOK

(***************************************************************************)
(* A connection that met no error is closed with a reply, except in three  *)
(* cases: a file that exists and cannot be opened, for GET and HEAD        *)
(* (status 500, not sent), POST to something that is no script, and PUT,   *)
(* CONNECT and TRACE, which the parser knows and the switch does not.      *)
(***************************************************************************)
OriginalSilentOnlyKnown ==
    worker = "Finished" /\ ~ service.caught /\ service.reply = None =>
        LET request == service.request
        IN  /\ request.status = 0
            /\ \/ request.method \in {"GET", "HEAD"} /\ service.code = 500
               \/ request.method = "POST" /\ ~ IsScript(request.resource)
               \/ request.method \in Known \ Handled

(***************************************************************************)
(* "process head request by sending only headers not file"                 *)
(* (HttpsService.cpp): a HEAD request for a file that is there and can be  *)
(* opened (and is no directory, the size of which is Junk) is answered.    *)
(* The code sets m_ResourceSizeInBytes for the headers and makes no        *)
(* buffer, and SendResponse, which does not know of methods, sends that    *)
(* many bytes from the null pointer.                                       *)
(***************************************************************************)
HeadAnswered ==
    worker = "SendResponse" /\ service.request.method = "HEAD"
      /\ service.request.status = 0 /\ service.code # 404 /\ service.size # Junk
        => alive

(***************************************************************************)
(* The server implements HttpExchange: a reply with a body goes to GET and *)
(* POST only.                                                              *)
(***************************************************************************)
OriginalAnswersTo(r) ==
    IF r.status = 0 /\ r.method \in Handled \ {"GET", "POST"}
      THEN [code : {200, 404, Junk}, body : {None}]
    ELSE IF r.status = 0 /\ r.method \notin Handled THEN {}
    ELSE AnswersTo(r)

OriginalQuestions == {ParseRequest(q) : q \in {r \in Requests : r.text}}

OriginalExchange == INSTANCE HttpExchange WITH
    Clients  <- {"client"},
    Requests <- OriginalQuestions,
    Answers  <- [r \in OriginalQuestions |-> OriginalAnswersTo(r)],
    phase    <- [c \in {"client"} |-> Phase],
    question <- [c \in {"client"} |-> IF service = None THEN None ELSE service.request],
    answer   <- [c \in {"client"} |-> IF service = None THEN None ELSE service.reply]

\* Eight methods, five handlers that hand over to each other and a buffer
\* that outlives none of them: a client gets one answer at most, one that its
\* method and path allow, and the answers to HEAD, DELETE and OPTIONS never
\* carry what was read for GET or POST.
OriginalImplementsExchange == OriginalExchange!Spec
=============================================================================
