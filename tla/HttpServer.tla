----------------------------- MODULE HttpServer -----------------------------
(***************************************************************************)
(* The plain HTTP server of http.hpp: class http_connection and the accept *)
(* loop http_server, run by the one thread that main gives to              *)
(* boost::asio::io_context.                                                *)
(*                                                                         *)
(* The thread runs completion handlers one at a time.  A handler is one    *)
(* action (Handle...), except that process_request blocks in popen while a *)
(* script runs, which makes it two actions (HandleRead, EndScript) between *)
(* which the thread runs nothing else (running # None).  The Poll...       *)
(* actions are the thread asking the kernel for finished operations and    *)
(* expired timers: they queue handlers, and only happen when the thread is *)
(* free.  Expire is time passing, Kill the process being killed and        *)
(* started again.                                                          *)
(*                                                                         *)
(* A connection object lives as long as one of its handlers, each of which *)
(* holds a shared_ptr to it (self): the object whose last handler is gone  *)
(* is destroyed in the step that drops it (Settle).                        *)
(***************************************************************************)
EXTENDS ScriptPage, HttpConnection

CONSTANTS
    Conns,      \* the connection objects that can exist at the same time
    Requests,   \* the requests clients send
    Outputs,    \* what a script writes, as sequences of tokens
    MaxFaults   \* how often the process is killed or cgi.sh cannot be removed

Methods == {"get", "post", "other"}

\* The target of a request, by what the code tests of it: the path "/time",
\* the text after the last dot, or neither.
Targets == {"/time", "php", "py", "pl", "rb", "file"}

ASSUME HttpAssumption ==
    /\ Requests \subseteq [method : Methods, target : Targets]
    /\ Outputs \subseteq Seq(ScriptToken)
    /\ MaxFaults \in Nat
    /\ None \notin Conns
    /\ None \notin [method : Methods, target : Targets]
    /\ None \notin [status : {200, 400}, body : Seq(Token)]

VARIABLES
    conn,      \* the connection objects
    accept,    \* the accept operation: outstanding, or its handler queued
    running,   \* the connection whose script the thread waits for, or None
    cgi_sh,    \* the file cgi.sh of the working directory
    faults     \* times the process was killed or cgi.sh could not be removed

vars == <<conn, accept, running, cgi_sh, faults>>

-----------------------------------------------------------------------------
(***************************************************************************)
(* The connection objects of HttpConnection, with the requests and         *)
(* responses of http.hpp.                                                  *)
(***************************************************************************)
Response == [status : {200, 400}, body : Seq(Token)]

Connection ==
    [sock : {"none", "open", "shut", "closed"},
     rd   : Operation,
     wr   : Operation,
     tm   : {"none", "pending", "expired", "cancelled"},
     late : BOOLEAN,
     req  : Requests \cup {None},
     resp : Response \cup {None},
     sent : BOOLEAN]

-----------------------------------------------------------------------------
(***************************************************************************)
(* The responses (process_request, GET_response, POST_response).           *)
(***************************************************************************)

\* The requests whose handler runs a command and waits for its output.
NeedsScript(q) ==
    \/ q.method = "get" /\ q.target = "php"
    \/ q.method = "post" /\ q.target \in {"php", "py", "pl"}

Ok(body) == [status |-> 200, body |-> body]

\* A file target: ifs is opened first, then stat decides.  A file that is
\* not readable, or that appears between the two calls, reads as empty.
FileResponses == {Ok(<<"content">>), Ok(<<>>), Ok(Notice)}

\* Mutants of DirectResponses: another status for the methods that are not
\* supported (method_not_allowed), or none set.
DirectResponses405(q) ==
    IF q.method = "other"
      THEN {[status |-> 405, body |-> <<"invalid method">>]}
      ELSE {Ok(<<"unsupported">>)}

DirectResponses200(q) == {Ok(<<"unsupported">>)}

\* The responses that need no script.  For py, pl and rb a GET prepares a
\* command at most, which it does not run.
DirectResponses(q) ==
    CASE q.method = "other" ->
            {[status |-> 400, body |-> <<"invalid method">>]}
      [] q.method = "get" /\ q.target = "/time" -> {Ok(<<"time">>)}
      [] q.method = "get" /\ q.target \in {"py", "pl", "rb"} -> {Ok(<<>>)}
      [] q.method = "get" /\ q.target = "file" -> FileResponses
      [] OTHER -> {Ok(<<"unsupported">>)}

-----------------------------------------------------------------------------
Init ==
    /\ conn = [c \in Conns |-> NoConnection]
    /\ accept = "pending"
    /\ running = None
    /\ cgi_sh = "absent"
    /\ faults = 0

\* The kernel completes the accept, or it fails (no descriptor left, client
\* already gone).
PollAccept ==
    /\ running = None
    /\ accept = "pending"
    /\ accept' \in {"ok", "failed"}
    /\ UNCHANGED <<conn, running, cgi_sh, faults>>

\* The accept handler: a new connection is started unless the accept
\* failed, and in both cases the next accept is issued.
HandleAccept(c) ==
    /\ running = None
    /\ accept = "ok"
    /\ conn[c].sock = "none"
    /\ conn' = [conn EXCEPT ![c] = Started]
    /\ accept' = "pending"
    /\ UNCHANGED <<running, cgi_sh, faults>>

\* Mutant of HandleAcceptError: http_server is called again on success only.
HandleAcceptErrorAndStop ==
    /\ running = None
    /\ accept = "failed"
    /\ accept' = "none"
    /\ UNCHANGED <<conn, running, cgi_sh, faults>>

HandleAcceptError ==
    /\ running = None
    /\ accept = "failed"
    /\ accept' = "pending"
    /\ UNCHANGED <<conn, running, cgi_sh, faults>>

\* The composed read ends: a complete request, or an error (the client is
\* gone, the message is malformed or larger than the limits).
PollRead(c) ==
    /\ running = None
    /\ conn[c].rd = "pending"
    /\ \/ \E q \in Requests :
            conn' = [conn EXCEPT ![c] = [@ EXCEPT !.rd = "ok", !.req = q]]
       \/ conn' = [conn EXCEPT ![c] = [@ EXCEPT !.rd = "failed"]]
    /\ UNCHANGED <<accept, running, cgi_sh, faults>>

\* The read handler on an error does nothing: only self is dropped.
HandleReadError(c) ==
    /\ running = None
    /\ conn[c].rd = "failed"
    /\ conn' = [conn EXCEPT ![c] = Settle([@ EXCEPT !.rd = "none"])]
    /\ UNCHANGED <<accept, running, cgi_sh, faults>>

\* The read handler, for a request answered at once.
HandleRead(c) ==
    /\ running = None
    /\ conn[c].rd = "ok"
    /\ ~ NeedsScript(conn[c].req)
    /\ \E r \in DirectResponses(conn[c].req) :
          conn' = [conn EXCEPT ![c] = WithResponse(@, r)]
    /\ UNCHANGED <<accept, running, cgi_sh, faults>>

\* gen_cgi_script: cgi.sh now holds this request, unless the file could not
\* be written, which is not checked; then it holds what was there before.
GenCgiScript ==
    \/ cgi_sh' = "own"
    \/ cgi_sh' = IF cgi_sh = "absent" THEN "absent" ELSE "foreign"

\* The read handler, for a request answered by a script: the command is
\* prepared, and popen starts it.
StartScript(c) ==
    /\ running = None
    /\ conn[c].rd = "ok"
    /\ NeedsScript(conn[c].req)
    /\ running' = c
    /\ IF conn[c].req.target = "php" THEN GenCgiScript ELSE UNCHANGED cgi_sh
    /\ UNCHANGED <<conn, accept, faults>>

\* What the command wrote until it ended; nothing if popen failed.
GetStdoutFromCommand == Outputs \cup {<<>>}

\* Mutant of RemoveScript: cgi.sh is not removed.
KeepScript(q) == UNCHANGED <<cgi_sh, faults>>

\* std::remove: whether it succeeded is not looked at.  For another
\* interpreter than php the command names no file to remove.
RemoveScript(q) ==
    \/ /\ cgi_sh' = IF q.target = "php" THEN "absent" ELSE cgi_sh
       /\ UNCHANGED faults
    \/ /\ q.target = "php" /\ cgi_sh # "absent"
       /\ faults < MaxFaults
       /\ faults' = faults + 1
       /\ UNCHANGED cgi_sh

\* The script has ended: its output makes the body, the script file is
\* removed, and the response is written.
EndScript(c) ==
    /\ running = c
    /\ \E output \in GetStdoutFromCommand :
          conn' = [conn EXCEPT ![c] = WithResponse(@, Ok(ScriptBody(output)))]
    /\ RemoveScript(conn[c].req)
    /\ running' = None
    /\ UNCHANGED accept

\* The response has left, or the write failed (the client is gone).
PollWrite(c) ==
    /\ running = None
    /\ conn[c].wr = "pending"
    /\ \/ conn' = [conn EXCEPT ![c] = [@ EXCEPT !.wr = "ok", !.sent = TRUE]]
       \/ conn' = [conn EXCEPT ![c] = [@ EXCEPT !.wr = "failed"]]
    /\ UNCHANGED <<accept, running, cgi_sh, faults>>

\* The write handler, whatever the result.
HandleWrite(c) ==
    /\ running = None
    /\ conn[c].wr \in {"ok", "failed"}
    /\ conn' = [conn EXCEPT ![c] = Settle(Finished(@))]
    /\ UNCHANGED <<accept, running, cgi_sh, faults>>

\* Sixty seconds after the object was made, whatever the thread is doing.
Expire(c) ==
    /\ conn[c].sock # "none"
    /\ ~ conn[c].late
    /\ conn' = [conn EXCEPT ![c].late = TRUE]
    /\ UNCHANGED <<accept, running, cgi_sh, faults>>

PollTimer(c) ==
    /\ running = None
    /\ conn[c].tm = "pending"
    /\ conn[c].late
    /\ conn' = [conn EXCEPT ![c].tm = "expired"]
    /\ UNCHANGED <<accept, running, cgi_sh, faults>>

\* The handler of the deadline: closes the socket unless it was cancelled.
HandleDeadline(c) ==
    /\ running = None
    /\ conn[c].tm \in {"expired", "cancelled"}
    /\ conn' = [conn EXCEPT ![c] =
                  Settle([(IF @.tm = "expired" THEN Closed(@) ELSE @)
                            EXCEPT !.tm = "none"])]
    /\ UNCHANGED <<accept, running, cgi_sh, faults>>

\* The process is killed and started again: memory is gone, cgi.sh stays.
Kill ==
    /\ faults < MaxFaults
    /\ conn' = [c \in Conns |-> NoConnection]
    /\ accept' = "pending"
    /\ running' = None
    /\ faults' = faults + 1
    /\ UNCHANGED cgi_sh

Next ==
    \/ PollAccept
    \/ HandleAcceptError
    \/ \E c \in Conns :
          \/ HandleAccept(c)
          \/ PollRead(c)
          \/ HandleReadError(c)
          \/ HandleRead(c)
          \/ StartScript(c)
          \/ EndScript(c)
          \/ PollWrite(c)
          \/ HandleWrite(c)
          \/ Expire(c)
          \/ PollTimer(c)
          \/ HandleDeadline(c)
    \/ Kill

Spec == Init /\ [][Next]_vars
-----------------------------------------------------------------------------
(***************************************************************************)
(* Fairness.  The io_context polls and runs the queued handlers in turn,   *)
(* so every connection has its turn again and again, and so has the        *)
(* acceptor; but a script that runs for one connection disables the steps  *)
(* of all others for a while, again and again: hence strong fairness.      *)
(* Time passes (weak).  Nothing is assumed of clients: a pending accept,   *)
(* read or write may stay pending.  That scripts end is not in the code's  *)
(* hands and is a separate assumption.                                     *)
(***************************************************************************)
Turn(c) ==
    \/ HandleReadError(c)
    \/ HandleRead(c)
    \/ StartScript(c)
    \/ HandleWrite(c)
    \/ PollTimer(c)
    \/ HandleDeadline(c)

LoopFairness ==
    /\ SF_vars(HandleAcceptError \/ \E c \in Conns : HandleAccept(c))
    /\ \A c \in Conns : SF_vars(Turn(c)) /\ WF_vars(Expire(c))

ScriptsEnd == \A c \in Conns : WF_vars(EndScript(c))

LoopSpec == Spec /\ LoopFairness
FairSpec == Spec /\ LoopFairness /\ ScriptsEnd

-----------------------------------------------------------------------------
\* The type invariant.
TypeOK ==
    /\ conn \in [Conns -> Connection]
    /\ accept \in {"pending", "ok", "failed"}
    /\ running \in Conns \cup {None}
    /\ cgi_sh \in {"absent", "own", "foreign"}
    /\ faults \in 0 .. MaxFaults

(***************************************************************************)
(* As long as its socket is open a connection has a deadline ahead of it:  *)
(* the wait is outstanding or its expiry is queued.  start() arms it after *)
(* the read is issued, and HandleWrite cancels it only once the socket is  *)
(* shut down, so no path leaves an open socket that nothing would close.   *)
(***************************************************************************)
DeadlineArmed ==
    \A c \in Conns : conn[c].sock = "open" => conn[c].tm \in {"pending", "expired"}

(***************************************************************************)
(* No read or write is outstanding on a socket that was closed by the      *)
(* deadline or shut down after the response, whichever came first.         *)
(***************************************************************************)
NothingPendingOnDeadSocket ==
    \A c \in Conns :
        conn[c].sock # "open" => conn[c].rd # "pending" /\ conn[c].wr # "pending"

(***************************************************************************)
(* async_write works on response_ while the thread goes on: a response,    *)
(* once built, is never rebuilt or changed before the object is gone, even *)
(* when the deadline has closed the socket in between.                     *)
(***************************************************************************)
ResponseFrozen ==
    [][\A c \in Conns : conn[c].resp # None =>
          conn'[c].resp = conn[c].resp \/ conn'[c] = NoConnection]_vars

(***************************************************************************)
(* All PHP requests share the file cgi.sh.  A request never runs the       *)
(* script file of another one, although a failure to write the file goes   *)
(* unnoticed, unless a file was left behind: by a process that was killed, *)
(* or by a removal that failed.                                            *)
(***************************************************************************)
NoForeignScript ==
    /\ running # None
    /\ conn[running].req.target = "php"
    /\ cgi_sh = "foreign"
    => faults > 0

(***************************************************************************)
(* The deadline makes sure that no connection object stays for ever: one   *)
(* whose client sends nothing, never reads its response or went away after *)
(* a failed read (its handler does nothing) is released all the same.      *)
(***************************************************************************)
EveryConnectionReleased ==
    \A c \in Conns : conn[c].sock # "none" ~> conn[c].sock = "none"

(***************************************************************************)
(* The accept loop survives: after any handler, a failed accept included,  *)
(* the server listens again.                                               *)
(***************************************************************************)
AcceptsAgain == []<>(accept = "pending" /\ running = None)

(***************************************************************************)
(* "Check whether we have spent enough time on this connection", "The      *)
(* timer for putting a deadline on connection processing" (http.hpp):      *)
(* once 60 seconds have passed the socket does not stay open.              *)
(***************************************************************************)
DeadlineEnforced ==
    \A c \in Conns : (conn[c].sock = "open" /\ conn[c].late) ~> conn[c].sock # "open"

-----------------------------------------------------------------------------
(***************************************************************************)
(* The server implements HttpExchange.                                     *)
(***************************************************************************)
PhaseOf(k) ==
    CASE k.sock = "none"   -> "idle"
      [] k.sent            -> "answered"
      [] k.sock # "none" /\ ~ k.sent /\ k.sock # "open" -> "hung up"
      [] k.sock = "open" /\ ~ k.sent /\ k.req = None -> "connected"
      [] OTHER             -> "asked"

Answers == [q \in Requests |-> IF q.method \in {"get", "post"} THEN {200} ELSE {400}]

Exchange == INSTANCE HttpExchange WITH
    Clients  <- Conns,
    Answers  <- Answers,
    phase    <- [c \in Conns |-> PhaseOf(conn[c])],
    question <- [c \in Conns |-> conn[c].req],
    answer   <- [c \in Conns |-> IF conn[c].sent THEN conn[c].resp.status ELSE None]

\* Whatever the deadline, the handlers and the scripts do to a connection,
\* its client sees one request answered at most once, with the status of its
\* method, and never after a hang-up.
ImplementsExchange == Exchange!Spec
=============================================================================
