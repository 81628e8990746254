--------------------------- MODULE SmallHttpServer ---------------------------
(***************************************************************************)
(* The first version of the HTTP server, original/http_server_small.cpp:   *)
(* class http_connection and the accept loop http_server, run by the one   *)
(* thread that calls io_context::run.                                      *)
(*                                                                         *)
(* As in HttpServer a handler is one action (Handle...), and the Poll...   *)
(* actions are the thread asking the kernel for finished operations and    *)
(* expired timers.  Unlike there, no handler ever waits: the thread is     *)
(* always free.  What is shared by the connections is the static counter   *)
(* of my_program_state::request_count.                                     *)
(***************************************************************************)
EXTENDS Naturals, HttpConnection

CONSTANTS
    Conns,      \* the connection objects that can exist at the same time
    Requests,   \* the requests clients send
    MaxCount    \* bound: no request for "/count" comes once there were so many

Request == [method : {"get", "other"}, target : {"/count", "/time", "file"}]

ASSUME SmallAssumption ==
    /\ Requests \subseteq Request
    /\ MaxCount \in Nat
    /\ None \notin Request
    /\ None \notin [status : {200, 400, 404}, number : Nat]

VARIABLES
    conn,      \* the connection objects
    accept,    \* the accept operation: outstanding, or its handler queued
    count      \* the static variable of request_count

(***************************************************************************)
(* History, which no action reads, for the order of the numbers.           *)
(***************************************************************************)
VARIABLES
    shown,     \* the largest number on a page that has left
    before     \* for each connection, what shown was when its request came,
               \* 0 as long as it has none

history == <<shown, before>>

vars == <<conn, accept, count, history>>

\* number: the one that the page for "/count" shows, 0 for other responses.
Response == [status : {200, 400, 404}, number : Nat]

Connection ==
    [sock : {"none", "open", "shut", "closed"},
     rd   : Operation,
     wr   : Operation,
     tm   : {"none", "pending", "expired", "cancelled"},
     late : BOOLEAN,
     req  : Requests \cup {None},
     resp : Response \cup {None},
     sent : BOOLEAN]

Changes(c, k) == conn' = [conn EXCEPT ![c] = k]

-----------------------------------------------------------------------------
Init ==
    /\ conn = [c \in Conns |-> NoConnection]
    /\ accept = "pending"
    /\ count = 0
    /\ shown = 0
    /\ before = [c \in Conns |-> 0]

\* The kernel completes the accept, or it fails.
PollAccept ==
    /\ accept = "pending"
    /\ accept' \in {"ok", "failed"}
    /\ UNCHANGED <<conn, count, history>>

HandleAccept(c) ==
    /\ accept = "ok"
    /\ conn[c].sock = "none"
    /\ Changes(c, Started)
    /\ accept' = "pending"
    /\ before' = [before EXCEPT ![c] = 0]
    /\ UNCHANGED <<count, shown>>

HandleAcceptError ==
    /\ accept = "failed"
    /\ accept' = "pending"
    /\ UNCHANGED <<conn, count, history>>

\* The composed read ends: a complete request, or an error.
PollRead(c) ==
    /\ conn[c].rd = "pending"
    /\ \/ \E q \in Requests :
            /\ q.target = "/count" => count < MaxCount
            /\ Changes(c, [conn[c] EXCEPT !.rd = "ok", !.req = q])
            /\ before' = [before EXCEPT ![c] = shown]
       \/ /\ Changes(c, [conn[c] EXCEPT !.rd = "failed"])
          /\ UNCHANGED before
    /\ UNCHANGED <<accept, count, shown>>

\* The read handler on an error does nothing: only self is dropped.
HandleReadError(c) ==
    /\ conn[c].rd = "failed"
    /\ Changes(c, Settle([conn[c] EXCEPT !.rd = "none"]))
    /\ UNCHANGED <<accept, count, history>>

\* Mutant of RequestCount: the counter is not static.
RequestCountAnew(n) == 1

\* my_program_state::request_count stores and returns the next number.
RequestCount(n) == n + 1

\* Mutant of CreateResponse: the result stays ok for unknown targets.
CreateResponseOk(q, n) ==
    IF q.target = "/count" THEN [status |-> 200, number |-> n]
    ELSE [status |-> 200, number |-> 0]

CreateResponse(q, n) ==
    IF q.target = "/count" THEN [status |-> 200, number |-> n]
    ELSE [status |-> IF q.target = "/time" THEN 200 ELSE 404, number |-> 0]

\* Mutant of HandleRead: other methods get 405.
HandleRead405(c) ==
    /\ conn[c].rd = "ok"
    /\ LET q == conn[c].req
       IN  /\ count' = IF q.method = "get" /\ q.target = "/count"
                         THEN RequestCount(count) ELSE count
           /\ Changes(c, WithResponse(conn[c],
                           IF q.method = "get" THEN CreateResponse(q, count')
                           ELSE [status |-> 405, number |-> 0]))
    /\ UNCHANGED <<accept, history>>

\* The read handler: process_request makes the response and writes it.
HandleRead(c) ==
    /\ conn[c].rd = "ok"
    /\ LET q == conn[c].req
       IN  /\ count' = IF q.method = "get" /\ q.target = "/count"
                         THEN RequestCount(count) ELSE count
           /\ Changes(c, WithResponse(conn[c],
                           IF q.method = "get" THEN CreateResponse(q, count')
                           ELSE [status |-> 400, number |-> 0]))
    /\ UNCHANGED <<accept, history>>

\* The response has left, or the write failed (the client is gone).
PollWrite(c) ==
    /\ conn[c].wr = "pending"
    /\ \/ /\ Changes(c, [conn[c] EXCEPT !.wr = "ok", !.sent = TRUE])
          /\ shown' = IF shown < conn[c].resp.number THEN conn[c].resp.number ELSE shown
       \/ /\ Changes(c, [conn[c] EXCEPT !.wr = "failed"])
          /\ UNCHANGED shown
    /\ UNCHANGED <<accept, count, before>>

\* The write handler, whatever the result.
HandleWrite(c) ==
    /\ conn[c].wr \in {"ok", "failed"}
    /\ Changes(c, Settle(Finished(conn[c])))
    /\ UNCHANGED <<accept, count, history>>

\* Sixty seconds after the object was made.
Expire(c) ==
    /\ conn[c].sock # "none"
    /\ ~ conn[c].late
    /\ Changes(c, [conn[c] EXCEPT !.late = TRUE])
    /\ UNCHANGED <<accept, count, history>>

PollTimer(c) ==
    /\ conn[c].tm = "pending" /\ conn[c].late
    /\ Changes(c, [conn[c] EXCEPT !.tm = "expired"])
    /\ UNCHANGED <<accept, count, history>>

\* Mutant of HandleDeadline: check_deadline closes nothing.
HandleDeadlineIdle(c) ==
    /\ conn[c].tm \in {"expired", "cancelled"}
    /\ Changes(c, Settle([conn[c] EXCEPT !.tm = "none"]))
    /\ UNCHANGED <<accept, count, history>>

\* The handler of the deadline: closes the socket unless it was cancelled.
HandleDeadline(c) ==
    /\ conn[c].tm \in {"expired", "cancelled"}
    /\ Changes(c, Settle([(IF conn[c].tm = "expired" THEN Closed(conn[c]) ELSE conn[c])
                            EXCEPT !.tm = "none"]))
    /\ UNCHANGED <<accept, count, history>>

Next ==
    \/ PollAccept
    \/ HandleAcceptError
    \/ \E c \in Conns :
          \/ HandleAccept(c)
          \/ PollRead(c)
          \/ HandleReadError(c)
          \/ HandleRead(c)
          \/ PollWrite(c)
          \/ HandleWrite(c)
          \/ Expire(c)
          \/ PollTimer(c)
          \/ HandleDeadline(c)

Spec == Init /\ [][Next]_vars

(***************************************************************************)
(* Fairness: the io_context runs what is queued, for every connection in   *)
(* turn, and time passes.  Nothing disables a step of one connection but   *)
(* its own, so weak fairness is enough.  Nothing is assumed of clients.    *)
(***************************************************************************)
Turn(c) ==
    \/ HandleReadError(c)
    \/ HandleRead(c)
    \/ HandleWrite(c)
    \/ PollTimer(c)
    \/ HandleDeadline(c)

LoopSpec ==
    /\ Spec
    /\ WF_vars(HandleAcceptError \/ \E c \in Conns : HandleAccept(c))
    /\ \A c \in Conns : WF_vars(Turn(c)) /\ WF_vars(Expire(c))

-----------------------------------------------------------------------------
\* The type invariant.
TypeOK ==
    /\ conn \in [Conns -> Connection]
    /\ accept \in {"pending", "ok", "failed"}
    /\ count \in Nat
    /\ shown \in Nat
    /\ before \in [Conns -> Nat]

Counted(k) == k.resp # None /\ k.resp.number > 0

(***************************************************************************)
(* A number is taken from the counter in one handler and leaves in a later *)
(* one, in which order and whether at all the deadline and the clients     *)
(* decide: a page with a smaller number may leave after one with a larger  *)
(* number.  But no two pages have the same number, and a client whose      *)
(* request comes after somebody's page has left, be that connection still  *)
(* there or long gone, gets a larger number than that page.                *)
(***************************************************************************)
NumbersInOrder ==
    \A c \in Conns : Counted(conn[c]) =>
        /\ conn[c].resp.number > before[c]
        /\ \A d \in Conns \ {c} :
              Counted(conn[d]) => conn[d].resp.number # conn[c].resp.number

(***************************************************************************)
(* "Check whether we have spent enough time on this connection"            *)
(* (http_server_small.cpp): once 60 seconds have passed the socket does    *)
(* not stay open, whatever the client does.  No handler waits here, and    *)
(* nothing has to be assumed besides a loop that runs (http.hpp needs that *)
(* scripts end).                                                           *)
(***************************************************************************)
DeadlineEnforced ==
    \A c \in Conns : (conn[c].sock = "open" /\ conn[c].late) ~> conn[c].sock # "open"

(***************************************************************************)
(* An object is held by its handlers only, and each of its three           *)
(* operations comes to its handler: no connection object stays for ever.   *)
(***************************************************************************)
EveryConnectionReleased ==
    \A c \in Conns : conn[c].sock # "none" ~> conn[c].sock = "none"

-----------------------------------------------------------------------------
(***************************************************************************)
(* The server implements HttpExchange, with other statuses than http.hpp.  *)
(***************************************************************************)
Answers ==
    [q \in Requests |-> IF q.method = "other" THEN {400}
                        ELSE IF q.target = "file" THEN {404} ELSE {200}]

PhaseOf(k) ==
    CASE k.sock = "none"                                -> "idle"
      [] k.sent                                         -> "answered"
      [] k.sock \in {"shut", "closed"} /\ ~ k.sent      -> "hung up"
      [] k.sock = "open" /\ ~ k.sent /\ k.req = None    -> "connected"
      [] OTHER                                          -> "asked"

Exchange == INSTANCE HttpExchange WITH
    Clients  <- Conns,
    Answers  <- Answers,
    phase    <- [c \in Conns |-> PhaseOf(conn[c])],
    question <- [c \in Conns |-> conn[c].req],
    answer   <- [c \in Conns |-> IF conn[c].sent THEN conn[c].resp.status ELSE None]

\* Whatever order the handlers and the deadline come in, a client sees one
\* request answered at most once, with the status of its method and target,
\* and never after a hang-up.
ImplementsExchange == Exchange!Spec
=============================================================================
