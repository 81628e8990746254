--------------------------- MODULE HttpConnection ---------------------------
(***************************************************************************)
(* A connection object of class http_connection, and what its operations   *)
(* do to it.  http.hpp has this class from original/http_server_small.cpp  *)
(* (HttpServer and SmallHttpServer); the two differ in process_request.    *)
(*                                                                         *)
(* sock: its socket (shut: sending side shut down).  rd, wr: the           *)
(* asynchronous read and write; pending in the kernel, or the handler      *)
(* queued with success (ok) or an error (failed).  tm: the wait on         *)
(* deadline_; its handler queued with success (expired) or                 *)
(* operation_aborted (cancelled).  late: 60 seconds have passed.  req,     *)
(* resp: request_ and response_.  sent: the client has the response.       *)
(***************************************************************************)
CONSTANT None

Operation == {"none", "pending", "ok", "failed"}

NoConnection ==
    [sock |-> "none", rd |-> "none", wr |-> "none", tm |-> "none",
     late |-> FALSE, req |-> None, resp |-> None, sent |-> FALSE]

\* The object is destroyed with its last handler.
Settle(k) ==
    IF k.rd = "none" /\ k.wr = "none" /\ k.tm = "none" THEN NoConnection ELSE k

\* Mutant of Started: check_deadline is not called.
StartedWithoutDeadline == [NoConnection EXCEPT !.sock = "open", !.rd = "pending"]

\* start(): read_request and check_deadline.
Started ==
    [NoConnection EXCEPT !.sock = "open", !.rd = "pending", !.tm = "pending"]

\* Mutant of WithResponse: the deadline is cancelled before the write.
WithResponseNoDeadline(k, r) ==
    [k EXCEPT !.rd = "none", !.resp = r,
              !.wr = IF k.sock = "closed" THEN "failed" ELSE "pending",
              !.tm = IF @ = "pending" THEN "cancelled" ELSE @]

\* write_response(): on a closed socket the operation fails at once.
WithResponse(k, r) ==
    [k EXCEPT !.rd = "none", !.resp = r,
              !.wr = IF k.sock = "closed" THEN "failed" ELSE "pending"]

\* Mutant of Finished: the next request is read, as for keep-alive, after
\* the shutdown.
FinishedReadingOn(k) ==
    [k EXCEPT !.wr = "none", !.rd = "pending",
              !.sock = IF @ = "closed" THEN @ ELSE "shut",
              !.tm = IF @ = "pending" THEN "cancelled" ELSE @]

\* The end of a write: the sending side is shut down (an error on a closed
\* socket is ignored) and the deadline cancelled, which an expired wait with
\* its handler already queued does not notice.
Finished(k) ==
    [k EXCEPT !.wr = "none",
              !.sock = IF @ = "closed" THEN @ ELSE "shut",
              !.tm = IF @ = "pending" THEN "cancelled" ELSE @]

\* Mutant of Closed: the response is cleared with the socket.
ClosedAndCleared(k) ==
    [k EXCEPT !.sock = "closed", !.resp = None,
              !.rd = IF @ = "pending" THEN "failed" ELSE @,
              !.wr = IF @ = "pending" THEN "failed" ELSE @]

\* socket_.close(): outstanding operations are aborted, handlers already
\* queued keep their result.
Closed(k) ==
    [k EXCEPT !.sock = "closed",
              !.rd = IF @ = "pending" THEN "failed" ELSE @,
              !.wr = IF @ = "pending" THEN "failed" ELSE @]
=============================================================================
