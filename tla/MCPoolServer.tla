---------------------------- MODULE MCPoolServer ----------------------------
(* A small instance of PoolServer for TLC. *)
EXTENDS PoolServer

Ask(m, r) == [method |-> m, resource |-> r, http11 |-> TRUE]

\* Each way through the handlers, and both output files.
MCRequests ==
    {Ask("GET", "/"), Ask("GET", "index"), Ask("GET", "php"), Ask("GET", "py"),
     Ask("POST", "php"), Ask("POST", "file"),
     Ask("HEAD", "file"), Ask("HEAD", "php"),
     Ask("DELETE", "index"), Ask("DELETE", "/"), Ask("DELETE", "php"),
     Ask("OPTIONS", "/"), Ask("PUT", "file"), Ask("other", "file"),
     [method |-> "GET", resource |-> "file", http11 |-> FALSE]}
=============================================================================
