-------------------------- MODULE MCSmallHttpServer --------------------------
(* A small instance of SmallHttpServer for TLC. *)
EXTENDS SmallHttpServer

\* The page that shows a number, one that does not, and a request refused.
MCRequests ==
    {[method |-> "get", target |-> t] : t \in {"/count", "file"}}
    \cup {[method |-> "other", target |-> "/count"]}
=============================================================================
