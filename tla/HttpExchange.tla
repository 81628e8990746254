---------------------------- MODULE HttpExchange ----------------------------
(***************************************************************************)
(* What the HTTP servers of this repository promise their clients, with no *)
(* sockets, timers, handlers or scripts: on a connection at most one       *)
(* request is taken, it is answered at most once, with one of its Answers, *)
(* and never after the server has hung up.  The server may hang up or      *)
(* forget a connection at any time.                                        *)
(*                                                                         *)
(* http.hpp answers 200 to GET and POST and 400 to any other method        *)
(* (README: "Only GET and POST requests are supported"); its first version *)
(* knows GET only, and two paths.  https.hpp and its ancestor serve one    *)
(* client at a time; their answers have a body that goes with the status.  *)
(***************************************************************************)
CONSTANTS
    Clients,
    Requests,
    Answers,     \* for each request, the answers it may get
    None

VARIABLES
    phase,       \* where each exchange is
    question,    \* the request taken, or None
    answer       \* the response delivered, or None

vars == <<phase, question, answer>>

TypeOK ==
    /\ phase \in [Clients -> {"idle", "connected", "asked", "answered", "hung up"}]
    /\ question \in [Clients -> Requests \cup {None}]
    /\ answer \in [Clients -> (UNION {Answers[q] : q \in Requests}) \cup {None}]

Init ==
    /\ phase = [c \in Clients |-> "idle"]
    /\ question = [c \in Clients |-> None]
    /\ answer = [c \in Clients |-> None]

Connect(c) ==
    /\ phase[c] = "idle"
    /\ phase' = [phase EXCEPT ![c] = "connected"]
    /\ UNCHANGED <<question, answer>>

Ask(c, q) ==
    /\ phase[c] = "connected"
    /\ phase' = [phase EXCEPT ![c] = "asked"]
    /\ question' = [question EXCEPT ![c] = q]
    /\ UNCHANGED answer

Answer(c) ==
    /\ phase[c] = "asked"
    /\ phase' = [phase EXCEPT ![c] = "answered"]
    /\ \E a \in Answers[question[c]] : answer' = [answer EXCEPT ![c] = a]
    /\ UNCHANGED question

\* The connection is closed on a client that has no answer.
HangUp(c) ==
    /\ phase[c] \in {"connected", "asked"}
    /\ phase' = [phase EXCEPT ![c] = "hung up"]
    /\ UNCHANGED <<question, answer>>

\* Several exchanges are forgotten at once when the process is killed.
Forget(C) ==
    /\ phase' = [c \in Clients |-> IF c \in C THEN "idle" ELSE phase[c]]
    /\ question' = [c \in Clients |-> IF c \in C THEN None ELSE question[c]]
    /\ answer' = [c \in Clients |-> IF c \in C THEN None ELSE answer[c]]

Next ==
    \/ \E c \in Clients :
          \/ Connect(c)
          \/ \E q \in Requests : Ask(c, q)
          \/ Answer(c)
          \/ HangUp(c)
    \/ \E C \in SUBSET Clients : Forget(C)

Spec == Init /\ [][Next]_vars
=============================================================================
