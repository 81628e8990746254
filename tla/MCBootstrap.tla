---------------------------- MODULE MCBootstrap ----------------------------
(* Every configuration file of up to MaxLines lines, for TLC. *)
EXTENDS Bootstrap

CONSTANT MaxLines

\* Each kind of line, with the values at the ends of the range of ports.
MCLines ==
    {[name |-> "skipped", value |-> NaN],
     [name |-> "enable", value |-> 0],
     [name |-> "enable", value |-> 1],
     [name |-> "enable", value |-> NaN],
     [name |-> "port", value |-> 0],
     [name |-> "port", value |-> 1],
     [name |-> "port", value |-> 65534],
     [name |-> "port", value |-> 65535],
     [name |-> "other", value |-> 0],
     [name |-> "other", value |-> NaN]}

MCConfs == UNION {[1 .. n -> MCLines] : n \in 0 .. MaxLines} \cup {Missing}
=============================================================================
