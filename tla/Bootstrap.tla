------------------------------ MODULE Bootstrap ------------------------------
(***************************************************************************)
(* How the process starts: filechecks of functions.hpp reads esketit.conf  *)
(* line by line, then main (main.cpp) chooses the HTTP or the HTTPS server *)
(* and that server takes the port.                                         *)
(*                                                                         *)
(* A line is what is left of it for the code: skipped (a comment, or       *)
(* nothing but blanks), or a name and the integer std::stoi makes of the   *)
(* value (NaN: it throws, no digits or out of range).  A line without "="  *)
(* is both its own name and its own value, which makes it one of the       *)
(* "other" lines, or of the lines that throw.                              *)
(***************************************************************************)
EXTENDS Integers, Sequences

CONSTANTS
    Confs,      \* the configuration files: sequences of lines, or Missing
    Missing,
    NaN

Line == [name : {"skipped", "enable", "port", "other"}, value : Int \cup {NaN}]

ASSUME BootstrapAssumption ==
    /\ Confs \subseteq Seq(Line) \cup {Missing}
    /\ Missing \notin Seq(Line)
    /\ NaN \notin Int

VARIABLES
    conf,       \* the file esketit.conf
    certs,      \* sslcert/esketit.cert and .key: missing (one at least is
                \* not readable), broken (readable, refused by OpenSSL), good
    stage,      \* where the process is
    at,         \* the line to be read
    port        \* the port so far

vars == <<conf, certs, stage, at, port>>

Stage ==
    {"filechecks", "disabled", "is_SSL_there",
     "http bind", "http running",
     "https bind", "https certificates", "https running",
     "terminated"}

DefaultPort == 8080

\* What value_int > 0 && value_int < 65535 lets through.
Ports == {value \in Nat : 0 < value /\ value < 65535}

\* Mutant of Disables: the test is for a negative value.
DisablesNegative(line) == line.name = "enable" /\ line.value \in Int /\ line.value < 0

Disables(line) == line.name = "enable" /\ line.value = 0

-----------------------------------------------------------------------------
Init ==
    /\ conf \in Confs
    /\ certs \in {"missing", "broken", "good"}
    /\ stage = "filechecks"
    /\ at = 1
    /\ port = DefaultPort

\* The file is missing: the default port.
MissingConf ==
    /\ stage = "filechecks"
    /\ conf = Missing
    /\ port' = DefaultPort
    /\ stage' = "is_SSL_there"
    /\ UNCHANGED <<conf, certs, at>>

\* getline gives another line.
Reading ==
    /\ stage = "filechecks"
    /\ conf # Missing
    /\ at <= Len(conf)

SkippedLine ==
    /\ Reading
    /\ conf[at].name = "skipped"
    /\ at' = at + 1
    /\ UNCHANGED <<conf, certs, stage, port>>

\* stoi is called on the value of every line; nothing catches what it throws.
BadValue ==
    /\ Reading
    /\ conf[at].name # "skipped"
    /\ conf[at].value = NaN
    /\ stage' = "terminated"
    /\ UNCHANGED <<conf, certs, at, port>>

\* return(99999), on which main exits.
DisablingLine ==
    /\ Reading
    /\ Disables(conf[at])
    /\ stage' = "disabled"
    /\ UNCHANGED <<conf, certs, at, port>>

EnableLine ==
    /\ Reading
    /\ conf[at].name = "enable"
    /\ conf[at].value # NaN
    /\ ~ Disables(conf[at])
    /\ at' = at + 1
    /\ UNCHANGED <<conf, certs, stage, port>>

\* Mutant of PortLine: the range is not tested.
PortLineUntested ==
    /\ Reading
    /\ conf[at].name = "port"
    /\ conf[at].value # NaN
    /\ port' = conf[at].value
    /\ at' = at + 1
    /\ UNCHANGED <<conf, certs, stage>>

\* A port that is not valid leaves the port as it was.
PortLine ==
    /\ Reading
    /\ conf[at].name = "port"
    /\ conf[at].value # NaN
    /\ port' = IF conf[at].value \in Ports THEN conf[at].value ELSE port
    /\ at' = at + 1
    /\ UNCHANGED <<conf, certs, stage>>

\* Mutant of OtherLine: the port is left as it is.
OtherLineKeepingPort ==
    /\ Reading
    /\ conf[at].name = "other"
    /\ conf[at].value # NaN
    /\ at' = at + 1
    /\ UNCHANGED <<conf, certs, stage, port>>

\* Any other name puts the port back to the default.
OtherLine ==
    /\ Reading
    /\ conf[at].name = "other"
    /\ conf[at].value # NaN
    /\ port' = DefaultPort
    /\ at' = at + 1
    /\ UNCHANGED <<conf, certs, stage>>

EndOfFile ==
    /\ stage = "filechecks"
    /\ conf # Missing
    /\ at > Len(conf)
    /\ stage' = "is_SSL_there"
    /\ UNCHANGED <<conf, certs, at, port>>

\* Whether both files open decides, not what is in them.
is_SSL_there == certs # "missing"

\* main: the choice of the server.
ChooseServer ==
    /\ stage = "is_SSL_there"
    /\ stage' = IF is_SSL_there THEN "https bind" ELSE "http bind"
    /\ UNCHANGED <<conf, certs, at, port>>

\* The acceptor of either server takes the port, or its constructor throws
\* (port in use, or not allowed) and nothing catches that.
Bind ==
    /\ \/ stage = "http bind" /\ stage' \in {"http running", "terminated"}
       \/ stage = "https bind" /\ stage' \in {"https certificates", "terminated"}
    /\ UNCHANGED <<conf, certs, at, port>>

\* HttpsAcceptor::HttpsAcceptor, in the thread of HttpsServer::Start: files
\* that OpenSSL refuses make it throw.
LoadCertificates ==
    /\ stage = "https certificates"
    /\ stage' = IF certs = "good" THEN "https running" ELSE "terminated"
    /\ UNCHANGED <<conf, certs, at, port>>

Next ==
    \/ MissingConf
    \/ SkippedLine
    \/ BadValue
    \/ DisablingLine
    \/ EnableLine
    \/ PortLine
    \/ OtherLine
    \/ EndOfFile
    \/ ChooseServer
    \/ Bind
    \/ LoadCertificates

Spec == Init /\ [][Next]_vars
-----------------------------------------------------------------------------
\* The type invariant: a port can always be bound to, and is never the 99999
\* that filechecks returns for a disabled server.
TypeOK ==
    /\ conf \in Confs
    /\ certs \in {"missing", "broken", "good"}
    /\ stage \in Stage
    /\ at \in Nat \ {0}
    /\ port \in Ports

(***************************************************************************)
(* What a file means, said without reading it in order.  Only the last     *)
(* line that settles the port counts: a port line in range, or a line of   *)
(* another name, which stands for the default.                             *)
(***************************************************************************)
Read == IF conf = Missing THEN {} ELSE 1 .. at - 1

Settling(line) ==
    \/ line.name = "other"
    \/ line.name = "port" /\ line.value \in Int /\ 0 < line.value /\ line.value < 65535

Settled(line) == IF line.name = "port" THEN line.value ELSE 8080

\* A port that is a number, but not one that can be used.
BadPort(line) ==
    line.name = "port" /\ line.value \in Int /\ ~ (0 < line.value /\ line.value < 65535)

(***************************************************************************)
(* The port used is the one of the last line read that settles it, and     *)
(* 8080 without such a line: the order of lines matters, and an unknown    *)
(* line after the port undoes it.  Of a file with a bad port after that    *)
(* line nothing is said: the code keeps the port of the line, the comment  *)
(* in functions.hpp has "or use default".                                  *)
(***************************************************************************)
PortAsConfigured ==
    /\ (\A i \in Read : ~ Settling(conf[i])) => port = 8080
    /\ \A i \in Read :
          /\ Settling(conf[i])
          /\ \A j \in Read : j > i => ~ Settling(conf[j]) /\ ~ BadPort(conf[j])
          => port = Settled(conf[i])

EnableZero == [name |-> "enable", value |-> 0]
Stops(line) == line.name # "skipped" /\ line.value = NaN

(***************************************************************************)
(* A server is started only from a file all of whose values are integers   *)
(* and none of whose lines disables it; the process exits as disabled only *)
(* because of an "enable = 0" with no bad value before it.                 *)
(***************************************************************************)
FileObeyed ==
    /\ stage \notin {"filechecks", "disabled", "terminated"} /\ conf # Missing =>
          \A i \in DOMAIN conf : ~ Stops(conf[i]) /\ conf[i] # EnableZero
    /\ stage = "disabled" =>
          conf # Missing /\ \E i \in DOMAIN conf :
             conf[i] = EnableZero /\ \A j \in 1 .. i : ~ Stops(conf[j])
=============================================================================
