--------------------------- MODULE Bootstrap_proofs ---------------------------
(* Proofs about Bootstrap, for configuration files of any length. *)
EXTENDS Bootstrap, TLAPS

(***************************************************************************)
(* The inductive invariant.  Neither PortAsConfigured nor FileObeyed is    *)
(* inductive: they need that no line read so far has stopped the reading   *)
(* (Clean), that the file is left only at its end (ReadToEnd), and what    *)
(* the code makes of a bad port (PortOfLastLine): nothing, so that the     *)
(* port of a line before it stays.                                         *)
(***************************************************************************)
PortOfLastLine ==
    /\ (\A i \in Read : ~ Settling(conf[i])) => port = 8080
    /\ \A i \in Read :
          Settling(conf[i]) /\ (\A j \in Read : j > i => ~ Settling(conf[j]))
             => port = Settled(conf[i])

Passed(line) == ~ Stops(line) /\ line # EnableZero

Clean == \A i \in Read : Passed(conf[i])

ReadToEnd ==
    conf # Missing =>
        /\ Read \subseteq DOMAIN conf
        /\ stage \notin {"filechecks", "disabled", "terminated"} => Read = DOMAIN conf

IInv ==
    /\ TypeOK
    /\ PortOfLastLine
    /\ Clean
    /\ ReadToEnd
    /\ stage = "disabled" => FileObeyed

\* Before the first line the strengthening holds.
LEMMA InitIInv == Init => IInv
<1> SUFFICES ASSUME Init PROVE IInv
  OBVIOUS
<1>1. Read = {}
  BY DEF Init, Read
<1> QED
  BY <1>1 DEF Init, IInv, TypeOK, Stage, DefaultPort, Ports, PortOfLastLine, Clean, ReadToEnd

\* A line that is read is a line of the file and comes after the others.
LEMMA LineRead ==
    ASSUME IInv, Reading
    PROVE  /\ conf \in Seq(Line) /\ conf # Missing
           /\ DOMAIN conf = 1 .. Len(conf) /\ Len(conf) \in Nat
           /\ at \in 1 .. Len(conf)
           /\ conf[at] \in Line
           /\ Read = 1 .. at - 1
BY BootstrapAssumption DEF IInv, TypeOK, Reading, Read

\* A step that reads a line which neither stops the reading nor disables
\* the server keeps the invariant, when it sets the port as that line says.
LEMMA OneMoreLine ==
    ASSUME IInv, Reading, at' = at + 1, UNCHANGED <<conf, certs, stage>>,
           port' \in Ports,
           Passed(conf[at]),
           port' = IF Settling(conf[at]) THEN Settled(conf[at]) ELSE port
    PROVE  IInv'
<1>1. /\ conf # Missing /\ DOMAIN conf = 1 .. Len(conf) /\ Len(conf) \in Nat
      /\ at \in 1 .. Len(conf) /\ Read = 1 .. at - 1
  BY LineRead
<1>2. Read' = 1 .. at
  BY <1>1 DEF Read
<1>3. TypeOK'
  BY DEF IInv, TypeOK
<1>4. PortOfLastLine'
  <2>1. PortOfLastLine
    BY DEF IInv
  <2>2. CASE Settling(conf[at])
    <3>1. \A i \in Read' : (\A j \in Read' : j > i => ~ Settling(conf[j])) => i = at
      BY <1>1, <1>2, <2>2
    <3>2. at \in Read' /\ port' = Settled(conf[at])
      BY <1>1, <1>2, <2>2
    <3> QED
      BY <2>2, <3>1, <3>2 DEF PortOfLastLine
  <2>3. CASE ~ Settling(conf[at])
    <3>1. (\A i \in Read' : ~ Settling(conf[i])) => \A i \in Read : ~ Settling(conf[i])
      BY <1>1, <1>2
    <3>2. \A i \in Read' : Settling(conf[i]) => i \in Read
      BY <1>1, <1>2, <2>3
    <3>3. \A i \in Read' : (\A j \in Read' : j > i => ~ Settling(conf[j]))
                              => \A j \in Read : j > i => ~ Settling(conf[j])
      BY <1>1, <1>2
    <3> QED
      BY <2>1, <2>3, <3>1, <3>2, <3>3 DEF PortOfLastLine
  <2> QED
    BY <2>2, <2>3
<1>5. Clean'
  BY <1>1, <1>2 DEF IInv, Clean
<1>6. ReadToEnd'
  BY <1>1, <1>2 DEF ReadToEnd, Reading
<1>7. stage' # "disabled"
  BY DEF Reading
<1> QED
  BY <1>3, <1>4, <1>5, <1>6, <1>7 DEF IInv

\* A step that reads nothing and leaves the port alone keeps what is said
\* of the lines read.
LEMMA NoLineRead ==
    ASSUME IInv, UNCHANGED <<conf, certs, at, port>>
    PROVE  Read' = Read /\ PortOfLastLine' /\ Clean'
<1>1. Read' = Read
  BY DEF Read
<1> QED
  BY <1>1 DEF IInv, PortOfLastLine, Clean

\* Every line, choice and failure keeps the strengthening.
LEMMA NextIInv == IInv /\ [Next]_vars => IInv'
<1> SUFFICES ASSUME IInv, [Next]_vars PROVE IInv'
  OBVIOUS
<1>1. CASE MissingConf
  <2>1. Read = {} /\ Read' = {}
    BY <1>1 DEF MissingConf, Read
  <2> QED
    BY <1>1, <2>1
       DEF MissingConf, IInv, TypeOK, PortOfLastLine, Clean, ReadToEnd, Stage, DefaultPort, Ports
<1>2. CASE SkippedLine
  <2>1. Passed(conf[at]) /\ ~ Settling(conf[at])
    BY <1>2 DEF SkippedLine, Passed, Stops, EnableZero, Settling
  <2> QED
    BY <1>2, <2>1, OneMoreLine DEF SkippedLine, IInv, TypeOK
<1>3. CASE EnableLine
  <2>1. Passed(conf[at]) /\ ~ Settling(conf[at])
    BY <1>3 DEF EnableLine, Passed, Stops, Disables, EnableZero, Settling
  <2> QED
    BY <1>3, <2>1, OneMoreLine DEF EnableLine, IInv, TypeOK
<1>4. CASE PortLine
  <2>1. conf[at].value \in Int
    BY <1>4, LineRead DEF PortLine, Line
  <2>2. conf[at].value \in Ports <=> 0 < conf[at].value /\ conf[at].value < 65535
    BY <2>1 DEF Ports
  <2>3. Passed(conf[at])
    BY <1>4 DEF PortLine, Passed, Stops, EnableZero
  <2>4. port' = IF Settling(conf[at]) THEN Settled(conf[at]) ELSE port
    BY <1>4, <2>1, <2>2 DEF PortLine, Settling, Settled
  <2>5. port' \in Ports
    BY <1>4, <2>2 DEF PortLine, IInv, TypeOK
  <2> QED
    BY <1>4, <2>3, <2>4, <2>5, OneMoreLine DEF PortLine
<1>5. CASE OtherLine
  <2>1. Passed(conf[at]) /\ Settling(conf[at]) /\ Settled(conf[at]) = 8080
    BY <1>5 DEF OtherLine, Passed, Stops, EnableZero, Settling, Settled
  <2> QED
    BY <1>5, <2>1, OneMoreLine DEF OtherLine, DefaultPort, Ports
<1>6. CASE BadValue
  <2>1. PortOfLastLine' /\ Clean' /\ Read' = Read
    BY <1>6, NoLineRead DEF BadValue
  <2> QED
    BY <1>6, <2>1 DEF BadValue, IInv, TypeOK, ReadToEnd, Stage
<1>7. CASE DisablingLine
  <2>1. PortOfLastLine' /\ Clean' /\ Read' = Read
    BY <1>7, NoLineRead DEF DisablingLine
  <2>2. /\ conf # Missing /\ DOMAIN conf = 1 .. Len(conf) /\ Len(conf) \in Nat
        /\ at \in 1 .. Len(conf) /\ conf[at] \in Line /\ Read = 1 .. at - 1
    BY <1>7, LineRead DEF DisablingLine
  <2>3. conf[at] = EnableZero /\ ~ Stops(conf[at])
    BY <1>7, <2>2, BootstrapAssumption DEF DisablingLine, Disables, EnableZero, Stops, Line
  <2>4. \A j \in 1 .. at : ~ Stops(conf[j])
    <3>1. \A j \in 1 .. at : j = at \/ j \in Read
      BY <2>2
    <3> QED
      BY <2>3, <3>1 DEF IInv, Clean, Passed
  <2>5. FileObeyed'
    BY <1>7, <2>2, <2>3, <2>4 DEF DisablingLine, FileObeyed
  <2> QED
    BY <1>7, <2>1, <2>5 DEF DisablingLine, IInv, TypeOK, ReadToEnd, Stage
<1>8. CASE EndOfFile
  <2>1. PortOfLastLine' /\ Clean' /\ Read' = Read
    BY <1>8, NoLineRead DEF EndOfFile
  <2>2. Read = DOMAIN conf
    <3>1. conf \in Seq(Line)
      BY <1>8, BootstrapAssumption DEF EndOfFile, IInv, TypeOK
    <3>2. DOMAIN conf = 1 .. Len(conf) /\ Len(conf) \in Nat
      BY <3>1
    <3>3. Read = 1 .. at - 1 /\ Read \subseteq DOMAIN conf /\ at \in Nat /\ at > Len(conf)
      BY <1>8, <3>2 DEF EndOfFile, IInv, TypeOK, Read, ReadToEnd
    <3> QED
      BY <3>2, <3>3
  <2> QED
    BY <1>8, <2>1, <2>2 DEF EndOfFile, IInv, TypeOK, ReadToEnd, Stage
<1>9. CASE ChooseServer \/ Bind \/ LoadCertificates
  <2>1. /\ UNCHANGED <<conf, certs, at, port>>
        /\ stage' \in Stage \ {"filechecks", "disabled"}
        /\ stage \notin {"filechecks", "disabled", "terminated"}
    BY <1>9 DEF ChooseServer, Bind, LoadCertificates, Stage
  <2>2. PortOfLastLine' /\ Clean' /\ Read' = Read
    BY <2>1, NoLineRead
  <2> QED
    BY <2>1, <2>2 DEF IInv, TypeOK, ReadToEnd
<1>10. CASE UNCHANGED vars
  <2>1. PortOfLastLine' /\ Clean' /\ Read' = Read
    BY <1>10, NoLineRead DEF vars
  <2> QED
    BY <1>10, <2>1 DEF vars, IInv, TypeOK, ReadToEnd, FileObeyed
<1> QED
  BY <1>1, <1>2, <1>3, <1>4, <1>5, <1>6, <1>7, <1>8, <1>9, <1>10 DEF Next

\* The strengthening holds in every reachable state.
THEOREM Invariance == Spec => []IInv
BY InitIInv, NextIInv, PTL DEF Spec

\* The port is always in 1 .. 65534 and the state in its types.
THEOREM TypeCorrect == Spec => []TypeOK
<1>1. IInv => TypeOK
  BY DEF IInv
<1> QED
  BY <1>1, Invariance, PTL

\* The port is that of the last line that settles it, however long the file,
\* unless a bad port comes later.
THEOREM PortCorrect == Spec => []PortAsConfigured
<1>1. IInv => PortAsConfigured
  BY DEF IInv, PortOfLastLine, PortAsConfigured
<1> QED
  BY <1>1, Invariance, PTL

\* A server starts only from a file read to its end without a bad value or
\* a disabling line.
THEOREM FileCorrect == Spec => []FileObeyed
<1>1. IInv => FileObeyed
  BY DEF IInv, FileObeyed, Clean, ReadToEnd, Passed
<1> QED
  BY <1>1, Invariance, PTL
=============================================================================
