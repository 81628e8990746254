-------------------------- MODULE PoolServer_proofs --------------------------
(* Theorems about PoolServer, for any number of connections and threads. *)
EXTENDS PoolServer, TLAPS

(***************************************************************************)
(* The strengthening.                                                      *)
(***************************************************************************)

UnderWay == {"script", "remove"}

\* An output file holds only what scripts that are under way have written,
\* and only those of its own kind.
OutputUnderWay ==
    \A f \in OutputFiles : \A c \in output[f] :
        service[c].at \in UnderWay /\ OutputFile(service[c].request) = f

\* Two scripts under way with the same output file know of each other.
MeetingNoticed ==
    \A c, d \in Conns :
        c # d /\ service[c].at \in UnderWay /\ service[d].at \in UnderWay
          /\ OutputFile(service[c].request) = OutputFile(service[d].request)
        => service[c].met # {}

\* A service has the output of its script only after it.
ReadAfterScript ==
    \A c \in Conns :
        service[c].buffer = "output" => service[c].at \in {"remove", "send", "write"}

IInv ==
    /\ TypeOK
    /\ OutputUnderWay
    /\ MeetingNoticed
    /\ ReadAfterScript
    /\ OwnOutputIfAlone
    /\ AbandonedOnlyKnown

-----------------------------------------------------------------------------
\* Every request has one of the two output files.
LEMMA OneOutputFile == \A q : OutputFile(q) \in OutputFiles
  BY DEF OutputFile, OutputFiles

Codes   == {200, 400, 404, 500, 505}
Buffers == {"none", "file", "output"}

\* A service in which the place has been changed is a service, and so it is
\* with one more member changed.
LEMMA UpdatedAt ==
    ASSUME NEW t \in Service, NEW a \in InHandler \cup {"left"}
    PROVE  [t EXCEPT !.at = a] \in Service
BY DEF Service, InHandler

LEMMA UpdatedRequest ==
    ASSUME NEW t \in Service, NEW a \in InHandler \cup {"left"}, NEW m \in Requests
    PROVE  [t EXCEPT !.at = a, !.request = m] \in Service
<1> DEFINE u == [t EXCEPT !.at = a]
<1>1. u \in Service
  BY UpdatedAt
<1> HIDE DEF u
<1>2. [u EXCEPT !.request = m] \in Service
  BY <1>1 DEF Service
<1> QED
  BY <1>2 DEF u

LEMMA UpdatedCode ==
    ASSUME NEW t \in Service, NEW a \in InHandler \cup {"left"}, NEW m \in Codes
    PROVE  [t EXCEPT !.at = a, !.code = m] \in Service
<1> DEFINE u == [t EXCEPT !.at = a]
<1>1. u \in Service
  BY UpdatedAt
<1> HIDE DEF u
<1>2. [u EXCEPT !.code = m] \in Service
  BY <1>1 DEF Service, Codes
<1> QED
  BY <1>2 DEF u

LEMMA UpdatedBuffer ==
    ASSUME NEW t \in Service, NEW a \in InHandler \cup {"left"}, NEW m \in Buffers
    PROVE  [t EXCEPT !.at = a, !.buffer = m] \in Service
<1> DEFINE u == [t EXCEPT !.at = a]
<1>1. u \in Service
  BY UpdatedAt
<1> HIDE DEF u
<1>2. [u EXCEPT !.buffer = m] \in Service
  BY <1>1 DEF Service, Buffers
<1> QED
  BY <1>2 DEF u

LEMMA UpdatedMet ==
    ASSUME NEW t \in Service, NEW a \in InHandler \cup {"left"}, NEW m \in SUBSET Conns
    PROVE  [t EXCEPT !.at = a, !.met = m] \in Service
<1> DEFINE u == [t EXCEPT !.at = a]
<1>1. u \in Service
  BY UpdatedAt
<1> HIDE DEF u
<1>2. [u EXCEPT !.met = m] \in Service
  BY <1>1 DEF Service
<1> QED
  BY <1>2 DEF u

\* So is one that has read the output of a script.
LEMMA UpdatedRead ==
    ASSUME NEW t \in Service, NEW w \in SUBSET Conns
    PROVE  [t EXCEPT !.at = "remove", !.code = 200, !.buffer = "output", !.writers = w]
             \in Service
<1> DEFINE a == [t EXCEPT !.at = "remove"]
           u == [a EXCEPT !.code = 200]
           v == [u EXCEPT !.buffer = "output"]
<1>a. a \in Service
  BY UpdatedAt DEF InHandler
<1> HIDE DEF a
<1>1. u \in Service
  BY <1>a DEF Service
<1> HIDE DEF u
<1>2. v \in Service
  BY <1>1 DEF Service
<1> HIDE DEF v
<1>3. [v EXCEPT !.writers = w] \in Service
  BY <1>2 DEF Service
<1> QED
  BY <1>3 DEF a, u, v

\* No request, no script and no output: the state at the start.
LEMMA InitIInv == Init => IInv
<1> SUFFICES ASSUME Init PROVE IInv
  OBVIOUS
<1>1. NoService \in Service
  BY DEF NoService, Service, InHandler
<1>2. TypeOK
  BY <1>1 DEF Init, TypeOK
<1>3. \A c \in Conns : service[c].at = "none" /\ service[c].buffer = "none"
  BY DEF Init, NoService
<1>4. OutputUnderWay
  BY DEF Init, OutputUnderWay
<1> QED
  BY <1>2, <1>3, <1>4
     DEF Init, IInv, MeetingNoticed, ReadAfterScript, OwnOutputIfAlone, AbandonedOnlyKnown,
         UnderWay

\* What the strengthening says of one service that stands for itself: it is
\* the same after a step in which one service changes, no script starts and
\* nothing is added to an output file.
LEMMA OneService ==
    ASSUME IInv, NEW c \in Conns, NEW s \in Service,
           service' = [service EXCEPT ![c] = s],
           files' \subseteq Resources,
           output' \in [OutputFiles -> SUBSET Conns],
           \A f \in OutputFiles : output'[f] \subseteq output[f],
           main' = main, m_IsStopped' = m_IsStopped, stopped' = stopped,
           alive' = alive,
           accept' = accept \/ accept' = IF m_IsStopped THEN "closed" ELSE "pending",
           \/ s.at \notin UnderWay /\ \A f \in OutputFiles : c \notin output'[f]
           \/ s.at \in UnderWay /\ service[c].at \in UnderWay
                /\ s.request = service[c].request /\ s.met = service[c].met,
           s.buffer = "output" => s.at \in {"remove", "send", "write"},
           s.buffer = "output" /\ s.met = {} => s.writers = {c},
           s.at = "left" => \/ s.request.method = "PUT"
                            \/ s.request.method = "POST" /\ ~ IsScript(s.request)
                            \/ s.request.method \in {"GET", "HEAD"} /\ s.code = 500
    PROVE  IInv'
<1>1. service' \in [Conns -> Service] /\ service'[c] = s
      /\ \A d \in Conns \ {c} : service'[d] = service[d]
  BY DEF IInv, TypeOK
<1>2. TypeOK'
  BY <1>1 DEF IInv, TypeOK
<1>3. OutputUnderWay'
  <2> SUFFICES ASSUME NEW f \in OutputFiles, NEW d \in output'[f]
               PROVE  service'[d].at \in UnderWay /\ OutputFile(service'[d].request) = f
    BY DEF OutputUnderWay
  <2>1. d \in output[f] /\ d \in Conns
    BY DEF IInv, TypeOK
  <2>2. service[d].at \in UnderWay /\ OutputFile(service[d].request) = f
    BY <2>1 DEF IInv, OutputUnderWay
  <2>3. CASE d = c
    BY <1>1, <2>2, <2>3
  <2>4. CASE d # c
    BY <1>1, <2>1, <2>2, <2>4
  <2> QED
    BY <2>3, <2>4
<1>4. MeetingNoticed'
  <2> SUFFICES ASSUME NEW a \in Conns, NEW b \in Conns, a # b,
                      service'[a].at \in UnderWay, service'[b].at \in UnderWay,
                      OutputFile(service'[a].request) = OutputFile(service'[b].request)
               PROVE  service'[a].met # {}
    BY DEF MeetingNoticed
  <2>1. \A d \in {a, b} :
           /\ service[d].at \in UnderWay
           /\ service[d].request = service'[d].request
           /\ service[d].met = service'[d].met
    BY <1>1
  <2> QED
    BY <2>1 DEF IInv, MeetingNoticed
<1>5. OwnOutputIfAlone' /\ ReadAfterScript'
  BY <1>1 DEF IInv, OwnOutputIfAlone, ReadAfterScript
<1>6. AbandonedOnlyKnown'
  BY <1>1 DEF IInv, AbandonedOnlyKnown
<1> QED
  BY <1>2, <1>3, <1>4, <1>5, <1>6 DEF IInv

\* Ending the process, or a step of the main thread, touches no service.
LEMMA SameServices ==
    ASSUME IInv, UNCHANGED <<service, files, output>>, TypeOK'
    PROVE  IInv'
BY DEF IInv, OutputUnderWay, MeetingNoticed, ReadAfterScript, OwnOutputIfAlone,
       AbandonedOnlyKnown

\* A service that is not at a script has nothing in an output file.
LEMMA NothingWritten ==
    ASSUME IInv, NEW c \in Conns, service[c].at \notin UnderWay
    PROVE  \A f \in OutputFiles : c \notin output[f]
BY DEF IInv, OutputUnderWay

\* The step in which a script starts keeps the strengthening: its output file
\* gains c, and c and the scripts it meets note that they met.
LEMMA StartScriptIInv ==
    ASSUME IInv, NEW c \in Conns, StartScript(c)
    PROVE  IInv'
<1> DEFINE f == OutputFile(service[c].request)
           s == [service[c] EXCEPT !.at = "script", !.met = Others(c)]
<1>1. service[c] \in Service /\ service[c].at = "open" /\ f \in OutputFiles
  BY OneOutputFile DEF StartScript, Running, IInv, TypeOK
<1>2. CASE Terminates
  BY <1>2, SameServices DEF Terminates, IInv, TypeOK
<1>3. CASE
        /\ output' = [output EXCEPT ![f] = @ \cup {c}]
        /\ service' = [d \in Conns |->
                         IF d = c THEN s
                         ELSE IF d \in Others(c) THEN [service[d] EXCEPT !.met = @ \cup {c}]
                         ELSE service[d]]
        /\ UNCHANGED <<main, m_IsStopped, stopped, alive, accept, files>>
  <2>1. s \in Service /\ s.at = "script" /\ s.request = service[c].request
        /\ s.met = Others(c) /\ s.buffer = service[c].buffer
        /\ s.writers = service[c].writers
    <3>1. s \in Service
      BY <1>1, UpdatedMet DEF InHandler, Others
    <3> QED
      BY <1>1, <3>1 DEF Service
  <2>2. \A d \in Conns \ {c} :
          /\ service[d] \in Service /\ service'[d] \in Service
          /\ service'[d].at = service[d].at
          /\ service'[d].request = service[d].request
          /\ service'[d].code = service[d].code
          /\ service'[d].buffer = service[d].buffer
          /\ service'[d].writers = service[d].writers
          /\ service'[d].met = IF d \in Others(c) THEN service[d].met \cup {c} ELSE service[d].met
    BY <1>3 DEF IInv, TypeOK, Service
  <2>3. service'[c] = s
    BY <1>3
  <2>4. \A g \in OutputFiles :
          output'[g] = IF g = f THEN output[g] \cup {c} ELSE output[g]
    BY <1>1, <1>3 DEF IInv, TypeOK
  <2> HIDE DEF f, s
  <2>5. TypeOK'
    <3>1. service' \in [Conns -> Service]
      BY <1>3, <2>1, <2>2, <2>3
    <3>2. output' \in [OutputFiles -> SUBSET Conns]
      BY <1>1, <1>3 DEF IInv, TypeOK
    <3> QED
      BY <1>3, <3>1, <3>2 DEF IInv, TypeOK
  <2>6. OutputUnderWay'
    <3> SUFFICES ASSUME NEW g \in OutputFiles, NEW d \in output'[g]
                 PROVE  service'[d].at \in UnderWay
                        /\ OutputFile(service'[d].request) = g
      BY DEF OutputUnderWay
    <3>1. CASE d \in output[g]
      <4>1. d \in Conns /\ service[d].at \in UnderWay
            /\ OutputFile(service[d].request) = g
        BY <3>1 DEF IInv, TypeOK, OutputUnderWay
      <4>2. d # c
        BY <1>1, <4>1 DEF UnderWay
      <4> QED
        BY <2>2, <4>1, <4>2
    <3>2. CASE d \notin output[g]
      <4>1. g = f /\ d = c
        BY <2>4, <3>2
      <4> QED
        BY <2>1, <2>3, <4>1 DEF UnderWay, f
    <3> QED
      BY <3>1, <3>2
  <2>7. MeetingNoticed'
    <3> SUFFICES ASSUME NEW a \in Conns, NEW b \in Conns, a # b,
                        service'[a].at \in UnderWay, service'[b].at \in UnderWay,
                        OutputFile(service'[a].request) = OutputFile(service'[b].request)
                 PROVE  service'[a].met # {}
      BY DEF MeetingNoticed
    <3>1. CASE a = c
      <4>1. b \in Others(c)
        BY <2>1, <2>2, <2>3, <3>1 DEF Others, UnderWay
      <4> QED
        BY <2>1, <2>3, <3>1, <4>1
    <3>2. CASE b = c
      <4>1. a \in Others(c)
        BY <2>1, <2>2, <2>3, <3>2 DEF Others, UnderWay
      <4> QED
        BY <2>2, <3>2, <4>1
    <3>3. CASE a # c /\ b # c
      BY <2>2, <3>3 DEF IInv, MeetingNoticed
    <3> QED
      BY <3>1, <3>2, <3>3
  <2>8. OwnOutputIfAlone' /\ ReadAfterScript'
    <3>1. service[c].buffer # "output"
      BY <1>1 DEF IInv, ReadAfterScript
    <3> QED
      BY <2>1, <2>2, <2>3, <3>1 DEF IInv, OwnOutputIfAlone, ReadAfterScript
  <2>9. AbandonedOnlyKnown'
    <3> SUFFICES ASSUME NEW d \in Conns, service'[d].at = "left"
                 PROVE  LET q == service'[d].request
                        IN  \/ q.method = "PUT"
                            \/ q.method = "POST" /\ ~ IsScript(q)
                            \/ q.method \in {"GET", "HEAD"} /\ service'[d].code = 500
      BY DEF AbandonedOnlyKnown
    <3>1. d # c
      BY <2>1, <2>3
    <3>2. service[d].at = "left" /\ service'[d].request = service[d].request
          /\ service'[d].code = service[d].code
      BY <2>2, <3>1
    <3> QED
      BY <3>2 DEF IInv, AbandonedOnlyKnown
  <2> QED
    BY <2>5, <2>6, <2>7, <2>8, <2>9 DEF IInv
<1> QED
  BY <1>2, <1>3 DEF StartScript

\* Every step of the acceptor, the handlers and the main thread keeps the
\* strengthening.
LEMMA NextIInv == IInv /\ [Next]_vars => IInv'
<1> SUFFICES ASSUME IInv, [Next]_vars PROVE IInv'
  OBVIOUS
<1>1. TypeOK /\ \A c \in Conns : service[c] \in Service
  BY DEF IInv, TypeOK
<1>2. \A f \in OutputFiles : output[f] \subseteq output[f]
  OBVIOUS
<1>3. ASSUME Terminates PROVE IInv'
  BY <1>1, <1>3, SameServices DEF Terminates, TypeOK
<1>4. CASE MainThread
  <2>1. TypeOK'
    BY <1>1, <1>4 DEF MainThread, StopAcceptor, StopIOService, Join, TypeOK
  <2> QED
    BY <1>4, <2>1, SameServices DEF MainThread, StopAcceptor, StopIOService, Join, TypeOK
<1>5. CASE AcceptError
  <2>1. TypeOK'
    BY <1>1, <1>5 DEF AcceptError, AcceptNext, TypeOK
  <2> QED
    BY <1>5, <2>1, SameServices DEF AcceptError, AcceptNext
<1>6. ASSUME NEW c \in Conns, Accept(c) PROVE IInv'
  <2> DEFINE s == [NoService EXCEPT !.at = "read_until"]
  <2>1. s \in Service /\ s.at = "read_until" /\ s.buffer = "none"
    BY DEF NoService, Service, InHandler
  <2>2. \A f \in OutputFiles : c \notin output[f]
    BY <1>6, NothingWritten DEF Accept, UnderWay
  <2>3. service' = [service EXCEPT ![c] = s]
    BY <1>6 DEF Accept
  <2> HIDE DEF s
  <2> QED
    BY <1>1, <1>2, <1>6, <2>1, <2>2, <2>3, OneService
       DEF Accept, AcceptNext, TypeOK, UnderWay
<1>7. ASSUME NEW c \in Conns, ReadRequest(c) PROVE IInv'
  <2>1. CASE Terminates
    BY <1>3, <2>1
  <2>2. ASSUME NEW q \in Requests,
               Becomes(c, [service[c] EXCEPT !.at = "dispatch", !.request = q]),
               UNCHANGED <<files, output>>
        PROVE  IInv'
    <3> DEFINE s == [service[c] EXCEPT !.at = "dispatch", !.request = q]
    <3>1. s \in Service /\ s.at = "dispatch" /\ s.buffer = service[c].buffer
      <4>1. s \in Service
        BY <1>1, <2>2, UpdatedRequest DEF InHandler
      <4> QED
        BY <1>1, <4>1 DEF Service
    <3>2. service[c].at = "read_until" /\ service[c].buffer # "output"
      BY <1>7 DEF ReadRequest, IInv, ReadAfterScript
    <3>3. \A f \in OutputFiles : c \notin output[f]
      BY <3>2, NothingWritten DEF UnderWay
    <3>4. Becomes(c, s)
      BY <2>2
    <3> HIDE DEF s
    <3> QED
      BY <1>1, <1>2, <2>2, <3>1, <3>2, <3>3, <3>4, OneService
         DEF Becomes, TypeOK, UnderWay
  <2> QED
    BY <1>7, <2>1, <2>2 DEF ReadRequest
<1>8. ASSUME NEW c \in Conns, NEW s \in Service,
             service[c].at \in {"dispatch", "exists", "open"},
             Becomes(c, s), files' \subseteq Resources, output' = output,
             s.at \in {"exists", "open", "send", "left"},
             s.buffer # "output",
             s.at = "left" => \/ s.request.method = "PUT"
                              \/ s.request.method = "POST" /\ ~ IsScript(s.request)
                              \/ s.request.method \in {"GET", "HEAD"} /\ s.code = 500
      PROVE  IInv'
  <2>1. \A f \in OutputFiles : c \notin output[f]
    BY <1>8, NothingWritten DEF UnderWay
  <2> QED
    <3>1. service' = [service EXCEPT ![c] = s] /\ main' = main
          /\ m_IsStopped' = m_IsStopped /\ stopped' = stopped
          /\ alive' = alive /\ accept' = accept
      BY <1>8 DEF Becomes
    <3>2. output' \in [OutputFiles -> SUBSET Conns]
          /\ \A f \in OutputFiles : output'[f] \subseteq output[f] /\ c \notin output'[f]
      BY <1>1, <1>8, <2>1 DEF TypeOK
    <3>3. s.at \notin UnderWay
      BY <1>8 DEF UnderWay
    <3> QED
      BY <1>8, <3>1, <3>2, <3>3, OneService
<1>9. \A c \in Conns : service[c].at \in {"dispatch", "exists", "open"}
                         => service[c].buffer # "output"
  BY DEF IInv, ReadAfterScript
<1>10. ASSUME NEW c \in Conns, Dispatch(c) PROVE IInv'
  <2> DEFINE q == service[c].request
  <2>1. service[c] \in Service /\ service[c].at = "dispatch" /\ service[c].buffer # "output"
    BY <1>1, <1>9, <1>10 DEF Dispatch, Running
  <2>2. files' \subseteq Resources /\ output' = output
    BY <1>1, <1>10 DEF Dispatch, TypeOK, Resources
  <2>3. CASE StatusOf(q) # 0
    <3> DEFINE s == [service[c] EXCEPT !.at = "send", !.code = StatusOf(q)]
    <3>1. Becomes(c, s)
      BY <1>10, <2>3, Zenon DEF Dispatch
    <3>2. s \in Service /\ s.at = "send" /\ s.buffer # "output"
      <4>1. StatusOf(q) \in Codes
        BY <2>3 DEF StatusOf, Codes
      <4>2. s \in Service
        BY <2>1, <4>1, UpdatedCode DEF InHandler
      <4> QED
        BY <2>1, <4>2 DEF Service
    <3> HIDE DEF s
    <3> QED
      BY <1>8, <2>1, <2>2, <3>1, <3>2
  <2>4. CASE StatusOf(q) = 0 /\ q.method = "PUT"
    <3> DEFINE s == [service[c] EXCEPT !.at = "left"]
    <3>1. Becomes(c, s)
      BY <1>10, <2>4, Zenon DEF Dispatch
    <3>2. s \in Service /\ s.at = "left" /\ s.buffer # "output" /\ s.request = q
      BY <2>1 DEF Service, InHandler
    <3> HIDE DEF s
    <3> QED
      BY <1>8, <2>1, <2>2, <2>4, <3>1, <3>2
  <2>5. CASE StatusOf(q) = 0 /\ q.method = "OPTIONS"
    <3> DEFINE s == [service[c] EXCEPT !.at = "send"]
    <3>1. Becomes(c, s)
      BY <1>10, <2>5 DEF Dispatch
    <3>2. s \in Service /\ s.at = "send" /\ s.buffer # "output"
      BY <2>1 DEF Service, InHandler
    <3> HIDE DEF s
    <3> QED
      BY <1>8, <2>1, <2>2, <3>1, <3>2
  <2>6. CASE StatusOf(q) = 0 /\ q.method \notin {"PUT", "OPTIONS"}
    <3> DEFINE s == [service[c] EXCEPT !.at = "exists"]
    <3>1. Becomes(c, s)
      BY <1>10, <2>6 DEF Dispatch
    <3>2. s \in Service /\ s.at = "exists" /\ s.buffer # "output"
      BY <2>1 DEF Service, InHandler
    <3> HIDE DEF s
    <3> QED
      BY <1>8, <2>1, <2>2, <3>1, <3>2
  <2> QED
    BY <2>3, <2>4, <2>5, <2>6
<1>11. ASSUME NEW c \in Conns, Exists(c) PROVE IInv'
  <2> DEFINE found == [service[c] EXCEPT !.at = "open"]
             missing == [service[c] EXCEPT !.at = "send", !.code = 404]
  <2>1. service[c] \in Service /\ service[c].at = "exists" /\ service[c].buffer # "output"
    BY <1>1, <1>9, <1>11 DEF Exists, Running
  <2>2. found \in Service /\ found.at = "open" /\ found.buffer # "output"
        /\ missing \in Service /\ missing.at = "send" /\ missing.buffer # "output"
    <3>1. found \in Service
      BY <2>1, UpdatedAt DEF InHandler
    <3>2. missing \in Service
      <4>1. ASSUME NEW k \in Codes
            PROVE  [service[c] EXCEPT !.at = "send", !.code = k] \in Service
        BY <2>1, UpdatedCode DEF InHandler
      <4> QED
        BY <4>1 DEF Codes
    <3> QED
      BY <2>1, <3>1, <3>2 DEF Service
  <2>3. \/ Terminates
        \/ (Becomes(c, found) \/ Becomes(c, missing)) /\ UNCHANGED <<files, output>>
    BY <1>11 DEF Exists
  <2> HIDE DEF found, missing
  <2> QED
    BY <1>1, <1>3, <1>8, <2>1, <2>2, <2>3 DEF TypeOK
<1>12. ASSUME NEW c \in Conns, OpenFile(c) PROVE IInv'
  <2> DEFINE q == service[c].request
             sent == [service[c] EXCEPT !.at = "send",
                                        !.buffer = IF q.method = "GET" THEN "file" ELSE @]
             refused == [service[c] EXCEPT !.at = "left", !.code = 500]
  <2>1. service[c] \in Service /\ service[c].at = "open" /\ service[c].buffer # "output"
    BY <1>1, <1>9, <1>12 DEF OpenFile, Running
  <2>2. q.method \in {"GET", "HEAD"}
    BY <1>12 DEF OpenFile
  <2>3. sent \in Service /\ sent.at = "send" /\ sent.buffer # "output"
    <3>1. sent \in Service
      <4>1. (IF q.method = "GET" THEN "file" ELSE service[c].buffer) \in Buffers
        BY <2>1 DEF Buffers, Service
      <4> QED
        BY <2>1, <4>1, UpdatedBuffer DEF InHandler
    <3> QED
      BY <2>1, <3>1 DEF Service
  <2>4. refused \in Service /\ refused.at = "left" /\ refused.buffer # "output"
        /\ refused.code = 500 /\ refused.request = q
    <3>1. refused \in Service
      <4>1. ASSUME NEW k \in Codes
            PROVE  [service[c] EXCEPT !.at = "left", !.code = k] \in Service
        BY <2>1, UpdatedCode DEF InHandler
      <4> QED
        BY <4>1 DEF Codes
    <3> QED
      BY <2>1, <3>1 DEF Service
  <2>5. \/ Terminates
        \/ (Becomes(c, sent) \/ Becomes(c, refused)) /\ UNCHANGED <<files, output>>
    BY <1>12 DEF OpenFile
  <2> HIDE DEF sent, refused
  <2> QED
    BY <1>1, <1>3, <1>8, <2>1, <2>2, <2>3, <2>4, <2>5 DEF TypeOK
<1>13. ASSUME NEW c \in Conns, DeleteFile(c) PROVE IInv'
  <2> DEFINE s == [service[c] EXCEPT !.at = "send"]
  <2>1. service[c] \in Service /\ service[c].at = "open" /\ service[c].buffer # "output"
    BY <1>1, <1>9, <1>13 DEF DeleteFile, Running
  <2>2. s \in Service /\ s.at = "send" /\ s.buffer # "output"
    BY <2>1 DEF Service, InHandler
  <2>3. Becomes(c, s) /\ output' = output /\ files' \subseteq Resources
    BY <1>1, <1>13 DEF DeleteFile, TypeOK
  <2> HIDE DEF s
  <2> QED
    BY <1>8, <2>1, <2>2, <2>3
<1>14. ASSUME NEW c \in Conns, PostNoScript(c) PROVE IInv'
  <2> DEFINE s == [service[c] EXCEPT !.at = "left"]
  <2>1. service[c] \in Service /\ service[c].at = "open" /\ service[c].buffer # "output"
        /\ service[c].request.method = "POST" /\ ~ IsScript(service[c].request)
    BY <1>1, <1>9, <1>14 DEF PostNoScript, Running
  <2>2. s \in Service /\ s.at = "left" /\ s.buffer # "output"
        /\ s.request = service[c].request
    BY <2>1 DEF Service, InHandler
  <2>3. Becomes(c, s) /\ output' = output /\ files' = files
    BY <1>14 DEF PostNoScript
  <2> HIDE DEF s
  <2> QED
    BY <1>1, <1>8, <2>1, <2>2, <2>3 DEF TypeOK
<1>15. ASSUME NEW c \in Conns, StartScript(c) PROVE IInv'
  BY <1>15, StartScriptIInv
<1>16. ASSUME NEW c \in Conns, EndScript(c) PROVE IInv'
  <2> DEFINE written == output[OutputFile(service[c].request)]
             read == [service[c] EXCEPT !.at = "remove", !.code = 200,
                                        !.buffer = "output", !.writers = written]
             unread == [service[c] EXCEPT !.at = "remove", !.code = 500]
  <2>1. service[c] \in Service /\ service[c].at = "script" /\ service[c].buffer # "output"
    BY <1>1, <1>16 DEF EndScript, Running, IInv, ReadAfterScript
  <2>2. written \subseteq Conns
    BY <1>1, OneOutputFile DEF TypeOK
  <2>3. /\ read \in Service /\ read.at = "remove" /\ read.writers = written
        /\ read.request = service[c].request /\ read.met = service[c].met
    <3>1. read \in Service
      BY <2>1, <2>2, UpdatedRead
    <3> QED
      BY <2>1, <3>1 DEF Service
  <2>4. /\ unread \in Service /\ unread.at = "remove" /\ unread.buffer # "output"
        /\ unread.request = service[c].request /\ unread.met = service[c].met
    <3>1. unread \in Service
      <4>1. ASSUME NEW k \in Codes
            PROVE  [service[c] EXCEPT !.at = "remove", !.code = k] \in Service
        BY <2>1, UpdatedCode DEF InHandler
      <4> QED
        BY <4>1 DEF Codes
    <3> QED
      BY <2>1, <3>1 DEF Service
  <2>5. written # {} /\ service[c].met = {} => written = {c}
    <3> SUFFICES ASSUME service[c].met = {}, NEW d \in written PROVE d = c
      BY <2>2
    <3>1. service[d].at \in UnderWay
          /\ OutputFile(service[d].request) = OutputFile(service[c].request)
      BY OneOutputFile DEF IInv, OutputUnderWay
    <3> QED
      BY <2>1, <2>2, <3>1 DEF IInv, MeetingNoticed, UnderWay
  <2>6. \/ written # {} /\ Becomes(c, read)
        \/ Becomes(c, unread)
    BY <1>16 DEF EndScript
  <2>7. UNCHANGED <<files, output>>
    BY <1>16 DEF EndScript
  <2> HIDE DEF read, unread, written
  <2>8. CASE written # {} /\ Becomes(c, read)
    BY <1>1, <1>2, <2>1, <2>3, <2>5, <2>7, <2>8, OneService DEF Becomes, TypeOK, UnderWay
  <2>9. CASE Becomes(c, unread)
    BY <1>1, <1>2, <2>1, <2>4, <2>7, <2>9, OneService DEF Becomes, TypeOK, UnderWay
  <2> QED
    BY <2>6, <2>8, <2>9
<1>17. ASSUME NEW c \in Conns, RemoveOutput(c) PROVE IInv'
  <2> DEFINE s == [service[c] EXCEPT !.at = "send"]
             f == OutputFile(service[c].request)
  <2>1. service[c] \in Service /\ service[c].at = "remove" /\ f \in OutputFiles
    BY <1>1, <1>17, OneOutputFile DEF RemoveOutput, Running
  <2>2. s \in Service /\ s.at = "send" /\ s.buffer = service[c].buffer
        /\ s.met = service[c].met /\ s.writers = service[c].writers
    BY <2>1 DEF Service, InHandler
  <2>3. Becomes(c, s) /\ files' = files /\ output' = [output EXCEPT ![f] = {}]
    BY <1>17 DEF RemoveOutput
  <2>4. \A g \in OutputFiles : g # f => c \notin output[g]
    BY DEF IInv, OutputUnderWay
  <2> HIDE DEF s, f
  <2>5. output' \in [OutputFiles -> SUBSET Conns]
        /\ \A g \in OutputFiles : output'[g] \subseteq output[g] /\ c \notin output'[g]
    BY <1>1, <2>1, <2>3, <2>4 DEF TypeOK
  <2>6. s.buffer = "output" /\ s.met = {} => s.writers = {c}
    BY <2>2 DEF IInv, OwnOutputIfAlone
  <2> QED
    BY <1>1, <2>2, <2>3, <2>5, <2>6, OneService DEF Becomes, TypeOK, UnderWay
<1>18. ASSUME NEW c \in Conns, SendResponse(c) PROVE IInv'
  <2> DEFINE s == [service[c] EXCEPT !.at = "write"]
  <2>1. service[c] \in Service /\ service[c].at = "send"
    BY <1>1, <1>18 DEF SendResponse, Running
  <2>2. s \in Service /\ s.at = "write" /\ s.buffer = service[c].buffer
        /\ s.met = service[c].met /\ s.writers = service[c].writers
    BY <2>1 DEF Service, InHandler
  <2>3. Terminates \/ (Becomes(c, s) /\ UNCHANGED <<files, output>>)
    BY <1>18 DEF SendResponse
  <2>4. \A g \in OutputFiles : c \notin output[g]
    BY <2>1, NothingWritten DEF UnderWay
  <2>5. s.buffer = "output" /\ s.met = {} => s.writers = {c}
    BY <2>2 DEF IInv, OwnOutputIfAlone
  <2> HIDE DEF s
  <2> QED
    BY <1>1, <1>2, <1>3, <2>2, <2>3, <2>4, <2>5, OneService DEF Becomes, TypeOK, UnderWay
<1>19. ASSUME NEW c \in Conns, EndWrite(c) PROVE IInv'
  <2>1. NoService \in Service /\ NoService.at = "none" /\ NoService.buffer = "none"
    BY DEF NoService, Service, InHandler
  <2>2. \A g \in OutputFiles : c \notin output[g]
    BY <1>19, NothingWritten DEF EndWrite, UnderWay
  <2>3. Becomes(c, NoService) /\ UNCHANGED <<files, output>>
    BY <1>19 DEF EndWrite
  <2> QED
    BY <1>1, <1>2, <2>1, <2>2, <2>3, OneService DEF Becomes, TypeOK, UnderWay
<1>20. CASE UNCHANGED vars
  BY <1>1, <1>20, SameServices DEF vars, TypeOK
<1> QED
  BY <1>4, <1>5, <1>6, <1>7, <1>10, <1>11, <1>12, <1>13, <1>14, <1>15, <1>16,
     <1>17, <1>18, <1>19, <1>20 DEF Next, Handler

-----------------------------------------------------------------------------
\* The strengthening holds in every reachable state.
THEOREM Invariance == Spec => []IInv
BY InitIInv, NextIInv, PTL DEF Spec

\* The state keeps its types, whatever the threads do.
THEOREM TypeCorrect == Spec => []TypeOK
<1>1. IInv => TypeOK
  BY DEF IInv
<1> QED
  BY Invariance, <1>1, PTL

\* A script that met no other one is answered with its own output only.
THEOREM OwnOutputCorrect == Spec => []OwnOutputIfAlone
<1>1. IInv => OwnOutputIfAlone
  BY DEF IInv
<1> QED
  BY Invariance, <1>1, PTL

\* No request is left without a response but in the known cases.
THEOREM AbandonedCorrect == Spec => []AbandonedOnlyKnown
<1>1. IInv => AbandonedOnlyKnown
  BY DEF IInv
<1> QED
  BY Invariance, <1>1, PTL
=============================================================================
