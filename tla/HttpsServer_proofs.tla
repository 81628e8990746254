-------------------------- MODULE HttpsServer_proofs --------------------------
(***************************************************************************)
(* Proofs about HttpsServer, for any requests and any number of kills.     *)
(***************************************************************************)
EXTENDS HttpsServer, TLAPS

(***************************************************************************)
(* The inductive invariant, part by part.  First, what the service is at   *)
(* each place of the worker (ServiceFits).                                 *)
(***************************************************************************)

\* Nothing has been set since it was made.
Blank(s) ==
    /\ s \in Service
    /\ s.code \in {200, 404, Junk} /\ s.size \in {0, Junk}
    /\ s.buffer = None /\ s.reply = None /\ s.sends = 0 /\ ~ s.caught

\* It has a request that was not refused.
Accepted(s) ==
    /\ Blank(s)
    /\ s.request \in Questions
    /\ s.request.status = 0 /\ s.request.resource # Empty
    /\ s.request.method \in {"GET", "POST"}

\* Status, buffer and request go together.
Prepared(s) ==
    /\ s.request.status # 0 => s.code = s.request.status /\ s.buffer = None
    /\ s.request.status = 0 /\ s.buffer = None =>
           s.code = 404 \/ (s.code = 500 /\ IsScript(s.request.resource))
    /\ s.buffer = "output" => s.code = 200 /\ IsScript(s.request.resource)
    /\ s.buffer = "file" =>
           /\ s.code \in {200, 404, Junk}
           /\ s.request.method = "GET" /\ ~ IsScript(s.request.resource)

\* The response is to be sent.
Ready(s) ==
    /\ s \in Service
    /\ s.request \in Questions
    /\ s.reply = None /\ s.sends = 0 /\ ~ s.caught
    /\ Prepared(s)

ReplyFits(s) ==
    /\ s.request.status # 0 => s.reply = [code |-> s.request.status, body |-> None]
    /\ s.request.status = 0 /\ s.buffer = None =>
           s.reply.code \in {404, 500} /\ s.reply.body = None
    /\ s.buffer = "output" => s.reply.code = 200 /\ IsScript(s.request.resource)
    /\ s.buffer = "file" => ~ IsScript(s.request.resource)

\* It was answered, or an exception was caught, or it is one of the two
\* cases in which nothing is sent.
Done(s) ==
    /\ s \in Service
    /\ s.reply # None => s.sends = 1 /\ ReplyFits(s)
    /\ s.reply = None => s.sends = 0
    /\ s.reply = None /\ ~ s.caught =>
           /\ s.request.status = 0 /\ ~ IsScript(s.request.resource)
           /\ s.request.method = "GET" => s.code = 500

NoServicePlaces == {"none", "HttpsAcceptor", "StartAcceptor", "accept", "ended"}

ServiceFits(place, s) ==
    /\ place \in NoServicePlaces => s = None
    /\ place \in {"handshake", "read_until"} => Blank(s) /\ s.request = None
    /\ place = "HttpsHandleRequest" => Blank(s) /\ s.request \in Questions
    /\ place = "ProcessGetRequest" => Accepted(s) /\ s.request.method = "GET"
    /\ place = "ProcessPostRequest" =>
           Accepted(s) /\ (s.request.method = "GET" => IsScript(s.request.resource))
    /\ place = "ExecuteProgram" => Accepted(s) /\ IsScript(s.request.resource)
    /\ place = "SendResponse" => Ready(s)
    /\ place = "Finished" => Done(s)

(***************************************************************************)
(* A connection that was accepted after Stop is the last: m_Stop is read   *)
(* before the worker comes to accept again.                                *)
(***************************************************************************)
StopSeen ==
    /\ main = "HttpsServer" => worker = "none"
    /\ afterStop > 0 =>
           afterStop = 1 /\ m_Stop /\ worker \notin {"none", "HttpsAcceptor", "accept"}

(***************************************************************************)
(* An output file has something in it that no script of this process is    *)
(* writing only after a kill, which has not shown in a reply so far.       *)
(***************************************************************************)
Running(f) ==
    At("ExecuteProgram") /\ f = OutputFile(service.request.resource)

Left(f) ==
    IF output[f] = "mixed" \/ (output[f] = "written" /\ ~ Running(f)) THEN 1 ELSE 0

LeftBehind == mixed + Left("tempfile") + Left("cgi_tempfile") <= faults

IInv ==
    /\ TypeOK
    /\ ServiceFits(worker, service)
    /\ StopSeen
    /\ LeftBehind

-----------------------------------------------------------------------------
(***************************************************************************)
(* The parser.                                                             *)
(***************************************************************************)

\* The words that are there come first, and none of them is empty.
LEMMA WordsType ==
    ASSUME NEW q \in Requests
    PROVE  /\ \A i \in 1 .. 3 : Word(q, i) \in Words \cup {Empty}
           /\ Word(q, 3) # Empty => Word(q, 2) # Empty
<1>1. q.words \in Seq(Words)
  BY HttpsAssumption DEF Request
<1>2. Len(q.words) \in Nat /\ \A i \in 1 .. Len(q.words) : q.words[i] \in Words
  BY <1>1
<1> QED
  BY <1>2, HttpsAssumption DEF Word

\* What the parser makes of any request; one that it does not refuse has a
\* method that is known, and a resource.
LEMMA QuestionsType ==
    ASSUME NEW r \in Questions
    PROVE  /\ r \in Parsed
           /\ r # None
           /\ r.status = 0 => r.method \in {"GET", "POST"} /\ r.resource # Empty
<1>1. PICK q \in Requests : r = GetHttpRequest(q)
  BY DEF Questions
<1>2. r \in Parsed
  BY <1>1, WordsType DEF GetHttpRequest, Parsed
<1>3. r.status = 0 => r.method \in {"GET", "POST"} /\ Word(q, 3) = "HTTP/1.1"
  BY <1>1 DEF GetHttpRequest
<1>4. r.resource = Word(q, 2)
  BY <1>1 DEF GetHttpRequest
<1>5. Empty # "HTTP/1.1"
  BY DEF Empty
<1> QED
  BY <1>1, <1>2, <1>3, <1>4, <1>5, WordsType, HttpsAssumption

\* No record is None.
LEMMA NotNone ==
    /\ \A s \in Service : s # None
    /\ \A r \in Reply : r # None
    /\ \A r \in Parsed : r # None
BY HttpsAssumption

-----------------------------------------------------------------------------
(***************************************************************************)
(* Steps and StopSeen.                                                     *)
(***************************************************************************)

\* The steps that are not part of handling a request.
LEMMA StopSeenLoop ==
    ASSUME DataOK, StopSeen,
           \/ Start \/ Stop \/ Join \/ Construct \/ CheckStop \/ Accept \/ Finished
           \/ Kill \/ Restart
    PROVE  StopSeen'
<1>0. afterStop \in 0 .. 2
  BY DEF DataOK
<1>1. CASE Start \/ Stop \/ Join
  BY <1>1 DEF Start, Stop, Join, StopSeen, others
<1>2. CASE Construct \/ CheckStop \/ Finished
  BY <1>2 DEF Construct, CheckStop, Finished, Goto, Terminates, At, StopSeen, others
<1>3. CASE Accept
  <2>a. main' = main /\ m_Stop' = m_Stop /\ worker = "accept"
    BY <1>3 DEF Accept, Goto, Terminates, At
  <2>1. main' = main /\ m_Stop' = m_Stop /\ worker = "accept" /\ afterStop = 0
    BY <1>0, <2>a DEF StopSeen
  <2>2. CASE worker' = "accept" /\ afterStop' = afterStop
    BY <2>1, <2>2 DEF StopSeen
  <2>3. CASE worker' = "handshake" /\ afterStop' = 1 /\ m_Stop
    BY <2>1, <2>3 DEF StopSeen
  <2>4. CASE worker' = "handshake" /\ afterStop' = 0
    BY <2>1, <2>4 DEF StopSeen
  <2> QED
    BY <1>3, <2>1, <2>2, <2>3, <2>4 DEF Accept, Goto, Terminates
<1>4. CASE Kill \/ Restart
  BY <1>4 DEF Kill, Restart, StopSeen
<1> QED
  BY <1>1, <1>2, <1>3, <1>4

\* The steps of a handler.
LEMMA StopSeenHandler ==
    ASSUME StopSeen, worker # "none", UNCHANGED <<main, m_Stop, afterStop>>,
           worker' = worker \/ worker' \notin {"none", "HttpsAcceptor", "accept"}
    PROVE  StopSeen'
BY DEF StopSeen

-----------------------------------------------------------------------------
(***************************************************************************)
(* Steps and LeftBehind.                                                   *)
(***************************************************************************)

\* A step that touches no output file, and begins and ends no script.
LEMMA LeftUntouched ==
    ASSUME LeftBehind, UNCHANGED <<output, faults, mixed>>,
           \/ ~ At("ExecuteProgram") /\ ~ At("ExecuteProgram")'
           \/ UNCHANGED <<worker, alive, service>>
    PROVE  LeftBehind'
BY DEF LeftBehind, Left, Running, At

\* The file of a script is opened without being cut.
LEMMA LeftPostScript ==
    ASSUME DataOK, LeftBehind, PostScript
    PROVE  LeftBehind' /\ DataOK'
<1> DEFINE f == OutputFile(service.request.resource)
<1>1. f \in OutputFiles
  BY DEF OutputFile, OutputFiles
<1>2. /\ output \in [OutputFiles -> {"absent", "empty", "written", "mixed"}]
      /\ faults \in Nat /\ mixed \in Nat
  BY HttpsAssumption DEF DataOK
<1>3. worker = "ProcessPostRequest" /\ service' = service /\ UNCHANGED <<faults, mixed>>
  BY DEF PostScript, At, Goto, Terminates
<1>4. \/ worker' = "ExecuteProgram" /\ alive' /\ output' = [output EXCEPT ![f] = Written(@)]
      \/ ~ alive' /\ output' = [output EXCEPT ![f] = Opened(@)]
  BY DEF PostScript, At, Goto, Terminates
<1>5. DataOK'
  BY <1>1, <1>2, <1>4 DEF PostScript, Goto, Terminates, DataOK, Written, Opened
<1>6. \A g \in OutputFiles : Left(g)' <= Left(g)
  BY <1>1, <1>2, <1>3, <1>4 DEF Left, Running, At, Written, Opened
<1>7. /\ Left("tempfile")' <= Left("tempfile")
      /\ Left("cgi_tempfile")' <= Left("cgi_tempfile")
  BY <1>6 DEF OutputFiles
<1>8. /\ Left("tempfile") \in Nat /\ Left("cgi_tempfile") \in Nat
      /\ Left("tempfile")' \in Nat /\ Left("cgi_tempfile")' \in Nat
  BY DEF Left
<1>9. LeftBehind'
  BY <1>2, <1>3, <1>7, <1>8 DEF LeftBehind
<1> QED
  BY <1>5, <1>9

\* The file is removed: what others have left in it shows in this reply, or
\* never.
LEMMA LeftEndScript ==
    ASSUME DataOK, LeftBehind, EndScript
    PROVE  LeftBehind' /\ mixed' \in Nat
           /\ output' \in [OutputFiles -> {"absent", "empty", "written", "mixed"}]
<1>1. PICK f \in OutputFiles : f = OutputFile(service.request.resource)
  BY DEF OutputFile, OutputFiles
<1>2. /\ output \in [OutputFiles -> {"absent", "empty", "written", "mixed"}]
      /\ faults \in Nat /\ mixed \in Nat
  BY HttpsAssumption DEF DataOK
<1>3. /\ worker = "ExecuteProgram" /\ alive /\ worker' = "SendResponse"
      /\ output' = [output EXCEPT ![f] = "absent"] /\ faults' = faults
      /\ mixed' = mixed \/ (mixed' = mixed + 1 /\ output[f] = "mixed")
  BY <1>1 DEF EndScript, ReadOutput, NoOutput, At, Goto
<1>4. Left(f)' = 0 /\ (mixed' = mixed + 1 => Left(f) = 1)
  <2>1. output'[f] = "absent"
    BY <1>2, <1>3
  <2>2. Left(f)' = 0
    BY <2>1 DEF Left
  <2>3. mixed' = mixed + 1 => output[f] = "mixed"
    BY <1>2, <1>3
  <2> QED
    BY <2>2, <2>3 DEF Left
<1>5. \A g \in OutputFiles \ {f} : Left(g)' = Left(g)
  BY <1>1, <1>2, <1>3 DEF Left, Running, At
<1>6. /\ Left("tempfile") \in Nat /\ Left("cgi_tempfile") \in Nat
  BY DEF Left
<1>7. CASE f = "tempfile"
  <2>1. Left("cgi_tempfile")' = Left("cgi_tempfile")
    BY <1>5, <1>7 DEF OutputFiles
  <2> QED
    BY <1>2, <1>3, <1>4, <1>6, <1>7, <2>1 DEF LeftBehind
<1>8. CASE f = "cgi_tempfile"
  <2>1. Left("tempfile")' = Left("tempfile")
    BY <1>5, <1>8 DEF OutputFiles
  <2> QED
    BY <1>2, <1>3, <1>4, <1>6, <1>8, <2>1 DEF LeftBehind
<1> QED
  BY <1>1, <1>2, <1>3, <1>7, <1>8 DEF OutputFiles

\* A kill leaves at most one file behind: one script runs at a time.
LEMMA LeftKill ==
    ASSUME DataOK, LeftBehind, Kill
    PROVE  LeftBehind'
<1> DEFINE f == OutputFile(service.request.resource)
<1>1. f = "tempfile" \/ f = "cgi_tempfile"
  BY DEF OutputFile
<1>2. faults \in Nat /\ mixed \in Nat
  BY HttpsAssumption DEF DataOK
<1>3. faults' = faults + 1 /\ mixed' = mixed /\ output' = output
  BY DEF Kill
<1>4. \A g \in OutputFiles \ {f} : Left(g)' = Left(g)
  BY <1>3 DEF Kill, Left, Running, At
<1>5. /\ Left("tempfile") \in {0, 1} /\ Left("cgi_tempfile") \in {0, 1}
      /\ Left("tempfile")' \in {0, 1} /\ Left("cgi_tempfile")' \in {0, 1}
  BY DEF Left
<1> HIDE DEF f
<1> QED
  BY <1>1, <1>2, <1>3, <1>4, <1>5 DEF LeftBehind, OutputFiles

-----------------------------------------------------------------------------
(***************************************************************************)
(* What the assignments of a handler make of a service, member by member.  *)
(***************************************************************************)
\* The members of a service.
Has(t, request, code, size, buffer, reply, sends, caught) ==
    /\ t \in Service
    /\ t.request = request /\ t.code = code /\ t.size = size /\ t.buffer = buffer
    /\ t.reply = reply /\ t.sends = sends /\ t.caught = caught

LEMMA SetRequest ==
    ASSUME NEW s \in Service, NEW r \in Parsed
    PROVE  Has([s EXCEPT !.request = r],
               r, s.code, s.size, s.buffer, s.reply, s.sends, s.caught)
BY DEF Service, Codes, Sizes, Buffers, Has

LEMMA SetCode ==
    ASSUME NEW s \in Service, NEW c \in Codes
    PROVE  Has([s EXCEPT !.code = c],
               s.request, c, s.size, s.buffer, s.reply, s.sends, s.caught)
BY DEF Service, Codes, Sizes, Buffers, Has

LEMMA SetCaught ==
    ASSUME NEW s \in Service
    PROVE  Has([s EXCEPT !.caught = TRUE],
               s.request, s.code, s.size, s.buffer, s.reply, s.sends, TRUE)
<1> DEFINE t == [s EXCEPT !.caught = TRUE]
<1>1. t \in Service
  <2>1. ASSUME NEW k \in BOOLEAN PROVE [s EXCEPT !.caught = k] \in Service
    BY DEF Service
  <2> QED
    BY <2>1
<1>2. /\ t.request = s.request /\ t.code = s.code /\ t.size = s.size
      /\ t.buffer = s.buffer /\ t.reply = s.reply /\ t.sends = s.sends
  BY DEF Service
<1>3. t.caught = TRUE
  BY DEF Service
<1> QED
  BY <1>1, <1>2, <1>3 DEF Has

LEMMA SetSize ==
    ASSUME NEW s \in Service, NEW z \in Sizes
    PROVE  Has([s EXCEPT !.size = z],
               s.request, s.code, z, s.buffer, s.reply, s.sends, s.caught)
BY DEF Service, Codes, Sizes, Buffers, Has

LEMMA SetBuffer ==
    ASSUME NEW s \in Service, NEW z \in Sizes, NEW b \in Buffers
    PROVE  Has([s EXCEPT !.size = z, !.buffer = b],
               s.request, s.code, z, b, s.reply, s.sends, s.caught)
<1> DEFINE u == [s EXCEPT !.size = z]
           v == [u EXCEPT !.buffer = b]
<1>1. Has(u, s.request, s.code, z, s.buffer, s.reply, s.sends, s.caught)
  BY DEF Service, Codes, Sizes, Buffers, Has
<1> HIDE DEF u
<1>2. Has(v, s.request, s.code, z, b, s.reply, s.sends, s.caught)
  BY <1>1 DEF Service, Codes, Sizes, Buffers, Has
<1> HIDE DEF v
<1> QED
  BY <1>2 DEF u, v

LEMMA SetOutput ==
    ASSUME NEW s \in Service, NEW z \in Sizes
    PROVE  Has([s EXCEPT !.code = 200, !.size = z, !.buffer = "output"],
               s.request, 200, z, "output", s.reply, s.sends, s.caught)
<1> DEFINE u == [s EXCEPT !.code = 200]
           v == [u EXCEPT !.size = z]
           w == [v EXCEPT !.buffer = "output"]
<1>1. Has(u, s.request, 200, s.size, s.buffer, s.reply, s.sends, s.caught)
  BY DEF Service, Codes, Sizes, Buffers, Has
<1> HIDE DEF u
<1>2. Has(v, s.request, 200, z, s.buffer, s.reply, s.sends, s.caught)
  BY <1>1 DEF Service, Codes, Sizes, Buffers, Has
<1> HIDE DEF v
<1>3. Has(w, s.request, 200, z, "output", s.reply, s.sends, s.caught)
  BY <1>2 DEF Service, Codes, Sizes, Buffers, Has
<1> HIDE DEF w
<1> QED
  BY <1>3 DEF u, v, w

LEMMA SetReply ==
    ASSUME NEW s \in Service, NEW r \in Reply
    PROVE  Has([s EXCEPT !.sends = @ + 1, !.size = 0, !.reply = r],
               s.request, s.code, 0, s.buffer, r, s.sends + 1, s.caught)
<1> DEFINE u == [s EXCEPT !.sends = @ + 1]
           v == [u EXCEPT !.size = 0]
           w == [v EXCEPT !.reply = r]
<1>1. Has(u, s.request, s.code, s.size, s.buffer, s.reply, s.sends + 1, s.caught)
  BY DEF Service, Codes, Sizes, Buffers, Has
<1> HIDE DEF u
<1>2. Has(v, s.request, s.code, 0, s.buffer, s.reply, s.sends + 1, s.caught)
  BY <1>1 DEF Service, Codes, Sizes, Buffers, Has
<1> HIDE DEF v
<1>3. Has(w, s.request, s.code, 0, s.buffer, r, s.sends + 1, s.caught)
  BY <1>2 DEF Service, Codes, Sizes, Buffers, Has
<1> HIDE DEF w
<1> QED
  BY <1>3 DEF u, v, w

-----------------------------------------------------------------------------
(***************************************************************************)
(* Where the worker goes: at each of its steps it ends with the process,   *)
(* or goes to a place where the service fits, and the exchange that the    *)
(* client sees makes one move.                                             *)
(***************************************************************************)
PhaseAt(place, s) ==
    IF s = None THEN "idle"
    ELSE IF s.reply # None THEN "answered"
    ELSE IF place = "Finished" THEN "hung up"
    ELSE IF s.request = None THEN "connected"
    ELSE "asked"

QuestionOf(s) == IF s = None THEN None ELSE s.request
AnswerOf(s)   == IF s = None THEN None ELSE s.reply

Stays(w, r, p, s) ==
    PhaseAt(p, s) = PhaseAt(w, r) /\ QuestionOf(s) = QuestionOf(r) /\ AnswerOf(s) = AnswerOf(r)

Connects(w, r, p, s) ==
    /\ PhaseAt(w, r) = "idle" /\ PhaseAt(p, s) = "connected"
    /\ QuestionOf(s) = QuestionOf(r) /\ AnswerOf(s) = AnswerOf(r)

Asks(w, r, p, s) ==
    /\ PhaseAt(w, r) = "connected" /\ PhaseAt(p, s) = "asked"
    /\ QuestionOf(s) \in Questions /\ AnswerOf(s) = AnswerOf(r)

GetsAnswer(w, r, p, s) ==
    /\ PhaseAt(w, r) = "asked" /\ PhaseAt(p, s) = "answered"
    /\ QuestionOf(r) \in Questions /\ QuestionOf(s) = QuestionOf(r)
    /\ AnswerOf(s) \in AnswersTo(QuestionOf(r))

IsHungUp(w, r, p, s) ==
    /\ PhaseAt(w, r) \in {"connected", "asked"} /\ PhaseAt(p, s) = "hung up"
    /\ QuestionOf(s) = QuestionOf(r) /\ AnswerOf(s) = AnswerOf(r)

Moves(w, r, p, s) ==
    \/ s = None
    \/ Stays(w, r, p, s)
    \/ Connects(w, r, p, s)
    \/ Asks(w, r, p, s)
    \/ GetsAnswer(w, r, p, s)
    \/ IsHungUp(w, r, p, s)

Goes(p, s) == Goto(p, s) /\ ServiceFits(p, s) /\ Moves(worker, service, p, s)

WorkerGoes == \E p \in Places, s \in Service \cup {None} : Goes(p, s)

\* While a connection is served, and before it is finished, its service is
\* one that was neither answered nor left.
LEMMA Serving ==
    ASSUME IInv,
           worker \in {"handshake", "read_until", "HttpsHandleRequest", "ProcessGetRequest",
                       "ProcessPostRequest", "ExecuteProgram", "SendResponse"}
    PROVE  /\ service \in Service /\ service # None
           /\ service.reply = None /\ service.sends = 0 /\ ~ service.caught
           /\ worker \in {"handshake", "read_until"} =>
                  /\ Blank(service) /\ service.request = None
                  /\ PhaseAt(worker, service) = "connected"
           /\ worker \notin {"handshake", "read_until"} =>
                  /\ service.request \in Questions /\ service.request # None
                  /\ service.request \in Parsed
                  /\ PhaseAt(worker, service) = "asked"
           /\ QuestionOf(service) = service.request /\ AnswerOf(service) = None
<1>1. ServiceFits(worker, service)
  BY DEF IInv
<1>2. CASE worker \in {"handshake", "read_until"}
  BY <1>1, <1>2, NotNone DEF ServiceFits, Blank, PhaseAt, QuestionOf, AnswerOf
<1>3. CASE worker \notin {"handshake", "read_until"}
  <2>1. /\ service \in Service /\ service.request \in Questions
        /\ service.reply = None /\ service.sends = 0 /\ ~ service.caught
    BY <1>1, <1>3 DEF ServiceFits, Blank, Accepted, Ready
  <2>2. service # None /\ service.request # None /\ service.request \in Parsed
    BY <2>1, NotNone, QuestionsType
  <2> QED
    BY <1>3, <2>1, <2>2 DEF PhaseAt, QuestionOf, AnswerOf
<1> QED
  BY <1>2, <1>3

\* A service that was just made.
LEMMA NewBlank ==
    ASSUME NEW s \in NewServices
    PROVE  Blank(s) /\ s.request = None
<1>1. /\ s.request = None /\ s.buffer = None /\ s.reply = None /\ s.sends = 0
      /\ ~ s.caught /\ s.code \in {200, 404, Junk} /\ s.size \in {0, Junk}
  BY DEF NewServices
<1>2. s \in Service
  <2>1. s = [request |-> s.request, code |-> s.code, size |-> s.size,
             buffer |-> s.buffer, reply |-> s.reply, sends |-> s.sends,
             caught |-> s.caught]
    BY DEF NewServices
  <2>2. s.caught \in BOOLEAN
    BY DEF NewServices
  <2> QED
    BY <1>1, <2>1, <2>2 DEF Service, Codes, Sizes, Buffers
<1> QED
  BY <1>1, <1>2 DEF Blank

\* The loop of the acceptor.
LEMMA LoopGoes ==
    ASSUME IInv, Construct \/ CheckStop \/ Accept \/ Finished
    PROVE  Terminates \/ WorkerGoes
<1>1. CASE Construct \/ CheckStop
  <2>1. service = None
    BY <1>1 DEF Construct, CheckStop, At, IInv, ServiceFits, NoServicePlaces
  <2>2. \A p \in {"StartAcceptor", "ended", "accept"} :
          p \in Places /\ ServiceFits(p, service) /\ Moves(worker, service, p, service)
    BY <2>1 DEF ServiceFits, NoServicePlaces, Moves, Places
  <2> QED
    BY <1>1, <2>1, <2>2 DEF Construct, CheckStop, WorkerGoes, Goes
<1>2. CASE Accept
  <2>1. worker = "accept" /\ service = None
    BY <1>2 DEF Accept, At, IInv, ServiceFits, NoServicePlaces
  <2>2. ASSUME NEW s \in NewServices, Goto("handshake", s)
        PROVE  WorkerGoes
    <3>1. Blank(s) /\ s.request = None
      BY NewBlank
    <3>2. s \in Service /\ s # None
      BY <3>1, NotNone DEF Blank
    <3>3. ServiceFits("handshake", s)
      BY <3>1 DEF ServiceFits, NoServicePlaces
    <3>4. Connects(worker, service, "handshake", s)
      BY <2>1, <3>1, <3>2 DEF Connects, PhaseAt, QuestionOf, AnswerOf, Blank
    <3> QED
      BY <2>2, <3>2, <3>3, <3>4 DEF WorkerGoes, Goes, Moves, Places
  <2> QED
    BY <1>2, <2>2 DEF Accept
<1>3. CASE Finished
  <2>1. ServiceFits("StartAcceptor", None)
    BY DEF ServiceFits, NoServicePlaces
  <2> QED
    BY <1>3, <2>1 DEF Finished, WorkerGoes, Goes, Moves, Places
<1> QED
  BY <1>1, <1>2, <1>3

\* An exception is caught.
LEMMA CaughtGoes ==
    ASSUME IInv, Goto("Finished", [service EXCEPT !.caught = TRUE]),
           worker \in {"handshake", "read_until", "HttpsHandleRequest", "ProcessGetRequest",
                       "ProcessPostRequest", "SendResponse"}
    PROVE  WorkerGoes
<1> DEFINE s == [service EXCEPT !.caught = TRUE]
<1>a. service \in Service /\ service.reply = None /\ service.sends = 0
  BY Serving
<1>b. Has(s, service.request, service.code, service.size, service.buffer,
             service.reply, service.sends, TRUE)
  BY <1>a, SetCaught
<1>c. Goto("Finished", s)
  OBVIOUS
<1> HIDE DEF s
<1>1. /\ s \in Service /\ s.request = service.request /\ s.caught = TRUE
      /\ s.reply = None /\ s.sends = 0
  BY <1>a, <1>b DEF Has
<1>2. ServiceFits("Finished", s)
  BY <1>1 DEF ServiceFits, NoServicePlaces, Done
<1>3. s # None
  BY <1>1, NotNone
<1>4. IsHungUp(worker, service, "Finished", s)
  BY <1>1, <1>3, Serving DEF IsHungUp, PhaseAt, QuestionOf, AnswerOf
<1> QED
  BY <1>1, <1>2, <1>4, <1>c DEF WorkerGoes, Goes, Moves, Places

\* A response is to be sent.
LEMMA ReadyGoes ==
    ASSUME IInv, NEW s, Goto("SendResponse", s), Ready(s), s.request = service.request,
           worker \in {"HttpsHandleRequest", "ProcessGetRequest", "ProcessPostRequest",
                       "ExecuteProgram"}
    PROVE  WorkerGoes
<1>1. s \in Service /\ s # None /\ s.reply = None
  BY NotNone DEF Ready
<1>2. ServiceFits("SendResponse", s)
  BY DEF ServiceFits, NoServicePlaces
<1>3. Stays(worker, service, "SendResponse", s)
  BY <1>1, Serving DEF Stays, PhaseAt, QuestionOf, AnswerOf
<1> QED
  BY <1>1, <1>2, <1>3 DEF WorkerGoes, Goes, Moves, Places

\* The status is set and the response sent without a body, or nothing of it.
LEMMA CodeGoes ==
    ASSUME IInv, NEW c \in {404, 500}, Goto("SendResponse", [service EXCEPT !.code = c]),
           Blank(service), service.request \in Questions, service.request.status = 0,
           c = 404 \/ IsScript(service.request.resource),
           worker \in {"ProcessGetRequest", "ProcessPostRequest", "ExecuteProgram"}
    PROVE  WorkerGoes
<1> DEFINE s == [service EXCEPT !.code = c]
<1>1. service \in Service /\ c \in Codes
  BY DEF Blank, Codes
<1>2. Has(s, service.request, c, service.size, service.buffer, service.reply,
          service.sends, service.caught)
  BY <1>1, SetCode
<1>3. Goto("SendResponse", s)
  OBVIOUS
<1> HIDE DEF s
<1>4. Ready(s)
  BY <1>2, HttpsAssumption DEF Ready, Prepared, Blank, Has
<1> QED
  BY <1>2, <1>3, <1>4, ReadyGoes DEF Has

\* Nothing is changed, and the request goes on to another function.
LEMMA PassedOn ==
    ASSUME IInv, NEW p \in {"ProcessGetRequest", "ProcessPostRequest", "ExecuteProgram"},
           Goto(p, service), ServiceFits(p, service),
           worker \in {"HttpsHandleRequest", "ProcessGetRequest", "ProcessPostRequest"}
    PROVE  WorkerGoes
<1>1. Stays(worker, service, p, service)
  BY Serving DEF Stays, PhaseAt
<1> QED
  BY <1>1, Serving DEF WorkerGoes, Goes, Moves, Places

\* Nothing is sent.
LEMMA SilentGoes ==
    ASSUME IInv, NEW s \in Service, Goto("Finished", s),
           s.request = service.request, s.reply = None, s.sends = 0,
           s.request.status = 0, ~ IsScript(s.request.resource),
           s.request.method = "GET" => s.code = 500,
           worker \in {"ProcessGetRequest", "ProcessPostRequest"}
    PROVE  WorkerGoes
<1>1. s # None
  BY NotNone
<1>2. ServiceFits("Finished", s)
  BY DEF ServiceFits, NoServicePlaces, Done
<1>3. IsHungUp(worker, service, "Finished", s)
  BY <1>1, Serving DEF IsHungUp, PhaseAt, QuestionOf, AnswerOf
<1> QED
  BY <1>2, <1>3 DEF WorkerGoes, Goes, Moves, Places

\* The request is read.
LEMMA ReadGoes ==
    ASSUME IInv, Handshake \/ Read
    PROVE  Terminates \/ WorkerGoes
<1>1. CASE Handshake
  <2>1. worker = "handshake" /\ Goto("read_until", service)
    BY <1>1 DEF Handshake, At
  <2>2. ServiceFits("read_until", service)
    BY <2>1, Serving DEF ServiceFits, NoServicePlaces
  <2>3. Stays(worker, service, "read_until", service)
    BY <2>1, Serving DEF Stays, PhaseAt
  <2> QED
    BY <2>1, <2>2, <2>3, Serving DEF WorkerGoes, Goes, Moves, Places
<1>2. CASE Read
  <2>0. worker = "read_until"
    BY <1>2 DEF Read, At
  <2>1. ASSUME NEW q \in Requests, q.text,
               Goto("HttpsHandleRequest", [service EXCEPT !.request = GetHttpRequest(q)])
        PROVE  WorkerGoes
    <3> DEFINE r == GetHttpRequest(q)
               s == [service EXCEPT !.request = r]
    <3>1. r \in Questions
      BY <2>1 DEF Questions
    <3>2. r \in Parsed /\ r # None
      BY <3>1, QuestionsType
    <3> HIDE DEF r
    <3>a. service \in Service
      BY <2>0, Serving
    <3>b. Has(s, r, service.code, service.size, service.buffer,
                 service.reply, service.sends, service.caught)
      BY <3>2, <3>a, SetRequest
    <3>3. /\ s \in Service /\ s.request = r /\ s.code = service.code /\ s.size = service.size
          /\ s.buffer = service.buffer /\ s.reply = None /\ s.sends = 0
          /\ s.caught = service.caught
      BY <2>0, <3>b, Serving DEF Has
    <3> HIDE DEF s
    <3>4. Blank(s) /\ s # None
      BY <2>0, <3>3, Serving, NotNone DEF Blank
    <3>5. ServiceFits("HttpsHandleRequest", s)
      BY <3>1, <3>3, <3>4 DEF ServiceFits, NoServicePlaces
    <3>6. Asks(worker, service, "HttpsHandleRequest", s)
      BY <2>0, <3>1, <3>2, <3>3, <3>4, Serving DEF Asks, PhaseAt, QuestionOf, AnswerOf
    <3> QED
      BY <2>1, <3>3, <3>5, <3>6 DEF WorkerGoes, Goes, Moves, Places, s, r
  <2> QED
    BY <1>2, <2>1 DEF Read
<1> QED
  BY <1>1, <1>2

\* The request is given to a handler, or refused.
LEMMA DispatchGoes ==
    ASSUME IInv, Dispatch
    PROVE  WorkerGoes
<1>0. worker = "HttpsHandleRequest" /\ Blank(service) /\ service.request \in Questions
  BY DEF Dispatch, At, IInv, ServiceFits
<1>1. /\ service.request.status \in {0, 400, 505}
      /\ service.request.status = 0 =>
             service.request.method \in {"GET", "POST"} /\ service.request.resource # Empty
  BY <1>0, QuestionsType DEF Parsed
<1>2. CASE service.request.status # 0
  <2> DEFINE s == [service EXCEPT !.code = service.request.status]
  <2>1. Has(s, service.request, service.request.status, service.size, service.buffer,
               service.reply, service.sends, service.caught)
    <3>1. service \in Service /\ service.request.status \in Codes
      BY <1>0, <1>1, <1>2 DEF Blank, Codes
    <3> QED
      BY <3>1, SetCode
  <2>2. Goto("SendResponse", s)
    BY <1>2 DEF Dispatch
  <2> HIDE DEF s
  <2>3. Ready(s)
    BY <1>0, <1>2, <2>1, HttpsAssumption DEF Ready, Prepared, Blank, Has
  <2> QED
    BY <1>0, <2>1, <2>2, <2>3, ReadyGoes DEF Has
<1>3. CASE service.request.status = 0
  <2>1. Accepted(service)
    BY <1>0, <1>1, <1>3 DEF Accepted
  <2>2. CASE service.request.method = "GET"
    <3>1. ServiceFits("ProcessGetRequest", service)
      BY <2>1, <2>2 DEF ServiceFits, NoServicePlaces
    <3> QED
      BY <1>0, <1>3, <2>2, <3>1, PassedOn DEF Dispatch
  <2>3. CASE service.request.method # "GET"
    <3>1. ServiceFits("ProcessPostRequest", service)
      BY <2>1, <2>3 DEF ServiceFits, NoServicePlaces
    <3> QED
      BY <1>0, <1>3, <2>3, <3>1, PassedOn DEF Dispatch
  <2> QED
    BY <2>2, <2>3
<1> QED
  BY <1>2, <1>3

\* ProcessGetRequest.
LEMMA GetGoes ==
    ASSUME IInv, GetScript \/ GetFile
    PROVE  Terminates \/ WorkerGoes
<1>0. /\ worker = "ProcessGetRequest" /\ Accepted(service) /\ service.request.method = "GET"
  BY DEF GetScript, GetFile, At, IInv, ServiceFits
<1>1. CASE GetScript
  <2>1. ServiceFits("ProcessPostRequest", service)
    BY <1>0, <1>1 DEF GetScript, ServiceFits, NoServicePlaces
  <2> QED
    BY <1>0, <1>1, <2>1, PassedOn DEF GetScript
<1>2. CASE GetFile
  <2>0. ~ IsScript(service.request.resource)
    BY <1>2 DEF GetFile
  <2>1. /\ service \in Service /\ service.buffer = None /\ service.reply = None
        /\ service.sends = 0 /\ ~ service.caught
    BY <1>0 DEF Accepted, Blank
  <2>2. CASE Goto("SendResponse", [service EXCEPT !.code = 404])
    BY <1>0, <2>2, CodeGoes DEF Accepted
  <2>3. CASE Goto("Finished", [service EXCEPT !.code = 500])
    <3> DEFINE s == [service EXCEPT !.code = 500]
    <3>a. 500 \in Codes
      BY DEF Codes
    <3>1. Has(s, service.request, 500, service.size, service.buffer,
                 service.reply, service.sends, service.caught)
      BY <2>1, <3>a, SetCode
    <3>2. Goto("Finished", s)
      BY <2>3
    <3>3. service.request.status = 0
      BY <1>0 DEF Accepted
    <3> HIDE DEF s
    <3> QED
      BY <1>0, <2>0, <2>1, <3>1, <3>2, <3>3, SilentGoes DEF Has
  <2>4. ASSUME NEW z \in {0, 1},
               Goto("SendResponse", [service EXCEPT !.size = z, !.buffer = "file"])
        PROVE  WorkerGoes
    <3> DEFINE s == [service EXCEPT !.size = z, !.buffer = "file"]
    <3>a. z \in Sizes /\ "file" \in Buffers
      BY DEF Sizes, Buffers
    <3>1. Has(s, service.request, service.code, z, "file",
                 service.reply, service.sends, service.caught)
      BY <2>1, <3>a, SetBuffer
    <3> HIDE DEF s
    <3>2. Ready(s)
      BY <1>0, <2>0, <2>1, <3>1, HttpsAssumption DEF Ready, Prepared, Accepted, Blank, Has
    <3> QED
      BY <1>0, <2>4, <3>1, <3>2, ReadyGoes DEF s, Has
  <2> QED
    BY <1>0, <1>2, <2>2, <2>3, <2>4, CaughtGoes DEF GetFile
<1> QED
  BY <1>1, <1>2

\* ProcessPostRequest.
LEMMA PostGoes ==
    ASSUME IInv, PostNoFile \/ PostNoScript \/ PostScript
    PROVE  Terminates \/ WorkerGoes
<1>0. /\ worker = "ProcessPostRequest" /\ Accepted(service)
      /\ service.request.method = "GET" => IsScript(service.request.resource)
  BY DEF PostNoFile, PostNoScript, PostScript, At, IInv, ServiceFits
<1>a. /\ Blank(service) /\ service \in Service /\ service.request \in Questions
      /\ service.request.status = 0 /\ service.reply = None /\ service.sends = 0
  BY <1>0 DEF Accepted, Blank
<1>1. CASE PostNoFile
  <2>1. CASE Goto("SendResponse", [service EXCEPT !.code = 404])
    BY <1>0, <1>a, <2>1, CodeGoes
  <2>2. CASE Goto("Finished", [service EXCEPT !.caught = TRUE])
    BY <1>0, <2>2, CaughtGoes
  <2> QED
    BY <1>1, <2>1, <2>2 DEF PostNoFile
<1>2. CASE PostNoScript
  <2>1. Goto("Finished", service) /\ ~ IsScript(service.request.resource)
    BY <1>2 DEF PostNoScript
  <2> QED
    BY <1>0, <1>a, <2>1, SilentGoes
<1>3. CASE PostScript
  <2>1. CASE Goto("ExecuteProgram", service)
    <3>1. ServiceFits("ExecuteProgram", service)
      BY <1>0, <1>3 DEF PostScript, ServiceFits, NoServicePlaces
    <3> QED
      BY <1>0, <2>1, <3>1, PassedOn
  <2> QED
    BY <1>3, <2>1 DEF PostScript
<1> QED
  BY <1>1, <1>2, <1>3

\* ExecuteProgram.
LEMMA EndScriptGoes ==
    ASSUME IInv, EndScript
    PROVE  WorkerGoes
<1>0. /\ worker = "ExecuteProgram" /\ Accepted(service)
      /\ IsScript(service.request.resource)
  BY DEF EndScript, At, IInv, ServiceFits
<1>a. /\ Blank(service) /\ service \in Service /\ service.request \in Questions
      /\ service.request.status = 0
  BY <1>0 DEF Accepted, Blank
<1>1. ASSUME NEW z \in {0, 1},
             Goto("SendResponse",
                  [service EXCEPT !.code = 200, !.size = z, !.buffer = "output"])
      PROVE  WorkerGoes
  <2> DEFINE s == [service EXCEPT !.code = 200, !.size = z, !.buffer = "output"]
  <2>1. z \in Sizes
    BY DEF Sizes
  <2>2. Has(s, service.request, 200, z, "output", service.reply, service.sends,
            service.caught)
    BY <1>a, <2>1, SetOutput
  <2>3. Goto("SendResponse", s)
    BY <1>1
  <2> HIDE DEF s
  <2>4. Ready(s)
    BY <1>0, <1>a, <2>2, HttpsAssumption DEF Ready, Prepared, Blank, Has
  <2> QED
    BY <1>0, <2>2, <2>3, <2>4, ReadyGoes DEF Has
<1>2. CASE Goto("SendResponse", [service EXCEPT !.code = 500])
  BY <1>0, <1>a, <1>2, CodeGoes
<1> QED
  BY <1>1, <1>2 DEF EndScript, ReadOutput, NoOutput

\* A response that is ready is one of the answers its request may get.
LEMMA ReadyAnswers ==
    ASSUME NEW s \in Service, s.request \in Parsed, Prepared(s),
           s.size = 0 \/ s.buffer # None,
           NEW r, r = [code |-> s.code, body |-> IF s.size = 0 THEN None ELSE s.buffer]
    PROVE  /\ r \in Reply
           /\ r \in AnswersTo(s.request)
           /\ s.request.status # 0 => r = [code |-> s.request.status, body |-> None]
           /\ s.request.status = 0 /\ s.buffer = None => r.code \in {404, 500} /\ r.body = None
<1>1. /\ s.code \in Codes /\ s.buffer \in Buffers /\ s.size \in Sizes
  BY DEF Service
<1>2. r.code = s.code /\ r.body = (IF s.size = 0 THEN None ELSE s.buffer)
  OBVIOUS
<1>3. r \in Reply
  BY <1>1 DEF Reply, Buffers
<1>4. CASE s.request.status # 0
  <2>1. r = [code |-> s.request.status, body |-> None]
    BY <1>4 DEF Prepared
  <2> QED
    BY <1>3, <1>4, <2>1 DEF AnswersTo
<1>5. CASE s.request.status = 0 /\ s.buffer = None
  <2>1. r.body = None /\ (r.code = 404 \/ (r.code = 500 /\ IsScript(s.request.resource)))
    BY <1>2, <1>5 DEF Prepared
  <2>2. r = [code |-> r.code, body |-> None]
    BY <2>1
  <2>3. r \in AnswersTo(s.request)
    BY <1>5, <2>1, <2>2 DEF AnswersTo
  <2> QED
    BY <1>3, <1>5, <2>1, <2>3
<1>6. CASE s.request.status = 0 /\ s.buffer = "output"
  <2>1. r.body \in {None, "output"} /\ r.code = 200 /\ IsScript(s.request.resource)
    BY <1>2, <1>6 DEF Prepared
  <2>2. r \in [code : {200}, body : {None, "output"}]
    BY <2>1
  <2>3. r \in AnswersTo(s.request)
    BY <1>6, <2>1, <2>2 DEF AnswersTo
  <2> QED
    BY <1>3, <1>6, <2>3, HttpsAssumption
<1>7. CASE s.request.status = 0 /\ s.buffer = "file"
  <2>1. /\ r.body \in {None, "file"} /\ r.code \in {200, 404, Junk}
        /\ ~ IsScript(s.request.resource) /\ s.request.method = "GET"
    BY <1>2, <1>7 DEF Prepared
  <2>2. \/ r \in [code : {200, Junk}, body : {None, "file"}]
        \/ r \in [code : {404}, body : {"file"}]
        \/ r = [code |-> 404, body |-> None]
    BY <2>1
  <2>3. r \in AnswersTo(s.request)
    BY <1>7, <2>1, <2>2 DEF AnswersTo
  <2> QED
    BY <1>3, <1>7, <2>3, HttpsAssumption
<1> QED
  BY <1>1, <1>4, <1>5, <1>6, <1>7 DEF Prepared, Buffers

\* SendResponse.
LEMMA SendGoes ==
    ASSUME IInv, SendResponse
    PROVE  Terminates \/ WorkerGoes
<1>0. worker = "SendResponse" /\ Ready(service)
  BY DEF SendResponse, At, IInv, ServiceFits
<1> DEFINE r == [code |-> service.code,
                 body |-> IF service.size = 0 THEN None ELSE service.buffer]
           s == [service EXCEPT !.sends = @ + 1, !.size = 0, !.reply = r]
<1>1. CASE service.size = 0 \/ service.buffer # None
  <2>1. Goto("Finished", s)
    BY <1>1 DEF SendResponse
  <2>2. /\ r \in Reply
        /\ r \in AnswersTo(service.request)
        /\ service.request.status # 0 => r = [code |-> service.request.status, body |-> None]
        /\ service.request.status = 0 /\ service.buffer = None =>
               r.code \in {404, 500} /\ r.body = None
        /\ r.code = service.code
    BY <1>0, <1>1, ReadyAnswers, Serving DEF Ready
  <2> HIDE DEF r
  <2>3. service \in Service /\ service.sends = 0
    BY <1>0 DEF Ready
  <2>4. Has(s, service.request, service.code, 0, service.buffer, r, service.sends + 1,
            service.caught)
    BY <2>2, <2>3, SetReply
  <2> HIDE DEF s
  <2>5. r # None /\ s # None
    BY <2>2, <2>4, NotNone DEF Has
  <2>6. Done(s)
    BY <1>0, <2>2, <2>3, <2>4, <2>5 DEF Done, Ready, Prepared, Has, ReplyFits
  <2>7. ServiceFits("Finished", s)
    BY <2>6 DEF ServiceFits, NoServicePlaces
  <2>8. GetsAnswer(worker, service, "Finished", s)
    BY <1>0, <2>2, <2>4, <2>5, Serving
    DEF GetsAnswer, PhaseAt, QuestionOf, AnswerOf, Has
  <2> QED
    BY <2>1, <2>4, <2>7, <2>8 DEF WorkerGoes, Goes, Moves, Places, Has
<1>2. CASE service.size # 0 /\ service.buffer = None
  BY <1>2 DEF SendResponse
<1> QED
  BY <1>1, <1>2

\* Whatever the worker does.
LEMMA WorkerStep ==
    ASSUME IInv, Waiting \/ Computing \/ Caught
    PROVE  Terminates \/ WorkerGoes
<1>1. CASE Caught
  <2>1. /\ worker \in {"handshake", "read_until", "HttpsHandleRequest", "SendResponse"}
        /\ Goto("Finished", [service EXCEPT !.caught = TRUE])
    BY <1>1 DEF Caught, At
  <2> QED
    BY <2>1, CaughtGoes
<1> QED
  BY <1>1, LoopGoes, ReadGoes, DispatchGoes, GetGoes, PostGoes, EndScriptGoes, SendGoes
  DEF Waiting, Computing

-----------------------------------------------------------------------------
(***************************************************************************)
(* The invariant is inductive.                                             *)
(***************************************************************************)
LEMMA InitIInv == Init => IInv
<1> SUFFICES ASSUME Init PROVE IInv
  OBVIOUS
<1>1. TypeOK
  <2>1. faults \in 0 .. MaxFaults /\ mixed \in Nat /\ afterStop \in 0 .. 2
    BY HttpsAssumption DEF Init
  <2>2. m_Stop \in BOOLEAN /\ alive \in BOOLEAN
    BY DEF Init
  <2>3. output \in [OutputFiles -> {"absent", "empty", "written", "mixed"}]
    BY DEF Init
  <2>4. /\ main \in {"HttpsServer", "sleep_for", "join", "returned"} /\ worker \in Places
        /\ service \in Service \cup {None} /\ index \in {"absent", "user's", "default"}
    BY DEF Init, Places
  <2> QED
    BY <2>1, <2>2, <2>3, <2>4 DEF TypeOK, DataOK
<1>2. ServiceFits(worker, service)
  BY DEF Init, ServiceFits, NoServicePlaces
<1>3. StopSeen
  BY DEF Init, StopSeen
<1>4. LeftBehind
  BY DEF Init, LeftBehind, Left, OutputFiles
<1> QED
  BY <1>1, <1>2, <1>3, <1>4 DEF IInv

\* A step of the worker that touches no output file.
LEMMA QuietStep ==
    ASSUME IInv, Terminates \/ WorkerGoes, StopSeen',
           index' \in {"absent", "user's", "default"}, afterStop' \in 0 .. 2,
           UNCHANGED <<output, faults, mixed>>,
           worker # "ExecuteProgram", worker' # "ExecuteProgram"
    PROVE  IInv'
<1>0. TypeOK /\ LeftBehind /\ ServiceFits(worker, service)
  BY DEF IInv
<1>1. CASE Terminates
  <2>1. TypeOK'
    BY <1>0, <1>1 DEF TypeOK, DataOK, Terminates
  <2>2. LeftBehind'
    BY <1>0, LeftUntouched DEF At
  <2> QED
    BY <1>0, <1>1, <2>1, <2>2 DEF IInv, Terminates
<1>2. CASE WorkerGoes
  <2>1. PICK p \in Places, s \in Service \cup {None} : Goes(p, s)
    BY <1>2 DEF WorkerGoes
  <2>2. TypeOK'
    BY <1>0, <2>1 DEF TypeOK, DataOK, Goes, Goto
  <2>3. LeftBehind'
    BY <1>0, LeftUntouched DEF At
  <2> QED
    BY <2>1, <2>2, <2>3 DEF IInv, Goes, Goto
<1> QED
  BY <1>1, <1>2

\* Every step of the two threads, and every fault, keeps the strengthening.
LEMMA NextIInv == IInv /\ [Next]_vars => IInv'
<1> SUFFICES ASSUME IInv, [Next]_vars PROVE IInv'
  OBVIOUS
<1>0. TypeOK /\ DataOK /\ ServiceFits(worker, service) /\ StopSeen /\ LeftBehind
  BY DEF IInv, TypeOK
<1>a. index \in {"absent", "user's", "default"} /\ afterStop \in 0 .. 2
  BY <1>0 DEF DataOK
<1>1. CASE Start
  <2>1. service = None /\ worker = "none"
    BY <1>0, <1>1 DEF Start, StopSeen, ServiceFits, NoServicePlaces
  <2>2. TypeOK'
    BY <1>0, <1>1 DEF Start, TypeOK, DataOK, Places, others
  <2>3. ServiceFits(worker, service)'
    BY <1>1, <2>1 DEF Start, ServiceFits, NoServicePlaces
  <2>4. LeftBehind'
    BY <1>0, <1>1, <2>1, LeftUntouched DEF Start, At, others
  <2> QED
    BY <1>0, <1>1, <2>2, <2>3, <2>4, StopSeenLoop DEF IInv
<1>2. CASE Stop \/ Join
  <2>2. TypeOK'
    BY <1>0, <1>2 DEF Stop, Join, TypeOK, DataOK, others
  <2>3. ServiceFits(worker, service)'
    BY <1>0, <1>2 DEF Stop, Join
  <2>4. LeftBehind'
    BY <1>0, <1>2, LeftUntouched DEF Stop, Join, At, others
  <2> QED
    BY <1>0, <1>2, <2>2, <2>3, <2>4, StopSeenLoop DEF IInv
<1>3. CASE Construct \/ CheckStop \/ Accept \/ Finished
  <2>1. Terminates \/ WorkerGoes
    BY <1>3, LoopGoes
  <2>2. StopSeen'
    BY <1>0, <1>3, StopSeenLoop
  <2>3. /\ worker # "ExecuteProgram" /\ worker' # "ExecuteProgram"
        /\ UNCHANGED <<index, output, faults, mixed>>
    BY <1>3 DEF Construct, CheckStop, Accept, Finished, At, Goto, Terminates, others
  <2>4. afterStop' \in 0 .. 2
    <3>1. CASE Construct \/ CheckStop \/ Finished
      BY <1>a, <3>1 DEF Construct, CheckStop, Finished, others
    <3>2. CASE Accept
      BY <1>a, <3>2 DEF Accept
    <3> QED
      BY <1>3, <3>1, <3>2
  <2> QED
    BY <1>a, <2>1, <2>2, <2>3, <2>4, QuietStep
<1>4. CASE Caught \/ Handshake \/ Read \/ Dispatch \/ GetScript \/ GetFile
           \/ PostNoFile \/ PostNoScript \/ SendResponse
  <2>1. Terminates \/ WorkerGoes
    BY <1>4, WorkerStep DEF Waiting, Computing
  <2>2. /\ worker \notin {"none", "ExecuteProgram"}
        /\ worker' = worker \/ worker' \notin {"none", "HttpsAcceptor", "accept"}
        /\ worker' # "ExecuteProgram"
        /\ UNCHANGED <<main, m_Stop>>
    BY <1>4 DEF Caught, Handshake, Read, Dispatch, GetScript, GetFile, PostNoFile,
                PostNoScript, SendResponse, At, Goto, Terminates
  <2>3. UNCHANGED <<output, afterStop, faults, mixed>>
    BY <1>4 DEF Caught, Handshake, Read, Dispatch, GetScript, GetFile, PostNoFile,
                PostNoScript, SendResponse, others
  <2>4. index' \in {"absent", "user's", "default"}
    BY <1>4, <1>a DEF Caught, Handshake, Read, Dispatch, GetScript, GetFile, WriteIndex,
                      PostNoFile, PostNoScript, SendResponse, others
  <2>5. StopSeen'
    BY <1>0, <2>2, <2>3, StopSeenHandler
  <2> QED
    BY <1>a, <2>1, <2>2, <2>3, <2>4, <2>5, QuietStep
<1>5. CASE PostScript
  <2>1. /\ LeftBehind' /\ DataOK'
    BY <1>0, <1>5, LeftPostScript
  <2>2. /\ worker = "ProcessPostRequest" /\ UNCHANGED <<main, m_Stop, afterStop>>
        /\ worker' \in {"ProcessPostRequest", "ExecuteProgram"}
    BY <1>5 DEF PostScript, At, Goto, Terminates
  <2>3. StopSeen'
    BY <1>0, <2>2, StopSeenHandler
  <2>4. ServiceFits(worker, service)'
    <3>1. Terminates \/ WorkerGoes
      BY <1>5, PostGoes
    <3> QED
      BY <1>0, <3>1 DEF Terminates, WorkerGoes, Goes, Goto
  <2>5. TypeOK'
    BY <2>1, <2>2 DEF TypeOK, Places
  <2> QED
    BY <2>1, <2>3, <2>4, <2>5 DEF IInv
<1>6. CASE EndScript
  <2>1. /\ LeftBehind' /\ mixed' \in Nat
        /\ output' \in [OutputFiles -> {"absent", "empty", "written", "mixed"}]
    BY <1>0, <1>6, LeftEndScript
  <2>2. /\ worker = "ExecuteProgram" /\ worker' = "SendResponse"
        /\ UNCHANGED <<main, m_Stop, alive, index, afterStop, faults>>
    BY <1>6 DEF EndScript, ReadOutput, NoOutput, At, Goto
  <2>3. StopSeen'
    BY <1>0, <2>2, StopSeenHandler
  <2>4. PICK p \in Places, s \in Service \cup {None} : Goes(p, s)
    BY <1>6, EndScriptGoes DEF WorkerGoes
  <2>5. TypeOK'
    BY <1>0, <2>1, <2>2, <2>4 DEF TypeOK, DataOK, Goes, Goto
  <2> QED
    BY <2>1, <2>3, <2>4, <2>5 DEF IInv, Goes, Goto
<1>7. CASE Kill
  <2>1. faults' \in 0 .. MaxFaults
    BY <1>0, <1>7, HttpsAssumption DEF Kill, DataOK
  <2>2. alive' \in BOOLEAN
    BY <1>7 DEF Kill
  <2>3. TypeOK'
    BY <1>0, <1>7, <2>1, <2>2 DEF Kill, TypeOK, DataOK
  <2>4. ServiceFits(worker, service)'
    BY <1>0, <1>7 DEF Kill
  <2>5. LeftBehind' /\ StopSeen'
    BY <1>0, <1>7, LeftKill, StopSeenLoop
  <2> QED
    BY <2>3, <2>4, <2>5 DEF IInv
<1>8. CASE Restart
  <2>a. m_Stop' \in BOOLEAN /\ alive' \in BOOLEAN
    BY <1>8 DEF Restart
  <2>b. afterStop' \in 0 .. 2
    BY <1>8 DEF Restart
  <2>1. TypeOK'
    BY <1>0, <1>8, <2>a, <2>b DEF Restart, TypeOK, DataOK, Places
  <2>2. ServiceFits(worker, service)'
    BY <1>8 DEF Restart, ServiceFits, NoServicePlaces
  <2>3. LeftBehind'
    BY <1>0, <1>8, LeftUntouched DEF Restart, At
  <2> QED
    BY <1>0, <1>8, <2>1, <2>2, <2>3, StopSeenLoop DEF IInv
<1>9. CASE UNCHANGED vars
  <2>1. LeftBehind'
    BY <1>0, <1>9, LeftUntouched DEF vars, others
  <2>2. StopSeen' /\ TypeOK' /\ ServiceFits(worker, service)'
    BY <1>0, <1>9 DEF vars, others, StopSeen, TypeOK, DataOK
  <2> QED
    BY <2>1, <2>2 DEF IInv
<1> QED
  BY <1>1, <1>2, <1>3, <1>4, <1>5, <1>6, <1>7, <1>8, <1>9
  DEF Next, MainThread, Waiting, Computing

-----------------------------------------------------------------------------
(***************************************************************************)
(* The theorems.                                                           *)
(***************************************************************************)

\* The strengthening holds in every reachable state.
THEOREM Invariance == Spec => []IInv
<1> QED
  BY InitIInv, NextIInv, PTL DEF Spec

\* The state stays in its types: whatever words a client sends, every status
\* that is sent is one of the table or was never set.
THEOREM TypeCorrect == Spec => []TypeOK
<1>1. IInv => TypeOK
  BY DEF IInv
<1> QED
  BY <1>1, Invariance, PTL

\* SendResponse is called at most once for a request.
THEOREM OneReply == Spec => []AtMostOneReply
<1>1. IInv => AtMostOneReply
  <2> SUFFICES ASSUME IInv, service # None PROVE service.sends <= 1
    BY DEF AtMostOneReply
  <2>1. CASE worker = "Finished"
    BY <2>1 DEF IInv, ServiceFits, Done
  <2>2. CASE worker # "Finished"
    BY <2>2, Serving DEF IInv, TypeOK, Places, ServiceFits, NoServicePlaces
  <2> QED
    BY <2>1, <2>2
<1> QED
  BY <1>1, Invariance, PTL

\* No handler of https.hpp is given an empty resource, whatever a client
\* sends.
THEOREM ResourceThere == Spec => []ResourceNeverEmpty
<1>1. IInv => ResourceNeverEmpty
  BY DEF IInv, ServiceFits, Accepted, ResourceNeverEmpty
<1> QED
  BY <1>1, Invariance, PTL

\* Status and body of a reply go together, and with the request.
THEOREM ConsistentReplies == Spec => []ReplyConsistent
<1>1. IInv => ReplyConsistent
  <2> SUFFICES ASSUME IInv, service # None, service.reply # None
               PROVE  ReplyFits(service)
    BY DEF ReplyConsistent, ReplyFits
  <2>1. worker = "Finished"
    BY Serving DEF IInv, TypeOK, Places, ServiceFits, NoServicePlaces
  <2> QED
    BY <2>1 DEF IInv, ServiceFits, Done
<1> QED
  BY <1>1, Invariance, PTL

\* A connection that met no error ends without a reply in two cases only.
THEOREM SilentCases == Spec => []SilentOnlyKnown
<1>1. IInv => SilentOnlyKnown
  BY DEF IInv, ServiceFits, Done, SilentOnlyKnown
<1> QED
  BY <1>1, Invariance, PTL

\* For any number of kills, at most so many replies hold something that an
\* earlier script has written.
THEOREM MixedBounded == Spec => []MixedOnlyAfterKill
<1>1. IInv => MixedOnlyAfterKill
  <2> SUFFICES ASSUME IInv PROVE mixed <= faults
    BY DEF MixedOnlyAfterKill
  <2>1. mixed \in Nat /\ faults \in Nat /\ LeftBehind
    BY HttpsAssumption DEF IInv, TypeOK, DataOK
  <2>2. Left("tempfile") \in Nat /\ Left("cgi_tempfile") \in Nat
    BY DEF Left
  <2> QED
    BY <2>1, <2>2 DEF LeftBehind
<1> QED
  BY <1>1, Invariance, PTL

\* After Stop at most one more client is served.
THEOREM StopBounded == Spec => []AtMostOneAfterStop
<1>1. IInv => AtMostOneAfterStop
  BY DEF IInv, TypeOK, DataOK, StopSeen, AtMostOneAfterStop
<1> QED
  BY <1>1, Invariance, PTL

-----------------------------------------------------------------------------
(***************************************************************************)
(* The server implements HttpExchange.                                     *)
(***************************************************************************)
phases    == [c \in {"client"} |-> Phase]
questions == [c \in {"client"} |-> IF service = None THEN None ELSE service.request]
answers   == [c \in {"client"} |-> IF service = None THEN None ELSE service.reply]

\* The exchange as the moves see it.
LEMMA Mapped ==
    /\ phases = [c \in {"client"} |-> PhaseAt(worker, service)]
    /\ questions = [c \in {"client"} |-> QuestionOf(service)]
    /\ answers = [c \in {"client"} |-> AnswerOf(service)]
    /\ phases' = [c \in {"client"} |-> PhaseAt(worker', service')]
    /\ questions' = [c \in {"client"} |-> QuestionOf(service')]
    /\ answers' = [c \in {"client"} |-> AnswerOf(service')]
BY DEF phases, questions, answers, Phase, PhaseAt, QuestionOf, AnswerOf

\* Every step is a move of the one exchange.
LEMMA EveryStepMoves ==
    ASSUME IInv, [Next]_vars
    PROVE  Moves(worker, service, worker', service')
<1>1. CASE UNCHANGED <<worker, service>>
  BY <1>1 DEF Moves, Stays
<1>2. CASE Waiting \/ Computing \/ Caught
  <2>1. CASE WorkerGoes
    BY <2>1 DEF WorkerGoes, Goes, Goto
  <2> QED
    BY <1>1, <1>2, <2>1, WorkerStep DEF Terminates
<1>3. CASE Start
  <2>1. service' = None
    BY <1>3 DEF Start, IInv, StopSeen, ServiceFits, NoServicePlaces
  <2> QED
    BY <2>1 DEF Moves
<1>4. CASE Stop \/ Join \/ Kill
  BY <1>1, <1>4 DEF Stop, Join, Kill
<1>5. CASE Restart
  BY <1>5 DEF Restart, Moves
<1> QED
  BY <1>1, <1>2, <1>3, <1>4, <1>5 DEF Next, MainThread, vars

\* Every move is a step of HttpExchange, or none.
LEMMA MoveStep ==
    ASSUME Moves(worker, service, worker', service')
    PROVE  [Exchange!Next]_(Exchange!vars)
<1> DEFINE P == PhaseAt(worker, service)
           Q == QuestionOf(service)
           A == AnswerOf(service)
           P1 == PhaseAt(worker', service')
           Q1 == QuestionOf(service')
           A1 == AnswerOf(service')
<1>0. /\ phases = [c \in {"client"} |-> P] /\ phases' = [c \in {"client"} |-> P1]
      /\ questions = [c \in {"client"} |-> Q] /\ questions' = [c \in {"client"} |-> Q1]
      /\ answers = [c \in {"client"} |-> A] /\ answers' = [c \in {"client"} |-> A1]
  BY Mapped
<1>1. CASE service' = None
  <2>1. P1 = "idle" /\ Q1 = None /\ A1 = None
    BY <1>1 DEF PhaseAt, QuestionOf, AnswerOf
  <2> HIDE DEF P, Q, A, P1, Q1, A1
  <2>2. Exchange!Forget({"client"})
    BY <1>0, <2>1 DEF Exchange!Forget, phases, questions, answers
  <2> QED
    BY <2>2 DEF Exchange!Next
<1>2. CASE Stays(worker, service, worker', service')
  <2>1. P1 = P /\ Q1 = Q /\ A1 = A
    BY <1>2 DEF Stays
  <2> HIDE DEF P, Q, A, P1, Q1, A1
  <2>2. UNCHANGED <<phases, questions, answers>>
    BY <1>0, <2>1
  <2> QED
    BY <2>2 DEF Exchange!vars, phases, questions, answers
<1>3. CASE Connects(worker, service, worker', service')
  <2>1. P = "idle" /\ P1 = "connected" /\ Q1 = Q /\ A1 = A
    BY <1>3 DEF Connects
  <2> HIDE DEF P, Q, A, P1, Q1, A1
  <2>2. Exchange!Connect("client")
    BY <1>0, <2>1 DEF Exchange!Connect, phases, questions, answers
  <2> QED
    BY <2>2 DEF Exchange!Next
<1>4. CASE Asks(worker, service, worker', service')
  <2>1. P = "connected" /\ P1 = "asked" /\ Q1 \in Questions /\ A1 = A
    BY <1>4 DEF Asks
  <2> HIDE DEF P, Q, A, P1, Q1, A1
  <2>2. Exchange!Ask("client", Q1)
    BY <1>0, <2>1 DEF Exchange!Ask, phases, questions, answers
  <2> QED
    BY <2>1, <2>2 DEF Exchange!Next
<1>5. CASE GetsAnswer(worker, service, worker', service')
  <2>1. P = "asked" /\ P1 = "answered" /\ Q \in Questions /\ Q1 = Q /\ A1 \in AnswersTo(Q)
    BY <1>5 DEF GetsAnswer
  <2> HIDE DEF P, Q, A, P1, Q1, A1
  <2>2. A1 \in [r \in Questions |-> AnswersTo(r)][questions["client"]]
    BY <1>0, <2>1
  <2>3. answers' = [answers EXCEPT !["client"] = A1]
    BY <1>0
  <2>4. phases["client"] = "asked" /\ phases' = [phases EXCEPT !["client"] = "answered"]
    BY <1>0, <2>1
  <2>5. questions' = questions
    BY <1>0, <2>1
  <2>6. Exchange!Answer("client")
    BY <2>2, <2>3, <2>4, <2>5 DEF Exchange!Answer, phases, questions, answers
  <2> QED
    BY <2>6 DEF Exchange!Next
<1>6. CASE IsHungUp(worker, service, worker', service')
  <2>1. P \in {"connected", "asked"} /\ P1 = "hung up" /\ Q1 = Q /\ A1 = A
    BY <1>6 DEF IsHungUp
  <2> HIDE DEF P, Q, A, P1, Q1, A1
  <2>2. Exchange!HangUp("client")
    BY <1>0, <2>1 DEF Exchange!HangUp, phases, questions, answers
  <2> QED
    BY <2>2 DEF Exchange!Next
<1> QED
  BY <1>1, <1>2, <1>3, <1>4, <1>5, <1>6 DEF Moves

\* Every behaviour of the server is one of HttpExchange: through all handlers,
\* errors, kills and restarts the client is answered at most once, with an
\* answer its request allows.
THEOREM Refinement == Spec => ImplementsExchange
<1>1. Init => Exchange!Init
  BY DEF Init, Exchange!Init, Phase
<1>2. IInv /\ [Next]_vars => [Exchange!Next]_(Exchange!vars)
  BY EveryStepMoves, MoveStep
<1> QED
  BY <1>1, <1>2, Invariance, PTL DEF Spec, ImplementsExchange, Exchange!Spec
=============================================================================
