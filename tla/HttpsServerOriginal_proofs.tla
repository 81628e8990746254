---------------------- MODULE HttpsServerOriginal_proofs ----------------------
(***************************************************************************)
(* Proofs about HttpsServerOriginal, for any requests and any number of    *)
(* kills.  The lemmas on the steps it has in common with https.hpp are     *)
(* those of HttpsServer_proofs.                                            *)
(***************************************************************************)
EXTENDS HttpsServerOriginal, HttpsServer_proofs

(***************************************************************************)
(* The inductive invariant: what the service is at each place, and the     *)
(* parts of it that are about m_Stop and the output files, as they are.    *)
(***************************************************************************)

\* It has a request that was not refused.
OriginalAccepted(s) ==
    /\ Blank(s)
    /\ s.request \in OriginalQuestions
    /\ s.request.status = 0

\* The response is to be sent: one that was prepared, or one for a method
\* that sets at most a status.
OriginalReady(s) ==
    /\ s \in Service
    /\ s.request \in OriginalQuestions
    /\ s.reply = None /\ s.sends = 0 /\ ~ s.caught
    /\ IF s.request.status # 0 \/ s.request.method \in {"GET", "POST"}
         THEN Prepared(s)
         ELSE /\ s.request.method \in Handled
              /\ s.buffer = None /\ s.code \in {200, 404, Junk}

\* It was answered, or an exception was caught, or it is one of the three
\* cases in which nothing is sent.
OriginalDone(s) ==
    /\ s \in Service
    /\ s.sends <= 1
    /\ s.reply = None /\ ~ s.caught =>
           /\ s.request.status = 0
           /\ \/ s.request.method \in {"GET", "HEAD"} /\ s.code = 500
              \/ s.request.method = "POST" /\ ~ IsScript(s.request.resource)
              \/ s.request.method \in Known \ Handled

OriginalPlaces ==
    Places \cup {"ProcessHeadRequest", "ProcessDeleteRequest", "ProcessOptionsRequest"}

OriginalFits(place, s) ==
    /\ place \in NoServicePlaces => s = None
    /\ place \in {"handshake", "read_until"} => Blank(s) /\ s.request = None
    /\ place = "HttpsHandleRequest" => Blank(s) /\ s.request \in OriginalQuestions
    /\ place = "ProcessGetRequest" => OriginalAccepted(s) /\ s.request.method = "GET"
    /\ place = "ProcessPostRequest" =>
           /\ OriginalAccepted(s)
           /\ \/ s.request.method = "POST"
              \/ s.request.method = "GET" /\ IsScript(s.request.resource)
    /\ place = "ProcessHeadRequest" => OriginalAccepted(s) /\ s.request.method = "HEAD"
    /\ place = "ProcessDeleteRequest" => OriginalAccepted(s) /\ s.request.method = "DELETE"
    /\ place = "ProcessOptionsRequest" => OriginalAccepted(s) /\ s.request.method = "OPTIONS"
    /\ place = "ExecuteProgram" =>
           /\ OriginalAccepted(s)
           /\ s.request.method \in {"GET", "POST"} /\ IsScript(s.request.resource)
    /\ place = "SendResponse" => OriginalReady(s)
    /\ place = "Finished" => OriginalDone(s)

OriginalIInv ==
    /\ OriginalTypeOK
    /\ OriginalFits(worker, service)
    /\ StopSeen
    /\ LeftBehind

-----------------------------------------------------------------------------
\* What the parser makes of any request: one that is not refused has one of
\* eight methods.
LEMMA OriginalQuestionsType ==
    ASSUME NEW r \in OriginalQuestions
    PROVE  /\ r \in Parsed
           /\ r # None
           /\ r.status = 0 => r.method \in Known
<1>1. PICK q \in Requests : r = ParseRequest(q)
  BY DEF OriginalQuestions
<1>2. r \in Parsed
  BY <1>1, WordsType DEF ParseRequest, Parsed
<1>3. r.status = 0 => r.method \in Known
  BY <1>1 DEF ParseRequest
<1> QED
  BY <1>2, <1>3, NotNone

-----------------------------------------------------------------------------
(***************************************************************************)
(* Where the worker goes, and the moves of the exchange, with the          *)
(* questions and the answers of this server.                               *)
(***************************************************************************)
OriginalAsks(w, r, p, s) ==
    /\ PhaseAt(w, r) = "connected" /\ PhaseAt(p, s) = "asked"
    /\ QuestionOf(s) \in OriginalQuestions /\ AnswerOf(s) = AnswerOf(r)

OriginalGetsAnswer(w, r, p, s) ==
    /\ PhaseAt(w, r) = "asked" /\ PhaseAt(p, s) = "answered"
    /\ QuestionOf(r) \in OriginalQuestions /\ QuestionOf(s) = QuestionOf(r)
    /\ AnswerOf(s) \in OriginalAnswersTo(QuestionOf(r))

OriginalMoves(w, r, p, s) ==
    \/ s = None
    \/ Stays(w, r, p, s)
    \/ Connects(w, r, p, s)
    \/ OriginalAsks(w, r, p, s)
    \/ OriginalGetsAnswer(w, r, p, s)
    \/ IsHungUp(w, r, p, s)

OriginalGoes(p, s) ==
    Goto(p, s) /\ OriginalFits(p, s) /\ OriginalMoves(worker, service, p, s)

OriginalWorkerGoes ==
    \E p \in OriginalPlaces, s \in Service \cup {None} : OriginalGoes(p, s)

Handlers ==
    {"ProcessGetRequest", "ProcessPostRequest", "ProcessHeadRequest",
     "ProcessDeleteRequest", "ProcessOptionsRequest"}

\* While a connection is served, and before it is finished, its service is
\* one that was neither answered nor left.
LEMMA OriginalServing ==
    ASSUME OriginalIInv,
           worker \in Handlers \cup {"handshake", "read_until", "HttpsHandleRequest",
                                     "ExecuteProgram", "SendResponse"}
    PROVE  /\ service \in Service /\ service # None
           /\ service.reply = None /\ service.sends = 0 /\ ~ service.caught
           /\ worker \in {"handshake", "read_until"} =>
                  /\ Blank(service) /\ service.request = None
                  /\ PhaseAt(worker, service) = "connected"
           /\ worker \notin {"handshake", "read_until"} =>
                  /\ service.request \in OriginalQuestions /\ service.request # None
                  /\ service.request \in Parsed
                  /\ PhaseAt(worker, service) = "asked"
           /\ QuestionOf(service) = service.request /\ AnswerOf(service) = None
<1>1. OriginalFits(worker, service)
  BY DEF OriginalIInv
<1>2. CASE worker \in {"handshake", "read_until"}
  BY <1>1, <1>2, NotNone DEF OriginalFits, Blank, PhaseAt, QuestionOf, AnswerOf
<1>3. CASE worker \notin {"handshake", "read_until"}
  <2>1. /\ service \in Service /\ service.request \in OriginalQuestions
        /\ service.reply = None /\ service.sends = 0 /\ ~ service.caught
    BY <1>1, <1>3 DEF OriginalFits, Blank, OriginalAccepted, OriginalReady, Handlers
  <2>2. service # None /\ service.request # None /\ service.request \in Parsed
    BY <2>1, NotNone, OriginalQuestionsType
  <2>3. worker # "Finished"
    BY DEF Handlers
  <2> QED
    BY <1>3, <2>1, <2>2, <2>3 DEF PhaseAt, QuestionOf, AnswerOf
<1> QED
  BY <1>2, <1>3

\* In a handler nothing has been set so far.
LEMMA InHandler ==
    ASSUME OriginalIInv, worker \in Handlers \cup {"ExecuteProgram"}
    PROVE  /\ Blank(service) /\ service \in Service /\ service.buffer = None
           /\ service.reply = None /\ service.sends = 0 /\ ~ service.caught
           /\ service.code \in {200, 404, Junk} /\ service.size \in {0, Junk}
           /\ service.request \in OriginalQuestions /\ service.request.status = 0
           /\ service.request.method \in Handled
BY DEF OriginalIInv, OriginalFits, OriginalAccepted, Blank, Handlers, Handled

\* ProcessPostRequest, and nothing is run.
CannotPost ==
    \/ /\ At("ProcessPostRequest")
       /\ CannotLook \/ NotThere(index)
       /\ UNCHANGED others
    \/ PostNoScript

\* The loop of the acceptor.
LEMMA OriginalLoopGoes ==
    ASSUME OriginalIInv, Listen \/ Loop \/ AcceptClient \/ EndClient
    PROVE  Terminates \/ OriginalWorkerGoes
<1>1. CASE Listen \/ Loop
  <2>1. service = None
    BY <1>1 DEF Listen, Loop, Construct, CheckStop, At, OriginalIInv, OriginalFits,
                NoServicePlaces
  <2>2. \A p \in {"StartAcceptor", "ended", "accept"} :
          /\ p \in OriginalPlaces /\ OriginalFits(p, service)
          /\ OriginalMoves(worker, service, p, service)
    BY <2>1 DEF OriginalFits, NoServicePlaces, OriginalMoves, OriginalPlaces, Places
  <2> QED
    BY <1>1, <2>1, <2>2
    DEF Listen, Loop, Construct, CheckStop, OriginalWorkerGoes, OriginalGoes
<1>2. CASE AcceptClient
  <2>1. worker = "accept" /\ service = None
    BY <1>2 DEF AcceptClient, Accept, At, OriginalIInv, OriginalFits, NoServicePlaces
  <2>2. ASSUME NEW s \in NewServices, Goto("handshake", s)
        PROVE  OriginalWorkerGoes
    <3>1. Blank(s) /\ s.request = None
      BY NewBlank
    <3>2. s \in Service /\ s # None
      BY <3>1, NotNone DEF Blank
    <3>3. OriginalFits("handshake", s)
      BY <3>1 DEF OriginalFits, NoServicePlaces
    <3>4. Connects(worker, service, "handshake", s)
      BY <2>1, <3>1, <3>2 DEF Connects, PhaseAt, QuestionOf, AnswerOf, Blank
    <3> QED
      BY <2>2, <3>2, <3>3, <3>4
      DEF OriginalWorkerGoes, OriginalGoes, OriginalMoves, OriginalPlaces, Places
  <2> QED
    BY <1>2, <2>2 DEF AcceptClient, Accept
<1>3. CASE EndClient
  <2>1. OriginalFits("StartAcceptor", None)
    BY DEF OriginalFits, NoServicePlaces
  <2> QED
    BY <1>3, <2>1 DEF EndClient, Finished, OriginalWorkerGoes, OriginalGoes, OriginalMoves,
                      OriginalPlaces, Places
<1> QED
  BY <1>1, <1>2, <1>3

\* The connection is given up without a reply.
LEMMA OriginalEndGoes ==
    ASSUME OriginalIInv, NEW s \in Service, Goto("Finished", s), OriginalDone(s),
           s.request = service.request, s.reply = None,
           worker \in Handlers \cup {"handshake", "read_until", "HttpsHandleRequest",
                                     "SendResponse"}
    PROVE  OriginalWorkerGoes
<1>1. s # None
  BY NotNone
<1>2. OriginalFits("Finished", s)
  BY DEF OriginalFits, NoServicePlaces
<1>3. IsHungUp(worker, service, "Finished", s)
  BY <1>1, OriginalServing DEF IsHungUp, PhaseAt, QuestionOf, AnswerOf
<1> QED
  BY <1>2, <1>3
  DEF OriginalWorkerGoes, OriginalGoes, OriginalMoves, OriginalPlaces, Places

\* An exception is caught.
LEMMA OriginalCaughtGoes ==
    ASSUME OriginalIInv, Goto("Finished", [service EXCEPT !.caught = TRUE]),
           worker \in Handlers \cup {"handshake", "read_until", "HttpsHandleRequest",
                                     "SendResponse"}
    PROVE  OriginalWorkerGoes
<1> DEFINE s == [service EXCEPT !.caught = TRUE]
<1>1. service \in Service /\ service.reply = None /\ service.sends = 0
  BY OriginalServing
<1>2. Has(s, service.request, service.code, service.size, service.buffer,
             service.reply, service.sends, TRUE)
  BY <1>1, SetCaught
<1>3. Goto("Finished", s)
  OBVIOUS
<1> HIDE DEF s
<1>4. /\ s \in Service /\ s.request = service.request /\ s.reply = None
      /\ s.sends = 0 /\ s.caught
  BY <1>1, <1>2 DEF Has
<1>5. s.sends <= 1
  BY <1>4
<1>6. OriginalDone(s)
  BY <1>4, <1>5, Zenon DEF OriginalDone
<1> QED
  BY <1>3, <1>4, <1>6, OriginalEndGoes

\* A response is to be sent.
LEMMA OriginalReadyGoes ==
    ASSUME OriginalIInv, NEW s, Goto("SendResponse", s), OriginalReady(s),
           s.request = service.request,
           worker \in Handlers \cup {"HttpsHandleRequest", "ExecuteProgram"}
    PROVE  OriginalWorkerGoes
<1>1. s \in Service /\ s # None /\ s.reply = None
  BY NotNone DEF OriginalReady
<1>2. OriginalFits("SendResponse", s)
  BY DEF OriginalFits, NoServicePlaces
<1>3. Stays(worker, service, "SendResponse", s)
  BY <1>1, OriginalServing DEF Stays, PhaseAt, QuestionOf, AnswerOf, Handlers
<1> QED
  BY <1>1, <1>2, <1>3
  DEF OriginalWorkerGoes, OriginalGoes, OriginalMoves, OriginalPlaces, Places

\* A handler sets a status and has it sent without a body.
LEMMA OriginalCodeGoes ==
    ASSUME OriginalIInv, NEW c \in {404, 500},
           Goto("SendResponse", [service EXCEPT !.code = c]),
           c = 404 \/ worker = "ExecuteProgram",
           worker \in Handlers \cup {"ExecuteProgram"}
    PROVE  OriginalWorkerGoes
<1> DEFINE s == [service EXCEPT !.code = c]
<1>1. service \in Service /\ c \in Codes
  BY InHandler DEF Codes
<1>2. Has(s, service.request, c, service.size, service.buffer, service.reply,
          service.sends, service.caught)
  BY <1>1, SetCode
<1>3. Goto("SendResponse", s)
  OBVIOUS
<1> HIDE DEF s
<1>4. worker = "ExecuteProgram" =>
          IsScript(service.request.resource) /\ service.request.method \in {"GET", "POST"}
  BY DEF OriginalIInv, OriginalFits
<1>5. OriginalReady(s)
  BY <1>2, <1>4, InHandler, HttpsAssumption DEF OriginalReady, Prepared, Has
<1> QED
  BY <1>2, <1>3, <1>5, OriginalReadyGoes DEF Has

\* The file is there and cannot be opened.
LEMMA CannotOpenGoes ==
    ASSUME OriginalIInv, Goto("Finished", [service EXCEPT !.code = 500]),
           worker \in {"ProcessGetRequest", "ProcessHeadRequest"}
    PROVE  OriginalWorkerGoes
<1> DEFINE s == [service EXCEPT !.code = 500]
<1>0. worker \in Handlers
  BY DEF Handlers
<1>1. service \in Service /\ 500 \in Codes
  BY <1>0, InHandler DEF Codes
<1>2. Has(s, service.request, 500, service.size, service.buffer, service.reply,
          service.sends, service.caught)
  BY <1>1, SetCode
<1>3. Goto("Finished", s)
  OBVIOUS
<1> HIDE DEF s
<1>4. service.request.method \in {"GET", "HEAD"}
  BY DEF OriginalIInv, OriginalFits
<1>5. OriginalDone(s)
  BY <1>0, <1>2, <1>4, InHandler DEF OriginalDone, Has
<1> QED
  BY <1>0, <1>2, <1>3, <1>5, InHandler, OriginalEndGoes DEF Has

\* Nothing is changed, and the request goes on to another function.
LEMMA OriginalPassedOn ==
    ASSUME OriginalIInv, NEW p \in Handlers \cup {"ExecuteProgram"},
           Goto(p, service), OriginalFits(p, service),
           worker \in Handlers \cup {"HttpsHandleRequest"}
    PROVE  OriginalWorkerGoes
<1>1. Stays(worker, service, p, service)
  BY OriginalServing DEF Stays, PhaseAt, Handlers
<1>2. p \in OriginalPlaces
  BY DEF Handlers, OriginalPlaces, Places
<1> QED
  BY <1>1, <1>2, OriginalServing DEF OriginalWorkerGoes, OriginalGoes, OriginalMoves

\* The request is read.
LEMMA OriginalReadGoes ==
    ASSUME OriginalIInv, Handshake \/ ReadRequest
    PROVE  Terminates \/ OriginalWorkerGoes
<1>1. CASE Handshake
  <2>1. worker = "handshake" /\ Goto("read_until", service)
    BY <1>1 DEF Handshake, At
  <2>2. OriginalFits("read_until", service)
    BY <2>1, OriginalServing DEF OriginalFits, NoServicePlaces
  <2>3. Stays(worker, service, "read_until", service)
    BY <2>1, OriginalServing DEF Stays, PhaseAt
  <2> QED
    BY <2>1, <2>2, <2>3, OriginalServing
    DEF OriginalWorkerGoes, OriginalGoes, OriginalMoves, OriginalPlaces, Places
<1>2. CASE ReadRequest
  <2>0. worker = "read_until"
    BY <1>2 DEF ReadRequest, At
  <2>1. ASSUME NEW q \in Requests, q.text,
               Goto("HttpsHandleRequest", [service EXCEPT !.request = ParseRequest(q)])
        PROVE  OriginalWorkerGoes
    <3> DEFINE r == ParseRequest(q)
               s == [service EXCEPT !.request = r]
    <3>1. r \in OriginalQuestions
      BY <2>1 DEF OriginalQuestions
    <3>2. r \in Parsed /\ r # None
      BY <3>1, OriginalQuestionsType
    <3> HIDE DEF r
    <3>3. service \in Service
      BY <2>0, OriginalServing
    <3>4. Has(s, r, service.code, service.size, service.buffer,
                 service.reply, service.sends, service.caught)
      BY <3>2, <3>3, SetRequest
    <3> HIDE DEF s
    <3>5. Blank(s) /\ s \in Service /\ s # None /\ s.request = r /\ s.reply = None
      BY <2>0, <3>4, OriginalServing, NotNone DEF Has, Blank
    <3>6. OriginalFits("HttpsHandleRequest", s)
      BY <3>1, <3>5 DEF OriginalFits, NoServicePlaces
    <3>7. OriginalAsks(worker, service, "HttpsHandleRequest", s)
      BY <2>0, <3>1, <3>2, <3>5, OriginalServing
      DEF OriginalAsks, PhaseAt, QuestionOf, AnswerOf
    <3> QED
      BY <2>1, <3>5, <3>6, <3>7
      DEF OriginalWorkerGoes, OriginalGoes, OriginalMoves, OriginalPlaces, Places, s, r
  <2> QED
    BY <1>2, <2>1 DEF ReadRequest
<1> QED
  BY <1>1, <1>2

\* The request is given to the handler of its method, if there is one, or
\* refused.
LEMMA OriginalDispatchGoes ==
    ASSUME OriginalIInv, DispatchRequest
    PROVE  OriginalWorkerGoes
<1>0. /\ worker = "HttpsHandleRequest"
      /\ Blank(service) /\ service.request \in OriginalQuestions
  BY DEF DispatchRequest, At, OriginalIInv, OriginalFits
<1>1. /\ service.request.status \in {0, 400, 505}
      /\ service.request.status = 0 => service.request.method \in Known
  BY <1>0, OriginalQuestionsType DEF Parsed
<1>2. CASE service.request.status # 0
  <2> DEFINE s == [service EXCEPT !.code = service.request.status]
  <2>1. service \in Service /\ service.request.status \in Codes
    BY <1>0, <1>1, <1>2 DEF Blank, Codes
  <2>2. Has(s, service.request, service.request.status, service.size, service.buffer,
               service.reply, service.sends, service.caught)
    BY <2>1, SetCode
  <2>3. Goto("SendResponse", s)
    BY <1>2 DEF DispatchRequest
  <2> HIDE DEF s
  <2>4. OriginalReady(s)
    BY <1>0, <1>2, <2>2, HttpsAssumption DEF OriginalReady, Prepared, Blank, Has
  <2> QED
    BY <1>0, <2>2, <2>3, <2>4, OriginalReadyGoes DEF Has
<1>3. CASE service.request.status = 0
  <2>1. OriginalAccepted(service)
    BY <1>0, <1>3 DEF OriginalAccepted
  <2>2. Goto(HandlerOf(service.request.method), service)
    BY <1>3 DEF DispatchRequest
  <2>3. CASE service.request.method \in Handled
    <3>1. /\ HandlerOf(service.request.method) \in Handlers
          /\ OriginalFits(HandlerOf(service.request.method), service)
      BY <2>1, <2>3 DEF HandlerOf, Handlers, Handled, OriginalFits, NoServicePlaces
    <3> QED
      BY <1>0, <2>2, <3>1, OriginalPassedOn
  <2>4. CASE service.request.method \in Known \ Handled
    <3>1. Goto("Finished", service)
      BY <2>2, <2>4 DEF HandlerOf, Handled
    <3>2. OriginalDone(service) /\ service \in Service
      BY <1>0, <1>3, <2>4 DEF OriginalDone, Blank
    <3> QED
      BY <1>0, <3>1, <3>2, OriginalEndGoes DEF Blank
  <2> QED
    BY <1>1, <1>3, <2>3, <2>4
<1> QED
  BY <1>2, <1>3

\* ProcessGetRequest.
LEMMA OriginalGetGoes ==
    ASSUME OriginalIInv, GetToPost \/ ProcessGetRequest
    PROVE  Terminates \/ OriginalWorkerGoes
<1>0. /\ worker = "ProcessGetRequest" /\ worker \in Handlers
      /\ OriginalAccepted(service) /\ service.request.method = "GET"
  BY DEF GetToPost, GetScript, ProcessGetRequest, At, OriginalIInv, OriginalFits, Handlers
<1>1. CASE GetToPost
  <2>1. IsScript(service.request.resource) /\ Goto("ProcessPostRequest", service)
    BY <1>1 DEF GetToPost, GetScript
  <2>2. OriginalFits("ProcessPostRequest", service)
    BY <1>0, <2>1 DEF OriginalFits, NoServicePlaces
  <2> QED
    BY <1>0, <2>1, <2>2, OriginalPassedOn DEF Handlers
<1>2. CASE ProcessGetRequest
  <2>0. ~ IsScript(service.request.resource)
    BY <1>2 DEF ProcessGetRequest
  <2>1. ASSUME NEW z \in {0, 1},
               Goto("SendResponse", [service EXCEPT !.size = z, !.buffer = "file"])
        PROVE  OriginalWorkerGoes
    <3> DEFINE s == [service EXCEPT !.size = z, !.buffer = "file"]
    <3>1. z \in Sizes /\ "file" \in Buffers
      BY DEF Sizes, Buffers
    <3>2. Has(s, service.request, service.code, z, "file",
                 service.reply, service.sends, service.caught)
      BY <1>0, <3>1, InHandler, SetBuffer
    <3> HIDE DEF s
    <3>3. OriginalReady(s)
      BY <1>0, <2>0, <3>2, InHandler, HttpsAssumption DEF OriginalReady, Prepared, Has
    <3> QED
      BY <1>0, <2>1, <3>2, <3>3, OriginalReadyGoes DEF s, Has
  <2> QED
    BY <1>0, <1>2, <2>1, OriginalCaughtGoes, OriginalCodeGoes, CannotOpenGoes
    DEF ProcessGetRequest, CannotLook, NotThere, CannotOpen
<1> QED
  BY <1>1, <1>2

\* ProcessPostRequest.
LEMMA OriginalPostGoes ==
    ASSUME OriginalIInv, ProcessPostRequest
    PROVE  Terminates \/ OriginalWorkerGoes
<1>0. /\ worker = "ProcessPostRequest" /\ worker \in Handlers
      /\ OriginalAccepted(service)
      /\ \/ service.request.method = "POST"
         \/ service.request.method = "GET" /\ IsScript(service.request.resource)
  BY DEF ProcessPostRequest, PostNoScript, PostScript, At, OriginalIInv, OriginalFits,
         Handlers
<1>1. CASE CannotLook \/ NotThere(index)
  BY <1>0, <1>1, OriginalCaughtGoes, OriginalCodeGoes DEF CannotLook, NotThere
<1>2. CASE PostNoScript
  <2>1. Goto("Finished", service) /\ ~ IsScript(service.request.resource)
    BY <1>2 DEF PostNoScript
  <2>2. OriginalDone(service)
    BY <1>0, <2>1, InHandler DEF OriginalDone
  <2> QED
    BY <1>0, <2>1, <2>2, InHandler, OriginalEndGoes
<1>3. CASE PostScript
  <2>1. CASE Goto("ExecuteProgram", service)
    <3>1. OriginalFits("ExecuteProgram", service)
      BY <1>0, <1>3 DEF PostScript, OriginalFits, NoServicePlaces
    <3> QED
      BY <1>0, <2>1, <3>1, OriginalPassedOn
  <2> QED
    BY <1>3, <2>1 DEF PostScript
<1> QED
  BY <1>1, <1>2, <1>3 DEF ProcessPostRequest

\* ExecuteProgram.
LEMMA OriginalEndScriptGoes ==
    ASSUME OriginalIInv, ExecuteProgram
    PROVE  OriginalWorkerGoes
<1>0. /\ worker = "ExecuteProgram" /\ OriginalAccepted(service)
      /\ IsScript(service.request.resource) /\ service.request.method \in {"GET", "POST"}
  BY DEF ExecuteProgram, EndScript, At, OriginalIInv, OriginalFits
<1>1. ASSUME NEW z \in {0, 1},
             Goto("SendResponse",
                  [service EXCEPT !.code = 200, !.size = z, !.buffer = "output"])
      PROVE  OriginalWorkerGoes
  <2> DEFINE s == [service EXCEPT !.code = 200, !.size = z, !.buffer = "output"]
  <2>1. z \in Sizes
    BY DEF Sizes
  <2>2. Has(s, service.request, 200, z, "output", service.reply, service.sends,
            service.caught)
    BY <1>0, <2>1, InHandler, SetOutput
  <2>3. Goto("SendResponse", s)
    BY <1>1
  <2> HIDE DEF s
  <2>4. OriginalReady(s)
    BY <1>0, <2>2, InHandler, HttpsAssumption DEF OriginalReady, Prepared, Has
  <2> QED
    BY <1>0, <2>2, <2>3, <2>4, OriginalReadyGoes DEF Has
<1>2. CASE Goto("SendResponse", [service EXCEPT !.code = 500])
  BY <1>0, <1>2, OriginalCodeGoes
<1> QED
  BY <1>1, <1>2 DEF ExecuteProgram, EndScript, ReadOutput, NoOutput

\* ProcessHeadRequest, ProcessDeleteRequest and ProcessOptionsRequest: a
\* response without a buffer.
LEMMA OriginalOtherGoes ==
    ASSUME OriginalIInv,
           ProcessHeadRequest \/ ProcessDeleteRequest \/ ProcessOptionsRequest
    PROVE  OriginalWorkerGoes
<1>0. /\ worker \in {"ProcessHeadRequest", "ProcessDeleteRequest", "ProcessOptionsRequest"}
      /\ worker \in Handlers
  BY DEF ProcessHeadRequest, ProcessDeleteRequest, ProcessOptionsRequest, At, Handlers
<1>a. service.request.method \in {"HEAD", "DELETE", "OPTIONS"}
  BY <1>0 DEF OriginalIInv, OriginalFits
<1>1. ASSUME NEW z \in {0, 1, Junk}, Goto("SendResponse", [service EXCEPT !.size = z])
      PROVE  OriginalWorkerGoes
  <2> DEFINE s == [service EXCEPT !.size = z]
  <2>1. z \in Sizes
    BY DEF Sizes
  <2>2. Has(s, service.request, service.code, z, service.buffer,
               service.reply, service.sends, service.caught)
    BY <1>0, <2>1, InHandler, SetSize
  <2>3. Goto("SendResponse", s)
    BY <1>1
  <2> HIDE DEF s
  <2>4. OriginalReady(s)
    BY <1>0, <1>a, <2>2, InHandler DEF OriginalReady, Has
  <2> QED
    BY <1>0, <2>2, <2>3, <2>4, OriginalReadyGoes DEF Has
<1>2. CASE Goto("SendResponse", service)
  <2>1. OriginalReady(service)
    BY <1>0, <1>a, InHandler DEF OriginalReady
  <2> QED
    BY <1>0, <1>2, <2>1, OriginalReadyGoes
<1>3. CASE CannotLook \/ \E i \in {index} : NotThere(i)
  BY <1>0, <1>3, OriginalCaughtGoes, OriginalCodeGoes DEF CannotLook, NotThere
<1>4. CASE ProcessHeadRequest
  <2>1. worker = "ProcessHeadRequest"
    BY <1>4 DEF ProcessHeadRequest, At
  <2>2. CASE CannotOpen(index)
    BY <2>1, <2>2, CannotOpenGoes DEF CannotOpen
  <2> QED
    BY <1>1, <1>3, <1>4, <2>2 DEF ProcessHeadRequest
<1>5. CASE ProcessDeleteRequest
  BY <1>2, <1>3, <1>5 DEF ProcessDeleteRequest
<1>6. CASE ProcessOptionsRequest
  BY <1>2, <1>6 DEF ProcessOptionsRequest
<1> QED
  BY <1>4, <1>5, <1>6

\* A response that is ready is one of the answers its request may get.
LEMMA OriginalReadyAnswers ==
    ASSUME NEW s, OriginalReady(s), s.size = 0 \/ s.buffer # None,
           NEW r, r = [code |-> s.code, body |-> IF s.size = 0 THEN None ELSE s.buffer]
    PROVE  r \in Reply /\ r \in OriginalAnswersTo(s.request)
<1>1. s \in Service /\ s.request \in Parsed
  BY OriginalQuestionsType DEF OriginalReady
<1>2. CASE s.request.status # 0 \/ s.request.method \in {"GET", "POST"}
  <2>1. Prepared(s)
    BY <1>2 DEF OriginalReady
  <2>2. r \in Reply /\ r \in AnswersTo(s.request)
    BY <1>1, <2>1, ReadyAnswers
  <2>3. OriginalAnswersTo(s.request) = AnswersTo(s.request)
    BY <1>2 DEF OriginalAnswersTo, Handled
  <2> QED
    BY <2>2, <2>3
<1>3. CASE s.request.status = 0 /\ s.request.method \notin {"GET", "POST"}
  <2>1. s.request.method \in Handled /\ s.buffer = None /\ s.code \in {200, 404, Junk}
    BY <1>3 DEF OriginalReady
  <2>2. r.code \in {200, 404, Junk} /\ r.body = None /\ r = [code |-> r.code, body |-> r.body]
    BY <2>1
  <2>3. r \in [code : {200, 404, Junk}, body : {None}]
    BY <2>2
  <2>4. OriginalAnswersTo(s.request) = [code : {200, 404, Junk}, body : {None}]
    BY <1>3, <2>1 DEF OriginalAnswersTo
  <2>5. r.code \in Codes /\ r.body \in Buffers
    BY <2>2 DEF Codes, Buffers
  <2>6. r \in Reply
    BY <2>2, <2>5 DEF Reply
  <2> QED
    BY <2>3, <2>4, <2>6
<1> QED
  BY <1>2, <1>3

\* SendResponse.
LEMMA OriginalSendGoes ==
    ASSUME OriginalIInv, SendReply
    PROVE  Terminates \/ OriginalWorkerGoes
<1>0. worker = "SendResponse" /\ OriginalReady(service)
  BY DEF SendReply, SendResponse, At, OriginalIInv, OriginalFits
<1> DEFINE r == [code |-> service.code,
                 body |-> IF service.size = 0 THEN None ELSE service.buffer]
           s == [service EXCEPT !.sends = @ + 1, !.size = 0, !.reply = r]
<1>1. CASE service.size = 0 \/ service.buffer # None
  <2>1. Goto("Finished", s)
    BY <1>1 DEF SendReply, SendResponse
  <2>2. r \in Reply /\ r \in OriginalAnswersTo(service.request)
    BY <1>0, <1>1, OriginalReadyAnswers
  <2> HIDE DEF r
  <2>3. service \in Service /\ service.sends = 0
    BY <1>0 DEF OriginalReady
  <2>4. Has(s, service.request, service.code, 0, service.buffer, r, service.sends + 1,
            service.caught)
    BY <2>2, <2>3, SetReply
  <2> HIDE DEF s
  <2>5. r # None /\ s # None
    BY <2>2, <2>4, NotNone DEF Has
  <2>a. s.sends = 1
    BY <2>3, <2>4 DEF Has
  <2>b. OriginalDone(s)
    BY <2>4, <2>5, <2>a DEF OriginalDone, Has
  <2>6. OriginalFits("Finished", s)
    BY <2>b DEF OriginalFits, NoServicePlaces
  <2>7. OriginalGetsAnswer(worker, service, "Finished", s)
    BY <1>0, <2>2, <2>4, <2>5, OriginalServing
    DEF OriginalGetsAnswer, PhaseAt, QuestionOf, AnswerOf, Has
  <2> QED
    BY <2>1, <2>4, <2>6, <2>7
    DEF OriginalWorkerGoes, OriginalGoes, OriginalMoves, OriginalPlaces, Places, Has
<1>2. CASE service.size # 0 /\ service.buffer = None
  BY <1>2 DEF SendReply, SendResponse
<1> QED
  BY <1>1, <1>2

\* Whatever the worker does.
LEMMA OriginalWorkerStep ==
    ASSUME OriginalIInv, OriginalWaiting \/ OriginalComputing \/ CatchError
    PROVE  Terminates \/ OriginalWorkerGoes
<1>1. CASE CatchError
  <2>1. /\ worker \in {"handshake", "read_until", "HttpsHandleRequest", "SendResponse"}
        /\ Goto("Finished", [service EXCEPT !.caught = TRUE])
    BY <1>1 DEF CatchError, Caught, At
  <2> QED
    BY <2>1, OriginalCaughtGoes
<1> QED
  BY <1>1, OriginalLoopGoes, OriginalReadGoes, OriginalDispatchGoes, OriginalGetGoes,
     OriginalPostGoes, OriginalEndScriptGoes, OriginalOtherGoes, OriginalSendGoes
  DEF OriginalWaiting, OriginalComputing

-----------------------------------------------------------------------------
(***************************************************************************)
(* The invariant is inductive.                                             *)
(***************************************************************************)
LEMMA OriginalInit == Init => OriginalIInv
<1> SUFFICES ASSUME Init PROVE OriginalIInv
  OBVIOUS
<1>1. IInv
  BY InitIInv
<1>2. OriginalTypeOK
  BY <1>1 DEF IInv, TypeOK, OriginalTypeOK
<1>3. OriginalFits(worker, service)
  BY DEF Init, OriginalFits, NoServicePlaces
<1> QED
  BY <1>1, <1>2, <1>3 DEF IInv, OriginalIInv

\* A step of the worker that touches no output file.
LEMMA OriginalQuietStep ==
    ASSUME OriginalIInv, Terminates \/ OriginalWorkerGoes, StopSeen',
           index' \in {"absent", "user's", "default"}, afterStop' \in 0 .. 2,
           UNCHANGED <<output, faults, mixed>>,
           worker # "ExecuteProgram", worker' # "ExecuteProgram"
    PROVE  OriginalIInv'
<1>0. OriginalTypeOK /\ LeftBehind /\ OriginalFits(worker, service)
  BY DEF OriginalIInv
<1>1. LeftBehind'
  BY <1>0, LeftUntouched DEF At
<1>2. CASE Terminates
  <2>1. OriginalTypeOK'
    BY <1>0, <1>2 DEF OriginalTypeOK, DataOK, Terminates
  <2> QED
    BY <1>0, <1>1, <1>2, <2>1 DEF OriginalIInv, Terminates
<1>3. CASE OriginalWorkerGoes
  <2>1. PICK p \in OriginalPlaces, s \in Service \cup {None} : OriginalGoes(p, s)
    BY <1>3 DEF OriginalWorkerGoes
  <2>2. OriginalTypeOK'
    BY <1>0, <2>1 DEF OriginalTypeOK, DataOK, OriginalGoes, Goto, OriginalPlaces
  <2> QED
    BY <1>1, <2>1, <2>2 DEF OriginalIInv, OriginalGoes, Goto
<1> QED
  BY <1>2, <1>3

\* Every step of the two threads, and every fault, keeps the strengthening.
LEMMA OriginalNextIInv == OriginalIInv /\ [OriginalNext]_vars => OriginalIInv'
<1> SUFFICES ASSUME OriginalIInv, [OriginalNext]_vars PROVE OriginalIInv'
  OBVIOUS
<1>0. /\ OriginalTypeOK /\ DataOK /\ OriginalFits(worker, service)
      /\ StopSeen /\ LeftBehind
  BY DEF OriginalIInv, OriginalTypeOK
<1>a. index \in {"absent", "user's", "default"} /\ afterStop \in 0 .. 2
  BY <1>0 DEF DataOK
<1>1. CASE StartServer
  <2>1. service = None /\ worker = "none"
    BY <1>0, <1>1 DEF StartServer, Start, StopSeen, OriginalFits, NoServicePlaces
  <2>2. OriginalTypeOK'
    BY <1>0, <1>1 DEF StartServer, Start, OriginalTypeOK, DataOK, Places, others
  <2>3. OriginalFits(worker, service)'
    BY <1>1, <2>1 DEF StartServer, Start, OriginalFits, NoServicePlaces
  <2>4. LeftBehind'
    BY <1>0, <1>1, <2>1, LeftUntouched DEF StartServer, Start, At, others
  <2>5. StopSeen'
    BY <1>0, <1>1, StopSeenLoop DEF StartServer
  <2> QED
    BY <2>2, <2>3, <2>4, <2>5 DEF OriginalIInv
<1>2. CASE StopServer
  <2>1. Stop \/ Join
    BY <1>2 DEF StopServer
  <2>2. OriginalTypeOK'
    BY <1>0, <2>1 DEF Stop, Join, OriginalTypeOK, DataOK, others
  <2>3. OriginalFits(worker, service)'
    BY <1>0, <2>1 DEF Stop, Join
  <2>4. LeftBehind'
    BY <1>0, <2>1, LeftUntouched DEF Stop, Join, At, others
  <2>5. StopSeen'
    BY <1>0, <2>1, StopSeenLoop
  <2> QED
    BY <2>2, <2>3, <2>4, <2>5 DEF OriginalIInv
<1>3. CASE Listen \/ Loop \/ AcceptClient \/ EndClient
  <2>1. Terminates \/ OriginalWorkerGoes
    BY <1>3, OriginalLoopGoes
  <2>a. Construct \/ CheckStop \/ Accept \/ Finished
    BY <1>3 DEF Listen, Loop, AcceptClient, EndClient
  <2>2. StopSeen'
    BY <1>0, <2>a, StopSeenLoop
  <2>3. /\ worker # "ExecuteProgram" /\ worker' # "ExecuteProgram"
        /\ UNCHANGED <<index, output, faults, mixed>>
    BY <2>a DEF Construct, CheckStop, Accept, Finished, At, Goto, Terminates, others
  <2>4. afterStop' \in 0 .. 2
    <3>1. CASE Construct \/ CheckStop \/ Finished
      BY <1>a, <3>1 DEF Construct, CheckStop, Finished, others
    <3>2. CASE Accept
      BY <1>a, <3>2 DEF Accept
    <3> QED
      BY <2>a, <3>1, <3>2
  <2> QED
    BY <1>a, <2>1, <2>2, <2>3, <2>4, OriginalQuietStep
<1>4. CASE \/ CatchError \/ Handshake \/ ReadRequest \/ DispatchRequest
           \/ GetToPost \/ ProcessGetRequest \/ CannotPost
           \/ ProcessHeadRequest \/ ProcessDeleteRequest \/ ProcessOptionsRequest
           \/ SendReply
  <2>1. Terminates \/ OriginalWorkerGoes
    BY <1>4, OriginalWorkerStep DEF OriginalWaiting, OriginalComputing, CannotPost,
                                    ProcessPostRequest
  <2>2. /\ worker \notin {"none", "ExecuteProgram"}
        /\ worker' = worker \/ worker' \notin {"none", "HttpsAcceptor", "accept"}
        /\ worker' # "ExecuteProgram"
        /\ UNCHANGED <<main, m_Stop>>
    <3>1. CASE CatchError \/ Handshake \/ ReadRequest \/ GetToPost \/ SendReply \/ CannotPost
      BY <3>1 DEF CatchError, Caught, Handshake, ReadRequest, GetToPost, GetScript, SendReply,
                  SendResponse, CannotPost, PostNoScript, CannotLook, NotThere, At, Goto, Terminates
    <3>2. CASE ProcessGetRequest \/ ProcessHeadRequest \/ ProcessDeleteRequest
               \/ ProcessOptionsRequest
      BY <3>2 DEF ProcessGetRequest, ProcessHeadRequest, ProcessDeleteRequest,
                  ProcessOptionsRequest, CannotLook, NotThere, CannotOpen, At, Goto,
                  Terminates
    <3>3. CASE DispatchRequest
      BY <3>3 DEF DispatchRequest, HandlerOf, At, Goto
    <3> QED
      BY <1>4, <3>1, <3>2, <3>3
  <2>3. UNCHANGED <<output, afterStop, faults, mixed>>
    BY <1>4 DEF CatchError, Caught, Handshake, ReadRequest, DispatchRequest, GetToPost,
                GetScript, ProcessGetRequest, CannotPost, PostNoScript, ProcessHeadRequest,
                ProcessDeleteRequest, ProcessOptionsRequest, SendReply, SendResponse, others
  <2>4. index' \in {"absent", "user's", "default"}
    <3>1. CASE ProcessGetRequest
      BY <1>a, <3>1 DEF ProcessGetRequest, WriteIndex
    <3>2. CASE ProcessDeleteRequest
      BY <1>a, <3>2 DEF ProcessDeleteRequest
    <3> QED
      BY <1>4, <1>a, <3>1, <3>2
      DEF CatchError, Caught, Handshake, ReadRequest, DispatchRequest, GetToPost,
          GetScript, CannotPost, PostNoScript, ProcessHeadRequest, ProcessOptionsRequest,
          SendReply, SendResponse, others
  <2>5. StopSeen'
    BY <1>0, <2>2, <2>3, StopSeenHandler
  <2> QED
    BY <1>a, <2>1, <2>2, <2>3, <2>4, <2>5, OriginalQuietStep
<1>5. CASE PostScript
  <2>1. /\ LeftBehind' /\ DataOK'
    BY <1>0, <1>5, LeftPostScript
  <2>2. /\ worker = "ProcessPostRequest" /\ UNCHANGED <<main, m_Stop, afterStop>>
        /\ worker' \in {"ProcessPostRequest", "ExecuteProgram"}
    BY <1>5 DEF PostScript, At, Goto, Terminates
  <2>3. StopSeen'
    BY <1>0, <2>2, StopSeenHandler
  <2>4. OriginalFits(worker, service)'
    <3>1. Terminates \/ OriginalWorkerGoes
      BY <1>5, OriginalPostGoes DEF ProcessPostRequest
    <3> QED
      BY <1>0, <3>1 DEF Terminates, OriginalWorkerGoes, OriginalGoes, Goto
  <2>5. OriginalTypeOK'
    BY <2>1, <2>2 DEF OriginalTypeOK, Places
  <2> QED
    BY <2>1, <2>3, <2>4, <2>5 DEF OriginalIInv
<1>6. CASE ExecuteProgram
  <2>1. /\ LeftBehind' /\ mixed' \in Nat
        /\ output' \in [OutputFiles -> {"absent", "empty", "written", "mixed"}]
    BY <1>0, <1>6, LeftEndScript DEF ExecuteProgram
  <2>2. /\ worker = "ExecuteProgram" /\ worker' = "SendResponse"
        /\ UNCHANGED <<main, m_Stop, alive, index, afterStop, faults>>
    BY <1>6 DEF ExecuteProgram, EndScript, ReadOutput, NoOutput, At, Goto
  <2>3. StopSeen'
    BY <1>0, <2>2, StopSeenHandler
  <2>4. PICK p \in OriginalPlaces, s \in Service \cup {None} : OriginalGoes(p, s)
    BY <1>6, OriginalEndScriptGoes DEF OriginalWorkerGoes
  <2>5. OriginalTypeOK'
    BY <1>0, <2>1, <2>2, <2>4
    DEF OriginalTypeOK, DataOK, OriginalGoes, Goto, OriginalPlaces
  <2> QED
    BY <2>1, <2>3, <2>4, <2>5 DEF OriginalIInv, OriginalGoes, Goto
<1>7. CASE Kill
  <2>1. faults' \in 0 .. MaxFaults
    BY <1>0, <1>7, HttpsAssumption DEF Kill, DataOK
  <2>2. alive' \in BOOLEAN
    BY <1>7 DEF Kill
  <2>3. OriginalTypeOK'
    BY <1>0, <1>7, <2>1, <2>2 DEF Kill, OriginalTypeOK, DataOK
  <2>4. OriginalFits(worker, service)'
    BY <1>0, <1>7 DEF Kill
  <2>5. LeftBehind' /\ StopSeen'
    BY <1>0, <1>7, LeftKill, StopSeenLoop
  <2> QED
    BY <2>3, <2>4, <2>5 DEF OriginalIInv
<1>8. CASE Restart
  <2>1. m_Stop' \in BOOLEAN /\ alive' \in BOOLEAN
    BY <1>8 DEF Restart
  <2>2. afterStop' \in 0 .. 2
    BY <1>8 DEF Restart
  <2>3. OriginalTypeOK'
    BY <1>0, <1>8, <2>1, <2>2 DEF Restart, OriginalTypeOK, DataOK, Places
  <2>4. OriginalFits(worker, service)'
    BY <1>8 DEF Restart, OriginalFits, NoServicePlaces
  <2>5. LeftBehind'
    BY <1>0, <1>8, LeftUntouched DEF Restart, At
  <2> QED
    BY <1>0, <1>8, <2>3, <2>4, <2>5, StopSeenLoop DEF OriginalIInv
<1>9. CASE UNCHANGED vars
  <2>1. LeftBehind'
    BY <1>0, <1>9, LeftUntouched DEF vars, others
  <2>2. StopSeen' /\ OriginalTypeOK' /\ OriginalFits(worker, service)'
    BY <1>0, <1>9 DEF vars, others, StopSeen, OriginalTypeOK, DataOK
  <2> QED
    BY <2>1, <2>2 DEF OriginalIInv
<1> QED
  BY <1>1, <1>2, <1>3, <1>4, <1>5, <1>6, <1>7, <1>8, <1>9
  DEF OriginalNext, OriginalMainThread, OriginalWaiting, OriginalComputing,
      ProcessPostRequest, CannotPost

-----------------------------------------------------------------------------
(***************************************************************************)
(* The theorems.                                                           *)
(***************************************************************************)

\* The strengthening holds in every reachable state.
THEOREM OriginalInvariance == OriginalSpec => []OriginalIInv
<1> QED
  BY OriginalInit, OriginalNextIInv, PTL DEF OriginalSpec

\* The state stays in its types: every status that is sent is one of the table
\* or was never set, whatever a client asks of the eight methods.
THEOREM OriginalTypeCorrect == OriginalSpec => []OriginalTypeOK
<1>1. OriginalIInv => OriginalTypeOK
  BY DEF OriginalIInv
<1> QED
  BY <1>1, OriginalInvariance, PTL

\* The five handlers, and the two that pass a request on, call SendResponse at
\* most once for it.
THEOREM OriginalOneReply == OriginalSpec => []AtMostOneReply
<1>1. OriginalIInv => AtMostOneReply
  <2> SUFFICES ASSUME OriginalIInv, service # None PROVE service.sends <= 1
    BY DEF AtMostOneReply
  <2>1. CASE worker = "Finished"
    BY <2>1 DEF OriginalIInv, OriginalFits, OriginalDone
  <2>2. CASE worker # "Finished"
    <3>1. worker \notin NoServicePlaces
      BY NotNone DEF OriginalIInv, OriginalFits
    <3>2. service.sends = 0
      BY <2>2, <3>1, OriginalServing, Zenon
      DEF OriginalIInv, OriginalTypeOK, Places, Handlers, NoServicePlaces
    <3> QED
      BY <3>2
  <2> QED
    BY <2>1, <2>2
<1> QED
  BY <1>1, OriginalInvariance, PTL

\* After Stop at most one more client is served, as in https.hpp.
THEOREM OriginalStopBounded == OriginalSpec => []AtMostOneAfterStop
<1>1. OriginalIInv => AtMostOneAfterStop
  BY DEF OriginalIInv, OriginalTypeOK, DataOK, StopSeen, AtMostOneAfterStop
<1> QED
  BY <1>1, OriginalInvariance, PTL

\* A connection that met no error ends without a reply in three cases only.
THEOREM OriginalSilentCases == OriginalSpec => []OriginalSilentOnlyKnown
<1>1. OriginalIInv => OriginalSilentOnlyKnown
  BY DEF OriginalIInv, OriginalFits, OriginalDone, OriginalSilentOnlyKnown
<1> QED
  BY <1>1, OriginalInvariance, PTL

\* With the handlers for all methods too, at most so many replies as there
\* were kills hold something that an earlier script has written.
THEOREM OriginalMixedBounded == OriginalSpec => []MixedOnlyAfterKill
<1>1. OriginalIInv => MixedOnlyAfterKill
  <2> SUFFICES ASSUME OriginalIInv PROVE mixed <= faults
    BY DEF MixedOnlyAfterKill
  <2>1. mixed \in Nat /\ faults \in Nat /\ LeftBehind
    BY HttpsAssumption DEF OriginalIInv, OriginalTypeOK, DataOK
  <2>2. Left("tempfile") \in Nat /\ Left("cgi_tempfile") \in Nat
    BY DEF Left
  <2> QED
    BY <2>1, <2>2 DEF LeftBehind
<1> QED
  BY <1>1, OriginalInvariance, PTL

-----------------------------------------------------------------------------
(***************************************************************************)
(* The server implements HttpExchange.                                     *)
(***************************************************************************)

\* Every step is a move of the one exchange.
LEMMA OriginalEveryStepMoves ==
    ASSUME OriginalIInv, [OriginalNext]_vars
    PROVE  OriginalMoves(worker, service, worker', service')
<1>1. CASE UNCHANGED <<worker, service>>
  BY <1>1 DEF OriginalMoves, Stays
<1>2. CASE OriginalWaiting \/ OriginalComputing \/ CatchError
  <2>1. CASE OriginalWorkerGoes
    BY <2>1 DEF OriginalWorkerGoes, OriginalGoes, Goto
  <2> QED
    BY <1>1, <1>2, <2>1, OriginalWorkerStep DEF Terminates
<1>3. CASE StartServer
  <2>1. service' = None
    BY <1>3 DEF StartServer, Start, OriginalIInv, StopSeen, OriginalFits, NoServicePlaces
  <2> QED
    BY <2>1 DEF OriginalMoves
<1>4. CASE StopServer \/ Kill
  BY <1>1, <1>4 DEF StopServer, Stop, Join, Kill
<1>5. CASE Restart
  BY <1>5 DEF Restart, OriginalMoves
<1> QED
  BY <1>1, <1>2, <1>3, <1>4, <1>5 DEF OriginalNext, OriginalMainThread, vars

\* Every move of this server is a step of HttpExchange, or none.
LEMMA OriginalMoveStep ==
    ASSUME OriginalMoves(worker, service, worker', service')
    PROVE  [OriginalExchange!Next]_(OriginalExchange!vars)
<1> DEFINE P == PhaseAt(worker, service)
           Q == QuestionOf(service)
           A == AnswerOf(service)
           P1 == PhaseAt(worker', service')
           Q1 == QuestionOf(service')
           A1 == AnswerOf(service')
<1>0. /\ phases = [c \in {"client"} |-> P] /\ phases' = [c \in {"client"} |-> P1]
      /\ questions = [c \in {"client"} |-> Q] /\ questions' = [c \in {"client"} |-> Q1]
      /\ answers = [c \in {"client"} |-> A] /\ answers' = [c \in {"client"} |-> A1]
  BY Mapped
<1>1. CASE service' = None
  <2>1. P1 = "idle" /\ Q1 = None /\ A1 = None
    BY <1>1 DEF PhaseAt, QuestionOf, AnswerOf
  <2> HIDE DEF P, Q, A, P1, Q1, A1
  <2>2. OriginalExchange!Forget({"client"})
    BY <1>0, <2>1 DEF OriginalExchange!Forget, phases, questions, answers
  <2> QED
    BY <2>2 DEF OriginalExchange!Next
<1>2. CASE Stays(worker, service, worker', service')
  <2>1. P1 = P /\ Q1 = Q /\ A1 = A
    BY <1>2 DEF Stays
  <2> HIDE DEF P, Q, A, P1, Q1, A1
  <2>2. UNCHANGED <<phases, questions, answers>>
    BY <1>0, <2>1
  <2> QED
    BY <2>2 DEF OriginalExchange!vars, phases, questions, answers
<1>3. CASE Connects(worker, service, worker', service')
  <2>1. P = "idle" /\ P1 = "connected" /\ Q1 = Q /\ A1 = A
    BY <1>3 DEF Connects
  <2> HIDE DEF P, Q, A, P1, Q1, A1
  <2>2. OriginalExchange!Connect("client")
    BY <1>0, <2>1 DEF OriginalExchange!Connect, phases, questions, answers
  <2> QED
    BY <2>2 DEF OriginalExchange!Next
<1>4. CASE OriginalAsks(worker, service, worker', service')
  <2>1. P = "connected" /\ P1 = "asked" /\ Q1 \in OriginalQuestions /\ A1 = A
    BY <1>4 DEF OriginalAsks
  <2> HIDE DEF P, Q, A, P1, Q1, A1
  <2>2. OriginalExchange!Ask("client", Q1)
    BY <1>0, <2>1 DEF OriginalExchange!Ask, phases, questions, answers
  <2> QED
    BY <2>1, <2>2 DEF OriginalExchange!Next
<1>5. CASE OriginalGetsAnswer(worker, service, worker', service')
  <2>1. P = "asked" /\ P1 = "answered" /\ Q \in OriginalQuestions /\ Q1 = Q /\ A1 \in OriginalAnswersTo(Q)
    BY <1>5 DEF OriginalGetsAnswer
  <2> HIDE DEF P, Q, A, P1, Q1, A1
  <2>2. A1 \in [r \in OriginalQuestions |-> OriginalAnswersTo(r)][questions["client"]]
    BY <1>0, <2>1
  <2>3. answers' = [answers EXCEPT !["client"] = A1]
    BY <1>0
  <2>4. phases["client"] = "asked" /\ phases' = [phases EXCEPT !["client"] = "answered"]
    BY <1>0, <2>1
  <2>5. questions' = questions
    BY <1>0, <2>1
  <2>6. OriginalExchange!Answer("client")
    BY <2>2, <2>3, <2>4, <2>5 DEF OriginalExchange!Answer, phases, questions, answers
  <2> QED
    BY <2>6 DEF OriginalExchange!Next
<1>6. CASE IsHungUp(worker, service, worker', service')
  <2>1. P \in {"connected", "asked"} /\ P1 = "hung up" /\ Q1 = Q /\ A1 = A
    BY <1>6 DEF IsHungUp
  <2> HIDE DEF P, Q, A, P1, Q1, A1
  <2>2. OriginalExchange!HangUp("client")
    BY <1>0, <2>1 DEF OriginalExchange!HangUp, phases, questions, answers
  <2> QED
    BY <2>2 DEF OriginalExchange!Next
<1> QED
  BY <1>1, <1>2, <1>3, <1>4, <1>5, <1>6 DEF OriginalMoves

\* Every behaviour of this server is one of HttpExchange: with eight methods
\* and five handlers a client is still answered at most once, with an answer
\* its request allows.
THEOREM OriginalRefinement == OriginalSpec => OriginalImplementsExchange
<1>1. Init => OriginalExchange!Init
  BY DEF Init, OriginalExchange!Init, Phase
<1>2. OriginalIInv /\ [OriginalNext]_vars =>
          [OriginalExchange!Next]_(OriginalExchange!vars)
  BY OriginalEveryStepMoves, OriginalMoveStep
<1> QED
  BY <1>1, <1>2, OriginalInvariance, PTL
  DEF OriginalSpec, OriginalImplementsExchange, OriginalExchange!Spec
=============================================================================
