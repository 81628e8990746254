------------------------- MODULE PoolExchange_proofs -------------------------
(***************************************************************************)
(* PoolServer implements HttpExchange, for any number of connections and   *)
(* threads: what is added to the invariant of PoolServer_proofs for it,    *)
(* and the step of the exchange for each step of the server.               *)
(***************************************************************************)
EXTENDS PoolServer_proofs

Response(s) == [code |-> s.code, body |-> s.buffer]

\* It has a request that was not refused and whose method has a handler that
\* looks at the path.
Accepted(s) ==
    /\ s.request \in Requests
    /\ StatusOf(s.request) = 0 /\ s.request.method \notin {"PUT", "OPTIONS"}

AcceptedScript(s) ==
    Accepted(s) /\ s.request.method \in {"GET", "POST"} /\ IsScript(s.request)

\* What a service has at each place of its handlers; from "send" on its
\* status and its buffer are an answer its request may get.
Fits(s) ==
    /\ s.at \in {"none", "read_until"} => s.request = None
    /\ s.at \in {"none", "read_until", "dispatch", "exists", "open", "script"} =>
           s.code = None /\ s.buffer = "none"
    /\ s.at \notin {"none", "read_until"} => s.request \in Requests
    /\ s.at \in {"exists", "open"} => Accepted(s)
    /\ s.at \in {"script", "remove"} => AcceptedScript(s)
    /\ s.at = "remove" =>
           \/ s.code = 200 /\ s.buffer = "output"
           \/ s.code = 500 /\ s.buffer = "none"
    /\ s.at \in {"send", "write"} => Response(s) \in AnswersTo(s.request)

AllFit == \A c \in Conns : Fits(service[c])

(***************************************************************************)
(* The moves of one exchange, and the steps in which one connection moves  *)
(* and the others look as before.                                          *)
(***************************************************************************)
Stays(t, s) ==
    PhaseOf(s) = PhaseOf(t) /\ s.request = t.request /\ AnswerOf(s) = AnswerOf(t)

Connects(t, s) ==
    /\ PhaseOf(t) = "idle" /\ PhaseOf(s) = "connected"
    /\ s.request = t.request /\ AnswerOf(s) = AnswerOf(t)

Asks(t, s) ==
    /\ PhaseOf(t) = "connected" /\ PhaseOf(s) = "asked"
    /\ s.request \in Requests /\ AnswerOf(s) = AnswerOf(t)

GetsAnswer(t, s) ==
    /\ PhaseOf(t) = "asked" /\ PhaseOf(s) = "answered"
    /\ t.request \in Requests /\ s.request = t.request
    /\ AnswerOf(s) \in AnswersTo(t.request)

Ends(s) == PhaseOf(s) = "idle" /\ s.request = None /\ AnswerOf(s) = None

Moves(t, s) == Stays(t, s) \/ Connects(t, s) \/ Asks(t, s) \/ GetsAnswer(t, s) \/ Ends(s)

\* The scripts a service has met show nowhere.
SameSeen(t, s) ==
    s.at = t.at /\ s.request = t.request /\ s.code = t.code /\ s.buffer = t.buffer

OneMoves(c) ==
    /\ Fits(service'[c])
    /\ Moves(service[c], service'[c])
    /\ \A d \in Conns \ {c} : SameSeen(service[d], service'[d])

-----------------------------------------------------------------------------
\* One service is put in the place of another.
LEMMA Replaced ==
    ASSUME TypeOK, NEW c \in Conns, NEW s, service' = [service EXCEPT ![c] = s],
           Fits(s), Moves(service[c], s)
    PROVE  OneMoves(c)
BY DEF TypeOK, OneMoves, SameSeen

\* A service goes on within its handler, or is left.
LEMMA GoesOn ==
    ASSUME TypeOK, NEW c \in Conns, NEW s, Becomes(c, s), Fits(s),
           service[c].at \in InHandler, s.at \in InHandler \cup {"left"},
           s.request = service[c].request
    PROVE  OneMoves(c)
<1>1. Stays(service[c], s)
  BY DEF Stays, PhaseOf, AnswerOf, InHandler
<1> QED
  BY <1>1, Replaced DEF Moves, Becomes

\* The acceptor, the read and the write.
LEMMA AcceptMoves ==
    ASSUME TypeOK, AllFit, NEW c \in Conns, Accept(c)
    PROVE  OneMoves(c)
<1> DEFINE s == [NoService EXCEPT !.at = "read_until"]
<1>1. /\ s.at = "read_until" /\ s.request = None /\ s.code = None /\ s.buffer = "none"
      /\ service' = [service EXCEPT ![c] = s]
  BY DEF NoService, Accept
<1> HIDE DEF s
<1>2. service[c].at = "none" /\ service[c].request = None
  BY DEF Accept, AllFit, Fits
<1>3. Fits(s)
  BY <1>1 DEF Fits
<1>4. Connects(service[c], s)
  BY <1>1, <1>2 DEF Connects, PhaseOf, AnswerOf, InHandler
<1> QED
  BY <1>1, <1>3, <1>4, Replaced DEF Moves

LEMMA ReadMoves ==
    ASSUME TypeOK, AllFit, NEW c \in Conns, ReadRequest(c)
    PROVE  UNCHANGED service \/ OneMoves(c)
<1>1. /\ service[c] \in Service /\ service[c].at = "read_until"
      /\ service[c].code = None /\ service[c].buffer = "none"
  BY DEF ReadRequest, TypeOK, AllFit, Fits
<1>2. ASSUME NEW q \in Requests,
             Becomes(c, [service[c] EXCEPT !.at = "dispatch", !.request = q])
      PROVE  OneMoves(c)
  <2> DEFINE s == [service[c] EXCEPT !.at = "dispatch", !.request = q]
  <2>1. s.at = "dispatch" /\ s.request = q /\ s.code = None /\ s.buffer = "none"
    BY <1>1 DEF Service
  <2>2. service' = [service EXCEPT ![c] = s]
    BY <1>2 DEF Becomes
  <2> HIDE DEF s
  <2>3. Fits(s)
    BY <2>1 DEF Fits
  <2>4. Asks(service[c], s)
    BY <1>1, <2>1 DEF Asks, PhaseOf, AnswerOf, InHandler
  <2> QED
    BY <2>2, <2>3, <2>4, Replaced DEF Moves
<1> QED
  BY <1>2 DEF ReadRequest, Terminates

LEMMA WriteMoves ==
    ASSUME TypeOK, NEW c \in Conns, EndWrite(c)
    PROVE  OneMoves(c)
<1>1. Fits(NoService) /\ Ends(NoService)
  BY DEF NoService, Fits, Ends, PhaseOf, AnswerOf, InHandler
<1> QED
  BY <1>1, Replaced DEF EndWrite, Becomes, Moves

\* SendResponse is where the client gets its answer.
LEMMA SendMoves ==
    ASSUME TypeOK, AllFit, NEW c \in Conns, SendResponse(c)
    PROVE  UNCHANGED service \/ OneMoves(c)
<1> DEFINE s == [service[c] EXCEPT !.at = "write"]
<1>1. /\ service[c] \in Service /\ service[c].at = "send" /\ service[c].request \in Requests
      /\ Response(service[c]) \in AnswersTo(service[c].request)
  BY DEF SendResponse, Running, TypeOK, AllFit, Fits
<1>2. /\ s.at = "write" /\ s.request = service[c].request
      /\ s.code = service[c].code /\ s.buffer = service[c].buffer
  BY <1>1 DEF Service
<1>3. CASE Becomes(c, s)
  <2> HIDE DEF s
  <2>1. Response(s) \in AnswersTo(s.request)
    BY <1>1, <1>2 DEF Response
  <2>2. Fits(s)
    BY <1>1, <1>2, <2>1 DEF Fits
  <2>3. AnswerOf(s) = Response(s) /\ PhaseOf(s) = "answered" /\ PhaseOf(service[c]) = "asked"
    BY <1>1, <1>2 DEF AnswerOf, Response, PhaseOf, InHandler
  <2>4. GetsAnswer(service[c], s)
    BY <1>1, <1>2, <2>1, <2>3 DEF GetsAnswer
  <2> QED
    BY <1>3, <2>2, <2>4, Replaced DEF Moves, Becomes
<1> QED
  BY <1>3 DEF SendResponse, Terminates

-----------------------------------------------------------------------------
(***************************************************************************)
(* The handlers.                                                           *)
(***************************************************************************)
LEMMA DispatchMoves ==
    ASSUME TypeOK, AllFit, NEW c \in Conns, Dispatch(c)
    PROVE  OneMoves(c)
<1> DEFINE q == service[c].request
<1>1. /\ service[c] \in Service /\ service[c].at = "dispatch" /\ q \in Requests
      /\ service[c].code = None /\ service[c].buffer = "none"
  BY DEF Dispatch, Running, TypeOK, AllFit, Fits
<1>2. CASE StatusOf(q) # 0
  <2> DEFINE s == [service[c] EXCEPT !.at = "send", !.code = StatusOf(q)]
  <2>1. Becomes(c, s)
    BY <1>2, Zenon DEF Dispatch
  <2>2. s.at = "send" /\ s.request = q /\ s.code = StatusOf(q) /\ s.buffer = "none"
    BY <1>1 DEF Service
  <2> HIDE DEF s
  <2>3. Response(s) \in AnswersTo(q)
    BY <1>2, <2>2 DEF Response, AnswersTo
  <2>4. Fits(s)
    BY <1>1, <2>2, <2>3 DEF Fits
  <2> QED
    BY <1>1, <2>1, <2>2, <2>4, GoesOn DEF InHandler
<1>3. CASE StatusOf(q) = 0 /\ q.method = "PUT"
  <2> DEFINE s == [service[c] EXCEPT !.at = "left"]
  <2>1. Becomes(c, s)
    BY <1>3, Zenon DEF Dispatch
  <2>2. s.at = "left" /\ s.request = q
    BY <1>1 DEF Service
  <2> HIDE DEF s
  <2>3. Fits(s)
    BY <1>1, <2>2 DEF Fits
  <2> QED
    BY <1>1, <2>1, <2>2, <2>3, GoesOn DEF InHandler
<1>4. CASE StatusOf(q) = 0 /\ q.method = "OPTIONS"
  <2> DEFINE s == [service[c] EXCEPT !.at = "send"]
  <2>1. Becomes(c, s)
    BY <1>4 DEF Dispatch
  <2>2. s.at = "send" /\ s.request = q /\ s.code = None /\ s.buffer = "none"
    BY <1>1 DEF Service
  <2> HIDE DEF s
  <2>3. Response(s) \in AnswersTo(q)
    BY <1>4, <2>2 DEF Response, AnswersTo
  <2>4. Fits(s)
    BY <1>1, <2>2, <2>3 DEF Fits
  <2> QED
    BY <1>1, <2>1, <2>2, <2>4, GoesOn DEF InHandler
<1>5. CASE StatusOf(q) = 0 /\ q.method \notin {"PUT", "OPTIONS"}
  <2> DEFINE s == [service[c] EXCEPT !.at = "exists"]
  <2>1. Becomes(c, s)
    BY <1>5 DEF Dispatch
  <2>2. s.at = "exists" /\ s.request = q /\ s.code = None /\ s.buffer = "none"
    BY <1>1 DEF Service
  <2> HIDE DEF s
  <2>3. Fits(s)
    BY <1>1, <1>5, <2>2 DEF Fits, Accepted
  <2> QED
    BY <1>1, <2>1, <2>2, <2>3, GoesOn DEF InHandler
<1> QED
  BY <1>2, <1>3, <1>4, <1>5

LEMMA ExistsMoves ==
    ASSUME TypeOK, AllFit, NEW c \in Conns, Exists(c)
    PROVE  UNCHANGED service \/ OneMoves(c)
<1> DEFINE found == [service[c] EXCEPT !.at = "open"]
           missing == [service[c] EXCEPT !.at = "send", !.code = 404]
<1>1. /\ service[c] \in Service /\ service[c].at = "exists" /\ Accepted(service[c])
      /\ service[c].code = None /\ service[c].buffer = "none"
  BY DEF Exists, Running, TypeOK, AllFit, Fits
<1>2. /\ found.at = "open" /\ found.request = service[c].request
      /\ found.code = None /\ found.buffer = "none"
  BY <1>1 DEF Service
<1>3. /\ missing.at = "send" /\ missing.request = service[c].request
      /\ missing.code = 404 /\ missing.buffer = "none"
  BY <1>1 DEF Service
<1>4. UNCHANGED service \/ Becomes(c, found) \/ Becomes(c, missing)
  BY DEF Exists, Terminates
<1> HIDE DEF found, missing
<1>5. Fits(found)
  BY <1>1, <1>2 DEF Fits, Accepted
<1>6. Response(missing) \in AnswersTo(service[c].request)
  BY <1>1, <1>3 DEF Response, AnswersTo, Accepted
<1>7. Fits(missing)
  BY <1>1, <1>3, <1>6 DEF Fits, Accepted
<1> QED
  BY <1>1, <1>2, <1>3, <1>4, <1>5, <1>7, GoesOn DEF InHandler

LEMMA OpenMoves ==
    ASSUME TypeOK, AllFit, NEW c \in Conns, OpenFile(c)
    PROVE  UNCHANGED service \/ OneMoves(c)
<1> DEFINE q == service[c].request
           sent == [service[c] EXCEPT !.at = "send",
                                      !.buffer = IF q.method = "GET" THEN "file" ELSE @]
           refused == [service[c] EXCEPT !.at = "left", !.code = 500]
<1>1. /\ service[c] \in Service /\ service[c].at = "open" /\ Accepted(service[c])
      /\ service[c].code = None /\ service[c].buffer = "none"
  BY DEF OpenFile, Running, TypeOK, AllFit, Fits
<1>2. q.method = "HEAD" \/ (q.method = "GET" /\ ~ IsScript(q))
  BY DEF OpenFile
<1>3. /\ sent.at = "send" /\ sent.request = q /\ sent.code = None
      /\ sent.buffer = IF q.method = "GET" THEN "file" ELSE "none"
  BY <1>1 DEF Service
<1>4. refused.at = "left" /\ refused.request = q
  BY <1>1 DEF Service
<1>5. Becomes(c, sent) \/ Becomes(c, refused) \/ UNCHANGED service
  BY DEF OpenFile, Terminates
<1> HIDE DEF sent, refused
<1>6. Response(sent) \in AnswersTo(q)
  BY <1>1, <1>2, <1>3 DEF Response, AnswersTo, Accepted
<1>7. Fits(sent) /\ Fits(refused)
  BY <1>1, <1>3, <1>4, <1>6 DEF Fits, Accepted
<1> QED
  BY <1>1, <1>3, <1>4, <1>5, <1>7, GoesOn DEF InHandler

LEMMA DeleteMoves ==
    ASSUME TypeOK, AllFit, NEW c \in Conns, DeleteFile(c)
    PROVE  OneMoves(c)
<1> DEFINE s == [service[c] EXCEPT !.at = "send"]
<1>1. /\ service[c] \in Service /\ service[c].at = "open" /\ Accepted(service[c])
      /\ service[c].code = None /\ service[c].buffer = "none"
      /\ service[c].request.method = "DELETE" /\ Becomes(c, s)
  BY DEF DeleteFile, Running, TypeOK, AllFit, Fits
<1>2. s.at = "send" /\ s.request = service[c].request /\ s.code = None /\ s.buffer = "none"
  BY <1>1 DEF Service
<1> HIDE DEF s
<1>3. Response(s) \in AnswersTo(s.request)
  BY <1>1, <1>2 DEF Response, AnswersTo, Accepted
<1>4. Fits(s)
  BY <1>1, <1>2, <1>3 DEF Fits, Accepted
<1> QED
  BY <1>1, <1>2, <1>4, GoesOn DEF InHandler

LEMMA PostNoScriptMoves ==
    ASSUME TypeOK, AllFit, NEW c \in Conns, PostNoScript(c)
    PROVE  OneMoves(c)
<1> DEFINE s == [service[c] EXCEPT !.at = "left"]
<1>1. /\ service[c] \in Service /\ service[c].at = "open"
      /\ service[c].request \in Requests /\ Becomes(c, s)
  BY DEF PostNoScript, Running, TypeOK, AllFit, Fits
<1>2. s.at = "left" /\ s.request = service[c].request
  BY <1>1 DEF Service
<1> HIDE DEF s
<1>3. Fits(s)
  BY <1>1, <1>2 DEF Fits
<1> QED
  BY <1>1, <1>2, <1>3, GoesOn DEF InHandler

\* A script that starts is noted by the ones it meets, which nobody sees.
LEMMA StartScriptMoves ==
    ASSUME TypeOK, AllFit, NEW c \in Conns, StartScript(c)
    PROVE  UNCHANGED service \/ OneMoves(c)
<1> DEFINE s == [service[c] EXCEPT !.at = "script", !.met = Others(c)]
<1>1. /\ service[c] \in Service /\ service[c].at = "open" /\ Accepted(service[c])
      /\ service[c].code = None /\ service[c].buffer = "none"
      /\ service[c].request.method \in {"GET", "POST"} /\ IsScript(service[c].request)
  BY DEF StartScript, Running, TypeOK, AllFit, Fits
<1>2. /\ s.at = "script" /\ s.request = service[c].request /\ s.code = None
      /\ s.buffer = "none"
  BY <1>1 DEF Service
<1>3. CASE service' = [d \in Conns |->
                         IF d = c THEN s
                         ELSE IF d \in Others(c) THEN [service[d] EXCEPT !.met = @ \cup {c}]
                         ELSE service[d]]
  <2>1. \A d \in Conns \ {c} : SameSeen(service[d], service'[d])
    BY <1>3 DEF TypeOK, Service, SameSeen
  <2>2. service'[c] = s
    BY <1>3
  <2> HIDE DEF s
  <2>3. Fits(s)
    BY <1>1, <1>2 DEF Fits, Accepted, AcceptedScript
  <2>4. Stays(service[c], s)
    BY <1>1, <1>2 DEF Stays, PhaseOf, AnswerOf, InHandler
  <2> QED
    BY <2>1, <2>2, <2>3, <2>4 DEF OneMoves, Moves
<1> QED
  BY <1>3 DEF StartScript, Terminates

LEMMA EndScriptMoves ==
    ASSUME TypeOK, AllFit, NEW c \in Conns, EndScript(c)
    PROVE  OneMoves(c)
<1> DEFINE written == output[OutputFile(service[c].request)]
           read == [service[c] EXCEPT !.at = "remove", !.code = 200,
                                      !.buffer = "output", !.writers = written]
           unread == [service[c] EXCEPT !.at = "remove", !.code = 500]
<1>1. /\ service[c] \in Service /\ service[c].at = "script" /\ AcceptedScript(service[c])
      /\ service[c].buffer = "none"
  BY DEF EndScript, Running, TypeOK, AllFit, Fits
<1>2. /\ read.at = "remove" /\ read.request = service[c].request
      /\ read.code = 200 /\ read.buffer = "output"
  BY <1>1 DEF Service
<1>3. /\ unread.at = "remove" /\ unread.request = service[c].request
      /\ unread.code = 500 /\ unread.buffer = "none"
  BY <1>1 DEF Service
<1>4. Becomes(c, read) \/ Becomes(c, unread)
  BY DEF EndScript
<1> HIDE DEF read, unread
<1>5. Fits(read) /\ Fits(unread)
  BY <1>1, <1>2, <1>3 DEF Fits, Accepted, AcceptedScript
<1> QED
  BY <1>1, <1>2, <1>3, <1>4, <1>5, GoesOn DEF InHandler

LEMMA RemoveMoves ==
    ASSUME TypeOK, AllFit, NEW c \in Conns, RemoveOutput(c)
    PROVE  OneMoves(c)
<1> DEFINE s == [service[c] EXCEPT !.at = "send"]
<1>1. /\ service[c] \in Service /\ service[c].at = "remove" /\ AcceptedScript(service[c])
      /\ \/ service[c].code = 200 /\ service[c].buffer = "output"
         \/ service[c].code = 500 /\ service[c].buffer = "none"
      /\ Becomes(c, s)
  BY DEF RemoveOutput, Running, TypeOK, AllFit, Fits
<1>2. /\ s.at = "send" /\ s.request = service[c].request
      /\ s.code = service[c].code /\ s.buffer = service[c].buffer
  BY <1>1 DEF Service
<1> HIDE DEF s
<1>3. Response(s) \in AnswersTo(s.request)
  BY <1>1, <1>2 DEF Response, AnswersTo, Accepted, AcceptedScript
<1>4. Fits(s)
  BY <1>1, <1>2, <1>3 DEF Fits, Accepted, AcceptedScript
<1> QED
  BY <1>1, <1>2, <1>4, GoesOn DEF InHandler

-----------------------------------------------------------------------------
\* Every step moves one exchange, or none.
LEMMA NextMoves ==
    ASSUME TypeOK, AllFit, [Next]_vars
    PROVE  UNCHANGED service \/ \E c \in Conns : OneMoves(c)
<1>1. CASE MainThread \/ AcceptError \/ UNCHANGED vars
  BY <1>1 DEF MainThread, StopAcceptor, StopIOService, Join, AcceptError, vars
<1>2. ASSUME NEW c \in Conns, Accept(c) \/ ReadRequest(c) \/ Handler(c) \/ EndWrite(c)
      PROVE  UNCHANGED service \/ OneMoves(c)
  BY <1>2, AcceptMoves, ReadMoves, WriteMoves, SendMoves, DispatchMoves, ExistsMoves,
     OpenMoves, DeleteMoves, PostNoScriptMoves, StartScriptMoves, EndScriptMoves,
     RemoveMoves DEF Handler
<1> QED
  BY <1>1, <1>2 DEF Next

\* What the services look like is kept.
LEMMA AllFitNext ==
    ASSUME TypeOK, AllFit, [Next]_vars
    PROVE  AllFit'
<1>1. CASE UNCHANGED service
  BY <1>1 DEF AllFit
<1>2. ASSUME NEW c \in Conns, OneMoves(c) PROVE AllFit'
  <2> SUFFICES ASSUME NEW d \in Conns PROVE Fits(service'[d])
    BY DEF AllFit
  <2>1. CASE d = c
    BY <1>2, <2>1 DEF OneMoves
  <2>2. CASE d # c
    <3>1. SameSeen(service[d], service'[d]) /\ Fits(service[d])
      BY <1>2, <2>2 DEF OneMoves, AllFit
    <3>2. Response(service'[d]) = Response(service[d])
      BY <3>1 DEF SameSeen, Response
    <3> QED
      BY <3>1, <3>2 DEF SameSeen, Fits, Accepted, AcceptedScript
  <2> QED
    BY <2>1, <2>2
<1> QED
  BY <1>1, <1>2, NextMoves

\* An answer is ready, or was given, only where it belongs to the request.
THEOREM AllFitInvariance == Spec => [](TypeOK /\ AllFit)
<1>1. Init => AllFit
  <2> SUFFICES ASSUME Init, NEW c \in Conns PROVE Fits(service[c])
    BY DEF AllFit
  <2> QED
    BY DEF Init, NoService, Fits
<1>2. AllFit /\ TypeOK /\ [Next]_vars => AllFit'
  BY AllFitNext
<1> QED
  BY <1>1, <1>2, TypeCorrect, PTL DEF Spec

-----------------------------------------------------------------------------
(***************************************************************************)
(* The exchange.                                                           *)
(***************************************************************************)
phases    == [c \in Conns |-> PhaseOf(service[c])]
questions == [c \in Conns |-> service[c].request]
answers   == [c \in Conns |-> AnswerOf(service[c])]

\* A service that looks the same is in the same state of its exchange.
LEMMA SameExchange ==
    ASSUME NEW t, NEW s, SameSeen(t, s)
    PROVE  PhaseOf(s) = PhaseOf(t) /\ s.request = t.request /\ AnswerOf(s) = AnswerOf(t)
BY DEF SameSeen, PhaseOf, AnswerOf

\* A move of one service is a step of HttpExchange, or none.
LEMMA MoveStep ==
    ASSUME NEW c \in Conns, OneMoves(c)
    PROVE  [Exchange!Next]_(Exchange!vars)
<1> DEFINE t == service[c]
           s == service'[c]
<1>1. /\ phases = [d \in Conns |-> PhaseOf(service[d])]
      /\ questions = [d \in Conns |-> service[d].request]
      /\ answers = [d \in Conns |-> AnswerOf(service[d])]
      /\ phases' = [d \in Conns |-> PhaseOf(service'[d])]
      /\ questions' = [d \in Conns |-> service'[d].request]
      /\ answers' = [d \in Conns |-> AnswerOf(service'[d])]
  BY DEF phases, questions, answers
<1>2. \A d \in Conns \ {c} :
        /\ PhaseOf(service'[d]) = PhaseOf(service[d])
        /\ service'[d].request = service[d].request
        /\ AnswerOf(service'[d]) = AnswerOf(service[d])
  BY SameExchange DEF OneMoves
<1>3. /\ phases' = [phases EXCEPT ![c] = PhaseOf(s)]
      /\ questions' = [questions EXCEPT ![c] = s.request]
      /\ answers' = [answers EXCEPT ![c] = AnswerOf(s)]
  BY <1>1, <1>2
<1>4. phases[c] = PhaseOf(t) /\ questions[c] = t.request /\ answers[c] = AnswerOf(t)
  BY <1>1
<1>5. /\ s.request = t.request => questions' = questions
      /\ AnswerOf(s) = AnswerOf(t) => answers' = answers
      /\ PhaseOf(s) = PhaseOf(t) => phases' = phases
  BY <1>1, <1>2
<1>6. Moves(t, s)
  BY DEF OneMoves
<1> HIDE DEF t, s
<1>7. CASE Stays(t, s)
  BY <1>5, <1>7 DEF Stays, Exchange!vars, phases, questions, answers
<1>8. CASE Connects(t, s)
  <2>1. phases[c] = "idle" /\ phases' = [phases EXCEPT ![c] = "connected"]
        /\ UNCHANGED <<questions, answers>>
    BY <1>3, <1>4, <1>5, <1>8 DEF Connects
  <2>2. Exchange!Connect(c)
    BY <2>1 DEF Exchange!Connect, phases, questions, answers
  <2> QED
    BY <2>2 DEF Exchange!Next
<1>9. CASE Asks(t, s)
  <2>1. PICK q \in Requests : q = s.request
    BY <1>9 DEF Asks
  <2>2. phases[c] = "connected" /\ phases' = [phases EXCEPT ![c] = "asked"]
        /\ questions' = [questions EXCEPT ![c] = q] /\ UNCHANGED answers
    BY <1>3, <1>4, <1>5, <1>9, <2>1 DEF Asks
  <2>3. Exchange!Ask(c, q)
    BY <2>2 DEF Exchange!Ask, phases, questions, answers
  <2> QED
    BY <2>3 DEF Exchange!Next
<1>10. CASE GetsAnswer(t, s)
  <2>1. phases[c] = "asked" /\ phases' = [phases EXCEPT ![c] = "answered"]
        /\ questions' = questions
    BY <1>3, <1>4, <1>5, <1>10 DEF GetsAnswer
  <2>2. AnswerOf(s) \in [q \in Requests |-> AnswersTo(q)][questions[c]]
    BY <1>4, <1>10 DEF GetsAnswer
  <2>3. Exchange!Answer(c)
    BY <1>3, <2>1, <2>2 DEF Exchange!Answer, phases, questions, answers
  <2> QED
    BY <2>3 DEF Exchange!Next
<1>11. CASE Ends(s)
  <2>1. /\ phases' = [d \in Conns |-> IF d \in {c} THEN "idle" ELSE phases[d]]
        /\ questions' = [d \in Conns |-> IF d \in {c} THEN None ELSE questions[d]]
        /\ answers' = [d \in Conns |-> IF d \in {c} THEN None ELSE answers[d]]
    BY <1>1, <1>2, <1>11 DEF Ends, s
  <2>2. Exchange!Forget({c})
    BY <2>1 DEF Exchange!Forget, phases, questions, answers
  <2> QED
    BY <2>2 DEF Exchange!Next
<1> QED
  BY <1>6, <1>7, <1>8, <1>9, <1>10, <1>11 DEF Moves

\* Every behaviour of the thread-pool server is one of HttpExchange: however
\* its handlers mix, a request is answered at most once, with the kind of
\* body that belongs to it, and with its status if the code sets one.
THEOREM Refinement == Spec => ImplementsExchange
<1>1. Init => Exchange!Init
  BY DEF Init, Exchange!Init, NoService, PhaseOf, AnswerOf, InHandler
<1>2. TypeOK /\ AllFit /\ [Next]_vars => [Exchange!Next]_(Exchange!vars)
  <2> SUFFICES ASSUME TypeOK, AllFit, [Next]_vars PROVE [Exchange!Next]_(Exchange!vars)
    OBVIOUS
  <2>1. CASE UNCHANGED service
    BY <2>1 DEF Exchange!vars
  <2> QED
    BY <2>1, NextMoves, MoveStep
<1> QED
  BY <1>1, <1>2, AllFitInvariance, PTL DEF Spec, ImplementsExchange, Exchange!Spec
=============================================================================
