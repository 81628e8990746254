-------------------------- MODULE HttpServer_proofs --------------------------
(***************************************************************************)
(* Proofs about HttpServer, for any set of connection objects, requests    *)
(* and script outputs and any number of restarts.                          *)
(***************************************************************************)
EXTENDS HttpServer, TLAPS, SequenceTheorems, WellFoundedInduction, NaturalsInduction

(***************************************************************************)
(* The inductive invariant.  TypeOK and the three invariants of HttpServer *)
(* are not inductive: what happens to a connection depends on how its      *)
(* socket, its operations and its timer go together (Coupled), the thread  *)
(* only ever waits for a connection whose read handler is the one running  *)
(* (ScriptOwner), and a file cgi.sh that no running request has written    *)
(* can only be the work of a killed process (CgiFile).                     *)
(***************************************************************************)
Coupled(k) ==
    /\ k.sock = "none" => k = NoConnection
    /\ k.sock = "open" => k.tm \in {"pending", "expired"}
    /\ k.sock = "shut" => k.rd = "none" /\ k.wr = "none"
    /\ k.sock = "closed" => k.tm = "none"
    /\ k.sock # "open" => k.rd # "pending" /\ k.wr # "pending"
    /\ k.rd # "none" => k.wr = "none" /\ k.resp = None
    /\ k.rd = "ok" => k.req # None
    /\ k.rd = "pending" => k.req = None
    /\ k.wr # "none" => k.resp # None
    /\ k.wr = "pending" => ~ k.sent
    /\ k.resp # None => /\ k.req # None
                        /\ k.resp.status = IF k.req.method = "other" THEN 400 ELSE 200
    /\ k.sent => k.resp # None

ScriptOwner ==
    running # None => /\ conn[running].rd = "ok"
                      /\ NeedsScript(conn[running].req)

CgiFile ==
    /\ cgi_sh # "absent" /\ running = None => faults > 0
    /\ cgi_sh # "absent" /\ running # None /\ conn[running].req.target # "php" => faults > 0
    /\ NoForeignScript

IInv ==
    /\ TypeOK
    /\ \A c \in Conns : Coupled(conn[c])
    /\ ScriptOwner
    /\ CgiFile

-----------------------------------------------------------------------------
(***************************************************************************)
(* The bodies of responses are sequences of tokens.                        *)
(***************************************************************************)

\* replace keeps the text a text: what it cuts out lies between two pieces
\* of the original.
LEMMA ReplaceFirstType ==
    ASSUME NEW str \in Seq(Token), NEW from \in Token, NEW to \in Seq(Token)
    PROVE  ReplaceFirst(str, from, to) \in Seq(Token)
<1> DEFINE occurrences == {i \in DOMAIN str : str[i] = from}
           start_pos   == CHOOSE i \in occurrences : \A j \in occurrences : i <= j
<1>1. DOMAIN str = 1 .. Len(str) /\ Len(str) \in Nat
  BY LenProperties
<1>2. CASE occurrences = {}
  BY <1>2, Zenon DEF ReplaceFirst
<1>3. CASE occurrences # {}
  <2>1. occurrences \in SUBSET Nat
    BY <1>1
  <2>2. \E i \in occurrences : \A j \in occurrences : i <= j
    <3> DEFINE less == {p \in Nat \X Nat : p[1] < p[2]}
    <3>1. IsWellFoundedOn(less, Nat)
      BY NatLessThanWellFounded, Zenon DEF OpToRel
    <3>2. \E i \in occurrences : \A j \in occurrences : <<j, i>> \notin less
      <4> HIDE DEF less, occurrences
      <4> QED
        BY <1>3, <2>1, <3>1, WFMin, Zenon
    <3>3. \A i, j \in Nat : j < i => <<j, i>> \in less
      OBVIOUS
    <3> HIDE DEF less, occurrences
    <3>4. PICK i \in occurrences : \A j \in occurrences : <<j, i>> \notin less
      BY <3>2
    <3>5. \A j \in occurrences : i \in Nat /\ j \in Nat /\ ~ (j < i)
      BY <2>1, <3>3, <3>4
    <3> QED
      BY <3>4, <3>5
  <2>3. start_pos \in occurrences
    BY <2>2
  <2>4. start_pos \in 1 .. Len(str)
    BY <1>1, <2>3
  <2>5. SubSeq(str, 1, start_pos - 1) \in Seq(Token)
    <3>1. \A i \in 1 .. start_pos - 1 : str[i] \in Token
      BY <1>1, <2>4
    <3> QED
      BY <1>1, <2>4, <3>1, SubSeqProperties
  <2>6. SubSeq(str, start_pos + 1, Len(str)) \in Seq(Token)
    <3>1. \A i \in start_pos + 1 .. Len(str) : str[i] \in Token
      BY <1>1, <2>4
    <3> QED
      BY <1>1, <2>4, <3>1, SubSeqProperties
  <2>7. ReplaceFirst(str, from, to)
          = SubSeq(str, 1, start_pos - 1) \o to \o SubSeq(str, start_pos + 1, Len(str))
    BY <1>3, Zenon DEF ReplaceFirst
  <2> HIDE DEF start_pos
  <2> QED
    BY <2>5, <2>6, <2>7, ConcatProperties
<1> QED
  BY <1>2, <1>3

\* What a command writes is a text, also when popen failed.
LEMMA WrittenType == GetStdoutFromCommand \subseteq Seq(ScriptToken)
<1>1. <<>> \in Seq(ScriptToken)
  BY EmptySeq
<1> QED
  BY <1>1, HttpAssumption DEF GetStdoutFromCommand

\* The page made of any output is a text.
LEMMA ScriptBodyType ==
    ASSUME NEW output \in Seq(ScriptToken)
    PROVE  ScriptBody(output) \in Seq(Token)
<1>1. output \in Seq(Token)
  BY SeqMonotonic DEF Token
<1>2. <<"open">> \o output \in Seq(Token)
  BY <1>1, ConcatProperties DEF Token
<1>3. ReplaceFirst(<<"open">> \o output, "html", <<"close", "html">>) \in Seq(Token)
  <2>1. <<"close", "html">> \in Seq(Token) /\ "html" \in Token
    BY DEF Token, ScriptToken
  <2> QED
    BY <1>2, <2>1, ReplaceFirstType
<1>4. Notice \in Seq(Token)
  BY DEF Notice, Token, FixedBody
<1> QED
  BY <1>3, <1>4 DEF ScriptBody

-----------------------------------------------------------------------------
(***************************************************************************)
(* Facts about one connection.                                             *)
(***************************************************************************)

\* A text of one token is a text.
LEMMA OneToken == ASSUME NEW S, NEW t \in S PROVE <<t>> \in Seq(S)
  OBVIOUS

\* The responses that need no script have the status of their method.
LEMMA DirectResponsesType ==
    ASSUME NEW q \in Requests, NEW r \in DirectResponses(q)
    PROVE  /\ r \in Response
           /\ r.status = IF q.method = "other" THEN 400 ELSE 200
<1>1. \A s \in Seq(Token) : [status |-> 400, body |-> s] \in Response
  BY DEF Response
<1>2. \A t \in Token : <<t>> \in Seq(Token)
  BY OneToken
<1>3. CASE q.method = "other"
  <2>1. r = [status |-> 400, body |-> <<"invalid method">>]
    BY <1>3, Zenon DEF DirectResponses
  <2>2. <<"invalid method">> \in Seq(Token)
    BY <1>2 DEF Token, FixedBody
  <2>3. r \in Response
    BY <1>1, <2>1, <2>2
  <2>4. r.status = 400
    BY <2>1
  <2> QED
    BY <1>3, <2>3, <2>4
<1>4. CASE q.method # "other"
  <2>1. r \in {Ok(<<"time">>), Ok(<<>>), Ok(<<"unsupported">>), Ok(<<"content">>), Ok(Notice)}
    BY <1>4, Zenon DEF DirectResponses, FileResponses
  <2>2. /\ <<"time">> \in Seq(Token) /\ <<"unsupported">> \in Seq(Token)
        /\ <<"content">> \in Seq(Token) /\ Notice \in Seq(Token)
    BY <1>2 DEF Token, FixedBody, Notice
  <2>3. <<>> \in Seq(Token)
    OBVIOUS
  <2>4. r \in Response /\ r.status = 200
    <3>1. PICK s \in Seq(Token) : r = Ok(s)
      BY <2>1, <2>2, <2>3, Zenon
    <3>2. r = [status |-> 200, body |-> s]
      BY <3>1 DEF Ok
    <3> QED
      BY <3>2 DEF Response
  <2> QED
    BY <1>4, <2>4
<1> QED
  BY <1>3, <1>4

\* Destroying the object with its last handler keeps the coupling.
LEMMA SettleCoupled ==
    ASSUME NEW k \in Connection, Coupled(k)
    PROVE  Settle(k) \in Connection /\ Coupled(Settle(k))
BY DEF Settle, Coupled, NoConnection, Connection, Operation

\* Issuing the response of a read handler keeps the coupling.
LEMMA WithResponseCoupled ==
    ASSUME NEW k \in Connection, Coupled(k), k.rd = "ok",
           NEW r \in Response,
           r.status = IF k.req.method = "other" THEN 400 ELSE 200
    PROVE  WithResponse(k, r) \in Connection /\ Coupled(WithResponse(k, r))
<1> DEFINE w == WithResponse(k, r)
<1>1. r # None
  BY HttpAssumption DEF Response
<1>2. k.sock \in {"open", "closed"}
  BY DEF Coupled, NoConnection, Connection
<1>3. /\ w.sock = k.sock /\ w.rd = "none" /\ w.tm = k.tm /\ w.late = k.late
      /\ w.req = k.req /\ w.resp = r /\ w.sent = k.sent
      /\ w.wr = IF k.sock = "closed" THEN "failed" ELSE "pending"
  BY DEF WithResponse, Connection
<1>4. w \in Connection
  BY DEF WithResponse, Connection, Operation
<1>5. ~ k.sent
  BY DEF Coupled
<1> HIDE DEF w
<1> QED
  BY <1>1, <1>2, <1>3, <1>4, <1>5 DEF Coupled, w

\* The other connections are not concerned by what happens to one.
LEMMA OneConnection ==
    ASSUME IInv, NEW c \in Conns, NEW k \in Connection, Coupled(k),
           conn' = [conn EXCEPT ![c] = k]
    PROVE  /\ conn' \in [Conns -> Connection]
           /\ \A d \in Conns : Coupled(conn'[d])
           /\ conn'[c] = k
           /\ \A d \in Conns \ {c} : conn'[d] = conn[d]
BY DEF IInv, TypeOK

-----------------------------------------------------------------------------
(***************************************************************************)
(* The invariant is inductive.                                             *)
(***************************************************************************)
LEMMA InitIInv == Init => IInv
BY HttpAssumption
   DEF Init, IInv, TypeOK, Coupled, ScriptOwner, CgiFile, NoForeignScript,
       NoConnection, Connection, Operation

\* Every handler, poll, script step and kill keeps the strengthening.
LEMMA NextIInv == IInv /\ [Next]_vars => IInv'
<1> SUFFICES ASSUME IInv, [Next]_vars PROVE IInv'
  OBVIOUS
<1>0. TypeOK /\ (\A d \in Conns : Coupled(conn[d])) /\ ScriptOwner /\ CgiFile
  BY DEF IInv
\* A step of a free thread that changes one connection and not cgi.sh.
<1>a. ASSUME NEW c \in Conns, NEW k \in Connection, Coupled(k), running = None,
             conn' = [conn EXCEPT ![c] = k],
             accept' \in {"pending", "ok", "failed"},
             UNCHANGED <<running, cgi_sh, faults>>
      PROVE  IInv'
  <2>1. conn' \in [Conns -> Connection] /\ \A d \in Conns : Coupled(conn'[d])
    BY <1>a, OneConnection
  <2>2. TypeOK'
    BY <1>0, <1>a, <2>1 DEF TypeOK
  <2>3. ScriptOwner'
    BY <1>a DEF ScriptOwner
  <2>4. CgiFile'
    BY <1>0, <1>a DEF CgiFile, NoForeignScript
  <2> QED
    BY <2>1, <2>2, <2>3, <2>4 DEF IInv
<1>1. CASE PollAccept \/ HandleAcceptError
  BY <1>0, <1>1
     DEF PollAccept, HandleAcceptError, IInv, TypeOK, ScriptOwner, CgiFile, NoForeignScript
<1>2. ASSUME NEW c \in Conns, HandleAccept(c) PROVE IInv'
  <2>1. Started \in Connection /\ Coupled(Started)
    BY DEF Started, Coupled, NoConnection, Connection, Operation
  <2> QED
    BY <1>a, <1>2, <2>1 DEF HandleAccept
<1>3. ASSUME NEW c \in Conns, PollRead(c) PROVE IInv'
  <2> DEFINE failed == [conn[c] EXCEPT !.rd = "failed"]
             ok(q) == [conn[c] EXCEPT !.rd = "ok", !.req = q]
  <2>1. conn[c] \in Connection /\ Coupled(conn[c]) /\ conn[c].rd = "pending"
    BY <1>0, <1>3 DEF PollRead, TypeOK
  <2>2. failed \in Connection /\ Coupled(failed)
    BY <2>1 DEF Coupled, NoConnection, Connection, Operation
  <2>3. ASSUME NEW q \in Requests PROVE ok(q) \in Connection /\ Coupled(ok(q))
    <3>1. q # None
      BY HttpAssumption
    <3> QED
      BY <2>1, <3>1 DEF Coupled, NoConnection, Connection, Operation
  <2>4. CASE conn' = [conn EXCEPT ![c] = failed]
    BY <1>0, <1>3, <1>a, <2>2, <2>4 DEF PollRead, TypeOK
  <2>5. ASSUME NEW q \in Requests, conn' = [conn EXCEPT ![c] = ok(q)] PROVE IInv'
    BY <1>0, <1>3, <1>a, <2>3, <2>5 DEF PollRead, TypeOK
  <2> QED
    BY <1>3, <2>4, <2>5 DEF PollRead
<1>4. ASSUME NEW c \in Conns, HandleReadError(c) PROVE IInv'
  <2> DEFINE k == [conn[c] EXCEPT !.rd = "none"]
  <2>1. k \in Connection /\ Coupled(k)
    BY <1>0, <1>4 DEF HandleReadError, TypeOK, Coupled, NoConnection, Connection, Operation
  <2>2. conn' = [conn EXCEPT ![c] = Settle(k)]
    BY <1>4 DEF HandleReadError
  <2> HIDE DEF k
  <2> QED
    BY <1>0, <1>4, <1>a, <2>1, <2>2, SettleCoupled DEF HandleReadError, TypeOK
<1>5. ASSUME NEW c \in Conns, HandleRead(c) PROVE IInv'
  <2>1. conn[c] \in Connection /\ Coupled(conn[c]) /\ conn[c].rd = "ok"
    BY <1>0, <1>5 DEF HandleRead, TypeOK
  <2>2. conn[c].req \in Requests
    BY <2>1 DEF Coupled, Connection
  <2>3. PICK r \in DirectResponses(conn[c].req) :
           conn' = [conn EXCEPT ![c] = WithResponse(conn[c], r)]
    BY <1>5 DEF HandleRead
  <2>4. WithResponse(conn[c], r) \in Connection /\ Coupled(WithResponse(conn[c], r))
    BY <2>1, <2>2, DirectResponsesType, WithResponseCoupled
  <2> QED
    BY <1>0, <1>5, <1>a, <2>3, <2>4 DEF HandleRead, TypeOK
<1>6. ASSUME NEW c \in Conns, StartScript(c) PROVE IInv'
  <2>1. TypeOK'
    BY <1>0, <1>6 DEF StartScript, GenCgiScript, TypeOK
  <2>2. ScriptOwner'
    BY <1>6 DEF StartScript, ScriptOwner
  <2>3. CgiFile'
    BY <1>0, <1>6, HttpAssumption DEF StartScript, GenCgiScript, CgiFile, NoForeignScript
  <2> QED
    BY <1>0, <1>6, <2>1, <2>2, <2>3 DEF IInv, StartScript
<1>7. ASSUME NEW c \in Conns, EndScript(c) PROVE IInv'
  <2>1. running = c /\ running' = None /\ accept' = accept
    BY <1>7 DEF EndScript
  <2>2. conn[c] \in Connection /\ Coupled(conn[c]) /\ conn[c].rd = "ok"
        /\ NeedsScript(conn[c].req)
    BY <1>0, <2>1, HttpAssumption DEF TypeOK, ScriptOwner
  <2>3. PICK output \in GetStdoutFromCommand :
           conn' = [conn EXCEPT ![c] = WithResponse(conn[c], Ok(ScriptBody(output)))]
    BY <1>7 DEF EndScript
  <2> DEFINE r == Ok(ScriptBody(output))
  <2>4. r \in Response /\ r.status = 200
    <3>1. ScriptBody(output) \in Seq(Token)
      BY WrittenType, ScriptBodyType
    <3> QED
      BY <3>1 DEF Ok, Response
  <2>5. conn[c].req.method # "other"
    BY <2>2 DEF NeedsScript
  <2>6. WithResponse(conn[c], r) \in Connection /\ Coupled(WithResponse(conn[c], r))
    <3> HIDE DEF r
    <3> QED
      BY <2>2, <2>4, <2>5, WithResponseCoupled
  <2>7. conn' \in [Conns -> Connection] /\ \A d \in Conns : Coupled(conn'[d])
    BY <2>3, <2>6, OneConnection
  <2>8. TypeOK'
    BY <1>0, <1>7, <2>1, <2>7, HttpAssumption DEF EndScript, RemoveScript, TypeOK
  <2>9. ScriptOwner'
    BY <2>1 DEF ScriptOwner
  <2>10. CgiFile'
    BY <1>0, <1>7, <2>1, HttpAssumption
       DEF EndScript, RemoveScript, TypeOK, CgiFile, NoForeignScript
  <2> QED
    BY <2>7, <2>8, <2>9, <2>10 DEF IInv
<1>8. ASSUME NEW c \in Conns, PollWrite(c) PROVE IInv'
  <2> DEFINE failed == [conn[c] EXCEPT !.wr = "failed"]
             ok == [conn[c] EXCEPT !.wr = "ok", !.sent = TRUE]
  <2>1. conn[c] \in Connection /\ Coupled(conn[c]) /\ conn[c].wr = "pending"
    BY <1>0, <1>8 DEF PollWrite, TypeOK
  <2>2. conn[c].sock = "open" /\ conn[c].rd = "none"
    BY <2>1 DEF Coupled
  <2>3. failed \in Connection /\ ok \in Connection
    BY <2>1 DEF Connection, Operation
  <2>4. Coupled(failed)
    BY <2>1, <2>2, <2>3 DEF Coupled, Connection
  <2>5. Coupled(ok)
    BY <2>1, <2>2, <2>3 DEF Coupled, Connection
  <2>6. conn' = [conn EXCEPT ![c] = failed] \/ conn' = [conn EXCEPT ![c] = ok]
    BY <1>8 DEF PollWrite
  <2> HIDE DEF failed, ok
  <2> QED
    BY <1>0, <1>8, <1>a, <2>3, <2>4, <2>5, <2>6 DEF PollWrite, TypeOK
<1>9. ASSUME NEW c \in Conns, HandleWrite(c) PROVE IInv'
  <2> DEFINE k == Finished(conn[c])
  <2>1. k \in Connection /\ Coupled(k)
    <3>1. conn[c] \in Connection /\ Coupled(conn[c]) /\ conn[c].wr \in {"ok", "failed"}
      BY <1>0, <1>9 DEF HandleWrite, TypeOK
    <3>2. conn[c].rd = "none" /\ conn[c].sock \in {"open", "closed"}
      BY <3>1 DEF Coupled, NoConnection, Connection
    <3>3. k \in Connection
      BY <3>1 DEF Finished, Connection, Operation
    <3>4. /\ k.wr = "none" /\ k.rd = "none" /\ k.sent = conn[c].sent
          /\ k.req = conn[c].req /\ k.resp = conn[c].resp
      BY <3>1, <3>2 DEF Finished, Connection
    <3>5. k.sock = IF conn[c].sock = "closed" THEN "closed" ELSE "shut"
      BY <3>1 DEF Finished, Connection
    <3>6. k.tm = IF conn[c].tm = "pending" THEN "cancelled" ELSE conn[c].tm
      BY <3>1 DEF Finished, Connection
    <3> HIDE DEF k
    <3> QED
      BY <3>1, <3>2, <3>3, <3>4, <3>5, <3>6 DEF Coupled
  <2>2. conn' = [conn EXCEPT ![c] = Settle(k)]
    BY <1>9 DEF HandleWrite
  <2> HIDE DEF k
  <2> QED
    BY <1>0, <1>9, <1>a, <2>1, <2>2, SettleCoupled DEF HandleWrite, TypeOK
<1>10. ASSUME NEW c \in Conns, Expire(c) PROVE IInv'
  <2> DEFINE k == [conn[c] EXCEPT !.late = TRUE]
  <2>1. k \in Connection /\ Coupled(k) /\ k.rd = conn[c].rd /\ k.req = conn[c].req
    <3>1. conn[c] \in Connection /\ Coupled(conn[c]) /\ conn[c].sock # "none"
      BY <1>0, <1>10 DEF Expire, TypeOK
    <3>2. k \in Connection
      BY <3>1 DEF Connection
    <3>3. /\ k.sock = conn[c].sock /\ k.rd = conn[c].rd /\ k.wr = conn[c].wr
          /\ k.tm = conn[c].tm /\ k.req = conn[c].req /\ k.resp = conn[c].resp
          /\ k.sent = conn[c].sent
      BY <3>1 DEF Connection
    <3> HIDE DEF k
    <3> QED
      BY <3>1, <3>2, <3>3 DEF Coupled
  <2>2. conn' = [conn EXCEPT ![c] = k]
    BY <1>10 DEF Expire
  <2> HIDE DEF k
  <2>3. /\ conn' \in [Conns -> Connection] /\ \A d \in Conns : Coupled(conn'[d])
        /\ \A d \in Conns : conn'[d].rd = conn[d].rd /\ conn'[d].req = conn[d].req
    BY <2>1, <2>2, OneConnection
  <2>4. TypeOK'
    BY <1>0, <1>10, <2>3 DEF Expire, TypeOK
  <2>5. ScriptOwner'
    BY <1>0, <1>10, <2>3 DEF Expire, TypeOK, ScriptOwner
  <2>6. CgiFile'
    BY <1>0, <1>10, <2>3 DEF Expire, TypeOK, CgiFile, NoForeignScript
  <2> QED
    BY <2>3, <2>4, <2>5, <2>6 DEF IInv
<1>11. ASSUME NEW c \in Conns, PollTimer(c) PROVE IInv'
  <2> DEFINE k == [conn[c] EXCEPT !.tm = "expired"]
  <2>1. k \in Connection /\ Coupled(k)
    BY <1>0, <1>11 DEF PollTimer, TypeOK, Coupled, NoConnection, Connection, Operation
  <2>2. conn' = [conn EXCEPT ![c] = k]
    BY <1>11 DEF PollTimer
  <2> HIDE DEF k
  <2> QED
    BY <1>0, <1>11, <1>a, <2>1, <2>2 DEF PollTimer, TypeOK
<1>12. ASSUME NEW c \in Conns, HandleDeadline(c) PROVE IInv'
  <2> DEFINE k == [(IF conn[c].tm = "expired" THEN Closed(conn[c]) ELSE conn[c])
                     EXCEPT !.tm = "none"]
  <2>1. conn[c] \in Connection /\ Coupled(conn[c]) /\ conn[c].tm \in {"expired", "cancelled"}
    BY <1>0, <1>12 DEF HandleDeadline, TypeOK
  <2>2. k \in Connection /\ Coupled(k)
    <3>1. CASE conn[c].tm = "expired"
      <4>1. k = [Closed(conn[c]) EXCEPT !.tm = "none"]
        BY <3>1
      <4>2. k \in Connection
        BY <2>1, <4>1 DEF Closed, Connection, Operation
      <4>3. /\ k.sock = "closed" /\ k.tm = "none" /\ k.sent = conn[c].sent
            /\ k.req = conn[c].req /\ k.resp = conn[c].resp
        BY <2>1, <4>1 DEF Closed, Connection
      <4>4. /\ k.rd = IF conn[c].rd = "pending" THEN "failed" ELSE conn[c].rd
            /\ k.wr = IF conn[c].wr = "pending" THEN "failed" ELSE conn[c].wr
        BY <2>1, <4>1 DEF Closed, Connection
      <4> HIDE DEF k
      <4> QED
        BY <2>1, <4>2, <4>3, <4>4 DEF Coupled
    <3>2. CASE conn[c].tm = "cancelled"
      BY <2>1, <3>2 DEF Coupled, NoConnection, Connection, Operation
    <3> QED
      BY <2>1, <3>1, <3>2
  <2>3. conn' = [conn EXCEPT ![c] = Settle(k)]
    BY <1>12 DEF HandleDeadline
  <2> HIDE DEF k
  <2> QED
    BY <1>0, <1>12, <1>a, <2>2, <2>3, SettleCoupled DEF HandleDeadline, TypeOK
<1>13. CASE Kill
  <2>1. conn' \in [Conns -> Connection] /\ \A d \in Conns : Coupled(conn'[d])
    BY <1>13 DEF Kill, Coupled, NoConnection, Connection, Operation
  <2>2. running' = None /\ faults' = faults + 1 /\ faults' > 0 /\ faults' \in 0 .. MaxFaults
    BY <1>0, <1>13, HttpAssumption DEF Kill, TypeOK
  <2> QED
    BY <1>0, <1>13, <2>1, <2>2
       DEF Kill, IInv, TypeOK, ScriptOwner, CgiFile, NoForeignScript
<1>14. CASE UNCHANGED vars
  BY <1>0, <1>14 DEF vars, IInv, TypeOK, ScriptOwner, CgiFile, NoForeignScript
<1> QED
  BY <1>1, <1>2, <1>3, <1>4, <1>5, <1>6, <1>7, <1>8, <1>9, <1>10, <1>11, <1>12, <1>13, <1>14
     DEF Next

\* The strengthening holds in every reachable state.
THEOREM Invariance == Spec => []IInv
<1> QED
  BY InitIInv, NextIInv, PTL DEF Spec

-----------------------------------------------------------------------------
(***************************************************************************)
(* The properties of HttpServer.                                           *)
(***************************************************************************)

\* The state stays in its types: in particular the body of every response is
\* a sequence of tokens, whatever the scripts write.
THEOREM TypeCorrect == Spec => []TypeOK
<1>1. IInv => TypeOK
  BY DEF IInv
<1> QED
  BY <1>1, Invariance, PTL

\* No open socket is ever without a deadline ahead of it.
THEOREM DeadlineAlwaysArmed == Spec => []DeadlineArmed
<1>1. IInv => DeadlineArmed
  BY DEF IInv, Coupled, DeadlineArmed
<1> QED
  BY <1>1, Invariance, PTL

\* No operation stays outstanding on a closed or shut down socket.
THEOREM NoPendingOperation == Spec => []NothingPendingOnDeadSocket
<1>1. IInv => NothingPendingOnDeadSocket
  BY DEF IInv, Coupled, NothingPendingOnDeadSocket
<1> QED
  BY <1>1, Invariance, PTL

\* A request never runs the cgi.sh of another one, unless a fault left it.
THEOREM OwnScriptOnly == Spec => []NoForeignScript
<1>1. IInv => NoForeignScript
  BY DEF IInv, CgiFile
<1> QED
  BY <1>1, Invariance, PTL

-----------------------------------------------------------------------------
(***************************************************************************)
(* What one step does to one connection, seen from the client: the object  *)
(* is destroyed or made, or its exchange stands still, or moves on in one  *)
(* of three ways.  A response that is there stays as it is.                *)
(***************************************************************************)
SameExchange(j, k) ==
    PhaseOf(k) = PhaseOf(j) /\ k.req = j.req /\ k.sent = j.sent

AsksOne(j, k) ==
    /\ PhaseOf(j) = "connected" /\ PhaseOf(k) = "asked"
    /\ k.req \in Requests /\ ~ j.sent /\ ~ k.sent

GetsAnswer(j, k) ==
    /\ PhaseOf(j) = "asked" /\ PhaseOf(k) = "answered"
    /\ k.req = j.req /\ j.req \in Requests /\ ~ j.sent /\ k.sent
    /\ k.resp.status = IF k.req.method = "other" THEN 400 ELSE 200

IsHungUp(j, k) ==
    /\ PhaseOf(j) \in {"connected", "asked"} /\ PhaseOf(k) = "hung up"
    /\ k.req = j.req /\ ~ j.sent /\ ~ k.sent

Moves(j, k) ==
    \/ k = NoConnection
    \/ j = NoConnection /\ k = Started
    \/ /\ j.resp # None => k.resp = j.resp
       /\ k.sent /\ j.sent => j.resp # None
       /\ \/ SameExchange(j, k)
          \/ AsksOne(j, k)
          \/ GetsAnswer(j, k)
          \/ IsHungUp(j, k)

\* When one connection changes, and its exchange makes one move or none, the
\* server as a whole makes a step of HttpExchange or none.
LEMMA OneMove ==
    ASSUME IInv, Next
    PROVE  \/ conn' = conn
           \/ conn' = [c \in Conns |-> NoConnection]
           \/ \E c \in Conns, k \in Connection :
                 conn' = [conn EXCEPT ![c] = k] /\ Moves(conn[c], k)
<1>0. \A c \in Conns : conn[c] \in Connection /\ Coupled(conn[c])
  BY DEF IInv, TypeOK
<1> DEFINE Goal == \E c \in Conns, k \in Connection :
                     conn' = [conn EXCEPT ![c] = k] /\ Moves(conn[c], k)
<1>1. CASE PollAccept \/ HandleAcceptError \/ \E c \in Conns : StartScript(c)
  BY <1>1 DEF PollAccept, HandleAcceptError, StartScript
<1>2. ASSUME NEW c \in Conns, HandleAccept(c) PROVE Goal
  <2>1. conn[c] = NoConnection
    BY <1>0, <1>2 DEF HandleAccept, Coupled
  <2>2. Started \in Connection
    BY DEF Started, NoConnection, Connection, Operation
  <2> QED
    BY <1>2, <2>1, <2>2 DEF HandleAccept, Moves
<1>3. ASSUME NEW c \in Conns, PollRead(c) PROVE Goal
  <2> DEFINE failed == [conn[c] EXCEPT !.rd = "failed"]
             ok(q) == [conn[c] EXCEPT !.rd = "ok", !.req = q]
  <2>1. conn[c] \in Connection /\ Coupled(conn[c]) /\ conn[c].rd = "pending"
    BY <1>0, <1>3 DEF PollRead
  <2>2. /\ conn[c].sock = "open" /\ conn[c].req = None /\ conn[c].resp = None
        /\ ~ conn[c].sent
    BY <2>1 DEF Coupled
  <2>3. failed \in Connection /\ SameExchange(conn[c], failed) /\ failed.resp = conn[c].resp
        /\ ~ failed.sent
    BY <2>1, <2>2 DEF Connection, Operation, SameExchange, PhaseOf
  <2>4. ASSUME NEW q \in Requests
        PROVE  ok(q) \in Connection /\ AsksOne(conn[c], ok(q)) /\ ok(q).resp = conn[c].resp
    <3>1. q # None
      BY HttpAssumption
    <3>2. ok(q) \in Connection
      BY <2>1 DEF Connection, Operation
    <3>3. /\ ok(q).sock = "open" /\ ok(q).req = q /\ ~ ok(q).sent
          /\ ok(q).resp = conn[c].resp
      BY <2>1, <2>2 DEF Connection
    <3> HIDE DEF ok
    <3> QED
      BY <2>2, <3>1, <3>2, <3>3 DEF AsksOne, PhaseOf
  <2>5. CASE conn' = [conn EXCEPT ![c] = failed]
    <3> HIDE DEF failed
    <3> QED
      BY <2>2, <2>3, <2>5 DEF Moves
  <2>6. ASSUME NEW q \in Requests, conn' = [conn EXCEPT ![c] = ok(q)] PROVE Goal
    <3>1. Moves(conn[c], ok(q))
      <4> HIDE DEF ok
      <4> QED
        BY <2>2, <2>4 DEF Moves
    <3> QED
      BY <2>4, <2>6, <3>1
  <2> QED
    BY <1>3, <2>5, <2>6 DEF PollRead
<1>4. ASSUME NEW c \in Conns, HandleReadError(c) PROVE Goal
  <2> DEFINE k == [conn[c] EXCEPT !.rd = "none"]
  <2>1. conn[c] \in Connection /\ Coupled(conn[c]) /\ conn[c].rd = "failed"
    BY <1>0, <1>4 DEF HandleReadError
  <2>2. /\ k \in Connection /\ k.resp = conn[c].resp /\ k.sent = conn[c].sent
        /\ SameExchange(conn[c], k)
    BY <2>1 DEF Connection, Operation, SameExchange, PhaseOf
  <2>3. conn' = [conn EXCEPT ![c] = Settle(k)]
    BY <1>4 DEF HandleReadError
  <2> HIDE DEF k
  <2>4. Settle(k) \in Connection /\ (Settle(k) = NoConnection \/ Settle(k) = k)
    BY <2>2 DEF Settle, NoConnection, Connection, Operation
  <2>5. Moves(conn[c], Settle(k))
    BY <2>1, <2>2, <2>4 DEF Moves, Coupled
  <2> QED
    BY <2>3, <2>4, <2>5
<1>5. ASSUME NEW c \in Conns, NEW r, WithResponse(conn[c], r) \in Connection,
             conn[c].rd = "ok", conn' = [conn EXCEPT ![c] = WithResponse(conn[c], r)]
      PROVE  Goal
  <2> DEFINE k == WithResponse(conn[c], r)
  <2>1. conn[c] \in Connection /\ conn[c].resp = None /\ ~ conn[c].sent
    BY <1>0, <1>5 DEF Coupled
  <2>2. SameExchange(conn[c], k)
    BY <2>1 DEF WithResponse, Connection, SameExchange, PhaseOf
  <2> HIDE DEF k
  <2>3. Moves(conn[c], k)
    BY <2>1, <2>2 DEF Moves
  <2> QED
    BY <1>5, <2>3 DEF k
<1>6. ASSUME NEW c \in Conns, HandleRead(c) PROVE Goal
  <2>1. conn[c].req \in Requests /\ conn[c].rd = "ok"
    BY <1>0, <1>6 DEF HandleRead, Coupled, Connection
  <2>2. PICK r \in DirectResponses(conn[c].req) :
           conn' = [conn EXCEPT ![c] = WithResponse(conn[c], r)]
    BY <1>6 DEF HandleRead
  <2>3. WithResponse(conn[c], r) \in Connection
    BY <1>0, <2>1, DirectResponsesType, WithResponseCoupled
  <2> QED
    BY <1>5, <2>1, <2>2, <2>3
<1>7. ASSUME NEW c \in Conns, EndScript(c) PROVE Goal
  <2>1. conn[c].rd = "ok"
    BY <1>7, HttpAssumption DEF EndScript, IInv, ScriptOwner
  <2>2. PICK output \in GetStdoutFromCommand :
           conn' = [conn EXCEPT ![c] = WithResponse(conn[c], Ok(ScriptBody(output)))]
    BY <1>7 DEF EndScript
  <2>3. WithResponse(conn[c], Ok(ScriptBody(output))) \in Connection
    <3>1. ScriptBody(output) \in Seq(Token)
      BY WrittenType, ScriptBodyType
    <3>2. Ok(ScriptBody(output)) \in Response
      BY <3>1 DEF Ok, Response
    <3> QED
      BY <1>0, <3>2 DEF WithResponse, Connection, Operation
  <2> QED
    BY <1>5, <2>1, <2>2, <2>3
<1>8. ASSUME NEW c \in Conns, PollWrite(c) PROVE Goal
  <2> DEFINE failed == [conn[c] EXCEPT !.wr = "failed"]
             ok == [conn[c] EXCEPT !.wr = "ok", !.sent = TRUE]
  <2>1. conn[c] \in Connection /\ Coupled(conn[c]) /\ conn[c].wr = "pending"
    BY <1>0, <1>8 DEF PollWrite
  <2>2. /\ conn[c].sock = "open" /\ ~ conn[c].sent /\ conn[c].resp # None
        /\ conn[c].req # None /\ conn[c].req \in Requests
        /\ conn[c].resp.status = IF conn[c].req.method = "other" THEN 400 ELSE 200
    BY <2>1 DEF Coupled, Connection
  <2>3. /\ failed \in Connection /\ failed.resp = conn[c].resp
        /\ SameExchange(conn[c], failed)
    BY <2>1 DEF Connection, Operation, SameExchange, PhaseOf
  <2>4. /\ ok \in Connection /\ ok.sock = "open" /\ ok.sent
        /\ ok.req = conn[c].req /\ ok.resp = conn[c].resp
    BY <2>1, <2>2 DEF Connection, Operation
  <2>5. conn' = [conn EXCEPT ![c] = failed] \/ conn' = [conn EXCEPT ![c] = ok]
    BY <1>8 DEF PollWrite
  <2> HIDE DEF failed, ok
  <2>6. PhaseOf(conn[c]) = "asked" /\ PhaseOf(ok) = "answered"
    BY <2>2, <2>4 DEF PhaseOf
  <2>7. GetsAnswer(conn[c], ok)
    BY <2>2, <2>4, <2>6 DEF GetsAnswer
  <2>8. Moves(conn[c], failed) /\ Moves(conn[c], ok)
    BY <2>2, <2>3, <2>4, <2>7 DEF Moves
  <2> QED
    BY <2>3, <2>4, <2>5, <2>8
<1>9. ASSUME NEW c \in Conns, HandleWrite(c) PROVE Goal
  <2> DEFINE k == Finished(conn[c])
  <2>1. conn[c] \in Connection /\ Coupled(conn[c]) /\ conn[c].wr \in {"ok", "failed"}
    BY <1>0, <1>9 DEF HandleWrite
  <2>2. /\ conn[c].sock \in {"open", "closed"} /\ conn[c].resp # None
        /\ conn[c].req # None
    BY <2>1 DEF Coupled, NoConnection, Connection
  <2>3. /\ k \in Connection /\ k.resp = conn[c].resp /\ k.sent = conn[c].sent
        /\ k.req = conn[c].req
        /\ k.sock = IF conn[c].sock = "closed" THEN "closed" ELSE "shut"
    BY <2>1 DEF Finished, Connection, Operation
  <2>4. conn' = [conn EXCEPT ![c] = Settle(k)]
    BY <1>9 DEF HandleWrite
  <2> HIDE DEF k
  <2>5. SameExchange(conn[c], k) \/ IsHungUp(conn[c], k)
    BY <2>1, <2>2, <2>3 DEF SameExchange, IsHungUp, PhaseOf, Connection
  <2>6. Settle(k) \in Connection /\ (Settle(k) = NoConnection \/ Settle(k) = k)
    BY <2>3 DEF Settle, NoConnection, Connection, Operation
  <2>7. Moves(conn[c], Settle(k))
    BY <2>2, <2>3, <2>5, <2>6 DEF Moves
  <2> QED
    BY <2>4, <2>6, <2>7
<1>10. ASSUME NEW c \in Conns, Expire(c) \/ PollTimer(c) PROVE Goal
  <2>1. PICK k : /\ k \in {[conn[c] EXCEPT !.late = TRUE], [conn[c] EXCEPT !.tm = "expired"]}
                 /\ conn' = [conn EXCEPT ![c] = k]
    BY <1>10 DEF Expire, PollTimer
  <2>2. conn[c] \in Connection /\ Coupled(conn[c])
    BY <1>0
  <2>3. /\ k \in Connection /\ k.resp = conn[c].resp /\ k.sent = conn[c].sent
        /\ SameExchange(conn[c], k)
    BY <2>1, <2>2 DEF Connection, SameExchange, PhaseOf
  <2>4. Moves(conn[c], k)
    BY <2>2, <2>3 DEF Moves, Coupled
  <2> QED
    BY <2>1, <2>3, <2>4
<1>11. ASSUME NEW c \in Conns, HandleDeadline(c) PROVE Goal
  <2> DEFINE k == [(IF conn[c].tm = "expired" THEN Closed(conn[c]) ELSE conn[c])
                     EXCEPT !.tm = "none"]
  <2>1. conn[c] \in Connection /\ Coupled(conn[c]) /\ conn[c].tm \in {"expired", "cancelled"}
    BY <1>0, <1>11 DEF HandleDeadline
  <2>2. conn' = [conn EXCEPT ![c] = Settle(k)]
    BY <1>11 DEF HandleDeadline
  <2>3. /\ k \in Connection /\ k.resp = conn[c].resp /\ k.sent = conn[c].sent
        /\ k.req = conn[c].req
        /\ k.sock = IF conn[c].tm = "expired" THEN "closed" ELSE conn[c].sock
    <3>1. CASE conn[c].tm = "expired"
      <4>1. k = [Closed(conn[c]) EXCEPT !.tm = "none"]
        BY <3>1
      <4> QED
        BY <2>1, <3>1, <4>1 DEF Closed, Connection, Operation
    <3>2. CASE conn[c].tm = "cancelled"
      <4>1. k = [conn[c] EXCEPT !.tm = "none"]
        BY <3>2
      <4> QED
        BY <2>1, <3>2, <4>1 DEF Connection
    <3> QED
      BY <2>1, <3>1, <3>2
  <2> HIDE DEF k
  <2>4. conn[c].sock # "none" /\ (conn[c].sent => conn[c].resp # None)
    BY <2>1 DEF Coupled, NoConnection
  <2>5. SameExchange(conn[c], k) \/ IsHungUp(conn[c], k)
    BY <2>1, <2>3, <2>4 DEF SameExchange, IsHungUp, PhaseOf, Connection
  <2>6. Settle(k) \in Connection /\ (Settle(k) = NoConnection \/ Settle(k) = k)
    BY <2>3 DEF Settle, NoConnection, Connection, Operation
  <2>7. Moves(conn[c], Settle(k))
    BY <2>3, <2>4, <2>5, <2>6 DEF Moves
  <2> QED
    BY <2>2, <2>6, <2>7
<1>12. CASE Kill
  BY <1>12 DEF Kill
<1> QED
  BY <1>1, <1>2, <1>3, <1>4, <1>6, <1>7, <1>8, <1>9, <1>10, <1>11, <1>12 DEF Next

-----------------------------------------------------------------------------
\* No response is changed between the write and the end of its object.
THEOREM ResponsesFrozen == Spec => ResponseFrozen
<1> DEFINE Frozen == \A c \in Conns : conn[c].resp # None =>
                       conn'[c].resp = conn[c].resp \/ conn'[c] = NoConnection
<1>1. IInv /\ [Next]_vars => [Frozen]_vars
  <2> SUFFICES ASSUME IInv, Next PROVE Frozen
    OBVIOUS
  <2>1. conn \in [Conns -> Connection] /\ NoConnection.resp = None
        /\ Started.resp = None
    BY DEF IInv, TypeOK, NoConnection, Started
  <2>2. CASE conn' = conn \/ conn' = [c \in Conns |-> NoConnection]
    BY <2>1, <2>2
  <2>3. ASSUME NEW c \in Conns, NEW k \in Connection,
               conn' = [conn EXCEPT ![c] = k], Moves(conn[c], k)
        PROVE  Frozen
    BY <2>1, <2>3 DEF Moves
  <2> QED
    BY <2>2, <2>3, OneMove
<1> QED
  BY <1>1, Invariance, PTL DEF Spec, ResponseFrozen

-----------------------------------------------------------------------------
(***************************************************************************)
(* The server implements HttpExchange.                                     *)
(***************************************************************************)
phases    == [c \in Conns |-> PhaseOf(conn[c])]
questions == [c \in Conns |-> conn[c].req]
answers   == [c \in Conns |-> IF conn[c].sent THEN conn[c].resp.status ELSE None]

\* Every step of the server is a step of HttpExchange, or none.
LEMMA ExchangeStep == IInv /\ [Next]_vars => [Exchange!Next]_(Exchange!vars)
<1> SUFFICES ASSUME IInv, [Next]_vars PROVE [Exchange!Next]_(Exchange!vars)
  OBVIOUS
<1>0. conn \in [Conns -> Connection]
  BY DEF IInv, TypeOK
<1>1. /\ PhaseOf(NoConnection) = "idle" /\ NoConnection.req = None /\ ~ NoConnection.sent
      /\ PhaseOf(Started) = "connected" /\ Started.req = None /\ ~ Started.sent
  BY DEF PhaseOf, Started, NoConnection
<1>2. CASE UNCHANGED conn
  BY <1>2 DEF Exchange!vars, phases, questions, answers
<1>3. CASE conn' = [c \in Conns |-> NoConnection]
  BY <1>0, <1>1, <1>3 DEF Exchange!Next, Exchange!Forget
<1>4. ASSUME NEW c \in Conns, NEW k \in Connection,
             conn' = [conn EXCEPT ![c] = k], Moves(conn[c], k)
      PROVE  [Exchange!Next]_(Exchange!vars)
  <2> DEFINE status == IF k.sent THEN k.resp.status ELSE None
  <2>1. /\ phases' = [phases EXCEPT ![c] = PhaseOf(k)]
        /\ questions' = [questions EXCEPT ![c] = k.req]
        /\ answers' = [answers EXCEPT ![c] = status]
    BY <1>0, <1>4 DEF phases, questions, answers
  <2>a. /\ phases[c] = PhaseOf(conn[c])
        /\ questions[c] = conn[c].req
        /\ answers[c] = IF conn[c].sent THEN conn[c].resp.status ELSE None
    BY DEF phases, questions, answers
  <2>b. /\ PhaseOf(k) = phases[c] => phases' = phases
        /\ k.req = questions[c] => questions' = questions
        /\ status = answers[c] => answers' = answers
    <3> HIDE DEF status
    <3>1. /\ phases = [d \in Conns |-> phases[d]]
          /\ questions = [d \in Conns |-> questions[d]]
          /\ answers = [d \in Conns |-> answers[d]]
      BY DEF phases, questions, answers
    <3> QED
      BY <2>1, <3>1
  <2>2. CASE k = NoConnection
    <3>1. Exchange!Forget({c})
      BY <1>1, <2>1, <2>2 DEF Exchange!Forget, phases, questions, answers
    <3> QED
      BY <3>1 DEF Exchange!Next
  <2>3. CASE conn[c] = NoConnection /\ k = Started
    <3>1. questions' = questions /\ answers' = answers
      BY <1>1, <2>3, <2>a, <2>b
    <3>2. phases[c] = "idle" /\ phases' = [phases EXCEPT ![c] = "connected"]
      BY <1>1, <2>1, <2>3, <2>a
    <3>3. Exchange!Connect(c)
      BY <3>1, <3>2 DEF Exchange!Connect, phases, questions, answers
    <3> QED
      BY <3>3 DEF Exchange!Next
  <2>4. CASE SameExchange(conn[c], k) /\ (conn[c].sent => k.resp = conn[c].resp)
    <3>1. UNCHANGED <<phases, questions, answers>>
      BY <2>4, <2>a, <2>b DEF SameExchange
    <3> QED
      BY <3>1 DEF Exchange!vars, phases, questions, answers
  <2>5. CASE AsksOne(conn[c], k)
    <3>1. Exchange!Ask(c, k.req)
      BY <2>1, <2>5 DEF AsksOne, Exchange!Ask, phases, questions, answers
    <3> QED
      BY <2>5, <3>1 DEF AsksOne, Exchange!Next
  <2>6. CASE GetsAnswer(conn[c], k)
    <3>1. conn[c].req.method \in Methods
      BY <2>6, HttpAssumption DEF GetsAnswer
    <3>2. status \in Answers[conn[c].req]
      BY <2>6, <3>1 DEF GetsAnswer, Answers, Methods
    <3>3. questions' = questions
      BY <2>6, <2>a, <2>b DEF GetsAnswer
    <3>4. phases[c] = "asked" /\ phases' = [phases EXCEPT ![c] = "answered"]
      BY <2>1, <2>6, <2>a DEF GetsAnswer
    <3>5. \E a \in Answers[questions[c]] : answers' = [answers EXCEPT ![c] = a]
      BY <2>1, <2>a, <3>2
    <3>6. Exchange!Answer(c)
      BY <3>3, <3>4, <3>5 DEF Exchange!Answer, phases, questions, answers
    <3> QED
      BY <3>6 DEF Exchange!Next
  <2>7. CASE IsHungUp(conn[c], k)
    <3>1. Exchange!HangUp(c)
      BY <2>1, <2>7 DEF IsHungUp, Exchange!HangUp, phases, questions, answers
    <3> QED
      BY <3>1 DEF Exchange!Next
  <2> QED
    BY <1>4, <2>2, <2>3, <2>4, <2>5, <2>6, <2>7 DEF Moves, SameExchange
<1> QED
  BY <1>2, <1>3, <1>4, OneMove DEF vars

\* Every behaviour of the server is one of HttpExchange: a client is taken
\* one request, answered at most once with the status of its method, and
\* never after a hang-up.
THEOREM Refinement == Spec => ImplementsExchange
<1>1. Init => Exchange!Init
  BY DEF Init, Exchange!Init, PhaseOf, NoConnection
<1> QED
  BY <1>1, Invariance, ExchangeStep, PTL DEF Spec, ImplementsExchange, Exchange!Spec
=============================================================================
