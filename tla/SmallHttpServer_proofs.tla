------------------------ MODULE SmallHttpServer_proofs ------------------------
(***************************************************************************)
(* Proofs about SmallHttpServer, for any set of connection objects and     *)
(* requests.                                                               *)
(***************************************************************************)
EXTENDS SmallHttpServer, TLAPS

(***************************************************************************)
(* The inductive invariant: how the socket, the operations, the timer and  *)
(* the response of one connection go together (Coupled), and that no       *)
(* number given so far, on a connection or in the history, is above the    *)
(* counter (NumbersBelow, HistoryBelow): the next one is above them all.   *)
(***************************************************************************)
Coupled(k) ==
    /\ k.sock = "none" => k = NoConnection
    /\ k.sock = "open" => k.tm \in {"pending", "expired"}
    /\ k.sock = "shut" => k.rd = "none" /\ k.wr = "none"
    /\ k.sock = "closed" => k.tm = "none"
    /\ k.sock # "open" => k.rd # "pending" /\ k.wr # "pending"
    /\ k.rd # "none" => k.wr = "none" /\ k.resp = None
    /\ k.rd = "ok" => k.req # None
    /\ k.rd = "pending" => k.req = None
    /\ k.wr # "none" => k.resp # None
    /\ k.wr = "pending" => ~ k.sent
    /\ k.resp # None => k.req # None /\ k.resp.status \in Answers[k.req]
    /\ k.sent => k.resp # None

NumbersBelow ==
    \A c \in Conns : conn[c].resp # None => conn[c].resp.number <= count

HistoryBelow == shown <= count /\ \A c \in Conns : before[c] <= count

IInv ==
    /\ TypeOK
    /\ \A c \in Conns : Coupled(conn[c])
    /\ NumbersBelow
    /\ HistoryBelow
    /\ NumbersInOrder

-----------------------------------------------------------------------------
(***************************************************************************)
(* Facts about one connection.                                             *)
(***************************************************************************)

\* The response a read handler makes.
Answered(q, n) ==
    IF q.method = "get" THEN CreateResponse(q, n) ELSE [status |-> 400, number |-> 0]

\* It has the status of its request, and no number above the one it is given.
LEMMA AnsweredType ==
    ASSUME NEW q \in Requests, NEW n \in Nat
    PROVE  /\ Answered(q, n) \in Response
           /\ Answered(q, n).status \in Answers[q]
           /\ Answered(q, n).number \in {0, n}
           /\ Answered(q, n).number > 0 => q.method = "get" /\ q.target = "/count"
BY SmallAssumption DEF Answered, CreateResponse, Response, Answers, Request

\* Destroying the object with its last handler keeps the coupling.
LEMMA SettleCoupled ==
    ASSUME NEW k \in Connection, Coupled(k)
    PROVE  Settle(k) \in Connection /\ Coupled(Settle(k))
BY DEF Settle, Coupled, NoConnection, Connection, Operation

\* It leaves no other response than the one that was there.
LEMMA SettleResponse ==
    ASSUME NEW k \in Connection
    PROVE  Settle(k).resp \in {None, k.resp}
BY DEF Settle, NoConnection

\* Issuing the response of a read handler keeps the coupling.
LEMMA WithResponseCoupled ==
    ASSUME NEW k \in Connection, Coupled(k), k.rd = "ok",
           NEW r \in Response, r.status \in Answers[k.req]
    PROVE  WithResponse(k, r) \in Connection /\ Coupled(WithResponse(k, r))
<1> DEFINE w == WithResponse(k, r)
<1>1. r # None
  BY SmallAssumption DEF Response
<1>2. k.sock \in {"open", "closed"}
  BY DEF Coupled, NoConnection, Connection
<1>3. /\ w.sock = k.sock /\ w.rd = "none" /\ w.tm = k.tm /\ w.late = k.late
      /\ w.req = k.req /\ w.resp = r /\ w.sent = k.sent
      /\ w.wr = IF k.sock = "closed" THEN "failed" ELSE "pending"
  BY DEF WithResponse, Connection
<1>4. w \in Connection
  BY DEF WithResponse, Connection, Operation
<1>5. ~ k.sent
  BY DEF Coupled
<1> HIDE DEF w
<1> QED
  BY <1>1, <1>2, <1>3, <1>4, <1>5 DEF Coupled, w

\* The other connections are not concerned by what happens to one.
LEMMA OneConnection ==
    ASSUME IInv, NEW c \in Conns, NEW k \in Connection, Coupled(k),
           conn' = [conn EXCEPT ![c] = k]
    PROVE  /\ conn' \in [Conns -> Connection]
           /\ \A d \in Conns : Coupled(conn'[d])
           /\ conn'[c] = k
           /\ \A d \in Conns \ {c} : conn'[d] = conn[d]
BY DEF IInv, TypeOK

-----------------------------------------------------------------------------
(***************************************************************************)
(* The invariant is inductive.                                             *)
(***************************************************************************)
LEMMA InitIInv == Init => IInv
<1> SUFFICES ASSUME Init PROVE IInv
  OBVIOUS
<1>1. TypeOK /\ \A c \in Conns : Coupled(conn[c])
  BY DEF Init, TypeOK, Coupled, NoConnection, Connection, Operation
<1>2. \A c \in Conns : conn[c].resp = None
  BY DEF Init, NoConnection
<1>3. HistoryBelow
  BY DEF Init, HistoryBelow
<1> QED
  BY <1>1, <1>2, <1>3 DEF IInv, NumbersBelow, NumbersInOrder, Counted

\* Every handler and poll keeps the strengthening.
LEMMA NextIInv == IInv /\ [Next]_vars => IInv'
<1> SUFFICES ASSUME IInv, [Next]_vars PROVE IInv'
  OBVIOUS
<1>0. /\ TypeOK /\ (\A d \in Conns : Coupled(conn[d]))
      /\ NumbersBelow /\ HistoryBelow /\ NumbersInOrder
  BY DEF IInv
\* A step that changes one connection, gives it no new response, and notes in
\* the history no number above the counter.
<1>b. ASSUME NEW c \in Conns, NEW k \in Connection, Coupled(k),
             k.resp \in {None, conn[c].resp},
             conn' = [conn EXCEPT ![c] = k],
             accept' \in {"pending", "ok", "failed"}, count' = count,
             shown' \in Nat, shown' <= count,
             NEW n \in Nat, before' = [before EXCEPT ![c] = n], n <= count,
             n = before[c] \/ k.resp = None
      PROVE  IInv'
  <2>1. /\ conn' \in [Conns -> Connection] /\ \A d \in Conns : Coupled(conn'[d])
        /\ conn'[c] = k /\ \A d \in Conns \ {c} : conn'[d] = conn[d]
    BY <1>b, OneConnection
  <2>2. /\ before' \in [Conns -> Nat] /\ before'[c] = n
        /\ \A d \in Conns \ {c} : before'[d] = before[d]
    BY <1>0, <1>b DEF TypeOK
  <2>3. TypeOK'
    BY <1>0, <1>b, <2>1, <2>2 DEF TypeOK
  <2>4. NumbersBelow' /\ HistoryBelow'
    BY <1>0, <1>b, <2>1, <2>2 DEF NumbersBelow, HistoryBelow
  <2>5. NumbersInOrder'
    <3>1. \A d \in Conns : Counted(conn'[d]) =>
             /\ Counted(conn[d]) /\ conn'[d].resp = conn[d].resp
             /\ before'[d] = before[d]
      BY <1>b, <2>1, <2>2 DEF Counted
    <3> QED
      BY <1>0, <3>1 DEF NumbersInOrder
  <2> QED
    BY <2>1, <2>3, <2>4, <2>5 DEF IInv
\* The same for a step that leaves the history as it is.
<1>a. ASSUME NEW c \in Conns, NEW k \in Connection, Coupled(k),
             k.resp \in {None, conn[c].resp},
             conn' = [conn EXCEPT ![c] = k],
             accept' \in {"pending", "ok", "failed"}, count' = count,
             UNCHANGED history
      PROVE  IInv'
  <2>1. /\ shown' \in Nat /\ shown' <= count
        /\ before[c] \in Nat /\ before[c] <= count
        /\ before' = [before EXCEPT ![c] = before[c]]
    BY <1>0, <1>a DEF TypeOK, HistoryBelow, history
  <2> QED
    BY <1>a, <1>b, <2>1
<1>1. CASE PollAccept \/ HandleAcceptError
  <2>1. UNCHANGED <<conn, count, shown, before>> /\ accept' \in {"pending", "ok", "failed"}
    BY <1>1 DEF PollAccept, HandleAcceptError, history
  <2> QED
    BY <1>0, <2>1 DEF IInv, TypeOK, NumbersBelow, HistoryBelow, NumbersInOrder
<1>2. ASSUME NEW c \in Conns, HandleAccept(c) PROVE IInv'
  <2>1. Started \in Connection /\ Coupled(Started) /\ Started.resp = None
    BY DEF Started, Coupled, NoConnection, Connection, Operation
  <2>2. /\ conn' = [conn EXCEPT ![c] = Started] /\ before' = [before EXCEPT ![c] = 0]
        /\ accept' \in {"pending", "ok", "failed"} /\ count' = count /\ shown' = shown
    BY <1>2 DEF HandleAccept, Changes
  <2>3. shown \in Nat /\ shown <= count /\ 0 <= count
    BY <1>0 DEF TypeOK, HistoryBelow
  <2> QED
    BY <1>b, <2>1, <2>2, <2>3
<1>3. ASSUME NEW c \in Conns, PollRead(c) PROVE IInv'
  <2> DEFINE failed == [conn[c] EXCEPT !.rd = "failed"]
             ok(q) == [conn[c] EXCEPT !.rd = "ok", !.req = q]
  <2>1. conn[c] \in Connection /\ Coupled(conn[c]) /\ conn[c].rd = "pending"
    BY <1>0, <1>3 DEF PollRead, TypeOK
  <2>2. failed \in Connection /\ Coupled(failed) /\ failed.resp = conn[c].resp
    BY <2>1 DEF Coupled, NoConnection, Connection, Operation
  <2>3. ASSUME NEW q \in Requests
        PROVE  ok(q) \in Connection /\ Coupled(ok(q)) /\ ok(q).resp = conn[c].resp
    <3>1. q # None
      BY SmallAssumption
    <3> QED
      BY <2>1, <3>1 DEF Coupled, NoConnection, Connection, Operation
  <2>4. conn[c].resp = None /\ shown \in Nat /\ shown <= count
    BY <1>0, <2>1 DEF Coupled, TypeOK, HistoryBelow
  <2>5. accept' \in {"pending", "ok", "failed"} /\ count' = count /\ shown' = shown
    BY <1>0, <1>3 DEF PollRead, TypeOK
  <2> HIDE DEF failed, ok
  <2>6. CASE conn' = [conn EXCEPT ![c] = failed] /\ before' = before
    BY <1>a, <2>2, <2>5, <2>6 DEF history
  <2>7. ASSUME NEW q \in Requests, conn' = [conn EXCEPT ![c] = ok(q)],
               before' = [before EXCEPT ![c] = shown]
        PROVE  IInv'
    BY <1>b, <2>3, <2>4, <2>5, <2>7
  <2> QED
    BY <1>3, <2>6, <2>7 DEF PollRead, Changes, failed, ok
<1>4. ASSUME NEW c \in Conns, HandleReadError(c) PROVE IInv'
  <2> DEFINE k == [conn[c] EXCEPT !.rd = "none"]
  <2>1. k \in Connection /\ Coupled(k) /\ k.resp = conn[c].resp
    BY <1>0, <1>4 DEF HandleReadError, TypeOK, Coupled, NoConnection, Connection, Operation
  <2>2. conn' = [conn EXCEPT ![c] = Settle(k)]
    BY <1>4 DEF HandleReadError, Changes
  <2> HIDE DEF k
  <2> QED
    BY <1>0, <1>4, <1>a, <2>1, <2>2, SettleCoupled, SettleResponse DEF HandleReadError, TypeOK
<1>5. ASSUME NEW c \in Conns, HandleRead(c) PROVE IInv'
  <2> DEFINE r == Answered(conn[c].req, count')
             k == WithResponse(conn[c], r)
  <2>1. conn[c] \in Connection /\ Coupled(conn[c]) /\ conn[c].rd = "ok" /\ count \in Nat
    BY <1>0, <1>5 DEF HandleRead, TypeOK
  <2>2. conn[c].req \in Requests
    BY <2>1 DEF Coupled, Connection
  <2>3. count' \in Nat /\ count' >= count
    BY <1>5, <2>1 DEF HandleRead, RequestCount
  <2>4. conn' = [conn EXCEPT ![c] = k] /\ accept' = accept
    BY <1>5 DEF HandleRead, Changes, Answered
  <2>5. /\ r \in Response /\ r.status \in Answers[conn[c].req] /\ r.number \in {0, count'}
    BY <2>2, <2>3, AnsweredType
  <2> HIDE DEF r
  <2>6. k \in Connection /\ Coupled(k) /\ k.resp = r
    BY <2>1, <2>5, WithResponseCoupled DEF WithResponse, Connection
  <2> HIDE DEF k
  <2>7. /\ conn' \in [Conns -> Connection] /\ \A d \in Conns : Coupled(conn'[d])
        /\ conn'[c] = k /\ \A d \in Conns \ {c} : conn'[d] = conn[d]
    BY <2>4, <2>6, OneConnection
  <2>8. UNCHANGED <<shown, before>> /\ shown \in Nat /\ before \in [Conns -> Nat]
    BY <1>0, <1>5 DEF HandleRead, TypeOK, history
  <2>9. TypeOK'
    BY <1>0, <2>3, <2>4, <2>7, <2>8 DEF TypeOK
  <2>a. \A d \in Conns : conn[d].resp # None => conn[d].resp.number \in Nat
    BY <1>0 DEF TypeOK, Connection, Response
  <2>10. NumbersBelow'
    <3>1. r.number <= count'
      BY <2>3, <2>5
    <3> QED
      BY <1>0, <2>1, <2>3, <2>6, <2>7, <2>a, <3>1 DEF NumbersBelow
  <2>11. HistoryBelow'
    BY <1>0, <2>1, <2>3, <2>8 DEF HistoryBelow
  <2>12. Counted(k) => r.number = count + 1
    <3> SUFFICES ASSUME Counted(k) PROVE r.number = count + 1
      OBVIOUS
    <3>1. r.number > 0
      BY <2>6 DEF Counted
    <3>2. conn[c].req.method = "get" /\ conn[c].req.target = "/count"
      BY <2>2, <2>3, <3>1, AnsweredType DEF r
    <3>3. count' = count + 1
      BY <1>5, <3>2 DEF HandleRead, RequestCount
    <3> QED
      BY <2>1, <2>5, <3>1, <3>3
  <2>13. \A d \in Conns \ {c} : Counted(conn[d]) => conn[d].resp.number < count + 1
    BY <1>0, <2>1, <2>a DEF NumbersBelow, Counted
  <2>14. before[c] < count + 1
    BY <1>0, <2>1, <2>8 DEF HistoryBelow
  <2>15. NumbersInOrder'
    <3> SUFFICES ASSUME NEW a \in Conns, Counted(conn'[a])
                 PROVE  /\ conn'[a].resp.number > before[a]
                        /\ \A b \in Conns \ {a} : Counted(conn'[b]) =>
                              conn'[b].resp.number # conn'[a].resp.number
      BY <2>8 DEF NumbersInOrder
    <3>1. CASE a = c
      <4>1. conn'[a].resp.number = count + 1
        BY <2>6, <2>7, <2>12, <3>1
      <4>2. \A b \in Conns \ {a} : Counted(conn'[b]) => conn'[b].resp.number < count + 1
        BY <2>7, <2>13, <3>1
      <4>3. \A b \in Conns \ {a} : Counted(conn'[b]) => conn'[b].resp.number \in Nat
        BY <2>7, <2>a, <3>1 DEF Counted
      <4> QED
        BY <2>1, <2>14, <2>8, <3>1, <4>1, <4>2, <4>3
    <3>2. CASE a # c
      <4>1. conn'[a] = conn[a]
        BY <2>7, <3>2
      <4>2. conn[a].resp.number > before[a]
        BY <1>0, <4>1 DEF NumbersInOrder
      <4>3. conn[a].resp.number < count + 1 /\ conn[a].resp.number \in Nat
        BY <2>13, <2>a, <3>2, <4>1 DEF Counted
      <4>4. Counted(conn'[c]) => conn'[c].resp.number = count + 1
        BY <2>6, <2>7, <2>12
      <4>5. \A b \in Conns \ {a, c} : Counted(conn'[b]) =>
               conn'[b].resp.number # conn[a].resp.number
        BY <1>0, <2>7, <4>1 DEF NumbersInOrder
      <4> QED
        BY <2>1, <4>1, <4>2, <4>3, <4>4, <4>5
    <3> QED
      BY <3>1, <3>2
  <2> QED
    BY <2>7, <2>9, <2>10, <2>11, <2>15 DEF IInv
<1>6. ASSUME NEW c \in Conns, PollWrite(c) PROVE IInv'
  <2> DEFINE failed == [conn[c] EXCEPT !.wr = "failed"]
             ok == [conn[c] EXCEPT !.wr = "ok", !.sent = TRUE]
  <2>1. conn[c] \in Connection /\ Coupled(conn[c]) /\ conn[c].wr = "pending"
    BY <1>0, <1>6 DEF PollWrite, TypeOK
  <2>2. conn[c].sock = "open" /\ conn[c].rd = "none"
    BY <2>1 DEF Coupled
  <2>3. /\ failed \in Connection /\ ok \in Connection
        /\ failed.resp = conn[c].resp /\ ok.resp = conn[c].resp
    BY <2>1 DEF Connection, Operation
  <2>4. Coupled(failed)
    BY <2>1, <2>2, <2>3 DEF Coupled, Connection
  <2>5. Coupled(ok)
    BY <2>1, <2>2, <2>3 DEF Coupled, Connection
  <2>6. conn' = [conn EXCEPT ![c] = failed] \/ conn' = [conn EXCEPT ![c] = ok]
    BY <1>6 DEF PollWrite, Changes
  <2>7. conn[c].resp.number \in Nat /\ conn[c].resp.number <= count
    <3>1. conn[c].resp # None
      BY <2>1 DEF Coupled
    <3> QED
      BY <1>0, <2>1, <3>1 DEF NumbersBelow, Connection, Response
  <2>8. shown' \in {shown, conn[c].resp.number} /\ shown \in Nat /\ shown <= count
    BY <1>0, <1>6 DEF PollWrite, TypeOK, HistoryBelow
  <2>9. shown' \in Nat /\ shown' <= count
    BY <2>7, <2>8
  <2>10. /\ before[c] \in Nat /\ before[c] <= count
         /\ before' = [before EXCEPT ![c] = before[c]]
    BY <1>0, <1>6 DEF PollWrite, TypeOK, HistoryBelow
  <2>11. accept' \in {"pending", "ok", "failed"} /\ count' = count
    BY <1>0, <1>6 DEF PollWrite, TypeOK
  <2> HIDE DEF failed, ok
  <2> QED
    BY <1>b, <2>3, <2>4, <2>5, <2>6, <2>9, <2>10, <2>11
<1>7. ASSUME NEW c \in Conns, HandleWrite(c) PROVE IInv'
  <2> DEFINE k == Finished(conn[c])
  <2>1. k \in Connection /\ Coupled(k) /\ k.resp = conn[c].resp
    <3>1. conn[c] \in Connection /\ Coupled(conn[c]) /\ conn[c].wr \in {"ok", "failed"}
      BY <1>0, <1>7 DEF HandleWrite, TypeOK
    <3>2. conn[c].rd = "none" /\ conn[c].sock \in {"open", "closed"}
      BY <3>1 DEF Coupled, NoConnection, Connection
    <3>3. k \in Connection
      BY <3>1 DEF Finished, Connection, Operation
    <3>4. /\ k.wr = "none" /\ k.rd = "none" /\ k.sent = conn[c].sent
          /\ k.req = conn[c].req /\ k.resp = conn[c].resp
      BY <3>1, <3>2 DEF Finished, Connection
    <3>5. k.sock = IF conn[c].sock = "closed" THEN "closed" ELSE "shut"
      BY <3>1 DEF Finished, Connection
    <3>6. k.tm = IF conn[c].tm = "pending" THEN "cancelled" ELSE conn[c].tm
      BY <3>1 DEF Finished, Connection
    <3> HIDE DEF k
    <3> QED
      BY <3>1, <3>2, <3>3, <3>4, <3>5, <3>6 DEF Coupled
  <2>2. conn' = [conn EXCEPT ![c] = Settle(k)]
    BY <1>7 DEF HandleWrite, Changes
  <2> HIDE DEF k
  <2> QED
    BY <1>0, <1>7, <1>a, <2>1, <2>2, SettleCoupled, SettleResponse DEF HandleWrite, TypeOK
<1>8. ASSUME NEW c \in Conns, Expire(c) PROVE IInv'
  <2> DEFINE k == [conn[c] EXCEPT !.late = TRUE]
  <2>1. k \in Connection /\ Coupled(k) /\ k.resp = conn[c].resp
    <3>1. conn[c] \in Connection /\ Coupled(conn[c]) /\ conn[c].sock # "none"
      BY <1>0, <1>8 DEF Expire, TypeOK
    <3>2. k \in Connection
      BY <3>1 DEF Connection
    <3>3. /\ k.sock = conn[c].sock /\ k.rd = conn[c].rd /\ k.wr = conn[c].wr
          /\ k.tm = conn[c].tm /\ k.req = conn[c].req /\ k.resp = conn[c].resp
          /\ k.sent = conn[c].sent
      BY <3>1 DEF Connection
    <3> HIDE DEF k
    <3> QED
      BY <3>1, <3>2, <3>3 DEF Coupled
  <2>2. conn' = [conn EXCEPT ![c] = k]
    BY <1>8 DEF Expire, Changes
  <2> HIDE DEF k
  <2> QED
    BY <1>0, <1>8, <1>a, <2>1, <2>2 DEF Expire, TypeOK
<1>9. ASSUME NEW c \in Conns, PollTimer(c) PROVE IInv'
  <2> DEFINE k == [conn[c] EXCEPT !.tm = "expired"]
  <2>1. k \in Connection /\ Coupled(k) /\ k.resp = conn[c].resp
    BY <1>0, <1>9 DEF PollTimer, TypeOK, Coupled, NoConnection, Connection, Operation
  <2>2. conn' = [conn EXCEPT ![c] = k]
    BY <1>9 DEF PollTimer, Changes
  <2> HIDE DEF k
  <2> QED
    BY <1>0, <1>9, <1>a, <2>1, <2>2 DEF PollTimer, TypeOK
<1>10. ASSUME NEW c \in Conns, HandleDeadline(c) PROVE IInv'
  <2> DEFINE k == [(IF conn[c].tm = "expired" THEN Closed(conn[c]) ELSE conn[c])
                     EXCEPT !.tm = "none"]
  <2>1. conn[c] \in Connection /\ Coupled(conn[c]) /\ conn[c].tm \in {"expired", "cancelled"}
    BY <1>0, <1>10 DEF HandleDeadline, TypeOK
  <2>2. k \in Connection /\ Coupled(k) /\ k.resp = conn[c].resp
    <3>1. CASE conn[c].tm = "expired"
      <4>1. k = [Closed(conn[c]) EXCEPT !.tm = "none"]
        BY <3>1
      <4>2. k \in Connection
        BY <2>1, <4>1 DEF Closed, Connection, Operation
      <4>3. /\ k.sock = "closed" /\ k.tm = "none" /\ k.sent = conn[c].sent
            /\ k.req = conn[c].req /\ k.resp = conn[c].resp
        BY <2>1, <4>1 DEF Closed, Connection
      <4>4. /\ k.rd = IF conn[c].rd = "pending" THEN "failed" ELSE conn[c].rd
            /\ k.wr = IF conn[c].wr = "pending" THEN "failed" ELSE conn[c].wr
        BY <2>1, <4>1 DEF Closed, Connection
      <4> HIDE DEF k
      <4> QED
        BY <2>1, <4>2, <4>3, <4>4 DEF Coupled
    <3>2. CASE conn[c].tm = "cancelled"
      BY <2>1, <3>2 DEF Coupled, NoConnection, Connection, Operation
    <3> QED
      BY <2>1, <3>1, <3>2
  <2>3. conn' = [conn EXCEPT ![c] = Settle(k)]
    BY <1>10 DEF HandleDeadline, Changes
  <2> HIDE DEF k
  <2> QED
    BY <1>0, <1>10, <1>a, <2>2, <2>3, SettleCoupled, SettleResponse DEF HandleDeadline, TypeOK
<1>11. CASE UNCHANGED vars
  BY <1>0, <1>11
     DEF vars, history, IInv, TypeOK, NumbersBelow, HistoryBelow, NumbersInOrder
<1> QED
  BY <1>1, <1>2, <1>3, <1>4, <1>5, <1>6, <1>7, <1>8, <1>9, <1>10, <1>11 DEF Next

\* The strengthening holds in every reachable state.
THEOREM Invariance == Spec => []IInv
<1> QED
  BY InitIInv, NextIInv, PTL DEF Spec

\* The state stays in its types: every response that is built has a status
\* and a number.
THEOREM TypeCorrect == Spec => []TypeOK
<1>1. IInv => TypeOK
  BY DEF IInv
<1> QED
  BY <1>1, Invariance, PTL

\* No two pages for "/count" show the same number, and a request that comes
\* after such a page has left is shown a larger one.
THEOREM NumbersOrdered == Spec => []NumbersInOrder
<1>1. IInv => NumbersInOrder
  BY DEF IInv
<1> QED
  BY <1>1, Invariance, PTL

-----------------------------------------------------------------------------
(***************************************************************************)
(* What one step does to one connection, seen from the client: the object  *)
(* is destroyed or made, or its exchange stands still, or moves on in one  *)
(* of three ways.                                                          *)
(***************************************************************************)
SameExchange(j, k) ==
    /\ PhaseOf(k) = PhaseOf(j) /\ k.req = j.req /\ k.sent = j.sent
    /\ j.sent => k.resp = j.resp

AsksOne(j, k) ==
    /\ PhaseOf(j) = "connected" /\ PhaseOf(k) = "asked"
    /\ k.req \in Requests /\ ~ j.sent /\ ~ k.sent

GetsAnswer(j, k) ==
    /\ PhaseOf(j) = "asked" /\ PhaseOf(k) = "answered"
    /\ k.req = j.req /\ ~ j.sent /\ k.sent
    /\ k.resp.status \in Answers[k.req]

IsHungUp(j, k) ==
    /\ PhaseOf(j) \in {"connected", "asked"} /\ PhaseOf(k) = "hung up"
    /\ k.req = j.req /\ ~ j.sent /\ ~ k.sent

Moves(j, k) ==
    \/ k = NoConnection
    \/ j = NoConnection /\ k = Started
    \/ SameExchange(j, k)
    \/ AsksOne(j, k)
    \/ GetsAnswer(j, k)
    \/ IsHungUp(j, k)

\* A step leaves all connections as they are, or one of them makes a move.
LEMMA OneMove ==
    ASSUME IInv, Next
    PROVE  \/ conn' = conn
           \/ \E c \in Conns, k \in Connection :
                 conn' = [conn EXCEPT ![c] = k] /\ Moves(conn[c], k)
<1>0. \A c \in Conns : conn[c] \in Connection /\ Coupled(conn[c])
  BY DEF IInv, TypeOK
<1> DEFINE Goal == \E c \in Conns, k \in Connection :
                     conn' = [conn EXCEPT ![c] = k] /\ Moves(conn[c], k)
<1>1. CASE PollAccept \/ HandleAcceptError
  BY <1>1 DEF PollAccept, HandleAcceptError
<1>2. ASSUME NEW c \in Conns, HandleAccept(c) PROVE Goal
  <2>1. conn[c] = NoConnection
    BY <1>0, <1>2 DEF HandleAccept, Coupled
  <2>2. Started \in Connection
    BY DEF Started, NoConnection, Connection, Operation
  <2> QED
    BY <1>2, <2>1, <2>2 DEF HandleAccept, Changes, Moves
<1>3. ASSUME NEW c \in Conns, PollRead(c) PROVE Goal
  <2> DEFINE failed == [conn[c] EXCEPT !.rd = "failed"]
             ok(q) == [conn[c] EXCEPT !.rd = "ok", !.req = q]
  <2>1. conn[c] \in Connection /\ Coupled(conn[c]) /\ conn[c].rd = "pending"
    BY <1>0, <1>3 DEF PollRead
  <2>2. /\ conn[c].sock = "open" /\ conn[c].req = None /\ conn[c].resp = None
        /\ ~ conn[c].sent
    BY <2>1 DEF Coupled
  <2>3. failed \in Connection /\ SameExchange(conn[c], failed) /\ failed.resp = conn[c].resp
        /\ ~ failed.sent
    BY <2>1, <2>2 DEF Connection, Operation, SameExchange, PhaseOf
  <2>4. ASSUME NEW q \in Requests
        PROVE  ok(q) \in Connection /\ AsksOne(conn[c], ok(q)) /\ ok(q).resp = conn[c].resp
    <3>1. q # None
      BY SmallAssumption
    <3>2. ok(q) \in Connection
      BY <2>1 DEF Connection, Operation
    <3>3. /\ ok(q).sock = "open" /\ ok(q).req = q /\ ~ ok(q).sent
          /\ ok(q).resp = conn[c].resp
      BY <2>1, <2>2 DEF Connection
    <3> HIDE DEF ok
    <3> QED
      BY <2>2, <3>1, <3>2, <3>3 DEF AsksOne, PhaseOf
  <2>5. CASE conn' = [conn EXCEPT ![c] = failed]
    <3> HIDE DEF failed
    <3> QED
      BY <2>2, <2>3, <2>5 DEF Moves
  <2>6. ASSUME NEW q \in Requests, conn' = [conn EXCEPT ![c] = ok(q)] PROVE Goal
    <3>1. Moves(conn[c], ok(q))
      <4> HIDE DEF ok
      <4> QED
        BY <2>2, <2>4 DEF Moves
    <3> QED
      BY <2>4, <2>6, <3>1
  <2> QED
    BY <1>3, <2>5, <2>6 DEF PollRead, Changes
<1>4. ASSUME NEW c \in Conns, HandleReadError(c) PROVE Goal
  <2> DEFINE k == [conn[c] EXCEPT !.rd = "none"]
  <2>1. conn[c] \in Connection /\ Coupled(conn[c]) /\ conn[c].rd = "failed"
    BY <1>0, <1>4 DEF HandleReadError
  <2>2. /\ k \in Connection /\ k.resp = conn[c].resp /\ k.sent = conn[c].sent
        /\ SameExchange(conn[c], k)
    BY <2>1 DEF Connection, Operation, SameExchange, PhaseOf
  <2>3. conn' = [conn EXCEPT ![c] = Settle(k)]
    BY <1>4 DEF HandleReadError, Changes
  <2> HIDE DEF k
  <2>4. Settle(k) \in Connection /\ (Settle(k) = NoConnection \/ Settle(k) = k)
    BY <2>2 DEF Settle, NoConnection, Connection, Operation
  <2>5. Moves(conn[c], Settle(k))
    BY <2>1, <2>2, <2>4 DEF Moves, Coupled
  <2> QED
    BY <2>3, <2>4, <2>5
<1>5. ASSUME NEW c \in Conns, NEW r, WithResponse(conn[c], r) \in Connection,
             conn[c].rd = "ok", conn' = [conn EXCEPT ![c] = WithResponse(conn[c], r)]
      PROVE  Goal
  <2> DEFINE k == WithResponse(conn[c], r)
  <2>1. conn[c] \in Connection /\ conn[c].resp = None /\ ~ conn[c].sent
    BY <1>0, <1>5 DEF Coupled
  <2>2. SameExchange(conn[c], k)
    BY <2>1 DEF WithResponse, Connection, SameExchange, PhaseOf
  <2> HIDE DEF k
  <2>3. Moves(conn[c], k)
    BY <2>1, <2>2 DEF Moves
  <2> QED
    BY <1>5, <2>3 DEF k
<1>6. ASSUME NEW c \in Conns, HandleRead(c) PROVE Goal
  <2> DEFINE r == Answered(conn[c].req, count')
  <2>1. conn[c].req \in Requests /\ conn[c].rd = "ok"
    BY <1>0, <1>6 DEF HandleRead, Coupled, Connection
  <2>2. conn' = [conn EXCEPT ![c] = WithResponse(conn[c], r)]
    BY <1>6 DEF HandleRead, Changes, Answered
  <2>3. count' \in Nat
    BY <1>6 DEF HandleRead, RequestCount, IInv, TypeOK
  <2>4. r \in Response /\ r.status \in Answers[conn[c].req]
    BY <2>1, <2>3, AnsweredType
  <2> HIDE DEF r
  <2>5. WithResponse(conn[c], r) \in Connection
    BY <1>0, <2>1, <2>4, WithResponseCoupled
  <2> QED
    BY <1>5, <2>1, <2>2, <2>5
<1>8. ASSUME NEW c \in Conns, PollWrite(c) PROVE Goal
  <2> DEFINE failed == [conn[c] EXCEPT !.wr = "failed"]
             ok == [conn[c] EXCEPT !.wr = "ok", !.sent = TRUE]
  <2>1. conn[c] \in Connection /\ Coupled(conn[c]) /\ conn[c].wr = "pending"
    BY <1>0, <1>8 DEF PollWrite
  <2>2. /\ conn[c].sock = "open" /\ ~ conn[c].sent /\ conn[c].resp # None
        /\ conn[c].req # None /\ conn[c].req \in Requests
        /\ conn[c].resp.status \in Answers[conn[c].req]
    BY <2>1 DEF Coupled, Connection
  <2>3. /\ failed \in Connection /\ failed.resp = conn[c].resp
        /\ SameExchange(conn[c], failed)
    BY <2>1 DEF Connection, Operation, SameExchange, PhaseOf
  <2>4. /\ ok \in Connection /\ ok.sock = "open" /\ ok.sent
        /\ ok.req = conn[c].req /\ ok.resp = conn[c].resp
    BY <2>1, <2>2 DEF Connection, Operation
  <2>5. conn' = [conn EXCEPT ![c] = failed] \/ conn' = [conn EXCEPT ![c] = ok]
    BY <1>8 DEF PollWrite, Changes
  <2> HIDE DEF failed, ok
  <2>6. PhaseOf(conn[c]) = "asked" /\ PhaseOf(ok) = "answered"
    BY <2>2, <2>4 DEF PhaseOf
  <2>7. GetsAnswer(conn[c], ok)
    BY <2>2, <2>4, <2>6 DEF GetsAnswer
  <2>8. Moves(conn[c], failed) /\ Moves(conn[c], ok)
    BY <2>2, <2>3, <2>4, <2>7 DEF Moves
  <2> QED
    BY <2>3, <2>4, <2>5, <2>8
<1>9. ASSUME NEW c \in Conns, HandleWrite(c) PROVE Goal
  <2> DEFINE k == Finished(conn[c])
  <2>1. conn[c] \in Connection /\ Coupled(conn[c]) /\ conn[c].wr \in {"ok", "failed"}
    BY <1>0, <1>9 DEF HandleWrite
  <2>2. /\ conn[c].sock \in {"open", "closed"} /\ conn[c].resp # None
        /\ conn[c].req # None
    BY <2>1 DEF Coupled, NoConnection, Connection
  <2>3. /\ k \in Connection /\ k.resp = conn[c].resp /\ k.sent = conn[c].sent
        /\ k.req = conn[c].req
        /\ k.sock = IF conn[c].sock = "closed" THEN "closed" ELSE "shut"
    BY <2>1 DEF Finished, Connection, Operation
  <2>4. conn' = [conn EXCEPT ![c] = Settle(k)]
    BY <1>9 DEF HandleWrite, Changes
  <2> HIDE DEF k
  <2>5. SameExchange(conn[c], k) \/ IsHungUp(conn[c], k)
    BY <2>1, <2>2, <2>3 DEF SameExchange, IsHungUp, PhaseOf, Connection
  <2>6. Settle(k) \in Connection /\ (Settle(k) = NoConnection \/ Settle(k) = k)
    BY <2>3 DEF Settle, NoConnection, Connection, Operation
  <2>7. Moves(conn[c], Settle(k))
    BY <2>2, <2>3, <2>5, <2>6 DEF Moves
  <2> QED
    BY <2>4, <2>6, <2>7
<1>10. ASSUME NEW c \in Conns, Expire(c) \/ PollTimer(c) PROVE Goal
  <2>1. PICK k : /\ k \in {[conn[c] EXCEPT !.late = TRUE], [conn[c] EXCEPT !.tm = "expired"]}
                 /\ conn' = [conn EXCEPT ![c] = k]
    BY <1>10 DEF Expire, PollTimer, Changes
  <2>2. conn[c] \in Connection /\ Coupled(conn[c])
    BY <1>0
  <2>3. /\ k \in Connection /\ k.resp = conn[c].resp /\ k.sent = conn[c].sent
        /\ SameExchange(conn[c], k)
    BY <2>1, <2>2 DEF Connection, SameExchange, PhaseOf
  <2>4. Moves(conn[c], k)
    BY <2>2, <2>3 DEF Moves, Coupled
  <2> QED
    BY <2>1, <2>3, <2>4
<1>11. ASSUME NEW c \in Conns, HandleDeadline(c) PROVE Goal
  <2> DEFINE k == [(IF conn[c].tm = "expired" THEN Closed(conn[c]) ELSE conn[c])
                     EXCEPT !.tm = "none"]
  <2>1. conn[c] \in Connection /\ Coupled(conn[c]) /\ conn[c].tm \in {"expired", "cancelled"}
    BY <1>0, <1>11 DEF HandleDeadline
  <2>2. conn' = [conn EXCEPT ![c] = Settle(k)]
    BY <1>11 DEF HandleDeadline, Changes
  <2>3. /\ k \in Connection /\ k.resp = conn[c].resp /\ k.sent = conn[c].sent
        /\ k.req = conn[c].req
        /\ k.sock = IF conn[c].tm = "expired" THEN "closed" ELSE conn[c].sock
    <3>1. CASE conn[c].tm = "expired"
      <4>1. k = [Closed(conn[c]) EXCEPT !.tm = "none"]
        BY <3>1
      <4> QED
        BY <2>1, <3>1, <4>1 DEF Closed, Connection, Operation
    <3>2. CASE conn[c].tm = "cancelled"
      <4>1. k = [conn[c] EXCEPT !.tm = "none"]
        BY <3>2
      <4> QED
        BY <2>1, <3>2, <4>1 DEF Connection
    <3> QED
      BY <2>1, <3>1, <3>2
  <2> HIDE DEF k
  <2>4. conn[c].sock # "none" /\ (conn[c].sent => conn[c].resp # None)
    BY <2>1 DEF Coupled, NoConnection
  <2>5. SameExchange(conn[c], k) \/ IsHungUp(conn[c], k)
    BY <2>1, <2>3, <2>4 DEF SameExchange, IsHungUp, PhaseOf, Connection
  <2>6. Settle(k) \in Connection /\ (Settle(k) = NoConnection \/ Settle(k) = k)
    BY <2>3 DEF Settle, NoConnection, Connection, Operation
  <2>7. Moves(conn[c], Settle(k))
    BY <2>3, <2>4, <2>5, <2>6 DEF Moves
  <2> QED
    BY <2>2, <2>6, <2>7
<1> QED
  BY <1>1, <1>2, <1>3, <1>4, <1>6, <1>8, <1>9, <1>10, <1>11 DEF Next

-----------------------------------------------------------------------------
(***************************************************************************)
(* The server implements HttpExchange.                                     *)
(***************************************************************************)
phases    == [c \in Conns |-> PhaseOf(conn[c])]
questions == [c \in Conns |-> conn[c].req]
answers   == [c \in Conns |-> IF conn[c].sent THEN conn[c].resp.status ELSE None]

\* Every step of the server is a step of HttpExchange, or none.
LEMMA ExchangeStep == IInv /\ [Next]_vars => [Exchange!Next]_(Exchange!vars)
<1> SUFFICES ASSUME IInv, [Next]_vars PROVE [Exchange!Next]_(Exchange!vars)
  OBVIOUS
<1>0. conn \in [Conns -> Connection]
  BY DEF IInv, TypeOK
<1>1. /\ PhaseOf(NoConnection) = "idle" /\ NoConnection.req = None /\ ~ NoConnection.sent
      /\ PhaseOf(Started) = "connected" /\ Started.req = None /\ ~ Started.sent
  BY DEF PhaseOf, Started, NoConnection
<1>2. CASE UNCHANGED conn
  BY <1>2 DEF Exchange!vars, phases, questions, answers
<1>4. ASSUME NEW c \in Conns, NEW k \in Connection,
             conn' = [conn EXCEPT ![c] = k], Moves(conn[c], k)
      PROVE  [Exchange!Next]_(Exchange!vars)
  <2> DEFINE status == IF k.sent THEN k.resp.status ELSE None
  <2>1. /\ phases' = [phases EXCEPT ![c] = PhaseOf(k)]
        /\ questions' = [questions EXCEPT ![c] = k.req]
        /\ answers' = [answers EXCEPT ![c] = status]
    BY <1>0, <1>4 DEF phases, questions, answers
  <2>a. /\ phases[c] = PhaseOf(conn[c])
        /\ questions[c] = conn[c].req
        /\ answers[c] = IF conn[c].sent THEN conn[c].resp.status ELSE None
    BY DEF phases, questions, answers
  <2>b. /\ PhaseOf(k) = phases[c] => phases' = phases
        /\ k.req = questions[c] => questions' = questions
        /\ status = answers[c] => answers' = answers
    <3> HIDE DEF status
    <3>1. /\ phases = [d \in Conns |-> phases[d]]
          /\ questions = [d \in Conns |-> questions[d]]
          /\ answers = [d \in Conns |-> answers[d]]
      BY DEF phases, questions, answers
    <3> QED
      BY <2>1, <3>1
  <2>2. CASE k = NoConnection
    <3>1. Exchange!Forget({c})
      BY <1>1, <2>1, <2>2 DEF Exchange!Forget, phases, questions, answers
    <3> QED
      BY <3>1 DEF Exchange!Next
  <2>3. CASE conn[c] = NoConnection /\ k = Started
    <3>1. questions' = questions /\ answers' = answers
      BY <1>1, <2>3, <2>a, <2>b
    <3>2. phases[c] = "idle" /\ phases' = [phases EXCEPT ![c] = "connected"]
      BY <1>1, <2>1, <2>3, <2>a
    <3>3. Exchange!Connect(c)
      BY <3>1, <3>2 DEF Exchange!Connect, phases, questions, answers
    <3> QED
      BY <3>3 DEF Exchange!Next
  <2>4. CASE SameExchange(conn[c], k)
    <3>1. UNCHANGED <<phases, questions, answers>>
      BY <2>4, <2>a, <2>b DEF SameExchange
    <3> QED
      BY <3>1 DEF Exchange!vars, phases, questions, answers
  <2>5. CASE AsksOne(conn[c], k)
    <3>1. Exchange!Ask(c, k.req)
      BY <2>1, <2>5 DEF AsksOne, Exchange!Ask, phases, questions, answers
    <3> QED
      BY <2>5, <3>1 DEF AsksOne, Exchange!Next
  <2>6. CASE GetsAnswer(conn[c], k)
    <3>2. status \in Answers[conn[c].req]
      BY <2>6 DEF GetsAnswer
    <3>3. questions' = questions
      BY <2>6, <2>a, <2>b DEF GetsAnswer
    <3>4. phases[c] = "asked" /\ phases' = [phases EXCEPT ![c] = "answered"]
      BY <2>1, <2>6, <2>a DEF GetsAnswer
    <3>5. \E a \in Answers[questions[c]] : answers' = [answers EXCEPT ![c] = a]
      BY <2>1, <2>a, <3>2
    <3>6. Exchange!Answer(c)
      BY <3>3, <3>4, <3>5 DEF Exchange!Answer, phases, questions, answers
    <3> QED
      BY <3>6 DEF Exchange!Next
  <2>7. CASE IsHungUp(conn[c], k)
    <3>1. Exchange!HangUp(c)
      BY <2>1, <2>7 DEF IsHungUp, Exchange!HangUp, phases, questions, answers
    <3> QED
      BY <3>1 DEF Exchange!Next
  <2> QED
    BY <1>4, <2>2, <2>3, <2>4, <2>5, <2>6, <2>7 DEF Moves
<1> QED
  BY <1>2, <1>4, OneMove DEF vars

\* Every behaviour of the server is one of HttpExchange: a client is taken
\* one request, answered at most once with the status of its method and
\* target, and never after a hang-up.
THEOREM Refinement == Spec => ImplementsExchange
<1>1. Init => Exchange!Init
  BY DEF Init, Exchange!Init, PhaseOf, NoConnection
<1> QED
  BY <1>1, Invariance, ExchangeStep, PTL DEF Spec, ImplementsExchange, Exchange!Spec
=============================================================================
