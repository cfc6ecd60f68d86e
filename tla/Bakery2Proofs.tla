---------------------------- MODULE Bakery2Proofs ----------------------------
(***************************************************************************)
(* The single-threaded bakery, for every number of clients, slots and      *)
(* letters, and whatever is lost or sent twice: who is overtaken, and      *)
(* whose letter a client prints.                                           *)
(***************************************************************************)
EXTENDS Bakery2, NumberLemmas, FiniteSetTheorems

\* A request for a letter names a ticket that was drawn.
Claimed(m) == m.proc = "BAKERY_SERVICE" => m.pid < num

\* Slot s was served by the service that gave letter l.
Answered(s, l) ==
  \E k \in DOMAIN log : log[k] = s /\ l = ((k - 1) % Letters) + 1

QueueInv == \A k \in 1..Len(inq) : Claimed(inq[k])

\* A client waits in a call exactly at its two calls, on the request made of its
\* own ticket; the answer in its socket is a ticket that was drawn, or a letter
\* that was taken for the client's own ticket.
ClientInv(cl) ==
  /\ call[cl] # None =>
       /\ cpc[cl] \in {"GET_NUMBER", "BAKERY_SERVICE"}
       /\ call[cl] = [cl |-> cl, proc |-> cpc[cl], pid |-> cpid[cl], num |-> cnum[cl]]
  /\ reply[cl] # None => call[cl] # None /\ reply[cl].res \in 0..Letters
  /\ cpc[cl] \in {"ticket", "BAKERY_SERVICE", "served"} => cpid[cl] < num
  /\ reply[cl] # None /\ cpc[cl] = "GET_NUMBER" => reply[cl].pid < num
  /\ reply[cl] # None /\ cpc[cl] = "BAKERY_SERVICE" => Answered(cpid[cl], reply[cl].res)
  /\ cpc[cl] = "served" => Answered(cpid[cl], cres[cl])

\* The tickets that are out were drawn in the order of their numbers, and a slot
\* that was served, or not yet drawn, holds none.
TicketInv ==
  /\ \A s, t \in Slot :
       s < t /\ number[s] # 0 /\ number[t] # 0 => number[s] < number[t]
  /\ \A s \in Slot : number[s] # 0 => s < num /\ ~Served(s)
  /\ \A s \in Slot : Served(s) => s < num

\* The earlier tickets the handler has passed so far.
Passed == {s \in 0..(j - 1) : Before(s, req)}

\* The handler serves a ticket that was drawn and has spent a second on each of
\* the earlier tickets it has passed.
HandlerInv ==
  /\ dpc = "serve" => /\ req \in Request /\ req.pid < num
                      /\ spent = Cardinality(Passed)
  /\ c = (Len(log) % Letters) + 1

IInv ==
  /\ TypeOK /\ QueueInv /\ TicketInv /\ HandlerInv
  /\ \A cl \in Clients : ClientInv(cl)

-----------------------------------------------------------------------------
(* The transport.                                                          *)

\* The head of the server's socket is a request, and so is what remains.
LEMMA SocketHead ==
  ASSUME RpcTypeOK, inq # <<>>
  PROVE  /\ Head(inq) \in Request /\ Head(inq) = inq[1] /\ 1 \in 1..Len(inq)
         /\ Tail(inq) \in Seq(Request)
         /\ \A k \in 1..Len(Tail(inq)) : k + 1 \in 1..Len(inq) /\ Tail(inq)[k] = inq[k + 1]
  BY DEF RpcTypeOK

\* A request that is sent is appended to the socket, or is lost.
LEMMA Delivered ==
  ASSUME RpcTypeOK, NEW m \in Request, Deliver(m)
  PROVE  /\ inq' \in Seq(Request)
         /\ \A k \in 1..Len(inq') : (k \in 1..Len(inq) /\ inq'[k] = inq[k]) \/ inq'[k] = m
<1>0. inq \in Seq(Request)
  BY DEF RpcTypeOK
<1>1. CASE inq' = Append(inq, m)
  <2>1. inq' \in Seq(Request) /\ Len(inq') = Len(inq) + 1 /\ Len(inq) \in Nat
    BY <1>0, <1>1
  <2>2. ASSUME NEW k \in 1..Len(inq')
        PROVE  (k \in 1..Len(inq) /\ inq'[k] = inq[k]) \/ inq'[k] = m
    BY <1>0, <1>1, <2>1
  <2> QED
    BY <2>1, <2>2
<1>2. CASE inq' = inq
  BY <1>0, <1>2
<1> QED
  BY <1>1, <1>2 DEF Deliver

\* An answer goes to the client that waits on the request, or to nobody.
LEMMA Replied ==
  ASSUME RpcTypeOK, NEW m \in Request, NEW r \in Result, SvcSendreply(m, r)
  PROVE  /\ UNCHANGED <<call, resends>>
         /\ reply' \in [Clients -> Result \cup {None}]
         /\ \A cl \in Clients : \/ reply'[cl] = reply[cl]
                                \/ cl = m.cl /\ call[cl] = m /\ reply'[cl] = r
  BY DEF RpcTypeOK, SvcSendreply, Request

-----------------------------------------------------------------------------
(* The steps of the clients.                                               *)

\* The clients touch nothing of the server.
LEMMA ClientFrame ==
  ASSUME NEW cl \in Clients, Client(cl) \/ ClientTimeout(cl) \/ ClientResend(cl)
  PROVE  UNCHANGED <<num, number, c, up, dpc, req, j, spent, log>>
  BY DEF Client, ClientSend, ClientRecv, ClientTimeout, ClientResend, loopVars

\* What depends only on the server is kept by the steps of the clients.
LEMMA ServerKept ==
  ASSUME IInv, UNCHANGED <<num, number, c, up, dpc, req, j, spent, log>>
  PROVE  TicketInv' /\ HandlerInv'
<1>1. TicketInv'
  BY DEF IInv, TicketInv, Served
<1>2. Passed' = Passed
  BY DEF Passed, Before
<1> QED
  BY <1>1, <1>2 DEF IInv, HandlerInv

\* What is promised of the other clients is kept while the log and the tickets
\* are.
LEMMA OthersKept ==
  ASSUME IInv, NEW e \in Clients, UNCHANGED <<num, log>>,
         call'[e] = call[e], reply'[e] = reply[e], cpc'[e] = cpc[e], cpid'[e] = cpid[e],
         cnum'[e] = cnum[e], cres'[e] = cres[e]
  PROVE  ClientInv(e)'
  BY DEF IInv, ClientInv, Answered

\* A request that is sent again, or for the first time, is claimed.
LEMMA QueueKept ==
  ASSUME IInv, NEW m \in Request, Claimed(m), Deliver(m), UNCHANGED num
  PROVE  QueueInv'
<1>1. \A k \in 1..Len(inq') : (k \in 1..Len(inq) /\ inq'[k] = inq[k]) \/ inq'[k] = m
  BY Delivered DEF IInv, TypeOK
<1> QED
  BY <1>1 DEF IInv, QueueInv, Claimed

\* A client calls: its request names its own ticket.
LEMMA SendStep ==
  ASSUME IInv, NEW cl \in Clients, NEW from, NEW proc,
         \/ from = "start" /\ proc = "GET_NUMBER"
         \/ from = "ticket" /\ proc = "BAKERY_SERVICE",
         ClientSend(cl, from, proc)
  PROVE  IInv'
<1> DEFINE m == [cl |-> cl, proc |-> proc, pid |-> cpid[cl], num |-> cnum[cl]]
<1>0. /\ UNCHANGED <<num, number, c, up, dpc, req, j, spent, log, reply, resends, cpid, cnum, cres>>
      /\ call[cl] = None /\ cpc[cl] = from /\ Deliver(m)
      /\ call' = [call EXCEPT ![cl] = m] /\ cpc' = [cpc EXCEPT ![cl] = proc]
  BY DEF ClientSend, ClntCall, loopVars
<1>1. /\ RpcTypeOK /\ cpid \in [Clients -> Slot] /\ cnum \in [Clients -> Nat]
      /\ cpc \in [Clients -> ClientPCs] /\ call \in [Clients -> Request \cup {None}]
      /\ reply \in [Clients -> Result \cup {None}]
  BY DEF IInv, TypeOK, RpcTypeOK
<1>2. m \in Request
  BY <1>1 DEF Request, Procs
<1>3. Claimed(m)
  BY <1>0 DEF IInv, ClientInv, Claimed
<1>4. inq' \in Seq(Request) /\ QueueInv'
  BY <1>0, <1>1, <1>2, <1>3, Delivered, QueueKept
<1>5. /\ call' \in [Clients -> Request \cup {None}] /\ call'[cl] = m
      /\ cpc' \in [Clients -> ClientPCs] /\ cpc'[cl] = proc
      /\ \A e \in Clients : e # cl => call'[e] = call[e] /\ cpc'[e] = cpc[e]
  BY <1>0, <1>1, <1>2 DEF ClientPCs
<1>6. TypeOK'
  BY <1>0, <1>4, <1>5 DEF IInv, TypeOK, RpcTypeOK
<1>7. reply'[cl] = None /\ (proc = "BAKERY_SERVICE" => cpid'[cl] < num')
  BY <1>0 DEF IInv, ClientInv
<1>8. ASSUME NEW e \in Clients PROVE ClientInv(e)'
  <2>1. CASE e # cl
    BY <1>0, <1>5, <2>1, OthersKept
  <2>2. CASE e = cl
    BY <1>0, <1>5, <1>7, <2>2 DEF ClientInv
  <2> QED
    BY <2>1, <2>2
<1> QED
  BY <1>0, <1>4, <1>6, <1>8, ServerKept DEF IInv

\* A client reads its answer: the ticket, or its letter.
LEMMA RecvStep ==
  ASSUME IInv, NEW cl \in Clients, ClientRecv(cl)
  PROVE  IInv'
<1>0. /\ UNCHANGED <<num, number, c, up, dpc, req, j, spent, log, inq, resends>>
      /\ reply[cl] # None
      /\ call' = [call EXCEPT ![cl] = None] /\ reply' = [reply EXCEPT ![cl] = None]
  BY DEF ClientRecv, ClntReturn, loopVars
<1>1. /\ RpcTypeOK /\ cpid \in [Clients -> Slot] /\ cnum \in [Clients -> Nat]
      /\ cpc \in [Clients -> ClientPCs] /\ cres \in [Clients -> 0..Letters]
      /\ call \in [Clients -> Request \cup {None}]
      /\ reply \in [Clients -> Result \cup {None}]
  BY DEF IInv, TypeOK, RpcTypeOK
<1>2. /\ call' \in [Clients -> Request \cup {None}] /\ call'[cl] = None
      /\ reply' \in [Clients -> Result \cup {None}] /\ reply'[cl] = None
      /\ \A e \in Clients : e # cl => call'[e] = call[e] /\ reply'[e] = reply[e]
  BY <1>0, <1>1
<1>3. reply[cl].pid \in Slot /\ reply[cl].num \in Nat /\ reply[cl].res \in 0..Letters
  <2>1. reply[cl] \in Result
    BY <1>0, <1>1
  <2> QED
    BY <1>0, <2>1 DEF Result, IInv, ClientInv
<1>4. /\ cpc' \in [Clients -> ClientPCs] /\ cpid' \in [Clients -> Slot]
      /\ cnum' \in [Clients -> Nat] /\ cres' \in [Clients -> 0..Letters]
      /\ \A e \in Clients : e # cl => /\ cpc'[e] = cpc[e] /\ cpid'[e] = cpid[e]
                                      /\ cnum'[e] = cnum[e] /\ cres'[e] = cres[e]
  BY <1>1, <1>3 DEF ClientRecv, ClientPCs
<1>5. \/ cpc'[cl] = "ticket" /\ cpid'[cl] < num'
      \/ cpc'[cl] = "served" /\ cpid'[cl] < num' /\ Answered(cpid'[cl], cres'[cl])
  <2>1. CASE cpc[cl] = "GET_NUMBER"
    <3>1. cpc'[cl] = "ticket" /\ cpid'[cl] = reply[cl].pid
      BY <1>1, <2>1 DEF ClientRecv
    <3> QED
      BY <1>0, <2>1, <3>1 DEF IInv, ClientInv
  <2>2. CASE cpc[cl] = "BAKERY_SERVICE"
    <3>1. cpc'[cl] = "served" /\ cpid'[cl] = cpid[cl] /\ cres'[cl] = reply[cl].res
      BY <1>1, <2>2 DEF ClientRecv
    <3> QED
      BY <1>0, <2>2, <3>1 DEF IInv, ClientInv
  <2> QED
    BY <2>1, <2>2 DEF ClientRecv
<1>6. TypeOK'
  BY <1>0, <1>2, <1>4 DEF IInv, TypeOK, RpcTypeOK
<1>7. QueueInv'
  BY <1>0 DEF IInv, QueueInv, Claimed
<1>8. ASSUME NEW e \in Clients PROVE ClientInv(e)'
  <2>1. CASE e # cl
    BY <1>0, <1>2, <1>4, <2>1, OthersKept
  <2>2. CASE e = cl
    BY <1>0, <1>2, <1>5, <2>2 DEF ClientInv, Answered
  <2> QED
    BY <2>1, <2>2
<1> QED
  BY <1>0, <1>6, <1>7, <1>8, ServerKept DEF IInv

\* A client gives up a call, and dies of it.
LEMMA TimeoutStep ==
  ASSUME IInv, NEW cl \in Clients, ClientTimeout(cl)
  PROVE  IInv'
<1>0. /\ UNCHANGED <<num, number, c, up, dpc, req, j, spent, log, inq, reply, resends, cpid, cnum, cres>>
      /\ reply[cl] = None
      /\ call' = [call EXCEPT ![cl] = None] /\ cpc' = [cpc EXCEPT ![cl] = "crashed"]
  BY DEF ClientTimeout, ClntTimeout, loopVars
<1>1. /\ cpc \in [Clients -> ClientPCs] /\ call \in [Clients -> Request \cup {None}]
  BY DEF IInv, TypeOK, RpcTypeOK
<1>2. /\ call' \in [Clients -> Request \cup {None}] /\ call'[cl] = None
      /\ cpc' \in [Clients -> ClientPCs] /\ cpc'[cl] = "crashed"
      /\ \A e \in Clients : e # cl => call'[e] = call[e] /\ cpc'[e] = cpc[e]
  BY <1>0, <1>1 DEF ClientPCs
<1>6. TypeOK'
  BY <1>0, <1>2 DEF IInv, TypeOK, RpcTypeOK
<1>7. QueueInv'
  BY <1>0 DEF IInv, QueueInv, Claimed
<1>8. ASSUME NEW e \in Clients PROVE ClientInv(e)'
  <2>1. CASE e # cl
    BY <1>0, <1>2, <2>1, OthersKept
  <2>2. CASE e = cl
    BY <1>0, <1>2, <2>2 DEF ClientInv
  <2> QED
    BY <2>1, <2>2
<1> QED
  BY <1>0, <1>6, <1>7, <1>8, ServerKept DEF IInv

\* A client sends its request again.
LEMMA ResendStep ==
  ASSUME IInv, NEW cl \in Clients, ClientResend(cl)
  PROVE  IInv'
<1>0. /\ UNCHANGED <<num, number, c, up, dpc, req, j, spent, log, call, reply, cpc, cpid, cnum, cres>>
      /\ call[cl] # None /\ resends[cl] < MaxResend
      /\ resends' = [resends EXCEPT ![cl] = @ + 1] /\ Deliver(call[cl])
  BY DEF ClientResend, Resend, loopVars, clientVars
<1>1. RpcTypeOK
  BY DEF IInv, TypeOK
<1>2. call[cl] \in Request /\ resends' \in [Clients -> 0..MaxResend]
  BY <1>0, <1>1, RpcAssumption DEF RpcTypeOK
<1>3. Claimed(call[cl])
  <2>1. /\ cpc[cl] \in {"GET_NUMBER", "BAKERY_SERVICE"}
        /\ call[cl] = [cl |-> cl, proc |-> cpc[cl], pid |-> cpid[cl], num |-> cnum[cl]]
        /\ cpc[cl] = "BAKERY_SERVICE" => cpid[cl] < num
    BY <1>0 DEF IInv, ClientInv
  <2>2. call[cl].proc = cpc[cl] /\ call[cl].pid = cpid[cl]
    BY <2>1
  <2> QED
    BY <2>1, <2>2 DEF Claimed
<1>4. inq' \in Seq(Request) /\ QueueInv'
  BY <1>0, <1>1, <1>2, <1>3, Delivered, QueueKept
<1>6. TypeOK'
  BY <1>0, <1>2, <1>4 DEF IInv, TypeOK, RpcTypeOK
<1>8. ASSUME NEW e \in Clients PROVE ClientInv(e)'
  BY <1>0, OthersKept
<1> QED
  BY <1>0, <1>4, <1>6, <1>8, ServerKept DEF IInv

-----------------------------------------------------------------------------
(* The steps of the server.                                                *)

\* The numbers have a largest one, and a new number exceeds them all.
LEMMA NewNumberFacts ==
  ASSUME number \in [Slot -> Nat]
  PROVE  NewNumber \in Nat \ {0} /\ \A s \in Slot : number[s] < NewNumber
<1> DEFINE B == {m \in Nat : \E b \in Nat : \A s \in Slot : s <= m => number[s] <= b}
<1>0. Slots \in Nat \ {0} /\ 0 \in Slot /\ \A s \in Slot : s \in Nat /\ s <= Slots
  BY RpcAssumption DEF Slot
<1>1. 0 \in B
  <2>1. number[0] \in Nat /\ \A s \in Slot : s <= 0 => number[s] <= number[0]
    BY <1>0
  <2> QED
    BY <2>1
<1>2. ASSUME NEW m \in Nat, m \in B PROVE m + 1 \in B
  <2>1. PICK b \in Nat : \A s \in Slot : s <= m => number[s] <= b
    BY <1>2
  <2>2. CASE m + 1 \notin Slot
    <3>1. \A s \in Slot : s <= m + 1 => number[s] <= b
      BY <1>0, <2>1, <2>2
    <3> QED
      BY <3>1
  <2>3. CASE m + 1 \in Slot
    <3> DEFINE d == b + number[m + 1]
    <3>1. d \in Nat /\ b <= d /\ number[m + 1] <= d
      BY <2>3
    <3> HIDE DEF d
    <3>2. ASSUME NEW s \in Slot, s <= m + 1 PROVE number[s] <= d
      <4>1. CASE s = m + 1
        BY <3>1, <4>1
      <4>2. CASE s # m + 1
        <5>1. number[s] <= b /\ number[s] \in Nat
          BY <1>0, <2>1, <3>2, <4>2
        <5> QED
          BY <3>1, <5>1
      <4> QED
        BY <4>1, <4>2
    <3> QED
      BY <3>1, <3>2
  <2> QED
    BY <2>2, <2>3
<1>3. Slots \in B
  <2> HIDE DEF B
  <2>1. Nat \subseteq B
    BY <1>1, <1>2, SetInduction
  <2> QED
    BY <1>0, <2>1
<1>4. PICK b \in Nat : \A s \in Slot : number[s] <= b
  BY <1>0, <1>3
<1> DEFINE R == Range(number)
<1>5. R \in SUBSET Nat /\ number[0] \in R /\ \A s \in Slot : number[s] \in R
  BY <1>0 DEF Range
<1>6. \A y \in R : y <= b
  BY <1>4 DEF Range
<1> HIDE DEF R
<1>7. \E x \in R : \A y \in R : y <= x
  BY <1>5, <1>6, LargestNatural
<1>8. \E x \in R : \A y \in R : x >= y
  BY <1>5, <1>7
<1>9. Max(R) \in R /\ \A y \in R : Max(R) >= y
  BY <1>8 DEF Max
<1> QED
  BY <1>5, <1>9 DEF NewNumber, R

\* A request that was claimed stays so when tickets are drawn.
LEMMA QueueShorter ==
  ASSUME IInv, inq # <<>>, inq' = Tail(inq), num' \in {num, num + 1}
  PROVE  /\ Head(inq) \in Request /\ Claimed(Head(inq))
         /\ inq' \in Seq(Request) /\ QueueInv'
<1>0. RpcTypeOK /\ num \in Nat /\ inq \in Seq(Request)
  BY DEF IInv, TypeOK, RpcTypeOK
<1>1. /\ Head(inq) \in Request /\ Head(inq) = inq[1] /\ 1 \in 1..Len(inq)
      /\ inq' \in Seq(Request)
      /\ \A k \in 1..Len(inq') : k + 1 \in 1..Len(inq) /\ inq'[k] = inq[k + 1]
  BY <1>0, SocketHead
<1>2. ASSUME NEW k \in 1..Len(inq') 
      PROVE  inq'[k].proc = "BAKERY_SERVICE" => inq'[k].pid < num'
  <2>1. Claimed(inq'[k]) /\ inq'[k] \in Request
    BY <1>0, <1>1 DEF IInv, QueueInv
  <2>2. inq'[k].pid \in Nat
    BY <2>1 DEF Request, Slot
  <2> QED
    BY <1>0, <2>1, <2>2 DEF Claimed
<1>3. Claimed(Head(inq))
  BY <1>1 DEF IInv, QueueInv
<1>4. QueueInv'
  BY <1>2 DEF QueueInv, Claimed
<1> QED
  BY <1>1, <1>3, <1>4

\* get_number_1_svc: the new ticket is behind all others.
LEMMA GetNumberStep ==
  ASSUME IInv, GetNumber
  PROVE  IInv'
<1> DEFINE m == Head(inq)
<1>0. /\ up = "up" /\ dpc = "idle" /\ inq # <<>> /\ m.proc = "GET_NUMBER" /\ inq' = Tail(inq)
      /\ num' = num + 1
      /\ UNCHANGED <<c, dpc, req, j, spent, log, cpc, cpid, cnum, cres>>
  BY DEF GetNumber, Dispatch, loopVars, clientVars
<1>1. m \in Request /\ inq' \in Seq(Request) /\ QueueInv'
  BY <1>0, QueueShorter
<1>2. /\ RpcTypeOK /\ num \in Nat /\ number \in [Slot -> Nat] /\ cpid \in [Clients -> Slot]
      /\ call \in [Clients -> Request \cup {None}] /\ reply \in [Clients -> Result \cup {None}]
  BY DEF IInv, TypeOK, RpcTypeOK
<1> HIDE DEF m
<1>3. HandlerInv'
  BY <1>0 DEF IInv, HandlerInv
<1>4. ASSUME NEW e \in Clients, call'[e] = call[e], reply'[e] = reply[e] PROVE ClientInv(e)'
  <2>1. cpid[e] \in Nat
    BY <1>2 DEF Slot
  <2>2. reply[e] # None => reply[e].pid \in Nat
    <3>1. reply[e] \in Result \cup {None}
      BY <1>2
    <3> QED
      BY <3>1 DEF Result, Slot
  <2>3. ClientInv(e)
    BY DEF IInv
  <2> QED
    BY <1>0, <1>2, <1>4, <2>1, <2>2, <2>3 DEF ClientInv, Answered
<1>5. CASE num < Slots /\ number' = [number EXCEPT ![num] = NewNumber]
           /\ SvcSendreply(m, DrawnTicket) /\ UNCHANGED up
  <2>1. num \in Slot /\ NewNumber \in Nat \ {0} /\ \A s \in Slot : number[s] < NewNumber
    BY <1>2, <1>5, NewNumberFacts, RpcAssumption DEF Slot
  <2> DEFINE t == DrawnTicket
  <2>2. t \in Result /\ t.pid = num /\ t.res = 0
    BY <2>1 DEF DrawnTicket, Result
  <2> HIDE DEF t
  <2>3. /\ UNCHANGED <<call, resends>> /\ reply' \in [Clients -> Result \cup {None}]
        /\ \A cl \in Clients : \/ reply'[cl] = reply[cl]
                               \/ cl = m.cl /\ call[cl] = m /\ reply'[cl] = t
    BY <1>1, <1>2, <1>5, <2>2, Replied DEF t
  <2>4. number' \in [Slot -> Nat] /\ number'[num] = NewNumber
        /\ \A s \in Slot : s # num => number'[s] = number[s]
    BY <1>2, <1>5, <2>1
  <2>5. TypeOK'
    BY <1>0, <1>1, <1>2, <1>5, <2>3, <2>4 DEF IInv, TypeOK, RpcTypeOK
  <2>6. \A s \in Slot : s \in Nat /\ (Served(s)' <=> Served(s))
    BY <1>0 DEF Slot, Served
  <2>7. TicketInv'
    <3>1. ASSUME NEW s \in Slot, NEW u \in Slot, s < u, number'[s] # 0, number'[u] # 0
          PROVE  number'[s] < number'[u]
      <4>1. CASE s # num /\ u # num
        BY <2>4, <3>1, <4>1 DEF IInv, TicketInv
      <4>2. CASE u = num
        BY <2>1, <2>4, <3>1, <4>2, <2>6
      <4>3. CASE s = num /\ u # num
        <5>1. u < num
          BY <2>4, <3>1, <4>3 DEF IInv, TicketInv
        <5> QED
          BY <3>1, <4>3, <5>1, <2>6, <1>2
      <4> QED
        BY <4>1, <4>2, <4>3
    <3>2. ASSUME NEW s \in Slot PROVE (Served(s) => s < num) /\ (number[s] # 0 => s < num /\ ~Served(s))
      BY DEF IInv, TicketInv
    <3>3. ASSUME NEW s \in Slot, number'[s] # 0 PROVE s < num' /\ ~Served(s)'
      <4>1. CASE s = num
        BY <1>0, <1>2, <2>6, <3>2, <4>1
      <4>2. CASE s # num
        BY <1>0, <1>2, <2>4, <2>6, <3>2, <3>3, <4>2
      <4> QED
        BY <4>1, <4>2
    <3>4. ASSUME NEW s \in Slot, Served(s)' PROVE s < num'
      BY <1>0, <1>2, <2>6, <3>2, <3>4
    <3> QED
      BY <3>1, <3>3, <3>4 DEF TicketInv
  <2>8. ASSUME NEW e \in Clients PROVE ClientInv(e)'
    <3>1. CASE reply'[e] = reply[e]
      BY <1>4, <2>3, <3>1
    <3>2. CASE call[e] = m /\ reply'[e] = t
      <4>1. ClientInv(e) /\ call[e] # None
        BY <1>1, <3>2, RpcAssumption DEF IInv
      <4>2. cpc[e] = "GET_NUMBER"
        BY <1>0, <3>2, <4>1 DEF ClientInv, m
      <4> QED
        BY <1>0, <1>2, <2>2, <2>3, <3>2, <4>1, <4>2, Bakery2Assumption DEF ClientInv
    <3> QED
      BY <2>3, <3>1, <3>2
  <2> QED
    BY <1>1, <1>3, <2>5, <2>7, <2>8 DEF IInv
<1>6. CASE num >= Slots /\ up' = "undefined" /\ UNCHANGED <<number, call, reply, resends>>
  <2>1. TypeOK'
    BY <1>0, <1>1, <1>2, <1>6 DEF IInv, TypeOK, RpcTypeOK
  <2>2. \A s \in Slot : s \in Nat /\ (Served(s)' <=> Served(s))
    BY <1>0 DEF Slot, Served
  <2>3. TicketInv'
    BY <1>0, <1>2, <1>6, <2>2 DEF IInv, TicketInv
  <2>4. \A e \in Clients : ClientInv(e)'
    BY <1>4, <1>6
  <2> QED
    BY <1>1, <1>3, <2>1, <2>3, <2>4 DEF IInv
<1> QED
  BY <1>5, <1>6 DEF GetNumber, m

\* bakery_service_1_svc is entered: no earlier ticket has been passed.
LEMMA BakeryServiceStep ==
  ASSUME IInv, BakeryService
  PROVE  IInv'
<1> DEFINE m == Head(inq)
<1>0. /\ inq # <<>> /\ m.proc = "BAKERY_SERVICE" /\ inq' = Tail(inq)
      /\ dpc' = "serve" /\ req' = m /\ j' = 0 /\ spent' = 0
      /\ UNCHANGED <<call, reply, resends, num, number, c, up, log, cpc, cpid, cnum, cres>>
  BY DEF BakeryService, Dispatch, clientVars
<1>1. m \in Request /\ Claimed(m) /\ inq' \in Seq(Request) /\ QueueInv'
  BY <1>0, QueueShorter
<1> HIDE DEF m
<1>2. TypeOK'
  BY <1>0, <1>1, RpcAssumption DEF IInv, TypeOK, RpcTypeOK
<1>3. Passed' = {}
  BY <1>0 DEF Passed
<1>4. HandlerInv'
  BY <1>0, <1>1, <1>3, FS_EmptySet DEF IInv, HandlerInv, Claimed
<1>5. TicketInv'
  BY <1>0 DEF IInv, TicketInv, Served
<1>6. ASSUME NEW e \in Clients PROVE ClientInv(e)'
  BY <1>0, OthersKept
<1> QED
  BY <1>1, <1>2, <1>4, <1>5, <1>6 DEF IInv

\* A turn of the loop: a second for the ticket of slot j, if it goes first.
LEMMA WaitForSlotStep ==
  ASSUME IInv, WaitForSlot
  PROVE  IInv'
<1>0. /\ dpc = "serve" /\ j < Slots /\ j' = j + 1
      /\ spent' = IF Before(j, req) THEN spent + 1 ELSE spent
      /\ UNCHANGED <<inq, call, reply, resends, num, number, c, up, dpc, req, log, cpc, cpid, cnum, cres>>
  BY DEF WaitForSlot, rpcVars, clientVars
<1>1. /\ j \in Nat /\ Slots \in Nat /\ spent = Cardinality(Passed) /\ req \in Request /\ req.pid < num
  BY <1>0, RpcAssumption DEF IInv, TypeOK, HandlerInv
<1>2. IsFiniteSet(Passed) /\ j \notin Passed
  <2>1. IsFiniteSet(0..(j - 1)) /\ Passed \in SUBSET (0..(j - 1))
    BY <1>1, FS_Interval DEF Passed
  <2>2. j \notin 0..(j - 1)
    BY <1>1
  <2> QED
    BY <2>1, <2>2, FS_Subset
<1>3. Passed' = IF Before(j, req) THEN Passed \cup {j} ELSE Passed
  <2>1. \A s : Before(s, req)' <=> Before(s, req)
    BY <1>0 DEF Before
  <2>2. 0..(j' - 1) = (0..(j - 1)) \cup {j}
    BY <1>0, <1>1
  <2>3. Passed' = {s \in 0..(j' - 1) : Before(s, req)}
    BY <2>1 DEF Passed
  <2> QED
    BY <2>2, <2>3 DEF Passed
<1>4. spent' = Cardinality(Passed')
  BY <1>0, <1>1, <1>2, <1>3, FS_AddElement
<1>5. spent' \in 0..Slots
  <2>1. /\ IsFiniteSet(0..(j' - 1)) /\ Cardinality(0..(j' - 1)) = j + 1
        /\ Passed' \in SUBSET (0..(j' - 1))
    <3>1. j' - 1 = j /\ j' \in Nat
      BY <1>0, <1>1
    <3>2. Passed' \in SUBSET (0..(j' - 1))
      BY DEF Passed
    <3>3. 0 \in Int /\ j \in Int /\ ~(0 > j) /\ j - 0 + 1 = j + 1
      BY <1>1
    <3>4. IsFiniteSet(0..j) /\ Cardinality(0..j) = j + 1
      BY <3>3, FS_Interval
    <3> QED
      BY <3>1, <3>2, <3>4
  <2>2. IsFiniteSet(Passed') /\ Cardinality(Passed') <= j + 1
    BY <2>1, FS_Subset
  <2>3. Cardinality(Passed') \in Nat
    BY <2>2, FS_CardinalityType
  <2> QED
    BY <1>0, <1>1, <1>4, <2>2, <2>3
<1>6. TypeOK'
  BY <1>0, <1>1, <1>5 DEF IInv, TypeOK, RpcTypeOK
<1>7. QueueInv' /\ TicketInv'
  BY <1>0 DEF IInv, QueueInv, Claimed, TicketInv, Served
<1>8. HandlerInv'
  BY <1>0, <1>1, <1>4 DEF IInv, HandlerInv
<1>9. ASSUME NEW e \in Clients PROVE ClientInv(e)'
  BY <1>0, OthersKept
<1> QED
  BY <1>6, <1>7, <1>8, <1>9 DEF IInv

\* The letter is the next of the alphabet, and it goes to the ticket at hand.
LEMMA GiveLetterStep ==
  ASSUME IInv, GiveLetter
  PROVE  IInv'
<1> DEFINE r == [pid |-> 0, num |-> 0, res |-> c]
<1>0. /\ dpc = "serve" /\ c' = NextLetter /\ log' = Append(log, req.pid)
      /\ number' = [number EXCEPT ![req.pid] = 0] /\ SvcSendreply(req, r)
      /\ dpc' = "idle" /\ req' = None /\ j' = 0 /\ spent' = 0
      /\ UNCHANGED <<inq, num, up, cpc, cpid, cnum, cres>>
  BY DEF GiveLetter, clientVars
<1>1. /\ RpcTypeOK /\ num \in Nat /\ number \in [Slot -> Nat] /\ log \in Seq(Slot)
      /\ call \in [Clients -> Request \cup {None}] /\ reply \in [Clients -> Result \cup {None}]
      /\ c \in 1..Letters /\ c = (Len(log) % Letters) + 1 /\ Letters \in Nat \ {0}
      /\ req \in Request /\ req.pid < num
  BY <1>0, Bakery2Assumption DEF IInv, TypeOK, RpcTypeOK, HandlerInv
<1>2. req.pid \in Slot /\ req.pid \in Nat
  BY <1>1 DEF Request, Slot
<1>3. r \in Result /\ r.pid = 0 /\ r.res = c
  BY <1>1, RpcAssumption DEF Result, Slot
<1> HIDE DEF r
<1>4. /\ UNCHANGED <<call, resends>> /\ reply' \in [Clients -> Result \cup {None}]
      /\ \A cl \in Clients : \/ reply'[cl] = reply[cl]
                             \/ cl = req.cl /\ call[cl] = req /\ reply'[cl] = r
  BY <1>0, <1>1, <1>3, Replied
<1>5. /\ log' \in Seq(Slot) /\ Len(log) \in Nat /\ Len(log') = Len(log) + 1
      /\ DOMAIN log = 1..Len(log) /\ DOMAIN log' = 1..(Len(log) + 1)
      /\ log'[Len(log) + 1] = req.pid /\ \A k \in 1..Len(log) : log'[k] = log[k]
  BY <1>0, <1>1, <1>2
<1>6. number' \in [Slot -> Nat] /\ \A s \in Slot : number'[s] = IF s = req.pid THEN 0 ELSE number[s]
  BY <1>0, <1>1, <1>2
<1>7. c' \in 1..Letters /\ c' = (Len(log') % Letters) + 1
  <2>1. Len(log) % Letters \in 0..(Letters - 1)
    BY <1>1, <1>5
  <2>2. (Len(log) + 1) % Letters = IF Len(log) % Letters = Letters - 1 THEN 0 ELSE (Len(log) % Letters) + 1
    BY <1>1, <1>5, RemainderSucc
  <2> QED
    BY <1>0, <1>1, <1>5, <2>1, <2>2 DEF NextLetter
<1>8. TypeOK'
  <2>1. RpcTypeOK'
    BY <1>0, <1>1, <1>4 DEF RpcTypeOK
  <2> QED
    BY <1>0, <1>5, <1>6, <1>7, <2>1, RpcAssumption DEF IInv, TypeOK
<1>9. QueueInv'
  BY <1>0 DEF IInv, QueueInv, Claimed
<1>10. HandlerInv'
  BY <1>0, <1>7 DEF HandlerInv
<1>11. ASSUME NEW s \in Slot PROVE Served(s)' <=> Served(s) \/ s = req.pid
  <2>1. ASSUME NEW k \in 1..(Len(log) + 1), log'[k] = s PROVE Served(s) \/ s = req.pid
    <3>1. k \in 1..Len(log) \/ k = Len(log) + 1
      BY <1>5
    <3> QED
      BY <1>5, <2>1, <3>1 DEF Served
  <2>2. ASSUME NEW k \in 1..Len(log), log[k] = s PROVE Served(s)'
    <3>1. k \in 1..(Len(log) + 1) /\ log'[k] = s
      BY <1>5, <2>2
    <3> QED
      BY <1>5, <3>1 DEF Served
  <2>3. s = req.pid => Served(s)'
    <3>1. Len(log) + 1 \in 1..(Len(log) + 1)
      BY <1>5
    <3> QED
      BY <1>5, <3>1 DEF Served
  <2> QED
    BY <1>5, <2>1, <2>2, <2>3 DEF Served
<1>12. TicketInv'
  <2>1. ASSUME NEW s \in Slot, NEW u \in Slot, s < u, number'[s] # 0, number'[u] # 0
        PROVE  number'[s] < number'[u]
    BY <1>6, <2>1 DEF IInv, TicketInv
  <2>2. ASSUME NEW s \in Slot
        PROVE  /\ number'[s] # 0 => s < num' /\ ~Served(s)'
               /\ Served(s)' => s < num'
    BY <1>0, <1>1, <1>6, <1>11 DEF IInv, TicketInv
  <2> QED
    BY <2>1, <2>2 DEF TicketInv
<1>13. ASSUME NEW s, NEW l, Answered(s, l) 
       PROVE  \E k \in DOMAIN log' : log'[k] = s /\ l = ((k - 1) % Letters) + 1
  <2>1. PICK k \in DOMAIN log : log[k] = s /\ l = ((k - 1) % Letters) + 1
    BY <1>13 DEF Answered
  <2>2. k \in DOMAIN log' /\ log'[k] = s
    BY <1>5, <2>1
  <2> QED
    BY <2>1, <2>2
<1>14. \E k \in DOMAIN log' : log'[k] = req.pid /\ c = ((k - 1) % Letters) + 1
  <2>1. Len(log) + 1 \in DOMAIN log' /\ (Len(log) + 1) - 1 = Len(log)
    BY <1>5
  <2> QED
    BY <1>1, <1>5, <2>1
<1>15. ASSUME NEW e \in Clients PROVE ClientInv(e)'
  <2>1. ClientInv(e)
    BY DEF IInv
  <2>2. CASE reply'[e] = reply[e]
    <3>1. /\ cpc'[e] = cpc[e] /\ cpid'[e] = cpid[e] /\ cnum'[e] = cnum[e] /\ cres'[e] = cres[e]
          /\ num' = num /\ call'[e] = call[e]
      BY <1>0, <1>4
    <3>2. Answered(cpid[e], reply[e].res) =>
            \E k \in DOMAIN log' : log'[k] = cpid[e] /\ reply[e].res = ((k - 1) % Letters) + 1
      BY <1>13
    <3>3. Answered(cpid[e], cres[e]) =>
            \E k \in DOMAIN log' : log'[k] = cpid[e] /\ cres[e] = ((k - 1) % Letters) + 1
      BY <1>13
    <3> QED
      BY <2>1, <2>2, <3>1, <3>2, <3>3 DEF ClientInv, Answered
  <2>3. CASE call[e] = req /\ reply'[e] = r
    <3>1. call[e] # None
      BY <1>1, <2>3, RpcAssumption
    <3>2. cpid[e] = req.pid
      BY <2>1, <2>3, <3>1 DEF ClientInv
    <3>3. /\ cpc'[e] = cpc[e] /\ cpid'[e] = cpid[e] /\ cnum'[e] = cnum[e]
          /\ num' = num /\ call'[e] = call[e]
          /\ reply'[e].res = c /\ reply'[e].pid = 0 /\ 0 < num /\ c \in 0..Letters
      BY <1>0, <1>1, <1>2, <1>3, <1>4, <2>3
    <3>4. cpc[e] \in {"GET_NUMBER", "BAKERY_SERVICE"}
      BY <2>1, <3>1 DEF ClientInv
    <3> QED
      BY <1>14, <2>1, <3>1, <3>2, <3>3, <3>4 DEF ClientInv, Answered
  <2> QED
    BY <1>4, <2>2, <2>3
<1> QED
  BY <1>8, <1>9, <1>10, <1>12, <1>15 DEF IInv

-----------------------------------------------------------------------------

\* Before the first request.
LEMMA InitIInv == Init => IInv
<1> SUFFICES ASSUME Init PROVE IInv
  OBVIOUS
<1>0. Slots \in Nat \ {0} /\ MaxResend \in Nat /\ Letters \in Nat \ {0}
  BY RpcAssumption, Bakery2Assumption
<1>1. /\ log = <<>> /\ inq = <<>> /\ num = 0 /\ dpc = "idle" /\ c = 1 /\ 0 \in Slot
      /\ number = [s \in Slot |-> 0]
  BY <1>0 DEF Init, RpcInit, Slot
<1>2. /\ log \in Seq(Slot) /\ inq \in Seq(Request) /\ DOMAIN log = {} /\ Len(log) = 0 /\ Len(inq) = 0
  BY <1>1
<1>3. RpcTypeOK
  BY <1>0, <1>2 DEF Init, RpcInit, RpcTypeOK
<1>4. TypeOK
  BY <1>0, <1>1, <1>2, <1>3 DEF Init, TypeOK, ClientPCs
<1>5. QueueInv
  <2>1. 1..Len(inq) = {}
    BY <1>2
  <2> QED
    BY <2>1 DEF QueueInv
<1>6. TicketInv
  <2>1. \A s \in Slot : ~Served(s) /\ number[s] = 0
    BY <1>1, <1>2 DEF Served
  <2> QED
    BY <2>1 DEF TicketInv
<1>7. HandlerInv
  <2>1. 0 % Letters = 0
    BY <1>0, RemainderZero
  <2> QED
    BY <1>1, <1>2, <2>1 DEF HandlerInv
<1>8. ASSUME NEW e \in Clients PROVE ClientInv(e)
  BY DEF Init, RpcInit, ClientInv
<1> QED
  BY <1>4, <1>5, <1>6, <1>7, <1>8 DEF IInv

\* Every step preserves the invariant.
LEMMA NextIInv == IInv /\ [Next]_vars => IInv'
<1> SUFFICES ASSUME IInv, [Next]_vars PROVE IInv'
  OBVIOUS
<1>1. ASSUME NEW cl \in Clients, Client(cl) PROVE IInv'
  BY <1>1, SendStep, RecvStep DEF Client
<1>2. ASSUME NEW cl \in Clients, ClientTimeout(cl) PROVE IInv'
  BY <1>2, TimeoutStep
<1>3. ASSUME NEW cl \in Clients, ClientResend(cl) PROVE IInv'
  BY <1>3, ResendStep
<1>4. CASE Server
  BY <1>4, GetNumberStep, BakeryServiceStep, WaitForSlotStep, GiveLetterStep DEF Server
<1>5. CASE UNCHANGED vars
  <2>1. UNCHANGED <<inq, call, reply, resends, num, number, c, up, dpc, req, j, spent, log,
                    cpc, cpid, cnum, cres>>
    BY <1>5 DEF vars, rpcVars, loopVars, clientVars
  <2>2. TypeOK'
    BY <2>1 DEF IInv, TypeOK, RpcTypeOK
  <2>3. QueueInv'
    BY <2>1 DEF IInv, QueueInv, Claimed
  <2>4. ASSUME NEW e \in Clients PROVE ClientInv(e)'
    BY <2>1, OthersKept
  <2> QED
    BY <2>1, <2>2, <2>3, <2>4, ServerKept DEF IInv
<1> QED
  BY <1>1, <1>2, <1>3, <1>4, <1>5 DEF Next

\* The inductive invariant of the single-threaded bakery.
THEOREM Bakery2Invariant == Spec => []IInv
<1> QED
  BY InitIInv, NextIInv, PTL DEF Spec

\* Whatever is lost or sent twice, the tickets that are out keep their order, and
\* when bakery_service_1_svc gives a letter it has waited a second for each
\* earlier ticket, none of which was served before.
THEOREM OvertakesAbsent == Spec => []OvertakenOnlyIfAbsent
<1>1. ASSUME IInv PROVE OvertakenOnlyIfAbsent
  <2>1. ASSUME dpc = "serve", j = Slots
        PROVE  /\ spent = Cardinality({s \in Slot : Before(s, req)})
               /\ \A s \in Slot : Before(s, req) => ~Served(s) /\ s < num
    <3>1. Passed = {s \in Slot : Before(s, req)}
      BY <2>1 DEF Passed, Slot
    <3>2. \A s \in Slot : Before(s, req) => number[s] # 0
      BY DEF Before
    <3> QED
      BY <1>1, <2>1, <3>1, <3>2 DEF IInv, HandlerInv, TicketInv
  <2> QED
    BY <1>1, <2>1 DEF IInv, TicketInv, OvertakenOnlyIfAbsent
<1> QED
  BY <1>1, Bakery2Invariant, PTL

\* The letter a client prints was taken for its own ticket, and is the one the
\* endless alphabet has at that place.
THEOREM OwnLetters == Spec => []ClientGetsItsLetter
<1>1. IInv => ClientGetsItsLetter
  BY DEF IInv, ClientInv, ClientGetsItsLetter, Answered
<1> QED
  BY <1>1, Bakery2Invariant, PTL
=============================================================================
