---------------------------- MODULE Bakery1Proofs ----------------------------
(***************************************************************************)
(* Machine-checked proofs about Bakery1, for every number of clients,      *)
(* slots, letters and threads, and whatever is lost or sent twice.         *)
(***************************************************************************)
EXTENDS Bakery1Inv, NumberLemmas, TLAPS

-----------------------------------------------------------------------------
(* Facts about the transport.                                              *)

\* The head of the server's socket is a request, and so is what remains.
LEMMA SocketHead ==
  ASSUME RpcTypeOK, inq # <<>>
  PROVE  /\ Head(inq) \in Request
         /\ Head(inq) = inq[1]
         /\ Tail(inq) \in Seq(Request)
         /\ Len(Tail(inq)) = Len(inq) - 1
         /\ \A k \in 1..Len(Tail(inq)) : k + 1 \in 1..Len(inq) /\ Tail(inq)[k] = inq[k + 1]
  BY DEF RpcTypeOK

\* A request that is sent is appended to the socket, or is lost.
LEMMA DeliverType ==
  ASSUME RpcTypeOK, NEW m \in Request, Deliver(m)
  PROVE  /\ inq' \in Seq(Request)
         /\ \A k \in 1..Len(inq') : (k \in 1..Len(inq) /\ inq'[k] = inq[k]) \/ inq'[k] = m
<1>0. inq \in Seq(Request)
  BY DEF RpcTypeOK
<1>1. CASE inq' = Append(inq, m)
  <2>1. inq' \in Seq(Request) /\ Len(inq') = Len(inq) + 1 /\ Len(inq) \in Nat
    BY <1>0, <1>1
  <2>2. ASSUME NEW k \in 1..Len(inq')
        PROVE  (k \in 1..Len(inq) /\ inq'[k] = inq[k]) \/ inq'[k] = m
    BY <1>0, <1>1, <2>1
  <2> QED
    BY <2>1, <2>2
<1>2. CASE inq' = inq
  BY <1>0, <1>2
<1> QED
  BY <1>1, <1>2 DEF Deliver

\* An answer that is sent keeps the transport well typed.
LEMMA SendreplyType ==
  ASSUME RpcTypeOK, NEW m \in Request, NEW r \in Result, SvcSendreply(m, r)
  PROVE  /\ call' \in [Clients -> Request \cup {None}]
         /\ reply' \in [Clients -> Result \cup {None}]
         /\ resends' \in [Clients -> 0..MaxResend]
  BY DEF RpcTypeOK, SvcSendreply, Request

-----------------------------------------------------------------------------
(* Type correctness needs the control invariant: the loops index the       *)
(* arrays with i and tj.                                                   *)

\* A step of a client keeps the types.
LEMMA ClientTypes ==
  ASSUME TypeOK, NEW cl \in Clients,
         Client(cl) \/ ClientTimeout(cl) \/ ClientResend(cl)
  PROVE  TypeOK'
<1>1. ASSUME NEW from, NEW proc \in Procs, ClientSend(cl, from, proc)
      PROVE  TypeOK'
  <2> DEFINE m == [cl |-> cl, proc |-> proc, pid |-> cpid[cl], num |-> cnum[cl]]
  <2>1. m \in Request
    BY DEF TypeOK, Request
  <2>2. inq' \in Seq(Request)
    BY <1>1, <2>1, DeliverType DEF ClientSend, ClntCall, TypeOK
  <2>3. RpcTypeOK'
    BY <1>1, <2>1, <2>2 DEF ClientSend, ClntCall, TypeOK, RpcTypeOK
  <2>4. cpc' \in [Clients -> ClientPCs]
    BY <1>1 DEF ClientSend, TypeOK, ClientPCs, Procs
  <2> QED
    BY <1>1, <2>3, <2>4 DEF ClientSend, TypeOK, ticketVars, dispVars, threadVars
<1>2. ASSUME ClientRecv(cl) PROVE TypeOK'
  <2>1. reply[cl] \in Result
    BY <1>2 DEF ClientRecv, ClntReturn, TypeOK, RpcTypeOK
  <2>2. reply[cl].pid \in Slot /\ reply[cl].num \in Nat /\ reply[cl].res \in Nat
    BY <2>1 DEF Result
  <2>3. RpcTypeOK'
    BY <1>2 DEF ClientRecv, ClntReturn, TypeOK, RpcTypeOK
  <2>4. /\ cpc' \in [Clients -> ClientPCs]
        /\ cpid' \in [Clients -> Slot]
        /\ cnum' \in [Clients -> Nat]
        /\ cres' \in [Clients -> Nat]
    BY <1>2, <2>2 DEF ClientRecv, TypeOK, ClientPCs
  <2> QED
    BY <1>2, <2>3, <2>4 DEF ClientRecv, TypeOK, ticketVars, dispVars, threadVars
<1>3. ASSUME ClientTimeout(cl) PROVE TypeOK'
  <2>1. RpcTypeOK'
    BY <1>3 DEF ClientTimeout, ClntTimeout, TypeOK, RpcTypeOK
  <2>2. cpc' \in [Clients -> ClientPCs]
    BY <1>3 DEF ClientTimeout, TypeOK, ClientPCs
  <2> QED
    BY <1>3, <2>1, <2>2 DEF ClientTimeout, TypeOK, ticketVars, dispVars, threadVars
<1>4. ASSUME ClientResend(cl) PROVE TypeOK'
  <2>1. call[cl] \in Request
    BY <1>4 DEF ClientResend, Resend, TypeOK, RpcTypeOK
  <2>2. inq' \in Seq(Request)
    BY <1>4, <2>1, DeliverType DEF ClientResend, Resend, TypeOK
  <2>3. RpcTypeOK'
    BY <1>4, <2>2, RpcAssumption DEF ClientResend, Resend, TypeOK, RpcTypeOK
  <2> QED
    BY <1>4, <2>3 DEF ClientResend, TypeOK, ticketVars, dispVars, threadVars, clientVars
<1> QED
  BY <1>1, <1>2, <1>3, <1>4 DEF Client, Procs

\* A step of svc_run and its handlers keeps the types: the slot drawn, the loop
\* index and the request at hand are within their bounds.
LEMMA DispatcherTypes ==
  ASSUME TypeOK, ControlInv, Dispatcher
  PROVE  TypeOK'
<1> USE RpcAssumption
<1>0. RpcTypeOK
  BY DEF TypeOK
<1>1. CASE GetNumber
  <2>1. Head(inq) \in Request /\ Tail(inq) \in Seq(Request)
    BY <1>0, <1>1, SocketHead DEF GetNumber, Dispatch
  <2>2. RpcTypeOK'
    BY <1>0, <1>1, <2>1 DEF GetNumber, Dispatch, RpcTypeOK
  <2>3. num < Slots => num \in Slot
    BY DEF TypeOK, Slot
  <2>4. num' \in Nat /\ 0 \in 0..Slots
    BY <1>1 DEF GetNumber, TypeOK
  <2>5. choosing' \in [Slot -> BOOLEAN]
    BY <1>1 DEF GetNumber, TypeOK
  <2>6. /\ req' \in Request \cup {None} /\ ind' \in Slot /\ i' \in 0..Slots
        /\ max' \in Nat /\ dpc' \in DispatcherPCs
        /\ up' \in {"up", "exited", "crashed", "undefined"}
    BY <1>1, <2>1, <2>3, <2>4 DEF GetNumber, TypeOK, DispatcherPCs, dispVars
  <2> QED
    BY <1>1, <2>2, <2>4, <2>5, <2>6 DEF GetNumber, TypeOK, threadVars, clientVars
<1>2. CASE ScanNumber
  <2>1. i \in Slot /\ i + 1 \in 0..Slots
    BY <1>2 DEF ScanNumber, TypeOK, ControlInv, Slot
  <2>2. max' \in Nat /\ i' \in 0..Slots /\ dpc' \in DispatcherPCs
    BY <1>2, <2>1 DEF ScanNumber, NewMax, TypeOK, DispatcherPCs
  <2> QED
    BY <1>0, <1>2, <2>2
       DEF ScanNumber, TypeOK, RpcTypeOK, rpcVars, ticketVars, threadVars, clientVars
<1>3. CASE AssignNumber
  <2>1. number' \in [Slot -> Nat] /\ dpc' \in DispatcherPCs
    BY <1>3 DEF AssignNumber, TypeOK, DispatcherPCs
  <2> QED
    BY <1>0, <1>3, <2>1
       DEF AssignNumber, TypeOK, RpcTypeOK, rpcVars, threadVars, clientVars
<1>4. HandlerReturns => /\ dpc' \in DispatcherPCs /\ req' \in Request \cup {None}
                        /\ ind' \in Slot /\ i' \in 0..Slots /\ max' \in Nat
  BY DEF HandlerReturns, DispatcherPCs, Slot
<1>5. CASE EndGetNumber
  <2>1. req \in Request
    BY <1>5 DEF EndGetNumber, TypeOK, ControlInv
  <2>2. DrawnTicket \in Result
    BY DEF DrawnTicket, TypeOK, Result
  <2>3. RpcTypeOK'
    BY <1>0, <1>5, <2>1, <2>2, SendreplyType DEF EndGetNumber, RpcTypeOK
  <2>4. choosing' \in [Slot -> BOOLEAN]
    BY <1>5 DEF EndGetNumber, TypeOK
  <2> QED
    BY <1>4, <1>5, <2>3, <2>4 DEF EndGetNumber, TypeOK, threadVars, clientVars
<1>6. CASE BakeryWait
  <2> DEFINE m == Head(inq)
  <2>1. m \in Request /\ Tail(inq) \in Seq(Request)
    BY <1>0, <1>6, SocketHead DEF BakeryWait, Dispatch
  <2>2. [pid |-> 0, num |-> 0, res |-> 0] \in Result
    BY DEF Result, Slot
  <2>3. m.pid \in Slot
    BY <2>1 DEF Request
  <2>4. inq' \in Seq(Request)
    BY <1>6, <2>1 DEF BakeryWait, Dispatch
  <2>5. CASE up' = "exited" /\ UNCHANGED <<tpc, tslot, thr, waits, call, reply, resends>>
    BY <1>0, <1>6, <2>4, <2>5
       DEF BakeryWait, TypeOK, RpcTypeOK, ticketVars, dispVars, clientVars
  <2>6. ASSUME NEW h \in Threads,
               tpc' = [tpc EXCEPT ![h] = "choosing"],
               tslot' = [tslot EXCEPT ![h] = m.pid],
               thr' = [thr EXCEPT ![m.pid] = h],
               waits' = [waits EXCEPT ![m.pid] = @ + 1],
               SvcSendreply(m, [pid |-> 0, num |-> 0, res |-> 0]),
               UNCHANGED up
        PROVE  TypeOK'
    <3>1. RpcTypeOK'
      BY <1>0, <2>1, <2>2, <2>4, <2>6, SendreplyType DEF RpcTypeOK
    <3>2. /\ tpc' \in [Threads -> ThreadPCs]
          /\ tslot' \in [Threads -> Slot]
          /\ thr' \in [Slot -> Threads \cup {NoThread}]
          /\ waits' \in [Slot -> Nat]
      BY <2>3, <2>6 DEF TypeOK, ThreadPCs
    <3> QED
      BY <1>6, <2>6, <3>1, <3>2 DEF BakeryWait, TypeOK, ticketVars, dispVars, clientVars
  <2> QED
    BY <1>6, <2>5, <2>6 DEF BakeryWait
<1>7. CASE BakeryService
  <2>1. Head(inq) \in Request /\ Tail(inq) \in Seq(Request)
    BY <1>0, <1>7, SocketHead DEF BakeryService, Dispatch
  <2>2. RpcTypeOK'
    BY <1>0, <1>7, <2>1 DEF BakeryService, Dispatch, RpcTypeOK
  <2>3. /\ up' \in {"up", "exited", "crashed", "undefined"}
        /\ dpc' \in DispatcherPCs /\ req' \in Request \cup {None}
    BY <1>7, <2>1 DEF BakeryService, TypeOK, DispatcherPCs
  <2> QED
    BY <1>7, <2>2, <2>3 DEF BakeryService, TypeOK, ticketVars, threadVars, clientVars
<1>8. CASE JoinReturns
  <2>1. req \in Request
    BY <1>8 DEF JoinReturns, TypeOK, ControlInv
  <2>2. [pid |-> 0, num |-> 0, res |-> res[req.pid]] \in Result
    BY <2>1 DEF TypeOK, Result, Request, Slot
  <2>3. RpcTypeOK'
    BY <1>0, <1>8, <2>1, <2>2, SendreplyType DEF JoinReturns, RpcTypeOK
  <2>a. 0 \in Slot /\ 0 \in 0..Slots
    BY DEF Slot
  <2>4. /\ tpc' \in [Threads -> ThreadPCs]
        /\ tslot' \in [Threads -> Slot]
        /\ tj' \in [Threads -> 0..Slots]
    BY <1>8, <2>a DEF JoinReturns, TypeOK, ThreadPCs
  <2> QED
    BY <1>4, <1>8, <2>3, <2>4 DEF JoinReturns, TypeOK, ticketVars, clientVars
<1> QED
  BY <1>1, <1>2, <1>3, <1>5, <1>6, <1>7, <1>8 DEF Dispatcher

\* A step of a thread keeps the types: its loop ends at the end of the arrays.
LEMMA ThreadTypes ==
  ASSUME TypeOK, ControlInv, NEW h \in Threads, Thread(h)
  PROVE  TypeOK'
<1> USE RpcAssumption DEF ThreadPCs, rpcVars, ticketVars, dispVars, clientVars
<1>0. RpcTypeOK /\ tslot[h] \in Slot /\ tmp[h] \in Nat
  BY DEF TypeOK
<1>1. CASE PassChoosing(h)
  BY <1>0, <1>1 DEF PassChoosing, TypeOK, RpcTypeOK
<1>2. CASE PassNumber(h)
  <2>1. tj[h] + 1 \in 0..Slots
    BY <1>2 DEF PassNumber, TypeOK, ControlInv, Spinning
  <2> QED
    BY <1>0, <1>2, <2>1 DEF PassNumber, TypeOK, RpcTypeOK
<1>3. CASE LoadLetter(h)
  BY <1>0, <1>3 DEF LoadLetter, TypeOK, RpcTypeOK
<1>4. CASE StoreLetter(h)
  <2>1. /\ c' \in Nat /\ res' \in [Slot -> Nat]
        /\ tmp' \in [Threads -> Nat] /\ tpc' \in [Threads -> ThreadPCs]
    BY <1>0, <1>4 DEF StoreLetter, TypeOK
  <2> QED
    BY <1>0, <1>4, <2>1 DEF StoreLetter, TypeOK, RpcTypeOK
<1>5. CASE TestWrap(h)
  BY <1>0, <1>5 DEF TestWrap, TypeOK, RpcTypeOK
<1>6. CASE ResetLetter(h)
  BY <1>0, <1>6 DEF ResetLetter, TypeOK, RpcTypeOK
<1>7. CASE Leave(h)
  BY <1>0, <1>7 DEF Leave, TypeOK, RpcTypeOK
<1> QED
  BY <1>1, <1>2, <1>3, <1>4, <1>5, <1>6, <1>7 DEF Thread

-----------------------------------------------------------------------------
(* The control invariant.                                                  *)

\* A step keeps the program counters and the locals they use in agreement.
LEMMA ControlStep ==
  ASSUME TypeOK, ControlInv, Next
  PROVE  ControlInv'
<1> USE RpcAssumption DEF Spinning, InService
<1>0. RpcTypeOK /\ i \in 0..Slots /\ num \in Nat /\ ind \in Slot
  BY DEF TypeOK
<1>1. ASSUME NEW cl \in Clients, Client(cl) \/ ClientTimeout(cl) \/ ClientResend(cl)
      PROVE  ControlInv'
  BY <1>1 DEF Client, ClientSend, ClientRecv, ClientTimeout, ClientResend,
              ControlInv, dispVars, threadVars, ticketVars
<1>2. CASE GetNumber
  <2>1. Head(inq) # None
    BY <1>0, <1>2, SocketHead DEF GetNumber, Dispatch
  <2> QED
    BY <1>0, <1>2, <2>1 DEF GetNumber, Dispatch, ControlInv, threadVars, dispVars
<1>3. CASE ScanNumber
  BY <1>0, <1>3 DEF ScanNumber, ControlInv, threadVars, ticketVars
<1>4. CASE AssignNumber
  BY <1>4 DEF AssignNumber, ControlInv, threadVars
<1>5. CASE EndGetNumber
  BY <1>5 DEF EndGetNumber, HandlerReturns, ControlInv, threadVars
<1>6. CASE BakeryWait
  <2>1. ASSUME NEW h \in Threads
        PROVE  /\ tj'[h] = tj[h]
               /\ \/ tpc'[h] = tpc[h]
                  \/ tpc'[h] = "choosing" /\ tj[h] = 0
    BY <1>6 DEF BakeryWait, TypeOK, ControlInv
  <2> QED
    BY <1>6, <2>1 DEF BakeryWait, ControlInv, dispVars, ticketVars
<1>7. CASE BakeryService
  <2>1. Head(inq) # None
    BY <1>0, <1>7, SocketHead DEF BakeryService, Dispatch
  <2> QED
    BY <1>7, <2>1 DEF BakeryService, Dispatch, ControlInv, threadVars, ticketVars
<1>8. CASE JoinReturns
  BY <1>8 DEF JoinReturns, HandlerReturns, ControlInv, TypeOK
<1>9. ASSUME NEW h \in Threads, Thread(h) PROVE ControlInv'
  <2> USE DEF ControlInv, rpcVars, dispVars, ticketVars, TypeOK
  <2>1. CASE PassChoosing(h)
    BY <2>1 DEF PassChoosing
  <2>2. CASE PassNumber(h)
    BY <2>2 DEF PassNumber
  <2>3. CASE LoadLetter(h)
    BY <2>3 DEF LoadLetter
  <2>4. CASE StoreLetter(h)
    BY <2>4 DEF StoreLetter
  <2>5. CASE TestWrap(h)
    BY <2>5 DEF TestWrap
  <2>6. CASE ResetLetter(h)
    BY <2>6 DEF ResetLetter
  <2>7. CASE Leave(h)
    BY <2>7 DEF Leave
  <2> QED
    BY <1>9, <2>1, <2>2, <2>3, <2>4, <2>5, <2>6, <2>7 DEF Thread
<1> QED
  BY <1>1, <1>2, <1>3, <1>4, <1>5, <1>6, <1>7, <1>8, <1>9 DEF Next, Dispatcher

-----------------------------------------------------------------------------
(* Tickets.                                                                *)

\* Once its number is written a ticket stays issued, and AssignNumber is the
\* only step that issues one.
LEMMA IssuedStep ==
  ASSUME TypeOK, ControlInv, Next, NEW s \in Slot
  PROVE  /\ Issued(s) => Issued(s)'
         /\ Issued(s)' => Issued(s) \/ (AssignNumber /\ s = ind)
<1> USE DEF Issued
<1>0. num \in Nat /\ ind \in Slot /\ s \in 0..(Slots - 1) /\ Slots \in Nat
  BY RpcAssumption DEF TypeOK, Slot
<1>1. ASSUME NEW cl \in Clients, Client(cl) \/ ClientTimeout(cl) \/ ClientResend(cl)
      PROVE  UNCHANGED <<num, dpc, ind>>
  BY <1>1 DEF Client, ClientSend, ClientRecv, ClientTimeout, ClientResend,
              dispVars, ticketVars
<1>2. CASE GetNumber
  BY <1>0, <1>2 DEF GetNumber, Dispatch, dispVars
<1>3. CASE ScanNumber
  BY <1>3 DEF ScanNumber, ticketVars
<1>4. CASE AssignNumber
  BY <1>0, <1>4 DEF AssignNumber, ControlInv
<1>5. CASE EndGetNumber
  BY <1>0, <1>5 DEF EndGetNumber, HandlerReturns
<1>6. CASE BakeryWait
  BY <1>6 DEF BakeryWait, dispVars, ticketVars
<1>7. CASE BakeryService
  BY <1>7 DEF BakeryService, Dispatch, ticketVars
<1>8. CASE JoinReturns
  BY <1>8 DEF JoinReturns, HandlerReturns, ticketVars
<1>9. ASSUME NEW h \in Threads, Thread(h) PROVE UNCHANGED <<num, dpc, ind>>
  BY <1>9 DEF Thread, PassChoosing, PassNumber, LoadLetter, StoreLetter, TestWrap,
              ResetLetter, Leave, dispVars, ticketVars
<1> QED
  BY <1>1, <1>2, <1>3, <1>4, <1>5, <1>6, <1>7, <1>8, <1>9 DEF Next, Dispatcher

\* A request keeps naming an issued ticket.
LEMMA ClaimedStep ==
  ASSUME TypeOK, ControlInv, Next, NEW m \in Request, Claimed(m)
  PROVE  Claimed(m)'
<1>1. m.pid \in Slot
  BY DEF Request
<1> QED
  BY <1>1, IssuedStep DEF Claimed

\* What a client sends names its own ticket, which is issued by then.
LEMMA SentIsClaimed ==
  ASSUME TypeOK, ClientInv, NEW cl \in Clients, NEW from, NEW proc,
         \/ from = "start" /\ proc = "GET_NUMBER"
         \/ from = "ticket" /\ proc = "BAKERY_WAIT"
         \/ from = "queued" /\ proc = "BAKERY_SERVICE",
         cpc[cl] = from
  PROVE  LET m == [cl |-> cl, proc |-> proc, pid |-> cpid[cl], num |-> cnum[cl]]
         IN  m \in Request /\ Claimed(m)
  BY DEF TypeOK, ClientInv, HasTicket, Claimed, Request, Procs

\* The threads touch neither the transport, nor the clients, nor the handlers.
LEMMA ThreadFrame ==
  ASSUME NEW h \in Threads, Thread(h)
  PROVE  /\ UNCHANGED <<inq, call, reply, resends, num, choosing, thr, up, dpc, req,
                        ind, i, max, tslot, waits, cpc, cpid, cnum, cres>>
         /\ Leave(h) \/ UNCHANGED number
  BY DEF Thread, PassChoosing, PassNumber, LoadLetter, StoreLetter, TestWrap,
         ResetLetter, Leave, rpcVars, ticketVars, dispVars, clientVars

\* The clients touch nothing of the server.
LEMMA ClientFrame ==
  ASSUME NEW cl \in Clients, Client(cl) \/ ClientTimeout(cl) \/ ClientResend(cl)
  PROVE  UNCHANGED <<num, choosing, number, c, thr, res, up, dpc, req, ind, i, max,
                     tpc, tslot, tj, tmp, waits>>
  BY DEF Client, ClientSend, ClientRecv, ClientTimeout, ClientResend, ticketVars,
         dispVars, threadVars

\* The requests on their way name issued tickets.
LEMMA QueueStep ==
  ASSUME TypeOK, ControlInv, QueueInv, ClientInv, Next
  PROVE  QueueInv'
<1>0. RpcTypeOK
  BY DEF TypeOK
<1>1. inq \in Seq(Request) /\ inq' \in Seq(Request)
  <2>1. TypeOK'
    BY ClientTypes, DispatcherTypes, ThreadTypes DEF Next
  <2> QED
    BY <2>1 DEF TypeOK, RpcTypeOK
<1>2. SUFFICES ASSUME NEW k \in 1..Len(inq'), NEW m \in Request, m = inq'[k]
               PROVE  Claimed(m)
  <2>1. ASSUME NEW m \in Request, Claimed(m) PROVE Claimed(m)'
    BY <2>1, ClaimedStep
  <2>2. ASSUME NEW k \in 1..Len(inq') PROVE inq'[k] \in Request
    BY <1>1
  <2> QED
    BY <2>1, <2>2 DEF QueueInv, Claimed, Issued
<1>3. CASE inq' = inq
  BY <1>2, <1>3 DEF QueueInv
<1>4. CASE inq # <<>> /\ inq' = Tail(inq)
  BY <1>0, <1>2, <1>4, SocketHead DEF QueueInv
<1>5. ASSUME NEW n \in Request, Claimed(n), Deliver(n) PROVE Claimed(m)
  <2>1. (k \in 1..Len(inq) /\ inq'[k] = inq[k]) \/ inq'[k] = n
    BY <1>0, <1>5, DeliverType
  <2> QED
    BY <1>2, <1>5, <2>1 DEF QueueInv
<1>6. ASSUME NEW cl \in Clients, Client(cl) \/ ClientTimeout(cl) \/ ClientResend(cl)
      PROVE  Claimed(m)
  <2>1. CASE ClientSend(cl, "start", "GET_NUMBER")
    BY <1>5, <2>1, SentIsClaimed DEF ClientSend, ClntCall
  <2>2. CASE ClientSend(cl, "ticket", "BAKERY_WAIT")
    BY <1>5, <2>2, SentIsClaimed DEF ClientSend, ClntCall
  <2>3. CASE ClientSend(cl, "queued", "BAKERY_SERVICE")
    BY <1>5, <2>3, SentIsClaimed DEF ClientSend, ClntCall
  <2>4. CASE ClientRecv(cl) \/ ClientTimeout(cl)
    BY <1>3, <2>4 DEF ClientRecv, ClntReturn, ClientTimeout, ClntTimeout
  <2>5. CASE ClientResend(cl)
    <3>1. call[cl] \in Request /\ Claimed(call[cl])
      BY <1>0, <2>5 DEF ClientResend, Resend, ClientInv, RpcTypeOK
    <3> QED
      BY <1>5, <2>5, <3>1 DEF ClientResend, Resend
  <2> QED
    BY <1>6, <2>1, <2>2, <2>3, <2>4, <2>5 DEF Client
<1>7. CASE Dispatcher
  BY <1>3, <1>4, <1>7
     DEF Dispatcher, GetNumber, ScanNumber, AssignNumber, EndGetNumber, BakeryWait,
         BakeryService, JoinReturns, Dispatch, rpcVars
<1>8. ASSUME NEW h \in Threads, Thread(h) PROVE Claimed(m)
  BY <1>3, <1>8, ThreadFrame
<1> QED
  BY <1>6, <1>7, <1>8 DEF Next

\* An answer to a GET_NUMBER that names an issued ticket, and any answer to
\* another call, keeps the clients' claims.
LEMMA ReplyStep ==
  ASSUME TypeOK, ControlInv, ClientInv, Next,
         NEW m \in Request, NEW r \in Result, SvcSendreply(m, r),
         UNCHANGED <<cpc, cpid>>,
         m.proc = "GET_NUMBER" => Issued(r.pid)'
  PROVE  ClientInv'
<1>0. \A s \in Slot : Issued(s) => Issued(s)'
  BY IssuedStep
<1>1. SUFFICES ASSUME NEW cl \in Clients
               PROVE  /\ HasTicket(cl)' => Issued(cpid[cl])'
                      /\ reply'[cl] # None => call'[cl] # None
                      /\ cpc'[cl] = "GET_NUMBER" /\ reply'[cl] # None
                           => Issued(reply[cl].pid)'
                      /\ call'[cl] # None => /\ call'[cl].proc = cpc'[cl]
                                             /\ call'[cl].cl = cl
                                             /\ Claimed(call[cl])'
  BY DEF ClientInv
<1>2. call' = call /\ m.cl \in Clients /\ m.pid \in Slot
  BY DEF SvcSendreply, Request
<1>3. HasTicket(cl)' => Issued(cpid[cl])'
  <2>1. cpid[cl] \in Slot /\ (HasTicket(cl) => Issued(cpid[cl]))
    BY DEF ClientInv, TypeOK
  <2> QED
    BY <1>0, <2>1 DEF HasTicket, Issued
<1>4. call'[cl] # None => /\ call'[cl].proc = cpc'[cl]
                          /\ call'[cl].cl = cl
                          /\ Claimed(call[cl])'
  <2>1. ASSUME call[cl] # None
        PROVE  /\ call[cl].pid \in Slot
               /\ call[cl].proc = cpc[cl] /\ call[cl].cl = cl /\ Claimed(call[cl])
    BY <2>1 DEF ClientInv, TypeOK, RpcTypeOK, Request
  <2> QED
    BY <1>0, <1>2, <2>1 DEF Claimed, Issued
<1>5. CASE reply'[cl] = reply[cl]
  <2>1. reply[cl] # None => reply[cl].pid \in Slot /\ call[cl] # None
    BY DEF ClientInv, TypeOK, RpcTypeOK, Result
  <2>2. cpc[cl] = "GET_NUMBER" /\ reply[cl] # None => Issued(reply[cl].pid)
    BY DEF ClientInv
  <2> QED
    BY <1>0, <1>2, <1>3, <1>4, <1>5, <2>1, <2>2 DEF Issued
<1>6. CASE cl = m.cl /\ call[cl] = m /\ reply'[cl] = r
  <2>1. m # None /\ cpc[cl] = m.proc
    BY <1>6, RpcAssumption DEF ClientInv
  <2> QED
    BY <1>2, <1>3, <1>4, <1>6, <2>1 DEF Issued
<1> QED
  BY <1>2, <1>5, <1>6 DEF SvcSendreply, TypeOK, RpcTypeOK

\* A step that leaves the clients and their calls alone keeps their claims.
LEMMA ClientKept ==
  ASSUME TypeOK, ControlInv, ClientInv, Next, UNCHANGED <<cpc, cpid, call, reply>>
  PROVE  ClientInv'
<1>0. \A s \in Slot : Issued(s) => Issued(s)'
  BY IssuedStep
<1>1. ASSUME NEW cl \in Clients
      PROVE  /\ cpid[cl] \in Slot
             /\ call[cl] # None => call[cl].pid \in Slot
             /\ reply[cl] # None => reply[cl].pid \in Slot
  BY DEF TypeOK, RpcTypeOK, Request, Result
<1> QED
  BY <1>0, <1>1 DEF ClientInv, HasTicket, Claimed, Issued

\* A client holds no ticket, waits for one, or holds one that is issued.
LEMMA ClientStep ==
  ASSUME TypeOK, ControlInv, QueueInv, ClientInv, Next
  PROVE  ClientInv'
<1>0. RpcTypeOK
  BY DEF TypeOK
<1>1. ASSUME NEW d \in Clients, Client(d) \/ ClientTimeout(d) \/ ClientResend(d)
      PROVE  ClientInv'
  <2>0. UNCHANGED <<num, dpc, ind>>
    BY <1>1, ClientFrame
  <2>1. ASSUME NEW from, NEW proc,
               \/ from = "start" /\ proc = "GET_NUMBER"
               \/ from = "ticket" /\ proc = "BAKERY_WAIT"
               \/ from = "queued" /\ proc = "BAKERY_SERVICE",
               ClientSend(d, from, proc)
        PROVE  ClientInv'
    <3> DEFINE m == [cl |-> d, proc |-> proc, pid |-> cpid[d], num |-> cnum[d]]
    <3>1. cpc[d] = from /\ call[d] = None /\ call' = [call EXCEPT ![d] = m]
          /\ reply' = reply /\ cpc' = [cpc EXCEPT ![d] = proc] /\ cpid' = cpid
      BY <2>1 DEF ClientSend, ClntCall
    <3>2. m \in Request /\ Claimed(m)
      BY <2>1, <3>1, SentIsClaimed
    <3>3. reply[d] = None
      BY <3>1 DEF ClientInv
    <3>4. HasTicket(d)' => Issued(cpid[d])
      BY <2>1, <3>1 DEF ClientInv, HasTicket, TypeOK
    <3>5. \A cl \in Clients \ {d} : call'[cl] = call[cl] /\ cpc'[cl] = cpc[cl]
      BY <3>1 DEF TypeOK, RpcTypeOK
    <3>6. call'[d] = m /\ cpc'[d] = proc
      BY <3>1 DEF TypeOK, RpcTypeOK
    <3>7. \A cl \in Clients : HasTicket(cl)' => Issued(cpid[cl])
      BY <3>4, <3>5 DEF ClientInv, HasTicket
    <3>8. m.cl = d /\ m.proc = proc /\ m # None
      BY <3>2, RpcAssumption
    <3> HIDE DEF m
    <3> QED
      BY <2>0, <3>1, <3>2, <3>3, <3>5, <3>6, <3>7, <3>8
         DEF ClientInv, HasTicket, Claimed, Issued
  <2>2. CASE ClientRecv(d)
    <3>1. /\ reply[d] # None
          /\ call' = [call EXCEPT ![d] = None]
          /\ reply' = [reply EXCEPT ![d] = None]
      BY <2>2 DEF ClientRecv, ClntReturn
    <3>2. /\ \A cl \in Clients \ {d} : /\ call'[cl] = call[cl] /\ cpc'[cl] = cpc[cl]
                                       /\ reply'[cl] = reply[cl] /\ cpid'[cl] = cpid[cl]
          /\ call'[d] = None /\ reply'[d] = None
      BY <2>2, <3>1 DEF ClientRecv, TypeOK, RpcTypeOK
    <3>3. HasTicket(d)' => Issued(cpid'[d])
      BY <2>2, <3>1 DEF ClientRecv, ClientInv, HasTicket, TypeOK
    <3> QED
      BY <2>0, <3>2, <3>3 DEF ClientInv, HasTicket, Claimed, Issued
  <2>3. CASE ClientTimeout(d)
    <3>1. /\ call[d] # None /\ reply[d] = None /\ reply' = reply /\ cpid' = cpid
          /\ call' = [call EXCEPT ![d] = None]
      BY <2>3 DEF ClientTimeout, ClntTimeout
    <3>2. /\ \A cl \in Clients \ {d} : call'[cl] = call[cl] /\ cpc'[cl] = cpc[cl]
          /\ call'[d] = None
      BY <2>3, <3>1 DEF ClientTimeout, TypeOK, RpcTypeOK
    <3>3. HasTicket(d)' => HasTicket(d)
      BY <2>3 DEF ClientTimeout, HasTicket, TypeOK
    <3> QED
      BY <2>0, <3>1, <3>2, <3>3 DEF ClientInv, HasTicket, Claimed, Issued
  <2>4. CASE ClientResend(d)
    BY <2>4, ClientKept DEF ClientResend, Resend, clientVars
  <2> QED
    BY <1>1, <2>1, <2>2, <2>3, <2>4 DEF Client
<1>2. CASE EndGetNumber
  <2>1. req \in Request
    BY <1>2 DEF EndGetNumber, TypeOK, ControlInv
  <2>2. ind \in Slot /\ number[ind] \in Nat /\ num = ind + 1
    BY <1>2 DEF EndGetNumber, TypeOK, ControlInv
  <2>3. DrawnTicket \in Result /\ DrawnTicket.pid = ind
    BY <2>2 DEF DrawnTicket, Result
  <2>4. ind < num' /\ dpc' = "idle"
    BY <1>2, <2>2, RpcAssumption DEF EndGetNumber, HandlerReturns, Slot
  <2> QED
    BY <1>2, <2>1, <2>3, <2>4, ReplyStep DEF EndGetNumber, clientVars, Issued
<1>3. CASE BakeryWait
  <2>1. Head(inq) \in Request /\ Head(inq).proc = "BAKERY_WAIT"
    BY <1>0, <1>3, SocketHead DEF BakeryWait, Dispatch
  <2>2. [pid |-> 0, num |-> 0, res |-> 0] \in Result
    BY RpcAssumption DEF Result, Slot
  <2>3. UNCHANGED <<cpc, cpid>>
    BY <1>3 DEF BakeryWait, clientVars
  <2>4. CASE UNCHANGED <<call, reply>>
    BY <2>3, <2>4, ClientKept
  <2>5. CASE SvcSendreply(Head(inq), [pid |-> 0, num |-> 0, res |-> 0])
    BY <2>1, <2>2, <2>3, <2>5, ReplyStep
  <2> QED
    BY <1>3, <2>4, <2>5 DEF BakeryWait
<1>4. CASE JoinReturns
  <2>1. req \in Request /\ req.proc = "BAKERY_SERVICE"
    BY <1>4 DEF JoinReturns, TypeOK, ControlInv
  <2>2. [pid |-> 0, num |-> 0, res |-> res[req.pid]] \in Result
    BY <2>1, RpcAssumption DEF TypeOK, Result, Request, Slot
  <2> QED
    BY <1>4, <2>1, <2>2, ReplyStep DEF JoinReturns, clientVars
<1>5. CASE GetNumber \/ ScanNumber \/ AssignNumber \/ BakeryService
  BY <1>5, ClientKept
     DEF GetNumber, ScanNumber, AssignNumber, BakeryService, rpcVars, clientVars
<1>6. ASSUME NEW h \in Threads, Thread(h) PROVE ClientInv'
  BY <1>6, ThreadFrame, ClientKept
<1> QED
  BY <1>1, <1>2, <1>3, <1>4, <1>5, <1>6 DEF Next, Dispatcher

-----------------------------------------------------------------------------
(* Threads.                                                                *)

\* bakery_wait_1_svc starts a thread on a free descriptor, for the ticket the
\* request names, or leaves the threads alone.
LEMMA WaitStarts ==
  ASSUME TypeOK, ControlInv, QueueInv, BakeryWait
  PROVE  /\ inq # <<>> /\ Head(inq).pid \in Slot /\ Issued(Head(inq).pid)
         /\ UNCHANGED <<num, number, tj, dpc, ind, i, max>>
         /\ \/ UNCHANGED <<tpc, tslot, waits>>
            \/ \E h \in Threads :
                 /\ tpc[h] = "free" /\ tj[h] = 0
                 /\ tpc' = [tpc EXCEPT ![h] = "choosing"]
                 /\ tslot' = [tslot EXCEPT ![h] = Head(inq).pid]
                 /\ waits' = [waits EXCEPT ![Head(inq).pid] = @ + 1]
<1>1. inq # <<>> /\ Head(inq).proc = "BAKERY_WAIT"
  BY DEF BakeryWait, Dispatch
<1>2. Head(inq) \in Request /\ Head(inq) = inq[1] /\ 1 \in 1..Len(inq)
  BY <1>1, SocketHead DEF TypeOK, RpcTypeOK
<1>3. Head(inq).pid \in Slot /\ Issued(Head(inq).pid)
  BY <1>1, <1>2 DEF QueueInv, Claimed, Request
<1> QED
  BY <1>1, <1>3 DEF BakeryWait, ControlInv, ticketVars, dispVars

\* No other step starts a thread, moves one to another ticket, or counts a wait.
LEMMA ThreadLife ==
  ASSUME TypeOK, Next, ~BakeryWait, NEW h \in Threads
  PROVE  /\ waits' = waits
         /\ tpc'[h] # "free" => tpc[h] # "free" /\ tslot'[h] = tslot[h]
         /\ tpc'[h] \notin {"free", "done"} => tpc[h] \notin {"free", "done"}
<1>1. ASSUME NEW cl \in Clients, Client(cl) \/ ClientTimeout(cl) \/ ClientResend(cl)
      PROVE  UNCHANGED <<tpc, tslot, waits>>
  BY <1>1, ClientFrame
<1>2. CASE GetNumber \/ ScanNumber \/ AssignNumber \/ EndGetNumber \/ BakeryService
  BY <1>2 DEF GetNumber, ScanNumber, AssignNumber, EndGetNumber, BakeryService, threadVars
<1>3. CASE JoinReturns
  BY <1>3 DEF JoinReturns, TypeOK
<1>4. ASSUME NEW k \in Threads, Thread(k)
      PROVE  /\ UNCHANGED <<tslot, waits>>
             /\ tpc[k] \notin {"free", "done"}
             /\ h # k => tpc'[h] = tpc[h]
  <2>1. UNCHANGED <<tslot, waits>>
    BY <1>4, ThreadFrame
  <2> QED
    BY <1>4, <2>1 DEF Thread, PassChoosing, PassNumber, LoadLetter, StoreLetter,
                      TestWrap, ResetLetter, Leave, TypeOK
<1> QED
  BY <1>1, <1>2, <1>3, <1>4 DEF Next, Dispatcher

\* Every thread works for an issued ticket.
LEMMA ThreadStep ==
  ASSUME TypeOK, ControlInv, QueueInv, ThreadInv, Next
  PROVE  ThreadInv'
<1>0. \A s \in Slot : Issued(s) => Issued(s)'
  BY IssuedStep
<1>1. SUFFICES ASSUME NEW h \in Threads, tpc'[h] # "free"
               PROVE  tslot'[h] \in Slot /\ Issued(tslot'[h])
  BY <1>0 DEF ThreadInv, Issued
<1>2. CASE BakeryWait
  BY <1>1, <1>2, WaitStarts DEF ThreadInv, TypeOK
<1>3. CASE ~BakeryWait
  BY <1>1, <1>3, ThreadLife DEF ThreadInv, TypeOK
<1> QED
  BY <1>2, <1>3

-----------------------------------------------------------------------------
(* Numbers.                                                                *)

\* number[] is written by AssignNumber, for the slot being drawn, and by Leave.
LEMMA NumberFrame ==
  ASSUME TypeOK, Next
  PROVE  \/ AssignNumber
         \/ UNCHANGED number
         \/ \E h \in Threads : Leave(h)
<1>1. ASSUME NEW cl \in Clients, Client(cl) \/ ClientTimeout(cl) \/ ClientResend(cl)
      PROVE  UNCHANGED number
  BY <1>1, ClientFrame
<1>2. CASE GetNumber \/ ScanNumber \/ EndGetNumber \/ BakeryWait \/ BakeryService \/ JoinReturns
  BY <1>2 DEF GetNumber, ScanNumber, EndGetNumber, BakeryWait, BakeryService,
              JoinReturns, ticketVars
<1>3. ASSUME NEW h \in Threads, Thread(h) PROVE Leave(h) \/ UNCHANGED number
  BY <1>3, ThreadFrame
<1> QED
  BY <1>1, <1>2, <1>3 DEF Next, Dispatcher

\* The numbers stay in the order of the slots, and the scan's maximum stays
\* above what it has passed, although threads reset numbers meanwhile.
LEMMA NumberStep ==
  ASSUME TypeOK, ControlInv, ThreadInv, NumberInv, Next
  PROVE  NumberInv'
<1> USE RpcAssumption
<1>0. /\ number \in [Slot -> Nat] /\ ind \in Slot /\ max \in Nat /\ num \in Nat
      /\ i \in 0..Slots /\ \A s \in Slot : s \in Nat /\ s < Slots
  BY DEF TypeOK, Slot
<1>1. CASE AssignNumber
  <2>1. /\ number' = [number EXCEPT ![ind] = max + 1] /\ dpc' = "unchoose"
        /\ dpc = "assign" /\ num' = num /\ num = ind + 1 /\ ind' = ind
    BY <1>1 DEF AssignNumber, ControlInv
  <2>2. \A s \in Slot : number[s] <= max
    BY <2>1 DEF NumberInv
  <2>3. \A s \in Slot : s >= ind => number[s] = 0
    BY <1>0, <2>1 DEF NumberInv, Issued
  <2>4. \A s \in Slot : ~Issued(s)' => number'[s] = 0
    BY <1>0, <2>1, <2>3 DEF Issued
  <2>5. TicketsIncrease'
    <3> SUFFICES ASSUME NEW s \in Slot, NEW t \in Slot,
                        s < t, number'[s] # 0, number'[t] # 0
                 PROVE  number'[s] < number'[t]
      BY DEF TicketsIncrease
    <3>1. CASE t = ind
      BY <1>0, <2>1, <2>2, <3>1
    <3>2. CASE t # ind
      <4>1. t < ind
        BY <1>0, <2>1, <2>3, <3>2
      <4>2. s # ind /\ number'[s] = number[s] /\ number'[t] = number[t]
        BY <1>0, <2>1, <3>2, <4>1
      <4> QED
        BY <4>2 DEF NumberInv, TicketsIncrease
    <3> QED
      BY <3>1, <3>2
  <2> QED
    BY <2>1, <2>4, <2>5 DEF NumberInv
<1>2. CASE ~AssignNumber
  <2>1. \A s \in Slot : number'[s] = number[s] \/ number'[s] = 0
    BY <1>2, NumberFrame DEF Leave, TypeOK
  <2>2. \A s \in Slot : number'[s] \in Nat /\ number'[s] <= number[s]
    BY <1>0, <2>1
  <2>3. \A s \in Slot : ~Issued(s)' => number'[s] = 0
    <3>1. \A s \in Slot : ~Issued(s)' => ~Issued(s)
      BY IssuedStep
    <3> QED
      BY <2>1, <3>1 DEF NumberInv
  <2>4. TicketsIncrease'
    BY <1>0, <2>1 DEF NumberInv, TicketsIncrease
  <2>5. CASE UNCHANGED <<dpc, i, max>>
    <3>1. dpc = "scan" => \A s \in Slot : s < i => number'[s] <= max
      BY <1>0, <2>2 DEF NumberInv
    <3>2. dpc = "assign" => \A s \in Slot : number'[s] <= max
      BY <1>0, <2>2 DEF NumberInv
    <3> QED
      BY <2>3, <2>4, <2>5, <3>1, <3>2 DEF NumberInv
  <2>6. CASE GetNumber
    BY <1>0, <2>3, <2>4, <2>6 DEF GetNumber, NumberInv, Dispatch, dispVars
  <2>7. CASE ScanNumber
    <3>1. /\ i \in Slot /\ number' = number /\ i' = i + 1 /\ max' \in Nat
          /\ max' >= max /\ max' >= number[i]
          /\ dpc' = (IF i + 1 = Slots THEN "assign" ELSE "scan")
      BY <1>0, <2>7 DEF ScanNumber, NewMax, ControlInv, Slot, ticketVars
    <3>2. \A s \in Slot : s < i => number[s] <= max
      BY <2>7 DEF ScanNumber, NumberInv
    <3>3. \A s \in Slot : s < i + 1 => number[s] <= max'
      BY <1>0, <3>1, <3>2
    <3> QED
      BY <1>0, <2>3, <2>4, <3>1, <3>3 DEF NumberInv
  <2>8. CASE EndGetNumber \/ BakeryService \/ JoinReturns
    <3>1. dpc' \notin {"scan", "assign"}
      BY <2>8 DEF EndGetNumber, BakeryService, JoinReturns, HandlerReturns, Dispatch
    <3> QED
      BY <2>3, <2>4, <3>1 DEF NumberInv
  <2>9. CASE BakeryWait
    BY <2>5, <2>9 DEF BakeryWait, dispVars
  <2>10. ASSUME NEW cl \in Clients, Client(cl) \/ ClientTimeout(cl) \/ ClientResend(cl)
         PROVE  NumberInv'
    BY <2>5, <2>10, ClientFrame
  <2>11. ASSUME NEW h \in Threads, Thread(h) PROVE NumberInv'
    BY <2>5, <2>11, ThreadFrame
  <2> QED
    BY <1>2, <2>6, <2>7, <2>8, <2>9, <2>10, <2>11 DEF Next, Dispatcher
<1> QED
  BY <1>1, <1>2

\* tj advances only past a slot whose ticket does not go first, and starts at 0.
LEMMA LoopStep ==
  ASSUME TypeOK, ControlInv, QueueInv, Next, NEW h \in Threads,
         tpc'[h] \notin {"free", "done"}
  PROVE  \/ tj'[h] = 0
         \/ /\ tpc[h] \notin {"free", "done"} /\ tslot'[h] = tslot[h]
            /\ \/ tj'[h] = tj[h]
               \/ /\ tj'[h] = tj[h] + 1 /\ tj[h] \in Slot
                  /\ ~Before(tj[h], tslot[h])
                  /\ UNCHANGED number
<1>1. CASE BakeryWait
  BY <1>1, WaitStarts DEF TypeOK
<1>2. CASE ~BakeryWait
  <2>0. tpc[h] \notin {"free", "done"} /\ tslot'[h] = tslot[h]
    BY <1>2, ThreadLife
  <2>1. ASSUME NEW cl \in Clients, Client(cl) \/ ClientTimeout(cl) \/ ClientResend(cl)
        PROVE  tj' = tj
    BY <2>1, ClientFrame
  <2>2. CASE GetNumber \/ ScanNumber \/ AssignNumber \/ EndGetNumber \/ BakeryService
    BY <2>0, <2>2 DEF GetNumber, ScanNumber, AssignNumber, EndGetNumber, BakeryService, threadVars
  <2>3. CASE JoinReturns
    BY <2>0, <2>3 DEF JoinReturns, TypeOK
  <2>4. ASSUME NEW k \in Threads, Thread(k), ~PassNumber(k) PROVE tj' = tj
    BY <2>4 DEF Thread, PassChoosing, LoadLetter, StoreLetter, TestWrap, ResetLetter, Leave
  <2>5. ASSUME NEW k \in Threads, PassNumber(k)
        PROVE  \/ tj'[h] = tj[h]
               \/ /\ tj'[h] = tj[h] + 1 /\ tj[h] \in Slot
                  /\ ~Before(tj[h], tslot[h])
                  /\ UNCHANGED number
    <3>1. tj[k] \in Slot
      BY <2>5, RpcAssumption DEF PassNumber, ControlInv, Spinning, TypeOK, Slot
    <3> QED
      BY <2>5, <3>1 DEF PassNumber, TypeOK, ticketVars
  <2> QED
    BY <1>2, <2>0, <2>1, <2>2, <2>3, <2>4, <2>5 DEF Next, Dispatcher
<1> QED
  BY <1>1, <1>2

\* What a thread has passed stays passed: an issued ticket that was given back
\* never gets a number again.
LEMMA PassedStep ==
  ASSUME TypeOK, ControlInv, QueueInv, ThreadInv, NumberInv, PassedInv, Next
  PROVE  PassedInv'
<1> USE RpcAssumption
<1>0. SUFFICES ASSUME NEW h \in Threads, NEW j \in Slot,
                      tpc'[h] \notin {"free", "done"},
                      number'[tslot'[h]] # 0,
                      j < tj'[h],
                      j < tslot'[h]
               PROVE  number'[j] = 0
  BY DEF PassedInv
<1>1. /\ number \in [Slot -> Nat] /\ ind \in Slot /\ num \in Nat
      /\ tslot[h] \in Slot /\ tj[h] \in Nat
      /\ \A s \in Slot : s \in Nat
  BY DEF TypeOK, Slot
<1>2. tj'[h] # 0
  BY <1>0, <1>1
<1>3. tpc[h] \notin {"free", "done"} /\ tslot'[h] = tslot[h] /\ Issued(tslot[h])
  BY <1>0, <1>2, LoopStep DEF ThreadInv
<1>4. number[tslot[h]] # 0 /\ (number[j] = 0 => number'[j] = 0)
  <2>1. CASE AssignNumber
    <3>1. /\ tslot[h] < ind /\ j < ind
          /\ number' = [number EXCEPT ![ind] = max + 1]
      BY <1>0, <1>1, <1>3, <2>1 DEF AssignNumber, Issued, ControlInv
    <3> QED
      BY <1>0, <1>1, <1>3, <3>1
  <2>2. CASE ~AssignNumber
    BY <1>0, <1>1, <1>3, <2>2, NumberFrame DEF Leave, TypeOK
  <2> QED
    BY <2>1, <2>2
<1>5. CASE tj'[h] = tj[h]
  BY <1>0, <1>3, <1>4, <1>5 DEF PassedInv
<1>6. CASE tj'[h] = tj[h] + 1 /\ tj[h] \in Slot /\ ~Before(tj[h], tslot[h])
  <2>1. CASE j = tj[h]
    BY <1>0, <1>1, <1>3, <1>4, <1>6, <2>1 DEF Before, NumberInv, TicketsIncrease
  <2>2. CASE j # tj[h]
    <3>1. j < tj[h]
      BY <1>0, <1>1, <1>6, <2>2
    <3> QED
      BY <1>0, <1>3, <1>4, <3>1 DEF PassedInv
  <2> QED
    BY <2>1, <2>2
<1> QED
  BY <1>0, <1>2, <1>5, <1>6, LoopStep

\* The waits of a slot are only counted up.
LEMMA WaitsGrow ==
  ASSUME TypeOK, ControlInv, QueueInv, Next, NEW s \in Slot
  PROVE  /\ waits[s] \in Nat /\ waits'[s] \in Nat
         /\ waits'[s] >= waits[s]
<1>0. waits \in [Slot -> Nat]
  BY DEF TypeOK
<1>1. CASE BakeryWait
  BY <1>0, <1>1, WaitStarts
<1>2. CASE ~BakeryWait /\ Threads # {}
  BY <1>0, <1>2, ThreadLife
<1>3. CASE ~BakeryWait /\ Threads = {}
  BY <1>0, <1>3, ClientFrame
     DEF Next, Dispatcher, GetNumber, ScanNumber, AssignNumber, EndGetNumber,
         BakeryService, JoinReturns
<1> QED
  BY <1>1, <1>2, <1>3

\* A ticket keeps its number until a thread of its own has been served, and has
\* one thread if its BAKERY_WAIT is executed once.
LEMMA OwnerStep ==
  ASSUME TypeOK, ControlInv, QueueInv, ThreadInv, NumberInv, OwnerInv, Next
  PROVE  OwnerInv'
<1>0. /\ number \in [Slot -> Nat] /\ waits \in [Slot -> Nat] /\ ind \in Slot
      /\ max \in Nat /\ tslot \in [Threads -> Slot] /\ tpc \in [Threads -> ThreadPCs]
  BY DEF TypeOK
<1>1. ASSUME NEW s \in Slot, Issued(s)', waits'[s] = 0
      PROVE  number'[s] # 0
  <2>1. waits[s] = 0
    BY <1>1, WaitsGrow
  <2>2. CASE AssignNumber
    BY <1>0, <1>1, <2>1, <2>2, IssuedStep DEF AssignNumber, OwnerInv
  <2>3. CASE ~AssignNumber
    <3>1. Issued(s) /\ number[s] # 0
      BY <1>1, <2>1, <2>3, IssuedStep DEF OwnerInv
    <3>2. ASSUME NEW h \in Threads, Leave(h) PROVE number'[s] = number[s]
      BY <1>0, <2>1, <3>2 DEF Leave, OwnerInv
    <3> QED
      BY <2>3, <3>1, <3>2, NumberFrame
  <2> QED
    BY <2>2, <2>3
<1>2. ASSUME NEW h \in Threads, tpc'[h] # "free"
      PROVE  waits'[tslot'[h]] # 0
  <2>1. CASE BakeryWait
    <3> DEFINE s == Head(inq).pid
    <3>1. CASE UNCHANGED <<tpc, tslot, waits>>
      BY <1>2, <3>1 DEF OwnerInv
    <3>2. ASSUME NEW k \in Threads,
                 tpc' = [tpc EXCEPT ![k] = "choosing"],
                 tslot' = [tslot EXCEPT ![k] = s],
                 waits' = [waits EXCEPT ![s] = @ + 1]
          PROVE  waits'[tslot'[h]] # 0
      <4>1. s \in Slot /\ waits'[s] # 0
        BY <1>0, <2>1, <3>2, WaitStarts
      <4>2. CASE h = k
        BY <1>0, <3>2, <4>1, <4>2
      <4>3. CASE h # k
        BY <1>0, <1>2, <3>2, <4>1, <4>3 DEF OwnerInv
      <4> QED
        BY <4>2, <4>3
    <3> QED
      BY <2>1, <3>1, <3>2, WaitStarts
  <2>2. CASE ~BakeryWait
    BY <1>2, <2>2, ThreadLife DEF OwnerInv
  <2> QED
    BY <2>1, <2>2
<1>3. ASSUME SingleWait'
      PROVE  SingleWait
  BY <1>3, WaitsGrow DEF SingleWait
<1>4. CASE BakeryWait
  <2> DEFINE s == Head(inq).pid
  <2>0. s \in Slot /\ Issued(s) /\ number' = number
    BY <1>4, WaitStarts
  <2>1. CASE UNCHANGED <<tpc, tslot, waits>>
    BY <1>1, <1>2, <2>0, <2>1 DEF OwnerInv, SingleWait
  <2>2. ASSUME NEW h \in Threads, tpc[h] = "free",
               tpc' = [tpc EXCEPT ![h] = "choosing"],
               tslot' = [tslot EXCEPT ![h] = s],
               waits' = [waits EXCEPT ![s] = @ + 1],
               SingleWait'
        PROVE  /\ \A k \in Threads : tpc'[k] \notin {"free", "done"} => number'[tslot'[k]] # 0
               /\ \A k, l \in Threads :
                    tpc'[k] # "free" /\ tpc'[l] # "free" /\ tslot'[k] = tslot'[l] => k = l
    <3>1. waits[s] = 0
      BY <1>0, <2>0, <2>2 DEF SingleWait
    <3>2. number[s] # 0 /\ \A k \in Threads : tpc[k] # "free" => tslot[k] # s
      BY <2>0, <3>1 DEF OwnerInv
    <3>3. SingleWait
      BY <1>3, <2>2
    <3> QED
      BY <1>0, <2>0, <2>2, <3>2, <3>3 DEF OwnerInv
  <2> QED
    BY <1>1, <1>2, <1>4, <2>1, <2>2, WaitStarts DEF OwnerInv
<1>5. CASE ~BakeryWait
  <2>1. ASSUME SingleWait', NEW h \in Threads, tpc'[h] \notin {"free", "done"}
        PROVE  number'[tslot'[h]] # 0
    <3>1. /\ SingleWait /\ tslot'[h] = tslot[h] /\ tslot[h] \in Slot
          /\ tpc[h] \notin {"free", "done"} /\ number[tslot[h]] # 0
      BY <1>0, <1>3, <1>5, <2>1, ThreadLife DEF OwnerInv
    <3>2. CASE AssignNumber
      BY <1>0, <3>1, <3>2 DEF AssignNumber
    <3>3. ASSUME NEW k \in Threads, Leave(k) PROVE number'[tslot[h]] # 0
      <4>1. h # k /\ tpc[k] # "free"
        BY <1>0, <2>1, <3>3 DEF Leave
      <4>2. tslot[h] # tslot[k]
        BY <3>1, <4>1 DEF OwnerInv
      <4> QED
        BY <1>0, <3>1, <3>3, <4>2 DEF Leave
    <3> QED
      BY <3>1, <3>2, <3>3, NumberFrame
  <2>2. ASSUME SingleWait', NEW h \in Threads, NEW k \in Threads,
               tpc'[h] # "free", tpc'[k] # "free", tslot'[h] = tslot'[k]
        PROVE  h = k
    BY <1>3, <1>5, <2>2, ThreadLife DEF OwnerInv
  <2> QED
    BY <1>1, <1>2, <2>1, <2>2 DEF OwnerInv
<1> QED
  BY <1>4, <1>5

-----------------------------------------------------------------------------
(* The theorems.                                                           *)

\* The initial state satisfies the inductive invariant.
LEMMA InitIInv ==
  ASSUME Init
  PROVE  IInv
<1> USE RpcAssumption, Bakery1Assumption DEF Init
<1>1. TypeOK
  BY DEF RpcInit, TypeOK, RpcTypeOK, Slot, DispatcherPCs, ThreadPCs, ClientPCs
<1>2. ControlInv
  BY DEF ControlInv, Spinning, InService
<1>3. QueueInv /\ ClientInv /\ ThreadInv
  BY DEF RpcInit, QueueInv, ClientInv, ThreadInv, HasTicket
<1>4. NumberInv /\ PassedInv
  BY DEF NumberInv, PassedInv, TicketsIncrease
<1>5. OwnerInv
  BY DEF OwnerInv, Issued, Slot
<1> QED
  BY <1>1, <1>2, <1>3, <1>4, <1>5 DEF IInv

\* Every step, stuttering included, keeps the inductive invariant.
LEMMA NextIInv ==
  ASSUME IInv, [Next]_vars
  PROVE  IInv'
<1>1. CASE Next
  <2>1. TypeOK'
    BY <1>1, ClientTypes, DispatcherTypes, ThreadTypes DEF Next, IInv
  <2> QED
    BY <1>1, <2>1, ControlStep, QueueStep, ClientStep, ThreadStep, NumberStep,
       PassedStep, OwnerStep DEF IInv
<1>2. CASE UNCHANGED vars
  BY <1>2
     DEF vars, rpcVars, ticketVars, dispVars, threadVars, clientVars, IInv, TypeOK,
         RpcTypeOK, ControlInv, Spinning, InService, QueueInv, ClientInv, ThreadInv,
         NumberInv, PassedInv, OwnerInv, TicketsIncrease, SingleWait, HasTicket,
         Claimed, Issued
<1> QED
  BY <1>1, <1>2

\* In a state of the inductive invariant at most one thread is in service.
LEMMA IInvMutex ==
  ASSUME IInv
  PROVE  Mutex
<1> SUFFICES ASSUME SingleWait, NEW h \in Threads, NEW k \in Threads,
                    InService(h), InService(k), h # k
             PROVE  FALSE
  BY DEF Mutex
<1>1. /\ tslot[h] \in Slot /\ tslot[k] \in Slot
      /\ \A s \in Slot : s \in Nat /\ s < Slots
      /\ tj[h] = Slots /\ tj[k] = Slots
  BY RpcAssumption DEF IInv, TypeOK, ControlInv, Slot
<1>2. number[tslot[h]] # 0 /\ number[tslot[k]] # 0 /\ tslot[h] # tslot[k]
  BY DEF IInv, OwnerInv, InService
<1>3. CASE tslot[h] < tslot[k]
  BY <1>1, <1>2, <1>3 DEF IInv, PassedInv, InService
<1>4. CASE tslot[k] < tslot[h]
  BY <1>1, <1>2, <1>4 DEF IInv, PassedInv, InService
<1> QED
  BY <1>1, <1>2, <1>3, <1>4

\* The inductive invariant holds in every reachable state.
THEOREM Inductive == Spec => []IInv
  BY InitIInv, NextIInv, PTL DEF Spec

\* The types hold in every reachable state; in particular the loops of the
\* handlers and of the threads never index number[], choosing[] or thr[] outside.
THEOREM TypeCorrect == Spec => []TypeOK
<1>1. IInv => TypeOK
  BY DEF IInv
<1> QED
  BY <1>1, Inductive, PTL

\* No two tickets alive at the same time are equal or out of order.
THEOREM TicketOrder == Spec => []TicketsIncrease
<1>1. IInv => TicketsIncrease
  BY DEF IInv, NumberInv
<1> QED
  BY <1>1, Inductive, PTL

\* Mutual exclusion of the service, for tickets whose BAKERY_WAIT is executed
\* once, whatever else is lost or repeated.
THEOREM MutualExclusion == Spec => []Mutex
  BY Inductive, IInvMutex, PTL

-----------------------------------------------------------------------------
(* the letters *)

\* Executions of BAKERY_WAIT are never forgotten.
LEMMA SingleWaitBefore ==
  ASSUME IInv, Next, SingleWait'
  PROVE  SingleWait
  BY WaitsGrow DEF IInv, SingleWait

\* Of c, res and tmp: only the threads write them.
LEMMA LetterFrame ==
  ASSUME Next
  PROVE  \/ UNCHANGED <<c, res, tmp>>
         \/ \E h \in Threads : LoadLetter(h) \/ StoreLetter(h) \/ ResetLetter(h)
<1>1. ASSUME NEW cl \in Clients, Client(cl) \/ ClientTimeout(cl) \/ ClientResend(cl)
      PROVE  UNCHANGED <<c, res, tmp>>
  BY <1>1, ClientFrame
<1>2. CASE Dispatcher
  BY <1>2 DEF Dispatcher, GetNumber, ScanNumber, AssignNumber, EndGetNumber,
              BakeryWait, BakeryService, JoinReturns, threadVars
<1>3. ASSUME NEW h \in Threads, Thread(h)
      PROVE  \/ UNCHANGED <<c, res, tmp>>
             \/ LoadLetter(h) \/ StoreLetter(h) \/ ResetLetter(h)
  BY <1>3 DEF Thread, PassChoosing, PassNumber, TestWrap, Leave
<1> QED
  BY <1>1, <1>2, <1>3 DEF Next

\* A thread moves through bakery_service in the order of its statements.
LEMMA ThreadMoves ==
  ASSUME IInv, Next, NEW h \in Threads
  PROVE  \/ tpc'[h] = tpc[h] /\ tslot'[h] = tslot[h]
         \/ tpc'[h] = "free" /\ tpc[h] \in {"free", "done"}
         \/ BakeryWait /\ tpc'[h] = "choosing" /\ tslot'[h] = Head(inq).pid
              /\ waits' = [waits EXCEPT ![Head(inq).pid] = @ + 1]
         \/ Thread(h) /\ tslot'[h] = tslot[h]
<1>0. TypeOK /\ ControlInv /\ QueueInv
  BY DEF IInv
<1>1. CASE BakeryWait
  BY <1>0, <1>1, WaitStarts DEF TypeOK
<1>2. ASSUME NEW cl \in Clients, Client(cl) \/ ClientTimeout(cl) \/ ClientResend(cl)
      PROVE  tpc'[h] = tpc[h] /\ tslot'[h] = tslot[h]
  BY <1>2, ClientFrame
<1>3. CASE GetNumber \/ ScanNumber \/ AssignNumber \/ EndGetNumber \/ BakeryService
  BY <1>3 DEF GetNumber, ScanNumber, AssignNumber, EndGetNumber, BakeryService, threadVars
<1>4. CASE JoinReturns
  BY <1>0, <1>4 DEF JoinReturns, Joined, TypeOK
<1>5. ASSUME NEW k \in Threads, Thread(k), k # h
      PROVE  tpc'[h] = tpc[h] /\ tslot'[h] = tslot[h]
  BY <1>0, <1>5, ThreadFrame
     DEF Thread, PassChoosing, PassNumber, LoadLetter, StoreLetter, TestWrap,
         ResetLetter, Leave, TypeOK
<1>6. CASE Thread(h)
  BY <1>6, ThreadFrame
<1> QED
  BY <1>1, <1>2, <1>3, <1>4, <1>5, <1>6 DEF Next, Dispatcher

\* Slots: a step other than Leave and StoreLetter keeps their letters in order.
LEMMA SlotLettersKept ==
  ASSUME IInv, Next, SlotLetters, UNCHANGED res,
         \A h \in Threads : ~Leave(h)
  PROVE  SlotLetters'
<1>0. /\ number \in [Slot -> Nat] /\ ind \in Slot /\ max \in Nat
      /\ TypeOK /\ ControlInv /\ QueueInv
  BY DEF IInv, TypeOK
<1>1. ASSUME NEW s \in Slot, waits'[s] = 0 PROVE res'[s] = 0
  BY <1>0, <1>1, WaitsGrow DEF SlotLetters
<1>2. ASSUME NEW s \in Slot, Issued(s)', number'[s] = 0 PROVE res'[s] # 0
  <2>1. CASE AssignNumber
    BY <1>0, <1>2, <2>1, IssuedStep DEF AssignNumber, SlotLetters
  <2>2. CASE ~AssignNumber
    BY <1>0, <1>2, <2>2, IssuedStep, NumberFrame DEF SlotLetters
  <2> QED
    BY <2>1, <2>2
<1> QED
  BY <1>1, <1>2 DEF SlotLetters

\* Every step keeps the letters in order, because one thread at a time is
\* between c++ and number[i] = 0.
LEMMA LetterStep ==
  ASSUME IInv, LetterInv, Next
  PROVE  LetterInv'
<1> SUFFICES ASSUME SingleWait' PROVE LetterRange' /\ ThreadLetters' /\ SlotLetters'
  BY DEF LetterInv
<1> USE Bakery1Assumption
<1>0. SingleWait /\ LetterRange /\ ThreadLetters /\ SlotLetters
  BY SingleWaitBefore DEF LetterInv
<1>1. /\ TypeOK /\ ControlInv /\ QueueInv /\ OwnerInv
      /\ tpc \in [Threads -> ThreadPCs] /\ tslot \in [Threads -> Slot]
      /\ tmp \in [Threads -> Nat] /\ res \in [Slot -> Nat]
      /\ number \in [Slot -> Nat] /\ Letters \in Nat \ {0}
  BY DEF IInv, TypeOK
<1>2. \A h, k \in Threads : InService(h) /\ InService(k) => h = k
  BY <1>0, IInvMutex DEF Mutex
<1>3. \A h, k \in Threads : tpc[h] # "free" /\ tpc[k] # "free" /\ h # k => tslot[h] # tslot[k]
  BY <1>0, <1>1 DEF OwnerInv
<1>4. ASSUME NEW h \in Threads, Thread(h)
      PROVE  LetterRange' /\ ThreadLetters' /\ SlotLetters'
  <2>0. UNCHANGED <<tslot, waits, num, dpc, ind>> /\ (Leave(h) \/ UNCHANGED number)
    BY <1>4, ThreadFrame
  <2>1. CASE PassChoosing(h) \/ PassNumber(h)
    <3>1. /\ UNCHANGED <<c, res, tmp>> /\ ~Leave(h) /\ ~InService(h)
          /\ tpc[h] \in {"choosing", "number"} /\ tpc'[h] \in {"choosing", "number", "load"}
          /\ \A k \in Threads : k # h => tpc'[k] = tpc[k]
      BY <1>1, <2>1 DEF PassChoosing, PassNumber, Leave, InService
    <3>2. SlotLetters'
      BY <1>0, <2>0, <3>1 DEF SlotLetters, Issued
    <3>3. LetterRange'
      BY <1>0, <3>1 DEF LetterRange
    <3>4. ThreadLetters'
      BY <1>0, <2>0, <3>1 DEF ThreadLetters
    <3> QED
      BY <3>2, <3>3, <3>4
  <2>2. CASE LoadLetter(h)
    <3>1. /\ UNCHANGED <<c, res, number>> /\ tpc[h] = "load" /\ tpc'[h] = "store" /\ tmp'[h] = c
          /\ \A k \in Threads : k # h => tpc'[k] = tpc[k] /\ tmp'[k] = tmp[k]
      BY <1>1, <2>2 DEF LoadLetter, ticketVars
    <3>2. SlotLetters'
      BY <1>0, <2>0, <3>1 DEF SlotLetters, Issued
    <3>3. LetterRange'
      BY <1>0, <3>1 DEF LetterRange
    <3>4. ThreadLetters'
      BY <1>0, <2>0, <3>1 DEF ThreadLetters
    <3> QED
      BY <3>2, <3>3, <3>4
  <2>3. CASE StoreLetter(h)
    <3>1. /\ UNCHANGED number /\ tpc[h] = "store" /\ tpc'[h] = "wrap"
          /\ c' = tmp[h] + 1 /\ res' = [res EXCEPT ![tslot[h]] = tmp[h]]
          /\ \A k \in Threads : k # h => tpc'[k] = tpc[k] /\ tmp'[k] = tmp[k]
      BY <1>1, <2>3 DEF StoreLetter, ticketVars
    <3>2. tmp[h] = c /\ c \in 1..Letters
      BY <1>0, <1>1, <1>2, <3>1 DEF ThreadLetters, LetterRange, InService
    <3>3. LetterRange'
      BY <3>1, <3>2 DEF LetterRange
    <3>4. ASSUME NEW s \in Slot
          PROVE  res'[s] = (IF s = tslot[h] THEN c ELSE res[s])
      BY <1>1, <3>1, <3>2
    <3>5. waits[tslot[h]] # 0
      BY <1>1, <3>1 DEF OwnerInv
    <3>6. SlotLetters'
      BY <1>0, <1>1, <2>0, <3>1, <3>2, <3>4, <3>5 DEF SlotLetters, Issued
    <3>7. ASSUME NEW k \in Threads, k # h
          PROVE  /\ tpc'[k] \notin {"load", "store", "wrap", "reset", "leave"}
                 /\ tpc'[k] \in {"choosing", "number"} => res'[tslot'[k]] = 0
      BY <1>0, <1>1, <1>2, <1>3, <2>0, <3>1, <3>4, <3>7 DEF ThreadLetters, InService
    <3>8. ThreadLetters'
      BY <1>1, <2>0, <3>1, <3>2, <3>4, <3>7 DEF ThreadLetters
    <3> QED
      BY <3>3, <3>6, <3>8
  <2>4. CASE TestWrap(h)
    <3>1. /\ UNCHANGED <<c, res, tmp, number>> /\ tpc[h] = "wrap"
          /\ tpc'[h] = (IF c > Letters THEN "reset" ELSE "leave")
          /\ \A k \in Threads : k # h => tpc'[k] = tpc[k]
      BY <1>1, <2>4 DEF TestWrap, Wraps, ticketVars
    <3>2. SlotLetters'
      BY <1>0, <2>0, <3>1 DEF SlotLetters, Issued
    <3>3. LetterRange'
      BY <1>0, <3>1 DEF LetterRange
    <3>4. ThreadLetters'
      BY <1>0, <2>0, <3>1 DEF ThreadLetters
    <3> QED
      BY <3>2, <3>3, <3>4
  <2>5. CASE ResetLetter(h)
    <3>1. /\ UNCHANGED <<res, tmp, number>> /\ tpc[h] = "reset" /\ tpc'[h] = "leave" /\ c' = 1
          /\ \A k \in Threads : k # h => tpc'[k] = tpc[k]
      BY <1>1, <2>5 DEF ResetLetter, ticketVars
    <3>2. SlotLetters'
      BY <1>0, <2>0, <3>1 DEF SlotLetters, Issued
    <3>3. LetterRange'
      BY <1>1, <3>1 DEF LetterRange
    <3>4. ThreadLetters'
      BY <1>0, <1>2, <2>0, <3>1 DEF ThreadLetters, InService
    <3> QED
      BY <3>2, <3>3, <3>4
  <2>6. CASE Leave(h)
    <3>1. /\ UNCHANGED <<c, res, tmp>> /\ tpc[h] = "leave" /\ tpc'[h] = "done"
          /\ number' = [number EXCEPT ![tslot[h]] = 0]
          /\ \A k \in Threads : k # h => tpc'[k] = tpc[k]
      BY <1>1, <2>6 DEF Leave
    <3>2. res[tslot[h]] # 0
      BY <1>0, <3>1 DEF ThreadLetters
    <3>3. SlotLetters'
      BY <1>0, <1>1, <2>0, <3>1, <3>2 DEF SlotLetters, Issued
    <3>4. LetterRange'
      BY <1>0, <3>1 DEF LetterRange
    <3>5. ThreadLetters'
      BY <1>0, <2>0, <3>1 DEF ThreadLetters
    <3> QED
      BY <3>3, <3>4, <3>5
  <2> QED
    BY <1>4, <2>1, <2>2, <2>3, <2>4, <2>5, <2>6 DEF Thread
<1>5. CASE \A h \in Threads : ~Thread(h)
  <2>1. UNCHANGED <<c, res, tmp>> /\ \A h \in Threads : ~Leave(h)
    BY <1>5, LetterFrame DEF Thread
  <2>2. SlotLetters'
    BY <1>0, <2>1, SlotLettersKept
  <2>3. ASSUME NEW h \in Threads
        PROVE  \/ tpc'[h] = tpc[h] /\ tslot'[h] = tslot[h]
               \/ tpc'[h] = "free" /\ tpc[h] \in {"free", "done"}
               \/ tpc[h] = "free" /\ tpc'[h] = "choosing" /\ res'[tslot'[h]] = 0
    <3>1. CASE BakeryWait /\ tpc'[h] = "choosing" /\ tslot'[h] = Head(inq).pid
               /\ waits' = [waits EXCEPT ![Head(inq).pid] = @ + 1]
      <4>1. Head(inq).pid \in Slot
        BY <1>1, <3>1, WaitStarts
      <4>2. waits[Head(inq).pid] = 0
        BY <1>1, <3>1, <4>1 DEF SingleWait, TypeOK
      <4>3. res'[tslot'[h]] = 0
        BY <1>0, <2>1, <3>1, <4>1, <4>2 DEF SlotLetters
      <4>4. (tpc'[h] = tpc[h] /\ tslot'[h] = tslot[h]) \/ tpc[h] = "free"
        BY <1>1, <3>1, WaitStarts
      <4> QED
        BY <3>1, <4>3, <4>4
    <3> QED
      BY <1>5, <3>1, ThreadMoves
  <2>4. LetterRange'
    BY <1>0, <2>1, <2>3 DEF LetterRange
  <2>5. ThreadLetters'
    BY <1>0, <2>1, <2>3 DEF ThreadLetters
  <2> QED
    BY <2>2, <2>4, <2>5
<1> QED
  BY <1>4, <1>5

\* The mapping takes every step to a step of LetterService or to none: drawing
\* a slot issues a ticket, storing a letter serves the first one in line.
LEMMA PromiseStep ==
  ASSUME IInv, LetterInv, SingleWait, [Next]_vars
  PROVE  [Promise!Next]_(Promise!vars)
<1> USE RpcAssumption, Bakery1Assumption
<1> DEFINE next == IF c > Letters THEN 1 ELSE c
<1>0. /\ TypeOK /\ ControlInv /\ OwnerInv /\ LetterRange /\ ThreadLetters /\ SlotLetters
      /\ Slot = Promise!Ticket
  BY DEF IInv, LetterInv, Slot, Promise!Ticket
<1>1. CASE UNCHANGED <<num, res, next>>
  BY <1>1 DEF Promise!vars
<1>2. CASE num' = num + 1 /\ UNCHANGED <<c, res>>
  BY <1>2 DEF Promise!Next, Promise!Issue
<1>3. ASSUME NEW h \in Threads, StoreLetter(h)
      PROVE  \E s \in Slot : Promise!Serve(s)
  <2> DEFINE s == tslot[h]
  <2>1. /\ s \in Slot /\ tpc[h] = "store" /\ tmp[h] = c /\ c' = c + 1
        /\ res' = [res EXCEPT ![s] = c] /\ num' = num
    BY <1>0, <1>3 DEF StoreLetter, ThreadLetters, TypeOK, ticketVars
  <2>2. c \in 1..Letters
    <3>1. \A k \in Threads : InService(k) => h = k
      BY <2>1, IInvMutex DEF Mutex, InService
    <3> QED
      BY <1>0, <2>1, <3>1 DEF LetterRange, InService
  <2>3. res[s] = 0 /\ Issued(s) /\ number[s] # 0
    BY <1>0, <2>1 DEF ThreadLetters, IInv, ThreadInv, OwnerInv
  <2>4. s < num
    BY <2>3 DEF Issued
  <2>5. ASSUME NEW t \in Slot, t < s PROVE res[t] # 0
    <3>1. tj[h] = Slots /\ t < Slots /\ t \in Nat /\ s \in Nat /\ num \in Nat /\ ind \in Nat
      BY <1>0, <2>1 DEF ControlInv, InService, Slot, TypeOK
    <3>2. number[t] = 0
      BY <2>1, <2>3, <2>5, <3>1 DEF IInv, PassedInv
    <3>3. Issued(t)
      BY <1>0, <2>3, <2>5, <3>1 DEF Issued, ControlInv
    <3> QED
      BY <1>0, <3>2, <3>3 DEF SlotLetters
  <2>6. next = c /\ next' = IF next = Letters THEN 1 ELSE next + 1
    BY <2>1, <2>2
  <2>7. Promise!Serve(s)
    BY <1>0, <2>1, <2>3, <2>4, <2>5, <2>6 DEF Promise!Serve
  <2> QED
    BY <2>1, <2>7
<1>4. ASSUME NEW cl \in Clients, Client(cl) \/ ClientTimeout(cl) \/ ClientResend(cl)
      PROVE  UNCHANGED <<num, res, next>>
  BY <1>4, ClientFrame
<1>5. CASE GetNumber
  BY <1>2, <1>5 DEF GetNumber
<1>6. CASE ScanNumber \/ AssignNumber \/ EndGetNumber \/ BakeryWait \/ BakeryService \/ JoinReturns
  BY <1>1, <1>6 DEF ScanNumber, AssignNumber, EndGetNumber, BakeryWait, BakeryService,
                    JoinReturns, ticketVars
<1>7. ASSUME NEW h \in Threads, Thread(h), ~StoreLetter(h)
      PROVE  UNCHANGED <<num, res, next>>
  <2>1. CASE ResetLetter(h)
    BY <1>0, <2>1 DEF ResetLetter, ThreadLetters, ticketVars
  <2>2. CASE ~ResetLetter(h)
    BY <1>7, <2>2 DEF Thread, PassChoosing, PassNumber, LoadLetter, TestWrap, Leave, ticketVars
  <2> QED
    BY <2>1, <2>2
<1>8. CASE UNCHANGED vars
  BY <1>1, <1>8 DEF vars, ticketVars
<1> QED
  BY <1>0, <1>1, <1>3, <1>4, <1>5, <1>6, <1>7, <1>8 DEF Next, Dispatcher, Promise!Next

\* bakery1 keeps the promise of LetterService in every behaviour in which no
\* BAKERY_WAIT is executed twice.
THEOREM Refinement == Spec /\ []SingleWait => KeepsPromise
<1>1. Init => LetterInv
  BY Bakery1Assumption
     DEF Init, LetterInv, LetterRange, ThreadLetters, SlotLetters, Issued, Slot
<1>2. Init => Promise!Init
  BY Bakery1Assumption DEF Init, Promise!Init, Promise!Ticket, Slot
<1>3. IInv /\ LetterInv /\ [Next]_vars => LetterInv'
  <2>1. CASE UNCHANGED vars
    BY <2>1 DEF vars, ticketVars, dispVars, threadVars, LetterInv, LetterRange,
                ThreadLetters, SlotLetters, SingleWait, Issued
  <2> QED
    BY <2>1, LetterStep
<1>4. IInv /\ LetterInv /\ SingleWait /\ [Next]_vars => [Promise!Next]_(Promise!vars)
  BY PromiseStep
<1> QED
  BY <1>1, <1>2, <1>3, <1>4, Inductive, PTL DEF Spec, KeepsPromise, Promise!Spec

-----------------------------------------------------------------------------
(* Threads and their letters.                                              *)

\* The statements that write thr[] and res[], and how.
LEMMA WaitSetsThr ==
  ASSUME TypeOK, Next
  PROVE  \/ UNCHANGED thr
         \/ BakeryWait /\ \E h \in Threads :
                 /\ tpc[h] = "free"
                 /\ tpc' = [tpc EXCEPT ![h] = "choosing"]
                 /\ tslot' = [tslot EXCEPT ![h] = Head(inq).pid]
                 /\ thr' = [thr EXCEPT ![Head(inq).pid] = h]
<1>1. ASSUME NEW cl \in Clients, Client(cl) \/ ClientTimeout(cl) \/ ClientResend(cl)
      PROVE  UNCHANGED thr
  BY <1>1, ClientFrame
<1>2. CASE GetNumber \/ ScanNumber \/ AssignNumber \/ EndGetNumber \/ BakeryService \/ JoinReturns
  BY <1>2 DEF GetNumber, ScanNumber, AssignNumber, EndGetNumber, BakeryService, JoinReturns
<1>3. CASE BakeryWait
  BY <1>3 DEF BakeryWait
<1>4. ASSUME NEW h \in Threads, Thread(h) PROVE UNCHANGED thr
  BY <1>4, ThreadFrame
<1> QED
  BY <1>1, <1>2, <1>3, <1>4 DEF Next, Dispatcher

\* Letters in res[] are replaced by letters, once c and the registers hold some.
LEMMA ResKept ==
  ASSUME TypeOK, ServedInv, Next, NEW s \in Slot, res[s] # 0
  PROVE  res'[s] # 0
<1>1. CASE UNCHANGED res
  BY <1>1
<1>2. ASSUME NEW h \in Threads, StoreLetter(h) PROVE res'[s] # 0
  BY <1>2 DEF StoreLetter, ServedInv, TypeOK
<1> QED
  BY <1>1, <1>2, LetterFrame DEF LoadLetter, ResetLetter

\* The joined thread is done, and nothing else frees a descriptor.
LEMMA Freed ==
  ASSUME IInv, Next, NEW h \in Threads, tpc[h] # "free", tpc'[h] = "free"
  PROVE  JoinReturns /\ h = Joinee /\ tpc[h] = "done"
<1>0. TypeOK /\ ControlInv /\ QueueInv
  BY DEF IInv
<1>1. ASSUME NEW cl \in Clients, Client(cl) \/ ClientTimeout(cl) \/ ClientResend(cl)
      PROVE  tpc' = tpc
  BY <1>1, ClientFrame
<1>2. CASE GetNumber \/ ScanNumber \/ AssignNumber \/ EndGetNumber \/ BakeryService
  BY <1>2 DEF GetNumber, ScanNumber, AssignNumber, EndGetNumber, BakeryService, threadVars
<1>3. CASE BakeryWait
  BY <1>0, <1>3, WaitStarts DEF TypeOK
<1>4. CASE JoinReturns
  BY <1>0, <1>4 DEF JoinReturns, Joined, TypeOK
<1>5. ASSUME NEW k \in Threads, Thread(k) PROVE tpc'[h] # "free"
  BY <1>0, <1>5 DEF Thread, PassChoosing, PassNumber, LoadLetter, StoreLetter, TestWrap,
      ResetLetter, Leave, TypeOK
<1> QED
  BY <1>1, <1>2, <1>3, <1>4, <1>5 DEF Next, Dispatcher

\* A letter is in res[] before its ticket can be asked for it, whoever owns the
\* descriptor that is joined.
LEMMA ServedStep ==
  ASSUME IInv, ServedInv, Next
  PROVE  ServedInv'
<1> USE Bakery1Assumption
<1>0. /\ TypeOK /\ ControlInv /\ QueueInv
      /\ tpc \in [Threads -> ThreadPCs] /\ tslot \in [Threads -> Slot]
      /\ tmp \in [Threads -> Nat] /\ res \in [Slot -> Nat] /\ c \in Nat
      /\ thr \in [Slot -> Threads \cup {NoThread}]
  BY DEF IInv, TypeOK
<1>1. c' # 0
  <2>1. ASSUME NEW h \in Threads, LoadLetter(h) \/ StoreLetter(h) \/ ResetLetter(h)
        PROVE  c' # 0
    BY <1>0, <2>1 DEF LoadLetter, StoreLetter, ResetLetter, ServedInv
  <2> QED
    BY <2>1, LetterFrame DEF ServedInv
<1>2. ASSUME NEW h \in Threads, tpc'[h] = "store" PROVE tmp'[h] # 0
  <2>1. CASE tpc[h] = "store" /\ ~Thread(h)
    BY <1>0, <2>1, LetterFrame DEF ServedInv, Thread, LoadLetter, StoreLetter, ResetLetter
  <2>2. CASE Thread(h)
    BY <1>0, <1>2, <2>2 DEF Thread, PassChoosing, PassNumber, LoadLetter, StoreLetter, TestWrap,
      ResetLetter, Leave, ServedInv
  <2> QED
    BY <1>2, <2>1, <2>2, ThreadMoves
<1>3. ASSUME NEW h \in Threads, tpc'[h] \in {"wrap", "reset", "leave", "done"}
      PROVE  res'[tslot'[h]] # 0
  <2>1. CASE tpc'[h] = tpc[h] /\ tslot'[h] = tslot[h]
    BY <1>0, <1>3, <2>1, ResKept DEF ServedInv
  <2>2. CASE Thread(h) /\ tslot'[h] = tslot[h]
    <3>1. CASE StoreLetter(h)
      BY <1>0, <2>2, <3>1 DEF StoreLetter, ServedInv
    <3>2. CASE ~StoreLetter(h)
      <4>1. tpc[h] \in {"wrap", "reset", "leave", "done"}
        BY <1>0, <1>3, <2>2, <3>2 DEF Thread, PassChoosing, PassNumber, LoadLetter, TestWrap,
           ResetLetter, Leave
      <4> QED
        BY <1>0, <2>2, <4>1, ResKept DEF ServedInv
    <3> QED
      BY <3>1, <3>2
  <2> QED
    BY <1>3, <2>1, <2>2, ThreadMoves
<1>4. ASSUME NEW s \in Slot, thr'[s] # NoThread, res'[s] = 0
      PROVE  tpc'[thr'[s]] # "free" /\ tslot'[thr'[s]] = s
  <2>1. res[s] = 0
    BY <1>0, <1>4, ResKept
  <2>2. CASE UNCHANGED thr
    <3>1. tpc[thr[s]] # "free" /\ tslot[thr[s]] = s /\ thr[s] \in Threads
      BY <1>0, <1>4, <2>1, <2>2 DEF ServedInv
    <3>2. tpc'[thr[s]] # "free"
      <4>1. tpc[thr[s]] # "done"
        BY <2>1, <3>1 DEF ServedInv
      <4> QED
        BY <3>1, <4>1, Freed
    <3>3. tslot'[thr[s]] = s
      <4>1. CASE BakeryWait
        BY <1>0, <3>1, <4>1, WaitStarts
      <4>2. CASE ~BakeryWait
        BY <1>0, <3>1, <3>2, <4>2, ThreadLife
      <4> QED
        BY <4>1, <4>2
    <3> QED
      BY <2>2, <3>2, <3>3
  <2>3. ASSUME BakeryWait,
               NEW h \in Threads, tpc[h] = "free",
               tpc' = [tpc EXCEPT ![h] = "choosing"],
               tslot' = [tslot EXCEPT ![h] = Head(inq).pid],
               thr' = [thr EXCEPT ![Head(inq).pid] = h]
        PROVE  tpc'[thr'[s]] # "free" /\ tslot'[thr'[s]] = s
    <3>1. Head(inq).pid \in Slot
      BY <1>0, <2>3, WaitStarts
    <3>2. CASE s = Head(inq).pid
      BY <1>0, <2>3, <3>1, <3>2
    <3>3. CASE s # Head(inq).pid
      <4>1. thr'[s] = thr[s]
        BY <1>0, <2>3, <3>1, <3>3
      <4>2. tpc[thr[s]] # "free" /\ tslot[thr[s]] = s /\ thr[s] \in Threads
        BY <1>0, <1>4, <2>1, <4>1 DEF ServedInv
      <4> QED
        BY <1>0, <2>3, <4>1, <4>2
    <3> QED
      BY <3>2, <3>3
  <2> QED
    BY <1>0, <2>2, <2>3, WaitSetsThr
<1> QED
  BY <1>1, <1>2, <1>3, <1>4 DEF ServedInv

-----------------------------------------------------------------------------
(* pthread_join.                                                           *)

\* Only bakery_wait_1_svc counts a wait.
LEMMA WaitSame ==
  ASSUME TypeOK, Next, ~BakeryWait
  PROVE  waits' = waits
<1>1. ASSUME NEW cl \in Clients, Client(cl) \/ ClientTimeout(cl) \/ ClientResend(cl)
      PROVE  waits' = waits
  BY <1>1, ClientFrame
<1>2. CASE Dispatcher
  BY <1>2 DEF Dispatcher, GetNumber, ScanNumber, AssignNumber, EndGetNumber,
              BakeryService, JoinReturns
<1>3. ASSUME NEW h \in Threads, Thread(h) PROVE waits' = waits
  BY <1>3, ThreadFrame
<1> QED
  BY <1>1, <1>2, <1>3 DEF Next

\* While the dispatcher joins, no other handler runs.
LEMMA Joining ==
  ASSUME TypeOK, ControlInv, Next, dpc' = "join"
  PROVE  \/ BakeryService /\ req' = Head(inq) /\ thr[Head(inq).pid] # NoThread
              /\ tpc[thr[Head(inq).pid]] # "free" /\ Head(inq).pid \in Slot
              /\ UNCHANGED <<thr, tpc>>
         \/ dpc = "join" /\ req \in Request /\ UNCHANGED <<req, thr>> /\ ~JoinReturns
<1>1. ASSUME NEW cl \in Clients, Client(cl) \/ ClientTimeout(cl) \/ ClientResend(cl)
      PROVE  UNCHANGED <<dpc, req, thr>>
  BY <1>1, ClientFrame
<1>2. CASE BakeryService
  <2>1. Head(inq).pid \in Slot
    BY <1>2, SocketHead DEF TypeOK, BakeryService, Dispatch, Request
  <2> QED
    BY <1>2, <2>1 DEF BakeryService, Dispatch, threadVars
<1>3. CASE GetNumber \/ ScanNumber \/ AssignNumber \/ EndGetNumber \/ BakeryWait \/ JoinReturns
  BY <1>3 DEF GetNumber, ScanNumber, AssignNumber, EndGetNumber, BakeryWait, JoinReturns,
              Dispatch, HandlerReturns, dispVars
<1>4. ASSUME NEW h \in Threads, Thread(h) PROVE UNCHANGED <<dpc, req, thr>>
  BY <1>4, ThreadFrame
<1>5. dpc = "join" => req \in Request
  BY DEF TypeOK, ControlInv
<1>6. JoinReturns => dpc' # "join"
  BY DEF JoinReturns, HandlerReturns
<1> QED
  BY <1>1, <1>2, <1>3, <1>4, <1>5, <1>6 DEF Next, Dispatcher

\* choosing[] is set and reset by get_number_1_svc alone.
LEMMA ChoosingStep ==
  ASSUME TypeOK, ControlInv, Next,
         \A s \in Slot : choosing[s] => dpc \in {"scan", "assign", "unchoose"} /\ s = ind,
         NEW s \in Slot, choosing'[s]
  PROVE  dpc' \in {"scan", "assign", "unchoose"} /\ s = ind'
<1>1. ASSUME NEW cl \in Clients, Client(cl) \/ ClientTimeout(cl) \/ ClientResend(cl)
      PROVE  UNCHANGED <<dpc, ind, choosing>>
  BY <1>1, ClientFrame
<1>2. CASE GetNumber
  BY <1>2 DEF GetNumber, Dispatch, TypeOK
<1>3. CASE ScanNumber \/ AssignNumber \/ BakeryWait \/ BakeryService \/ JoinReturns
  BY <1>3 DEF ScanNumber, AssignNumber, BakeryWait, BakeryService, JoinReturns,
              Dispatch, HandlerReturns, dispVars, ticketVars
<1>4. CASE EndGetNumber
  BY <1>4 DEF EndGetNumber, TypeOK
<1>5. ASSUME NEW h \in Threads, Thread(h) PROVE UNCHANGED <<dpc, ind, choosing>>
  BY <1>5, ThreadFrame
<1> QED
  BY <1>1, <1>2, <1>3, <1>4, <1>5 DEF Next, Dispatcher

\* A thread at work on a ticket stays at work until it leaves.
LEMMA AtWork ==
  ASSUME IInv, Next, NEW h \in Threads, tpc[h] \notin {"free", "done"}, ~Leave(h)
  PROVE  tslot'[h] = tslot[h] /\ tpc'[h] \notin {"free", "done"}
<1>0. TypeOK /\ ControlInv /\ QueueInv
  BY DEF IInv
<1>1. CASE BakeryWait
  BY <1>0, <1>1, WaitStarts DEF TypeOK
<1>2. CASE ~BakeryWait /\ ~Thread(h)
  BY <1>0, <1>2, ThreadMoves
<1>3. CASE Thread(h)
  BY <1>0, <1>3, ThreadFrame DEF Thread, PassChoosing, PassNumber, LoadLetter, StoreLetter, TestWrap,
         ResetLetter, TypeOK
<1> QED
  BY <1>1, <1>2, <1>3

\* The dispatcher joins a thread that exists, and every live ticket that was
\* waited for has a thread at work.
LEMMA JoinStep ==
  ASSUME IInv, JoinInv, Next
  PROVE  JoinInv'
<1>0. /\ TypeOK /\ ControlInv /\ QueueInv /\ NumberInv
      /\ tpc \in [Threads -> ThreadPCs] /\ tslot \in [Threads -> Slot]
      /\ number \in [Slot -> Nat] /\ waits \in [Slot -> Nat] /\ ind \in Slot /\ max \in Nat
      /\ thr \in [Slot -> Threads \cup {NoThread}]
  BY DEF IInv, TypeOK
<1>1. dpc' = "join" => thr'[req'.pid] # NoThread /\ tpc'[thr'[req'.pid]] # "free"
  <2>1. CASE dpc = "join" /\ req \in Request /\ UNCHANGED <<req, thr>> /\ ~JoinReturns
    <3>1. thr[req.pid] \in Threads /\ tpc[thr[req.pid]] # "free"
      BY <1>0, <2>1 DEF JoinInv, Request
    <3> QED
      BY <2>1, <3>1, Freed, Bakery1Assumption
  <2> QED
    BY <1>0, <2>1, Joining
<1>2. ASSUME NEW s \in Slot, choosing'[s] PROVE dpc' \in {"scan", "assign", "unchoose"} /\ s = ind'
  BY <1>0, <1>2, ChoosingStep DEF JoinInv
<1>3. ASSUME NEW s \in Slot, waits'[s] # 0 PROVE Issued(s)'
  <2>1. CASE BakeryWait
    <3>1. waits[s] # 0 \/ s = Head(inq).pid
      BY <1>0, <1>3, <2>1, WaitStarts
    <3>2. Issued(s)
      BY <1>0, <2>1, <3>1, WaitStarts DEF JoinInv
    <3> QED
      BY <1>0, <3>2, IssuedStep
  <2>2. CASE waits' = waits
    BY <1>0, <1>3, <2>2, IssuedStep DEF JoinInv
  <2> QED
    BY <1>0, <2>1, <2>2, WaitSame
<1>4. ASSUME NEW s \in Slot, waits'[s] # 0, number'[s] # 0
      PROVE  \E h \in Threads : tslot'[h] = s /\ tpc'[h] \notin {"free", "done"}
  <2>1. CASE waits[s] # 0
    <3>1. number[s] # 0
      <4>1. CASE AssignNumber
        BY <1>0, <1>4, <2>1, <4>1 DEF AssignNumber, JoinInv, Issued
      <4>2. ASSUME NEW h \in Threads, Leave(h) PROVE number[s] # 0
        BY <1>0, <1>4, <4>2 DEF Leave
      <4> QED
        BY <1>0, <1>4, <4>1, <4>2, NumberFrame
    <3>2. PICK h \in Threads : tslot[h] = s /\ tpc[h] \notin {"free", "done"}
      BY <2>1, <3>1 DEF JoinInv
    <3>3. ~Leave(h)
      BY <1>0, <1>4, <3>2 DEF Leave
    <3> QED
      BY <3>2, <3>3, AtWork
  <2>2. CASE waits[s] = 0
    <3>1. CASE BakeryWait
      BY <1>0, <1>4, <2>2, <3>1, WaitStarts
    <3>2. CASE waits' = waits
      BY <1>4, <2>2, <3>2
    <3> QED
      BY <1>0, <3>1, <3>2, WaitSame
  <2> QED
    BY <1>0, <2>1, <2>2
<1> QED
  BY <1>1, <1>2, <1>3, <1>4 DEF JoinInv

\* In a state of the invariants the dispatcher hangs in pthread_join only behind
\* a ticket that nobody waited for: the first live ticket.
LEMMA HangExplained ==
  ASSUME IInv, JoinInv
  PROVE  HangNeedsUnclaimedTicket
<1> SUFFICES ASSUME up = "up", dpc = "join", tpc[Joinee] # "done",
                    \A h \in Threads : tpc[h] \in {"free", "done"} \/ Blocked(h)
             PROVE  \E s \in Slot : Before(s, tslot[Joinee]) /\ waits[s] = 0
  BY DEF HangNeedsUnclaimedTicket
<1>0. /\ number \in [Slot -> Nat] /\ tslot \in [Threads -> Slot] /\ tj \in [Threads -> 0..Slots]
      /\ \A s \in Slot : s \in Nat
      /\ thr \in [Slot -> Threads \cup {NoThread}]
      /\ TicketsIncrease /\ Slots \in Nat \ {0} /\ ControlInv
  BY RpcAssumption DEF IInv, TypeOK, Slot, NumberInv
<1>1. Joinee \in Threads /\ tpc[Joinee] # "free"
  BY <1>0 DEF JoinInv, Joinee, IInv, TypeOK, ControlInv, Request
<1>2. \A s \in Slot : ~choosing[s]
  BY DEF JoinInv
<1>3. ASSUME NEW h \in Threads, tpc[h] \notin {"free", "done"}
      PROVE  tj[h] \in Slot /\ Before(tj[h], tslot[h])
  <2>1. Blocked(h)
    BY <1>3
  <2>2. tj[h] \in Slot
    BY <1>0, <2>1 DEF Blocked, ControlInv, Spinning, Slot
  <2> QED
    BY <1>2, <2>1, <2>2 DEF Blocked
<1> DEFINE Live == {s \in Slot : number[s] # 0}
<1>4. tj[Joinee] \in Live /\ tslot[Joinee] \in Live /\ Before(tj[Joinee], tslot[Joinee])
  BY <1>0, <1>1, <1>3 DEF Before
<1>5. PICK s \in Live : \A t \in Live : s <= t
  <2>1. Live \in SUBSET Nat /\ Live # {}
    BY <1>0, <1>4
  <2> HIDE DEF Live
  <2> QED
    BY <2>1, LeastNatural
<1>6. Before(s, tslot[Joinee])
  <2>1. s < tslot[Joinee]
    <3>1. s # tslot[Joinee]
      <4>1. s <= tj[Joinee] /\ tj[Joinee] \in Slot /\ s \in Slot
        BY <1>4, <1>5
      <4>2. s < tj[Joinee] => number[s] < number[tj[Joinee]]
        BY <1>4, <1>5, <4>1 DEF TicketsIncrease, NumberInv, IInv
      <4> QED
        BY <1>0, <1>4, <4>1, <4>2 DEF Before
    <3> QED
      BY <1>0, <1>4, <1>5, <3>1
  <2> QED
    BY <1>0, <1>4, <2>1 DEF Before, TicketsIncrease
<1>7. waits[s] = 0
  <2>1. SUFFICES ASSUME waits[s] # 0 PROVE FALSE
    OBVIOUS
  <2>2. PICK h \in Threads : tslot[h] = s /\ tpc[h] \notin {"free", "done"}
    BY <2>1 DEF JoinInv
  <2>3. tj[h] \in Live /\ Before(tj[h], s)
    BY <1>3, <2>2 DEF Before
  <2> QED
    BY <1>0, <1>5, <2>3 DEF Before, TicketsIncrease
<1> QED
  BY <1>6, <1>7

-----------------------------------------------------------------------------
(* The order of the letters.                                               *)

\* LetterService itself hands the letters out in the order of the tickets.
LEMMA PromiseInOrder ==
  ASSUME TypeOK, LetterRange, LettersInTicketOrder, OrderInv, SingleWait, SingleWait',
         [Promise!Next]_(Promise!vars)
  PROVE  OrderInv'
<1> USE RpcAssumption, Bakery1Assumption
<1> DEFINE next == IF c > Letters THEN 1 ELSE c
           First(s) == res[s] = 0 /\ \A t \in Slot : t < s => res[t] # 0
<1>0. /\ Slot = Promise!Ticket /\ res \in [Slot -> Nat] /\ \A s \in Slot : s \in Nat
      /\ next \in 1..Letters /\ Letters \in Nat \ {0}
  BY DEF TypeOK, Slot, Promise!Ticket, LetterRange
<1>1. /\ \A s \in Slot : res[s] # 0 =>
           res[s] = (s % Letters) + 1 /\ \A t \in Slot : t < s => res[t] # 0
      /\ \A s \in Slot : First(s) => next = (s % Letters) + 1
  BY DEF OrderInv, LettersInTicketOrder
<1>2. SUFFICES
        /\ \A s \in Slot : res'[s] # 0 =>
             res'[s] = (s % Letters) + 1 /\ \A t \in Slot : t < s => res'[t] # 0
        /\ \A s \in Slot : First(s)' => next' = (s % Letters) + 1
  BY DEF OrderInv, LettersInTicketOrder
<1>3. CASE UNCHANGED <<res, next>>
  BY <1>1, <1>3
<1>4. ASSUME NEW s \in Slot, Promise!Serve(s)
      PROVE  /\ \A t \in Slot : res'[t] # 0 =>
                  res'[t] = (t % Letters) + 1 /\ \A u \in Slot : u < t => res'[u] # 0
             /\ \A t \in Slot : First(t)' => next' = (t % Letters) + 1
  <2>1. /\ First(s) /\ res' = [res EXCEPT ![s] = next]
        /\ next' = IF next = Letters THEN 1 ELSE next + 1
    BY <1>0, <1>4 DEF Promise!Serve
  <2>2. next = (s % Letters) + 1
    BY <1>1, <2>1
  <2> HIDE DEF next
  <2>3. ASSUME NEW t \in Slot PROVE res'[t] = IF t = s THEN (s % Letters) + 1 ELSE res[t]
    BY <1>0, <2>1, <2>2
  <2>4. (s % Letters) + 1 # 0
    BY <1>0, <2>2
  <2>5. ASSUME NEW t \in Slot, First(t)' PROVE t = s + 1
    <3>1. t # s /\ res[t] = 0 /\ ~(t < s)
      BY <2>1, <2>3, <2>4, <2>5
    <3>2. CASE s + 1 < t
      <4>1. s + 1 \in Slot
        BY <3>2 DEF Slot
      <4>2. res'[s + 1] # 0
        BY <2>5, <3>2, <4>1
      <4>3. res[s + 1] # 0
        BY <1>0, <2>3, <4>1, <4>2
      <4> QED
        BY <1>0, <1>1, <2>1, <4>1, <4>3
    <3> QED
      BY <1>0, <3>1, <3>2
  <2>6. ASSUME NEW t \in Slot, First(t)' PROVE next' = (t % Letters) + 1
    <3>1. t = s + 1
      BY <2>5, <2>6
    <3>2. (s + 1) % Letters = IF s % Letters = Letters - 1 THEN 0 ELSE (s % Letters) + 1
      BY <1>0, RemainderSucc
    <3>3. (s % Letters) + 1 = next /\ s % Letters \in Int
      BY <1>0, <2>2
    <3> QED
      BY <1>0, <2>1, <3>1, <3>2, <3>3
  <2>7. ASSUME NEW t \in Slot, res'[t] # 0
        PROVE  res'[t] = (t % Letters) + 1 /\ \A u \in Slot : u < t => res'[u] # 0
    BY <1>1, <2>1, <2>3, <2>4, <2>7
  <2> QED
    BY <2>6, <2>7
<1>5. CASE Promise!Issue
  BY <1>3, <1>5 DEF Promise!Issue
<1> QED
  BY <1>0, <1>3, <1>4, <1>5 DEF Promise!Next, Promise!vars

\* The letters stay in the order of the tickets.
LEMMA OrderStep ==
  ASSUME IInv, LetterInv, OrderInv, [Next]_vars
  PROVE  OrderInv'
<1>1. CASE ~SingleWait'
  BY <1>1 DEF OrderInv
<1>2. CASE SingleWait'
  <2>1. SingleWait
    BY <1>2, SingleWaitBefore DEF vars, SingleWait
  <2> QED
    BY <1>2, <2>1, PromiseStep, PromiseInOrder DEF IInv, LetterInv, OrderInv
<1> QED
  BY <1>1, <1>2

-----------------------------------------------------------------------------
(* The answers to the clients.                                             *)

\* The letter in res[] of a ticket is the one its client is to print.
LEMMA LetterOfTicket ==
  ASSUME OrderInv, NEW s \in Slot, res[s] # 0
  PROVE  SingleWait => res[s] = (s % Letters) + 1
  BY DEF OrderInv, LettersInTicketOrder

\* A client whose call, answer and letter do not change.
LEMMA AnswerKept ==
  ASSUME IInv, AnswerInv, Next, NEW cl \in Clients,
         UNCHANGED <<cpc[cl], cpid[cl], cres[cl], call[cl], reply[cl]>>
  PROVE  Answered(cl)'
<1>1. SingleWait' => SingleWait
  BY SingleWaitBefore
<1> QED
  BY <1>1 DEF AnswerInv, Answered, OwnLetter

\* An answer is the answer to the call its client waits on: if that asked for a
\* letter, it is the letter of the caller's ticket.
LEMMA AnswerSent ==
  ASSUME IInv, OrderInv, AnswerInv, Next,
         NEW m \in Request, NEW r, SvcSendreply(m, r), UNCHANGED <<cpc, cpid, cres>>,
         m.proc = "BAKERY_SERVICE" => r.res = res[m.pid] /\ res[m.pid] # 0,
         NEW cl \in Clients
  PROVE  Answered(cl)'
<1> USE RpcAssumption
<1>0. ClientInv /\ reply \in [Clients -> Result \cup {None}] /\ (SingleWait' => SingleWait)
  BY SingleWaitBefore DEF IInv, TypeOK, RpcTypeOK
<1>1. m.cl \in Clients /\ m.pid \in Slot /\ m.proc # "served" /\ call' = call
  BY DEF Request, Procs, SvcSendreply
<1>2. \/ reply' = reply
      \/ call[m.cl] = m /\ reply' = [reply EXCEPT ![m.cl] = r]
  BY DEF SvcSendreply
<1>3. CASE reply'[cl] = reply[cl]
  BY <1>1, <1>3, AnswerKept
<1>4. CASE cl = m.cl /\ call[cl] = m /\ reply'[cl] = r
  <2>1. cpc[cl] = m.proc /\ m # None /\ m.pid = cpid[cl]
    BY <1>0, <1>4 DEF ClientInv, AnswerInv, Answered
  <2>2. m.proc = "BAKERY_SERVICE" => OwnLetter(cl, r.res)
    BY <1>1, <2>1, LetterOfTicket DEF OwnLetter
  <2> QED
    BY <1>0, <1>1, <1>4, <2>1, <2>2 DEF Answered, OwnLetter
<1> QED
  BY <1>0, <1>1, <1>2, <1>3, <1>4

\* Every step leaves every client with the letter of its own ticket, or none.
LEMMA AnswerStep ==
  ASSUME IInv, ServedInv, JoinInv, OrderInv, AnswerInv, Next
  PROVE  AnswerInv'
<1>0. /\ TypeOK /\ ControlInv /\ ClientInv /\ RpcTypeOK /\ (SingleWait' => SingleWait)
      /\ call \in [Clients -> Request \cup {None}] /\ reply \in [Clients -> Result \cup {None}]
      /\ cpc \in [Clients -> ClientPCs] /\ cpid \in [Clients -> Slot] /\ cres \in [Clients -> Nat]
  BY SingleWaitBefore DEF IInv, TypeOK, RpcTypeOK
<1>1. SUFFICES ASSUME NEW cl \in Clients PROVE Answered(cl)'
  BY DEF AnswerInv
<1>2. ASSUME NEW d \in Clients, Client(d) \/ ClientTimeout(d) \/ ClientResend(d)
      PROVE  Answered(cl)'
  <2>1. CASE d # cl
    <3>1. UNCHANGED <<cpc[cl], cpid[cl], cres[cl], call[cl], reply[cl]>>
      BY <1>0, <1>2, <2>1
         DEF Client, ClientSend, ClientRecv, ClientTimeout, ClientResend, ClntCall,
             ClntReturn, ClntTimeout, Resend, clientVars
    <3> QED
      BY <3>1, AnswerKept
  <2>2. ASSUME NEW from, NEW proc \in Procs, ClientSend(cl, from, proc)
        PROVE  Answered(cl)'
    <3>1. reply[cl] = None /\ reply' = reply /\ cpid' = cpid
      BY <1>0, <2>2 DEF ClientSend, ClntCall, ClientInv
    <3>2. call'[cl].pid = cpid[cl] /\ cpc'[cl] # "served"
      BY <1>0, <2>2 DEF ClientSend, ClntCall, Procs
    <3> QED
      BY <3>1, <3>2 DEF Answered
  <2>3. CASE ClientRecv(cl)
    <3>1. call'[cl] = None /\ reply'[cl] = None /\ reply[cl] # None
      BY <1>0, <2>3 DEF ClientRecv, ClntReturn
    <3>2. cpc'[cl] = "served" =>
            /\ cpc[cl] = "BAKERY_SERVICE"
            /\ cres'[cl] = reply[cl].res /\ cpid'[cl] = cpid[cl]
      BY <1>0, <2>3 DEF ClientRecv
    <3> QED
      BY <1>0, <3>1, <3>2 DEF AnswerInv, Answered, OwnLetter
  <2>4. CASE ClientTimeout(cl)
    BY <1>0, <2>4 DEF ClientTimeout, ClntTimeout, Answered
  <2>5. CASE ClientResend(cl)
    BY <2>5, AnswerKept DEF ClientResend, Resend, clientVars
  <2> QED
    BY <1>2, <2>1, <2>2, <2>3, <2>4, <2>5 DEF Client, Procs
<1>3. CASE GetNumber \/ ScanNumber \/ AssignNumber \/ BakeryService
  BY <1>3, AnswerKept
     DEF GetNumber, ScanNumber, AssignNumber, BakeryService, clientVars, rpcVars
<1>4. CASE EndGetNumber
  <2>1. req \in Request /\ req.proc # "BAKERY_SERVICE"
    BY <1>0, <1>4 DEF EndGetNumber, TypeOK, ControlInv
  <2> QED
    BY <1>4, <2>1, AnswerSent DEF EndGetNumber, clientVars
<1>5. CASE BakeryWait
  <2>1. Head(inq) \in Request /\ Head(inq).proc = "BAKERY_WAIT"
    BY <1>0, <1>5, SocketHead DEF BakeryWait, Dispatch
  <2>2. CASE UNCHANGED <<call, reply>>
    BY <1>5, <2>2, AnswerKept DEF BakeryWait, clientVars
  <2>3. CASE SvcSendreply(Head(inq), [pid |-> 0, num |-> 0, res |-> 0])
    BY <1>5, <2>1, <2>3, AnswerSent DEF BakeryWait, clientVars
  <2> QED
    BY <1>5, <2>2, <2>3 DEF BakeryWait
<1>6. CASE JoinReturns
  <2>1. req \in Request /\ req.pid \in Slot /\ dpc = "join" /\ tpc[thr[req.pid]] = "done"
    BY <1>0, <1>6 DEF JoinReturns, TypeOK, ControlInv, Request, Joined, Joinee
  <2>2. res[req.pid] # 0
    <3>1. thr[req.pid] \in Threads
      BY <1>0, <2>1 DEF JoinInv, TypeOK
    <3> QED
      BY <2>1, <3>1 DEF ServedInv, JoinInv
  <2>3. /\ SvcSendreply(req, [pid |-> 0, num |-> 0, res |-> res[req.pid]])
        /\ UNCHANGED <<cpc, cpid, cres>>
    BY <1>6 DEF JoinReturns, clientVars
  <2> QED
    BY <2>1, <2>2, <2>3, AnswerSent
<1>7. ASSUME NEW h \in Threads, Thread(h) PROVE Answered(cl)'
  BY <1>7, ThreadFrame, AnswerKept
<1> QED
  BY <1>2, <1>3, <1>4, <1>5, <1>6, <1>7 DEF Next, Dispatcher

-----------------------------------------------------------------------------
(* The theorems.                                                           *)

\* The initial state satisfies the invariants.
LEMMA InitBakery ==
  ASSUME Init
  PROVE  BakeryInv
<1> USE RpcAssumption, Bakery1Assumption
<1>1. LetterInv /\ ServedInv /\ JoinInv /\ AnswerInv
  BY DEF Init, RpcInit, LetterInv, LetterRange, ThreadLetters, SlotLetters, Issued, Slot,
         ServedInv, JoinInv, AnswerInv, Answered
<1>2. OrderInv
  <2>1. \A s \in Slot : s \in Nat /\ (s # 0 => 0 \in Slot /\ 0 < s)
    BY DEF Slot
  <2>2. \A s \in Slot : res[s] = 0
    BY DEF Init
  <2>3. (IF c > Letters THEN 1 ELSE c) = (0 % Letters) + 1
    BY RemainderZero DEF Init
  <2> QED
    BY <2>1, <2>2, <2>3 DEF OrderInv, LettersInTicketOrder
<1> QED
  BY <1>1, <1>2, InitIInv DEF BakeryInv

\* Every step keeps the invariants.
LEMMA NextBakery ==
  ASSUME BakeryInv, [Next]_vars
  PROVE  BakeryInv'
<1>1. CASE Next
  BY <1>1, NextIInv, LetterStep, OrderStep, ServedStep, JoinStep, AnswerStep DEF BakeryInv
<1>2. CASE UNCHANGED vars
  <2>1. UNCHANGED <<call, reply, number, choosing, c, thr, res, dpc, req, ind, num, tpc, tslot,
                    tmp, waits, cpc, cpid, cres>>
    BY <1>2 DEF vars, rpcVars, ticketVars, dispVars, threadVars, clientVars
  <2>2. LetterInv'
    BY <2>1 DEF BakeryInv, LetterInv, LetterRange, ThreadLetters, SlotLetters, SingleWait, Issued
  <2>3. ServedInv' /\ JoinInv'
    BY <2>1 DEF BakeryInv, ServedInv, JoinInv, Issued
  <2>4. AnswerInv'
    BY <2>1 DEF BakeryInv, AnswerInv, Answered, OwnLetter, SingleWait
  <2> QED
    BY <2>2, <2>3, <2>4, NextIInv, OrderStep DEF BakeryInv
<1> QED
  BY <1>1, <1>2

\* Everything the invariants say of the bakery holds in every reachable state.
THEOREM BakeryInvariant == Spec => []BakeryInv
  BY InitBakery, NextBakery, PTL DEF Spec

\* The ticket of slot s gets letter number s of the endless alphabet, after all
\* earlier tickets got theirs, as long as no BAKERY_WAIT is executed twice.
THEOREM LettersFollowTickets == Spec => []LettersInTicketOrder
<1>1. BakeryInv => LettersInTicketOrder
  BY DEF BakeryInv, OrderInv, LettersInTicketOrder
<1> QED
  BY <1>1, BakeryInvariant, PTL

\* What a client prints is a letter, and that of its own ticket if no BAKERY_WAIT
\* is executed twice, whatever is lost, repeated or joined through a descriptor
\* that has a new owner.
THEOREM OwnLetters == Spec => []ClientGetsItsLetter
<1>1. BakeryInv => ClientGetsItsLetter
  BY DEF BakeryInv, AnswerInv, Answered, OwnLetter, ClientGetsItsLetter
<1> QED
  BY <1>1, BakeryInvariant, PTL

\* The dispatcher hangs in pthread_join only behind a live ticket whose
\* BAKERY_WAIT was never executed: the threads do not block each other.
THEOREM HangsBehindUnclaimed == Spec => []HangNeedsUnclaimedTicket
<1>1. BakeryInv => HangNeedsUnclaimedTicket
  BY HangExplained DEF BakeryInv
<1> QED
  BY <1>1, BakeryInvariant, PTL
=============================================================================
