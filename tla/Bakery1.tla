------------------------------- MODULE Bakery1 -------------------------------
(***************************************************************************)
(* The multi-threaded bakery of src/3/proc/bakery1: bakery_server.c (the   *)
(* three handlers and the thread bakery_service), bakery_svc.c (svc_run:   *)
(* one dispatcher, one request at a time) and bakery_client.c, over the    *)
(* transport of BakeryRpc.                                                 *)
(*                                                                         *)
(* A client draws a ticket (GET_NUMBER), has a thread started that waits   *)
(* for its turn (BAKERY_WAIT), and asks for the letter the thread took     *)
(* (BAKERY_SERVICE), which blocks the dispatcher in pthread_join.          *)
(***************************************************************************)
EXTENDS BakeryRpc

CONSTANTS Letters,     \* 'a' is 1, 'z' is Letters (26 in the code)
          Threads,     \* bound: the descriptors pthread_create can hand out
          NoThread     \* the zeroed entry of thr[]

ASSUME Bakery1Assumption ==
  /\ Letters \in Nat \ {0}
  /\ NoThread \notin Threads

VARIABLES num, choosing, number, c, thr, res,   \* the server's globals
          up,                                   \* how the server process is
          dpc, req, ind, i, max,                \* svc_run and the handler it is in
          tpc, tslot, tj, tmp,                  \* the threads bakery_service
          waits,                                \* history: BAKERY_WAITs run per slot
          cpc, cpid, cnum, cres                 \* the clients' bakery_prog_1

ticketVars == <<num, choosing, number>>
dispVars   == <<dpc, req, ind, i, max>>
threadVars == <<tpc, tslot, tj, tmp>>
clientVars == <<cpc, cpid, cnum, cres>>
vars == <<rpcVars, ticketVars, c, thr, res, up, dispVars, threadVars, waits,
          clientVars>>

DispatcherPCs == {"idle", "scan", "assign", "unchoose", "join"}
ThreadPCs == {"free", "choosing", "number", "load", "store", "wrap", "reset",
              "leave", "done"}
ClientPCs == {"start", "GET_NUMBER", "ticket", "BAKERY_WAIT", "queued",
              "BAKERY_SERVICE", "served", "crashed"}

TypeOK ==
  /\ RpcTypeOK
  /\ num \in Nat
  /\ choosing \in [Slot -> BOOLEAN]
  /\ number \in [Slot -> Nat]
  /\ c \in Nat
  /\ thr \in [Slot -> Threads \cup {NoThread}]
  /\ res \in [Slot -> Nat]
  /\ up \in {"up", "exited", "crashed", "undefined"}
  /\ dpc \in DispatcherPCs
  /\ req \in Request \cup {None}
  /\ ind \in Slot
  /\ i \in 0..Slots
  /\ max \in Nat
  /\ tpc \in [Threads -> ThreadPCs]
  /\ tslot \in [Threads -> Slot]
  /\ tj \in [Threads -> 0..Slots]
  /\ tmp \in [Threads -> Nat]
  /\ waits \in [Slot -> Nat]
  /\ cpc \in [Clients -> ClientPCs]
  /\ cpid \in [Clients -> Slot]
  /\ cnum \in [Clients -> Nat]
  /\ cres \in [Clients -> Nat]

Init ==
  /\ RpcInit
  /\ num = 0
  /\ choosing = [s \in Slot |-> FALSE]
  /\ number = [s \in Slot |-> 0]
  /\ c = 1
  /\ thr = [s \in Slot |-> NoThread]
  /\ res = [s \in Slot |-> 0]
  /\ up = "up"
  /\ dpc = "idle"
  /\ req = None /\ ind = 0 /\ i = 0 /\ max = 0
  /\ tpc = [h \in Threads |-> "free"]
  /\ tslot = [h \in Threads |-> 0]
  /\ tj = [h \in Threads |-> 0]
  /\ tmp = [h \in Threads |-> 0]
  /\ waits = [s \in Slot |-> 0]
  /\ cpc = [cl \in Clients |-> "start"]
  /\ cpid = [cl \in Clients |-> 0]
  /\ cnum = [cl \in Clients |-> 0]
  /\ cres = [cl \in Clients |-> 0]

-----------------------------------------------------------------------------
(* The client: bakery_prog_1 of bakery_client.c.                           *)

ClientSend(cl, from, proc) ==
  /\ cpc[cl] = from
  /\ ClntCall([cl |-> cl, proc |-> proc, pid |-> cpid[cl], num |-> cnum[cl]])
  /\ cpc' = [cpc EXCEPT ![cl] = proc]
  /\ UNCHANGED <<ticketVars, c, thr, res, up, dispVars, threadVars, waits,
                 cpid, cnum, cres>>

\* The answer to a call arrives: the ticket is copied into the next argument,
\* the (empty) answer to BAKERY_WAIT is not looked at, the letter is printed.
ClientRecv(cl) ==
  /\ ClntReturn(cl)
  /\ LET r == reply[cl] IN
       \/ /\ cpc[cl] = "GET_NUMBER"
          /\ cpc' = [cpc EXCEPT ![cl] = "ticket"]
          /\ cpid' = [cpid EXCEPT ![cl] = r.pid]
          /\ cnum' = [cnum EXCEPT ![cl] = r.num]
          /\ UNCHANGED cres
       \/ /\ cpc[cl] = "BAKERY_WAIT"
          /\ cpc' = [cpc EXCEPT ![cl] = "queued"]
          /\ UNCHANGED <<cpid, cnum, cres>>
       \/ /\ cpc[cl] = "BAKERY_SERVICE"
          /\ cpc' = [cpc EXCEPT ![cl] = "served"]
          /\ cres' = [cres EXCEPT ![cl] = r.res]
          /\ UNCHANGED <<cpid, cnum>>
  /\ UNCHANGED <<ticketVars, c, thr, res, up, dispVars, threadVars, waits>>

\* The stub returned NULL.  The code prints "call failed" and goes on: after
\* GET_NUMBER and BAKERY_SERVICE it reads through the null pointer and dies,
\* after BAKERY_WAIT it does not look at the result and asks for its letter.
ClientTimeout(cl) ==
  /\ ClntTimeout(cl)
  /\ cpc' = [cpc EXCEPT ![cl] = IF @ = "BAKERY_WAIT" THEN "queued" ELSE "crashed"]
  /\ UNCHANGED <<ticketVars, c, thr, res, up, dispVars, threadVars, waits,
                 cpid, cnum, cres>>

ClientResend(cl) ==
  /\ Resend(cl)
  /\ UNCHANGED <<ticketVars, c, thr, res, up, dispVars, threadVars, waits,
                 clientVars>>

Client(cl) ==
  \/ ClientSend(cl, "start", "GET_NUMBER")
  \/ ClientSend(cl, "ticket", "BAKERY_WAIT")
  \/ ClientSend(cl, "queued", "BAKERY_SERVICE")
  \/ ClientRecv(cl)

-----------------------------------------------------------------------------
(* The dispatcher: svc_run takes the requests one by one.                  *)

\* svc_run takes the request at the head of the socket for its handler.
Dispatch(proc) ==
  /\ up = "up" /\ dpc = "idle"
  /\ inq # <<>> /\ Head(inq).proc = proc
  /\ inq' = Tail(inq)

\* get_number_1_svc, up to the loop.  With all the slots drawn, choosing[ind]
\* and number[ind] lie outside their arrays: what the server does from then on
\* is not defined.
GetNumber ==
  /\ Dispatch("GET_NUMBER")
  /\ num' = num + 1
  /\ \/ /\ num < Slots
        /\ req' = Head(inq) /\ ind' = num /\ i' = 0 /\ max' = 0
        /\ choosing' = [choosing EXCEPT ![num] = TRUE]
        /\ dpc' = "scan"
        /\ UNCHANGED up
     \/ /\ num >= Slots
        /\ up' = "undefined"
        /\ UNCHANGED <<choosing, dispVars>>
  /\ UNCHANGED <<call, reply, resends, number, c, thr, res, threadVars, waits,
                 clientVars>>

\* if (number[i] > max) max = number[i];
NewMax == IF number[i] > max THEN number[i] ELSE max

\* One turn of the loop that looks for the largest number.
ScanNumber ==
  /\ up = "up" /\ dpc = "scan"
  /\ max' = NewMax
  /\ i' = i + 1
  /\ dpc' = IF i + 1 = Slots THEN "assign" ELSE "scan"
  /\ UNCHANGED <<rpcVars, ticketVars, c, thr, res, up, req, ind, threadVars,
                 waits, clientVars>>

AssignNumber ==
  /\ up = "up" /\ dpc = "assign"
  /\ number' = [number EXCEPT ![ind] = max + 1]
  /\ dpc' = "unchoose"
  /\ UNCHANGED <<rpcVars, num, choosing, c, thr, res, up, req, ind, i, max,
                 threadVars, waits, clientVars>>

\* A handler returns: its argument and its locals are gone.
HandlerReturns ==
  /\ dpc' = "idle"
  /\ req' = None /\ ind' = 0 /\ i' = 0 /\ max' = 0

\* What is sent back for the ticket.
DrawnTicket == [pid |-> ind, num |-> number[ind], res |-> 0]

EndGetNumber ==
  /\ up = "up" /\ dpc = "unchoose"
  /\ choosing' = [choosing EXCEPT ![ind] = FALSE]
  /\ SvcSendreply(req, DrawnTicket)
  /\ HandlerReturns
  /\ UNCHANGED <<inq, num, number, c, thr, res, up, threadVars, waits, clientVars>>

\* bakery_wait_1_svc: starts the thread; if the library cannot, exit(1).
BakeryWait ==
  /\ Dispatch("BAKERY_WAIT")
  /\ LET m == Head(inq) IN
       \/ \E h \in Threads :
            /\ tpc[h] = "free"
            /\ tpc' = [tpc EXCEPT ![h] = "choosing"]
            /\ tslot' = [tslot EXCEPT ![h] = m.pid]
            /\ thr' = [thr EXCEPT ![m.pid] = h]
            /\ waits' = [waits EXCEPT ![m.pid] = @ + 1]
            /\ SvcSendreply(m, [pid |-> 0, num |-> 0, res |-> 0])
            /\ UNCHANGED up
       \/ /\ up' = "exited"
          /\ UNCHANGED <<tpc, tslot, thr, waits, call, reply, resends>>
  /\ UNCHANGED <<ticketVars, c, res, dispVars, tj, tmp, clientVars>>

\* bakery_service_1_svc up to pthread_join: a zeroed thr[] entry is read as an
\* address, a descriptor that was joined before answers ESRCH and the handler
\* exits (or its memory is unmapped), unless the library has given it to a
\* younger thread meanwhile.
BakeryService ==
  /\ Dispatch("BAKERY_SERVICE")
  /\ LET h == thr[Head(inq).pid] IN
       \/ /\ h = NoThread
          /\ up' = "crashed" /\ UNCHANGED <<dpc, req>>
       \/ /\ h # NoThread /\ tpc[h] = "free"
          /\ up' \in {"exited", "crashed"} /\ UNCHANGED <<dpc, req>>
       \/ /\ h # NoThread /\ tpc[h] # "free"
          /\ dpc' = "join" /\ req' = Head(inq) /\ UNCHANGED up
  /\ UNCHANGED <<call, reply, resends, ticketVars, c, thr, res, ind, i, max,
                 threadVars, waits, clientVars>>

\* The thread that the dispatcher waits for in pthread_join.
Joinee == thr[req.pid]

\* Mutant: the result is read without waiting for the thread.
JoinedAtOnce == TRUE

\* pthread_join may return.
Joined == tpc[Joinee] = "done"

\* pthread_join returns and frees the descriptor, with all the thread had; the
\* letter is sent.
JoinReturns ==
  /\ up = "up" /\ dpc = "join" /\ Joined
  /\ tpc' = [tpc EXCEPT ![Joinee] = "free"]
  /\ tslot' = [tslot EXCEPT ![Joinee] = 0]
  /\ tj' = [tj EXCEPT ![Joinee] = 0]
  /\ SvcSendreply(req, [pid |-> 0, num |-> 0, res |-> res[req.pid]])
  /\ HandlerReturns
  /\ UNCHANGED <<inq, ticketVars, c, thr, res, up, tmp, waits, clientVars>>

Dispatcher ==
  \/ GetNumber \/ ScanNumber \/ AssignNumber \/ EndGetNumber
  \/ BakeryWait \/ BakeryService \/ JoinReturns

-----------------------------------------------------------------------------
(* The thread bakery_service.                                              *)

\* Mutants: smaller numbers are not waited for; the comparison is reversed; a
\* thread waits for itself (j <= i).
BeforeTiesOnly(j, s) == number[j] # 0 /\ number[j] = number[s] /\ j < s
BeforeReversed(j, s) == number[j] # 0 /\ number[j] > number[s]
BeforeOrSelf(j, s) ==
  number[j] # 0 /\ (number[j] < number[s] \/ (number[j] = number[s] /\ j <= s))

\* The condition of the second spinning loop: j goes before s.
Before(j, s) ==
  /\ number[j] # 0
  /\ \/ number[j] < number[s]
     \/ number[j] = number[s] /\ j < s

\* while (choosing[j]) {}
PassChoosing(h) ==
  /\ up = "up" /\ tpc[h] = "choosing"
  /\ ~choosing[tj[h]]
  /\ tpc' = [tpc EXCEPT ![h] = "number"]
  /\ UNCHANGED <<rpcVars, ticketVars, c, thr, res, up, dispVars, tslot, tj, tmp,
                 waits, clientVars>>

\* while (number[j] != 0 && ...) {}
PassNumber(h) ==
  /\ up = "up" /\ tpc[h] = "number"
  /\ ~Before(tj[h], tslot[h])
  /\ tj' = [tj EXCEPT ![h] = @ + 1]
  /\ tpc' = [tpc EXCEPT ![h] = IF tj[h] + 1 = Slots THEN "load" ELSE "choosing"]
  /\ UNCHANGED <<rpcVars, ticketVars, c, thr, res, up, dispVars, tslot, tmp,
                 waits, clientVars>>

\* targ->res = c++: c is read, then written together with the result.
LoadLetter(h) ==
  /\ up = "up" /\ tpc[h] = "load"
  /\ tmp' = [tmp EXCEPT ![h] = c]
  /\ tpc' = [tpc EXCEPT ![h] = "store"]
  /\ UNCHANGED <<rpcVars, ticketVars, c, thr, res, up, dispVars, tslot, tj,
                 waits, clientVars>>

StoreLetter(h) ==
  /\ up = "up" /\ tpc[h] = "store"
  /\ c' = tmp[h] + 1
  /\ res' = [res EXCEPT ![tslot[h]] = tmp[h]]
  /\ tmp' = [tmp EXCEPT ![h] = 0]
  /\ tpc' = [tpc EXCEPT ![h] = "wrap"]
  /\ UNCHANGED <<rpcVars, ticketVars, thr, up, dispVars, tslot, tj, waits,
                 clientVars>>

\* Mutant: 'z' itself is skipped.
WrapsEarly == c >= Letters

Wraps == c > Letters

\* if (c > 'z') ...
TestWrap(h) ==
  /\ up = "up" /\ tpc[h] = "wrap"
  /\ tpc' = [tpc EXCEPT ![h] = IF Wraps THEN "reset" ELSE "leave"]
  /\ UNCHANGED <<rpcVars, ticketVars, c, thr, res, up, dispVars, tslot, tj, tmp,
                 waits, clientVars>>

\* ... c = 'a'
ResetLetter(h) ==
  /\ up = "up" /\ tpc[h] = "reset"
  /\ c' = 1
  /\ tpc' = [tpc EXCEPT ![h] = "leave"]
  /\ UNCHANGED <<rpcVars, ticketVars, thr, res, up, dispVars, tslot, tj, tmp,
                 waits, clientVars>>

Leave(h) ==
  /\ up = "up" /\ tpc[h] = "leave"
  /\ number' = [number EXCEPT ![tslot[h]] = 0]
  /\ tpc' = [tpc EXCEPT ![h] = "done"]
  /\ UNCHANGED <<rpcVars, num, choosing, c, thr, res, up, dispVars, tslot, tj,
                 tmp, waits, clientVars>>

Thread(h) ==
  \/ PassChoosing(h) \/ PassNumber(h) \/ LoadLetter(h) \/ StoreLetter(h)
  \/ TestWrap(h) \/ ResetLetter(h) \/ Leave(h)

-----------------------------------------------------------------------------
Next ==
  \/ \E cl \in Clients : Client(cl) \/ ClientTimeout(cl) \/ ClientResend(cl)
  \/ Dispatcher
  \/ \E h \in Threads : Thread(h)

Spec == Init /\ [][Next]_vars

(***************************************************************************)
(* Fairness.  The kernel schedules every runnable thread of the server,    *)
(* the spinning ones included, and the clients' calls and their TIMEOUT    *)
(* are driven by timers.  Nothing obliges a client to retransmit.          *)
(***************************************************************************)
FairSpec ==
  /\ Spec
  /\ WF_vars(Dispatcher)
  /\ \A h \in Threads : WF_vars(Thread(h))
  /\ \A cl \in Clients : WF_vars(Client(cl)) /\ WF_vars(ClientTimeout(cl))

-----------------------------------------------------------------------------
(* Properties.                                                             *)

\* No BAKERY_WAIT was executed twice for the same ticket.
SingleWait == \A s \in Slot : waits[s] <= 1

\* The critical section: from reading c to giving the ticket back.
InService(h) == tpc[h] \in {"load", "store", "wrap", "reset", "leave"}

Spinning(h) == tpc[h] \in {"choosing", "number"}

\* Mutual exclusion: at most one thread is between its waiting loop and
\* number[i] = 0 (bakery_server.c:50-54), so c++ and the wrap to 'a' are never
\* interleaved, as long as no BAKERY_WAIT was executed twice for one ticket.
Mutex ==
  SingleWait => \A h, k \in Threads : InService(h) /\ InService(k) => h = k

\* The tickets are served in the order in which get_number_1_svc drew them, and
\* the ticket of slot s gets letter number s of the endless alphabet: none is
\* skipped, given twice or out of 'a'..'z'.
LettersInTicketOrder ==
  SingleWait => \A s \in Slot : res[s] # 0 =>
                  /\ res[s] = (s % Letters) + 1
                  /\ \A t \in Slot : t < s => res[t] # 0

\* Live tickets are ordered as they were drawn: there is never a tie, although
\* the threads give numbers back while get_number_1_svc looks for the maximum.
TicketsIncrease ==
  \A s, t \in Slot :
    s < t /\ number[s] # 0 /\ number[t] # 0 => number[s] < number[t]

\* What a client prints is a letter taken for its own ticket, whatever was lost,
\* sent twice or joined through a descriptor that has a new owner.
ClientGetsItsLetter ==
  \A cl \in Clients : cpc[cl] = "served" =>
    /\ cres[cl] # 0
    /\ SingleWait => cres[cl] = (cpid[cl] % Letters) + 1

Blocked(h) ==
  \/ tpc[h] = "choosing" /\ choosing[tj[h]]
  \/ tpc[h] = "number" /\ Before(tj[h], tslot[h])

\* The only way the server hangs in pthread_join for ever: an earlier ticket
\* whose thread was never started, because its BAKERY_WAIT is behind the
\* dispatcher that is waiting, was lost, or its client is gone.
HangNeedsUnclaimedTicket ==
  /\ up = "up" /\ dpc = "join" /\ tpc[Joinee] # "done"
  /\ \A h \in Threads : tpc[h] \in {"free", "done"} \/ Blocked(h)
  => \E s \in Slot : Before(s, tslot[Joinee]) /\ waits[s] = 0

\* pthread_join returns when every ticket drawn so far has had its BAKERY_WAIT:
\* the threads let each other through, in the order of their tickets.
JoinReturnsIfAllWait ==
  (dpc = "join" /\ \A s \in Slot : number[s] # 0 => waits[s] # 0)
    ~> (dpc # "join" \/ up # "up")

\* Every client comes to an end, with its letter or in its crash, even when the
\* dispatcher is stuck for good.
ClientsFinish ==
  \A cl \in Clients : <>(cpc[cl] \in {"served", "crashed"})
=============================================================================
