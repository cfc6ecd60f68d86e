------------------------------- MODULE Bakery2 -------------------------------
(***************************************************************************)
(* The single-threaded bakery of src/3/proc/bakery2: bakery_server.c under *)
(* svc_run, and bakery_client.c, over the transport of BakeryRpc.          *)
(*                                                                         *)
(* There is no BAKERY_WAIT.  bakery_service_1_svc itself runs the waiting  *)
(* loop of the bakery algorithm; while it runs nobody else can change      *)
(* number[], so the loop gives every earlier ticket one second (flag) and  *)
(* then goes on: earlier tickets are overtaken, the server never hangs.    *)
(***************************************************************************)
EXTENDS BakeryRpc, FiniteSetsExt

CONSTANT Letters   \* 'a' is 1, 'z' is Letters (26 in the code)

ASSUME Bakery2Assumption == Letters \in Nat \ {0}

VARIABLES num, number, c,            \* the server's globals
          up,                        \* "up", or "undefined" after an overrun
          dpc, req, j, spent,        \* bakery_service_1_svc; seconds spun so far
          log,                       \* history: the slots served, in order
          cpc, cpid, cnum, cres      \* the clients' bakery_prog_1

clientVars == <<cpc, cpid, cnum, cres>>
loopVars == <<dpc, req, j, spent>>
vars == <<rpcVars, num, number, c, up, loopVars, log, clientVars>>

ClientPCs == {"start", "GET_NUMBER", "ticket", "BAKERY_SERVICE", "served", "crashed"}

TypeOK ==
  /\ RpcTypeOK
  /\ num \in Nat
  /\ number \in [Slot -> Nat]
  /\ c \in 1..Letters
  /\ up \in {"up", "undefined"}
  /\ dpc \in {"idle", "serve"}
  /\ req \in Request \cup {None}
  /\ j \in 0..Slots
  /\ spent \in 0..Slots
  /\ log \in Seq(Slot)
  /\ cpc \in [Clients -> ClientPCs]
  /\ cpid \in [Clients -> Slot]
  /\ cnum \in [Clients -> Nat]
  /\ cres \in [Clients -> 0..Letters]

Init ==
  /\ RpcInit
  /\ num = 0
  /\ number = [s \in Slot |-> 0]
  /\ c = 1
  /\ up = "up"
  /\ dpc = "idle" /\ req = None /\ j = 0 /\ spent = 0
  /\ log = <<>>
  /\ cpc = [cl \in Clients |-> "start"]
  /\ cpid = [cl \in Clients |-> 0]
  /\ cnum = [cl \in Clients |-> 0]
  /\ cres = [cl \in Clients |-> 0]

-----------------------------------------------------------------------------
(* The client.                                                             *)

ClientSend(cl, from, proc) ==
  /\ cpc[cl] = from
  /\ ClntCall([cl |-> cl, proc |-> proc, pid |-> cpid[cl], num |-> cnum[cl]])
  /\ cpc' = [cpc EXCEPT ![cl] = proc]
  /\ UNCHANGED <<num, number, c, up, loopVars, log, cpid, cnum, cres>>

ClientRecv(cl) ==
  /\ ClntReturn(cl)
  /\ LET r == reply[cl] IN
       \/ /\ cpc[cl] = "GET_NUMBER"
          /\ cpc' = [cpc EXCEPT ![cl] = "ticket"]
          /\ cpid' = [cpid EXCEPT ![cl] = r.pid]
          /\ cnum' = [cnum EXCEPT ![cl] = r.num]
          /\ UNCHANGED cres
       \/ /\ cpc[cl] = "BAKERY_SERVICE"
          /\ cpc' = [cpc EXCEPT ![cl] = "served"]
          /\ cres' = [cres EXCEPT ![cl] = r.res]
          /\ UNCHANGED <<cpid, cnum>>
  /\ UNCHANGED <<num, number, c, up, loopVars, log>>

\* The stub returned NULL: both results are read through the null pointer.
ClientTimeout(cl) ==
  /\ ClntTimeout(cl)
  /\ cpc' = [cpc EXCEPT ![cl] = "crashed"]
  /\ UNCHANGED <<num, number, c, up, loopVars, log, cpid, cnum, cres>>

ClientResend(cl) ==
  /\ Resend(cl)
  /\ UNCHANGED <<num, number, c, up, loopVars, log, clientVars>>

Client(cl) ==
  \/ ClientSend(cl, "start", "GET_NUMBER")
  \/ ClientSend(cl, "ticket", "BAKERY_SERVICE")
  \/ ClientRecv(cl)

-----------------------------------------------------------------------------
(* The server.  A handler runs alone, so what it does before it looks at   *)
(* the clock is one step; choosing[] is set and reset within one.          *)

Dispatch(proc) ==
  /\ up = "up" /\ dpc = "idle"
  /\ inq # <<>> /\ Head(inq).proc = proc
  /\ inq' = Tail(inq)

\* The largest number and one more.
NewNumber == Max(Range(number)) + 1

\* What is sent back for the ticket.
DrawnTicket == [pid |-> num, num |-> NewNumber, res |-> 0]

\* get_number_1_svc.  Beyond the last slot it writes outside its arrays.
GetNumber ==
  /\ Dispatch("GET_NUMBER")
  /\ num' = num + 1
  /\ \/ /\ num < Slots
        /\ number' = [number EXCEPT ![num] = NewNumber]
        /\ SvcSendreply(Head(inq), DrawnTicket)
        /\ UNCHANGED up
     \/ /\ num >= Slots
        /\ up' = "undefined"
        /\ UNCHANGED <<number, call, reply, resends>>
  /\ UNCHANGED <<c, loopVars, log, clientVars>>

\* Mutant: the loop begins at slot 1.
BakeryServiceSkipsFirst ==
  /\ Dispatch("BAKERY_SERVICE")
  /\ dpc' = "serve" /\ req' = Head(inq) /\ j' = 1 /\ spent' = 0
  /\ UNCHANGED <<call, reply, resends, num, number, c, up, log, clientVars>>

\* bakery_service_1_svc is entered.
BakeryService ==
  /\ Dispatch("BAKERY_SERVICE")
  /\ dpc' = "serve" /\ req' = Head(inq) /\ j' = 0 /\ spent' = 0
  /\ UNCHANGED <<call, reply, resends, num, number, c, up, log, clientVars>>

\* Slot s holds a ticket before the one of request m (the number is the one the
\* client sent, not number[m.pid]).
Before(s, m) ==
  /\ number[s] # 0
  /\ \/ number[s] < m.num
     \/ number[s] = m.num /\ s < m.pid

\* Mutant: the loop waits until the ticket is given back.
WaitForSlotWithoutClock ==
  /\ up = "up" /\ dpc = "serve" /\ j < Slots /\ ~Before(j, req)
  /\ j' = j + 1
  /\ UNCHANGED <<rpcVars, num, number, c, up, dpc, req, spent, log, clientVars>>

\* One turn of the loop: a second of CPU time per ticket that goes first.
WaitForSlot ==
  /\ up = "up" /\ dpc = "serve" /\ j < Slots
  /\ j' = j + 1
  /\ spent' = IF Before(j, req) THEN spent + 1 ELSE spent
  /\ UNCHANGED <<rpcVars, num, number, c, up, dpc, req, log, clientVars>>

\* Mutant: c is not advanced.
SameLetter == c

\* c++, and 'a' after 'z'.
NextLetter == IF c + 1 > Letters THEN 1 ELSE c + 1

\* After the loop: the letter, the wrap to 'a', the ticket given back.
GiveLetter ==
  /\ up = "up" /\ dpc = "serve" /\ j = Slots
  /\ c' = NextLetter
  /\ log' = Append(log, req.pid)
  /\ number' = [number EXCEPT ![req.pid] = 0]
  /\ SvcSendreply(req, [pid |-> 0, num |-> 0, res |-> c])
  /\ dpc' = "idle" /\ req' = None /\ j' = 0 /\ spent' = 0
  /\ UNCHANGED <<inq, num, up, clientVars>>

Server == GetNumber \/ BakeryService \/ WaitForSlot \/ GiveLetter

Next ==
  \/ \E cl \in Clients : Client(cl) \/ ClientTimeout(cl) \/ ClientResend(cl)
  \/ Server

Spec == Init /\ [][Next]_vars

\* svc_run is always runnable and its handlers never block; clients run and read
\* their answers.  Nothing is assumed of the timers.
FairSpec ==
  /\ Spec
  /\ WF_vars(Server)
  /\ \A cl \in Clients : WF_vars(Client(cl))

-----------------------------------------------------------------------------
(* Properties.                                                             *)

Served(s) == \E k \in DOMAIN log : log[k] = s

\* Live tickets are ordered as they were drawn, and one is passed over only while
\* no BAKERY_SERVICE of its own has been executed, after the handler has given
\* each such ticket its second.
OvertakenOnlyIfAbsent ==
  /\ TypeOK
  /\ \A s, t \in Slot :
       s < t /\ number[s] # 0 /\ number[t] # 0 => number[s] < number[t]
  /\ dpc = "serve" /\ j = Slots =>
    /\ spent = Cardinality({s \in Slot : Before(s, req)})
    /\ \A s \in Slot : Before(s, req) => ~Served(s) /\ s < num

\* The letter a client prints is the k-th of the endless alphabet for the k-th
\* service, and that service was for its own ticket, by whichever of its
\* requests was executed: the static result of one is never sent to another.
ClientGetsItsLetter ==
  \A cl \in Clients : cpc[cl] = "served" =>
    \E k \in DOMAIN log : log[k] = cpid[cl] /\ cres[cl] = ((k - 1) % Letters) + 1

\* No client waits for ever, though no timer is assumed to fire: a ticket whose
\* owner has died or was answered in vain delays the others and never blocks
\* them, until the 33rd ticket overruns the arrays.
NeverHangs ==
  \A cl \in Clients :
    <>(cpc[cl] \in {"served", "crashed"} \/ up = "undefined")
=============================================================================
