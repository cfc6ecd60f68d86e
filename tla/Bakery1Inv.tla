------------------------------ MODULE Bakery1Inv ------------------------------
(***************************************************************************)
(* Why the bakery of bakery1 is correct: its inductive invariant, and the  *)
(* promise of LetterService it keeps.                                      *)
(***************************************************************************)
EXTENDS Bakery1

\* The server keeps the promise of LetterService: the letter is handed out when
\* it is stored in res[], c beyond 'z' stands for the 'a' it is about to become.
Promise == INSTANCE LetterService WITH
             issued <- num, letter <- res, next <- IF c > Letters THEN 1 ELSE c

\* bakery1 implements LetterService as long as each BAKERY_WAIT is executed
\* once: the letters follow the tickets, whatever the threads, the dispatcher
\* and the clients interleave.
KeepsPromise == Promise!Spec

-----------------------------------------------------------------------------
(* The inductive invariant.                                                *)

\* Where the program counters are, what the locals they use hold.
ControlInv ==
  /\ dpc # "idle" => req # None
  /\ dpc = "join" => req.proc = "BAKERY_SERVICE"
  /\ dpc = "scan" => i < Slots
  /\ dpc \in {"scan", "assign", "unchoose"} => num = ind + 1 /\ req.proc = "GET_NUMBER"
  /\ \A h \in Threads : tpc[h] = "free" => tj[h] = 0
  /\ \A h \in Threads : Spinning(h) => tj[h] < Slots
  /\ \A h \in Threads : InService(h) => tj[h] = Slots

\* get_number_1_svc has written the number of slot s.
Issued(s) ==
  /\ s < num
  /\ dpc \in {"scan", "assign"} => s # ind

\* A request other than GET_NUMBER names a ticket that has its number.
Claimed(m) == m.proc # "GET_NUMBER" => Issued(m.pid)

HasTicket(cl) == cpc[cl] \notin {"start", "GET_NUMBER", "crashed"}

\* Nobody uses a ticket before its number is written: not a message on its
\* way, not a client, not a thread.
QueueInv == \A k \in 1..Len(inq) : Claimed(inq[k])

ClientInv ==
  \A cl \in Clients :
    /\ HasTicket(cl) => Issued(cpid[cl])
    /\ reply[cl] # None => call[cl] # None
    /\ cpc[cl] = "GET_NUMBER" /\ reply[cl] # None => Issued(reply[cl].pid)
    /\ call[cl] # None => /\ call[cl].proc = cpc[cl]
                          /\ call[cl].cl = cl
                          /\ Claimed(call[cl])

ThreadInv == \A h \in Threads : tpc[h] # "free" => Issued(tslot[h])

\* The numbers: none before it is drawn, and in the order of the slots; the
\* maximum of the scan is not below any number it has passed.
NumberInv ==
  /\ \A s \in Slot : ~Issued(s) => number[s] = 0
  /\ TicketsIncrease
  /\ dpc = "scan" => \A s \in Slot : s < i => number[s] <= max
  /\ dpc = "assign" => \A s \in Slot : number[s] <= max

\* A thread that has passed j, in its loop or after it, has no live ticket
\* before it at j.  (choosing[] plays no part: one dispatcher draws.)
PassedInv ==
  \A h \in Threads : \A j \in Slot :
    /\ tpc[h] \notin {"free", "done"}
    /\ number[tslot[h]] # 0
    /\ j < tj[h]
    /\ j < tslot[h]
    => number[j] = 0

\* A ticket's first thread finds it alive, and keeps it so until it leaves.
OwnerInv ==
  /\ \A s \in Slot : Issued(s) /\ waits[s] = 0 => number[s] # 0
  /\ \A h \in Threads : tpc[h] # "free" => waits[tslot[h]] # 0
  /\ SingleWait =>
       \A h \in Threads :
         /\ tpc[h] \notin {"free", "done"} => number[tslot[h]] # 0
         /\ \A k \in Threads :
              tpc[h] # "free" /\ tpc[k] # "free" /\ tslot[h] = tslot[k] => h = k

\* The inductive invariant of the bakery: program counters, claims, numbers,
\* loops and owners of tickets in bakery_server.c fit together in every state.
IInv ==
  /\ TypeOK /\ ControlInv
  /\ QueueInv /\ ClientInv /\ ThreadInv
  /\ NumberInv /\ PassedInv /\ OwnerInv

\* The letters.  c leaves 'a'..'z' only between c++ and the reset, ...
LetterRange ==
  /\ c \in 1..(Letters + 1)
  /\ c > Letters => \E h \in Threads : tpc[h] \in {"wrap", "reset"}

\* ... the letter in a thread's register is c, ...
ThreadLetters ==
  \A h \in Threads :
    /\ tpc[h] = "store" => tmp[h] = c
    /\ tpc[h] = "reset" => c > Letters
    /\ tpc[h] \in {"wrap", "reset", "leave"} => res[tslot[h]] # 0
    /\ tpc[h] \in {"choosing", "number", "load", "store"} => res[tslot[h]] = 0

\* ... and a ticket has its letter when it is given back, none before its wait.
SlotLetters ==
  \A s \in Slot :
    /\ Issued(s) /\ number[s] = 0 => res[s] # 0
    /\ waits[s] = 0 => res[s] = 0

LetterInv == SingleWait => LetterRange /\ ThreadLetters /\ SlotLetters

\* The letters follow the tickets: what comes after the last letter given out is
\* the letter of the first ticket that has none.
OrderInv ==
  SingleWait => /\ LettersInTicketOrder
                /\ \A s \in Slot :
                     res[s] = 0 /\ (\A t \in Slot : t < s => res[t] # 0)
                       => (IF c > Letters THEN 1 ELSE c) = (s % Letters) + 1

\* A thread past its store has a letter in res[], and so has a ticket whose
\* thread is gone, even if its descriptor thr[s] has a new owner meanwhile.
ServedInv ==
  /\ c # 0
  /\ \A h \in Threads :
       /\ tpc[h] = "store" => tmp[h] # 0
       /\ tpc[h] \in {"wrap", "reset", "leave", "done"} => res[tslot[h]] # 0
  /\ \A s \in Slot :
       \/ thr[s] = NoThread
       \/ tpc[thr[s]] # "free" /\ tslot[thr[s]] = s
       \/ res[s] # 0

\* The dispatcher waits for a thread that exists, nobody draws a ticket
\* meanwhile, and a live ticket that was waited for has a thread at work.
JoinInv ==
  /\ dpc = "join" => thr[req.pid] # NoThread /\ tpc[thr[req.pid]] # "free"
  /\ \A s \in Slot :
       /\ choosing[s] => dpc \in {"scan", "assign", "unchoose"} /\ s = ind
       /\ waits[s] # 0 => Issued(s)
       /\ waits[s] # 0 /\ number[s] # 0
            => \E h \in Threads : tslot[h] = s /\ tpc[h] \notin {"free", "done"}

\* The letter that cl was sent, in its socket or printed.
OwnLetter(cl, letter) ==
  /\ letter # 0
  /\ SingleWait => letter = (cpid[cl] % Letters) + 1

\* A call carries the caller's ticket, and its answer the letter of that ticket.
Answered(cl) ==
  /\ call[cl] # None => call[cl].pid = cpid[cl]
  /\ cpc[cl] = "BAKERY_SERVICE" /\ reply[cl] # None => OwnLetter(cl, reply[cl].res)
  /\ cpc[cl] = "served" => OwnLetter(cl, cres[cl])

AnswerInv == \A cl \in Clients : Answered(cl)

\* All of it: what bakery_server.c and its clients keep true at every step,
\* from the tickets in number[] to the letter a client prints.
BakeryInv ==
  /\ IInv /\ LetterInv /\ OrderInv
  /\ ServedInv /\ JoinInv /\ AnswerInv
=============================================================================
