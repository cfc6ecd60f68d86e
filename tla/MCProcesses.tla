---------------------------- MODULE MCProcesses ----------------------------
(***************************************************************************)
(* The programs of processes and threads that neither use nor disturb one  *)
(* another, in one instance for TLC: the servers with their clients and    *)
(* the paired sockets of 2, and the open-file experiments of 8.  A         *)
(* behaviour is of the one that "which" names; the others are not started. *)
(***************************************************************************)
EXTENDS EpollServer, TLC

CONSTANTS Servers, Pids, MaxRuns, Fit, Longest, MaxQueue, Receivers, Senders, Letters, BufLen

VARIABLES
    which,
    srv, file, queue, buf, addr, addrlen, bytes, digits, cut,
    dgramClient, run, own, inbox, answer, killed, errors,
    rcvSrv, rcvFile, rcvQueue, rcvClient, sent, printed, rcvKilled,
    parent, child, ends, toParent, toChild, pairBuf, pairOut,
    rProg, rExists, rMain, rPc, flag, turn, rPos, rBuf, rC, out,
    prog, exists, text, before, main, wPc, c, pos, wBuf, wrote, st, statbuf, shown

Dgram == INSTANCE DgramServer WITH client <- dgramClient

Receive == INSTANCE ReceiveServer
    WITH Servers <- Receivers, Clients <- Senders, MaxQueue <- MaxQueue + 1,
         srv <- rcvSrv, file <- rcvFile, queue <- rcvQueue, client <- rcvClient,
         killed <- rcvKilled

Paired == INSTANCE PairedSockets WITH buf <- pairBuf, out <- pairOut

Reads == INSTANCE OpenRead
    WITH N <- Letters, prog <- rProg, exists <- rExists, main <- rMain, pc <- rPc,
         pos <- rPos, buf <- rBuf, c <- rC

Writes == INSTANCE OpenWrite
    WITH N <- Letters, file <- text, pc <- wPc, buf <- wBuf

ASSUME DgramConstants == Dgram!DgramAssumption
ASSUME ReceiveConstants == Receive!QueueAssumption
ASSUME ReadsConstants == Reads!OpenReadAssumption
ASSUME WritesConstants == Writes!OpenWriteAssumption

epollVars == vars
dgramVars == <<srv, file, queue, buf, addr, addrlen, bytes, digits, cut,
               dgramClient, run, own, inbox, answer, killed, errors>>
receiveVars == <<rcvSrv, rcvFile, rcvQueue, rcvClient, sent, printed, rcvKilled>>
pairVars == <<parent, child, ends, toParent, toChild, pairBuf, pairOut>>
readVars == <<rProg, rExists, rMain, rPc, flag, turn, rPos, rBuf, rC, out>>
writeVars == <<prog, exists, text, before, main, wPc, c, pos, wBuf, wrote, st, statbuf, shown>>
allVars == <<which, epollVars, dgramVars, receiveVars, pairVars, readVars, writeVars>>

(* one pid with a digit more than another, where both names fit a sockaddr  *)
(* and where one does not                                                   *)
DigitsToTry ==
    LET short == CHOOSE p \in Pids : TRUE
    IN  {[p \in Pids |-> IF p = short THEN n - 1 ELSE n] : n \in {Fit, Longest}}

AllInit ==
    /\ which \in {"epoll", "dgram", "receive", "paired_sockets", "open_read", "open_write"}
    /\ Init /\ Receive!Init /\ Dgram!Init /\ digits \in DigitsToTry
    /\ (which # "dgram" => \A p \in Pids : digits[p] <= Fit)
    /\ Paired!Init /\ Reads!Init /\ (which # "open_read" => rProg = "1" /\ rExists)
    /\ Writes!Init /\ (which # "open_write" => prog = "3" /\ ~exists)

EpollStep ==
    /\ which = "epoll" /\ Next
    /\ UNCHANGED <<which, dgramVars, receiveVars, pairVars, readVars, writeVars>>

DgramStep ==
    /\ which = "dgram" /\ Dgram!Next
    /\ UNCHANGED <<which, epollVars, receiveVars, pairVars, readVars, writeVars>>

ReceiveStep ==
    /\ which = "receive" /\ Receive!Next
    /\ UNCHANGED <<which, epollVars, dgramVars, pairVars, readVars, writeVars>>

PairedStep ==
    /\ which = "paired_sockets" /\ Paired!Next
    /\ UNCHANGED <<which, epollVars, dgramVars, receiveVars, readVars, writeVars>>

ReadStep ==
    /\ which = "open_read" /\ Reads!Next
    /\ UNCHANGED <<which, epollVars, dgramVars, receiveVars, pairVars, writeVars>>

WriteStep ==
    /\ which = "open_write" /\ Writes!Next
    /\ UNCHANGED <<which, epollVars, dgramVars, receiveVars, pairVars, readVars>>

AllNext == EpollStep \/ DgramStep \/ ReceiveStep
           \/ PairedStep \/ ReadStep \/ WriteStep

(* The fairness of each module, for the one that runs.                      *)
AllFairness ==
    /\ WF_epollVars(which = "epoll" /\ Server)
    /\ \A cl \in Clients : WF_epollVars(which = "epoll" /\ ClientStep(cl))
    /\ \A s \in Servers : WF_dgramVars(which = "dgram" /\ Dgram!ServerStep(s))
    /\ \A p \in Pids : WF_dgramVars(which = "dgram" /\ Dgram!ClientStep(p))
    /\ WF_pairVars(which = "paired_sockets" /\ Paired!Parent)
    /\ WF_pairVars(which = "paired_sockets" /\ Paired!Child)
    /\ WF_readVars(which = "open_read" /\ (Reads!Open \/ Reads!Create \/ Reads!Return))
    /\ \A i \in Reads!Readers : WF_readVars(which = "open_read" /\ Reads!Reader(i))

AllSpec == AllInit /\ [][AllNext]_allVars /\ AllFairness

-----------------------------------------------------------------------------
(* socket(send-receive-respond): a client reads the answer to its own       *)
(* request, or, after a failed recvfrom, to one of an earlier client with   *)
(* its pid, however pids are used again and names differ in length.         *)
OwnAnswer == Dgram!OwnAnswer

(* socket(send-receive-respond): one server at most has the name, and its   *)
(* file is left exactly if a server did not end by its handler.             *)
StaleMeansKilled == Dgram!StaleMeansKilled

(* socket(send-receive-respond): a client that has sent its request waits   *)
(* for ever only if a server has ended or if its name does not fit or is    *)
(* longer than that of the client received just before.                     *)
AnsweredIfServed == Dgram!AnsweredIfServed

(* socket(send-receive): one server at a time, and it has printed in order  *)
(* all messages but those that still wait.                                  *)
PrintsAllInOrder == Receive!PrintsAllInOrder

(* paired-sockets: who prints has received, and both processes end, but for *)
(* the parent that waits for a child killed before it wrote.                *)
ExchangeAndEnd == which = "paired_sockets" => Paired!ExchangeAndEnd

(* 1.c to 2_thread.c: every letter is printed once by one of two streams,   *)
(* or twice through two descriptors, in the order of the file.              *)
ReadsAll == Reads!ReadsAll

(* 1.c to 2_thread.c: every program ends, except 2_thread.c without a file. *)
Ends == which = "open_read" => Reads!Ends

(* 2_1.c to 3_thread.c: which letters are in the file when it is closed,    *)
(* and that no size is printed that the file does not have.                 *)
KeepsEveryLetter == Writes!KeepsEveryLetter
=============================================================================
