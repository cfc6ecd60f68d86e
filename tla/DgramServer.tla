---------------------------- MODULE DgramServer ----------------------------
(***************************************************************************)
(* The server that answers, 2/client-sever/socket(send-receive-respond),   *)
(* and its clients.  Servers are started one after the other or side by    *)
(* side, are interrupted or killed; a pid, which names the socket of a     *)
(* client, is used again by later clients.  The name of a client is as     *)
(* long as its pid has digits, which recvfrom and sendto have to agree on.  *)
(***************************************************************************)
EXTENDS Naturals, Sequences, FiniteSets, SocketFile

CONSTANTS
    Servers,     \* processes that run the server
    Pids,        \* pids of clients
    None,        \* no address
    Fit,         \* digits of the longest pid whose name fits a sockaddr (6)
    Longest,     \* digits of the longest pid (7)
    MaxRuns      \* bound on the clients with one pid

DgramAssumption ==
    /\ {MaxRuns, MaxQueue, Fit, Longest} \subseteq Nat \ {0} /\ Fit <= Longest
    /\ None \notin Pids

Requests == [pid : Pids, run : 1..MaxRuns]

VARIABLES
    srv,         \* what each server does next
    buf, addr,   \* the message in its buffer, and whose name is in client_addr
    addrlen,     \* length of a name, by the digits of its pid
    bytes,       \* for each i the length of the name whose byte is the one that
                 \* ends the name of an i-digit pid in client_addr; 0: no name's
    digits,      \* of each pid
    client, run, \* what the client with a pid does next, and how many there were
    own,         \* pids whose socket file exists: "none", "bound" or "stale"
    inbox,       \* answers that wait in the socket of a client
    answer,      \* history: the request whose answer the client has read
    killed,      \* history: a server was ended after bind, by no handler of its own
    errors,      \* history: a recvfrom has failed
    cut          \* history: requests from a longer name than addrlen said

addrVars == <<addr, addrlen, bytes, digits, cut>>
sVars == <<srv, buf, addrVars, file, queue, killed, errors>>
cVars == <<client, run, own, inbox, answer>>
vars == <<sVars, cVars>>

(* "undefined": after a write outside its variables nothing is known of the *)
(* server but that its process still has the socket                         *)
Serving == {"signal", "recvfrom", "sendto", "unlink", "undefined"}

TypeOK ==
    /\ FileTypeOK
    /\ srv \in [Servers -> {"new", "bind", "failed", "ended"} \cup Serving]
    /\ client \in [Pids -> {"bind", "sendto", "read", "ended"}]
    /\ run \in [Pids -> 1..MaxRuns]
    /\ own \in [Pids -> {"none", "bound", "stale"}]
    /\ addrlen \in [Servers -> 1..Longest]
    /\ bytes \in [Servers -> [1..Fit -> 0..Longest]]

Init ==
    /\ FileInit
    /\ srv = [s \in Servers |-> "new"]
    /\ buf = [s \in Servers |-> None] /\ addr = [s \in Servers |-> None]
    /\ addrlen = [s \in Servers |-> Fit]              \* sizeof(client_addr)
    /\ bytes = [s \in Servers |-> [i \in 1..Fit |-> 0]]
    /\ digits \in [Pids -> 1..Longest] /\ cut = {}
    /\ client = [p \in Pids |-> "bind"] /\ run = [p \in Pids |-> 1]
    /\ own = [p \in Pids |-> "none"] /\ inbox = [p \in Pids |-> <<>>]
    /\ answer = [p \in Pids |-> None] /\ killed = FALSE /\ errors = FALSE

Step(s, next) == srv' = [srv EXCEPT ![s] = next]

(* the end of a process and its memory *)
Exits(s) ==
    /\ Step(s, "ended")
    /\ buf' = [buf EXCEPT ![s] = None] /\ addr' = [addr EXCEPT ![s] = None]
    /\ addrlen' = [addrlen EXCEPT ![s] = Fit]
    /\ bytes' = [bytes EXCEPT ![s] = [i \in 1..Fit |-> 0]]
    /\ UNCHANGED <<digits, cut>>

-----------------------------------------------------------------------------
(* the server *)

Socket(s) ==
    /\ srv[s] = "new" /\ (Step(s, "bind") \/ Step(s, "failed"))
    /\ UNCHANGED <<buf, addrVars, file, queue, killed, errors, cVars>>

(* bind fails if the file exists, and the server exits                      *)
Bind(s) ==
    /\ srv[s] = "bind"
    /\ \/ BindFile /\ Step(s, "signal")
       \/ ~CanBind /\ Step(s, "failed") /\ UNCHANGED <<file, queue>>
    /\ UNCHANGED <<buf, addrVars, killed, errors, cVars>>

Signal(s) ==
    /\ srv[s] = "signal" /\ Step(s, "recvfrom")
    /\ UNCHANGED <<buf, addrVars, file, queue, killed, errors, cVars>>

(* Mutant: the byte that ends the name is not counted.                      *)
StoreNameForgetsNul(s, p) ==
    /\ bytes' = [bytes EXCEPT ![s] = [i \in 1..Fit |->
            IF i <= addrlen[s] /\ i < digits[p] THEN digits[p] ELSE bytes[s][i]]]
    /\ addrlen' = [addrlen EXCEPT ![s] = digits[p]]
    /\ UNCHANGED digits

(* recvfrom copies no more of the sender's name than addrlen says, and sets *)
(* addrlen to the length of the whole name; bytes behind it stay            *)
StoreName(s, p) ==
    /\ bytes' = [bytes EXCEPT ![s] = [i \in 1..Fit |->
            IF i <= addrlen[s] /\ i <= digits[p] THEN digits[p] ELSE bytes[s][i]]]
    /\ addrlen' = [addrlen EXCEPT ![s] = digits[p]]
    /\ UNCHANGED digits

(* Mutant: the address of the first client is kept.                         *)
RecvfromKeepsAddr(s) ==
    /\ srv[s] = "recvfrom"
    /\ Dequeue
    /\ buf' = [buf EXCEPT ![s] = Head(queue)]
    /\ \E p \in {IF addr[s] = None THEN Head(queue).pid ELSE addr[s]} :
        /\ addr' = [addr EXCEPT ![s] = p] /\ StoreName(s, p)
        /\ Step(s, IF digits[p] > Fit /\ addrlen[s] > Fit THEN "undefined" ELSE "sendto")
    /\ UNCHANGED <<cut, killed, errors, cVars>>

(* recvfrom; a name that does not fit, behind another, is written past      *)
(* client_addr                                                              *)
Recvfrom(s) ==
    /\ srv[s] = "recvfrom"
    /\ Dequeue
    /\ buf' = [buf EXCEPT ![s] = Head(queue)]
    /\ \E p \in {Head(queue).pid} :
        /\ addr' = [addr EXCEPT ![s] = p] /\ StoreName(s, p)
        /\ cut' = IF digits[p] > addrlen[s] THEN cut \cup {Head(queue)} ELSE cut
        /\ Step(s, IF digits[p] > Fit /\ addrlen[s] > Fit THEN "undefined" ELSE "sendto")
    /\ UNCHANGED <<killed, errors, cVars>>

(* recvfrom fails: that is printed, and the server goes on with what buffer *)
(* and address held before; buf[bytes_read] is then buf[-1], which in the   *)
(* build of the repository is the last byte of client_addr                  *)
RecvfromFails(s) ==
    /\ srv[s] = "recvfrom" /\ ~errors
    /\ errors' = TRUE
    /\ \/ Step(s, "sendto") /\ bytes' = [bytes EXCEPT ![s][Fit] = Fit]
       \/ Step(s, "undefined") /\ UNCHANGED bytes
    /\ UNCHANGED <<buf, addr, addrlen, digits, cut, file, queue, killed, cVars>>

(* the name in client_addr has no byte of a name of another length; bytes   *)
(* that no name has written, or behind client_addr, are arbitrary           *)
Whole(s, p) == \A i \in 1..digits[p] : i <= Fit /\ bytes[s][i] = digits[p]
MayBeWhole(s, p) == \A i \in 1..digits[p] : i <= Fit => bytes[s][i] \in {0, digits[p]}

(* after sleep(2), sendto: the answer reaches whoever has that name now;    *)
(* an error is only printed                                                 *)
Sendto(s) ==
    /\ srv[s] = "sendto"
    /\ \/ \E p \in Pids :
            /\ addr[s] = p /\ own[p] = "bound" /\ MayBeWhole(s, p)
            /\ inbox' = [inbox EXCEPT ![p] = Append(@, buf[s])]
       \/ /\ \A p \in Pids : ~(addr[s] = p /\ own[p] = "bound" /\ Whole(s, p))
          /\ UNCHANGED inbox
    /\ Step(s, "recvfrom")
    /\ UNCHANGED <<buf, addrVars, file, queue, killed, errors, client, run, own, answer>>

(* SIGINT: sigint_handler closes the socket ...                             *)
SigintClose(s) ==
    /\ srv[s] \in {"recvfrom", "sendto"}
    /\ CloseSocket
    /\ Step(s, "unlink")
    /\ UNCHANGED <<buf, addrVars, killed, errors, cVars>>

(* Mutant: the handler forgets the file.                                    *)
SigintKeepsFile(s) ==
    /\ srv[s] = "unlink" /\ Exits(s)
    /\ UNCHANGED <<file, queue, killed, errors, cVars>>

(* ... and removes the file *)
SigintUnlink(s) ==
    /\ srv[s] = "unlink"
    /\ Unlink
    /\ Exits(s)
    /\ UNCHANGED <<killed, errors, cVars>>

(* SIGINT before the handler is installed, another signal, a failed signal(): *)
(* the server ends and the file stays                                       *)
KillServer(s) ==
    /\ srv[s] \in Serving
    /\ Exits(s)
    /\ CloseSocket /\ killed' = TRUE
    /\ UNCHANGED <<errors, cVars>>

-----------------------------------------------------------------------------
(* a client *)

To(p, next) == client' = [client EXCEPT ![p] = next]

Fits(p) == digits[p] <= Fit

(* bind to the name made of the pid; exit if an earlier client left it;     *)
(* sprintf writes a name that does not fit past the sockaddr                *)
ClientBind(p) ==
    /\ client[p] = "bind"
    /\ \/ /\ own[p] = "none" /\ To(p, "sendto")
          /\ own' = [own EXCEPT ![p] = "bound"]
       \/ (own[p] = "stale" \/ ~Fits(p)) /\ To(p, "ended") /\ UNCHANGED own
    /\ UNCHANGED <<sVars, run, inbox, answer>>

(* sendto; if there is no server the client exits and leaves its file       *)
ClientSendto(p) ==
    /\ client[p] = "sendto"
    /\ \/ /\ Enqueue([pid |-> p, run |-> run[p]]) /\ To(p, "read")
          /\ UNCHANGED own
       \/ /\ Refused /\ To(p, "ended")
          /\ own' = [own EXCEPT ![p] = "stale"]
          /\ UNCHANGED <<file, queue>>
    /\ UNCHANGED <<srv, buf, addrVars, killed, errors, run, inbox, answer>>

(* read, close, unlink, of another name if its own does not fit             *)
ClientRead(p) ==
    /\ client[p] = "read" /\ inbox[p] # <<>>
    /\ answer' = [answer EXCEPT ![p] = Head(inbox[p])]
    /\ To(p, "ended")
    /\ \E after \in {"none"} \cup (IF Fits(p) THEN {} ELSE {"stale"}) :
        own' = [own EXCEPT ![p] = after]
    /\ inbox' = [inbox EXCEPT ![p] = <<>>]
    /\ UNCHANGED <<sVars, run>>

KillClient(p) ==
    /\ client[p] \in {"sendto", "read"}
    /\ To(p, "ended")
    /\ own' = [own EXCEPT ![p] = "stale"] /\ inbox' = [inbox EXCEPT ![p] = <<>>]
    /\ UNCHANGED <<sVars, run, answer>>

(* a new client gets the pid *)
NewClient(p) ==
    /\ client[p] = "ended" /\ run[p] < MaxRuns
    /\ To(p, "bind")
    /\ run' = [run EXCEPT ![p] = @ + 1] /\ answer' = [answer EXCEPT ![p] = None]
    /\ UNCHANGED <<sVars, own, inbox>>

ServerStep(s) == Socket(s) \/ Bind(s) \/ Signal(s) \/ Recvfrom(s) \/ Sendto(s) \/ SigintUnlink(s)
ClientStep(p) == ClientBind(p) \/ ClientSendto(p) \/ ClientRead(p)

Next ==
    \/ \E s \in Servers : ServerStep(s) \/ RecvfromFails(s) \/ SigintClose(s) \/ KillServer(s)
    \/ \E p \in Pids : ClientStep(p) \/ KillClient(p) \/ NewClient(p)

Spec == Init /\ [][Next]_vars

(* a server or client that can go on does                                   *)
Fairness ==
    /\ \A s \in Servers : WF_vars(ServerStep(s))
    /\ \A p \in Pids : WF_vars(ClientStep(p))

FairSpec == Spec /\ Fairness

-----------------------------------------------------------------------------
(* A client reads the answer to its own request, although the server sleeps *)
(* between receiving and answering and answers to a name, some bytes of     *)
(* which may be an earlier client's: a later client with the pid of one     *)
(* that was killed finds that one's file and gives up.  After a failed      *)
(* recvfrom it may be the answer to an earlier client with its pid, but     *)
(* never that of another pid.                                               *)
OwnAnswer ==
    \A p \in Pids : answer[p] # None =>
        answer[p].pid = p /\ (answer[p].run = run[p] \/ errors)

(* One process at most has the name, and the file is left behind exactly if *)
(* a server was ended by something else than its handler; then no server    *)
(* ever binds again, while after an orderly end the next one can.           *)
StaleMeansKilled ==
    /\ TypeOK
    /\ Cardinality({s \in Servers : srv[s] \in Serving}) <= 1
    /\ file = "bound" <=> \E s \in Servers : srv[s] \in Serving \ {"unlink"}
    /\ file = "stale" /\ (\A s \in Servers : srv[s] # "unlink") <=> killed

(* The server received the request of the client with that pid when addrlen *)
(* was less than the length of its name.                                    *)
WasCut(p) == [pid |-> p, run |-> run[p]] \in cut

(* A client, which has no timeout, waits for its answer for ever only if a  *)
(* server has ended after it had bound the name, be it in an orderly way,   *)
(* or if the answer may go to a wrong name: its own does not fit a sockaddr, *)
(* or is longer than that of the client received just before.               *)
AnsweredIfServed ==
    [](\A p \in Pids : client[p] = "read" =>
        <>(\/ client[p] # "read"
           \/ \E s \in Servers : srv[s] \in {"unlink", "ended", "undefined"}
           \/ ~Fits(p) \/ WasCut(p)))
=============================================================================
