---------------------------- MODULE EpollServer ----------------------------
(***************************************************************************)
(* The epoll server and its clients, 2/client-sever/epoll.  A request is   *)
(* one segment of the loopback device, so it is read whole.  Of the kernel *)
(* the model keeps the queue of connections that wait for accept, the list *)
(* of ready descriptors of the epoll instance, in its order, and what has  *)
(* arrived on a connection.                                                *)
(***************************************************************************)
EXTENDS Naturals, Sequences, FiniteSets

CONSTANTS
    Clients,
    Listen,      \* listen_sock
    Free,        \* no connection
    None,        \* no answer
    MaxEvents,   \* MAX_EVENTS; the backlog is as large, and one more
    MaxFd,       \* descriptors left to the server for connections
    Resets       \* may a peer reset its connection

ASSUME EpollAssumption ==
    /\ {MaxEvents, MaxFd} \subseteq Nat \ {0} /\ Resets \in BOOLEAN
    /\ Free \notin Clients /\ None \notin Clients /\ Listen \notin 1..MaxFd

Fds == 1..MaxFd
Items == Fds \cup {Listen}   \* what may be registered with the epoll instance

VARIABLES
    pc,          \* what the server does next
    why,         \* why it has exited
    fds,         \* its descriptors
    backlog,     \* connections that wait for accept
    rdlist,      \* ready list of the epoll instance
    events,      \* events of the last epoll_wait that are not yet handled
    from,        \* the client whose message is in msg_from
    nonblock,    \* is O_NONBLOCK set on listen_sock
    client,      \* what each client does next
    data,        \* connections with an unread message
    fin, rst,    \* connections the client has closed or reset
    ans          \* whose message the answer of each client repeats

sVars == <<pc, why, fds, events, from, nonblock>>
kVars == <<backlog, rdlist, data, fin, rst>>
vars == <<sVars, kVars, client, ans>>

TypeOK ==
    /\ pc \in {"socket", "bind", "listen", "epoll_create1", "epoll_ctl", "epoll_wait", "handle", "send", "exit"}
    /\ fds \in [Fds -> Clients \cup {Free}]
    /\ client \in [Clients -> {"connect", "send", "read", "answered", "failed", "killed"}]
    /\ {data, fin, rst} \subseteq SUBSET Clients
    /\ ans \in [Clients -> Clients \cup {None}]

Init ==
    /\ pc = "socket" /\ why = "" /\ nonblock = FALSE
    /\ fds = [f \in Fds |-> Free] /\ events = <<>> /\ from = None
    /\ backlog = <<>> /\ rdlist = <<>>
    /\ client = [c \in Clients |-> "connect"]
    /\ data = {} /\ fin = {} /\ rst = {} /\ ans = [c \in Clients |-> None]

InList(x, list) == \E i \in DOMAIN list : list[i] = x

(* the items of a list that are in S, in their order                        *)
Keep(list, S) ==
    LET kept[i \in 0..Len(list)] ==
            IF i = 0 THEN <<>>
            ELSE IF list[i] \in S THEN Append(kept[i - 1], list[i]) ELSE kept[i - 1]
    IN  kept[Len(list)]

(* wakes up the epoll instance, if the item is registered and not yet on    *)
(* the ready list                                                           *)
Wake(list, x) == IF InList(x, list) THEN list ELSE Append(list, x)

Arrives(c) == c \in data \cup fin \cup rst

(* the ready list after something has arrived on the connection of c        *)
WakeConn(c) ==
    IF \E f \in Fds : fds[f] = c
    THEN Wake(rdlist, CHOOSE f \in Fds : fds[f] = c) ELSE rdlist

-----------------------------------------------------------------------------
(* the server: socket, bind, listen, epoll_create1, epoll_ctl               *)

Exit(reason) ==
    /\ pc' = "exit" /\ why' = reason
    /\ UNCHANGED <<fds, events, from, nonblock, kVars, client, ans>>

Setup(here, next) ==
    /\ pc = here
    /\ \/ pc' = next /\ UNCHANGED <<why, fds, events, from, nonblock, kVars, client, ans>>
       \/ Exit(here)

(* listen_sock is level-triggered and may be ready at once                  *)
Register ==
    /\ pc = "epoll_ctl"
    /\ \/ /\ pc' = "epoll_wait"
          /\ rdlist' = IF backlog = <<>> THEN <<>> ELSE <<Listen>>
          /\ UNCHANGED <<why, fds, events, from, nonblock, backlog, data, fin, rst, client, ans>>
       \/ Exit("epoll_ctl")

Main ==
    \/ Setup("socket", "bind") \/ Setup("bind", "listen")
    \/ Setup("listen", "epoll_create1") \/ Setup("epoll_create1", "epoll_ctl")
    \/ Register

Ready(x) == IF x = Listen THEN backlog # <<>> ELSE Arrives(fds[x])

(* Mutant: listen_sock is edge-triggered.                                   *)
EpollWaitEdge ==
    LET ready == Keep(rdlist, {x \in Items : Ready(x)})
        n == IF Len(ready) < MaxEvents THEN Len(ready) ELSE MaxEvents
    IN  /\ pc = "epoll_wait" /\ n > 0
        /\ events' = SubSeq(ready, 1, n)
        /\ rdlist' = SubSeq(ready, n + 1, Len(ready))
        /\ pc' = "handle"
        /\ UNCHANGED <<why, fds, from, nonblock, backlog, data, fin, rst, client, ans>>

(* epoll_wait: the first ready ones; listen_sock, level-triggered, goes to  *)
(* the end of the list, the connections leave it                            *)
EpollWait ==
    LET ready == Keep(rdlist, {x \in Items : Ready(x)})
        n == IF Len(ready) < MaxEvents THEN Len(ready) ELSE MaxEvents
    IN  /\ pc = "epoll_wait" /\ n > 0
        /\ events' = SubSeq(ready, 1, n)
        /\ rdlist' = SubSeq(ready, n + 1, Len(ready))
                     \o IF InList(Listen, events') THEN <<Listen>> ELSE <<>>
        /\ pc' = "handle"
        /\ UNCHANGED <<why, fds, from, nonblock, backlog, data, fin, rst, client, ans>>

(* epoll_wait is interrupted: the server was stopped and goes on            *)
Interrupted == pc = "epoll_wait" /\ Exit("EINTR")

(* the end of one round of the for loop *)
Handled ==
    /\ events' = Tail(events)
    /\ pc' = IF Tail(events) = <<>> THEN "epoll_wait" ELSE "handle"

(* Mutant: accepts until there is nothing left to accept.                   *)
AcceptAll ==
    LET free == {f \in Fds : fds[f] = Free}
        f == CHOOSE f \in free : \A g \in free : f <= g
    IN  /\ pc = "handle" /\ Head(events) = Listen
        /\ \/ /\ backlog # <<>> /\ free # {}
              /\ fds' = [fds EXCEPT ![f] = Head(backlog)]
              /\ backlog' = Tail(backlog)
              /\ rdlist' = IF Arrives(Head(backlog)) THEN Wake(rdlist, f) ELSE rdlist
              /\ nonblock' = TRUE
              /\ UNCHANGED <<pc, events, why, from, data, fin, rst, client, ans>>
           \/ backlog = <<>> /\ nonblock /\ Exit("EAGAIN")
           \/ backlog # <<>> /\ free = {} /\ Exit("EMFILE")
           \/ backlog # <<>> /\ Exit("EINVAL")
           \/ backlog # <<>> /\ free # {} /\ Exit("fcntl")

(* accept, fcntl, epoll_ctl.  The length handed to accept is uninitialised, *)
(* and a negative one is EINVAL; fcntl or epoll_ctl may fail after it.      *)
(* Without a connection accept would wait the first time and fail later.    *)
Accept ==
    LET free == {f \in Fds : fds[f] = Free}
        f == CHOOSE f \in free : \A g \in free : f <= g
    IN  /\ pc = "handle" /\ Head(events) = Listen
        /\ \/ /\ backlog # <<>> /\ free # {}
              /\ fds' = [fds EXCEPT ![f] = Head(backlog)]
              /\ backlog' = Tail(backlog)
              /\ rdlist' = IF Arrives(Head(backlog)) THEN Wake(rdlist, f) ELSE rdlist
              /\ nonblock' = TRUE
              /\ Handled
              /\ UNCHANGED <<why, from, data, fin, rst, client, ans>>
           \/ backlog = <<>> /\ nonblock /\ Exit("EAGAIN")
           \/ backlog # <<>> /\ free = {} /\ Exit("EMFILE")
           \/ backlog # <<>> /\ Exit("EINVAL")
           \/ backlog # <<>> /\ free # {} /\ Exit("fcntl")

(* close(conn) takes the descriptor out of the epoll instance               *)
Close(f) ==
    /\ fds' = [fds EXCEPT ![f] = Free]
    /\ rdlist' = Keep(rdlist, Items \ {f})
    /\ Handled

(* Mutant: rc is not compared with 0, and what msg_from held is answered.   *)
ReadConnNoTest ==
    LET f == Head(events)
        c == fds[f]
    IN  /\ pc = "handle" /\ f # Listen
        /\ \/ /\ c \in data \cup fin
              /\ data' = data \ {c} /\ from' = IF c \in data THEN c ELSE from
              /\ pc' = "send"
              /\ UNCHANGED <<why, fds, events, nonblock, backlog, rdlist, fin, rst, client, ans>>
           \/ c \notin data /\ c \in rst /\ Exit("ECONNRESET")

(* read: a message, the end of the connection, or an error, which ends the  *)
(* server; without any of them it would wait                                *)
ReadConn ==
    LET f == Head(events)
        c == fds[f]
    IN  /\ pc = "handle" /\ f # Listen
        /\ \/ /\ c \in data
              /\ data' = data \ {c} /\ from' = c /\ pc' = "send"
              /\ UNCHANGED <<why, fds, events, nonblock, backlog, rdlist, fin, rst, client, ans>>
           \/ c \notin data /\ c \in rst /\ Exit("ECONNRESET")
           \/ /\ c \notin data \cup rst /\ c \in fin
              /\ Close(f)
              /\ UNCHANGED <<why, from, nonblock, backlog, data, fin, rst, client, ans>>

(* send, and close.  On a connection that was reset SIGPIPE ends the server *)
SendAnswer ==
    LET f == Head(events)
    IN  /\ pc = "send"
        /\ \/ /\ fds[f] \notin rst
              /\ ans' = [ans EXCEPT ![fds[f]] = from]
              /\ Close(f)
              /\ UNCHANGED <<why, from, nonblock, backlog, data, fin, rst, client>>
           \/ fds[f] \in rst /\ Exit("SIGPIPE")

-----------------------------------------------------------------------------
(* a client *)

Listening == pc \notin {"socket", "bind", "listen", "exit"}

(* connect: waits while the backlog is full, fails if nobody listens        *)
Connect(c) ==
    /\ client[c] = "connect"
    /\ \/ /\ Listening /\ Len(backlog) <= MaxEvents
          /\ client' = [client EXCEPT ![c] = "send"]
          /\ backlog' = Append(backlog, c)
          /\ rdlist' = IF pc \in {"epoll_create1", "epoll_ctl"} THEN rdlist ELSE Wake(rdlist, Listen)
       \/ /\ ~Listening
          /\ client' = [client EXCEPT ![c] = "failed"]
          /\ UNCHANGED <<backlog, rdlist>>
    /\ UNCHANGED <<sVars, data, fin, rst, ans>>

(* send fails with SIGPIPE only once the server is gone                     *)
Send(c) ==
    /\ client[c] = "send"
    /\ \/ /\ pc # "exit"
          /\ client' = [client EXCEPT ![c] = "read"]
          /\ data' = data \cup {c}
          /\ rdlist' = WakeConn(c)
       \/ /\ pc = "exit"
          /\ client' = [client EXCEPT ![c] = "failed"]
          /\ UNCHANGED <<data, rdlist>>
    /\ UNCHANGED <<sVars, backlog, fin, rst, ans>>

(* read: the answer, or nothing if the server is gone                       *)
ReadAnswer(c) ==
    /\ client[c] = "read"
    /\ \/ ans[c] # None /\ client' = [client EXCEPT ![c] = "answered"]
       \/ ans[c] = None /\ pc = "exit" /\ client' = [client EXCEPT ![c] = "failed"]
    /\ UNCHANGED <<sVars, kVars, ans>>

(* a client is killed: the kernel closes its socket; some other peer might  *)
(* reset the connection instead                                             *)
Kill(c) ==
    /\ client[c] \in {"send", "read"} /\ ans[c] = None /\ pc # "exit"
    /\ client' = [client EXCEPT ![c] = "killed"]
    /\ \/ fin' = fin \cup {c} /\ UNCHANGED rst
       \/ Resets /\ rst' = rst \cup {c} /\ UNCHANGED fin
    /\ rdlist' = WakeConn(c)
    /\ UNCHANGED <<sVars, backlog, data, ans>>

Server == Main \/ EpollWait \/ Accept \/ ReadConn \/ SendAnswer
ClientStep(c) == Connect(c) \/ Send(c) \/ ReadAnswer(c)

Next == Server \/ Interrupted \/ \E c \in Clients : ClientStep(c) \/ Kill(c)

Spec == Init /\ [][Next]_vars

(* every process that can go on does; nobody has to be killed               *)
Fairness == WF_vars(Server) /\ \A c \in Clients : WF_vars(ClientStep(c))

FairSpec == Spec /\ Fairness

-----------------------------------------------------------------------------
(* A client is answered on its own connection, with its own message, once,  *)
(* although descriptors are closed and given again within one batch of      *)
(* events.                                                                  *)
AnswersOwnRequest ==
    /\ TypeOK
    /\ \A c \in Clients : ans[c] \in {c, None}
    /\ \A f, g \in Fds : fds[f] = fds[g] /\ fds[f] # Free => f = g

(* What ends the server once it waits for events: the uninitialised length, *)
(* a failed fcntl or epoll_ctl, too many connections that send nothing, or  *)
(* a connection that was reset; never an accept without a connection,       *)
(* though one event may stand for several and listen_sock does not block.   *)
ExitExplained ==
    /\ why # "EAGAIN"
    /\ why = "EMFILE" => \A f \in Fds : fds[f] # Free
    /\ why \in {"ECONNRESET", "SIGPIPE"} => \E f \in Fds : fds[f] \in rst

Waiting == \E c \in Clients : client[c] = "read"

(* A client that has sent its message and is not killed is answered, if the *)
(* server does not exit; connections that wait for accept are not left      *)
(* behind, although every event accepts one of them.  A client sends once,  *)
(* so there comes a time when none of them waits.                           *)
EveryClientIsAnswered == Waiting ~> ~Waiting \/ pc = "exit"
=============================================================================
