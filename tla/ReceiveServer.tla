--------------------------- MODULE ReceiveServer ---------------------------
(***************************************************************************)
(* The server that only receives, 2/client-sever/socket(send-receive), its *)
(* clients, and servers started one after the other or side by side.       *)
(***************************************************************************)
EXTENDS Naturals, Sequences, SocketFile

CONSTANTS
    Servers,     \* processes that run the server
    Clients      \* processes that run the client

QueueAssumption == MaxQueue \in Nat \ {0}

VARIABLES
    srv,         \* what each server does next
    client,      \* what each client does next
    sent,        \* history: messages sent since the name was bound
    printed,     \* history: messages printed since then
    killed       \* history: a server was ended after bind, by no handler of its own

history == <<sent, printed, killed>>
vars == <<srv, client, file, queue, history>>

Serving == {"signal", "read", "unlink"}

Init ==
    /\ FileInit
    /\ srv = [s \in Servers |-> "socket"] /\ client = [c \in Clients |-> "sendto"]
    /\ sent = <<>> /\ printed = <<>> /\ killed = FALSE

Step(s, next) == srv' = [srv EXCEPT ![s] = next]

-----------------------------------------------------------------------------
Socket(s) ==
    /\ srv[s] = "socket" /\ (Step(s, "bind") \/ Step(s, "failed"))
    /\ UNCHANGED <<client, file, queue, history>>

(* Mutant: the server removes the name first, whoever has it.               *)
BindOver(s) ==
    /\ srv[s] = "bind"
    /\ file' = "bound" /\ queue' = <<>> /\ Step(s, "signal")
    /\ sent' = <<>> /\ printed' = <<>>
    /\ UNCHANGED <<client, killed>>

(* exit(1) if the name is taken *)
Bind(s) ==
    /\ srv[s] = "bind"
    /\ \/ BindFile /\ Step(s, "signal") /\ sent' = <<>> /\ printed' = <<>>
       \/ ~CanBind /\ Step(s, "failed") /\ UNCHANGED <<file, queue, sent, printed>>
    /\ UNCHANGED <<client, killed>>

Signal(s) == srv[s] = "signal" /\ Step(s, "read") /\ UNCHANGED <<client, file, queue, history>>

(* one round of the loop *)
Read(s) ==
    /\ srv[s] = "read"
    /\ Dequeue
    /\ printed' = Append(printed, Head(queue))
    /\ UNCHANGED <<srv, client, sent, killed>>

(* sigint_handler: close ... *)
SigintClose(s) ==
    /\ srv[s] = "read"
    /\ CloseSocket /\ Step(s, "unlink") /\ UNCHANGED <<client, history>>

(* ... and unlink *)
SigintUnlink(s) ==
    /\ srv[s] = "unlink"
    /\ Unlink /\ Step(s, "ended") /\ UNCHANGED <<client, history>>

(* exit(1) after a failed read or signal(), or a signal without a handler   *)
Dies(s) ==
    /\ srv[s] \in Serving
    /\ CloseSocket /\ Step(s, "ended")
    /\ killed' = TRUE
    /\ UNCHANGED <<client, sent, printed>>

(* the client: sendto, or exit if nobody has the name                       *)
Sendto(c) ==
    /\ client[c] = "sendto"
    /\ \/ Enqueue(c) /\ sent' = Append(sent, c)
       \/ Refused /\ UNCHANGED <<file, queue, sent>>
    /\ client' = [client EXCEPT ![c] = "done"]
    /\ UNCHANGED <<srv, printed, killed>>

Next ==
    \/ \E s \in Servers : \/ Socket(s) \/ Bind(s) \/ Signal(s) \/ Read(s)
                          \/ SigintClose(s) \/ SigintUnlink(s) \/ Dies(s)
    \/ \E c \in Clients : Sendto(c)

Spec == Init /\ [][Next]_vars

-----------------------------------------------------------------------------
(* There is one server at a time, and while it runs it has printed, in the  *)
(* order in which they were sent, all messages but those that still wait.   *)
(* It leaves the name behind exactly if it did not end by its handler.      *)
PrintsAllInOrder ==
    /\ FileTypeOK
    /\ \A s, t \in Servers : srv[s] \in Serving /\ srv[t] \in Serving => s = t
    /\ file = "bound" => sent = printed \o queue
    /\ file = "stale" /\ (\A s \in Servers : srv[s] # "unlink") <=> killed
=============================================================================
