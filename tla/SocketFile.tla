----------------------------- MODULE SocketFile -----------------------------
(***************************************************************************)
(* A datagram socket of the Unix domain bound to a name: the file, which   *)
(* stays when the process that made it ends, and the datagrams that wait   *)
(* in the socket, which do not.                                            *)
(***************************************************************************)
LOCAL INSTANCE Naturals
LOCAL INSTANCE Sequences

CONSTANT MaxQueue            \* datagrams a socket holds

VARIABLES
    file,        \* "none", "bound" to a process, or "stale"
    queue        \* what has been sent and not received

FileTypeOK == file \in {"none", "bound", "stale"} /\ Len(queue) <= MaxQueue

FileInit == file = "none" /\ queue = <<>>

CanBind == file = "none"

BindFile == CanBind /\ file' = "bound" /\ UNCHANGED queue

(* sendto waits while the socket is full; without a process it fails        *)
CanSend == file = "bound" /\ Len(queue) < MaxQueue

Refused == file # "bound"

Enqueue(m) == CanSend /\ queue' = Append(queue, m) /\ UNCHANGED file

Dequeue == queue # <<>> /\ queue' = Tail(queue) /\ UNCHANGED file

(* the process closes the socket, or ends *)
CloseSocket == file' = "stale" /\ queue' = <<>>

Unlink == file' = "none" /\ UNCHANGED queue
=============================================================================
