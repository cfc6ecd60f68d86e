------------------------------ MODULE BakeryRpc ------------------------------
(***************************************************************************)
(* The Sun RPC transport under the two bakery programs of src/3/proc: the  *)
(* client stubs of bakery_clnt.c (clnt_call over "udp", TIMEOUT 25 s) and  *)
(* the reply path of bakery_svc.c.                                         *)
(*                                                                         *)
(* clnt_call sends one datagram, sends it again every few seconds while no *)
(* answer has come, and gives up after TIMEOUT.  The server keeps no cache *)
(* of transactions, so a request that was sent twice is executed twice.  A *)
(* late answer to an earlier call has another xid and is thrown away; each *)
(* client makes each call once, so the request itself stands for the xid.  *)
(***************************************************************************)
EXTENDS Naturals, Sequences

CONSTANTS Clients,    \* the client processes started by run_multi.sh / run_mono.sh
          Slots,      \* length of choosing[] and number[] (32 in the code)
          MaxResend,  \* bound: retransmissions one client makes in its life
          Lossy,      \* may datagrams be lost?
          None        \* no request, no answer

Slot == 0..(Slots - 1)

VARIABLES inq,     \* the server's UDP socket: requests in order of arrival
          call,    \* call[cl]: the request cl waits on, or None
          reply,   \* reply[cl]: the answer in cl's socket, or None
          resends  \* resends[cl]: retransmissions so far

rpcVars == <<inq, call, reply, resends>>

Procs == {"GET_NUMBER", "BAKERY_WAIT", "BAKERY_SERVICE"}

\* struct BAKERY, as an argument (with its sender and procedure) ...
Request == [cl : Clients, proc : Procs, pid : Slot, num : Nat]

\* ... and as a result.  res = 0 is the character '\0'.
Result == [pid : Slot, num : Nat, res : Nat]

ASSUME RpcAssumption ==
  /\ Slots \in Nat \ {0}
  /\ MaxResend \in Nat
  /\ Lossy \in BOOLEAN
  /\ None \notin Request /\ None \notin Result

RpcTypeOK ==
  /\ inq \in Seq(Request)
  /\ call \in [Clients -> Request \cup {None}]
  /\ reply \in [Clients -> Result \cup {None}]
  /\ resends \in [Clients -> 0..MaxResend]

RpcInit ==
  /\ inq = <<>>
  /\ call = [cl \in Clients |-> None]
  /\ reply = [cl \in Clients |-> None]
  /\ resends = [cl \in Clients |-> 0]

Deliver(m) ==
  \/ inq' = Append(inq, m)
  \/ Lossy /\ UNCHANGED inq

\* clnt_call: the request leaves, the stub waits for its answer.
ClntCall(m) ==
  /\ call[m.cl] = None
  /\ call' = [call EXCEPT ![m.cl] = m]
  /\ Deliver(m)
  /\ UNCHANGED <<reply, resends>>

\* The retry timer of clnt_call fires before the answer came.
Resend(cl) ==
  /\ call[cl] # None
  /\ reply[cl] = None
  /\ resends[cl] < MaxResend
  /\ resends' = [resends EXCEPT ![cl] = @ + 1]
  /\ Deliver(call[cl])
  /\ UNCHANGED <<call, reply>>

\* clnt_call returns RPC_SUCCESS.
ClntReturn(cl) ==
  /\ reply[cl] # None
  /\ call' = [call EXCEPT ![cl] = None]
  /\ reply' = [reply EXCEPT ![cl] = None]
  /\ UNCHANGED <<inq, resends>>

\* Mutant: only the first call is given up.
ClntTimeoutFirstCall(cl) ==
  /\ call[cl] # None /\ reply[cl] = None
  /\ call[cl].proc = "GET_NUMBER"
  /\ call' = [call EXCEPT ![cl] = None]
  /\ UNCHANGED <<inq, reply, resends>>

\* TIMEOUT passes without an answer: the stub returns NULL.
ClntTimeout(cl) ==
  /\ call[cl] # None
  /\ reply[cl] = None
  /\ call' = [call EXCEPT ![cl] = None]
  /\ UNCHANGED <<inq, reply, resends>>

\* svc_sendreply: an answer nobody waits for any more is dropped, as is the
\* second answer to a request that was executed twice.
SvcSendreply(m, r) ==
  /\ \/ /\ call[m.cl] = m /\ reply[m.cl] = None
        /\ reply' = [reply EXCEPT ![m.cl] = r]
     \/ /\ \/ ~(call[m.cl] = m /\ reply[m.cl] = None)
           \/ Lossy
        /\ UNCHANGED reply
  /\ UNCHANGED <<call, resends>>
=============================================================================
