--------------------------- MODULE PairedSockets ---------------------------
(***************************************************************************)
(* 2/paired-sockets/main.c: a parent and a child over one socket pair.     *)
(* The child writes to sockets[0] and the parent to sockets[1]; a read     *)
(* returns 0 if no process holds the other end any more.  No result of     *)
(* read or write is tested.                                                *)
(***************************************************************************)
EXTENDS Naturals, Sequences

VARIABLES
    parent, child,   \* what each of them does next
    ends,            \* the ends each process has open
    toParent,        \* the child's message waits at sockets[1]
    toChild,         \* the parent's message waits at sockets[0]
    buf,             \* does its buffer hold the other's message
    out              \* the lines printed

vars == <<parent, child, ends, toParent, toChild, buf, out>>

Procs == {"parent", "child"}

Init ==
    /\ parent = "socketpair" /\ child = "none"
    /\ ends = [p \in Procs |-> {}]
    /\ toParent = FALSE /\ toChild = FALSE
    /\ buf = [p \in Procs |-> FALSE] /\ out = <<>>

Held(e) == \E p \in Procs : e \in ends[p]
Closes(p, es) == ends' = [ends EXCEPT ![p] = @ \ es]
Prints(who, what) == out' = Append(out, <<who, what>>)

(* socketpair, or exit(1) *)
Socketpair ==
    /\ parent = "socketpair"
    /\ \/ parent' = "fork" /\ ends' = [ends EXCEPT !["parent"] = {0, 1}]
       \/ parent' = "exit" /\ UNCHANGED ends
    /\ UNCHANGED <<child, toParent, toChild, buf, out>>

(* fork, or exit(1): the child has both ends, too *)
Fork ==
    /\ parent = "fork"
    /\ \/ /\ parent' = "read" /\ child' = "close"
          /\ ends' = [ends EXCEPT !["child"] = ends["parent"]]
       \/ parent' = "exit" /\ Closes("parent", {0, 1}) /\ UNCHANGED child
    /\ UNCHANGED <<toParent, toChild, buf, out>>

-----------------------------------------------------------------------------
(* the child *)

ChildClose ==
    /\ child = "close" /\ child' = "write" /\ Closes("child", {1})
    /\ UNCHANGED <<parent, toParent, toChild, buf, out>>

(* Mutant: the child waits for the parent's message before it writes.       *)
ChildWriteLast ==
    /\ child = "write" /\ toChild
    /\ toParent' = TRUE /\ child' = "print sent"
    /\ UNCHANGED <<parent, ends, toChild, buf, out>>

(* without a parent the write ends it: SIGPIPE *)
ChildWrite ==
    /\ child = "write"
    /\ \/ Held(1) /\ toParent' = TRUE /\ child' = "print sent" /\ UNCHANGED ends
       \/ ~Held(1) /\ child' = "killed" /\ Closes("child", {0}) /\ UNCHANGED toParent
    /\ UNCHANGED <<parent, toChild, buf, out>>

ChildPrintsSent ==
    /\ child = "print sent" /\ child' = "read" /\ Prints("child", "sent")
    /\ UNCHANGED <<parent, ends, toParent, toChild, buf>>

(* after sleep(1) *)
ChildRead ==
    /\ child = "read" /\ (toChild \/ ~Held(1))
    /\ toChild' = FALSE /\ buf' = [buf EXCEPT !["child"] = toChild]
    /\ child' = "print received"
    /\ UNCHANGED <<parent, ends, toParent, out>>

(* and exit(0) *)
ChildPrintsReceived ==
    /\ child = "print received" /\ child' = "exit"
    /\ Prints("child", IF buf["child"] THEN "received" ELSE "garbage")
    /\ Closes("child", {0})
    /\ UNCHANGED <<parent, toParent, toChild, buf>>

-----------------------------------------------------------------------------
(* the parent, which keeps both ends: its read never meets the end of file  *)

ParentRead ==
    /\ parent = "read" /\ (toParent \/ ~Held(0))
    /\ toParent' = FALSE /\ buf' = [buf EXCEPT !["parent"] = toParent]
    /\ parent' = "print received"
    /\ UNCHANGED <<child, ends, toChild, out>>

ParentPrintsReceived ==
    /\ parent = "print received" /\ parent' = "write"
    /\ Prints("parent", IF buf["parent"] THEN "received" ELSE "garbage")
    /\ UNCHANGED <<child, ends, toParent, toChild, buf>>

ParentWrite ==
    /\ parent = "write"
    /\ toChild' = TRUE /\ parent' = "print sent"
    /\ UNCHANGED <<child, ends, toParent, buf, out>>

ParentPrintsSent ==
    /\ parent = "print sent" /\ parent' = "close" /\ Prints("parent", "sent")
    /\ UNCHANGED <<child, ends, toParent, toChild, buf>>

(* close of one end after the other *)
ParentClose ==
    /\ parent = "close"
    /\ \/ 0 \in ends["parent"] /\ Closes("parent", {0}) /\ UNCHANGED parent
       \/ 0 \notin ends["parent"] /\ Closes("parent", {1}) /\ parent' = "waitpid"
    /\ UNCHANGED <<child, toParent, toChild, buf, out>>

(* waitpid, and how the child ended *)
Waitpid ==
    /\ parent = "waitpid" /\ child \in {"exit", "killed"}
    /\ parent' = "exit" /\ Prints("parent", child)
    /\ UNCHANGED <<child, ends, toParent, toChild, buf>>

(* one of them is killed *)
KillChild ==
    /\ child \notin {"none", "exit", "killed"}
    /\ child' = "killed" /\ Closes("child", {0, 1})
    /\ UNCHANGED <<parent, toParent, toChild, buf, out>>

KillParent ==
    /\ parent \notin {"socketpair", "exit", "killed"}
    /\ parent' = "killed" /\ Closes("parent", {0, 1})
    /\ UNCHANGED <<child, toParent, toChild, buf, out>>

Parent == \/ Socketpair \/ Fork \/ ParentRead \/ ParentPrintsReceived
          \/ ParentWrite \/ ParentPrintsSent \/ ParentClose \/ Waitpid
Child == ChildClose \/ ChildWrite \/ ChildPrintsSent \/ ChildRead \/ ChildPrintsReceived

Next == Parent \/ Child \/ KillChild \/ KillParent

(* both processes go on when they can; nobody has to be killed              *)
FairSpec == Init /\ [][Next]_vars /\ WF_vars(Parent) /\ WF_vars(Child)

-----------------------------------------------------------------------------
Ended == parent \in {"exit", "killed"} /\ child \in {"none", "exit", "killed"}

Printed == {out[i] : i \in DOMAIN out}

(* Nobody prints a message it has not received unless the other was killed, *)
(* and both messages have been received when the parent reports that the    *)
(* child has exited.                                                        *)
Exchanged ==
    /\ \A line \in Printed : line[2] = "garbage" => "killed" \in {parent, child}
    /\ <<"parent", "exit">> \in Printed
         => {<<"parent", "received">>, <<"child", "received">>} \subseteq Printed

(* So it is, and both processes end, whoever of them is killed and          *)
(* whenever, but for one case: the child is killed before it has written,   *)
(* and the parent, which holds the other end itself, waits for ever.        *)
ExchangeAndEnd ==
    /\ []Exchanged
    /\ <>(Ended \/ (child = "killed" /\ ~toParent /\ parent = "read"))
=============================================================================
