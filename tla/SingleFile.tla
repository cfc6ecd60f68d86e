----------------------------- MODULE SingleFile -----------------------------
(***************************************************************************)
(* The module of 6/seq_files/single_file.c: a process writes a pid into    *)
(* cookie_buf, and a read shows the task that has it.  The buffer is kept  *)
(* byte by byte, because nothing keeps a write and a read apart; a pid is  *)
(* the sequence of its digits.  Of a task the model keeps whether it is    *)
(* alive, has exited and is reaped, or is freed as well, and its           *)
(* references.                                                             *)
(***************************************************************************)
EXTENDS Integers, Sequences

CONSTANTS
    Procs,       \* processes that use the file
    Size,        \* COOKIE_BUF_SIZE
    Texts,       \* what they write; no text contains a NUL
    Pids,        \* the tasks of the system, each named by its pid
    Parent,      \* the parent of each task; Idle is no member of Pids
    MaxCalls     \* bound on the calls of a behaviour

Idle == <<>>     \* a parent that never exits
NUL == 0
NL == -1
Cells == 0..(Size - 1)

SingleFileAssumption ==
    /\ Size \in Nat \ {0} /\ MaxCalls \in Nat
    /\ Texts \subseteq Seq((Nat \ {NUL}) \cup {NL})
    /\ Pids \subseteq Seq(Nat \ {0}) \ {Idle}
    /\ Parent \in [Pids -> Pids \cup {Idle}]

VARIABLES
    life,        \* the statement ct_init executes next
    held,        \* the entries and the memory that exist
    cookie,      \* cookie_buf
    pc,          \* where each process is
    text, k,     \* write: what it writes, and the bytes copied
    tgt, par,    \* read: task, and task->parent as loaded from it
    task, refs,  \* the tasks and the references show has taken
    parent,      \* their parent pointers
    alone,       \* history: has no other write met the one of this process
    last,        \* history: what the last write left, Mixture if it failed
                 \* or was not alone
    shown,       \* history: the text show parsed, and last at that moment
    calls,       \* calls so far
    up           \* "running", or the memory that was used wrongly

fVars == <<text, k, tgt, par>>
tVars == <<task, refs, parent>>
history == <<alone, last, shown, calls>>
vars == <<life, held, cookie, pc, fVars, tVars, history, up>>

Inside == {"write", "r_parse", "r_task", "r_parent", "r_show"}
NobodyWrites == \A p \in Procs : pc[p] # "write"
Mixture == <<NUL>>           \* no text

TypeOK ==
    /\ life \in {"vmalloc", "proc_mkdir", "proc_create", "proc_symlink", "loaded", "rejected", "gone"}
    /\ held \subseteq {"buf", "dir", "file", "link"}
    /\ cookie \in [Cells -> Nat \cup {NL}]
    /\ pc \in [Procs -> {"closed", "open"} \cup Inside]
    /\ task \in [Pids -> {"alive", "exited", "freed"}]
    /\ refs \in [Pids -> 0..MaxCalls]
    /\ parent \in [Pids -> Pids \cup {Idle}]
    /\ calls \in 0..MaxCalls
    /\ up \in {"running", "buffer", "task", "parent"}

Init ==
    /\ life = "vmalloc" /\ held = {}
    /\ cookie = [i \in Cells |-> NUL]
    /\ pc = [p \in Procs |-> "closed"]
    /\ text = [p \in Procs |-> <<>>] /\ k = [p \in Procs |-> 0]
    /\ tgt = [p \in Procs |-> Idle] /\ par = [p \in Procs |-> Idle]
    /\ task = [t \in Pids |-> "alive"] /\ refs = [t \in Pids |-> 0]
    /\ alone = [p \in Procs |-> FALSE] /\ last = <<>> /\ shown = [text |-> <<>>, last |-> <<>>]
    /\ parent = Parent /\ calls = 0 /\ up = "running"

Running == up = "running"

Fault(what) ==
    up' = what /\ UNCHANGED <<life, held, cookie, pc, fVars, tVars, history>>

Goto(p, where) == pc' = [pc EXCEPT ![p] = where]

-----------------------------------------------------------------------------
(* ct_init, ct_exit *)

(* free_all: waits for the calls inside, closes the file, frees the buffer  *)
FreeAll(next) ==
    /\ "file" \in held => \A p \in Procs : pc[p] \notin Inside
    /\ life' = next /\ held' = {}
    /\ pc' = [p \in Procs |-> "closed"]
    /\ UNCHANGED <<cookie, fVars, tVars, history, up>>

(* vmalloc and memset; proc_mkdir, proc_create, proc_symlink.  The last     *)
(* statement, write_index = 0, changes nothing: it is 0 from the start      *)
Obtain(here, what, next) ==
    /\ Running /\ life = here
    /\ \/ /\ life' = next /\ held' = held \cup {what}
          /\ UNCHANGED <<cookie, pc, fVars, tVars, history, up>>
       \/ FreeAll("rejected")

CtInit ==
    \/ Obtain("vmalloc", "buf", "proc_mkdir") \/ Obtain("proc_mkdir", "dir", "proc_create")
    \/ Obtain("proc_create", "file", "proc_symlink") \/ Obtain("proc_symlink", "link", "loaded")

CtExit == Running /\ life = "loaded" /\ FreeAll("gone")

-----------------------------------------------------------------------------
(* ct_seq_open, ct_seq_release *)

Open(p) ==
    /\ Running /\ "file" \in held /\ pc[p] = "closed" /\ Goto(p, "open")
    /\ UNCHANGED <<life, held, cookie, fVars, tVars, history, up>>

Release(p) ==
    /\ Running /\ pc[p] = "open" /\ Goto(p, "closed")
    /\ UNCHANGED <<life, held, cookie, fVars, tVars, history, up>>

-----------------------------------------------------------------------------
(* ct_seq_write *)

(* write_index is 0 *)
Fits(n) == n <= Size + 1

(* the test; -ENOSPC if it fails *)
WriteTest(p) ==
    /\ Running /\ pc[p] = "open" /\ calls < MaxCalls
    /\ \E t \in Texts : Fits(Len(t)) /\ text' = [text EXCEPT ![p] = t]
    /\ k' = [k EXCEPT ![p] = 0]
    /\ calls' = calls + 1
    /\ alone' = [q \in Procs |-> q = p /\ NobodyWrites]
    /\ Goto(p, "write")
    /\ UNCHANGED <<life, held, cookie, tgt, par, tVars, last, shown, up>>

(* copy_from_user, byte by byte *)
WriteByte(p) ==
    /\ Running /\ pc[p] = "write" /\ k[p] < Len(text[p])
    /\ \/ k[p] \notin Cells /\ Fault("buffer")
       \/ /\ k[p] \in Cells
          /\ cookie' = [cookie EXCEPT ![k[p]] = text[p][k[p] + 1]]
          /\ k' = [k EXCEPT ![p] = @ + 1]
          /\ UNCHANGED <<life, held, pc, text, tgt, par, tVars, history, up>>

(* copy_from_user fails: it clears the bytes it did not copy; -EFAULT       *)
WriteFails(p) ==
    /\ Running /\ pc[p] = "write" /\ k[p] < Len(text[p])
    /\ \/ Len(text[p]) > Size /\ Fault("buffer")
       \/ /\ Len(text[p]) <= Size
          /\ cookie' = [i \in Cells |-> IF i \in k[p] .. (Len(text[p]) - 1) THEN NUL ELSE cookie[i]]
          /\ last' = Mixture
          /\ Goto(p, "open")
          /\ UNCHANGED <<life, held, fVars, tVars, alone, shown, calls, up>>

(* the last byte of a write, normally a newline, gives way to the NUL       *)
Kept(t) == SubSeq(t, 1, Len(t) - 1)

(* Mutant: the NUL is forgotten.                                            *)
WriteNoNul(p) ==
    /\ Running /\ pc[p] = "write" /\ k[p] = Len(text[p])
    /\ last' = IF alone[p] THEN Kept(text[p]) ELSE Mixture
    /\ Goto(p, "open")
    /\ UNCHANGED <<life, held, cookie, fVars, tVars, alone, shown, calls, up>>

(* cookie_buf[len - 1] = 0 *)
WriteNul(p) ==
    /\ Running /\ pc[p] = "write" /\ k[p] = Len(text[p])
    /\ \/ Len(text[p]) - 1 \notin Cells /\ Fault("buffer")
       \/ /\ Len(text[p]) - 1 \in Cells
          /\ cookie' = [cookie EXCEPT ![Len(text[p]) - 1] = NUL]
          /\ last' = IF alone[p] THEN Kept(text[p]) ELSE Mixture
          /\ Goto(p, "open")
          /\ UNCHANGED <<life, held, fVars, tVars, alone, shown, calls, up>>

-----------------------------------------------------------------------------
(* ct_seq_read: seq_read calls ct_seq_show once, and again if its text did  *)
(* not fit; ct_seq_lseek lets a process read again                          *)

Read(p) ==
    /\ Running /\ pc[p] = "open" /\ calls < MaxCalls
    /\ calls' = calls + 1 /\ Goto(p, "r_parse")
    /\ UNCHANGED <<life, held, cookie, fVars, tVars, alone, last, shown, up>>

(* kstrtoint(cookie_buf): the text ends at the first NUL, and a newline at  *)
(* its end does no harm; if it is no number the read says so                *)
Parse(p) ==
    LET ends == {i \in Cells : cookie[i] = NUL}
        end == CHOOSE i \in ends : \A j \in ends : i <= j
        str == [i \in 1..end |-> cookie[i - 1]]
        number == IF end > 0 /\ str[end] = NL THEN Kept(str) ELSE str
    IN  /\ Running /\ pc[p] = "r_parse"
        /\ \/ ends = {} /\ Fault("buffer")
           \/ /\ ends # {}
              /\ shown' = [text |-> str, last |-> IF NobodyWrites THEN last ELSE Mixture]
              /\ tgt' = [tgt EXCEPT ![p] = number]
              /\ Goto(p, IF number # <<>> /\ \A i \in DOMAIN number : number[i] # NL
                         THEN "r_task" ELSE "open")
              /\ UNCHANGED <<life, held, cookie, text, k, par, tVars, alone, last, calls, up>>

(* Mutant: the task is looked up, but no reference is taken.                *)
FindTaskUnheld(p) ==
    /\ Running /\ pc[p] = "r_task"
    /\ UNCHANGED refs
    /\ Goto(p, IF tgt[p] \in Pids /\ task[tgt[p]] = "alive" THEN "r_parent" ELSE "open")
    /\ UNCHANGED <<life, held, cookie, fVars, task, parent, history, up>>

(* get_pid_task(find_get_pid(pid)) takes references that nobody gives back; *)
(* or there is no such task                                                 *)
FindTask(p) ==
    /\ Running /\ pc[p] = "r_task"
    /\ \/ /\ tgt[p] \in Pids /\ task[tgt[p]] = "alive"
          /\ refs' = [refs EXCEPT ![tgt[p]] = @ + 1]
          /\ Goto(p, "r_parent")
       \/ /\ tgt[p] \in Pids => task[tgt[p]] # "alive"
          /\ UNCHANGED refs
          /\ Goto(p, "open")
    /\ UNCHANGED <<life, held, cookie, fVars, task, parent, history, up>>

(* task->parent is loaded ... *)
LoadParent(p) ==
    /\ Running /\ pc[p] = "r_parent"
    /\ \/ task[tgt[p]] = "freed" /\ Fault("task")
       \/ /\ task[tgt[p]] # "freed"
          /\ par' = [par EXCEPT ![p] = parent[tgt[p]]]
          /\ Goto(p, "r_show")
          /\ UNCHANGED <<life, held, cookie, text, k, tgt, tVars, history, up>>

(* ... and followed; if the text does not fit show is called again          *)
Show(p) ==
    /\ Running /\ pc[p] = "r_show"
    /\ \/ task[tgt[p]] = "freed" /\ Fault("task")
       \/ par[p] # Idle /\ task[par[p]] = "freed" /\ Fault("parent")
       \/ /\ task[tgt[p]] # "freed" /\ (par[p] # Idle => task[par[p]] # "freed")
          /\ \/ Goto(p, "open") /\ UNCHANGED calls
             \/ calls < MaxCalls /\ calls' = calls + 1 /\ Goto(p, "r_parse")
          /\ UNCHANGED <<life, held, cookie, fVars, tVars, alone, last, shown, up>>

(* A task exits and is reaped: its living children go to Idle, and it is    *)
(* freed unless somebody has a reference.                                   *)
ExitTask(t) ==
    /\ Running /\ task[t] = "alive"
    /\ task' = [task EXCEPT ![t] = IF refs[t] = 0 THEN "freed" ELSE "exited"]
    /\ parent' = [c \in Pids |-> IF parent[c] = t /\ task[c] = "alive" THEN Idle ELSE parent[c]]
    /\ UNCHANGED <<life, held, cookie, pc, fVars, refs, history, up>>

Next ==
    \/ CtInit \/ CtExit
    \/ \E p \in Procs : \/ Open(p) \/ Release(p)
                        \/ WriteTest(p) \/ WriteByte(p) \/ WriteFails(p) \/ WriteNul(p)
                        \/ Read(p) \/ Parse(p) \/ FindTask(p) \/ LoadParent(p) \/ Show(p)
    \/ \E t \in Pids : ExitTask(t)

Spec == Init /\ [][Next]_vars

-----------------------------------------------------------------------------
(* A read that meets no write shows the text of the last one, if that had   *)
(* the buffer for itself and did not fail half way.                         *)
ShowsLastWrite == shown.last # Mixture => shown.text = shown.last

(* The task a read shows is held, so it is never gone.  Its parent may be,  *)
(* if no read has ever shown that one; and the buffer is left only while a  *)
(* write is under way that fills it, is one byte longer, or is empty.       *)
FaultExplained ==
    /\ TypeOK
    /\ up # "task"
    /\ up = "parent" => \E p \in Procs : pc[p] = "r_show" /\ par[p] \in Pids /\ refs[par[p]] = 0
    /\ up = "buffer" => \E p \in Procs : pc[p] = "write" /\ Len(text[p]) \in {0, Size, Size + 1}
=============================================================================
