----------------------------- MODULE WorkQueue -----------------------------
(***************************************************************************)
(* The two work queues of 9/interrupts/workqueue/mywq.c, loaded once and   *)
(* unloaded: insmod / rmmod, keyboard interrupts on any processor, the     *)
(* workers of mywq1 and mywq2, and readers of the /proc file.              *)
(*                                                                         *)
(* As in Tasklet, a scan code is the number of its interrupt, the dead     *)
(* branch of the handler is left out, and the model stops at the first     *)
(* access to memory that is not there (up = "fault").                      *)
(***************************************************************************)
EXTENDS Naturals, ProcFile

CONSTANT MaxKeys             \* bound on the interrupts of a behaviour

Works == {1, 2}              \* work_1 on mywq1, work_2 on mywq2

VARIABLES
    life,        \* the statement mywq_init or mywq_exit executes next
    held,        \* what the module has obtained and not given back
    wq,          \* the queues: "none", "alive", "draining" or "destroyed"
    mem,         \* what the pointers work_1 and work_2 point to
    queued,      \* WORK_STRUCT_PENDING: "no", "yes", or set but "dropped"
    active,      \* works whose function has begun and has not read the code
    code,        \* work_1->code, work_2->code
    isr,         \* where my_irq_handler is
    keys,        \* interrupts so far
    inWindow,    \* history: a handler ran while a work or a queue was missing
    shown,       \* the code each function printed last, 0 at first
    times,       \* how many times in a row
    up           \* "running" or "fault"

workVars == <<queued, active, code>>
irqVars == <<isr, keys, inWindow>>
logVars == <<shown, times>>
vars == <<life, held, wq, mem, workVars, irqVars, logVars, up, reader>>

Loading == {"request_irq", "wq1", "wq2", "kmalloc1", "init1", "kmalloc2",
            "init2", "proc_create", "proc_links"}
Unloading == {"flush1", "flush2", "destroy1", "drain1", "destroy2", "drain2",
              "free_irq", "kfree"}

Queues == {"mywq1", "mywq2"}
WorkMem == {"work_1", "work_2"}
Resources == {"irq", "file", "dir", "link"} \cup Queues \cup WorkMem

(* The types, and: a work that is waiting in its queue or being executed    *)
(* has been initialised and not freed.                                      *)
TypeOK ==
    /\ life \in Loading \cup {"loaded", "rejected", "gone"} \cup Unloading
    /\ held \subseteq Resources
    /\ wq \in [Works -> {"none", "alive", "draining", "destroyed"}]
    /\ mem \in [Works -> {"null", "raw", "ready", "freed"}]
    /\ queued \in [Works -> {"no", "yes", "dropped"}]
    /\ active \subseteq Works
    /\ code \in [Works -> 0..MaxKeys]
    /\ isr \in {"idle", "store1", "store2", "queue1", "queue2"}
    /\ keys \in 0..MaxKeys
    /\ inWindow \in BOOLEAN
    /\ shown \in [Works -> 0..MaxKeys]
    /\ times \in [Works -> Nat]
    /\ up \in {"running", "fault"}
    /\ ReaderTypeOK
    /\ \A w \in Works : queued[w] = "yes" \/ w \in active => mem[w] = "ready"

Init ==
    /\ life = "request_irq" /\ held = {}
    /\ wq = [w \in Works |-> "none"] /\ mem = [w \in Works |-> "null"]
    /\ queued = [w \in Works |-> "no"] /\ active = {}
    /\ code = [w \in Works |-> 0]
    /\ isr = "idle" /\ keys = 0 /\ inWindow = FALSE
    /\ shown = [w \in Works |-> 0] /\ times = [w \in Works |-> 0]
    /\ up = "running"
    /\ ReaderInit

Running == up = "running"

(* the module's text and data are unmapped *)
TextGone == life \in {"rejected", "gone"}

Fault ==
    /\ up' = "fault"
    /\ UNCHANGED <<life, held, wq, mem, workVars, irqVars, logVars, reader>>

(* an interrupt now finds a work or a queue missing                         *)
Window == {"wq1", "wq2", "kmalloc1", "init1", "kmalloc2", "init2",
           "destroy2", "drain2", "free_irq"}

-----------------------------------------------------------------------------
(* mywq_init *)

notLife == <<workVars, irqVars, logVars, up, reader>>

Reject(keep) == life' = "rejected" /\ held' = keep

(* the error paths that call free_irq wait for a handler to end             *)
RejectFreeIrq(keep) == isr = "idle" /\ Reject(keep \ {"irq"})

RequestIrq ==
    /\ Running /\ life = "request_irq"
    /\ \/ life' = "wq1" /\ held' = {"irq"}
       \/ Reject({})
    /\ UNCHANGED <<wq, mem, notLife>>

(* mywq1 or mywq2 = alloc_workqueue(...) *)
AllocWorkqueue(q, here, name, next) ==
    /\ Running /\ life = here
    /\ \/ life' = next /\ held' = held \cup {name} /\ wq' = [wq EXCEPT ![q] = "alive"]
       \/ RejectFreeIrq(held) /\ UNCHANGED wq
    /\ UNCHANGED <<mem, notLife>>

Kmalloc1 ==
    /\ Running /\ life = "kmalloc1"
    /\ \/ life' = "init1" /\ held' = held \cup {"work_1"} /\ mem' = [mem EXCEPT ![1] = "raw"]
       \/ RejectFreeIrq(held) /\ UNCHANGED mem
    /\ UNCHANGED <<wq, notLife>>

(* on failure work_1 is freed too *)
Kmalloc2 ==
    /\ Running /\ life = "kmalloc2"
    /\ \/ life' = "init2" /\ held' = held \cup {"work_2"} /\ mem' = [mem EXCEPT ![2] = "raw"]
       \/ RejectFreeIrq(held \ {"work_1"}) /\ mem' = [mem EXCEPT ![1] = "freed"]
    /\ UNCHANGED <<wq, notLife>>

(* INIT_WORK *)
InitWork(w, here, next) ==
    /\ Running /\ life = here
    /\ life' = next
    /\ mem' = [mem EXCEPT ![w] = "ready"]
    /\ queued' = [queued EXCEPT ![w] = "no"]
    /\ UNCHANGED <<held, wq, active, code, irqVars, logVars, up, reader>>

ProcCreate ==
    /\ Running /\ life = "proc_create"
    /\ \/ life' = "proc_links" /\ held' = held \cup {"file"}
       \/ Reject(held)
    /\ UNCHANGED <<wq, mem, notLife>>

(* proc_mkdir and proc_symlink, tested together *)
ProcLinks ==
    /\ Running /\ life = "proc_links"
    /\ \E made \in SUBSET {"dir", "link"} :
          \/ made = {"dir", "link"} /\ life' = "loaded" /\ held' = held \cup made
          \/ made # {"dir", "link"} /\ Reject(held \cup made)
    /\ UNCHANGED <<wq, mem, notLife>>

-----------------------------------------------------------------------------
(* mywq_exit *)

ProcRemove ==
    /\ Running /\ life = "loaded"
    /\ Rundown
    /\ life' = "flush1"
    /\ held' = held \ {"file", "dir", "link"}
    /\ UNCHANGED <<wq, mem, workVars, irqVars, logVars, up>>

(* nothing is waiting in the queue of w or being executed *)
QueueIdle(w) == queued[w] # "yes" /\ w \notin active

(* flush_workqueue waits for what was queued when it was called; work that  *)
(* is queued during the wait is as if it came right after the return.       *)
FlushWorkqueue(w, here, next) ==
    /\ Running /\ life = here /\ QueueIdle(w)
    /\ life' = next
    /\ UNCHANGED <<held, wq, mem, notLife>>

(* Mutant: the queue is gone at once.                                       *)
BeginDestroyAtOnce(w, here, next) ==
    /\ Running /\ life = here
    /\ life' = next
    /\ wq' = [wq EXCEPT ![w] = "destroyed"]
    /\ UNCHANGED <<held, mem, notLife>>

(* destroy_workqueue refuses new work, drains the queue ...                 *)
BeginDestroy(w, here, next) ==
    /\ Running /\ life = here
    /\ life' = next
    /\ wq' = [wq EXCEPT ![w] = "draining"]
    /\ UNCHANGED <<held, mem, notLife>>

(* Mutant: the queue is not drained.                                        *)
EndDestroyNoDrain(w, here, name, next) ==
    /\ Running /\ life = here
    /\ life' = next
    /\ held' = held \ {name}
    /\ wq' = [wq EXCEPT ![w] = "destroyed"]
    /\ inWindow' = IF isr # "idle" THEN TRUE ELSE inWindow
    /\ UNCHANGED <<mem, workVars, isr, keys, logVars, up, reader>>

(* ... and frees it                                                         *)
EndDestroy(w, here, name, next) ==
    /\ Running /\ life = here /\ QueueIdle(w)
    /\ life' = next
    /\ held' = held \ {name}
    /\ wq' = [wq EXCEPT ![w] = "destroyed"]
    /\ inWindow' = IF isr # "idle" THEN TRUE ELSE inWindow
    /\ UNCHANGED <<mem, workVars, isr, keys, logVars, up, reader>>

FreeIrq ==
    /\ Running /\ life = "free_irq" /\ isr = "idle"
    /\ life' = "kfree" /\ held' = held \ {"irq"}
    /\ UNCHANGED <<wq, mem, notLife>>

Kfree ==
    /\ Running /\ life = "kfree"
    /\ life' = "gone" /\ held' = held \ WorkMem
    /\ mem' = [w \in Works |-> "freed"]
    /\ UNCHANGED <<wq, notLife>>

-----------------------------------------------------------------------------
(* my_irq_handler, on some processor *)

(* code = inb(0x60) *)
IrqEnter ==
    /\ Running /\ "irq" \in held /\ isr = "idle" /\ keys < MaxKeys
    /\ inWindow' = IF life \in Window THEN TRUE ELSE inWindow
    /\ \/ TextGone /\ up' = "fault" /\ UNCHANGED <<isr, keys>>
       \/ ~TextGone /\ isr' = "store1" /\ keys' = keys + 1 /\ UNCHANGED up
    /\ UNCHANGED <<life, held, wq, mem, workVars, logVars, reader>>

(* Mutant: the code of a work that is queued already is not replaced.       *)
IrqStoreUnlessQueued(w, here, next) ==
    /\ Running /\ isr = here
    /\ \/ (TextGone \/ mem[w] = "null") /\ Fault
       \/ /\ ~TextGone /\ mem[w] # "null"
          /\ isr' = next
          /\ code' = [code EXCEPT ![w] = IF queued[w] = "yes" THEN @ ELSE keys]
          /\ UNCHANGED <<life, held, wq, mem, queued, active, keys, inWindow, logVars, up, reader>>

(* work_1->code = code, work_2->code = code *)
IrqStore(w, here, next) ==
    /\ Running /\ isr = here
    /\ \/ (TextGone \/ mem[w] = "null") /\ Fault
       \/ /\ ~TextGone /\ mem[w] # "null"
          /\ isr' = next
          /\ code' = [code EXCEPT ![w] = keys]
          /\ UNCHANGED <<life, held, wq, mem, queued, active, keys, inWindow, logVars, up, reader>>

(* queue_work: nothing if PENDING is set; dropped if the queue is draining. *)
(* On memory that INIT_WORK has not seen, PENDING and the list are what     *)
(* they happen to be.                                                       *)
IrqQueue(w, here, next) ==
    /\ Running /\ isr = here
    /\ \/ TextGone /\ Fault
       \/ mem[w] = "raw" /\ Fault
       \/ mem[w] = "ready" /\ queued[w] = "no" /\ wq[w] = "destroyed" /\ Fault
       \/ /\ ~TextGone
          /\ mem[w] = "ready" /\ queued[w] = "no" => wq[w] # "destroyed"
          /\ isr' = next
          /\ queued' = IF mem[w] = "ready" /\ queued[w] = "no"
                       THEN [queued EXCEPT ![w] = IF wq[w] = "alive" THEN "yes" ELSE "dropped"]
                       ELSE queued
          /\ UNCHANGED <<life, held, wq, mem, active, code, keys, inWindow, logVars, up, reader>>

-----------------------------------------------------------------------------
(* the workers *)

(* a worker clears PENDING and enters the function *)
StartWork(w) ==
    /\ Running /\ queued[w] = "yes" /\ w \notin active
    /\ \/ TextGone /\ Fault
       \/ /\ ~TextGone
          /\ queued' = [queued EXCEPT ![w] = "no"]
          /\ active' = active \cup {w}
          /\ UNCHANGED <<life, held, wq, mem, code, irqVars, logVars, up, reader>>

(* Mutant: the work queues itself again.                                    *)
PrintCodeRequeues(w) ==
    /\ Running /\ w \in active
    /\ \/ TextGone /\ Fault
       \/ /\ ~TextGone
          /\ active' = active \ {w}
          /\ queued' = [queued EXCEPT ![w] = "yes"]
          /\ shown' = [shown EXCEPT ![w] = code[w]]
          /\ times' = [times EXCEPT ![w] = IF code[w] = shown[w] THEN (times[w] % 4) + 1 ELSE 1]
          /\ UNCHANGED <<life, held, wq, mem, code, irqVars, up, reader>>

(* mywq_fun_1 and, after its second of sleep, mywq_fun_2 read mywork->code  *)
(* (once: the compiler keeps it in a register) and print it                 *)
PrintCode(w) ==
    /\ Running /\ w \in active
    /\ \/ TextGone /\ Fault
       \/ /\ ~TextGone
          /\ active' = active \ {w}
          /\ shown' = [shown EXCEPT ![w] = code[w]]
          /\ times' = [times EXCEPT ![w] = IF code[w] = shown[w] THEN times[w] + 1 ELSE 1]
          /\ UNCHANGED <<life, held, wq, mem, queued, code, irqVars, up, reader>>

-----------------------------------------------------------------------------
(* the /proc file *)

notFile == <<life, held, wq, mem, workVars, irqVars, logVars, up>>

MyOpen(r) ==
    /\ Running /\ "file" \in held /\ reader[r] = "closed"
    /\ \/ TextGone /\ Fault
       \/ ~TextGone /\ FileOpen(r) /\ UNCHANGED notFile

MyRead(r) ==
    /\ Running /\ reader[r] = "open"
    /\ \/ TextGone /\ Fault
       \/ ~TextGone /\ FileEnter(r) /\ UNCHANGED notFile

MyShow(r) ==
    /\ Running /\ reader[r] = "inside"
    /\ \/ TextGone /\ Fault
       \/ ~TextGone /\ FileLeave(r) /\ UNCHANGED notFile

MyRelease(r) ==
    /\ Running /\ reader[r] = "open"
    /\ \/ TextGone /\ Fault
       \/ ~TextGone /\ FileRelease(r) /\ UNCHANGED notFile

-----------------------------------------------------------------------------
MywqInit ==
    \/ RequestIrq
    \/ AllocWorkqueue(1, "wq1", "mywq1", "wq2")
    \/ AllocWorkqueue(2, "wq2", "mywq2", "kmalloc1")
    \/ Kmalloc1
    \/ InitWork(1, "init1", "kmalloc2")
    \/ Kmalloc2
    \/ InitWork(2, "init2", "proc_create")
    \/ ProcCreate
    \/ ProcLinks

MywqExitStarted ==
    \/ FlushWorkqueue(1, "flush1", "flush2")
    \/ FlushWorkqueue(2, "flush2", "destroy1")
    \/ BeginDestroy(1, "destroy1", "drain1")
    \/ EndDestroy(1, "drain1", "mywq1", "destroy2")
    \/ BeginDestroy(2, "destroy2", "drain2")
    \/ EndDestroy(2, "drain2", "mywq2", "free_irq")
    \/ FreeIrq
    \/ Kfree

MyIrqHandlerStarted ==
    \/ IrqStore(1, "store1", "store2")
    \/ IrqStore(2, "store2", "queue1")
    \/ IrqQueue(1, "queue1", "queue2")
    \/ IrqQueue(2, "queue2", "idle")

Worker(w) == StartWork(w) \/ PrintCode(w)

ProcCalls == \E r \in Readers : MyOpen(r) \/ MyRead(r) \/ MyShow(r) \/ MyRelease(r)

Next ==
    \/ MywqInit
    \/ ProcRemove \/ MywqExitStarted
    \/ IrqEnter \/ MyIrqHandlerStarted
    \/ \E w \in Works : Worker(w)
    \/ ProcCalls

Spec == Init /\ [][Next]_vars

(* Handlers and workers run to their end, and rmmod goes on once begun.     *)
FairSpec ==
    /\ Spec
    /\ WF_vars(MyIrqHandlerStarted)
    /\ \A w \in Works : WF_vars(Worker(w))
    /\ WF_vars(MywqExitStarted)

-----------------------------------------------------------------------------
InService == {"proc_create", "proc_links", "loaded", "flush1", "flush2", "destroy1"}

(* Memory that is not there is touched only after a handler ran in one of   *)
(* the two windows (before INIT_WORK of work_2, between the destruction of  *)
(* mywq1 and free_irq), or when mywq_init has failed.                       *)
FaultNeedsWindow == up = "fault" => inWindow \/ life = "rejected"

(* When mywq_exit has returned, the module has given everything back and    *)
(* nothing of it is in use: no handler, no work, no reader.  A failed       *)
(* mywq_init has either freed the irq, so that nothing runs any more        *)
(* (queues may stay allocated), or has left the handler registered with     *)
(* both queues and both works.                                              *)
LeftBehind ==
    LET quiet == isr = "idle" /\ \A w \in Works : QueueIdle(w)
    IN  /\ TypeOK
        /\ life = "gone" => held = {} /\ quiet /\ NobodyReads
        /\ life = "rejected" =>
              \/ held \in {{}, {"mywq1"}, Queues} /\ quiet
              \/ ({"irq"} \cup Queues \cup WorkMem) \subseteq held

(* Once everything has come to rest both functions have printed the last    *)
(* key: keys are merged, but the last one is never lost, up to the moment   *)
(* destroy_workqueue begins to refuse work.  And each prints the same scan  *)
(* code at most three times: by a run that had begun, by one that was       *)
(* queued, and by the one this interrupt queues.                            *)
LastKeyNotLost ==
    /\ (life \in InService /\ ~inWindow /\ isr = "idle" /\ \A w \in Works : QueueIdle(w))
           => \A w \in Works : shown[w] = keys
    /\ \A w \in Works : times[w] <= 3

(* A key that the handler has queued while the module is in service, and    *)
(* no handler ran before work_2 was initialised, is printed by both         *)
(* functions, or a later one is, even if rmmod runs; and rmmod comes to its *)
(* end, although the handler queues works while it waits for them.          *)
KeyIsPrintedAndUnloadEnds ==
    /\ \A w \in Works : \A k \in 1..MaxKeys :
        (life = "loaded" /\ ~inWindow /\ isr = "idle" /\ code[w] = k)
            ~> (shown[w] >= k \/ up = "fault")
    /\ (life \in Unloading) ~> (life = "gone" \/ up = "fault")
=============================================================================
