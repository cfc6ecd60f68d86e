------------------------------ MODULE Tasklet ------------------------------
(***************************************************************************)
(* The keyboard tasklet of 9/interrupts/tasklet/tasklet.c, loaded once and *)
(* unloaded: insmod / rmmod, interrupts on any processor, the softirq that *)
(* runs the tasklet, and processes that read /proc/tasklet.                *)
(*                                                                         *)
(* A scan code is represented by the number of the interrupt that brought  *)
(* it; which codes have a name in ascii[] only decides what is printed.    *)
(* The handler is registered for IRQ_NO alone, so its other branch is dead.*)
(* The model stops at the first access to memory that is not there         *)
(* (up = "fault").                                                         *)
(***************************************************************************)
EXTENDS Naturals, ProcFile

CONSTANT MaxKeys             \* bound on the interrupts of a behaviour

ASSUME KeysAssumption == MaxKeys \in Nat

VARIABLES
    life,        \* the statement my_init or my_exit executes next
    held,        \* what the module has obtained and not given back
    mem,         \* what the pointer `tasklet` points to
    sched,       \* TASKLET_STATE_SCHED
    run,         \* TASKLET_STATE_RUN, and whether the function was called
    data,        \* tasklet->data
    isr,         \* where my_irq_handler is
    keys,        \* interrupts so far
    shown,       \* argument of the last call of my_tasklet_fun, 0 at first
    times,       \* how many calls in a row had this argument
    inWindow,    \* history: a handler ran while the tasklet was not in order
    up           \* "running" or "fault"

taskletVars == <<sched, run, data>>
irqVars == <<isr, keys, inWindow>>
logVars == <<shown, times>>
vars == <<life, held, mem, taskletVars, irqVars, logVars, up, reader>>

Loading == {"request_irq", "kmalloc", "tasklet_init", "vmalloc",
            "proc_create", "proc_links"}
Unloading == {"tasklet_kill", "kill_wait", "kfree", "free_irq"}
InService == {"vmalloc", "proc_create", "proc_links", "loaded", "tasklet_kill"}
Resources == {"irq", "tasklet", "buffer", "file", "dir", "link"}

TypeOK ==
    /\ life \in Loading \cup {"loaded", "rejected", "gone"} \cup Unloading
    /\ held \subseteq Resources
    /\ mem \in {"null", "raw", "ready", "freed"}
    /\ sched \in BOOLEAN /\ run \in {"idle", "started", "called"}
    /\ data \in 0..MaxKeys
    /\ isr \in {"idle", "data", "schedule", "leave"}
    /\ keys \in 0..MaxKeys
    /\ shown \in 0..MaxKeys /\ times \in Nat
    /\ inWindow \in BOOLEAN /\ up \in {"running", "fault"}
    /\ ReaderTypeOK

Init ==
    /\ life = "request_irq" /\ held = {} /\ mem = "null"
    /\ sched = FALSE /\ run = "idle" /\ data = 0
    /\ isr = "idle" /\ keys = 0
    /\ shown = 0 /\ times = 0
    /\ inWindow = FALSE /\ up = "running"
    /\ ReaderInit

Running == up = "running"

(* the module's text and data are unmapped *)
TextGone == life \in {"rejected", "gone"}

(* `tasklet` does not point to memory of ours *)
NoTasklet == mem \in {"null", "freed"}

Fault ==
    /\ up' = "fault"
    /\ UNCHANGED <<life, held, mem, taskletVars, irqVars, logVars, reader>>

(* an interrupt now finds the tasklet not yet or no longer in order         *)
Window == {"kmalloc", "tasklet_init", "kfree", "free_irq"}

-----------------------------------------------------------------------------
(* my_init *)

Reject(keep) == life' = "rejected" /\ held' = keep

RequestIrq ==
    /\ Running /\ life = "request_irq"
    /\ \/ life' = "kmalloc" /\ held' = {"irq"}
       \/ Reject({})
    /\ UNCHANGED <<mem, taskletVars, irqVars, logVars, up, reader>>

(* tasklet = kmalloc(...); on failure free_irq, which waits for a handler   *)
Kmalloc ==
    /\ Running /\ life = "kmalloc"
    /\ \/ life' = "tasklet_init" /\ held' = held \cup {"tasklet"} /\ mem' = "raw"
       \/ isr = "idle" /\ Reject(held \ {"irq"}) /\ UNCHANGED mem
    /\ UNCHANGED <<taskletVars, irqVars, logVars, up, reader>>

TaskletInit ==
    /\ Running /\ life = "tasklet_init"
    /\ life' = "vmalloc" /\ mem' = "ready"
    /\ sched' = FALSE /\ run' = "idle" /\ data' = 0
    /\ UNCHANGED <<held, irqVars, logVars, up, reader>>

Vmalloc ==
    /\ Running /\ life = "vmalloc"
    /\ \/ life' = "proc_create" /\ held' = held \cup {"buffer"}
       \/ Reject(held)
    /\ UNCHANGED <<mem, taskletVars, irqVars, logVars, up, reader>>

ProcCreate ==
    /\ Running /\ life = "proc_create"
    /\ \/ life' = "proc_links" /\ held' = held \cup {"file"}
       \/ Reject(held \ {"buffer"})
    /\ UNCHANGED <<mem, taskletVars, irqVars, logVars, up, reader>>

(* proc_mkdir and proc_symlink, tested together *)
ProcLinks ==
    /\ Running /\ life = "proc_links"
    /\ \E made \in SUBSET {"dir", "link"} :
          \/ made = {"dir", "link"} /\ life' = "loaded" /\ held' = held \cup made
          \/ made # {"dir", "link"} /\ Reject((held \cup made) \ {"buffer"})
    /\ UNCHANGED <<mem, taskletVars, irqVars, logVars, up, reader>>

-----------------------------------------------------------------------------
(* my_exit *)

ProcRemove ==
    /\ Running /\ life = "loaded"
    /\ Rundown
    /\ life' = "tasklet_kill"
    /\ held' = held \ {"file", "dir", "link"}
    /\ UNCHANGED <<mem, taskletVars, irqVars, logVars, up>>

(* tasklet_kill: takes SCHED for itself as soon as it is free ...           *)
KillSched ==
    /\ Running /\ life = "tasklet_kill" /\ ~sched
    /\ life' = "kill_wait" /\ sched' = TRUE
    /\ UNCHANGED <<held, mem, run, data, irqVars, logVars, up, reader>>

(* Mutant: tasklet_kill does not wait for a running tasklet.                *)
KillWaitNoWait ==
    /\ Running /\ life = "kill_wait"
    /\ life' = "kfree" /\ sched' = FALSE
    /\ inWindow' = IF isr # "idle" THEN TRUE ELSE inWindow
    /\ UNCHANGED <<held, mem, run, data, isr, keys, logVars, up, reader>>

(* Mutant: SCHED stays set after tasklet_kill.                              *)
KillWaitKeepsSched ==
    /\ Running /\ life = "kill_wait" /\ run = "idle"
    /\ life' = "kfree"
    /\ inWindow' = IF isr # "idle" THEN TRUE ELSE inWindow
    /\ UNCHANGED <<held, mem, taskletVars, isr, keys, logVars, up, reader>>

(* ... waits until the tasklet does not run, and clears it                  *)
KillWait ==
    /\ Running /\ life = "kill_wait" /\ run = "idle"
    /\ life' = "kfree" /\ sched' = FALSE
    /\ inWindow' = IF isr # "idle" THEN TRUE ELSE inWindow
    /\ UNCHANGED <<held, mem, run, data, isr, keys, logVars, up, reader>>

Kfree ==
    /\ Running /\ life = "kfree"
    /\ life' = "free_irq" /\ mem' = "freed" /\ held' = held \ {"tasklet"}
    /\ UNCHANGED <<taskletVars, irqVars, logVars, up, reader>>

FreeIrq ==
    /\ Running /\ life = "free_irq" /\ isr = "idle"
    /\ life' = "gone" /\ held' = held \ {"irq"}
    /\ UNCHANGED <<mem, taskletVars, irqVars, logVars, up, reader>>

-----------------------------------------------------------------------------
(* my_irq_handler, on some processor *)

(* an interrupt arrives; the handler reads tasklet->state *)
IrqEnter ==
    /\ Running /\ "irq" \in held /\ isr = "idle" /\ keys < MaxKeys
    /\ inWindow' = IF life \in Window THEN TRUE ELSE inWindow
    /\ \/ (TextGone \/ NoTasklet) /\ up' = "fault" /\ UNCHANGED <<isr, keys>>
       \/ /\ ~TextGone /\ ~NoTasklet
          /\ isr' = "data" /\ keys' = keys + 1 /\ UNCHANGED up
    /\ UNCHANGED <<life, held, mem, taskletVars, logVars, reader>>

(* code = inb(0x60); tasklet->data = code *)
IrqData ==
    /\ Running /\ isr = "data"
    /\ \/ (TextGone \/ NoTasklet) /\ Fault
       \/ /\ ~TextGone /\ ~NoTasklet
          /\ data' = keys /\ isr' = "schedule"
          /\ UNCHANGED <<life, held, mem, sched, run, keys, inWindow, logVars, up, reader>>

(* Mutant: no scheduling while the tasklet runs.                            *)
IrqScheduleUnlessRunning ==
    /\ Running /\ isr = "schedule"
    /\ \/ (TextGone \/ NoTasklet \/ mem = "raw") /\ Fault
       \/ /\ ~TextGone /\ ~NoTasklet
          /\ isr' = "leave"
          /\ sched' = (sched \/ (mem = "ready" /\ run = "idle"))
          /\ UNCHANGED <<life, held, mem, run, data, keys, inWindow, logVars, up, reader>>

(* tasklet_schedule: nothing if SCHED is set.  On memory that tasklet_init  *)
(* has not seen, SCHED and the list are what they happen to be.             *)
IrqSchedule ==
    /\ Running /\ isr = "schedule"
    /\ \/ (TextGone \/ NoTasklet \/ mem = "raw") /\ Fault
       \/ /\ ~TextGone
          /\ isr' = "leave"
          /\ \/ mem = "raw" /\ UNCHANGED sched
             \/ mem = "ready" /\ sched' = TRUE
          /\ UNCHANGED <<life, held, mem, run, data, keys, inWindow, logVars, up, reader>>

(* tasklet->state is read again *)
IrqLeave ==
    /\ Running /\ isr = "leave"
    /\ \/ (TextGone \/ NoTasklet) /\ Fault
       \/ /\ ~TextGone /\ ~NoTasklet
          /\ isr' = "idle"
          /\ UNCHANGED <<life, held, mem, taskletVars, keys, inWindow, logVars, up, reader>>

-----------------------------------------------------------------------------
(* the softirq: tasklet_action and my_tasklet_fun *)

(* in the list of scheduled tasklets (tasklet_kill sets SCHED without that) *)
Queued == sched /\ life # "kill_wait"

(* RUN is taken and SCHED cleared *)
TaskletStart ==
    /\ Running /\ Queued /\ run = "idle"
    /\ \/ NoTasklet /\ Fault
       \/ /\ ~NoTasklet
          /\ run' = "started" /\ sched' = FALSE
          /\ UNCHANGED <<life, held, mem, data, irqVars, logVars, up, reader>>

(* func(data); my_tasklet_fun prints tasklet->state *)
MyTaskletFun ==
    /\ Running /\ run = "started"
    /\ \/ (TextGone \/ NoTasklet) /\ Fault
       \/ /\ ~TextGone /\ ~NoTasklet
          /\ run' = "called" /\ shown' = data
          /\ times' = IF data = shown THEN times + 1 ELSE 1
          /\ UNCHANGED <<life, held, mem, sched, data, irqVars, up, reader>>

TaskletEnd ==
    /\ Running /\ run = "called"
    /\ \/ NoTasklet /\ Fault
       \/ /\ ~NoTasklet
          /\ run' = "idle"
          /\ UNCHANGED <<life, held, mem, sched, data, irqVars, logVars, up, reader>>

-----------------------------------------------------------------------------
(* /proc/tasklet *)

notFile == <<life, held, mem, taskletVars, irqVars, logVars, up>>

MyOpen(r) ==
    /\ Running /\ "file" \in held /\ reader[r] = "closed"
    /\ \/ TextGone /\ Fault
       \/ ~TextGone /\ FileOpen(r) /\ UNCHANGED notFile

MyRead(r) ==
    /\ Running /\ reader[r] = "open"
    /\ \/ TextGone /\ Fault
       \/ ~TextGone /\ FileEnter(r) /\ UNCHANGED notFile

(* prints the fields of *tasklet *)
MyShow(r) ==
    /\ Running /\ reader[r] = "inside"
    /\ \/ (TextGone \/ NoTasklet) /\ Fault
       \/ ~TextGone /\ ~NoTasklet /\ FileLeave(r) /\ UNCHANGED notFile

MyRelease(r) ==
    /\ Running /\ reader[r] = "open"
    /\ \/ TextGone /\ Fault
       \/ ~TextGone /\ FileRelease(r) /\ UNCHANGED notFile

-----------------------------------------------------------------------------
MyInit == RequestIrq \/ Kmalloc \/ TaskletInit \/ Vmalloc \/ ProcCreate \/ ProcLinks
MyExit == ProcRemove \/ KillSched \/ KillWait \/ Kfree \/ FreeIrq
MyIrqHandler == IrqEnter \/ IrqData \/ IrqSchedule \/ IrqLeave
Softirq == TaskletStart \/ MyTaskletFun \/ TaskletEnd
ProcCalls == \E r \in Readers : MyOpen(r) \/ MyRead(r) \/ MyShow(r) \/ MyRelease(r)

Next == MyInit \/ MyExit \/ MyIrqHandler \/ Softirq \/ ProcCalls

Spec == Init /\ [][Next]_vars

(* Handlers and softirqs run to their end, and rmmod goes on once begun.    *)
Started == KillSched \/ KillWait \/ Kfree \/ FreeIrq
FairSpec ==
    /\ Spec
    /\ WF_vars(IrqData \/ IrqSchedule \/ IrqLeave)
    /\ WF_vars(Softirq)
    /\ WF_vars(Started)

-----------------------------------------------------------------------------
(* Memory that is not there is touched only after a handler ran in one of   *)
(* the two windows (between request_irq and tasklet_init, between           *)
(* tasklet_kill and free_irq), or when my_init has failed.                  *)
FaultNeedsWindow == up = "fault" => inWindow \/ life = "rejected"

(* When my_exit has returned, nothing of the module is in use any more, and *)
(* of what it obtained only `buffer` has not been given back.               *)
GoneLeavesOnlyBuffer ==
    life = "gone" =>
        /\ held = {"buffer"} /\ isr = "idle" /\ NobodyReads
        /\ inWindow \/ (~sched /\ run = "idle")

(* A failed my_init has either given everything back or has left the        *)
(* handler registered with its tasklet, but not the buffer.                 *)
RejectedKeepsIrqOrNothing ==
    life = "rejected" =>
        \/ held = {} /\ isr = "idle" /\ ~sched /\ run = "idle"
        \/ {"irq", "tasklet"} \subseteq held /\ "buffer" \notin held

(* my_show never looks at a tasklet that is not initialised or is freed.    *)
ShowSeesTasklet == (\E r \in Readers : reader[r] = "inside") => mem = "ready"

(* my_tasklet_fun is called at most three times with the same scan code:    *)
(* by a tasklet that is running already, by one that is scheduled already,  *)
(* and by the one this interrupt schedules.                                 *)
AtMostThrice == times <= 3

(* my_tasklet_fun has been called with the last key when everything has     *)
(* come to rest, up to the moment tasklet_kill takes SCHED: keys are merged *)
(* but the last one is never lost.                                          *)
LastKeyNotLost ==
    (life \in InService /\ ~inWindow /\ isr = "idle" /\ ~sched /\ run # "started")
        => shown = keys

(* A key whose handler has called tasklet_schedule while the module is in   *)
(* service reaches my_tasklet_fun, or a later one does, even if rmmod runs; *)
(* and rmmod comes to its end: tasklet_kill and free_irq do not wait for    *)
(* ever.                                                                    *)
KeyArrivesAndUnloadEnds ==
    /\ \A k \in 1..MaxKeys :
        (life = "loaded" /\ isr = "leave" /\ data = k) ~> (shown >= k \/ up = "fault")
    /\ (life \in Unloading) ~> (life = "gone" \/ up = "fault")

-----------------------------------------------------------------------------
(* The inductive invariant *)

(* what my_init and my_exit hold at each of their statements *)
HeldInv ==
    /\ life = "request_irq" => held = {}
    /\ life = "kmalloc" => held = {"irq"}
    /\ life \in {"tasklet_init", "vmalloc"} => held = {"irq", "tasklet"}
    /\ life = "proc_create" => held = {"irq", "tasklet", "buffer"}
    /\ life = "proc_links" => held = {"irq", "tasklet", "buffer", "file"}
    /\ life = "loaded" => held = Resources
    /\ life \in {"tasklet_kill", "kill_wait", "kfree"} => held = {"irq", "tasklet", "buffer"}
    /\ life = "free_irq" => held = {"irq", "buffer"}
    /\ life = "gone" => held = {"buffer"}
    /\ life = "rejected" => \/ held = {} /\ mem = "null"
                            \/ {"irq", "tasklet"} \subseteq held /\ "buffer" \notin held /\ mem = "ready"

MemInv ==
    /\ life \in {"request_irq", "kmalloc"} => mem = "null"
    /\ life = "tasklet_init" => mem = "raw"
    /\ life \in {"vmalloc", "proc_create", "proc_links", "loaded",
                 "tasklet_kill", "kill_wait", "kfree"} => mem = "ready"
    /\ life \in {"free_irq", "gone"} <=> mem = "freed"
    /\ mem = "null" => isr = "idle"
    /\ mem \in {"null", "raw"} => ~sched /\ run = "idle" /\ shown = 0 /\ times = 0
    /\ life = "gone" => isr = "idle"

(* after tasklet_kill only a handler in the window can have scheduled *)
WindowInv ==
    /\ isr # "idle" /\ life \in Window => inWindow
    /\ life \in {"kfree", "free_irq", "gone"} /\ (sched \/ run # "idle") => inWindow
    /\ life = "kill_wait" => sched

(* the file is open only while it exists *)
ReaderInv ==
    \A r \in Readers :
        reader[r] # "closed" => life \in {"proc_links", "loaded", "rejected"} /\ mem = "ready"

Bit(b) == IF b THEN 1 ELSE 0

(* calls with the current code that are made or certain to come *)
CountInv ==
    /\ shown <= data /\ data <= keys
    /\ isr = "data" => data < keys
    /\ times <= 3
    /\ shown = data =>
          times + Bit(Queued) + Bit(run = "started") + Bit(isr = "schedule") <= 3

(* a key that was not handed over yet is about to be *)
LastKeyInv ==
    /\ life \in {"request_irq", "kmalloc", "tasklet_init"} /\ ~inWindow => keys = 0
    /\ life \in InService /\ ~inWindow =>
          /\ data = keys \/ isr = "data"
          /\ shown = data \/ sched \/ run = "started" \/ isr = "schedule"

(* The inductive invariant: together these say what every statement of      *)
(* my_init, my_exit, the handler and the softirq can rely on.               *)
IInv ==
    /\ TypeOK
    /\ HeldInv
    /\ MemInv
    /\ WindowInv
    /\ ReaderInv
    /\ CountInv
    /\ LastKeyInv
    /\ FaultNeedsWindow
=============================================================================
