---------------------------- MODULE MCInterrupts ----------------------------
(***************************************************************************)
(* The two halves of 9/interrupts in one instance for TLC.  Both modules   *)
(* register their own handler on a shared line and have nothing in common  *)
(* otherwise; a behaviour is of the one that "which" names, and the other  *)
(* is not loaded.                                                          *)
(***************************************************************************)
EXTENDS Tasklet

VARIABLES
    which,
    wqLife, wqHeld, wq, wqMem, queued, active, code, wqIsr, wqKeys,
    wqInWindow, wqShown, wqTimes, wqUp, wqReader

Wq == INSTANCE WorkQueue
    WITH life <- wqLife, held <- wqHeld, mem <- wqMem, isr <- wqIsr, keys <- wqKeys,
         inWindow <- wqInWindow, shown <- wqShown, times <- wqTimes, up <- wqUp,
         reader <- wqReader

taskVars == vars
wqVars == <<wqLife, wqHeld, wq, wqMem, queued, active, code, wqIsr, wqKeys,
            wqInWindow, wqShown, wqTimes, wqUp, wqReader>>
allVars == <<which, taskVars, wqVars>>

AllInit == which \in {"tasklet", "workqueue"} /\ Init /\ Wq!Init

TaskletStep ==
    /\ which = "tasklet" /\ Next
    /\ UNCHANGED <<which, wqVars>>

WorkQueueStep ==
    /\ which = "workqueue" /\ Wq!Next
    /\ UNCHANGED <<which, taskVars>>

AllNext == TaskletStep \/ WorkQueueStep

(* The fairness of each module, for the one that runs.                      *)
AllFairness ==
    /\ WF_taskVars(which = "tasklet" /\ (IrqData \/ IrqSchedule \/ IrqLeave))
    /\ WF_taskVars(which = "tasklet" /\ Softirq)
    /\ WF_taskVars(which = "tasklet" /\ Started)
    /\ WF_wqVars(which = "workqueue" /\ Wq!MyIrqHandlerStarted)
    /\ \A w \in Wq!Works : WF_wqVars(which = "workqueue" /\ Wq!Worker(w))
    /\ WF_wqVars(which = "workqueue" /\ Wq!MywqExitStarted)

AllSpec == AllInit /\ [][AllNext]_allVars /\ AllFairness

-----------------------------------------------------------------------------
(* mywq.c: memory that is not there is touched only after a handler ran     *)
(* before INIT_WORK of work_2 or between the destruction of mywq1 and       *)
(* free_irq, or when mywq_init has failed.                                  *)
WqFaultNeedsWindow == Wq!FaultNeedsWindow

(* mywq.c: mywq_exit gives everything back and leaves nothing in use, and a *)
(* failed mywq_init has freed the irq or has left all it needs.             *)
LeftBehind == Wq!LeftBehind

(* mywq.c: when all has come to rest both functions have printed the last   *)
(* key, and none of them has printed a key more than three times.           *)
WqLastKeyNotLost == Wq!LastKeyNotLost

(* mywq.c: a key that was queued in service is printed by both functions,   *)
(* or a later one is, and rmmod comes to its end.                           *)
KeyIsPrintedAndUnloadEnds == Wq!KeyIsPrintedAndUnloadEnds
=============================================================================
