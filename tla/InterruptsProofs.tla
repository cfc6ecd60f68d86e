-------------------------- MODULE InterruptsProofs --------------------------
(* Proofs of the safety properties of both interrupt modules, for any       *)
(* number of interrupts and of readers.  One lemma per action says that it  *)
(* keeps the inductive invariant, IInv of Tasklet and WqInv of WorkQueue;   *)
(* each has one step per conjunct.                                          *)
EXTENDS MCInterrupts, TLAPS

USE DEF vars, taskletVars, irqVars, logVars

(* The state before insmod satisfies the invariant. *)
LEMMA InitHolds == Init => IInv
  <1> SUFFICES ASSUME Init PROVE IInv
    OBVIOUS
  <1>1. TypeOK
    <2>1. 0 \in 0..MaxKeys /\ 0 \in Nat
      BY KeysAssumption
    <2>2. ReaderTypeOK
      BY DEF Init, ReaderTypeOK, ReaderInit
    <2> QED
      BY <2>1, <2>2 DEF Init, TypeOK, Loading
  <1>2. HeldInv /\ MemInv /\ WindowInv /\ FaultNeedsWindow
    BY DEF Init, HeldInv, MemInv, WindowInv, FaultNeedsWindow
  <1>3. ReaderInv
    BY DEF Init, ReaderInit, ReaderInv
  <1>4. CountInv /\ LastKeyInv
    BY KeysAssumption DEF Init, CountInv, LastKeyInv, InService, Queued, Bit
  <1> QED
    BY <1>1, <1>2, <1>3, <1>4 DEF IInv

(* The invariant is kept by request_irq. *)
LEMMA RequestIrqKeeps == IInv /\ RequestIrq => IInv'
  <1> SUFFICES ASSUME IInv, RequestIrq PROVE IInv'
    OBVIOUS
  <1>1. TypeOK'
    BY KeysAssumption DEF IInv, TypeOK, Loading, Unloading, Resources,
       ReaderTypeOK, RequestIrq, Reject
  <1>2. HeldInv'
    BY DEF IInv, HeldInv, MemInv, Resources, RequestIrq, Reject
  <1>3. MemInv'
    BY DEF IInv, TypeOK, MemInv, HeldInv, RequestIrq, Reject
  <1>4. WindowInv'
    BY DEF IInv, WindowInv, MemInv, Window, RequestIrq, Reject
  <1>5. ReaderInv'
    BY DEF IInv, TypeOK, ReaderTypeOK, ReaderInv, MemInv, HeldInv,
       RequestIrq, Reject
  <1>6. CountInv'
    BY KeysAssumption DEF IInv, TypeOK, CountInv, MemInv, WindowInv, Queued,
       Bit, RequestIrq, Reject
  <1>7. LastKeyInv'
    BY DEF IInv, LastKeyInv, MemInv, WindowInv, InService, Window,
       RequestIrq, Reject
  <1>8. FaultNeedsWindow'
    BY DEF IInv, TypeOK, Loading, Unloading, FaultNeedsWindow, HeldInv,
       MemInv, WindowInv, ReaderInv, Window, RequestIrq, Reject
  <1> QED
    BY <1>1, <1>2, <1>3, <1>4, <1>5, <1>6, <1>7, <1>8 DEF IInv

(* The invariant is kept by kmalloc, or free_irq on failure. *)
LEMMA KmallocKeeps == IInv /\ Kmalloc => IInv'
  <1> SUFFICES ASSUME IInv, Kmalloc PROVE IInv'
    OBVIOUS
  <1>1. TypeOK'
    BY KeysAssumption DEF IInv, TypeOK, Loading, Unloading, Resources,
       ReaderTypeOK, Kmalloc, Reject
  <1>2. HeldInv'
    BY DEF IInv, HeldInv, MemInv, Resources, Kmalloc, Reject
  <1>3. MemInv'
    BY DEF IInv, TypeOK, MemInv, HeldInv, Kmalloc, Reject
  <1>4. WindowInv'
    BY DEF IInv, WindowInv, MemInv, Window, Kmalloc, Reject
  <1>5. ReaderInv'
    BY DEF IInv, TypeOK, ReaderTypeOK, ReaderInv, MemInv, HeldInv, Kmalloc,
       Reject
  <1>6. CountInv'
    BY KeysAssumption DEF IInv, TypeOK, CountInv, MemInv, WindowInv, Queued,
       Bit, Kmalloc, Reject
  <1>7. LastKeyInv'
    BY DEF IInv, LastKeyInv, MemInv, WindowInv, InService, Window, Kmalloc,
       Reject
  <1>8. FaultNeedsWindow'
    BY DEF IInv, TypeOK, Loading, Unloading, FaultNeedsWindow, HeldInv,
       MemInv, WindowInv, ReaderInv, Window, Kmalloc, Reject
  <1> QED
    BY <1>1, <1>2, <1>3, <1>4, <1>5, <1>6, <1>7, <1>8 DEF IInv

(* The invariant is kept by tasklet_init. *)
LEMMA TaskletInitKeeps == IInv /\ TaskletInit => IInv'
  <1> SUFFICES ASSUME IInv, TaskletInit PROVE IInv'
    OBVIOUS
  <1>1. TypeOK'
    <2>1. data' \in 0..MaxKeys
      BY KeysAssumption DEF TaskletInit
    <2> QED
      BY <2>1 DEF IInv, TypeOK, Loading, Unloading, ReaderTypeOK, TaskletInit
  <1>2. HeldInv'
    BY DEF IInv, HeldInv, MemInv, Resources, TaskletInit
  <1>3. MemInv'
    BY DEF IInv, TypeOK, MemInv, HeldInv, TaskletInit
  <1>4. WindowInv'
    BY DEF IInv, WindowInv, MemInv, Window, TaskletInit
  <1>5. ReaderInv'
    BY DEF IInv, TypeOK, ReaderTypeOK, ReaderInv, MemInv, HeldInv,
       TaskletInit
  <1>6. CountInv'
    BY KeysAssumption DEF IInv, TypeOK, CountInv, MemInv, WindowInv, Queued,
       Bit, TaskletInit
  <1>7. LastKeyInv'
    BY DEF IInv, LastKeyInv, MemInv, WindowInv, InService, Window,
       TaskletInit
  <1>8. FaultNeedsWindow'
    BY DEF IInv, TypeOK, Loading, Unloading, FaultNeedsWindow, HeldInv,
       MemInv, WindowInv, ReaderInv, Window, TaskletInit
  <1> QED
    BY <1>1, <1>2, <1>3, <1>4, <1>5, <1>6, <1>7, <1>8 DEF IInv

(* The invariant is kept by vmalloc. *)
LEMMA VmallocKeeps == IInv /\ Vmalloc => IInv'
  <1> SUFFICES ASSUME IInv, Vmalloc PROVE IInv'
    OBVIOUS
  <1>1. TypeOK'
    BY KeysAssumption DEF IInv, TypeOK, Loading, Unloading, Resources,
       ReaderTypeOK, Vmalloc, Reject
  <1>2. HeldInv'
    BY DEF IInv, HeldInv, MemInv, Resources, Vmalloc, Reject
  <1>3. MemInv'
    BY DEF IInv, TypeOK, MemInv, HeldInv, Vmalloc, Reject
  <1>4. WindowInv'
    BY DEF IInv, WindowInv, MemInv, Window, Vmalloc, Reject
  <1>5. ReaderInv'
    BY DEF IInv, TypeOK, ReaderTypeOK, ReaderInv, MemInv, HeldInv, Vmalloc,
       Reject
  <1>6. CountInv'
    BY KeysAssumption DEF IInv, TypeOK, CountInv, MemInv, WindowInv, Queued,
       Bit, Vmalloc, Reject
  <1>7. LastKeyInv'
    BY DEF IInv, LastKeyInv, MemInv, WindowInv, InService, Window, Vmalloc,
       Reject
  <1>8. FaultNeedsWindow'
    BY DEF IInv, TypeOK, Loading, Unloading, FaultNeedsWindow, HeldInv,
       MemInv, WindowInv, ReaderInv, Window, Vmalloc, Reject
  <1> QED
    BY <1>1, <1>2, <1>3, <1>4, <1>5, <1>6, <1>7, <1>8 DEF IInv

(* The invariant is kept by proc_create_data. *)
LEMMA ProcCreateKeeps == IInv /\ ProcCreate => IInv'
  <1> SUFFICES ASSUME IInv, ProcCreate PROVE IInv'
    OBVIOUS
  <1>1. TypeOK'
    BY KeysAssumption DEF IInv, TypeOK, Loading, Unloading, Resources,
       ReaderTypeOK, ProcCreate, Reject
  <1>2. HeldInv'
    BY DEF IInv, HeldInv, MemInv, Resources, ProcCreate, Reject
  <1>3. MemInv'
    BY DEF IInv, TypeOK, MemInv, HeldInv, ProcCreate, Reject
  <1>4. WindowInv'
    BY DEF IInv, WindowInv, MemInv, Window, ProcCreate, Reject
  <1>5. ReaderInv'
    BY DEF IInv, TypeOK, ReaderTypeOK, ReaderInv, MemInv, HeldInv,
       ProcCreate, Reject
  <1>6. CountInv'
    BY KeysAssumption DEF IInv, TypeOK, CountInv, MemInv, WindowInv, Queued,
       Bit, ProcCreate, Reject
  <1>7. LastKeyInv'
    BY DEF IInv, LastKeyInv, MemInv, WindowInv, InService, Window,
       ProcCreate, Reject
  <1>8. FaultNeedsWindow'
    BY DEF IInv, TypeOK, Loading, Unloading, FaultNeedsWindow, HeldInv,
       MemInv, WindowInv, ReaderInv, Window, ProcCreate, Reject
  <1> QED
    BY <1>1, <1>2, <1>3, <1>4, <1>5, <1>6, <1>7, <1>8 DEF IInv

(* The invariant is kept by proc_mkdir and proc_symlink. *)
LEMMA ProcLinksKeeps == IInv /\ ProcLinks => IInv'
  <1> SUFFICES ASSUME IInv, ProcLinks PROVE IInv'
    OBVIOUS
  <1>1. TypeOK'
    BY KeysAssumption DEF IInv, TypeOK, Loading, Unloading, Resources,
       ReaderTypeOK, ProcLinks, Reject
  <1>2. HeldInv'
    BY DEF IInv, HeldInv, MemInv, Resources, ProcLinks, Reject
  <1>3. MemInv'
    BY DEF IInv, TypeOK, MemInv, HeldInv, ProcLinks, Reject
  <1>4. WindowInv'
    BY DEF IInv, WindowInv, MemInv, Window, ProcLinks, Reject
  <1>5. ReaderInv'
    BY DEF IInv, TypeOK, ReaderTypeOK, ReaderInv, MemInv, HeldInv,
       ProcLinks, Reject
  <1>6. CountInv'
    BY KeysAssumption DEF IInv, TypeOK, CountInv, MemInv, WindowInv, Queued,
       Bit, ProcLinks, Reject
  <1>7. LastKeyInv'
    BY DEF IInv, LastKeyInv, MemInv, WindowInv, InService, Window,
       ProcLinks, Reject
  <1>8. FaultNeedsWindow'
    BY DEF IInv, TypeOK, Loading, Unloading, FaultNeedsWindow, HeldInv,
       MemInv, WindowInv, ReaderInv, Window, ProcLinks, Reject
  <1> QED
    BY <1>1, <1>2, <1>3, <1>4, <1>5, <1>6, <1>7, <1>8 DEF IInv

(* The invariant is kept by the proc_remove calls of my_exit. *)
LEMMA ProcRemoveKeeps == IInv /\ ProcRemove => IInv'
  <1> SUFFICES ASSUME IInv, ProcRemove PROVE IInv'
    OBVIOUS
  <1>1. TypeOK'
    BY KeysAssumption DEF IInv, TypeOK, Loading, Unloading, Resources,
       ReaderTypeOK, ProcRemove, Rundown
  <1>2. HeldInv'
    BY DEF IInv, HeldInv, MemInv, Resources, ProcRemove, Rundown
  <1>3. MemInv'
    BY DEF IInv, TypeOK, MemInv, HeldInv, ProcRemove, Rundown
  <1>4. WindowInv'
    BY DEF IInv, WindowInv, MemInv, Window, ProcRemove, Rundown
  <1>5. ReaderInv'
    BY DEF IInv, TypeOK, ReaderTypeOK, ReaderInv, MemInv, HeldInv,
       ProcRemove, Rundown
  <1>6. CountInv'
    BY KeysAssumption DEF IInv, TypeOK, CountInv, MemInv, WindowInv, Queued,
       Bit, ProcRemove, Rundown
  <1>7. LastKeyInv'
    BY DEF IInv, LastKeyInv, MemInv, WindowInv, InService, Window,
       ProcRemove, Rundown
  <1>8. FaultNeedsWindow'
    BY DEF IInv, TypeOK, Loading, Unloading, FaultNeedsWindow, HeldInv,
       MemInv, WindowInv, ReaderInv, Window, ProcRemove, Rundown
  <1> QED
    BY <1>1, <1>2, <1>3, <1>4, <1>5, <1>6, <1>7, <1>8 DEF IInv

(* The invariant is kept by the first wait of tasklet_kill. *)
LEMMA KillSchedKeeps == IInv /\ KillSched => IInv'
  <1> SUFFICES ASSUME IInv, KillSched PROVE IInv'
    OBVIOUS
  <1>1. TypeOK'
    BY KeysAssumption DEF IInv, TypeOK, Loading, Unloading, Resources,
       ReaderTypeOK, KillSched
  <1>2. HeldInv'
    BY DEF IInv, HeldInv, MemInv, Resources, KillSched
  <1>3. MemInv'
    BY DEF IInv, TypeOK, MemInv, HeldInv, KillSched
  <1>4. WindowInv'
    BY DEF IInv, WindowInv, MemInv, Window, KillSched
  <1>5. ReaderInv'
    BY DEF IInv, TypeOK, ReaderTypeOK, ReaderInv, MemInv, HeldInv, KillSched
  <1>6. CountInv'
    BY KeysAssumption DEF IInv, TypeOK, CountInv, MemInv, WindowInv, Queued,
       Bit, KillSched
  <1>7. LastKeyInv'
    BY DEF IInv, LastKeyInv, MemInv, WindowInv, InService, Window, KillSched
  <1>8. FaultNeedsWindow'
    BY DEF IInv, TypeOK, Loading, Unloading, FaultNeedsWindow, HeldInv,
       MemInv, WindowInv, ReaderInv, Window, KillSched
  <1> QED
    BY <1>1, <1>2, <1>3, <1>4, <1>5, <1>6, <1>7, <1>8 DEF IInv

(* The invariant is kept by the second wait of tasklet_kill. *)
LEMMA KillWaitKeeps == IInv /\ KillWait => IInv'
  <1> SUFFICES ASSUME IInv, KillWait PROVE IInv'
    OBVIOUS
  <1>1. TypeOK'
    BY KeysAssumption DEF IInv, TypeOK, Loading, Unloading, Resources,
       ReaderTypeOK, KillWait
  <1>2. HeldInv'
    BY DEF IInv, HeldInv, MemInv, Resources, KillWait
  <1>3. MemInv'
    BY DEF IInv, TypeOK, MemInv, HeldInv, KillWait
  <1>4. WindowInv'
    BY DEF IInv, WindowInv, MemInv, Window, KillWait
  <1>5. ReaderInv'
    BY DEF IInv, TypeOK, ReaderTypeOK, ReaderInv, MemInv, HeldInv, KillWait
  <1>6. CountInv'
    BY KeysAssumption DEF IInv, TypeOK, CountInv, MemInv, WindowInv, Queued,
       Bit, KillWait
  <1>7. LastKeyInv'
    BY DEF IInv, LastKeyInv, MemInv, WindowInv, InService, Window, KillWait
  <1>8. FaultNeedsWindow'
    BY DEF IInv, TypeOK, Loading, Unloading, FaultNeedsWindow, HeldInv,
       MemInv, WindowInv, ReaderInv, Window, KillWait
  <1> QED
    BY <1>1, <1>2, <1>3, <1>4, <1>5, <1>6, <1>7, <1>8 DEF IInv

(* The invariant is kept by kfree(tasklet). *)
LEMMA KfreeKeeps == IInv /\ Kfree => IInv'
  <1> SUFFICES ASSUME IInv, Kfree PROVE IInv'
    OBVIOUS
  <1>1. TypeOK'
    BY KeysAssumption DEF IInv, TypeOK, Loading, Unloading, Resources,
       ReaderTypeOK, Kfree
  <1>2. HeldInv'
    BY DEF IInv, HeldInv, MemInv, Resources, Kfree
  <1>3. MemInv'
    BY DEF IInv, TypeOK, MemInv, HeldInv, Kfree
  <1>4. WindowInv'
    BY DEF IInv, WindowInv, MemInv, Window, Kfree
  <1>5. ReaderInv'
    BY DEF IInv, TypeOK, ReaderTypeOK, ReaderInv, MemInv, HeldInv, Kfree
  <1>6. CountInv'
    BY KeysAssumption DEF IInv, TypeOK, CountInv, MemInv, WindowInv, Queued,
       Bit, Kfree
  <1>7. LastKeyInv'
    BY DEF IInv, LastKeyInv, MemInv, WindowInv, InService, Window, Kfree
  <1>8. FaultNeedsWindow'
    BY DEF IInv, TypeOK, Loading, Unloading, FaultNeedsWindow, HeldInv,
       MemInv, WindowInv, ReaderInv, Window, Kfree
  <1> QED
    BY <1>1, <1>2, <1>3, <1>4, <1>5, <1>6, <1>7, <1>8 DEF IInv

(* The invariant is kept by free_irq of my_exit. *)
LEMMA FreeIrqKeeps == IInv /\ FreeIrq => IInv'
  <1> SUFFICES ASSUME IInv, FreeIrq PROVE IInv'
    OBVIOUS
  <1>1. TypeOK'
    BY KeysAssumption DEF IInv, TypeOK, Loading, Unloading, Resources,
       ReaderTypeOK, FreeIrq
  <1>2. HeldInv'
    BY DEF IInv, HeldInv, MemInv, Resources, FreeIrq
  <1>3. MemInv'
    BY DEF IInv, TypeOK, MemInv, HeldInv, FreeIrq
  <1>4. WindowInv'
    BY DEF IInv, WindowInv, MemInv, Window, FreeIrq
  <1>5. ReaderInv'
    BY DEF IInv, TypeOK, ReaderTypeOK, ReaderInv, MemInv, HeldInv, FreeIrq
  <1>6. CountInv'
    BY KeysAssumption DEF IInv, TypeOK, CountInv, MemInv, WindowInv, Queued,
       Bit, FreeIrq
  <1>7. LastKeyInv'
    BY DEF IInv, LastKeyInv, MemInv, WindowInv, InService, Window, FreeIrq
  <1>8. FaultNeedsWindow'
    BY DEF IInv, TypeOK, Loading, Unloading, FaultNeedsWindow, HeldInv,
       MemInv, WindowInv, ReaderInv, Window, FreeIrq
  <1> QED
    BY <1>1, <1>2, <1>3, <1>4, <1>5, <1>6, <1>7, <1>8 DEF IInv

(* The invariant is kept by the entry of my_irq_handler. *)
LEMMA IrqEnterKeeps == IInv /\ IrqEnter => IInv'
  <1> SUFFICES ASSUME IInv, IrqEnter PROVE IInv'
    OBVIOUS
  <1>1. TypeOK'
    <2>1. keys' \in 0..MaxKeys
      BY KeysAssumption DEF IInv, TypeOK, IrqEnter
    <2>2. inWindow' \in BOOLEAN
      BY DEF IInv, TypeOK, IrqEnter
    <2> QED
      BY <2>1, <2>2 DEF IInv, TypeOK, ReaderTypeOK, IrqEnter
  <1>2. HeldInv'
    BY DEF IInv, HeldInv, MemInv, Resources, IrqEnter, TextGone, NoTasklet,
       Window
  <1>3. MemInv'
    BY DEF IInv, TypeOK, MemInv, HeldInv, IrqEnter, TextGone, NoTasklet,
       Window
  <1>4. WindowInv'
    BY DEF IInv, WindowInv, MemInv, Window, IrqEnter, TextGone, NoTasklet
  <1>5. ReaderInv'
    BY DEF IInv, TypeOK, ReaderTypeOK, ReaderInv, MemInv, HeldInv, IrqEnter,
       TextGone, NoTasklet, Window
  <1>6. CountInv'
    BY KeysAssumption DEF IInv, TypeOK, CountInv, MemInv, WindowInv, Queued,
       Bit, IrqEnter, TextGone, NoTasklet, Window
  <1>7. LastKeyInv'
    BY DEF IInv, LastKeyInv, MemInv, WindowInv, InService, Window, IrqEnter,
       TextGone, NoTasklet
  <1>8. FaultNeedsWindow'
    BY DEF IInv, TypeOK, Loading, Unloading, FaultNeedsWindow, HeldInv,
       MemInv, WindowInv, ReaderInv, Window, IrqEnter, TextGone, NoTasklet
  <1> QED
    BY <1>1, <1>2, <1>3, <1>4, <1>5, <1>6, <1>7, <1>8 DEF IInv

(* The invariant is kept by the store of the scan code. *)
LEMMA IrqDataKeeps == IInv /\ IrqData => IInv'
  <1> SUFFICES ASSUME IInv, IrqData PROVE IInv'
    OBVIOUS
  <1>1. TypeOK'
    BY KeysAssumption DEF IInv, TypeOK, Loading, Unloading, Resources,
       ReaderTypeOK, IrqData, TextGone, NoTasklet, Fault
  <1>2. HeldInv'
    BY DEF IInv, HeldInv, MemInv, Resources, IrqData, TextGone, NoTasklet,
       Fault
  <1>3. MemInv'
    BY DEF IInv, TypeOK, MemInv, HeldInv, IrqData, TextGone, NoTasklet,
       Fault
  <1>4. WindowInv'
    BY DEF IInv, WindowInv, MemInv, Window, IrqData, TextGone, NoTasklet,
       Fault
  <1>5. ReaderInv'
    BY DEF IInv, TypeOK, ReaderTypeOK, ReaderInv, MemInv, HeldInv, IrqData,
       TextGone, NoTasklet, Fault
  <1>6. CountInv'
    BY KeysAssumption DEF IInv, TypeOK, CountInv, MemInv, WindowInv, Queued,
       Bit, IrqData, TextGone, NoTasklet, Fault
  <1>7. LastKeyInv'
    BY DEF IInv, LastKeyInv, MemInv, WindowInv, InService, Window, IrqData,
       TextGone, NoTasklet, Fault
  <1>8. FaultNeedsWindow'
    BY DEF IInv, TypeOK, Loading, Unloading, FaultNeedsWindow, HeldInv,
       MemInv, WindowInv, ReaderInv, Window, IrqData, TextGone, NoTasklet,
       Fault
  <1> QED
    BY <1>1, <1>2, <1>3, <1>4, <1>5, <1>6, <1>7, <1>8 DEF IInv

(* The invariant is kept by tasklet_schedule. *)
LEMMA IrqScheduleKeeps == IInv /\ IrqSchedule => IInv'
  <1> SUFFICES ASSUME IInv, IrqSchedule PROVE IInv'
    OBVIOUS
  <1>1. TypeOK'
    BY KeysAssumption DEF IInv, TypeOK, Loading, Unloading, Resources,
       ReaderTypeOK, IrqSchedule, TextGone, NoTasklet, Fault
  <1>2. HeldInv'
    BY DEF IInv, HeldInv, MemInv, Resources, IrqSchedule, TextGone,
       NoTasklet, Fault
  <1>3. MemInv'
    BY DEF IInv, TypeOK, MemInv, HeldInv, IrqSchedule, TextGone, NoTasklet,
       Fault
  <1>4. WindowInv'
    BY DEF IInv, WindowInv, MemInv, Window, IrqSchedule, TextGone,
       NoTasklet, Fault
  <1>5. ReaderInv'
    BY DEF IInv, TypeOK, ReaderTypeOK, ReaderInv, MemInv, HeldInv,
       IrqSchedule, TextGone, NoTasklet, Fault
  <1>6. CountInv'
    BY KeysAssumption DEF IInv, TypeOK, CountInv, MemInv, WindowInv, Queued,
       Bit, IrqSchedule, TextGone, NoTasklet, Fault
  <1>7. LastKeyInv'
    BY DEF IInv, LastKeyInv, MemInv, WindowInv, InService, Window,
       IrqSchedule, TextGone, NoTasklet, Fault
  <1>8. FaultNeedsWindow'
    BY DEF IInv, TypeOK, Loading, Unloading, FaultNeedsWindow, HeldInv,
       MemInv, WindowInv, ReaderInv, Window, IrqSchedule, TextGone,
       NoTasklet, Fault
  <1> QED
    BY <1>1, <1>2, <1>3, <1>4, <1>5, <1>6, <1>7, <1>8 DEF IInv

(* The invariant is kept by the end of my_irq_handler. *)
LEMMA IrqLeaveKeeps == IInv /\ IrqLeave => IInv'
  <1> SUFFICES ASSUME IInv, IrqLeave PROVE IInv'
    OBVIOUS
  <1>1. TypeOK'
    BY KeysAssumption DEF IInv, TypeOK, Loading, Unloading, Resources,
       ReaderTypeOK, IrqLeave, TextGone, NoTasklet, Fault
  <1>2. HeldInv'
    BY DEF IInv, HeldInv, MemInv, Resources, IrqLeave, TextGone, NoTasklet,
       Fault
  <1>3. MemInv'
    BY DEF IInv, TypeOK, MemInv, HeldInv, IrqLeave, TextGone, NoTasklet,
       Fault
  <1>4. WindowInv'
    BY DEF IInv, WindowInv, MemInv, Window, IrqLeave, TextGone, NoTasklet,
       Fault
  <1>5. ReaderInv'
    BY DEF IInv, TypeOK, ReaderTypeOK, ReaderInv, MemInv, HeldInv, IrqLeave,
       TextGone, NoTasklet, Fault
  <1>6. CountInv'
    BY KeysAssumption DEF IInv, TypeOK, CountInv, MemInv, WindowInv, Queued,
       Bit, IrqLeave, TextGone, NoTasklet, Fault
  <1>7. LastKeyInv'
    BY DEF IInv, LastKeyInv, MemInv, WindowInv, InService, Window, IrqLeave,
       TextGone, NoTasklet, Fault
  <1>8. FaultNeedsWindow'
    BY DEF IInv, TypeOK, Loading, Unloading, FaultNeedsWindow, HeldInv,
       MemInv, WindowInv, ReaderInv, Window, IrqLeave, TextGone, NoTasklet,
       Fault
  <1> QED
    BY <1>1, <1>2, <1>3, <1>4, <1>5, <1>6, <1>7, <1>8 DEF IInv

(* The invariant is kept by the softirq taking the tasklet. *)
LEMMA TaskletStartKeeps == IInv /\ TaskletStart => IInv'
  <1> SUFFICES ASSUME IInv, TaskletStart PROVE IInv'
    OBVIOUS
  <1>1. TypeOK'
    BY KeysAssumption DEF IInv, TypeOK, Loading, Unloading, Resources,
       ReaderTypeOK, TaskletStart, NoTasklet, Fault, Queued
  <1>2. HeldInv'
    BY DEF IInv, HeldInv, MemInv, Resources, TaskletStart, NoTasklet, Fault,
       Queued
  <1>3. MemInv'
    BY DEF IInv, TypeOK, MemInv, TaskletStart, NoTasklet, Queued, Fault
  <1>4. WindowInv'
    <2>1. CASE NoTasklet
      BY <2>1 DEF IInv, WindowInv, TaskletStart, Fault
    <2>2. CASE ~NoTasklet
      BY <2>2 DEF IInv, WindowInv, TaskletStart, Queued
    <2> QED
      BY <2>1, <2>2
  <1>5. ReaderInv'
    BY DEF IInv, TypeOK, ReaderTypeOK, ReaderInv, MemInv, HeldInv,
       TaskletStart, NoTasklet, Fault, Queued
  <1>6. CountInv'
    <2>1. CASE NoTasklet
      BY <2>1 DEF IInv, CountInv, TaskletStart, Fault, Queued
    <2>2. CASE ~NoTasklet
      <3>1. Bit(Queued) = 1 /\ Bit(Queued') = 0
        BY <2>2 DEF TaskletStart, Queued, Bit
      <3>2. Bit(run = "started") = 0 /\ Bit(run' = "started") = 1
        BY <2>2 DEF TaskletStart, Bit
      <3>3. UNCHANGED <<shown, data, keys, times, isr>>
        BY <2>2 DEF TaskletStart
      <3>4. Bit(isr = "schedule") \in {0, 1}
        BY DEF Bit
      <3> QED
        BY <3>1, <3>2, <3>3, <3>4 DEF IInv, TypeOK, CountInv
    <2> QED
      BY <2>1, <2>2
  <1>7. LastKeyInv'
    <2>1. CASE NoTasklet
      BY <2>1 DEF IInv, LastKeyInv, TaskletStart, Fault
    <2>2. CASE ~NoTasklet
      BY <2>2 DEF IInv, LastKeyInv, TaskletStart
    <2> QED
      BY <2>1, <2>2
  <1>8. FaultNeedsWindow'
    BY DEF IInv, TypeOK, Loading, Unloading, FaultNeedsWindow, HeldInv,
       MemInv, WindowInv, ReaderInv, Window, TaskletStart, NoTasklet, Fault,
       Queued, Running
  <1> QED
    BY <1>1, <1>2, <1>3, <1>4, <1>5, <1>6, <1>7, <1>8 DEF IInv

(* The invariant is kept by the call of my_tasklet_fun. *)
LEMMA MyTaskletFunKeeps == IInv /\ MyTaskletFun => IInv'
  <1> SUFFICES ASSUME IInv, MyTaskletFun PROVE IInv'
    OBVIOUS
  <1>1. TypeOK'
    <2>1. times' \in Nat
      BY DEF IInv, TypeOK, MyTaskletFun, Fault
    <2> QED
      BY <2>1 DEF IInv, TypeOK, ReaderTypeOK, MyTaskletFun, Fault
  <1>2. HeldInv'
    BY DEF IInv, HeldInv, MemInv, Resources, MyTaskletFun, TextGone,
       NoTasklet, Fault
  <1>3. MemInv'
    BY DEF IInv, TypeOK, MemInv, HeldInv, MyTaskletFun, TextGone, NoTasklet,
       Fault
  <1>4. WindowInv'
    BY DEF IInv, WindowInv, MemInv, Window, MyTaskletFun, TextGone,
       NoTasklet, Fault
  <1>5. ReaderInv'
    BY DEF IInv, TypeOK, ReaderTypeOK, ReaderInv, MemInv, HeldInv,
       MyTaskletFun, TextGone, NoTasklet, Fault
  <1>6. CountInv'
    BY KeysAssumption DEF IInv, TypeOK, CountInv, MemInv, WindowInv, Queued,
       Bit, MyTaskletFun, TextGone, NoTasklet, Fault
  <1>7. LastKeyInv'
    BY DEF IInv, LastKeyInv, MemInv, WindowInv, InService, Window,
       MyTaskletFun, TextGone, NoTasklet, Fault
  <1>8. FaultNeedsWindow'
    BY DEF IInv, TypeOK, Loading, Unloading, FaultNeedsWindow, HeldInv,
       MemInv, WindowInv, ReaderInv, Window, MyTaskletFun, TextGone,
       NoTasklet, Fault
  <1> QED
    BY <1>1, <1>2, <1>3, <1>4, <1>5, <1>6, <1>7, <1>8 DEF IInv

(* The invariant is kept by the softirq releasing the tasklet. *)
LEMMA TaskletEndKeeps == IInv /\ TaskletEnd => IInv'
  <1> SUFFICES ASSUME IInv, TaskletEnd PROVE IInv'
    OBVIOUS
  <1>1. TypeOK'
    BY KeysAssumption DEF IInv, TypeOK, Loading, Unloading, Resources,
       ReaderTypeOK, TaskletEnd, NoTasklet, Fault
  <1>2. HeldInv'
    BY DEF IInv, HeldInv, MemInv, Resources, TaskletEnd, NoTasklet, Fault
  <1>3. MemInv'
    BY DEF IInv, TypeOK, MemInv, HeldInv, TaskletEnd, NoTasklet, Fault
  <1>4. WindowInv'
    BY DEF IInv, WindowInv, MemInv, Window, TaskletEnd, NoTasklet, Fault
  <1>5. ReaderInv'
    BY DEF IInv, TypeOK, ReaderTypeOK, ReaderInv, MemInv, HeldInv,
       TaskletEnd, NoTasklet, Fault
  <1>6. CountInv'
    BY KeysAssumption DEF IInv, TypeOK, CountInv, MemInv, WindowInv, Queued,
       Bit, TaskletEnd, NoTasklet, Fault
  <1>7. LastKeyInv'
    BY DEF IInv, LastKeyInv, MemInv, WindowInv, InService, Window,
       TaskletEnd, NoTasklet, Fault
  <1>8. FaultNeedsWindow'
    BY DEF IInv, TypeOK, Loading, Unloading, FaultNeedsWindow, HeldInv,
       MemInv, WindowInv, ReaderInv, Window, TaskletEnd, NoTasklet, Fault
  <1> QED
    BY <1>1, <1>2, <1>3, <1>4, <1>5, <1>6, <1>7, <1>8 DEF IInv

(* A call on the file keeps the types: it faults, or changes its reader only. *)
LEMMA FileCallTypeOK ==
  ASSUME TypeOK, Fault \/ (UNCHANGED notFile /\ ReaderTypeOK')
  PROVE  TypeOK'
  <1>1. CASE Fault
    BY <1>1 DEF TypeOK, ReaderTypeOK, Fault, taskletVars, irqVars, logVars
  <1>2. CASE UNCHANGED notFile /\ ReaderTypeOK'
    BY <1>2 DEF TypeOK, notFile, taskletVars, irqVars, logVars
  <1> QED
    BY <1>1, <1>2

(* The invariant is kept by my_open. *)
LEMMA MyOpenKeeps ==
  ASSUME NEW r \in Readers PROVE IInv /\ MyOpen(r) => IInv'
  <1> SUFFICES ASSUME IInv, MyOpen(r) PROVE IInv'
    OBVIOUS
  <1>1. TypeOK'
    <2>1. Fault \/ (UNCHANGED notFile /\ FileOpen(r))
      BY DEF MyOpen
    <2>2. FileOpen(r) => ReaderTypeOK'
      BY DEF IInv, TypeOK, ReaderTypeOK, FileOpen
    <2> QED
      BY <2>1, <2>2, FileCallTypeOK DEF IInv
  <1>2. HeldInv'
    BY DEF IInv, HeldInv, MemInv, Resources, MyOpen, TextGone, Fault,
       notFile, FileOpen
  <1>3. MemInv'
    BY DEF IInv, TypeOK, MemInv, HeldInv, MyOpen, TextGone, Fault, notFile,
       FileOpen
  <1>4. WindowInv'
    BY DEF IInv, WindowInv, MemInv, Window, MyOpen, TextGone, Fault,
       notFile, FileOpen
  <1>5. ReaderInv'
    <2>1. life \in {"proc_links", "loaded", "rejected"} /\ mem = "ready"
      BY DEF IInv, TypeOK, Loading, Unloading, HeldInv, MemInv, MyOpen
    <2> QED
      BY <2>1 DEF IInv, TypeOK, ReaderTypeOK, ReaderInv, MyOpen, TextGone,
         Fault, notFile, FileOpen
  <1>6. CountInv'
    BY KeysAssumption DEF IInv, TypeOK, CountInv, MemInv, WindowInv, Queued,
       Bit, MyOpen, TextGone, Fault, notFile, FileOpen
  <1>7. LastKeyInv'
    BY DEF IInv, LastKeyInv, MemInv, WindowInv, InService, Window, MyOpen,
       TextGone, Fault, notFile, FileOpen
  <1>8. FaultNeedsWindow'
    BY DEF IInv, TypeOK, Loading, Unloading, FaultNeedsWindow, HeldInv,
       MemInv, WindowInv, ReaderInv, Window, MyOpen, TextGone, Fault,
       notFile, FileOpen
  <1> QED
    BY <1>1, <1>2, <1>3, <1>4, <1>5, <1>6, <1>7, <1>8 DEF IInv

(* The invariant is kept by my_read. *)
LEMMA MyReadKeeps ==
  ASSUME NEW r \in Readers PROVE IInv /\ MyRead(r) => IInv'
  <1> SUFFICES ASSUME IInv, MyRead(r) PROVE IInv'
    OBVIOUS
  <1>1. TypeOK'
    <2>1. Fault \/ (UNCHANGED notFile /\ FileEnter(r))
      BY DEF MyRead
    <2>2. FileEnter(r) => ReaderTypeOK'
      BY DEF IInv, TypeOK, ReaderTypeOK, FileEnter
    <2> QED
      BY <2>1, <2>2, FileCallTypeOK DEF IInv
  <1>2. HeldInv'
    BY DEF IInv, HeldInv, MemInv, Resources, MyRead, TextGone, Fault,
       notFile, FileEnter
  <1>3. MemInv'
    BY DEF IInv, TypeOK, MemInv, HeldInv, MyRead, TextGone, Fault, notFile,
       FileEnter
  <1>4. WindowInv'
    BY DEF IInv, WindowInv, MemInv, Window, MyRead, TextGone, Fault,
       notFile, FileEnter
  <1>5. ReaderInv'
    BY DEF IInv, TypeOK, ReaderTypeOK, ReaderInv, MemInv, HeldInv, MyRead,
       TextGone, Fault, notFile, FileEnter
  <1>6. CountInv'
    BY KeysAssumption DEF IInv, TypeOK, CountInv, MemInv, WindowInv, Queued,
       Bit, MyRead, TextGone, Fault, notFile, FileEnter
  <1>7. LastKeyInv'
    BY DEF IInv, LastKeyInv, MemInv, WindowInv, InService, Window, MyRead,
       TextGone, Fault, notFile, FileEnter
  <1>8. FaultNeedsWindow'
    BY DEF IInv, TypeOK, Loading, Unloading, FaultNeedsWindow, HeldInv,
       MemInv, WindowInv, ReaderInv, Window, MyRead, TextGone, Fault,
       notFile, FileEnter
  <1> QED
    BY <1>1, <1>2, <1>3, <1>4, <1>5, <1>6, <1>7, <1>8 DEF IInv

(* The invariant is kept by my_show. *)
LEMMA MyShowKeeps ==
  ASSUME NEW r \in Readers PROVE IInv /\ MyShow(r) => IInv'
  <1> SUFFICES ASSUME IInv, MyShow(r) PROVE IInv'
    OBVIOUS
  <1>1. TypeOK'
    <2>1. Fault \/ (UNCHANGED notFile /\ FileLeave(r))
      BY DEF MyShow
    <2>2. FileLeave(r) => ReaderTypeOK'
      BY DEF IInv, TypeOK, ReaderTypeOK, FileLeave
    <2> QED
      BY <2>1, <2>2, FileCallTypeOK DEF IInv
  <1>2. HeldInv'
    BY DEF IInv, HeldInv, MemInv, Resources, MyShow, TextGone, NoTasklet,
       Fault, notFile, FileLeave
  <1>3. MemInv'
    BY DEF IInv, TypeOK, MemInv, HeldInv, MyShow, TextGone, NoTasklet,
       Fault, notFile, FileLeave
  <1>4. WindowInv'
    BY DEF IInv, WindowInv, MemInv, Window, MyShow, TextGone, NoTasklet,
       Fault, notFile, FileLeave
  <1>5. ReaderInv'
    BY DEF IInv, TypeOK, ReaderTypeOK, ReaderInv, MemInv, HeldInv, MyShow,
       TextGone, NoTasklet, Fault, notFile, FileLeave
  <1>6. CountInv'
    BY KeysAssumption DEF IInv, TypeOK, CountInv, MemInv, WindowInv, Queued,
       Bit, MyShow, TextGone, NoTasklet, Fault, notFile, FileLeave
  <1>7. LastKeyInv'
    BY DEF IInv, LastKeyInv, MemInv, WindowInv, InService, Window, MyShow,
       TextGone, NoTasklet, Fault, notFile, FileLeave
  <1>8. FaultNeedsWindow'
    BY DEF IInv, TypeOK, Loading, Unloading, FaultNeedsWindow, HeldInv,
       MemInv, WindowInv, ReaderInv, Window, MyShow, TextGone, NoTasklet,
       Fault, notFile, FileLeave
  <1> QED
    BY <1>1, <1>2, <1>3, <1>4, <1>5, <1>6, <1>7, <1>8 DEF IInv

(* The invariant is kept by my_release. *)
LEMMA MyReleaseKeeps ==
  ASSUME NEW r \in Readers PROVE IInv /\ MyRelease(r) => IInv'
  <1> SUFFICES ASSUME IInv, MyRelease(r) PROVE IInv'
    OBVIOUS
  <1>1. TypeOK'
    <2>1. Fault \/ (UNCHANGED notFile /\ FileRelease(r))
      BY DEF MyRelease
    <2>2. FileRelease(r) => ReaderTypeOK'
      BY DEF IInv, TypeOK, ReaderTypeOK, FileRelease
    <2> QED
      BY <2>1, <2>2, FileCallTypeOK DEF IInv
  <1>2. HeldInv'
    BY DEF IInv, HeldInv, MemInv, Resources, MyRelease, TextGone, Fault,
       notFile, FileRelease
  <1>3. MemInv'
    BY DEF IInv, TypeOK, MemInv, HeldInv, MyRelease, TextGone, Fault,
       notFile, FileRelease
  <1>4. WindowInv'
    BY DEF IInv, WindowInv, MemInv, Window, MyRelease, TextGone, Fault,
       notFile, FileRelease
  <1>5. ReaderInv'
    BY DEF IInv, TypeOK, ReaderTypeOK, ReaderInv, MemInv, HeldInv,
       MyRelease, TextGone, Fault, notFile, FileRelease
  <1>6. CountInv'
    BY KeysAssumption DEF IInv, TypeOK, CountInv, MemInv, WindowInv, Queued,
       Bit, MyRelease, TextGone, Fault, notFile, FileRelease
  <1>7. LastKeyInv'
    BY DEF IInv, LastKeyInv, MemInv, WindowInv, InService, Window,
       MyRelease, TextGone, Fault, notFile, FileRelease
  <1>8. FaultNeedsWindow'
    BY DEF IInv, TypeOK, Loading, Unloading, FaultNeedsWindow, HeldInv,
       MemInv, WindowInv, ReaderInv, Window, MyRelease, TextGone, Fault,
       notFile, FileRelease
  <1> QED
    BY <1>1, <1>2, <1>3, <1>4, <1>5, <1>6, <1>7, <1>8 DEF IInv

(* IInv is an invariant of the module, its interrupts and its readers. *)
THEOREM TaskletInvariant == Spec => []IInv
<1>1. IInv /\ [Next]_vars => IInv'
  <2> SUFFICES ASSUME IInv, [Next]_vars PROVE IInv'
    OBVIOUS
  <2>1. CASE UNCHANGED vars
    BY <2>1 DEF IInv, TypeOK, ReaderTypeOK, HeldInv, MemInv, WindowInv,
       ReaderInv, CountInv, LastKeyInv, Queued, FaultNeedsWindow
  <2>2. CASE Next
    <3>1. CASE MyInit
      BY <3>1, RequestIrqKeeps, KmallocKeeps, TaskletInitKeeps,
         VmallocKeeps, ProcCreateKeeps, ProcLinksKeeps DEF MyInit
    <3>2. CASE MyExit
      BY <3>2, ProcRemoveKeeps, KillSchedKeeps, KillWaitKeeps,
         KfreeKeeps, FreeIrqKeeps DEF MyExit
    <3>3. CASE MyIrqHandler
      BY <3>3, IrqEnterKeeps, IrqDataKeeps, IrqScheduleKeeps,
         IrqLeaveKeeps DEF MyIrqHandler
    <3>4. CASE Softirq
      BY <3>4, TaskletStartKeeps, MyTaskletFunKeeps, TaskletEndKeeps
         DEF Softirq
    <3>5. CASE ProcCalls
      BY <3>5, MyOpenKeeps, MyReadKeeps, MyShowKeeps, MyReleaseKeeps
         DEF ProcCalls
    <3> QED
      BY <2>2, <3>1, <3>2, <3>3, <3>4, <3>5 DEF Next
  <2> QED
    BY <2>1, <2>2
<1> QED
  BY InitHolds, <1>1, PTL DEF Spec

(* A fault needs a handler that ran in one of the two windows of my_init    *)
(* and my_exit, or a failed my_init.                                        *)
THEOREM FaultsExplained == Spec => []FaultNeedsWindow
<1>1. IInv => FaultNeedsWindow
  BY DEF IInv
<1> QED
  BY TaskletInvariant, <1>1, PTL

(* my_exit leaves nothing behind but the buffer. *)
THEOREM UnloadIsClean == Spec => []GoneLeavesOnlyBuffer
<1>1. IInv => GoneLeavesOnlyBuffer
  BY DEF IInv, TypeOK, ReaderTypeOK, HeldInv, MemInv, WindowInv, ReaderInv,
     GoneLeavesOnlyBuffer, NobodyReads
<1> QED
  BY TaskletInvariant, <1>1, PTL

(* my_show finds an initialised tasklet. *)
THEOREM ShowIsSafe == Spec => []ShowSeesTasklet
<1>1. IInv => ShowSeesTasklet
  BY DEF IInv, ReaderInv, ShowSeesTasklet
<1> QED
  BY TaskletInvariant, <1>1, PTL

(* A failed my_init leaves nothing, or the handler and its tasklet. *)
THEOREM FailedLoad == Spec => []RejectedKeepsIrqOrNothing
<1>1. IInv => RejectedKeepsIrqOrNothing
  BY DEF IInv, HeldInv, MemInv, RejectedKeepsIrqOrNothing
<1> QED
  BY TaskletInvariant, <1>1, PTL

(* While the module is in service, the last key is never lost. *)
THEOREM LastKeyKept == Spec => []LastKeyNotLost
<1>1. IInv => LastKeyNotLost
  BY DEF IInv, LastKeyInv, LastKeyNotLost
<1> QED
  BY TaskletInvariant, <1>1, PTL

(* No scan code is handed to my_tasklet_fun more than three times. *)
THEOREM ThreeCallsAtMost == Spec => []AtMostThrice
<1>1. IInv => AtMostThrice
  BY DEF IInv, CountInv, AtMostThrice
<1> QED
  BY TaskletInvariant, <1>1, PTL

-----------------------------------------------------------------------------
(* mywq.c: the inductive invariant *)

(* what mywq_init and mywq_exit hold at each of their statements            *)
WqHeldInv ==
    /\ wqLife = "request_irq" => wqHeld = {}
    /\ wqLife = "wq1" => wqHeld = {"irq"}
    /\ wqLife = "wq2" => wqHeld = {"irq", "mywq1"}
    /\ wqLife = "kmalloc1" => wqHeld = {"irq"} \cup Wq!Queues
    /\ wqLife \in {"init1", "kmalloc2"} => wqHeld = {"irq", "work_1"} \cup Wq!Queues
    /\ wqLife \in {"init2", "proc_create", "flush1", "flush2", "destroy1", "drain1"} =>
          wqHeld = {"irq"} \cup Wq!Queues \cup Wq!WorkMem
    /\ wqLife = "proc_links" => wqHeld = {"irq", "file"} \cup Wq!Queues \cup Wq!WorkMem
    /\ wqLife = "loaded" => wqHeld = Wq!Resources
    /\ wqLife \in {"destroy2", "drain2"} => wqHeld = {"irq", "mywq2"} \cup Wq!WorkMem
    /\ wqLife = "free_irq" => wqHeld = {"irq"} \cup Wq!WorkMem
    /\ wqLife = "kfree" => wqHeld = Wq!WorkMem
    /\ wqLife = "gone" => wqHeld = {}
    /\ wqLife = "rejected" =>
          \/ /\ wqHeld \in {{}, {"mywq1"}, Wq!Queues}
             /\ wqIsr = "idle" /\ \A w \in Wq!Works : Wq!QueueIdle(w)
          \/ ({"irq"} \cup Wq!Queues \cup Wq!WorkMem) \subseteq wqHeld

(* what the pointers to the works point to                                  *)
WqMemInv ==
    /\ wqLife \in {"request_irq", "wq1", "wq2", "kmalloc1"} => wqMem[1] = "null"
    /\ wqLife = "init1" => wqMem[1] = "raw"
    /\ wqLife \in {"kmalloc2", "init2", "proc_create", "proc_links", "loaded"} \cup Wq!Unloading =>
          wqMem[1] = "ready"
    /\ wqLife \in {"request_irq", "wq1", "wq2", "kmalloc1", "init1", "kmalloc2"} =>
          wqMem[2] = "null"
    /\ wqLife = "init2" => wqMem[2] = "raw"
    /\ wqLife \in {"proc_create", "proc_links", "loaded"} \cup Wq!Unloading => wqMem[2] = "ready"

(* the queues at each statement                                             *)
WqQueueInv ==
    /\ wqLife \in {"wq2", "kmalloc1", "init1", "kmalloc2", "init2", "proc_create",
          "proc_links", "loaded", "flush1", "flush2", "destroy1"} => wq[1] = "alive"
    /\ wqLife = "drain1" => wq[1] = "draining"
    /\ wqLife \in {"destroy2", "drain2", "free_irq", "kfree", "gone"} => wq[1] = "destroyed"
    /\ wqLife \in {"kmalloc1", "init1", "kmalloc2", "init2", "proc_create", "proc_links",
          "loaded", "flush1", "flush2", "destroy1", "drain1", "destroy2"} => wq[2] = "alive"
    /\ wqLife = "drain2" => wq[2] = "draining"
    /\ wqLife \in {"free_irq", "kfree", "gone"} => wq[2] = "destroyed"

(* No work is queued before kmalloc of work_2, because the handler stores   *)
(* both codes first; a destroyed queue is idle, and only a draining one     *)
(* drops works.                                                             *)
WqWorkInv ==
    /\ wqMem[2] = "null" =>
          /\ wqIsr \notin {"queue1", "queue2"}
          /\ \A w \in Wq!Works : queued[w] = "no" /\ w \notin active
    /\ \A w \in Wq!Works :
          /\ wq[w] = "destroyed" => Wq!QueueIdle(w)
          /\ wq[w] = "alive" => queued[w] # "dropped"

(* where no handler is active, and where one is in a window                 *)
WqIsrInv ==
    /\ wqLife \in {"request_irq", "kfree", "gone"} => wqIsr = "idle"
    /\ wqIsr # "idle" /\ wqLife \in Wq!Window => wqInWindow

(* the file is open only while it exists                                    *)
WqReaderInv ==
    \A r \in Readers :
        wqReader[r] # "closed" => wqLife \in {"proc_links", "loaded", "rejected"}

(* the handler is about to store the code of w, or to queue w after it      *)
ToStore == [w \in Wq!Works |-> IF w = 1 THEN {"store1"} ELSE {"store1", "store2"}]
ToQueue == [w \in Wq!Works |-> IF w = 1 THEN {"store2", "queue1"} ELSE {"queue1", "queue2"}]

(* prints of the current code that are made or certain to come              *)
WqCountInv ==
    \A w \in Wq!Works :
       /\ wqShown[w] <= code[w] /\ code[w] <= wqKeys
       /\ wqIsr \in ToStore[w] => code[w] < wqKeys
       /\ wqTimes[w] <= 3
       /\ wqShown[w] = code[w] =>
             wqTimes[w] + Bit(queued[w] = "yes") + Bit(w \in active)
                + Bit(wqIsr \in ToQueue[w]) <= 3

(* a key that was not printed yet is about to be                            *)
WqLastKeyInv ==
    /\ wqLife \in Wq!Loading \ Wq!InService /\ ~wqInWindow => wqKeys = 0
    /\ wqLife \in Wq!InService /\ ~wqInWindow =>
          \A w \in Wq!Works :
             /\ code[w] = wqKeys \/ wqIsr \in ToStore[w]
             /\ wqShown[w] = code[w] \/ ~Wq!QueueIdle(w) \/ wqIsr \in ToQueue[w]

(* The inductive invariant: what every statement of mywq_init, mywq_exit,   *)
(* the handler and the workers can rely on.                                 *)
WqInv ==
    /\ Wq!TypeOK
    /\ WqHeldInv
    /\ WqMemInv
    /\ WqQueueInv
    /\ WqWorkInv
    /\ WqIsrInv
    /\ WqReaderInv
    /\ WqCountInv
    /\ WqLastKeyInv
    /\ Wq!FaultNeedsWindow

USE DEF Wq!vars, Wq!workVars, Wq!irqVars, Wq!logVars

(* Behind the two destroy_workqueue nothing is queued or executed. *)
LEMMA WqGoneIsIdle ==
  WqInv /\ wqLife \in {"kfree", "gone"} => \A w \in Wq!Works : Wq!QueueIdle(w)
  <1> SUFFICES ASSUME WqInv, wqLife \in {"kfree", "gone"}, NEW w \in Wq!Works
               PROVE  Wq!QueueIdle(w)
    OBVIOUS
  <1>1. wq[w] = "destroyed"
    BY DEF WqInv, WqQueueInv, Wq!Works
  <1> QED
    BY <1>1 DEF WqInv, WqWorkInv, Wq!QueueIdle

(* The state before insmod satisfies the invariant. *)
LEMMA WqInitHolds == Wq!Init => WqInv
  <1> SUFFICES ASSUME Wq!Init PROVE WqInv
    OBVIOUS
  <1>1. Wq!TypeOK
    <2>1. 0 \in 0..MaxKeys /\ 0 \in Nat
      BY KeysAssumption
    <2>2. Wq!ReaderTypeOK
      BY DEF Wq!Init, Wq!ReaderTypeOK, Wq!ReaderInit
    <2> QED
      BY <2>1, <2>2 DEF Wq!Init, Wq!TypeOK, Wq!Loading
  <1>2. WqHeldInv /\ WqMemInv /\ WqQueueInv /\ WqIsrInv /\ Wq!FaultNeedsWindow
    BY DEF Wq!Init, WqHeldInv, WqMemInv, WqQueueInv, WqIsrInv,
       Wq!FaultNeedsWindow, Wq!Works, Wq!Unloading
  <1>3. WqWorkInv
    BY DEF Wq!Init, WqWorkInv, Wq!QueueIdle
  <1>4. WqReaderInv
    BY DEF Wq!Init, Wq!ReaderInit, WqReaderInv
  <1>5. WqCountInv
    BY KeysAssumption DEF Wq!Init, WqCountInv, Bit, ToStore, ToQueue, Wq!Works
  <1>6. WqLastKeyInv
    BY DEF Wq!Init, WqLastKeyInv, Wq!InService
  <1> QED
    BY <1>1, <1>2, <1>3, <1>4, <1>5, <1>6 DEF WqInv


(* The invariant is kept by request_irq. *)
LEMMA WqRequestIrqKeeps == WqInv /\ Wq!RequestIrq => WqInv'
  <1> SUFFICES ASSUME WqInv, Wq!RequestIrq PROVE WqInv'
    OBVIOUS
  <1>1. Wq!TypeOK'
    BY KeysAssumption DEF WqInv, Wq!TypeOK, Wq!Loading, Wq!Unloading,
       Wq!Resources, Wq!Queues, Wq!WorkMem, Wq!Works, Wq!ReaderTypeOK,
       WqWorkInv, Wq!QueueIdle, Wq!RequestIrq, Wq!Reject, Wq!notLife
  <1>2. WqHeldInv'
    BY DEF WqInv, WqHeldInv, Wq!Resources, Wq!Queues, Wq!WorkMem, Wq!Works,
       Wq!TypeOK, WqMemInv, WqWorkInv, WqIsrInv, Wq!QueueIdle, Wq!RequestIrq,
       Wq!Reject, Wq!notLife
  <1>3. WqMemInv'
    BY DEF WqInv, WqMemInv, Wq!Unloading, Wq!Works, Wq!TypeOK, Wq!RequestIrq,
       Wq!Reject, Wq!notLife
  <1>4. WqQueueInv'
    BY DEF WqInv, WqQueueInv, Wq!Works, Wq!TypeOK, Wq!RequestIrq, Wq!Reject,
       Wq!notLife
  <1>5. WqWorkInv'
    BY DEF WqInv, WqWorkInv, Wq!QueueIdle, Wq!Works, Wq!TypeOK, WqMemInv,
       WqQueueInv, Wq!RequestIrq, Wq!Reject, Wq!notLife
  <1>6. WqIsrInv'
    BY DEF WqInv, WqIsrInv, Wq!Window, WqHeldInv, Wq!RequestIrq, Wq!Reject,
       Wq!notLife
  <1>7. WqReaderInv'
    BY DEF WqInv, WqReaderInv, Wq!TypeOK, Wq!ReaderTypeOK, Wq!RequestIrq,
       Wq!Reject, Wq!notLife
  <1>8. WqCountInv'
    BY KeysAssumption DEF WqInv, WqCountInv, Wq!Works, Bit, ToStore, ToQueue,
       Wq!TypeOK, WqWorkInv, Wq!QueueIdle, Wq!RequestIrq, Wq!Reject,
       Wq!notLife
  <1>9. WqLastKeyInv'
    BY KeysAssumption DEF WqInv, WqLastKeyInv, Wq!Loading, Wq!InService,
       Wq!QueueIdle, Wq!Works, ToStore, ToQueue, Wq!Window, Wq!TypeOK,
       WqIsrInv, WqCountInv, WqMemInv, WqQueueInv, WqWorkInv, Wq!RequestIrq,
       Wq!Reject, Wq!notLife
  <1>10. Wq!FaultNeedsWindow'
    BY DEF WqInv, Wq!FaultNeedsWindow, Wq!Running, Wq!RequestIrq, Wq!Reject,
       Wq!notLife
  <1> QED
    BY <1>1, <1>2, <1>3, <1>4, <1>5, <1>6, <1>7, <1>8, <1>9, <1>10 DEF WqInv

(* The invariant is kept by alloc_workqueue of mywq1, or free_irq on failure. *)
LEMMA WqAllocWorkqueue1Keeps == WqInv /\ Wq!AllocWorkqueue(1, "wq1", "mywq1", "wq2") => WqInv'
  <1> SUFFICES ASSUME WqInv, Wq!AllocWorkqueue(1, "wq1", "mywq1", "wq2") PROVE WqInv'
    OBVIOUS
  <1>1. Wq!TypeOK'
    <2>1. wqLife' \in Wq!Loading \cup {"loaded", "rejected", "gone"} \cup Wq!Unloading
      BY DEF WqInv, Wq!TypeOK, Wq!Loading, Wq!Unloading, Wq!AllocWorkqueue,
         Wq!RejectFreeIrq, Wq!Reject, Wq!notLife
    <2>2. wqHeld' \subseteq Wq!Resources
      BY DEF WqInv, Wq!TypeOK, Wq!Resources, Wq!Queues, Wq!WorkMem,
         Wq!AllocWorkqueue, Wq!RejectFreeIrq, Wq!Reject, Wq!notLife
    <2>3. /\ wq' \in [Wq!Works -> {"none", "alive", "draining", "destroyed"}]
          /\ wqMem' \in [Wq!Works -> {"null", "raw", "ready", "freed"}]
          /\ queued' \in [Wq!Works -> {"no", "yes", "dropped"}]
      BY DEF WqInv, Wq!TypeOK, Wq!Works, Wq!AllocWorkqueue, Wq!RejectFreeIrq,
         Wq!Reject, Wq!notLife
    <2>4. \A w \in Wq!Works : (queued[w] = "yes" \/ w \in active)' => wqMem'[w] = "ready"
      BY DEF WqInv, Wq!TypeOK, Wq!Works, WqWorkInv, WqMemInv, Wq!QueueIdle,
         WqQueueInv, Wq!AllocWorkqueue, Wq!RejectFreeIrq, Wq!Reject,
         Wq!notLife
    <2> QED
      BY <2>1, <2>2, <2>3, <2>4 DEF WqInv, Wq!TypeOK, Wq!ReaderTypeOK,
         Wq!AllocWorkqueue, Wq!RejectFreeIrq, Wq!Reject, Wq!notLife
  <1>2. WqHeldInv'
    BY DEF WqInv, WqHeldInv, Wq!Resources, Wq!Queues, Wq!WorkMem, Wq!Works,
       Wq!TypeOK, WqMemInv, WqWorkInv, WqIsrInv, Wq!QueueIdle,
       Wq!AllocWorkqueue, Wq!RejectFreeIrq, Wq!Reject, Wq!notLife
  <1>3. WqMemInv'
    BY DEF WqInv, WqMemInv, Wq!Unloading, Wq!Works, Wq!TypeOK,
       Wq!AllocWorkqueue, Wq!RejectFreeIrq, Wq!Reject, Wq!notLife
  <1>4. WqQueueInv'
    BY DEF WqInv, WqQueueInv, Wq!Works, Wq!TypeOK, Wq!AllocWorkqueue,
       Wq!RejectFreeIrq, Wq!Reject, Wq!notLife
  <1>5. WqWorkInv'
    BY DEF WqInv, WqWorkInv, Wq!QueueIdle, Wq!Works, Wq!TypeOK, WqMemInv,
       WqQueueInv, Wq!AllocWorkqueue, Wq!RejectFreeIrq, Wq!Reject, Wq!notLife
  <1>6. WqIsrInv'
    BY DEF WqInv, WqIsrInv, Wq!Window, WqHeldInv, Wq!AllocWorkqueue,
       Wq!RejectFreeIrq, Wq!Reject, Wq!notLife
  <1>7. WqReaderInv'
    BY DEF WqInv, WqReaderInv, Wq!TypeOK, Wq!ReaderTypeOK, Wq!AllocWorkqueue,
       Wq!RejectFreeIrq, Wq!Reject, Wq!notLife
  <1>8. WqCountInv'
    BY KeysAssumption DEF WqInv, WqCountInv, Wq!Works, Bit, ToStore, ToQueue,
       Wq!TypeOK, WqWorkInv, Wq!QueueIdle, Wq!AllocWorkqueue,
       Wq!RejectFreeIrq, Wq!Reject, Wq!notLife
  <1>9. WqLastKeyInv'
    BY KeysAssumption DEF WqInv, WqLastKeyInv, Wq!Loading, Wq!InService,
       Wq!QueueIdle, Wq!Works, ToStore, ToQueue, Wq!Window, Wq!TypeOK,
       WqIsrInv, WqCountInv, WqMemInv, WqQueueInv, WqWorkInv,
       Wq!AllocWorkqueue, Wq!RejectFreeIrq, Wq!Reject, Wq!notLife
  <1>10. Wq!FaultNeedsWindow'
    BY DEF WqInv, Wq!FaultNeedsWindow, Wq!Running, Wq!AllocWorkqueue,
       Wq!RejectFreeIrq, Wq!Reject, Wq!notLife
  <1> QED
    BY <1>1, <1>2, <1>3, <1>4, <1>5, <1>6, <1>7, <1>8, <1>9, <1>10 DEF WqInv

(* The same for mywq2. *)
LEMMA WqAllocWorkqueue2Keeps == 
  WqInv /\ Wq!AllocWorkqueue(2, "wq2", "mywq2", "kmalloc1") => WqInv'
  <1> SUFFICES ASSUME WqInv, Wq!AllocWorkqueue(2, "wq2", "mywq2", "kmalloc1") PROVE WqInv'
    OBVIOUS
  <1>1. Wq!TypeOK'
    <2>1. wqLife' \in Wq!Loading \cup {"loaded", "rejected", "gone"} \cup Wq!Unloading
      BY DEF WqInv, Wq!TypeOK, Wq!Loading, Wq!Unloading, Wq!AllocWorkqueue,
         Wq!RejectFreeIrq, Wq!Reject, Wq!notLife
    <2>2. wqHeld' \subseteq Wq!Resources
      BY DEF WqInv, Wq!TypeOK, Wq!Resources, Wq!Queues, Wq!WorkMem,
         Wq!AllocWorkqueue, Wq!RejectFreeIrq, Wq!Reject, Wq!notLife
    <2>3. /\ wq' \in [Wq!Works -> {"none", "alive", "draining", "destroyed"}]
          /\ wqMem' \in [Wq!Works -> {"null", "raw", "ready", "freed"}]
          /\ queued' \in [Wq!Works -> {"no", "yes", "dropped"}]
      BY DEF WqInv, Wq!TypeOK, Wq!Works, Wq!AllocWorkqueue, Wq!RejectFreeIrq,
         Wq!Reject, Wq!notLife
    <2>4. \A w \in Wq!Works : (queued[w] = "yes" \/ w \in active)' => wqMem'[w] = "ready"
      BY DEF WqInv, Wq!TypeOK, Wq!Works, WqWorkInv, WqMemInv, Wq!QueueIdle,
         WqQueueInv, Wq!AllocWorkqueue, Wq!RejectFreeIrq, Wq!Reject,
         Wq!notLife
    <2> QED
      BY <2>1, <2>2, <2>3, <2>4 DEF WqInv, Wq!TypeOK, Wq!ReaderTypeOK,
         Wq!AllocWorkqueue, Wq!RejectFreeIrq, Wq!Reject, Wq!notLife
  <1>2. WqHeldInv'
    BY DEF WqInv, WqHeldInv, Wq!Resources, Wq!Queues, Wq!WorkMem, Wq!Works,
       Wq!TypeOK, WqMemInv, WqWorkInv, WqIsrInv, Wq!QueueIdle,
       Wq!AllocWorkqueue, Wq!RejectFreeIrq, Wq!Reject, Wq!notLife
  <1>3. WqMemInv'
    BY DEF WqInv, WqMemInv, Wq!Unloading, Wq!Works, Wq!TypeOK,
       Wq!AllocWorkqueue, Wq!RejectFreeIrq, Wq!Reject, Wq!notLife
  <1>4. WqQueueInv'
    BY DEF WqInv, WqQueueInv, Wq!Works, Wq!TypeOK, Wq!AllocWorkqueue,
       Wq!RejectFreeIrq, Wq!Reject, Wq!notLife
  <1>5. WqWorkInv'
    BY DEF WqInv, WqWorkInv, Wq!QueueIdle, Wq!Works, Wq!TypeOK, WqMemInv,
       WqQueueInv, Wq!AllocWorkqueue, Wq!RejectFreeIrq, Wq!Reject, Wq!notLife
  <1>6. WqIsrInv'
    BY DEF WqInv, WqIsrInv, Wq!Window, WqHeldInv, Wq!AllocWorkqueue,
       Wq!RejectFreeIrq, Wq!Reject, Wq!notLife
  <1>7. WqReaderInv'
    BY DEF WqInv, WqReaderInv, Wq!TypeOK, Wq!ReaderTypeOK, Wq!AllocWorkqueue,
       Wq!RejectFreeIrq, Wq!Reject, Wq!notLife
  <1>8. WqCountInv'
    BY KeysAssumption DEF WqInv, WqCountInv, Wq!Works, Bit, ToStore, ToQueue,
       Wq!TypeOK, WqWorkInv, Wq!QueueIdle, Wq!AllocWorkqueue,
       Wq!RejectFreeIrq, Wq!Reject, Wq!notLife
  <1>9. WqLastKeyInv'
    BY KeysAssumption DEF WqInv, WqLastKeyInv, Wq!Loading, Wq!InService,
       Wq!QueueIdle, Wq!Works, ToStore, ToQueue, Wq!Window, Wq!TypeOK,
       WqIsrInv, WqCountInv, WqMemInv, WqQueueInv, WqWorkInv,
       Wq!AllocWorkqueue, Wq!RejectFreeIrq, Wq!Reject, Wq!notLife
  <1>10. Wq!FaultNeedsWindow'
    BY DEF WqInv, Wq!FaultNeedsWindow, Wq!Running, Wq!AllocWorkqueue,
       Wq!RejectFreeIrq, Wq!Reject, Wq!notLife
  <1> QED
    BY <1>1, <1>2, <1>3, <1>4, <1>5, <1>6, <1>7, <1>8, <1>9, <1>10 DEF WqInv

(* The invariant is kept by kmalloc of work_1. *)
LEMMA WqKmalloc1Keeps == WqInv /\ Wq!Kmalloc1 => WqInv'
  <1> SUFFICES ASSUME WqInv, Wq!Kmalloc1 PROVE WqInv'
    OBVIOUS
  <1>1. Wq!TypeOK'
    <2>1. wqLife' \in Wq!Loading \cup {"loaded", "rejected", "gone"} \cup Wq!Unloading
      BY DEF WqInv, Wq!TypeOK, Wq!Loading, Wq!Unloading, Wq!Kmalloc1,
         Wq!RejectFreeIrq, Wq!Reject, Wq!notLife
    <2>2. wqHeld' \subseteq Wq!Resources
      BY DEF WqInv, Wq!TypeOK, Wq!Resources, Wq!Queues, Wq!WorkMem,
         Wq!Kmalloc1, Wq!RejectFreeIrq, Wq!Reject, Wq!notLife
    <2>3. /\ wq' \in [Wq!Works -> {"none", "alive", "draining", "destroyed"}]
          /\ wqMem' \in [Wq!Works -> {"null", "raw", "ready", "freed"}]
          /\ queued' \in [Wq!Works -> {"no", "yes", "dropped"}]
      BY DEF WqInv, Wq!TypeOK, Wq!Works, Wq!Kmalloc1, Wq!RejectFreeIrq,
         Wq!Reject, Wq!notLife
    <2>4. \A w \in Wq!Works : (queued[w] = "yes" \/ w \in active)' => wqMem'[w] = "ready"
      BY DEF WqInv, Wq!TypeOK, Wq!Works, WqWorkInv, WqMemInv, Wq!QueueIdle,
         WqQueueInv, Wq!Kmalloc1, Wq!RejectFreeIrq, Wq!Reject, Wq!notLife
    <2> QED
      BY <2>1, <2>2, <2>3, <2>4 DEF WqInv, Wq!TypeOK, Wq!ReaderTypeOK,
         Wq!Kmalloc1, Wq!RejectFreeIrq, Wq!Reject, Wq!notLife
  <1>2. WqHeldInv'
    BY DEF WqInv, WqHeldInv, Wq!Resources, Wq!Queues, Wq!WorkMem, Wq!Works,
       Wq!TypeOK, WqMemInv, WqWorkInv, WqIsrInv, Wq!QueueIdle, Wq!Kmalloc1,
       Wq!RejectFreeIrq, Wq!Reject, Wq!notLife
  <1>3. WqMemInv'
    BY DEF WqInv, WqMemInv, Wq!Unloading, Wq!Works, Wq!TypeOK, Wq!Kmalloc1,
       Wq!RejectFreeIrq, Wq!Reject, Wq!notLife
  <1>4. WqQueueInv'
    BY DEF WqInv, WqQueueInv, Wq!Works, Wq!TypeOK, Wq!Kmalloc1,
       Wq!RejectFreeIrq, Wq!Reject, Wq!notLife
  <1>5. WqWorkInv'
    BY DEF WqInv, WqWorkInv, Wq!QueueIdle, Wq!Works, Wq!TypeOK, WqMemInv,
       WqQueueInv, Wq!Kmalloc1, Wq!RejectFreeIrq, Wq!Reject, Wq!notLife
  <1>6. WqIsrInv'
    BY DEF WqInv, WqIsrInv, Wq!Window, WqHeldInv, Wq!Kmalloc1,
       Wq!RejectFreeIrq, Wq!Reject, Wq!notLife
  <1>7. WqReaderInv'
    BY DEF WqInv, WqReaderInv, Wq!TypeOK, Wq!ReaderTypeOK, Wq!Kmalloc1,
       Wq!RejectFreeIrq, Wq!Reject, Wq!notLife
  <1>8. WqCountInv'
    BY KeysAssumption DEF WqInv, WqCountInv, Wq!Works, Bit, ToStore, ToQueue,
       Wq!TypeOK, WqWorkInv, Wq!QueueIdle, Wq!Kmalloc1, Wq!RejectFreeIrq,
       Wq!Reject, Wq!notLife
  <1>9. WqLastKeyInv'
    BY KeysAssumption DEF WqInv, WqLastKeyInv, Wq!Loading, Wq!InService,
       Wq!QueueIdle, Wq!Works, ToStore, ToQueue, Wq!Window, Wq!TypeOK,
       WqIsrInv, WqCountInv, WqMemInv, WqQueueInv, WqWorkInv, Wq!Kmalloc1,
       Wq!RejectFreeIrq, Wq!Reject, Wq!notLife
  <1>10. Wq!FaultNeedsWindow'
    BY DEF WqInv, Wq!FaultNeedsWindow, Wq!Running, Wq!Kmalloc1,
       Wq!RejectFreeIrq, Wq!Reject, Wq!notLife
  <1> QED
    BY <1>1, <1>2, <1>3, <1>4, <1>5, <1>6, <1>7, <1>8, <1>9, <1>10 DEF WqInv

(* The invariant is kept by INIT_WORK of work_1. *)
LEMMA WqInitWork1Keeps == WqInv /\ Wq!InitWork(1, "init1", "kmalloc2") => WqInv'
  <1> SUFFICES ASSUME WqInv, Wq!InitWork(1, "init1", "kmalloc2") PROVE WqInv'
    OBVIOUS
  <1>1. Wq!TypeOK'
    BY KeysAssumption DEF WqInv, Wq!TypeOK, Wq!Loading, Wq!Unloading,
       Wq!Resources, Wq!Queues, Wq!WorkMem, Wq!Works, Wq!ReaderTypeOK,
       WqWorkInv, Wq!QueueIdle, Wq!InitWork
  <1>2. WqHeldInv'
    BY DEF WqInv, WqHeldInv, Wq!Resources, Wq!Queues, Wq!WorkMem, Wq!Works,
       Wq!TypeOK, WqMemInv, WqWorkInv, WqIsrInv, Wq!QueueIdle, Wq!InitWork
  <1>3. WqMemInv'
    BY DEF WqInv, WqMemInv, Wq!Unloading, Wq!Works, Wq!TypeOK, Wq!InitWork
  <1>4. WqQueueInv'
    BY DEF WqInv, WqQueueInv, Wq!Works, Wq!TypeOK, Wq!InitWork
  <1>5. WqWorkInv'
    BY DEF WqInv, WqWorkInv, Wq!QueueIdle, Wq!Works, Wq!TypeOK, WqMemInv,
       WqQueueInv, Wq!InitWork
  <1>6. WqIsrInv'
    BY DEF WqInv, WqIsrInv, Wq!Window, WqHeldInv, Wq!InitWork
  <1>7. WqReaderInv'
    BY DEF WqInv, WqReaderInv, Wq!TypeOK, Wq!ReaderTypeOK, Wq!InitWork
  <1>8. WqCountInv'
    BY KeysAssumption DEF WqInv, WqCountInv, Wq!Works, Bit, ToStore, ToQueue,
       Wq!TypeOK, WqWorkInv, Wq!QueueIdle, Wq!InitWork
  <1>9. WqLastKeyInv'
    BY KeysAssumption DEF WqInv, WqLastKeyInv, Wq!Loading, Wq!InService,
       Wq!QueueIdle, Wq!Works, ToStore, ToQueue, Wq!Window, Wq!TypeOK,
       WqIsrInv, WqCountInv, WqMemInv, WqQueueInv, WqWorkInv, Wq!InitWork
  <1>10. Wq!FaultNeedsWindow'
    BY DEF WqInv, Wq!FaultNeedsWindow, Wq!Running, Wq!InitWork
  <1> QED
    BY <1>1, <1>2, <1>3, <1>4, <1>5, <1>6, <1>7, <1>8, <1>9, <1>10 DEF WqInv

(* The invariant is kept by kmalloc of work_2; on failure no work is queued yet. *)
LEMMA WqKmalloc2Keeps == WqInv /\ Wq!Kmalloc2 => WqInv'
  <1> SUFFICES ASSUME WqInv, Wq!Kmalloc2 PROVE WqInv'
    OBVIOUS
  <1>1. Wq!TypeOK'
    <2>1. wqLife' \in Wq!Loading \cup {"loaded", "rejected", "gone"} \cup Wq!Unloading
      BY DEF WqInv, Wq!TypeOK, Wq!Loading, Wq!Unloading, Wq!Kmalloc2,
         Wq!RejectFreeIrq, Wq!Reject, Wq!notLife
    <2>2. wqHeld' \subseteq Wq!Resources
      BY DEF WqInv, WqHeldInv, Wq!Resources, Wq!Queues, Wq!WorkMem,
         Wq!Kmalloc2, Wq!RejectFreeIrq, Wq!Reject, Wq!notLife
    <2>3. /\ wq' \in [Wq!Works -> {"none", "alive", "draining", "destroyed"}]
          /\ wqMem' \in [Wq!Works -> {"null", "raw", "ready", "freed"}]
          /\ queued' \in [Wq!Works -> {"no", "yes", "dropped"}]
      BY DEF WqInv, Wq!TypeOK, Wq!Works, Wq!Kmalloc2, Wq!RejectFreeIrq,
         Wq!Reject, Wq!notLife
    <2>4. \A w \in Wq!Works : (queued[w] = "yes" \/ w \in active)' => wqMem'[w] = "ready"
      BY DEF WqInv, Wq!TypeOK, Wq!Works, WqWorkInv, WqMemInv, Wq!QueueIdle,
         WqQueueInv, Wq!Kmalloc2, Wq!RejectFreeIrq, Wq!Reject, Wq!notLife
    <2> QED
      BY <2>1, <2>2, <2>3, <2>4 DEF WqInv, Wq!TypeOK, Wq!ReaderTypeOK,
         Wq!Kmalloc2, Wq!RejectFreeIrq, Wq!Reject, Wq!notLife
  <1>2. WqHeldInv'
    BY DEF WqInv, WqHeldInv, Wq!Resources, Wq!Queues, Wq!WorkMem, Wq!Works,
       Wq!TypeOK, WqMemInv, WqWorkInv, WqIsrInv, Wq!QueueIdle, Wq!Kmalloc2,
       Wq!RejectFreeIrq, Wq!Reject, Wq!notLife
  <1>3. WqMemInv'
    BY DEF WqInv, WqMemInv, Wq!Unloading, Wq!Works, Wq!TypeOK, Wq!Kmalloc2,
       Wq!RejectFreeIrq, Wq!Reject, Wq!notLife
  <1>4. WqQueueInv'
    BY DEF WqInv, WqQueueInv, Wq!Works, Wq!TypeOK, Wq!Kmalloc2,
       Wq!RejectFreeIrq, Wq!Reject, Wq!notLife
  <1>5. WqWorkInv'
    BY DEF WqInv, WqWorkInv, Wq!QueueIdle, Wq!Works, Wq!TypeOK, WqMemInv,
       WqQueueInv, Wq!Kmalloc2, Wq!RejectFreeIrq, Wq!Reject, Wq!notLife
  <1>6. WqIsrInv'
    BY DEF WqInv, WqIsrInv, Wq!Window, WqHeldInv, Wq!Kmalloc2,
       Wq!RejectFreeIrq, Wq!Reject, Wq!notLife
  <1>7. WqReaderInv'
    BY DEF WqInv, WqReaderInv, Wq!TypeOK, Wq!ReaderTypeOK, Wq!Kmalloc2,
       Wq!RejectFreeIrq, Wq!Reject, Wq!notLife
  <1>8. WqCountInv'
    BY KeysAssumption DEF WqInv, WqCountInv, Wq!Works, Bit, ToStore, ToQueue,
       Wq!TypeOK, WqWorkInv, Wq!QueueIdle, Wq!Kmalloc2, Wq!RejectFreeIrq,
       Wq!Reject, Wq!notLife
  <1>9. WqLastKeyInv'
    BY KeysAssumption DEF WqInv, WqLastKeyInv, Wq!Loading, Wq!InService,
       Wq!QueueIdle, Wq!Works, ToStore, ToQueue, Wq!Window, Wq!TypeOK,
       WqIsrInv, WqCountInv, WqMemInv, WqQueueInv, WqWorkInv, Wq!Kmalloc2,
       Wq!RejectFreeIrq, Wq!Reject, Wq!notLife
  <1>10. Wq!FaultNeedsWindow'
    BY DEF WqInv, Wq!FaultNeedsWindow, Wq!Running, Wq!Kmalloc2,
       Wq!RejectFreeIrq, Wq!Reject, Wq!notLife
  <1> QED
    BY <1>1, <1>2, <1>3, <1>4, <1>5, <1>6, <1>7, <1>8, <1>9, <1>10 DEF WqInv

(* The invariant is kept by INIT_WORK of work_2. *)
LEMMA WqInitWork2Keeps == WqInv /\ Wq!InitWork(2, "init2", "proc_create") => WqInv'
  <1> SUFFICES ASSUME WqInv, Wq!InitWork(2, "init2", "proc_create") PROVE WqInv'
    OBVIOUS
  <1>1. Wq!TypeOK'
    BY KeysAssumption DEF WqInv, Wq!TypeOK, Wq!Loading, Wq!Unloading,
       Wq!Resources, Wq!Queues, Wq!WorkMem, Wq!Works, Wq!ReaderTypeOK,
       WqWorkInv, Wq!QueueIdle, Wq!InitWork
  <1>2. WqHeldInv'
    BY DEF WqInv, WqHeldInv, Wq!Resources, Wq!Queues, Wq!WorkMem, Wq!Works,
       Wq!TypeOK, WqMemInv, WqWorkInv, WqIsrInv, Wq!QueueIdle, Wq!InitWork
  <1>3. WqMemInv'
    BY DEF WqInv, WqMemInv, Wq!Unloading, Wq!Works, Wq!TypeOK, Wq!InitWork
  <1>4. WqQueueInv'
    BY DEF WqInv, WqQueueInv, Wq!Works, Wq!TypeOK, Wq!InitWork
  <1>5. WqWorkInv'
    BY DEF WqInv, WqWorkInv, Wq!QueueIdle, Wq!Works, Wq!TypeOK, WqMemInv,
       WqQueueInv, Wq!InitWork
  <1>6. WqIsrInv'
    BY DEF WqInv, WqIsrInv, Wq!Window, WqHeldInv, Wq!InitWork
  <1>7. WqReaderInv'
    BY DEF WqInv, WqReaderInv, Wq!TypeOK, Wq!ReaderTypeOK, Wq!InitWork
  <1>8. WqCountInv'
    BY KeysAssumption DEF WqInv, WqCountInv, Wq!Works, Bit, ToStore, ToQueue,
       Wq!TypeOK, WqWorkInv, Wq!QueueIdle, Wq!InitWork
  <1>9. WqLastKeyInv'
    BY KeysAssumption DEF WqInv, WqLastKeyInv, Wq!Loading, Wq!InService,
       Wq!QueueIdle, Wq!Works, ToStore, ToQueue, Wq!Window, Wq!TypeOK,
       WqIsrInv, WqCountInv, WqMemInv, WqQueueInv, WqWorkInv, Wq!InitWork
  <1>10. Wq!FaultNeedsWindow'
    BY DEF WqInv, Wq!FaultNeedsWindow, Wq!Running, Wq!InitWork
  <1> QED
    BY <1>1, <1>2, <1>3, <1>4, <1>5, <1>6, <1>7, <1>8, <1>9, <1>10 DEF WqInv

(* The invariant is kept by proc_create. *)
LEMMA WqProcCreateKeeps == WqInv /\ Wq!ProcCreate => WqInv'
  <1> SUFFICES ASSUME WqInv, Wq!ProcCreate PROVE WqInv'
    OBVIOUS
  <1>1. Wq!TypeOK'
    BY KeysAssumption DEF WqInv, Wq!TypeOK, Wq!Loading, Wq!Unloading,
       Wq!Resources, Wq!Queues, Wq!WorkMem, Wq!Works, Wq!ReaderTypeOK,
       WqWorkInv, Wq!QueueIdle, Wq!ProcCreate, Wq!Reject, Wq!notLife
  <1>2. WqHeldInv'
    BY DEF WqInv, WqHeldInv, Wq!Resources, Wq!Queues, Wq!WorkMem, Wq!Works,
       Wq!TypeOK, WqMemInv, WqWorkInv, WqIsrInv, Wq!QueueIdle, Wq!ProcCreate,
       Wq!Reject, Wq!notLife
  <1>3. WqMemInv'
    BY DEF WqInv, WqMemInv, Wq!Unloading, Wq!Works, Wq!TypeOK, Wq!ProcCreate,
       Wq!Reject, Wq!notLife
  <1>4. WqQueueInv'
    BY DEF WqInv, WqQueueInv, Wq!Works, Wq!TypeOK, Wq!ProcCreate, Wq!Reject,
       Wq!notLife
  <1>5. WqWorkInv'
    BY DEF WqInv, WqWorkInv, Wq!QueueIdle, Wq!Works, Wq!TypeOK, WqMemInv,
       WqQueueInv, Wq!ProcCreate, Wq!Reject, Wq!notLife
  <1>6. WqIsrInv'
    BY DEF WqInv, WqIsrInv, Wq!Window, WqHeldInv, Wq!ProcCreate, Wq!Reject,
       Wq!notLife
  <1>7. WqReaderInv'
    BY DEF WqInv, WqReaderInv, Wq!TypeOK, Wq!ReaderTypeOK, Wq!ProcCreate,
       Wq!Reject, Wq!notLife
  <1>8. WqCountInv'
    BY KeysAssumption DEF WqInv, WqCountInv, Wq!Works, Bit, ToStore, ToQueue,
       Wq!TypeOK, WqWorkInv, Wq!QueueIdle, Wq!ProcCreate, Wq!Reject,
       Wq!notLife
  <1>9. WqLastKeyInv'
    BY KeysAssumption DEF WqInv, WqLastKeyInv, Wq!Loading, Wq!InService,
       Wq!QueueIdle, Wq!Works, ToStore, ToQueue, Wq!Window, Wq!TypeOK,
       WqIsrInv, WqCountInv, WqMemInv, WqQueueInv, WqWorkInv, Wq!ProcCreate,
       Wq!Reject, Wq!notLife
  <1>10. Wq!FaultNeedsWindow'
    BY DEF WqInv, Wq!FaultNeedsWindow, Wq!Running, Wq!ProcCreate, Wq!Reject,
       Wq!notLife
  <1> QED
    BY <1>1, <1>2, <1>3, <1>4, <1>5, <1>6, <1>7, <1>8, <1>9, <1>10 DEF WqInv

(* The invariant is kept by proc_mkdir and proc_symlink. *)
LEMMA WqProcLinksKeeps == WqInv /\ Wq!ProcLinks => WqInv'
  <1> SUFFICES ASSUME WqInv, Wq!ProcLinks PROVE WqInv'
    OBVIOUS
  <1>1. Wq!TypeOK'
    BY KeysAssumption DEF WqInv, Wq!TypeOK, Wq!Loading, Wq!Unloading,
       Wq!Resources, Wq!Queues, Wq!WorkMem, Wq!Works, Wq!ReaderTypeOK,
       WqWorkInv, Wq!QueueIdle, Wq!ProcLinks, Wq!Reject, Wq!notLife
  <1>2. WqHeldInv'
    BY DEF WqInv, WqHeldInv, Wq!Resources, Wq!Queues, Wq!WorkMem, Wq!Works,
       Wq!TypeOK, WqMemInv, WqWorkInv, WqIsrInv, Wq!QueueIdle, Wq!ProcLinks,
       Wq!Reject, Wq!notLife
  <1>3. WqMemInv'
    BY DEF WqInv, WqMemInv, Wq!Unloading, Wq!Works, Wq!TypeOK, Wq!ProcLinks,
       Wq!Reject, Wq!notLife
  <1>4. WqQueueInv'
    BY DEF WqInv, WqQueueInv, Wq!Works, Wq!TypeOK, Wq!ProcLinks, Wq!Reject,
       Wq!notLife
  <1>5. WqWorkInv'
    BY DEF WqInv, WqWorkInv, Wq!QueueIdle, Wq!Works, Wq!TypeOK, WqMemInv,
       WqQueueInv, Wq!ProcLinks, Wq!Reject, Wq!notLife
  <1>6. WqIsrInv'
    BY DEF WqInv, WqIsrInv, Wq!Window, WqHeldInv, Wq!ProcLinks, Wq!Reject,
       Wq!notLife
  <1>7. WqReaderInv'
    BY DEF WqInv, WqReaderInv, Wq!TypeOK, Wq!ReaderTypeOK, Wq!ProcLinks,
       Wq!Reject, Wq!notLife
  <1>8. WqCountInv'
    BY KeysAssumption DEF WqInv, WqCountInv, Wq!Works, Bit, ToStore, ToQueue,
       Wq!TypeOK, WqWorkInv, Wq!QueueIdle, Wq!ProcLinks, Wq!Reject, Wq!notLife
  <1>9. WqLastKeyInv'
    BY KeysAssumption DEF WqInv, WqLastKeyInv, Wq!Loading, Wq!InService,
       Wq!QueueIdle, Wq!Works, ToStore, ToQueue, Wq!Window, Wq!TypeOK,
       WqIsrInv, WqCountInv, WqMemInv, WqQueueInv, WqWorkInv, Wq!ProcLinks,
       Wq!Reject, Wq!notLife
  <1>10. Wq!FaultNeedsWindow'
    BY DEF WqInv, Wq!FaultNeedsWindow, Wq!Running, Wq!ProcLinks, Wq!Reject,
       Wq!notLife
  <1> QED
    BY <1>1, <1>2, <1>3, <1>4, <1>5, <1>6, <1>7, <1>8, <1>9, <1>10 DEF WqInv

(* The invariant is kept by the proc_remove calls of mywq_exit. *)
LEMMA WqProcRemoveKeeps == WqInv /\ Wq!ProcRemove => WqInv'
  <1> SUFFICES ASSUME WqInv, Wq!ProcRemove PROVE WqInv'
    OBVIOUS
  <1>1. Wq!TypeOK'
    BY KeysAssumption DEF WqInv, Wq!TypeOK, Wq!Loading, Wq!Unloading,
       Wq!Resources, Wq!Queues, Wq!WorkMem, Wq!Works, Wq!ReaderTypeOK,
       WqWorkInv, Wq!QueueIdle, Wq!ProcRemove, Wq!Rundown
  <1>2. WqHeldInv'
    BY DEF WqInv, WqHeldInv, Wq!Resources, Wq!Queues, Wq!WorkMem, Wq!Works,
       Wq!TypeOK, WqMemInv, WqWorkInv, WqIsrInv, Wq!QueueIdle, Wq!ProcRemove,
       Wq!Rundown
  <1>3. WqMemInv'
    BY DEF WqInv, WqMemInv, Wq!Unloading, Wq!Works, Wq!TypeOK, Wq!ProcRemove,
       Wq!Rundown
  <1>4. WqQueueInv'
    BY DEF WqInv, WqQueueInv, Wq!Works, Wq!TypeOK, Wq!ProcRemove, Wq!Rundown
  <1>5. WqWorkInv'
    BY DEF WqInv, WqWorkInv, Wq!QueueIdle, Wq!Works, Wq!TypeOK, WqMemInv,
       WqQueueInv, Wq!ProcRemove, Wq!Rundown
  <1>6. WqIsrInv'
    BY DEF WqInv, WqIsrInv, Wq!Window, WqHeldInv, Wq!ProcRemove, Wq!Rundown
  <1>7. WqReaderInv'
    BY DEF WqInv, WqReaderInv, Wq!TypeOK, Wq!ReaderTypeOK, Wq!ProcRemove,
       Wq!Rundown
  <1>8. WqCountInv'
    BY KeysAssumption DEF WqInv, WqCountInv, Wq!Works, Bit, ToStore, ToQueue,
       Wq!TypeOK, WqWorkInv, Wq!QueueIdle, Wq!ProcRemove, Wq!Rundown
  <1>9. WqLastKeyInv'
    BY KeysAssumption DEF WqInv, WqLastKeyInv, Wq!Loading, Wq!InService,
       Wq!QueueIdle, Wq!Works, ToStore, ToQueue, Wq!Window, Wq!TypeOK,
       WqIsrInv, WqCountInv, WqMemInv, WqQueueInv, WqWorkInv, Wq!ProcRemove,
       Wq!Rundown
  <1>10. Wq!FaultNeedsWindow'
    BY DEF WqInv, Wq!FaultNeedsWindow, Wq!Running, Wq!ProcRemove, Wq!Rundown
  <1> QED
    BY <1>1, <1>2, <1>3, <1>4, <1>5, <1>6, <1>7, <1>8, <1>9, <1>10 DEF WqInv

(* The invariant is kept by flush_workqueue of mywq1. *)
LEMMA WqFlush1Keeps == WqInv /\ Wq!FlushWorkqueue(1, "flush1", "flush2") => WqInv'
  <1> SUFFICES ASSUME WqInv, Wq!FlushWorkqueue(1, "flush1", "flush2") PROVE WqInv'
    OBVIOUS
  <1>1. Wq!TypeOK'
    BY KeysAssumption DEF WqInv, Wq!TypeOK, Wq!Loading, Wq!Unloading,
       Wq!Resources, Wq!Queues, Wq!WorkMem, Wq!Works, Wq!ReaderTypeOK,
       WqWorkInv, Wq!QueueIdle, Wq!FlushWorkqueue, Wq!notLife
  <1>2. WqHeldInv'
    BY DEF WqInv, WqHeldInv, Wq!Resources, Wq!Queues, Wq!WorkMem, Wq!Works,
       Wq!TypeOK, WqMemInv, WqWorkInv, WqIsrInv, Wq!QueueIdle,
       Wq!FlushWorkqueue, Wq!notLife
  <1>3. WqMemInv'
    BY DEF WqInv, WqMemInv, Wq!Unloading, Wq!Works, Wq!TypeOK,
       Wq!FlushWorkqueue, Wq!notLife
  <1>4. WqQueueInv'
    BY DEF WqInv, WqQueueInv, Wq!Works, Wq!TypeOK, Wq!FlushWorkqueue,
       Wq!notLife
  <1>5. WqWorkInv'
    BY DEF WqInv, WqWorkInv, Wq!QueueIdle, Wq!Works, Wq!TypeOK, WqMemInv,
       WqQueueInv, Wq!FlushWorkqueue, Wq!notLife
  <1>6. WqIsrInv'
    BY DEF WqInv, WqIsrInv, Wq!Window, WqHeldInv, Wq!FlushWorkqueue,
       Wq!notLife
  <1>7. WqReaderInv'
    BY DEF WqInv, WqReaderInv, Wq!TypeOK, Wq!ReaderTypeOK, Wq!FlushWorkqueue,
       Wq!notLife
  <1>8. WqCountInv'
    BY KeysAssumption DEF WqInv, WqCountInv, Wq!Works, Bit, ToStore, ToQueue,
       Wq!TypeOK, WqWorkInv, Wq!QueueIdle, Wq!FlushWorkqueue, Wq!notLife
  <1>9. WqLastKeyInv'
    BY KeysAssumption DEF WqInv, WqLastKeyInv, Wq!Loading, Wq!InService,
       Wq!QueueIdle, Wq!Works, ToStore, ToQueue, Wq!Window, Wq!TypeOK,
       WqIsrInv, WqCountInv, WqMemInv, WqQueueInv, WqWorkInv,
       Wq!FlushWorkqueue, Wq!notLife
  <1>10. Wq!FaultNeedsWindow'
    BY DEF WqInv, Wq!FaultNeedsWindow, Wq!Running, Wq!FlushWorkqueue,
       Wq!notLife
  <1> QED
    BY <1>1, <1>2, <1>3, <1>4, <1>5, <1>6, <1>7, <1>8, <1>9, <1>10 DEF WqInv

(* The invariant is kept by flush_workqueue of mywq2. *)
LEMMA WqFlush2Keeps == WqInv /\ Wq!FlushWorkqueue(2, "flush2", "destroy1") => WqInv'
  <1> SUFFICES ASSUME WqInv, Wq!FlushWorkqueue(2, "flush2", "destroy1") PROVE WqInv'
    OBVIOUS
  <1>1. Wq!TypeOK'
    BY KeysAssumption DEF WqInv, Wq!TypeOK, Wq!Loading, Wq!Unloading,
       Wq!Resources, Wq!Queues, Wq!WorkMem, Wq!Works, Wq!ReaderTypeOK,
       WqWorkInv, Wq!QueueIdle, Wq!FlushWorkqueue, Wq!notLife
  <1>2. WqHeldInv'
    BY DEF WqInv, WqHeldInv, Wq!Resources, Wq!Queues, Wq!WorkMem, Wq!Works,
       Wq!TypeOK, WqMemInv, WqWorkInv, WqIsrInv, Wq!QueueIdle,
       Wq!FlushWorkqueue, Wq!notLife
  <1>3. WqMemInv'
    BY DEF WqInv, WqMemInv, Wq!Unloading, Wq!Works, Wq!TypeOK,
       Wq!FlushWorkqueue, Wq!notLife
  <1>4. WqQueueInv'
    BY DEF WqInv, WqQueueInv, Wq!Works, Wq!TypeOK, Wq!FlushWorkqueue,
       Wq!notLife
  <1>5. WqWorkInv'
    BY DEF WqInv, WqWorkInv, Wq!QueueIdle, Wq!Works, Wq!TypeOK, WqMemInv,
       WqQueueInv, Wq!FlushWorkqueue, Wq!notLife
  <1>6. WqIsrInv'
    BY DEF WqInv, WqIsrInv, Wq!Window, WqHeldInv, Wq!FlushWorkqueue,
       Wq!notLife
  <1>7. WqReaderInv'
    BY DEF WqInv, WqReaderInv, Wq!TypeOK, Wq!ReaderTypeOK, Wq!FlushWorkqueue,
       Wq!notLife
  <1>8. WqCountInv'
    BY KeysAssumption DEF WqInv, WqCountInv, Wq!Works, Bit, ToStore, ToQueue,
       Wq!TypeOK, WqWorkInv, Wq!QueueIdle, Wq!FlushWorkqueue, Wq!notLife
  <1>9. WqLastKeyInv'
    BY KeysAssumption DEF WqInv, WqLastKeyInv, Wq!Loading, Wq!InService,
       Wq!QueueIdle, Wq!Works, ToStore, ToQueue, Wq!Window, Wq!TypeOK,
       WqIsrInv, WqCountInv, WqMemInv, WqQueueInv, WqWorkInv,
       Wq!FlushWorkqueue, Wq!notLife
  <1>10. Wq!FaultNeedsWindow'
    BY DEF WqInv, Wq!FaultNeedsWindow, Wq!Running, Wq!FlushWorkqueue,
       Wq!notLife
  <1> QED
    BY <1>1, <1>2, <1>3, <1>4, <1>5, <1>6, <1>7, <1>8, <1>9, <1>10 DEF WqInv

(* The invariant is kept when destroy_workqueue begins on mywq1. *)
LEMMA WqBeginDestroy1Keeps == WqInv /\ Wq!BeginDestroy(1, "destroy1", "drain1") => WqInv'
  <1> SUFFICES ASSUME WqInv, Wq!BeginDestroy(1, "destroy1", "drain1") PROVE WqInv'
    OBVIOUS
  <1>1. Wq!TypeOK'
    BY KeysAssumption DEF WqInv, Wq!TypeOK, Wq!Loading, Wq!Unloading,
       Wq!Resources, Wq!Queues, Wq!WorkMem, Wq!Works, Wq!ReaderTypeOK,
       WqWorkInv, Wq!QueueIdle, Wq!BeginDestroy, Wq!notLife
  <1>2. WqHeldInv'
    BY DEF WqInv, WqHeldInv, Wq!Resources, Wq!Queues, Wq!WorkMem, Wq!Works,
       Wq!TypeOK, WqMemInv, WqWorkInv, WqIsrInv, Wq!QueueIdle,
       Wq!BeginDestroy, Wq!notLife
  <1>3. WqMemInv'
    BY DEF WqInv, WqMemInv, Wq!Unloading, Wq!Works, Wq!TypeOK,
       Wq!BeginDestroy, Wq!notLife
  <1>4. WqQueueInv'
    BY DEF WqInv, WqQueueInv, Wq!Works, Wq!TypeOK, Wq!BeginDestroy, Wq!notLife
  <1>5. WqWorkInv'
    BY DEF WqInv, WqWorkInv, Wq!QueueIdle, Wq!Works, Wq!TypeOK, WqMemInv,
       WqQueueInv, Wq!BeginDestroy, Wq!notLife
  <1>6. WqIsrInv'
    BY DEF WqInv, WqIsrInv, Wq!Window, WqHeldInv, Wq!BeginDestroy, Wq!notLife
  <1>7. WqReaderInv'
    BY DEF WqInv, WqReaderInv, Wq!TypeOK, Wq!ReaderTypeOK, Wq!BeginDestroy,
       Wq!notLife
  <1>8. WqCountInv'
    BY KeysAssumption DEF WqInv, WqCountInv, Wq!Works, Bit, ToStore, ToQueue,
       Wq!TypeOK, WqWorkInv, Wq!QueueIdle, Wq!BeginDestroy, Wq!notLife
  <1>9. WqLastKeyInv'
    BY KeysAssumption DEF WqInv, WqLastKeyInv, Wq!Loading, Wq!InService,
       Wq!QueueIdle, Wq!Works, ToStore, ToQueue, Wq!Window, Wq!TypeOK,
       WqIsrInv, WqCountInv, WqMemInv, WqQueueInv, WqWorkInv, Wq!BeginDestroy,
       Wq!notLife
  <1>10. Wq!FaultNeedsWindow'
    BY DEF WqInv, Wq!FaultNeedsWindow, Wq!Running, Wq!BeginDestroy, Wq!notLife
  <1> QED
    BY <1>1, <1>2, <1>3, <1>4, <1>5, <1>6, <1>7, <1>8, <1>9, <1>10 DEF WqInv

(* The invariant is kept when destroy_workqueue begins on mywq2. *)
LEMMA WqBeginDestroy2Keeps == WqInv /\ Wq!BeginDestroy(2, "destroy2", "drain2") => WqInv'
  <1> SUFFICES ASSUME WqInv, Wq!BeginDestroy(2, "destroy2", "drain2") PROVE WqInv'
    OBVIOUS
  <1>1. Wq!TypeOK'
    BY KeysAssumption DEF WqInv, Wq!TypeOK, Wq!Loading, Wq!Unloading,
       Wq!Resources, Wq!Queues, Wq!WorkMem, Wq!Works, Wq!ReaderTypeOK,
       WqWorkInv, Wq!QueueIdle, Wq!BeginDestroy, Wq!notLife
  <1>2. WqHeldInv'
    BY DEF WqInv, WqHeldInv, Wq!Resources, Wq!Queues, Wq!WorkMem, Wq!Works,
       Wq!TypeOK, WqMemInv, WqWorkInv, WqIsrInv, Wq!QueueIdle,
       Wq!BeginDestroy, Wq!notLife
  <1>3. WqMemInv'
    BY DEF WqInv, WqMemInv, Wq!Unloading, Wq!Works, Wq!TypeOK,
       Wq!BeginDestroy, Wq!notLife
  <1>4. WqQueueInv'
    BY DEF WqInv, WqQueueInv, Wq!Works, Wq!TypeOK, Wq!BeginDestroy, Wq!notLife
  <1>5. WqWorkInv'
    BY DEF WqInv, WqWorkInv, Wq!QueueIdle, Wq!Works, Wq!TypeOK, WqMemInv,
       WqQueueInv, Wq!BeginDestroy, Wq!notLife
  <1>6. WqIsrInv'
    BY DEF WqInv, WqIsrInv, Wq!Window, WqHeldInv, Wq!BeginDestroy, Wq!notLife
  <1>7. WqReaderInv'
    BY DEF WqInv, WqReaderInv, Wq!TypeOK, Wq!ReaderTypeOK, Wq!BeginDestroy,
       Wq!notLife
  <1>8. WqCountInv'
    BY KeysAssumption DEF WqInv, WqCountInv, Wq!Works, Bit, ToStore, ToQueue,
       Wq!TypeOK, WqWorkInv, Wq!QueueIdle, Wq!BeginDestroy, Wq!notLife
  <1>9. WqLastKeyInv'
    BY KeysAssumption DEF WqInv, WqLastKeyInv, Wq!Loading, Wq!InService,
       Wq!QueueIdle, Wq!Works, ToStore, ToQueue, Wq!Window, Wq!TypeOK,
       WqIsrInv, WqCountInv, WqMemInv, WqQueueInv, WqWorkInv, Wq!BeginDestroy,
       Wq!notLife
  <1>10. Wq!FaultNeedsWindow'
    BY DEF WqInv, Wq!FaultNeedsWindow, Wq!Running, Wq!BeginDestroy, Wq!notLife
  <1> QED
    BY <1>1, <1>2, <1>3, <1>4, <1>5, <1>6, <1>7, <1>8, <1>9, <1>10 DEF WqInv

(* The invariant is kept when destroy_workqueue ends on mywq1. *)
LEMMA WqEndDestroy1Keeps == WqInv /\ Wq!EndDestroy(1, "drain1", "mywq1", "destroy2") => WqInv'
  <1> SUFFICES ASSUME WqInv, Wq!EndDestroy(1, "drain1", "mywq1", "destroy2") PROVE WqInv'
    OBVIOUS
  <1>1. Wq!TypeOK'
    BY KeysAssumption DEF WqInv, Wq!TypeOK, Wq!Loading, Wq!Unloading,
       Wq!Resources, Wq!Queues, Wq!WorkMem, Wq!Works, Wq!ReaderTypeOK,
       WqWorkInv, Wq!QueueIdle, Wq!EndDestroy
  <1>2. WqHeldInv'
    BY DEF WqInv, WqHeldInv, Wq!Resources, Wq!Queues, Wq!WorkMem, Wq!Works,
       Wq!TypeOK, WqMemInv, WqWorkInv, WqIsrInv, Wq!QueueIdle, Wq!EndDestroy
  <1>3. WqMemInv'
    BY DEF WqInv, WqMemInv, Wq!Unloading, Wq!Works, Wq!TypeOK, Wq!EndDestroy
  <1>4. WqQueueInv'
    BY DEF WqInv, WqQueueInv, Wq!Works, Wq!TypeOK, Wq!EndDestroy
  <1>5. WqWorkInv'
    BY DEF WqInv, WqWorkInv, Wq!QueueIdle, Wq!Works, Wq!TypeOK, WqMemInv,
       WqQueueInv, Wq!EndDestroy
  <1>6. WqIsrInv'
    BY DEF WqInv, WqIsrInv, Wq!Window, WqHeldInv, Wq!EndDestroy
  <1>7. WqReaderInv'
    BY DEF WqInv, WqReaderInv, Wq!TypeOK, Wq!ReaderTypeOK, Wq!EndDestroy
  <1>8. WqCountInv'
    BY KeysAssumption DEF WqInv, WqCountInv, Wq!Works, Bit, ToStore, ToQueue,
       Wq!TypeOK, WqWorkInv, Wq!QueueIdle, Wq!EndDestroy
  <1>9. WqLastKeyInv'
    BY KeysAssumption DEF WqInv, WqLastKeyInv, Wq!Loading, Wq!InService,
       Wq!QueueIdle, Wq!Works, ToStore, ToQueue, Wq!Window, Wq!TypeOK,
       WqIsrInv, WqCountInv, WqMemInv, WqQueueInv, WqWorkInv, Wq!EndDestroy
  <1>10. Wq!FaultNeedsWindow'
    BY DEF WqInv, Wq!FaultNeedsWindow, Wq!Running, Wq!EndDestroy
  <1> QED
    BY <1>1, <1>2, <1>3, <1>4, <1>5, <1>6, <1>7, <1>8, <1>9, <1>10 DEF WqInv

(* The invariant is kept when destroy_workqueue ends on mywq2. *)
LEMMA WqEndDestroy2Keeps == WqInv /\ Wq!EndDestroy(2, "drain2", "mywq2", "free_irq") => WqInv'
  <1> SUFFICES ASSUME WqInv, Wq!EndDestroy(2, "drain2", "mywq2", "free_irq") PROVE WqInv'
    OBVIOUS
  <1>1. Wq!TypeOK'
    BY KeysAssumption DEF WqInv, Wq!TypeOK, Wq!Loading, Wq!Unloading,
       Wq!Resources, Wq!Queues, Wq!WorkMem, Wq!Works, Wq!ReaderTypeOK,
       WqWorkInv, Wq!QueueIdle, Wq!EndDestroy
  <1>2. WqHeldInv'
    BY DEF WqInv, WqHeldInv, Wq!Resources, Wq!Queues, Wq!WorkMem, Wq!Works,
       Wq!TypeOK, WqMemInv, WqWorkInv, WqIsrInv, Wq!QueueIdle, Wq!EndDestroy
  <1>3. WqMemInv'
    BY DEF WqInv, WqMemInv, Wq!Unloading, Wq!Works, Wq!TypeOK, Wq!EndDestroy
  <1>4. WqQueueInv'
    BY DEF WqInv, WqQueueInv, Wq!Works, Wq!TypeOK, Wq!EndDestroy
  <1>5. WqWorkInv'
    BY DEF WqInv, WqWorkInv, Wq!QueueIdle, Wq!Works, Wq!TypeOK, WqMemInv,
       WqQueueInv, Wq!EndDestroy
  <1>6. WqIsrInv'
    BY DEF WqInv, WqIsrInv, Wq!Window, WqHeldInv, Wq!EndDestroy
  <1>7. WqReaderInv'
    BY DEF WqInv, WqReaderInv, Wq!TypeOK, Wq!ReaderTypeOK, Wq!EndDestroy
  <1>8. WqCountInv'
    BY KeysAssumption DEF WqInv, WqCountInv, Wq!Works, Bit, ToStore, ToQueue,
       Wq!TypeOK, WqWorkInv, Wq!QueueIdle, Wq!EndDestroy
  <1>9. WqLastKeyInv'
    BY KeysAssumption DEF WqInv, WqLastKeyInv, Wq!Loading, Wq!InService,
       Wq!QueueIdle, Wq!Works, ToStore, ToQueue, Wq!Window, Wq!TypeOK,
       WqIsrInv, WqCountInv, WqMemInv, WqQueueInv, WqWorkInv, Wq!EndDestroy
  <1>10. Wq!FaultNeedsWindow'
    BY DEF WqInv, Wq!FaultNeedsWindow, Wq!Running, Wq!EndDestroy
  <1> QED
    BY <1>1, <1>2, <1>3, <1>4, <1>5, <1>6, <1>7, <1>8, <1>9, <1>10 DEF WqInv

(* The invariant is kept by free_irq. *)
LEMMA WqFreeIrqKeeps == WqInv /\ Wq!FreeIrq => WqInv'
  <1> SUFFICES ASSUME WqInv, Wq!FreeIrq PROVE WqInv'
    OBVIOUS
  <1>1. Wq!TypeOK'
    BY KeysAssumption DEF WqInv, Wq!TypeOK, Wq!Loading, Wq!Unloading,
       Wq!Resources, Wq!Queues, Wq!WorkMem, Wq!Works, Wq!ReaderTypeOK,
       WqWorkInv, Wq!QueueIdle, Wq!FreeIrq, Wq!notLife
  <1>2. WqHeldInv'
    BY DEF WqInv, WqHeldInv, Wq!Resources, Wq!Queues, Wq!WorkMem, Wq!Works,
       Wq!TypeOK, WqMemInv, WqWorkInv, WqIsrInv, Wq!QueueIdle, Wq!FreeIrq,
       Wq!notLife
  <1>3. WqMemInv'
    BY DEF WqInv, WqMemInv, Wq!Unloading, Wq!Works, Wq!TypeOK, Wq!FreeIrq,
       Wq!notLife
  <1>4. WqQueueInv'
    BY DEF WqInv, WqQueueInv, Wq!Works, Wq!TypeOK, Wq!FreeIrq, Wq!notLife
  <1>5. WqWorkInv'
    BY DEF WqInv, WqWorkInv, Wq!QueueIdle, Wq!Works, Wq!TypeOK, WqMemInv,
       WqQueueInv, Wq!FreeIrq, Wq!notLife
  <1>6. WqIsrInv'
    BY DEF WqInv, WqIsrInv, Wq!Window, WqHeldInv, Wq!FreeIrq, Wq!notLife
  <1>7. WqReaderInv'
    BY DEF WqInv, WqReaderInv, Wq!TypeOK, Wq!ReaderTypeOK, Wq!FreeIrq,
       Wq!notLife
  <1>8. WqCountInv'
    BY KeysAssumption DEF WqInv, WqCountInv, Wq!Works, Bit, ToStore, ToQueue,
       Wq!TypeOK, WqWorkInv, Wq!QueueIdle, Wq!FreeIrq, Wq!notLife
  <1>9. WqLastKeyInv'
    BY KeysAssumption DEF WqInv, WqLastKeyInv, Wq!Loading, Wq!InService,
       Wq!QueueIdle, Wq!Works, ToStore, ToQueue, Wq!Window, Wq!TypeOK,
       WqIsrInv, WqCountInv, WqMemInv, WqQueueInv, WqWorkInv, Wq!FreeIrq,
       Wq!notLife
  <1>10. Wq!FaultNeedsWindow'
    BY DEF WqInv, Wq!FaultNeedsWindow, Wq!Running, Wq!FreeIrq, Wq!notLife
  <1> QED
    BY <1>1, <1>2, <1>3, <1>4, <1>5, <1>6, <1>7, <1>8, <1>9, <1>10 DEF WqInv

(* The invariant is kept by the two kfree. *)
LEMMA WqKfreeKeeps == WqInv /\ Wq!Kfree => WqInv'
  <1> SUFFICES ASSUME WqInv, Wq!Kfree PROVE WqInv'
    OBVIOUS
  <1>1. Wq!TypeOK'
    <2>1. wqLife' \in Wq!Loading \cup {"loaded", "rejected", "gone"} \cup Wq!Unloading
      BY DEF WqInv, Wq!TypeOK, Wq!Loading, Wq!Unloading, Wq!Kfree, Wq!notLife
    <2>2. wqHeld' \subseteq Wq!Resources
      BY DEF WqInv, Wq!TypeOK, Wq!Resources, Wq!Queues, Wq!WorkMem, Wq!Kfree,
         Wq!notLife
    <2>3. /\ wq' \in [Wq!Works -> {"none", "alive", "draining", "destroyed"}]
          /\ wqMem' \in [Wq!Works -> {"null", "raw", "ready", "freed"}]
          /\ queued' \in [Wq!Works -> {"no", "yes", "dropped"}]
      BY DEF WqInv, Wq!TypeOK, Wq!Works, Wq!Kfree, Wq!notLife
    <2>4. \A w \in Wq!Works : (queued[w] = "yes" \/ w \in active)' => wqMem'[w] = "ready"
      BY WqGoneIsIdle DEF Wq!QueueIdle, Wq!Kfree, Wq!notLife
    <2> QED
      BY <2>1, <2>2, <2>3, <2>4 DEF WqInv, Wq!TypeOK, Wq!ReaderTypeOK,
         Wq!Kfree, Wq!notLife
  <1>2. WqHeldInv'
    BY DEF WqInv, WqHeldInv, Wq!Resources, Wq!Queues, Wq!WorkMem, Wq!Works,
       Wq!TypeOK, WqMemInv, WqWorkInv, WqIsrInv, Wq!QueueIdle, Wq!Kfree,
       Wq!notLife
  <1>3. WqMemInv'
    BY DEF WqInv, WqMemInv, Wq!Unloading, Wq!Works, Wq!TypeOK, Wq!Kfree,
       Wq!notLife
  <1>4. WqQueueInv'
    BY DEF WqInv, WqQueueInv, Wq!Works, Wq!TypeOK, Wq!Kfree, Wq!notLife
  <1>5. WqWorkInv'
    BY DEF WqInv, WqWorkInv, Wq!QueueIdle, Wq!Works, Wq!TypeOK, WqMemInv,
       WqQueueInv, Wq!Kfree, Wq!notLife
  <1>6. WqIsrInv'
    BY DEF WqInv, WqIsrInv, Wq!Window, WqHeldInv, Wq!Kfree, Wq!notLife
  <1>7. WqReaderInv'
    BY DEF WqInv, WqReaderInv, Wq!TypeOK, Wq!ReaderTypeOK, Wq!Kfree,
       Wq!notLife
  <1>8. WqCountInv'
    BY KeysAssumption DEF WqInv, WqCountInv, Wq!Works, Bit, ToStore, ToQueue,
       Wq!TypeOK, WqWorkInv, Wq!QueueIdle, Wq!Kfree, Wq!notLife
  <1>9. WqLastKeyInv'
    BY KeysAssumption DEF WqInv, WqLastKeyInv, Wq!Loading, Wq!InService,
       Wq!QueueIdle, Wq!Works, ToStore, ToQueue, Wq!Window, Wq!TypeOK,
       WqIsrInv, WqCountInv, WqMemInv, WqQueueInv, WqWorkInv, Wq!Kfree,
       Wq!notLife
  <1>10. Wq!FaultNeedsWindow'
    BY DEF WqInv, Wq!FaultNeedsWindow, Wq!Running, Wq!Kfree, Wq!notLife
  <1> QED
    BY <1>1, <1>2, <1>3, <1>4, <1>5, <1>6, <1>7, <1>8, <1>9, <1>10 DEF WqInv

(* A fault changes nothing but up, so it keeps the invariant where it is explained. *)
LEMMA WqFaultKeeps ==
  WqInv /\ Wq!Fault /\ (wqInWindow \/ wqLife = "rejected") => WqInv'
  <1> SUFFICES ASSUME WqInv, Wq!Fault, wqInWindow \/ wqLife = "rejected" PROVE WqInv'
    OBVIOUS
  <1>1. Wq!TypeOK'
    BY DEF WqInv, Wq!TypeOK, Wq!Fault, Wq!ReaderTypeOK
  <1>2. WqHeldInv'
    BY DEF WqInv, WqHeldInv, Wq!Fault, Wq!QueueIdle
  <1>3. WqMemInv'
    BY DEF WqInv, WqMemInv, Wq!Fault
  <1>4. WqQueueInv'
    BY DEF WqInv, WqQueueInv, Wq!Fault
  <1>5. WqWorkInv'
    BY DEF WqInv, WqWorkInv, Wq!Fault, Wq!QueueIdle
  <1>6. WqIsrInv'
    BY DEF WqInv, WqIsrInv, Wq!Fault
  <1>7. WqReaderInv'
    BY DEF WqInv, WqReaderInv, Wq!Fault
  <1>8. WqCountInv'
    BY DEF WqInv, WqCountInv, Wq!Fault
  <1>9. WqLastKeyInv'
    BY DEF WqInv, WqLastKeyInv, Wq!Fault, Wq!QueueIdle
  <1>10. Wq!FaultNeedsWindow'
    BY DEF WqInv, Wq!FaultNeedsWindow, Wq!Fault
  <1> QED
    BY <1>1, <1>2, <1>3, <1>4, <1>5, <1>6, <1>7, <1>8, <1>9, <1>10 DEF WqInv

(* The invariant is kept when an interrupt arrives. *)
LEMMA WqIrqEnterKeeps == WqInv /\ Wq!IrqEnter => WqInv'
  <1> SUFFICES ASSUME WqInv, Wq!IrqEnter PROVE WqInv'
    OBVIOUS
  <1>0. /\ wqInWindow' \in BOOLEAN
        /\ wqInWindow => wqInWindow'
        /\ wqLife \in Wq!Window => wqInWindow'
        /\ ~wqInWindow' => ~wqInWindow /\ wqLife \notin Wq!Window
    <2>1. wqInWindow' = IF wqLife \in Wq!Window THEN TRUE ELSE wqInWindow
      BY DEF Wq!IrqEnter
    <2>2. wqInWindow \in BOOLEAN
      BY DEF WqInv, Wq!TypeOK
    <2> QED
      BY <2>1, <2>2
  <1>f. UNCHANGED <<wqLife, wqHeld, wq, wqMem, queued, active, code, wqShown, wqTimes, wqReader>>
    BY DEF Wq!IrqEnter
  <1>1. Wq!TypeOK'
    <2>1. wqKeys' \in 0..MaxKeys /\ wqIsr' \in {"idle", "store1", "store2", "queue1", "queue2"}
      BY KeysAssumption DEF WqInv, Wq!TypeOK, Wq!IrqEnter
    <2>2. wqUp' \in {"running", "fault"}
      BY DEF WqInv, Wq!TypeOK, Wq!IrqEnter
    <2> QED
      BY <1>0, <1>f, <2>1, <2>2 DEF WqInv, Wq!TypeOK, Wq!ReaderTypeOK
  <1>2. WqHeldInv'
    BY <1>f DEF WqInv, WqHeldInv, Wq!QueueIdle, Wq!Queues, Wq!IrqEnter,
       Wq!TextGone
  <1>3. WqMemInv' /\ WqQueueInv' /\ WqReaderInv'
    BY <1>f DEF WqInv, WqMemInv, WqQueueInv, WqReaderInv
  <1>4. WqWorkInv'
    BY <1>f DEF WqInv, WqWorkInv, Wq!QueueIdle, Wq!IrqEnter
  <1>5. WqIsrInv'
    <2>1. wqLife \in {"request_irq", "kfree", "gone"} => wqIsr' = "idle"
      BY DEF WqInv, WqIsrInv, WqHeldInv, Wq!WorkMem, Wq!IrqEnter
    <2> QED
      BY <1>0, <1>f, <2>1 DEF WqIsrInv
  <1>6. WqCountInv'
    BY <1>f, KeysAssumption DEF WqInv, WqCountInv, Wq!TypeOK, Wq!Works, Bit,
       ToStore, ToQueue, Wq!IrqEnter
  <1>7. WqLastKeyInv'
    <2>1. CASE wqInWindow'
      BY <2>1 DEF WqLastKeyInv
    <2>2. CASE ~wqInWindow'
      <3>1. ~wqInWindow /\ wqLife \notin Wq!Window
        BY <1>0, <2>2
      <3>2. wqLife # "request_irq"
        BY DEF WqInv, WqHeldInv, Wq!IrqEnter
      <3>3. wqLife \notin Wq!Loading \ Wq!InService
        BY <3>1, <3>2 DEF Wq!Loading, Wq!InService, Wq!Window
      <3>4. ASSUME wqLife \in Wq!InService, NEW w \in Wq!Works
            PROVE  /\ (code[w] = wqKeys \/ wqIsr \in ToStore[w])'
                   /\ (wqShown[w] = code[w] \/ ~Wq!QueueIdle(w) \/ wqIsr \in ToQueue[w])'
        <4>1. wqShown[w] = code[w] \/ ~Wq!QueueIdle(w)
          BY <3>1, <3>4 DEF WqInv, WqLastKeyInv, Wq!IrqEnter, ToQueue,
             Wq!Works
        <4>2. ~Wq!TextGone
          BY <3>4 DEF Wq!TextGone, Wq!InService
        <4>3. wqIsr' = "store1"
          BY <4>2 DEF Wq!IrqEnter
        <4> QED
          BY <1>f, <4>1, <4>3 DEF ToStore, Wq!Works, Wq!QueueIdle
      <3> QED
        BY <1>f, <3>3, <3>4 DEF WqLastKeyInv
    <2> QED
      BY <2>1, <2>2
  <1>8. Wq!FaultNeedsWindow'
    <2>1. wqLife = "gone" => "irq" \notin wqHeld
      BY DEF WqInv, WqHeldInv
    <2>2. wqUp' = "fault" => wqLife = "rejected"
      BY <2>1 DEF Wq!IrqEnter, Wq!TextGone, Wq!Running
    <2> QED
      BY <1>f, <2>2 DEF Wq!FaultNeedsWindow
  <1> QED
    BY <1>1, <1>2, <1>3, <1>4, <1>5, <1>6, <1>7, <1>8 DEF WqInv

(* The invariant is kept when the handler stores work_1->code. *)
LEMMA WqIrqStore1Keeps == WqInv /\ Wq!IrqStore(1, "store1", "store2") => WqInv'
  <1> SUFFICES ASSUME WqInv, Wq!IrqStore(1, "store1", "store2") PROVE WqInv'
    OBVIOUS
  <1>1. CASE wqUp' = "fault"
    <2>1. Wq!Fault
      BY <1>1 DEF Wq!Running, Wq!IrqStore
    <2>2. wqInWindow \/ wqLife = "rejected"
      BY <1>1 DEF Wq!Running, Wq!TextGone, WqInv, Wq!TypeOK, WqMemInv,
         WqQueueInv, WqIsrInv, WqHeldInv, WqWorkInv, Wq!Loading, Wq!Unloading,
         Wq!Works, Wq!Window, Wq!IrqStore
    <2> QED
      BY <2>1, <2>2, WqFaultKeeps
  <1>2. CASE wqUp' # "fault"
    <2>1. Wq!TypeOK'
      <3>1. code' \in [Wq!Works -> 0..MaxKeys]
        BY <1>2, KeysAssumption DEF WqInv, Wq!TypeOK, Wq!Works, Wq!Fault,
           Wq!IrqStore
      <3>2. \A v \in Wq!Works : (queued[v] = "yes" \/ v \in active)' => wqMem'[v] = "ready"
        BY <1>2 DEF WqInv, Wq!TypeOK, Wq!Works, Wq!Fault, Wq!IrqStore
      <3> QED
        BY <1>2, <3>1, <3>2 DEF WqInv, Wq!TypeOK, Wq!ReaderTypeOK, Wq!Fault,
           Wq!IrqStore
    <2>2. WqHeldInv'
      BY <1>2 DEF WqInv, WqHeldInv, Wq!Resources, Wq!Queues, Wq!WorkMem,
         Wq!Works, Wq!TypeOK, WqMemInv, WqWorkInv, WqIsrInv, Wq!QueueIdle,
         Wq!TextGone, Wq!Fault, Wq!IrqStore
    <2>3. WqMemInv'
      BY <1>2 DEF WqInv, WqMemInv, Wq!Unloading, Wq!Works, Wq!TypeOK,
         Wq!TextGone, Wq!Fault, Wq!IrqStore
    <2>4. WqQueueInv'
      BY <1>2 DEF WqInv, WqQueueInv, Wq!Works, Wq!TypeOK, Wq!TextGone,
         Wq!Fault, Wq!IrqStore
    <2>5. WqWorkInv'
      BY <1>2 DEF WqInv, WqWorkInv, Wq!QueueIdle, Wq!Works, Wq!TypeOK,
         WqMemInv, WqQueueInv, Wq!TextGone, Wq!Fault, Wq!IrqStore
    <2>6. WqIsrInv'
      BY <1>2 DEF WqInv, WqIsrInv, Wq!Window, WqHeldInv, Wq!TextGone,
         Wq!Fault, Wq!IrqStore
    <2>7. WqReaderInv'
      BY <1>2 DEF WqInv, WqReaderInv, Wq!TypeOK, Wq!ReaderTypeOK, Wq!TextGone,
         Wq!Fault, Wq!IrqStore
    <2>8. WqCountInv'
      BY <1>2, KeysAssumption DEF WqInv, WqCountInv, Wq!Works, Bit, ToStore,
         ToQueue, Wq!TypeOK, WqWorkInv, Wq!QueueIdle, Wq!TextGone, Wq!Fault,
         Wq!IrqStore
    <2>9. WqLastKeyInv'
      BY <1>2, KeysAssumption DEF WqInv, WqLastKeyInv, Wq!Loading,
         Wq!InService, Wq!QueueIdle, Wq!Works, ToStore, ToQueue, Wq!Window,
         Wq!TypeOK, WqIsrInv, WqCountInv, WqMemInv, WqQueueInv, WqWorkInv,
         Wq!TextGone, Wq!Fault, Wq!IrqStore
    <2>10. Wq!FaultNeedsWindow'
      BY <1>2 DEF WqInv, Wq!FaultNeedsWindow, Wq!Running, Wq!TextGone,
         Wq!Fault, Wq!IrqStore
    <2> QED
      BY <2>1, <2>2, <2>3, <2>4, <2>5, <2>6, <2>7, <2>8, <2>9, <2>10 DEF WqInv
  <1> QED
    BY <1>1, <1>2

(* The invariant is kept when the handler stores work_2->code. *)
LEMMA WqIrqStore2Keeps == WqInv /\ Wq!IrqStore(2, "store2", "queue1") => WqInv'
  <1> SUFFICES ASSUME WqInv, Wq!IrqStore(2, "store2", "queue1") PROVE WqInv'
    OBVIOUS
  <1>1. CASE wqUp' = "fault"
    <2>1. Wq!Fault
      BY <1>1 DEF Wq!Running, Wq!IrqStore
    <2>2. wqInWindow \/ wqLife = "rejected"
      BY <1>1 DEF Wq!Running, Wq!TextGone, WqInv, Wq!TypeOK, WqMemInv,
         WqQueueInv, WqIsrInv, WqHeldInv, WqWorkInv, Wq!Loading, Wq!Unloading,
         Wq!Works, Wq!Window, Wq!IrqStore
    <2> QED
      BY <2>1, <2>2, WqFaultKeeps
  <1>2. CASE wqUp' # "fault"
    <2>1. Wq!TypeOK'
      <3>1. code' \in [Wq!Works -> 0..MaxKeys]
        BY <1>2, KeysAssumption DEF WqInv, Wq!TypeOK, Wq!Works, Wq!Fault,
           Wq!IrqStore
      <3>2. \A v \in Wq!Works : (queued[v] = "yes" \/ v \in active)' => wqMem'[v] = "ready"
        BY <1>2 DEF WqInv, Wq!TypeOK, Wq!Works, Wq!Fault, Wq!IrqStore
      <3> QED
        BY <1>2, <3>1, <3>2 DEF WqInv, Wq!TypeOK, Wq!ReaderTypeOK, Wq!Fault,
           Wq!IrqStore
    <2>2. WqHeldInv'
      BY <1>2 DEF WqInv, WqHeldInv, Wq!Resources, Wq!Queues, Wq!WorkMem,
         Wq!Works, Wq!TypeOK, WqMemInv, WqWorkInv, WqIsrInv, Wq!QueueIdle,
         Wq!TextGone, Wq!Fault, Wq!IrqStore
    <2>3. WqMemInv'
      BY <1>2 DEF WqInv, WqMemInv, Wq!Unloading, Wq!Works, Wq!TypeOK,
         Wq!TextGone, Wq!Fault, Wq!IrqStore
    <2>4. WqQueueInv'
      BY <1>2 DEF WqInv, WqQueueInv, Wq!Works, Wq!TypeOK, Wq!TextGone,
         Wq!Fault, Wq!IrqStore
    <2>5. WqWorkInv'
      BY <1>2 DEF WqInv, WqWorkInv, Wq!QueueIdle, Wq!Works, Wq!TypeOK,
         WqMemInv, WqQueueInv, Wq!TextGone, Wq!Fault, Wq!IrqStore
    <2>6. WqIsrInv'
      BY <1>2 DEF WqInv, WqIsrInv, Wq!Window, WqHeldInv, Wq!TextGone,
         Wq!Fault, Wq!IrqStore
    <2>7. WqReaderInv'
      BY <1>2 DEF WqInv, WqReaderInv, Wq!TypeOK, Wq!ReaderTypeOK, Wq!TextGone,
         Wq!Fault, Wq!IrqStore
    <2>8. WqCountInv'
      BY <1>2, KeysAssumption DEF WqInv, WqCountInv, Wq!Works, Bit, ToStore,
         ToQueue, Wq!TypeOK, WqWorkInv, Wq!QueueIdle, Wq!TextGone, Wq!Fault,
         Wq!IrqStore
    <2>9. WqLastKeyInv'
      BY <1>2, KeysAssumption DEF WqInv, WqLastKeyInv, Wq!Loading,
         Wq!InService, Wq!QueueIdle, Wq!Works, ToStore, ToQueue, Wq!Window,
         Wq!TypeOK, WqIsrInv, WqCountInv, WqMemInv, WqQueueInv, WqWorkInv,
         Wq!TextGone, Wq!Fault, Wq!IrqStore
    <2>10. Wq!FaultNeedsWindow'
      BY <1>2 DEF WqInv, Wq!FaultNeedsWindow, Wq!Running, Wq!TextGone,
         Wq!Fault, Wq!IrqStore
    <2> QED
      BY <2>1, <2>2, <2>3, <2>4, <2>5, <2>6, <2>7, <2>8, <2>9, <2>10 DEF WqInv
  <1> QED
    BY <1>1, <1>2

(* The invariant is kept by queue_work of work_1. *)
LEMMA WqIrqQueue1Keeps == WqInv /\ Wq!IrqQueue(1, "queue1", "queue2") => WqInv'
  <1> SUFFICES ASSUME WqInv, Wq!IrqQueue(1, "queue1", "queue2") PROVE WqInv'
    OBVIOUS
  <1>1. CASE wqUp' = "fault"
    <2>1. Wq!Fault
      BY <1>1 DEF Wq!Running, Wq!IrqQueue
    <2>2. wqInWindow \/ wqLife = "rejected"
      BY <1>1 DEF Wq!Running, Wq!TextGone, WqInv, Wq!TypeOK, WqMemInv,
         WqQueueInv, WqIsrInv, WqHeldInv, WqWorkInv, Wq!Loading, Wq!Unloading,
         Wq!Works, Wq!Window, Wq!IrqQueue
    <2> QED
      BY <2>1, <2>2, WqFaultKeeps
  <1>2. CASE wqUp' # "fault"
    <2>1. Wq!TypeOK'
      <3>1. queued' \in [Wq!Works -> {"no", "yes", "dropped"}]
        BY <1>2, KeysAssumption DEF WqInv, Wq!TypeOK, Wq!Works, Wq!Fault,
           Wq!IrqQueue
      <3>2. \A v \in Wq!Works : (queued[v] = "yes" \/ v \in active)' => wqMem'[v] = "ready"
        BY <1>2 DEF WqInv, Wq!TypeOK, Wq!Works, Wq!Fault, Wq!IrqQueue
      <3> QED
        BY <1>2, <3>1, <3>2 DEF WqInv, Wq!TypeOK, Wq!ReaderTypeOK, Wq!Fault,
           Wq!IrqQueue
    <2>2. WqHeldInv'
      BY <1>2 DEF WqInv, WqHeldInv, Wq!Resources, Wq!Queues, Wq!WorkMem,
         Wq!Works, Wq!TypeOK, WqMemInv, WqWorkInv, WqIsrInv, Wq!QueueIdle,
         Wq!TextGone, Wq!Fault, Wq!IrqQueue
    <2>3. WqMemInv'
      BY <1>2 DEF WqInv, WqMemInv, Wq!Unloading, Wq!Works, Wq!TypeOK,
         Wq!TextGone, Wq!Fault, Wq!IrqQueue
    <2>4. WqQueueInv'
      BY <1>2 DEF WqInv, WqQueueInv, Wq!Works, Wq!TypeOK, Wq!TextGone,
         Wq!Fault, Wq!IrqQueue
    <2>5. WqWorkInv'
      BY <1>2 DEF WqInv, WqWorkInv, Wq!QueueIdle, Wq!Works, Wq!TypeOK,
         WqMemInv, WqQueueInv, Wq!TextGone, Wq!Fault, Wq!IrqQueue
    <2>6. WqIsrInv'
      BY <1>2 DEF WqInv, WqIsrInv, Wq!Window, WqHeldInv, Wq!TextGone,
         Wq!Fault, Wq!IrqQueue
    <2>7. WqReaderInv'
      BY <1>2 DEF WqInv, WqReaderInv, Wq!TypeOK, Wq!ReaderTypeOK, Wq!TextGone,
         Wq!Fault, Wq!IrqQueue
    <2>8. WqCountInv'
      BY <1>2, KeysAssumption DEF WqInv, WqCountInv, Wq!Works, Bit, ToStore,
         ToQueue, Wq!TypeOK, WqWorkInv, Wq!QueueIdle, Wq!TextGone, Wq!Fault,
         Wq!IrqQueue
    <2>9. WqLastKeyInv'
      BY <1>2, KeysAssumption DEF WqInv, WqLastKeyInv, Wq!Loading,
         Wq!InService, Wq!QueueIdle, Wq!Works, ToStore, ToQueue, Wq!Window,
         Wq!TypeOK, WqIsrInv, WqCountInv, WqMemInv, WqQueueInv, WqWorkInv,
         Wq!TextGone, Wq!Fault, Wq!IrqQueue
    <2>10. Wq!FaultNeedsWindow'
      BY <1>2 DEF WqInv, Wq!FaultNeedsWindow, Wq!Running, Wq!TextGone,
         Wq!Fault, Wq!IrqQueue
    <2> QED
      BY <2>1, <2>2, <2>3, <2>4, <2>5, <2>6, <2>7, <2>8, <2>9, <2>10 DEF WqInv
  <1> QED
    BY <1>1, <1>2

(* The invariant is kept by queue_work of work_2. *)
LEMMA WqIrqQueue2Keeps == WqInv /\ Wq!IrqQueue(2, "queue2", "idle") => WqInv'
  <1> SUFFICES ASSUME WqInv, Wq!IrqQueue(2, "queue2", "idle") PROVE WqInv'
    OBVIOUS
  <1>1. CASE wqUp' = "fault"
    <2>1. Wq!Fault
      BY <1>1 DEF Wq!Running, Wq!IrqQueue
    <2>2. wqInWindow \/ wqLife = "rejected"
      BY <1>1 DEF Wq!Running, Wq!TextGone, WqInv, Wq!TypeOK, WqMemInv,
         WqQueueInv, WqIsrInv, WqHeldInv, WqWorkInv, Wq!Loading, Wq!Unloading,
         Wq!Works, Wq!Window, Wq!IrqQueue
    <2> QED
      BY <2>1, <2>2, WqFaultKeeps
  <1>2. CASE wqUp' # "fault"
    <2>1. Wq!TypeOK'
      <3>1. queued' \in [Wq!Works -> {"no", "yes", "dropped"}]
        BY <1>2, KeysAssumption DEF WqInv, Wq!TypeOK, Wq!Works, Wq!Fault,
           Wq!IrqQueue
      <3>2. \A v \in Wq!Works : (queued[v] = "yes" \/ v \in active)' => wqMem'[v] = "ready"
        BY <1>2 DEF WqInv, Wq!TypeOK, Wq!Works, Wq!Fault, Wq!IrqQueue
      <3> QED
        BY <1>2, <3>1, <3>2 DEF WqInv, Wq!TypeOK, Wq!ReaderTypeOK, Wq!Fault,
           Wq!IrqQueue
    <2>2. WqHeldInv'
      BY <1>2 DEF WqInv, WqHeldInv, Wq!Resources, Wq!Queues, Wq!WorkMem,
         Wq!Works, Wq!TypeOK, WqMemInv, WqWorkInv, WqIsrInv, Wq!QueueIdle,
         Wq!TextGone, Wq!Fault, Wq!IrqQueue
    <2>3. WqMemInv'
      BY <1>2 DEF WqInv, WqMemInv, Wq!Unloading, Wq!Works, Wq!TypeOK,
         Wq!TextGone, Wq!Fault, Wq!IrqQueue
    <2>4. WqQueueInv'
      BY <1>2 DEF WqInv, WqQueueInv, Wq!Works, Wq!TypeOK, Wq!TextGone,
         Wq!Fault, Wq!IrqQueue
    <2>5. WqWorkInv'
      BY <1>2 DEF WqInv, WqWorkInv, Wq!QueueIdle, Wq!Works, Wq!TypeOK,
         WqMemInv, WqQueueInv, Wq!TextGone, Wq!Fault, Wq!IrqQueue
    <2>6. WqIsrInv'
      BY <1>2 DEF WqInv, WqIsrInv, Wq!Window, WqHeldInv, Wq!TextGone,
         Wq!Fault, Wq!IrqQueue
    <2>7. WqReaderInv'
      BY <1>2 DEF WqInv, WqReaderInv, Wq!TypeOK, Wq!ReaderTypeOK, Wq!TextGone,
         Wq!Fault, Wq!IrqQueue
    <2>8. WqCountInv'
      BY <1>2, KeysAssumption DEF WqInv, WqCountInv, Wq!Works, Bit, ToStore,
         ToQueue, Wq!TypeOK, WqWorkInv, Wq!QueueIdle, Wq!TextGone, Wq!Fault,
         Wq!IrqQueue
    <2>9. WqLastKeyInv'
      BY <1>2, KeysAssumption DEF WqInv, WqLastKeyInv, Wq!Loading,
         Wq!InService, Wq!QueueIdle, Wq!Works, ToStore, ToQueue, Wq!Window,
         Wq!TypeOK, WqIsrInv, WqCountInv, WqMemInv, WqQueueInv, WqWorkInv,
         Wq!TextGone, Wq!Fault, Wq!IrqQueue
    <2>10. Wq!FaultNeedsWindow'
      BY <1>2 DEF WqInv, Wq!FaultNeedsWindow, Wq!Running, Wq!TextGone,
         Wq!Fault, Wq!IrqQueue
    <2> QED
      BY <2>1, <2>2, <2>3, <2>4, <2>5, <2>6, <2>7, <2>8, <2>9, <2>10 DEF WqInv
  <1> QED
    BY <1>1, <1>2

(* The invariant is kept when a worker enters a function. *)
LEMMA WqStartWorkKeeps == \A w \in Wq!Works : WqInv /\ Wq!StartWork(w) => WqInv'
  <1> SUFFICES ASSUME NEW w \in Wq!Works, WqInv, Wq!StartWork(w) PROVE WqInv'
    OBVIOUS
  <1>1. CASE wqUp' = "fault"
    <2>1. Wq!Fault
      BY <1>1 DEF Wq!Running, Wq!StartWork
    <2>2. wqInWindow \/ wqLife = "rejected"
      BY <1>1, WqGoneIsIdle DEF Wq!TextGone, Wq!QueueIdle, Wq!Running,
         Wq!StartWork
    <2> QED
      BY <2>1, <2>2, WqFaultKeeps
  <1>2. CASE wqUp' # "fault"
    <2>1. Wq!TypeOK'
      <3>1. queued' \in [Wq!Works -> {"no", "yes", "dropped"}]
        BY <1>2, KeysAssumption DEF WqInv, Wq!TypeOK, Wq!Works, Wq!Fault,
           Wq!StartWork
      <3>2. \A v \in Wq!Works : (queued[v] = "yes" \/ v \in active)' => wqMem'[v] = "ready"
        BY <1>2 DEF WqInv, Wq!TypeOK, Wq!Works, Wq!Fault, Wq!StartWork
      <3> QED
        BY <1>2, <3>1, <3>2 DEF WqInv, Wq!TypeOK, Wq!ReaderTypeOK, Wq!Fault,
           Wq!StartWork
    <2>2. WqHeldInv'
      BY <1>2 DEF WqInv, WqHeldInv, Wq!Resources, Wq!Queues, Wq!WorkMem,
         Wq!Works, Wq!TypeOK, WqMemInv, WqWorkInv, WqIsrInv, Wq!QueueIdle,
         Wq!TextGone, Wq!Fault, Wq!StartWork
    <2>3. WqMemInv'
      BY <1>2 DEF WqInv, WqMemInv, Wq!Unloading, Wq!Works, Wq!TypeOK,
         Wq!TextGone, Wq!Fault, Wq!StartWork
    <2>4. WqQueueInv'
      BY <1>2 DEF WqInv, WqQueueInv, Wq!Works, Wq!TypeOK, Wq!TextGone,
         Wq!Fault, Wq!StartWork
    <2>5. WqWorkInv'
      BY <1>2 DEF WqInv, WqWorkInv, Wq!QueueIdle, Wq!Works, Wq!TypeOK,
         WqMemInv, WqQueueInv, Wq!TextGone, Wq!Fault, Wq!StartWork
    <2>6. WqIsrInv'
      BY <1>2 DEF WqInv, WqIsrInv, Wq!Window, WqHeldInv, Wq!TextGone,
         Wq!Fault, Wq!StartWork
    <2>7. WqReaderInv'
      BY <1>2 DEF WqInv, WqReaderInv, Wq!TypeOK, Wq!ReaderTypeOK, Wq!TextGone,
         Wq!Fault, Wq!StartWork
    <2>8. WqCountInv'
      BY <1>2, KeysAssumption DEF WqInv, WqCountInv, Wq!Works, Bit, ToStore,
         ToQueue, Wq!TypeOK, WqWorkInv, Wq!QueueIdle, Wq!TextGone, Wq!Fault,
         Wq!StartWork
    <2>9. WqLastKeyInv'
      BY <1>2, KeysAssumption DEF WqInv, WqLastKeyInv, Wq!Loading,
         Wq!InService, Wq!QueueIdle, Wq!Works, ToStore, ToQueue, Wq!Window,
         Wq!TypeOK, WqIsrInv, WqCountInv, WqMemInv, WqQueueInv, WqWorkInv,
         Wq!TextGone, Wq!Fault, Wq!StartWork
    <2>10. Wq!FaultNeedsWindow'
      BY <1>2 DEF WqInv, Wq!FaultNeedsWindow, Wq!Running, Wq!TextGone,
         Wq!Fault, Wq!StartWork
    <2> QED
      BY <2>1, <2>2, <2>3, <2>4, <2>5, <2>6, <2>7, <2>8, <2>9, <2>10 DEF WqInv
  <1> QED
    BY <1>1, <1>2

(* The invariant is kept when a function reads and prints its code. *)
LEMMA WqPrintCodeKeeps == \A w \in Wq!Works : WqInv /\ Wq!PrintCode(w) => WqInv'
  <1> SUFFICES ASSUME NEW w \in Wq!Works, WqInv, Wq!PrintCode(w) PROVE WqInv'
    OBVIOUS
  <1>1. CASE wqUp' = "fault"
    <2>1. Wq!Fault
      BY <1>1 DEF Wq!Running, Wq!PrintCode
    <2>2. wqInWindow \/ wqLife = "rejected"
      BY <1>1, WqGoneIsIdle DEF Wq!TextGone, Wq!QueueIdle, Wq!Running,
         Wq!PrintCode
    <2> QED
      BY <2>1, <2>2, WqFaultKeeps
  <1>2. CASE wqUp' # "fault"
    <2>1. Wq!TypeOK'
      <3>1. wqShown' \in [Wq!Works -> 0..MaxKeys]
        BY <1>2, KeysAssumption DEF WqInv, Wq!TypeOK, Wq!Works, Wq!Fault,
           Wq!PrintCode
      <3>2. \A v \in Wq!Works : (queued[v] = "yes" \/ v \in active)' => wqMem'[v] = "ready"
        BY <1>2 DEF WqInv, Wq!TypeOK, Wq!Works, Wq!Fault, Wq!PrintCode
      <3>3. wqTimes' \in [Wq!Works -> Nat]
        BY <1>2 DEF WqInv, Wq!TypeOK, Wq!Works, Wq!Fault, Wq!PrintCode
      <3> QED
        BY <1>2, <3>1, <3>2, <3>3 DEF WqInv, Wq!TypeOK, Wq!ReaderTypeOK,
           Wq!Fault, Wq!PrintCode
    <2>2. WqHeldInv'
      BY <1>2 DEF WqInv, WqHeldInv, Wq!Resources, Wq!Queues, Wq!WorkMem,
         Wq!Works, Wq!TypeOK, WqMemInv, WqWorkInv, WqIsrInv, Wq!QueueIdle,
         Wq!TextGone, Wq!Fault, Wq!PrintCode
    <2>3. WqMemInv'
      BY <1>2 DEF WqInv, WqMemInv, Wq!Unloading, Wq!Works, Wq!TypeOK,
         Wq!TextGone, Wq!Fault, Wq!PrintCode
    <2>4. WqQueueInv'
      BY <1>2 DEF WqInv, WqQueueInv, Wq!Works, Wq!TypeOK, Wq!TextGone,
         Wq!Fault, Wq!PrintCode
    <2>5. WqWorkInv'
      BY <1>2 DEF WqInv, WqWorkInv, Wq!QueueIdle, Wq!Works, Wq!TypeOK,
         WqMemInv, WqQueueInv, Wq!TextGone, Wq!Fault, Wq!PrintCode
    <2>6. WqIsrInv'
      BY <1>2 DEF WqInv, WqIsrInv, Wq!Window, WqHeldInv, Wq!TextGone,
         Wq!Fault, Wq!PrintCode
    <2>7. WqReaderInv'
      BY <1>2 DEF WqInv, WqReaderInv, Wq!TypeOK, Wq!ReaderTypeOK, Wq!TextGone,
         Wq!Fault, Wq!PrintCode
    <2>8. WqCountInv'
      BY <1>2, KeysAssumption DEF WqInv, WqCountInv, Wq!Works, Bit, ToStore,
         ToQueue, Wq!TypeOK, WqWorkInv, Wq!QueueIdle, Wq!TextGone, Wq!Fault,
         Wq!PrintCode
    <2>9. WqLastKeyInv'
      BY <1>2, KeysAssumption DEF WqInv, WqLastKeyInv, Wq!Loading,
         Wq!InService, Wq!QueueIdle, Wq!Works, ToStore, ToQueue, Wq!Window,
         Wq!TypeOK, WqIsrInv, WqCountInv, WqMemInv, WqQueueInv, WqWorkInv,
         Wq!TextGone, Wq!Fault, Wq!PrintCode
    <2>10. Wq!FaultNeedsWindow'
      BY <1>2 DEF WqInv, Wq!FaultNeedsWindow, Wq!Running, Wq!TextGone,
         Wq!Fault, Wq!PrintCode
    <2> QED
      BY <2>1, <2>2, <2>3, <2>4, <2>5, <2>6, <2>7, <2>8, <2>9, <2>10 DEF WqInv
  <1> QED
    BY <1>1, <1>2

(* The invariant is kept by open of the /proc file. *)
LEMMA WqMyOpenKeeps == \A r \in Readers : WqInv /\ Wq!MyOpen(r) => WqInv'
  <1> SUFFICES ASSUME NEW r \in Readers, WqInv, Wq!MyOpen(r) PROVE WqInv'
    OBVIOUS
  <1>1. CASE wqUp' = "fault"
    <2>1. Wq!Fault
      BY <1>1 DEF Wq!Running, Wq!MyOpen, Wq!FileOpen, Wq!notFile
    <2>2. wqInWindow \/ wqLife = "rejected"
      BY <1>1 DEF Wq!Running, Wq!TextGone, WqInv, WqReaderInv, Wq!TypeOK,
         WqHeldInv, Wq!MyOpen, Wq!FileOpen, Wq!notFile
    <2> QED
      BY <2>1, <2>2, WqFaultKeeps
  <1>2. CASE wqUp' # "fault"
    <2>1. Wq!TypeOK'
      BY <1>2, KeysAssumption DEF WqInv, Wq!TypeOK, Wq!Loading, Wq!Unloading,
         Wq!Resources, Wq!Queues, Wq!WorkMem, Wq!Works, Wq!ReaderTypeOK,
         WqWorkInv, Wq!QueueIdle, Wq!TextGone, Wq!Fault, Wq!MyOpen,
         Wq!FileOpen, Wq!notFile
    <2>2. WqHeldInv'
      BY <1>2 DEF WqInv, WqHeldInv, Wq!Resources, Wq!Queues, Wq!WorkMem,
         Wq!Works, Wq!TypeOK, WqMemInv, WqWorkInv, WqIsrInv, Wq!QueueIdle,
         Wq!TextGone, Wq!Fault, Wq!MyOpen, Wq!FileOpen, Wq!notFile
    <2>3. WqMemInv'
      BY <1>2 DEF WqInv, WqMemInv, Wq!Unloading, Wq!Works, Wq!TypeOK,
         Wq!TextGone, Wq!Fault, Wq!MyOpen, Wq!FileOpen, Wq!notFile
    <2>4. WqQueueInv'
      BY <1>2 DEF WqInv, WqQueueInv, Wq!Works, Wq!TypeOK, Wq!TextGone,
         Wq!Fault, Wq!MyOpen, Wq!FileOpen, Wq!notFile
    <2>5. WqWorkInv'
      BY <1>2 DEF WqInv, WqWorkInv, Wq!QueueIdle, Wq!Works, Wq!TypeOK,
         WqMemInv, WqQueueInv, Wq!TextGone, Wq!Fault, Wq!MyOpen, Wq!FileOpen,
         Wq!notFile
    <2>6. WqIsrInv'
      BY <1>2 DEF WqInv, WqIsrInv, Wq!Window, WqHeldInv, Wq!TextGone,
         Wq!Fault, Wq!MyOpen, Wq!FileOpen, Wq!notFile
    <2>7. WqReaderInv'
      BY <1>2 DEF WqInv, WqReaderInv, Wq!TypeOK, Wq!ReaderTypeOK, WqHeldInv,
         Wq!Loading, Wq!Unloading, Wq!Resources, Wq!Queues, Wq!WorkMem,
         Wq!TextGone, Wq!Fault, Wq!MyOpen, Wq!FileOpen, Wq!notFile
    <2>8. WqCountInv'
      BY <1>2, KeysAssumption DEF WqInv, WqCountInv, Wq!Works, Bit, ToStore,
         ToQueue, Wq!TypeOK, WqWorkInv, Wq!QueueIdle, Wq!TextGone, Wq!Fault,
         Wq!MyOpen, Wq!FileOpen, Wq!notFile
    <2>9. WqLastKeyInv'
      BY <1>2, KeysAssumption DEF WqInv, WqLastKeyInv, Wq!Loading,
         Wq!InService, Wq!QueueIdle, Wq!Works, ToStore, ToQueue, Wq!Window,
         Wq!TypeOK, WqIsrInv, WqCountInv, WqMemInv, WqQueueInv, WqWorkInv,
         Wq!TextGone, Wq!Fault, Wq!MyOpen, Wq!FileOpen, Wq!notFile
    <2>10. Wq!FaultNeedsWindow'
      BY <1>2 DEF WqInv, Wq!FaultNeedsWindow, Wq!Running, Wq!TextGone,
         Wq!Fault, Wq!MyOpen, Wq!FileOpen, Wq!notFile
    <2> QED
      BY <2>1, <2>2, <2>3, <2>4, <2>5, <2>6, <2>7, <2>8, <2>9, <2>10 DEF WqInv
  <1> QED
    BY <1>1, <1>2

(* The invariant is kept by the begin of a read of the /proc file. *)
LEMMA WqMyReadKeeps == \A r \in Readers : WqInv /\ Wq!MyRead(r) => WqInv'
  <1> SUFFICES ASSUME NEW r \in Readers, WqInv, Wq!MyRead(r) PROVE WqInv'
    OBVIOUS
  <1>1. CASE wqUp' = "fault"
    <2>1. Wq!Fault
      BY <1>1 DEF Wq!Running, Wq!MyRead, Wq!FileEnter, Wq!notFile
    <2>2. wqInWindow \/ wqLife = "rejected"
      BY <1>1 DEF Wq!Running, Wq!TextGone, WqInv, WqReaderInv, Wq!TypeOK,
         WqHeldInv, Wq!MyRead, Wq!FileEnter, Wq!notFile
    <2> QED
      BY <2>1, <2>2, WqFaultKeeps
  <1>2. CASE wqUp' # "fault"
    <2>1. Wq!TypeOK'
      BY <1>2, KeysAssumption DEF WqInv, Wq!TypeOK, Wq!Loading, Wq!Unloading,
         Wq!Resources, Wq!Queues, Wq!WorkMem, Wq!Works, Wq!ReaderTypeOK,
         WqWorkInv, Wq!QueueIdle, Wq!TextGone, Wq!Fault, Wq!MyRead,
         Wq!FileEnter, Wq!notFile
    <2>2. WqHeldInv'
      BY <1>2 DEF WqInv, WqHeldInv, Wq!Resources, Wq!Queues, Wq!WorkMem,
         Wq!Works, Wq!TypeOK, WqMemInv, WqWorkInv, WqIsrInv, Wq!QueueIdle,
         Wq!TextGone, Wq!Fault, Wq!MyRead, Wq!FileEnter, Wq!notFile
    <2>3. WqMemInv'
      BY <1>2 DEF WqInv, WqMemInv, Wq!Unloading, Wq!Works, Wq!TypeOK,
         Wq!TextGone, Wq!Fault, Wq!MyRead, Wq!FileEnter, Wq!notFile
    <2>4. WqQueueInv'
      BY <1>2 DEF WqInv, WqQueueInv, Wq!Works, Wq!TypeOK, Wq!TextGone,
         Wq!Fault, Wq!MyRead, Wq!FileEnter, Wq!notFile
    <2>5. WqWorkInv'
      BY <1>2 DEF WqInv, WqWorkInv, Wq!QueueIdle, Wq!Works, Wq!TypeOK,
         WqMemInv, WqQueueInv, Wq!TextGone, Wq!Fault, Wq!MyRead, Wq!FileEnter,
         Wq!notFile
    <2>6. WqIsrInv'
      BY <1>2 DEF WqInv, WqIsrInv, Wq!Window, WqHeldInv, Wq!TextGone,
         Wq!Fault, Wq!MyRead, Wq!FileEnter, Wq!notFile
    <2>7. WqReaderInv'
      BY <1>2 DEF WqInv, WqReaderInv, Wq!TypeOK, Wq!ReaderTypeOK, Wq!TextGone,
         Wq!Fault, Wq!MyRead, Wq!FileEnter, Wq!notFile
    <2>8. WqCountInv'
      BY <1>2, KeysAssumption DEF WqInv, WqCountInv, Wq!Works, Bit, ToStore,
         ToQueue, Wq!TypeOK, WqWorkInv, Wq!QueueIdle, Wq!TextGone, Wq!Fault,
         Wq!MyRead, Wq!FileEnter, Wq!notFile
    <2>9. WqLastKeyInv'
      BY <1>2, KeysAssumption DEF WqInv, WqLastKeyInv, Wq!Loading,
         Wq!InService, Wq!QueueIdle, Wq!Works, ToStore, ToQueue, Wq!Window,
         Wq!TypeOK, WqIsrInv, WqCountInv, WqMemInv, WqQueueInv, WqWorkInv,
         Wq!TextGone, Wq!Fault, Wq!MyRead, Wq!FileEnter, Wq!notFile
    <2>10. Wq!FaultNeedsWindow'
      BY <1>2 DEF WqInv, Wq!FaultNeedsWindow, Wq!Running, Wq!TextGone,
         Wq!Fault, Wq!MyRead, Wq!FileEnter, Wq!notFile
    <2> QED
      BY <2>1, <2>2, <2>3, <2>4, <2>5, <2>6, <2>7, <2>8, <2>9, <2>10 DEF WqInv
  <1> QED
    BY <1>1, <1>2

(* The invariant is kept by the end of a read of the /proc file. *)
LEMMA WqMyShowKeeps == \A r \in Readers : WqInv /\ Wq!MyShow(r) => WqInv'
  <1> SUFFICES ASSUME NEW r \in Readers, WqInv, Wq!MyShow(r) PROVE WqInv'
    OBVIOUS
  <1>1. CASE wqUp' = "fault"
    <2>1. Wq!Fault
      BY <1>1 DEF Wq!Running, Wq!MyShow, Wq!FileLeave, Wq!notFile
    <2>2. wqInWindow \/ wqLife = "rejected"
      BY <1>1 DEF Wq!Running, Wq!TextGone, WqInv, WqReaderInv, Wq!TypeOK,
         WqHeldInv, Wq!MyShow, Wq!FileLeave, Wq!notFile
    <2> QED
      BY <2>1, <2>2, WqFaultKeeps
  <1>2. CASE wqUp' # "fault"
    <2>1. Wq!TypeOK'
      BY <1>2, KeysAssumption DEF WqInv, Wq!TypeOK, Wq!Loading, Wq!Unloading,
         Wq!Resources, Wq!Queues, Wq!WorkMem, Wq!Works, Wq!ReaderTypeOK,
         WqWorkInv, Wq!QueueIdle, Wq!TextGone, Wq!Fault, Wq!MyShow,
         Wq!FileLeave, Wq!notFile
    <2>2. WqHeldInv'
      BY <1>2 DEF WqInv, WqHeldInv, Wq!Resources, Wq!Queues, Wq!WorkMem,
         Wq!Works, Wq!TypeOK, WqMemInv, WqWorkInv, WqIsrInv, Wq!QueueIdle,
         Wq!TextGone, Wq!Fault, Wq!MyShow, Wq!FileLeave, Wq!notFile
    <2>3. WqMemInv'
      BY <1>2 DEF WqInv, WqMemInv, Wq!Unloading, Wq!Works, Wq!TypeOK,
         Wq!TextGone, Wq!Fault, Wq!MyShow, Wq!FileLeave, Wq!notFile
    <2>4. WqQueueInv'
      BY <1>2 DEF WqInv, WqQueueInv, Wq!Works, Wq!TypeOK, Wq!TextGone,
         Wq!Fault, Wq!MyShow, Wq!FileLeave, Wq!notFile
    <2>5. WqWorkInv'
      BY <1>2 DEF WqInv, WqWorkInv, Wq!QueueIdle, Wq!Works, Wq!TypeOK,
         WqMemInv, WqQueueInv, Wq!TextGone, Wq!Fault, Wq!MyShow, Wq!FileLeave,
         Wq!notFile
    <2>6. WqIsrInv'
      BY <1>2 DEF WqInv, WqIsrInv, Wq!Window, WqHeldInv, Wq!TextGone,
         Wq!Fault, Wq!MyShow, Wq!FileLeave, Wq!notFile
    <2>7. WqReaderInv'
      BY <1>2 DEF WqInv, WqReaderInv, Wq!TypeOK, Wq!ReaderTypeOK, Wq!TextGone,
         Wq!Fault, Wq!MyShow, Wq!FileLeave, Wq!notFile
    <2>8. WqCountInv'
      BY <1>2, KeysAssumption DEF WqInv, WqCountInv, Wq!Works, Bit, ToStore,
         ToQueue, Wq!TypeOK, WqWorkInv, Wq!QueueIdle, Wq!TextGone, Wq!Fault,
         Wq!MyShow, Wq!FileLeave, Wq!notFile
    <2>9. WqLastKeyInv'
      BY <1>2, KeysAssumption DEF WqInv, WqLastKeyInv, Wq!Loading,
         Wq!InService, Wq!QueueIdle, Wq!Works, ToStore, ToQueue, Wq!Window,
         Wq!TypeOK, WqIsrInv, WqCountInv, WqMemInv, WqQueueInv, WqWorkInv,
         Wq!TextGone, Wq!Fault, Wq!MyShow, Wq!FileLeave, Wq!notFile
    <2>10. Wq!FaultNeedsWindow'
      BY <1>2 DEF WqInv, Wq!FaultNeedsWindow, Wq!Running, Wq!TextGone,
         Wq!Fault, Wq!MyShow, Wq!FileLeave, Wq!notFile
    <2> QED
      BY <2>1, <2>2, <2>3, <2>4, <2>5, <2>6, <2>7, <2>8, <2>9, <2>10 DEF WqInv
  <1> QED
    BY <1>1, <1>2

(* The invariant is kept by close of the /proc file. *)
LEMMA WqMyReleaseKeeps == \A r \in Readers : WqInv /\ Wq!MyRelease(r) => WqInv'
  <1> SUFFICES ASSUME NEW r \in Readers, WqInv, Wq!MyRelease(r) PROVE WqInv'
    OBVIOUS
  <1>1. CASE wqUp' = "fault"
    <2>1. Wq!Fault
      BY <1>1 DEF Wq!Running, Wq!MyRelease, Wq!FileRelease, Wq!notFile
    <2>2. wqInWindow \/ wqLife = "rejected"
      BY <1>1 DEF Wq!Running, Wq!TextGone, WqInv, WqReaderInv, Wq!TypeOK,
         WqHeldInv, Wq!MyRelease, Wq!FileRelease, Wq!notFile
    <2> QED
      BY <2>1, <2>2, WqFaultKeeps
  <1>2. CASE wqUp' # "fault"
    <2>1. Wq!TypeOK'
      BY <1>2, KeysAssumption DEF WqInv, Wq!TypeOK, Wq!Loading, Wq!Unloading,
         Wq!Resources, Wq!Queues, Wq!WorkMem, Wq!Works, Wq!ReaderTypeOK,
         WqWorkInv, Wq!QueueIdle, Wq!TextGone, Wq!Fault, Wq!MyRelease,
         Wq!FileRelease, Wq!notFile
    <2>2. WqHeldInv'
      BY <1>2 DEF WqInv, WqHeldInv, Wq!Resources, Wq!Queues, Wq!WorkMem,
         Wq!Works, Wq!TypeOK, WqMemInv, WqWorkInv, WqIsrInv, Wq!QueueIdle,
         Wq!TextGone, Wq!Fault, Wq!MyRelease, Wq!FileRelease, Wq!notFile
    <2>3. WqMemInv'
      BY <1>2 DEF WqInv, WqMemInv, Wq!Unloading, Wq!Works, Wq!TypeOK,
         Wq!TextGone, Wq!Fault, Wq!MyRelease, Wq!FileRelease, Wq!notFile
    <2>4. WqQueueInv'
      BY <1>2 DEF WqInv, WqQueueInv, Wq!Works, Wq!TypeOK, Wq!TextGone,
         Wq!Fault, Wq!MyRelease, Wq!FileRelease, Wq!notFile
    <2>5. WqWorkInv'
      BY <1>2 DEF WqInv, WqWorkInv, Wq!QueueIdle, Wq!Works, Wq!TypeOK,
         WqMemInv, WqQueueInv, Wq!TextGone, Wq!Fault, Wq!MyRelease,
         Wq!FileRelease, Wq!notFile
    <2>6. WqIsrInv'
      BY <1>2 DEF WqInv, WqIsrInv, Wq!Window, WqHeldInv, Wq!TextGone,
         Wq!Fault, Wq!MyRelease, Wq!FileRelease, Wq!notFile
    <2>7. WqReaderInv'
      BY <1>2 DEF WqInv, WqReaderInv, Wq!TypeOK, Wq!ReaderTypeOK, Wq!TextGone,
         Wq!Fault, Wq!MyRelease, Wq!FileRelease, Wq!notFile
    <2>8. WqCountInv'
      BY <1>2, KeysAssumption DEF WqInv, WqCountInv, Wq!Works, Bit, ToStore,
         ToQueue, Wq!TypeOK, WqWorkInv, Wq!QueueIdle, Wq!TextGone, Wq!Fault,
         Wq!MyRelease, Wq!FileRelease, Wq!notFile
    <2>9. WqLastKeyInv'
      BY <1>2, KeysAssumption DEF WqInv, WqLastKeyInv, Wq!Loading,
         Wq!InService, Wq!QueueIdle, Wq!Works, ToStore, ToQueue, Wq!Window,
         Wq!TypeOK, WqIsrInv, WqCountInv, WqMemInv, WqQueueInv, WqWorkInv,
         Wq!TextGone, Wq!Fault, Wq!MyRelease, Wq!FileRelease, Wq!notFile
    <2>10. Wq!FaultNeedsWindow'
      BY <1>2 DEF WqInv, Wq!FaultNeedsWindow, Wq!Running, Wq!TextGone,
         Wq!Fault, Wq!MyRelease, Wq!FileRelease, Wq!notFile
    <2> QED
      BY <2>1, <2>2, <2>3, <2>4, <2>5, <2>6, <2>7, <2>8, <2>9, <2>10 DEF WqInv
  <1> QED
    BY <1>1, <1>2

(* Every step keeps the invariant. *)
LEMMA WqStepHolds == WqInv /\ [Wq!Next]_Wq!vars => WqInv'
  <1> SUFFICES ASSUME WqInv, [Wq!Next]_Wq!vars PROVE WqInv'
    OBVIOUS
  <1>1. CASE UNCHANGED Wq!vars
    BY <1>1 DEF WqInv, Wq!TypeOK, Wq!ReaderTypeOK, WqHeldInv, WqMemInv,
       WqQueueInv, WqWorkInv, WqIsrInv, WqReaderInv, WqCountInv, WqLastKeyInv,
       Wq!QueueIdle, Wq!FaultNeedsWindow
  <1>2. CASE Wq!MywqInit
    BY <1>2, WqRequestIrqKeeps, WqAllocWorkqueue1Keeps,
       WqAllocWorkqueue2Keeps, WqKmalloc1Keeps, WqInitWork1Keeps,
       WqKmalloc2Keeps, WqInitWork2Keeps, WqProcCreateKeeps, WqProcLinksKeeps
       DEF Wq!MywqInit
  <1>3. CASE Wq!ProcRemove \/ Wq!MywqExitStarted
    BY <1>3, WqProcRemoveKeeps, WqFlush1Keeps, WqFlush2Keeps,
       WqBeginDestroy1Keeps, WqBeginDestroy2Keeps, WqEndDestroy1Keeps,
       WqEndDestroy2Keeps, WqFreeIrqKeeps, WqKfreeKeeps DEF Wq!MywqExitStarted
  <1>4. CASE Wq!IrqEnter \/ Wq!MyIrqHandlerStarted
    BY <1>4, WqIrqEnterKeeps, WqIrqStore1Keeps, WqIrqStore2Keeps,
       WqIrqQueue1Keeps, WqIrqQueue2Keeps DEF Wq!MyIrqHandlerStarted
  <1>5. CASE \E w \in Wq!Works : Wq!Worker(w)
    BY <1>5, WqStartWorkKeeps, WqPrintCodeKeeps DEF Wq!Worker
  <1>6. CASE Wq!ProcCalls
    BY <1>6, WqMyOpenKeeps, WqMyReadKeeps, WqMyShowKeeps, WqMyReleaseKeeps DEF
       Wq!ProcCalls
  <1> QED
    BY <1>1, <1>2, <1>3, <1>4, <1>5, <1>6 DEF Wq!Next

(* WqInv is an invariant of mywq.c, its interrupts, works and readers. *)
THEOREM WorkQueueInvariant == AllSpec => []WqInv
<1>1. AllInit => Wq!Init
  BY DEF AllInit
<1>2. [AllNext]_allVars => [Wq!Next]_Wq!vars
  BY DEF AllNext, TaskletStep, WorkQueueStep, allVars, wqVars, taskVars
<1> QED
  BY WqInitHolds, WqStepHolds, <1>1, <1>2, PTL DEF AllSpec

(* mywq.c touches memory that is not there only after a handler ran before  *)
(* INIT_WORK of work_2 or after the destruction of mywq1, or after a failed *)
(* mywq_init.                                                               *)
THEOREM WqFaultsExplained == AllSpec => []WqFaultNeedsWindow
<1>1. WqInv => WqFaultNeedsWindow
  BY DEF WqInv, WqFaultNeedsWindow
<1> QED
  BY WorkQueueInvariant, <1>1, PTL

(* mywq_exit gives everything back with nothing in use, and a failed        *)
(* mywq_init has freed the irq or left all that its handler needs.          *)
THEOREM WqUnloadIsClean == AllSpec => []LeftBehind
<1>1. WqInv => LeftBehind
  <2> SUFFICES ASSUME WqInv PROVE Wq!LeftBehind
    BY DEF LeftBehind
  <2>1. Wq!TypeOK
    BY DEF WqInv
  <2>2. ASSUME wqLife = "gone"
        PROVE  /\ wqHeld = {} /\ wqIsr = "idle"
               /\ \A w \in Wq!Works : Wq!QueueIdle(w)
               /\ Wq!NobodyReads
    <3>1. \A w \in Wq!Works : Wq!QueueIdle(w)
      BY <2>2, WqGoneIsIdle
    <3>2. wqHeld = {} /\ wqIsr = "idle"
      BY <2>2 DEF WqInv, WqHeldInv, WqIsrInv
    <3>3. Wq!NobodyReads
      BY <2>2 DEF WqInv, WqReaderInv, Wq!NobodyReads
    <3> QED
      BY <3>1, <3>2, <3>3
  <2>3. wqLife = "rejected" =>
          \/ /\ wqHeld \in {{}, {"mywq1"}, Wq!Queues}
             /\ wqIsr = "idle" /\ \A w \in Wq!Works : Wq!QueueIdle(w)
          \/ ({"irq"} \cup Wq!Queues \cup Wq!WorkMem) \subseteq wqHeld
    BY DEF WqInv, WqHeldInv
  <2> QED
    BY <2>1, <2>2, <2>3 DEF Wq!LeftBehind
<1> QED
  BY WorkQueueInvariant, <1>1, PTL

(* While mywq.c is in service both functions have printed the last key when *)
(* everything has come to rest, and none prints a key more than three times.*)
THEOREM WqLastKeyKept == AllSpec => []WqLastKeyNotLost
<1>1. WqInv => WqLastKeyNotLost
  BY DEF WqInv, WqCountInv, WqLastKeyInv, ToStore, ToQueue, Wq!Works,
     WqLastKeyNotLost, Wq!LastKeyNotLost
<1> QED
  BY WorkQueueInvariant, <1>1, PTL
=============================================================================
