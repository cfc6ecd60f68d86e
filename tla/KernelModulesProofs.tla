------------------------ MODULE KernelModulesProofs ------------------------
(***************************************************************************)
(* The two file system modules, for every number of objects and of mount   *)
(* points: what they hold when they are unloaded, and what may dangle.     *)
(* The seq file module, for every number of files and of records, whatever *)
(* their size and that of the buffer: what it delivers, and what it leaks. *)
(* The single file module, for every number of processes, tasks and texts  *)
(* and every size of its buffer: what a read shows, and what may go wrong. *)
(***************************************************************************)
EXTENDS MCKernelModules, Sequences, NumberLemmas, FiniteSetTheorems, TLAPS

-----------------------------------------------------------------------------
(* main.c *)

InInit == {"register", "kmalloc", "create", "alloc"}
InExit == {"free", "unregister"}

(* the kernel's view of the module and the module's own agree               *)
StateOfPc ==
    /\ pc \in InInit => mstate = "coming"
    /\ pc = "loaded" => mstate = "live"
    /\ pc \in InExit => mstate = "going"
    /\ pc = "unloaded" => mstate = "freed"

(* Unless an init has failed with the entry in the list, nothing is stale;  *)
(* the entry is in the list from register_filesystem to the end of          *)
(* myfs_exit, and there are mounts only meanwhile, and none when the module *)
(* is on its way out.                                                       *)
Fresh ==
    /\ entry # "stale" /\ \A m \in Mounts : mount[m] # "stale"
    /\ up # "freed text"
    /\ pc \in {"unloaded", "register"} => entry = "none"
    /\ pc \in {"kmalloc", "create", "alloc", "loaded", "free"} => entry = "listed"
    /\ pc \in {"unloaded", "register"} \cup InExit => \A m \in Mounts : mount[m] = "none"

IInv == HoldsWhatItTook /\ StateOfPc /\ (failed \/ Fresh)

(* The initial states satisfy the invariant.                                *)
LEMMA InitIInv == Init => IInv
<1> SUFFICES ASSUME Init PROVE IInv
    OBVIOUS
<1>1. HoldsWhatItTook
    <2>1. failed \in BOOLEAN
        BY DEF Init, KernelInit
    <2>. QED
        BY <2>1, NumberAssumption DEF Init, KernelInit, HoldsWhatItTook, TypeOK, KernelTypeOK
<1>2. StateOfPc /\ Fresh
    BY DEF Init, KernelInit, StateOfPc, Fresh, InInit, InExit
<1>. QED
    BY <1>1, <1>2 DEF IInv

(* The invariant implies the property.                                      *)
LEMMA IInvImplies == IInv => UnloadsClean
BY DEF IInv, UnloadsClean, NoDangling, StateOfPc, Fresh, InInit, InExit, HoldsWhatItTook, TypeOK

(* A round of the loop that fills the table preserves it.                   *)
LEMMA CacheAllocIInv == IInv /\ CacheAlloc => IInv'
<1> SUFFICES ASSUME IInv, CacheAlloc PROVE IInv'
    OBVIOUS
<1>1. /\ pc = "alloc" /\ "slab" \in held /\ "cache" \in held /\ held \subseteq {"slab", "cache"}
      /\ objs \in Nat /\ Number \in Nat \ {0} /\ objs < Number /\ KernelTypeOK
    BY NumberAssumption DEF IInv, HoldsWhatItTook, TypeOK, CacheAlloc
<1>2. mstate = "coming" /\ (failed \/ Fresh)
    BY <1>1 DEF IInv, StateOfPc, InInit
<1>3. CASE InitFails /\ objs' = 0 /\ held' = {}
    <2>1. KernelTypeOK'
        BY <1>1, <1>3 DEF InitFails, FreeModule, KernelTypeOK
    <2>2. mstate' = "freed" /\ pc' = "unloaded" /\ (failed' \/ Fresh')
        BY <1>1, <1>2, <1>3 DEF InitFails, FreeModule, KernelTypeOK, Fresh, InExit
    <2>3. HoldsWhatItTook'
        BY <1>1, <1>3, <2>1, <2>2 DEF HoldsWhatItTook, TypeOK
    <2>. QED
        BY <2>2, <2>3 DEF IInv, StateOfPc, InInit, InExit
<1>4. CASE objs + 1 < Number /\ objs' = objs + 1 /\ UNCHANGED <<held, kVars, pc>>
    <2>1. KernelTypeOK'
        BY <1>1, <1>4 DEF kVars, KernelTypeOK
    <2>2. HoldsWhatItTook'
        BY <1>1, <1>4, <2>1 DEF HoldsWhatItTook, TypeOK
    <2>3. failed' \/ Fresh'
        BY <1>1, <1>2, <1>4 DEF kVars, KernelTypeOK, Fresh, InExit
    <2>4. StateOfPc'
        BY <1>1, <1>2, <1>4 DEF kVars, StateOfPc, InInit, InExit
    <2>. QED
        BY <2>2, <2>3, <2>4 DEF IInv
<1>5. CASE ~(objs + 1 < Number) /\ objs' = objs + 1 /\ UNCHANGED held /\ Becomes("live") /\ pc' = "loaded"
    <2>1. KernelTypeOK'
        BY <1>1, <1>5 DEF Becomes, KernelTypeOK
    <2>2. HoldsWhatItTook'
        BY <1>1, <1>5, <2>1 DEF HoldsWhatItTook, TypeOK
    <2>3. failed' \/ Fresh'
        BY <1>1, <1>2, <1>5 DEF Becomes, KernelTypeOK, Fresh, InExit
    <2>4. StateOfPc'
        BY <1>1, <1>2, <1>5 DEF Becomes, StateOfPc, InInit, InExit
    <2>. QED
        BY <2>2, <2>3, <2>4 DEF IInv
<1>. QED
    BY <1>3, <1>4, <1>5 DEF CacheAlloc

(* Every step preserves the invariant.                                      *)
LEMMA StepIInv == IInv /\ [Next]_vars => IInv'
<1> SUFFICES ASSUME IInv, [Next]_vars PROVE IInv'
    OBVIOUS
<1> USE NumberAssumption DEF IInv, HoldsWhatItTook, TypeOK, KernelTypeOK, StateOfPc, Fresh,
                             InInit, InExit, mVars, kVars, Running
<1>1. CASE Insmod
    BY <1>1 DEF Insmod, Load, Becomes
<1>2. CASE Register
    BY <1>2 DEF Register, RegisterFilesystem, InitFails, FreeModule, Oops
<1>3. CASE Kmalloc
    BY <1>3 DEF Kmalloc, InitFails, FreeModule
<1>4. CASE CacheCreate
    <2>1. CASE InitFails /\ held' = held \ {"slab"} /\ UNCHANGED objs
        <3>1. pc = "create" /\ held = {"slab"} /\ objs = 0
            BY <1>4 DEF CacheCreate
        <3>2. KernelTypeOK' /\ mstate' = "freed" /\ pc' = "unloaded" /\ (failed' \/ Fresh')
            BY <2>1, <3>1 DEF InitFails, FreeModule
        <3>. QED
            BY <2>1, <3>1, <3>2
    <2>2. CASE held' = held \cup {"cache"} /\ pc' = "alloc" /\ UNCHANGED <<kVars, objs>>
        BY <1>4, <2>2 DEF CacheCreate
    <2>. QED
        BY <1>4, <2>1, <2>2 DEF CacheCreate
<1>5. CASE CacheAlloc
    BY <1>5, CacheAllocIInv
<1>6. CASE Rmmod
    BY <1>6 DEF Rmmod, DeleteModule, Becomes
<1>7. CASE ExitFree
    BY <1>7 DEF ExitFree
<1>8. CASE ExitUnregister
    BY <1>8 DEF ExitUnregister, UnregisterFilesystem, FreeModule
<1>9. ASSUME NEW m \in Mounts, Lookup(m) PROVE IInv'
    BY <1>9 DEF Lookup, GetFsType, Oops, SetMount
<1>10. ASSUME NEW m \in Mounts, Mount(m) PROVE IInv'
    BY <1>10 DEF Mount, Oops, SetMount
<1>11. ASSUME NEW m \in Mounts, Umount(m) PROVE IInv'
    BY <1>11 DEF Umount, SetMount
<1>12. ASSUME NEW m \in Mounts, UseFreed(m) PROVE IInv'
    BY <1>12 DEF UseFreed, Oops
<1>13. CASE UNCHANGED vars
    BY <1>13 DEF vars
<1>. QED
    BY <1>1, <1>2, <1>3, <1>4, <1>5, <1>6, <1>7, <1>8, <1>9, <1>10, <1>11, <1>12, <1>13 DEF Next

(* myfs_init and myfs_exit return all memory on every path, and nothing     *)
(* points at a freed module but after a myfs_init that failed behind        *)
(* register_filesystem.                                                     *)
THEOREM VfsUnloadsClean == AllSpec => []UnloadsClean
<1>1. Init => IInv
    BY InitIInv
<1>2. IInv /\ [Next]_vars => IInv'
    BY StepIInv
<1>3. IInv => UnloadsClean
    BY IInvImplies
<1>4. AllInit => Init
    BY DEF AllInit
<1>5. [AllNext]_allVars => [Next]_vars
    BY DEF AllNext, VfsStep, MyVfsStep, SeqFileStep, SingleFileStep, allVars, vfsVars
<1>. QED
    BY <1>1, <1>2, <1>3, <1>4, <1>5, PTL DEF AllSpec

-----------------------------------------------------------------------------
(* myvfs.c *)


(* the kernel's view of the module and the module's own agree               *)
MyStateOfPc ==
    /\ myPc \in InInit => myMstate = "coming"
    /\ myPc = "loaded" => myMstate = "live"
    /\ myPc = "exit" => myMstate = "going"
    /\ myPc = "unloaded" => myMstate = "freed"

(* the memory held at each statement                                        *)
HeldOfPc ==
    /\ myPc \in {"unloaded", "register", "kmalloc"} => myHeld = {}
    /\ myPc = "create" => myHeld = {"area"}
    /\ myPc = "alloc" => myHeld = {"area", "cache"}
    /\ myPc = "loaded" => myHeld = {"area", "cache", "object"}

(* Unless an init has failed with the entry in the list, nothing is stale;  *)
(* the entry is in the list from register_filesystem to my_vfs_exit, and    *)
(* there are mounts only while the module is not on its way out.            *)
MyFresh ==
    /\ myEntry # "stale" /\ \A m \in Mounts : myMount[m] # "stale"
    /\ myUp # "freed text"
    /\ myPc \in {"unloaded", "register"} => myEntry = "none"
    /\ myPc \in {"kmalloc", "create", "alloc", "loaded"} => myEntry = "listed"
    /\ myPc \in {"unloaded", "register", "exit"} => \A m \in Mounts : myMount[m] = "none"

MyIInv == My!TypeOK /\ MyStateOfPc /\ HeldOfPc /\ (myFailed \/ MyFresh)

(* The initial states satisfy the invariant.                                *)
LEMMA MyInitIInv == My!Init => MyIInv
<1> SUFFICES ASSUME My!Init PROVE MyIInv
    OBVIOUS
<1>1. My!TypeOK
    <2>1. myFailed \in BOOLEAN
        BY DEF My!Init, My!KernelInit
    <2>. QED
        BY <2>1 DEF My!Init, My!KernelInit, My!TypeOK, My!KernelTypeOK
<1>2. MyStateOfPc /\ HeldOfPc /\ MyFresh
    BY DEF My!Init, My!KernelInit, MyStateOfPc, HeldOfPc, MyFresh, InInit
<1>. QED
    BY <1>1, <1>2 DEF MyIInv

(* The invariant implies the property.                                      *)
LEMMA MyIInvImplies == MyIInv => My!MyUnloadsClean
<1> SUFFICES ASSUME MyIInv PROVE My!MyUnloadsClean
    OBVIOUS
<1>1. myMstate = "freed" => myPc = "unloaded"
    BY DEF MyIInv, My!TypeOK, MyStateOfPc, InInit
<1>2. myMstate = "live" => myPc = "loaded"
    BY DEF MyIInv, My!TypeOK, MyStateOfPc, InInit
<1>3. My!NoDangling
    BY <1>1 DEF MyIInv, My!NoDangling, MyFresh
<1>. QED
    BY <1>1, <1>2, <1>3 DEF MyIInv, My!MyUnloadsClean, HeldOfPc

(* An error return of my_vfs_init that leaves no memory preserves it.       *)
LEMMA MyFailedInit ==
    ASSUME MyIInv, myPc \in InInit, My!FreeModule(TRUE), myPc' = "unloaded", myHeld' = {}
    PROVE  MyIInv'
<1>1. My!TypeOK'
    BY DEF MyIInv, My!TypeOK, My!KernelTypeOK, My!FreeModule
<1>2. MyStateOfPc' /\ HeldOfPc'
    BY DEF My!FreeModule, MyStateOfPc, HeldOfPc, InInit
<1>3. myFailed' \/ MyFresh'
    BY DEF MyIInv, My!TypeOK, My!KernelTypeOK, My!FreeModule, MyFresh, InInit
<1>. QED
    BY <1>1, <1>2, <1>3 DEF MyIInv

(* Every step preserves the invariant.                                      *)
LEMMA MyStepIInv == MyIInv /\ [My!Next]_My!vars => MyIInv'
<1> SUFFICES ASSUME MyIInv, [My!Next]_My!vars PROVE MyIInv'
    OBVIOUS
<1>1. CASE My!Insmod
    BY <1>1 DEF My!Insmod, My!Load, My!Becomes, MyIInv, My!TypeOK, My!KernelTypeOK, MyStateOfPc, HeldOfPc, MyFresh, InInit
<1>2. CASE My!Register
    <2>1. CASE My!RegisterFilesystem /\ myPc' = "kmalloc" /\ UNCHANGED myHeld
        BY <1>2, <2>1 DEF My!Register, My!RegisterFilesystem, MyIInv, My!TypeOK, My!KernelTypeOK, MyStateOfPc, HeldOfPc, MyFresh, InInit
    <2>2. CASE My!FreeModule(TRUE) /\ myPc' = "unloaded" /\ UNCHANGED myHeld
        BY <1>2, <2>2, MyFailedInit DEF My!Register, MyIInv, HeldOfPc, InInit
    <2>3. CASE myEntry = "stale" /\ My!Oops("freed text") /\ UNCHANGED <<myPc, myHeld>>
        BY <2>3 DEF My!Oops, MyIInv, My!TypeOK, My!KernelTypeOK, MyStateOfPc, HeldOfPc, MyFresh, InInit
    <2>. QED
        BY <1>2, <2>1, <2>2, <2>3 DEF My!Register
<1>3. CASE My!Obtain("kmalloc", "area", "create")
    <2>1. CASE myHeld' = {} /\ myPc' = "unloaded" /\ My!FreeModule(TRUE)
        BY <1>3, <2>1, MyFailedInit DEF My!Obtain, InInit
    <2>2. CASE myHeld' = myHeld \cup {"area"} /\ myPc' = "create" /\ UNCHANGED My!kVars
        BY <1>3, <2>2 DEF My!Obtain, My!kVars, MyIInv, My!TypeOK, My!KernelTypeOK, MyStateOfPc, HeldOfPc, MyFresh, InInit
    <2>. QED
        BY <1>3, <2>1, <2>2 DEF My!Obtain
<1>4. CASE My!Obtain("create", "cache", "alloc")
    <2>1. CASE myHeld' = {} /\ myPc' = "unloaded" /\ My!FreeModule(TRUE)
        BY <1>4, <2>1, MyFailedInit DEF My!Obtain, InInit
    <2>2. CASE myHeld' = myHeld \cup {"cache"} /\ myPc' = "alloc" /\ UNCHANGED My!kVars
        BY <1>4, <2>2 DEF My!Obtain, My!kVars, MyIInv, My!TypeOK, My!KernelTypeOK, MyStateOfPc, HeldOfPc, MyFresh, InInit
    <2>. QED
        BY <1>4, <2>1, <2>2 DEF My!Obtain
<1>5. CASE My!CacheAlloc
    <2>1. CASE myHeld' = {} /\ myPc' = "unloaded" /\ My!FreeModule(TRUE)
        BY <1>5, <2>1, MyFailedInit DEF My!CacheAlloc, InInit
    <2>2. CASE myHeld' = myHeld \cup {"object"} /\ myPc' = "loaded" /\ My!Becomes("live")
        BY <1>5, <2>2 DEF My!CacheAlloc, My!Becomes, MyIInv, My!TypeOK, My!KernelTypeOK, MyStateOfPc, HeldOfPc, MyFresh, InInit
    <2>3. CASE My!Oops("free of NULL") /\ UNCHANGED <<myPc, myHeld>>
        BY <2>3 DEF My!Oops, MyIInv, My!TypeOK, My!KernelTypeOK, MyStateOfPc, HeldOfPc, MyFresh, InInit
    <2>. QED
        BY <1>5, <2>1, <2>2, <2>3 DEF My!CacheAlloc
<1>6. CASE My!Rmmod
    BY <1>6 DEF My!Rmmod, My!DeleteModule, My!Becomes, MyIInv, My!TypeOK, My!KernelTypeOK, MyStateOfPc, HeldOfPc, MyFresh, InInit
<1>7. CASE My!Exit
    <2>1. CASE myHeld' = {} /\ UNCHANGED <<My!kVars, myPc>>
        BY <1>7, <2>1 DEF My!Exit, My!kVars, MyIInv, My!TypeOK, My!KernelTypeOK, MyStateOfPc, HeldOfPc, MyFresh, InInit
    <2>2. CASE My!UnregisterFilesystem /\ UNCHANGED <<myPc, myHeld>>
        BY <1>7, <2>2 DEF My!Exit, My!UnregisterFilesystem, MyIInv, My!TypeOK, My!KernelTypeOK, MyStateOfPc, HeldOfPc, MyFresh, InInit
    <2>3. CASE myHeld = {} /\ myEntry = "none" /\ My!FreeModule(FALSE) /\ myPc' = "unloaded" /\ UNCHANGED myHeld
        BY <1>7, <2>3 DEF My!Exit, My!FreeModule, MyIInv, My!TypeOK, My!KernelTypeOK, MyStateOfPc, HeldOfPc, MyFresh, InInit
    <2>. QED
        BY <1>7, <2>1, <2>2, <2>3 DEF My!Exit
<1>8. ASSUME NEW m \in Mounts, My!Lookup(m) PROVE MyIInv'
    <2>1. My!TypeOK'
        BY <1>8 DEF My!Lookup, My!GetFsType, My!Oops, My!SetMount, MyIInv, My!TypeOK, My!KernelTypeOK
    <2>2. MyStateOfPc' /\ HeldOfPc'
        BY <1>8 DEF My!Lookup, My!GetFsType, My!Oops, My!SetMount, MyIInv, MyStateOfPc, HeldOfPc
    <2>3. myFailed' \/ MyFresh'
        <3>1. CASE myFailed
            BY <1>8, <3>1 DEF My!Lookup, My!GetFsType, My!Oops, My!SetMount
        <3>2. CASE MyFresh
            <4>1. myPc \notin {"unloaded", "register", "exit"}
                BY <1>8, <3>2 DEF My!Lookup, My!GetFsType, My!Oops, My!SetMount, MyIInv, MyStateOfPc, MyFresh, InInit
            <4>. QED
                BY <1>8, <3>2, <4>1 DEF My!Lookup, My!GetFsType, My!Oops, My!SetMount, MyIInv, My!TypeOK, My!KernelTypeOK, MyFresh
        <3>. QED
            BY <3>1, <3>2 DEF MyIInv
    <2>. QED
        BY <2>1, <2>2, <2>3 DEF MyIInv
<1>9. ASSUME NEW m \in Mounts, My!Mount(m) PROVE MyIInv'
    <2>1. My!TypeOK'
        BY <1>9 DEF My!Mount, My!SetMount, MyIInv, My!TypeOK, My!KernelTypeOK
    <2>2. MyStateOfPc' /\ HeldOfPc'
        BY <1>9 DEF My!Mount, My!SetMount, MyIInv, MyStateOfPc, HeldOfPc
    <2>3. myFailed' \/ MyFresh'
        <3>1. CASE myFailed
            BY <1>9, <3>1 DEF My!Mount, My!SetMount
        <3>2. CASE MyFresh
            <4>1. myPc \notin {"unloaded", "register", "exit"}
                BY <1>9, <3>2 DEF My!Mount, My!SetMount, MyIInv, MyStateOfPc, MyFresh, InInit
            <4>. QED
                BY <1>9, <3>2, <4>1 DEF My!Mount, My!SetMount, MyIInv, My!TypeOK, My!KernelTypeOK, MyFresh
        <3>. QED
            BY <3>1, <3>2 DEF MyIInv
    <2>. QED
        BY <2>1, <2>2, <2>3 DEF MyIInv
<1>10. ASSUME NEW m \in Mounts, My!NoRoot(m) PROVE MyIInv'
    BY <1>10 DEF My!NoRoot, My!Oops, MyIInv, My!TypeOK, My!KernelTypeOK, MyStateOfPc, HeldOfPc, MyFresh, InInit
<1>11. ASSUME NEW m \in Mounts, My!Umount(m) PROVE MyIInv'
    BY <1>11 DEF My!Umount, My!SetMount, MyIInv, My!TypeOK, My!KernelTypeOK, MyStateOfPc, HeldOfPc, MyFresh, InInit
<1>12. ASSUME NEW m \in Mounts, My!UseFreed(m) PROVE MyIInv'
    BY <1>12 DEF My!UseFreed, My!Oops, MyIInv, My!TypeOK, My!KernelTypeOK, MyStateOfPc, HeldOfPc, MyFresh, InInit
<1>13. CASE UNCHANGED My!vars
    BY <1>13 DEF My!vars, My!kVars, MyIInv, My!TypeOK, My!KernelTypeOK, MyStateOfPc, HeldOfPc, MyFresh, InInit
<1>. QED
    BY <1>1, <1>2, <1>3, <1>4, <1>5, <1>6, <1>7, <1>8, <1>9, <1>10, <1>11, <1>12, <1>13 DEF My!Next

(* my_vfs_init and my_vfs_exit return all memory on every path, and nothing *)
(* points at a freed module but after a my_vfs_init that failed behind      *)
(* register_filesystem.                                                     *)
THEOREM MyVfsUnloadsClean == AllSpec => []MyUnloadsClean
<1>1. My!Init => MyIInv
    BY MyInitIInv
<1>2. MyIInv /\ [My!Next]_My!vars => MyIInv'
    BY MyStepIInv
<1>3. MyIInv => MyUnloadsClean
    BY MyIInvImplies DEF MyUnloadsClean
<1>4. AllInit => My!Init
    BY DEF AllInit
<1>5. [AllNext]_allVars => [My!Next]_My!vars
    BY DEF AllNext, VfsStep, MyVfsStep, SeqFileStep, SingleFileStep, allVars, myVars,
           My!vars, My!kVars
<1>. QED
    BY <1>1, <1>2, <1>3, <1>4, <1>5, PTL DEF AllSpec

-----------------------------------------------------------------------------
(* seq_file.c *)

(* the bytes delivered and those still in the buffer are the records in turn *)
InOrder(g, b) ==
    /\ \A i \in 1..Len(g) : g[i] = (i - 1) \div RecSize
    /\ \A i \in 1..Len(b) : b[i] = (Len(g) + i - 1) \div RecSize

(* the records shown so far                                                 *)
Records(f) == IF filePc[f] = "next" THEN index[f] + 1 ELSE index[f]

StreamInv(f) ==
    /\ InOrder(got[f], buf[f])
    /\ Len(got[f]) + Len(buf[f]) = RecSize * Records(f)

(* who has the iterator                                                     *)
IterInv(f) ==
    /\ filePc[f] \in {"closed", "open", "start"} => spos[f] = SeqF!NoIter
    /\ filePc[f] \in {"show", "next"} => spos[f] = index[f] /\ index[f] < Limit
    /\ filePc[f] = "stop" => spos[f] \in {SeqF!NoIter, index[f]}

(* a read that finds nothing                                                *)
EofInv(f) ==
    /\ filePc[f] = "start" => buf[f] = <<>>
    /\ filePc[f] = "next" => buf[f] # <<>>
    /\ filePc[f] = "stop" /\ buf[f] = <<>> => nomem[f] \/ index[f] = Limit
    /\ filePc[f] = "open" /\ eof[f] => nomem[f] \/ Len(got[f]) = RecSize * Limit

FileInv(f) == StreamInv(f) /\ IterInv(f) /\ EofInv(f)

Busy == {f \in Files : spos[f] # SeqF!NoIter}

SeqTypes ==
    /\ SeqF!TypeOK
    /\ size \in [Files -> Nat] /\ want \in [Files -> Nat]
    /\ buf \in [Files -> Seq(Nat)] /\ got \in [Files -> Seq(Nat)]
    /\ eof \in [Files -> BOOLEAN] /\ nomem \in [Files -> BOOLEAN]
    /\ ended \in Nat

EntryInv == "file" \notin fileHeld => \A f \in Files : filePc[f] = "closed"

CountInv == IsFiniteSet(Busy) /\ iters = ended + Cardinality(Busy)

SeqInv ==
    /\ SeqTypes
    /\ EntryInv
    /\ CountInv
    /\ \A f \in Files : FileInv(f)

USE DEF SeqF!mVars, SeqF!history

(* The constants are what the model takes them for. *)
LEMMA SeqConstants ==
  /\ Limit \in Nat \ {0} /\ RecSize \in Nat \ {0}
  /\ BufSizes \subseteq Nat \ {0} /\ MaxReads \in Nat
  BY SeqAssumption DEF SeqF!SeqFileAssumption

(* The two parts of a sequence. *)
LEMMA SeqSplitFacts ==
  ASSUME NEW T, NEW s \in Seq(T), NEW c \in 0..Len(s)
  PROVE  /\ SubSeq(s, 1, c) \in Seq(T) /\ Len(SubSeq(s, 1, c)) = c
         /\ \A i \in 1..c : SubSeq(s, 1, c)[i] = s[i]
         /\ SubSeq(s, c + 1, Len(s)) \in Seq(T)
         /\ Len(SubSeq(s, c + 1, Len(s))) = Len(s) - c
         /\ \A i \in 1..(Len(s) - c) : SubSeq(s, c + 1, Len(s))[i] = s[c + i]
  OBVIOUS

(* copy_to_user of a first part of the buffer keeps the order of the bytes, *)
(* and loses none of them.                                                  *)
LEMMA SeqDeliverKeepsOrder ==
  ASSUME NEW g \in Seq(Nat), NEW b \in Seq(Nat), InOrder(g, b), NEW c \in 0..Len(b)
  PROVE  /\ g \o SubSeq(b, 1, c) \in Seq(Nat)
         /\ SubSeq(b, c + 1, Len(b)) \in Seq(Nat)
         /\ Len(g \o SubSeq(b, 1, c)) = Len(g) + c
         /\ Len(SubSeq(b, c + 1, Len(b))) = Len(b) - c
         /\ InOrder(g \o SubSeq(b, 1, c), SubSeq(b, c + 1, Len(b)))
<1> DEFINE p == SubSeq(b, 1, c)
           h == g \o p
           r == SubSeq(b, c + 1, Len(b))
<1>1. c \in 0..Len(b) /\ Len(b) \in Nat /\ Len(g) \in Nat
  OBVIOUS
<1>2. p \in Seq(Nat) /\ Len(p) = c /\ \A i \in 1..c : p[i] = b[i]
  BY <1>1, SeqSplitFacts
<1>3. /\ r \in Seq(Nat) /\ Len(r) = Len(b) - c
      /\ \A i \in 1..(Len(b) - c) : r[i] = b[c + i]
  BY <1>1, SeqSplitFacts
<1>4. /\ h \in Seq(Nat) /\ Len(h) = Len(g) + c
      /\ \A i \in 1..Len(g) : h[i] = g[i]
      /\ \A i \in 1..c : h[Len(g) + i] = b[i]
  <2>0. p \in Seq(Nat)
    BY <1>2
  <2> HIDE DEF p
  <2>1. /\ g \o p \in Seq(Nat) /\ Len(g \o p) = Len(g) + Len(p)
        /\ \A i \in 1..Len(g) : (g \o p)[i] = g[i]
        /\ \A i \in 1..Len(p) : (g \o p)[Len(g) + i] = p[i]
    BY <2>0
  <2> QED
    BY <1>2, <2>1
<1> HIDE DEF p, h, r
<1>5. ASSUME NEW i \in 1..Len(h) PROVE h[i] = (i - 1) \div RecSize
  <2>1. CASE i <= Len(g)
    BY <1>1, <1>4, <2>1 DEF InOrder
  <2>2. CASE i > Len(g)
    <3>1. PICK e \in 1..c : i = Len(g) + e
      <4>1. i - Len(g) \in 1..c /\ i = Len(g) + (i - Len(g))
        BY <1>1, <1>4, <2>2
      <4> QED
        BY <4>1
    <3>2. h[i] = b[e] /\ e \in 1..Len(b)
      <4>1. h[Len(g) + e] = b[e]
        BY <1>4
      <4>2. e \in 1..Len(b)
        BY <1>1
      <4> QED
        BY <3>1, <4>1, <4>2
    <3>3. b[e] = (Len(g) + e - 1) \div RecSize
      BY <3>2 DEF InOrder
    <3> QED
      BY <3>1, <3>2, <3>3
  <2> QED
    BY <1>1, <1>4, <2>1, <2>2
<1>6. ASSUME NEW i \in 1..Len(r) PROVE r[i] = (Len(h) + i - 1) \div RecSize
  <2>1. r[i] = b[c + i] /\ c + i \in 1..Len(b)
    <3>1. i \in 1..(Len(b) - c)
      BY <1>3
    <3>2. c + i \in 1..Len(b)
      BY <1>1, <3>1
    <3> QED
      BY <1>3, <3>1, <3>2
  <2>2. b[c + i] = (Len(g) + (c + i) - 1) \div RecSize
    BY <2>1 DEF InOrder
  <2>3. Len(g) + (c + i) - 1 = Len(h) + i - 1
    BY <1>1, <1>3, <1>4
  <2> QED
    BY <2>1, <2>2, <2>3
<1>7. InOrder(h, r)
  BY <1>5, <1>6 DEF InOrder
<1> QED
  BY <1>1, <1>3, <1>4, <1>7 DEF p, h, r

(* ct_seq_show adds the bytes of the next record. *)
LEMMA SeqShowKeepsOrder ==
  ASSUME NEW g \in Seq(Nat), NEW b \in Seq(Nat), InOrder(g, b),
         NEW q \in Nat, Len(g) + Len(b) = RecSize * q
  PROVE  LET d == b \o [i \in 1..RecSize |-> q]
         IN  /\ d \in Seq(Nat) /\ Len(d) = Len(b) + RecSize
             /\ InOrder(g, d)
             /\ Len(g) + Len(d) = RecSize * (q + 1)
<1> DEFINE rec == [i \in 1..RecSize |-> q]
           d == b \o rec
<1>0. RecSize \in Nat \ {0} /\ Len(b) \in Nat /\ Len(g) \in Nat
  BY SeqConstants
<1>1. rec \in Seq(Nat) /\ Len(rec) = RecSize /\ \A i \in 1..RecSize : rec[i] = q
  BY <1>0
<1> HIDE DEF rec
<1>2. /\ d \in Seq(Nat) /\ Len(d) = Len(b) + RecSize
      /\ \A i \in 1..Len(b) : d[i] = b[i]
      /\ \A i \in 1..RecSize : d[Len(b) + i] = q
  <2>0. rec \in Seq(Nat)
    BY <1>1
  <2>1. /\ b \o rec \in Seq(Nat) /\ Len(b \o rec) = Len(b) + Len(rec)
        /\ \A i \in 1..Len(b) : (b \o rec)[i] = b[i]
        /\ \A i \in 1..Len(rec) : (b \o rec)[Len(b) + i] = rec[i]
    BY <2>0
  <2> QED
    BY <1>1, <2>1
<1> HIDE DEF d
<1>3. ASSUME NEW i \in 1..Len(d) PROVE d[i] = (Len(g) + i - 1) \div RecSize
  <2>1. CASE i <= Len(b)
    BY <1>0, <1>2, <2>1 DEF InOrder
  <2>2. CASE i > Len(b)
    <3>1. PICK e \in 1..RecSize : i = Len(b) + e
      <4>1. i - Len(b) \in 1..RecSize /\ i = Len(b) + (i - Len(b))
        BY <1>0, <1>2, <2>2
      <4> QED
        BY <4>1
    <3>2. d[i] = q
      BY <1>2, <3>1
    <3> DEFINE x == Len(g) + i - 1
    <3>3. x \in Int /\ RecSize * q <= x /\ x < RecSize * q + RecSize
      BY <1>0, <3>1
    <3> HIDE DEF x
    <3>4. x \div RecSize = q
      <4>1. q \in Int
        OBVIOUS
      <4> QED
        BY <1>0, <3>3, <4>1, QuotientUnique, Zenon
    <3> QED
      BY <3>2, <3>4 DEF x
  <2> QED
    BY <1>0, <1>2, <2>1, <2>2
<1>4. InOrder(g, d)
  BY <1>3 DEF InOrder
<1>5. Len(g) + Len(d) = RecSize * (q + 1)
  <2> DEFINE pr == RecSize * q
             ps == RecSize * (q + 1)
  <2>1. ps = pr + RecSize /\ pr \in Nat
    BY <1>0
  <2>2. Len(g) + Len(b) = pr
    OBVIOUS
  <2> HIDE DEF pr, ps
  <2>3. Len(d) = Len(b) + RecSize
    BY <1>2
  <2>4. Len(g) + Len(d) = ps
    BY <1>0, <2>1, <2>2, <2>3, Z3
  <2> QED
    BY <2>4 DEF ps
<1> QED
  BY <1>2, <1>4, <1>5 DEF d, rec

(* A file that a step does not concern keeps its part of the invariant. *)
LEMMA SeqFrameFile ==
  ASSUME NEW f, FileInv(f),
         filePc'[f] = filePc[f], index'[f] = index[f], buf'[f] = buf[f],
         spos'[f] = spos[f], got'[f] = got[f], eof'[f] = eof[f],
         nomem'[f] = nomem[f]
  PROVE  FileInv(f)'
  BY DEF FileInv, StreamInv, InOrder, Records, IterInv, EofInv

(* The iterators are counted when one comes or goes. *)
LEMMA SeqBusyAdd ==
  ASSUME CountInv, SeqTypes, NEW f \in Files, spos[f] = SeqF!NoIter,
         NEW v \in 0..Limit, spos' = [spos EXCEPT ![f] = v],
         iters' = iters + 1, ended' = ended
  PROVE  CountInv'
<1>1. Busy' = Busy \cup {f} /\ f \notin Busy
  BY DEF Busy, SeqTypes, SeqF!TypeOK, SeqF!NoIter
<1>2. /\ IsFiniteSet(Busy \cup {f})
      /\ Cardinality(Busy \cup {f}) = Cardinality(Busy) + 1
  BY <1>1, FS_AddElement DEF CountInv
<1>3. Cardinality(Busy) \in Nat
  BY FS_CardinalityType DEF CountInv
<1> QED
  BY <1>1, <1>2, <1>3 DEF CountInv, SeqTypes

LEMMA SeqBusyRemove ==
  ASSUME CountInv, SeqTypes, NEW f \in Files, spos[f] # SeqF!NoIter,
         spos' = [spos EXCEPT ![f] = SeqF!NoIter],
         \/ iters' = iters - 1 /\ ended' = ended
         \/ iters' = iters /\ ended' = ended + 1
  PROVE  CountInv'
<1>1. Busy' = Busy \ {f} /\ f \in Busy
  BY DEF Busy, SeqTypes, SeqF!TypeOK, SeqF!NoIter
<1>2. /\ IsFiniteSet(Busy \ {f})
      /\ Cardinality(Busy \ {f}) = Cardinality(Busy) - 1
  BY <1>1, FS_RemoveElement DEF CountInv
<1>3. Cardinality(Busy) \in Nat
  BY FS_CardinalityType DEF CountInv
<1> QED
  BY <1>1, <1>2, <1>3 DEF CountInv, SeqTypes

LEMMA SeqBusySame ==
  ASSUME CountInv, SeqTypes, iters' = iters, ended' = ended,
         \A f \in Files : spos'[f] = SeqF!NoIter <=> spos[f] = SeqF!NoIter
  PROVE  CountInv'
<1>1. Busy' = Busy
  BY DEF Busy
<1> QED
  BY <1>1 DEF CountInv

(* Stop frees the iterator, if there is one. *)
LEMMA SeqStopCounts ==
  ASSUME SeqInv, NEW f \in Files, SeqF!Stop(f), ended' = ended
  PROVE  CountInv'
<1>1. CASE spos[f] = SeqF!NoIter
  BY <1>1, SeqBusySame DEF SeqF!Stop, SeqInv, SeqTypes, SeqF!TypeOK
<1>2. CASE spos[f] # SeqF!NoIter
  BY <1>2, SeqBusyRemove DEF SeqF!Stop, SeqInv
<1> QED
  BY <1>1, <1>2

(* The number of iterators is a natural number. *)
LEMMA SeqItersNatural == ASSUME CountInv', ended' \in Nat PROVE iters' \in Nat
  BY FS_CardinalityType DEF CountInv

(* The state before insmod satisfies the invariant. *)
LEMMA SeqInitHolds == SeqF!Init => SeqInv
<1> SUFFICES ASSUME SeqF!Init PROVE SeqInv
  OBVIOUS
<1>0. Limit \in Nat \ {0} /\ RecSize \in Nat \ {0}
  BY SeqConstants
<1>1. SeqTypes
  <2>1. <<>> \in Seq(Nat)
    OBVIOUS
  <2> QED
    BY <1>0, <2>1 DEF SeqF!Init, SeqTypes, SeqF!TypeOK, SeqF!NoIter
<1>2. EntryInv
  BY DEF SeqF!Init, EntryInv
<1>3. CountInv
  <2>1. Busy = {}
    BY DEF SeqF!Init, Busy
  <2> QED
    BY <2>1, FS_EmptySet DEF SeqF!Init, CountInv
<1>4. ASSUME NEW f \in Files PROVE FileInv(f)
  <2>1. /\ filePc[f] = "closed" /\ index[f] = 0 /\ spos[f] = SeqF!NoIter
        /\ got[f] = <<>> /\ buf[f] = <<>>
    BY DEF SeqF!Init
  <2>2. Len(<<>>) = 0
    OBVIOUS
  <2>3. InOrder(<<>>, <<>>)
    BY <2>2 DEF InOrder
  <2>4. RecSize * 0 = 0
    BY <1>0
  <2> QED
    BY <2>1, <2>2, <2>3, <2>4 DEF FileInv, StreamInv, Records, IterInv, EofInv
<1> QED
  BY <1>1, <1>2, <1>3, <1>4 DEF SeqInv

(* What holds of every file. *)
LEMMA SeqFileTypes ==
  ASSUME SeqInv, NEW f \in Files
  PROVE  /\ FileInv(f)
         /\ filePc[f] \in {"closed", "open"} \cup SeqF!Inside
         /\ index[f] \in 0..Limit /\ spos[f] \in {SeqF!NoIter} \cup 0..Limit
         /\ size[f] \in Nat /\ want[f] \in Nat
         /\ buf[f] \in Seq(Nat) /\ got[f] \in Seq(Nat)
         /\ eof[f] \in BOOLEAN /\ nomem[f] \in BOOLEAN
  BY DEF SeqInv, SeqTypes, SeqF!TypeOK

(* A step of one file keeps the invariant if it keeps the types, the entry, *)
(* the count and the part of that file.                                     *)
LEMMA SeqOneFile ==
  ASSUME SeqInv, NEW f \in Files, SeqTypes', EntryInv', CountInv', FileInv(f)',
         \A g \in Files \ {f} :
            /\ filePc'[g] = filePc[g] /\ index'[g] = index[g] /\ buf'[g] = buf[g]
            /\ spos'[g] = spos[g] /\ got'[g] = got[g] /\ eof'[g] = eof[g]
            /\ nomem'[g] = nomem[g]
  PROVE  SeqInv'
<1>1. ASSUME NEW g \in Files PROVE FileInv(g)'
  <2>1. CASE g = f
    BY <2>1
  <2>2. CASE g # f
    <3>1. FileInv(g)
      BY DEF SeqInv
    <3> QED
      BY <2>2, <3>1, SeqFrameFile
  <2> QED
    BY <2>1, <2>2
<1> QED
  BY <1>1 DEF SeqInv

(* free_all closes a file that nobody is inside of. *)
LEMMA SeqFreeAllKeeps ==
  ASSUME SeqInv, NEW next \in {"rejected", "gone"}, SeqF!FreeAll(next)
  PROVE  SeqInv'
<1>1. \A f \in Files : filePc[f] \notin SeqF!Inside
  BY DEF SeqInv, EntryInv, SeqF!FreeAll, SeqF!Inside
<1>2. SeqTypes'
  BY DEF SeqInv, SeqTypes, SeqF!TypeOK, SeqF!FreeAll
<1>3. EntryInv'
  BY DEF EntryInv, SeqF!FreeAll
<1>4. CountInv'
  BY SeqBusySame DEF SeqInv, SeqF!FreeAll
<1>5. ASSUME NEW f \in Files PROVE FileInv(f)'
  <2>1. FileInv(f) /\ filePc[f] \in {"closed", "open"}
    BY <1>1, SeqFileTypes
  <2>2. /\ filePc'[f] = "closed" /\ index' = index /\ buf' = buf
        /\ spos' = spos /\ got' = got
    BY DEF SeqF!FreeAll
  <2> QED
    BY <2>1, <2>2 DEF FileInv, StreamInv, InOrder, Records, IterInv, EofInv
<1> QED
  BY <1>2, <1>3, <1>4, <1>5 DEF SeqInv

(* ct_init and ct_exit keep the invariant. *)
LEMMA SeqEntryKeeps ==
  ASSUME SeqInv, NEW here, NEW name \in {"dir", "file", "link"},
         NEW next \in {"proc_create", "proc_symlink", "loaded"},
         SeqF!ProcEntry(here, name, next)
  PROVE  SeqInv'
<1>1. CASE SeqF!FreeAll("rejected")
  BY <1>1, SeqFreeAllKeeps
<1>2. CASE life' = next /\ fileHeld' = fileHeld \cup {name} /\ UNCHANGED <<filePc, SeqF!mVars, iters, SeqF!history>>
  <2>1. SeqTypes'
    BY <1>2 DEF SeqInv, SeqTypes, SeqF!TypeOK
  <2>2. EntryInv'
    BY <1>2 DEF SeqInv, EntryInv
  <2>3. CountInv'
    BY <1>2, SeqBusySame DEF SeqInv
  <2>4. ASSUME NEW f \in Files PROVE FileInv(f)'
    BY <1>2, SeqFileTypes, SeqFrameFile
  <2> QED
    BY <2>1, <2>2, <2>3, <2>4 DEF SeqInv
<1> QED
  BY <1>1, <1>2 DEF SeqF!ProcEntry

(* An open file starts from the first record. *)
LEMMA SeqOpenKeeps == ASSUME SeqInv, NEW f \in Files, SeqF!Open(f) PROVE SeqInv'
<1>1. SeqTypes'
  <2>1. <<>> \in Seq(Nat) /\ 0 \in 0..Limit /\ BufSizes \subseteq Nat
    BY SeqConstants
  <2> QED
    BY <2>1 DEF SeqInv, SeqTypes, SeqF!TypeOK, SeqF!Open, SeqF!Goto
<1>2. EntryInv'
  BY DEF EntryInv, SeqF!Open
<1>3. CountInv'
  BY SeqBusySame DEF SeqInv, SeqF!Open
<1>4. FileInv(f)'
  <2>1. /\ filePc'[f] = "open" /\ index'[f] = 0 /\ spos'[f] = SeqF!NoIter
        /\ got'[f] = <<>> /\ buf'[f] = <<>> /\ eof'[f] = FALSE
    BY SeqFileTypes DEF SeqInv, SeqTypes, SeqF!TypeOK, SeqF!Open, SeqF!Goto,
       FileInv, IterInv
  <2>2. Len(<<>>) = 0 /\ RecSize * 0 = 0
    BY SeqConstants
  <2>3. InOrder(<<>>, <<>>)
    BY <2>2 DEF InOrder
  <2> QED
    BY <2>1, <2>2, <2>3 DEF FileInv, StreamInv, InOrder, Records, IterInv,
       EofInv
<1>5. \A g \in Files \ {f} :
         /\ filePc'[g] = filePc[g] /\ index'[g] = index[g] /\ buf'[g] = buf[g]
         /\ spos'[g] = spos[g] /\ got'[g] = got[g] /\ eof'[g] = eof[g]
         /\ nomem'[g] = nomem[g]
  BY DEF SeqInv, SeqTypes, SeqF!TypeOK, SeqF!Open, SeqF!Goto
<1> QED
  BY <1>1, <1>2, <1>3, <1>4, <1>5, SeqOneFile

(* close changes nothing else. *)
LEMMA SeqReleaseKeeps == ASSUME SeqInv, NEW f \in Files, SeqF!Release(f) PROVE SeqInv'
<1>1. SeqTypes'
  BY DEF SeqInv, SeqTypes, SeqF!TypeOK, SeqF!Release, SeqF!Goto
<1>2. EntryInv'
  BY DEF SeqInv, EntryInv, SeqTypes, SeqF!TypeOK, SeqF!Release, SeqF!Goto
<1>3. CountInv'
  BY SeqBusySame DEF SeqInv, SeqF!Release
<1>4. FileInv(f)'
  <2>1. FileInv(f) /\ filePc[f] = "open"
    BY SeqFileTypes DEF SeqF!Release
  <2>2. filePc'[f] = "closed" /\ index' = index /\ buf' = buf /\ spos' = spos /\ got' = got
    BY DEF SeqInv, SeqTypes, SeqF!TypeOK, SeqF!Release, SeqF!Goto
  <2> QED
    BY <2>1, <2>2 DEF FileInv, StreamInv, InOrder, Records, IterInv, EofInv
<1>5. \A g \in Files \ {f} :
         /\ filePc'[g] = filePc[g] /\ index'[g] = index[g] /\ buf'[g] = buf[g]
         /\ spos'[g] = spos[g] /\ got'[g] = got[g] /\ eof'[g] = eof[g]
         /\ nomem'[g] = nomem[g]
  BY DEF SeqInv, SeqTypes, SeqF!TypeOK, SeqF!Release, SeqF!Goto
<1> QED
  BY <1>1, <1>2, <1>3, <1>4, <1>5, SeqOneFile

(* lseek to 0 starts again. *)
LEMMA SeqLseekKeeps == ASSUME SeqInv, NEW f \in Files, SeqF!Lseek(f) PROVE SeqInv'
<1>1. SeqTypes'
  <2>1. <<>> \in Seq(Nat) /\ 0 \in 0..Limit
    BY SeqConstants
  <2> QED
    BY <2>1 DEF SeqInv, SeqTypes, SeqF!TypeOK, SeqF!Lseek
<1>2. EntryInv'
  BY DEF SeqInv, EntryInv, SeqF!Lseek
<1>3. CountInv'
  BY SeqBusySame DEF SeqInv, SeqF!Lseek
<1>4. FileInv(f)'
  <2>1. /\ filePc'[f] = "open" /\ index'[f] = 0 /\ spos'[f] = SeqF!NoIter
        /\ got'[f] = <<>> /\ buf'[f] = <<>> /\ eof'[f] = FALSE
    BY SeqFileTypes DEF SeqInv, SeqTypes, SeqF!TypeOK, SeqF!Lseek, FileInv,
       IterInv
  <2>2. Len(<<>>) = 0 /\ RecSize * 0 = 0
    BY SeqConstants
  <2>3. InOrder(<<>>, <<>>)
    BY <2>2 DEF InOrder
  <2> QED
    BY <2>1, <2>2, <2>3 DEF FileInv, StreamInv, InOrder, Records, IterInv,
       EofInv
<1>5. \A g \in Files \ {f} :
         /\ filePc'[g] = filePc[g] /\ index'[g] = index[g] /\ buf'[g] = buf[g]
         /\ spos'[g] = spos[g] /\ got'[g] = got[g] /\ eof'[g] = eof[g]
         /\ nomem'[g] = nomem[g]
  BY DEF SeqInv, SeqTypes, SeqF!TypeOK, SeqF!Lseek
<1> QED
  BY <1>1, <1>2, <1>3, <1>4, <1>5, SeqOneFile

(* What copy_to_user does to one file. *)
LEMMA SeqDeliverFacts ==
  ASSUME SeqInv, NEW f \in Files, NEW n \in Nat, SeqF!Deliver(f, buf[f], n)
  PROVE  /\ buf' \in [Files -> Seq(Nat)] /\ got' \in [Files -> Seq(Nat)]
         /\ want' \in [Files -> Nat]
         /\ InOrder(got'[f], buf'[f])
         /\ Len(got'[f]) + Len(buf'[f]) = Len(got[f]) + Len(buf[f])
         /\ n >= Len(buf[f]) => buf'[f] = <<>>
         /\ n < Len(buf[f]) => buf'[f] # <<>>
         /\ buf[f] = <<>> => got'[f] = got[f] /\ buf'[f] = <<>>
         /\ \A g \in Files \ {f} : buf'[g] = buf[g] /\ got'[g] = got[g]
<1> DEFINE b == buf[f]
           g == got[f]
           c == IF Len(b) < n THEN Len(b) ELSE n
           h == g \o SubSeq(b, 1, c)
           r == SubSeq(b, c + 1, Len(b))
<1>1. b \in Seq(Nat) /\ g \in Seq(Nat) /\ InOrder(g, b)
  BY SeqFileTypes DEF FileInv, StreamInv
<1>2. /\ buf' = [buf EXCEPT ![f] = r] /\ got' = [got EXCEPT ![f] = h]
      /\ want' = [want EXCEPT ![f] = n - c]
  BY DEF SeqF!Deliver
<1> HIDE DEF b, g
<1>3. /\ h \in Seq(Nat) /\ r \in Seq(Nat) /\ Len(h) = Len(g) + c
      /\ Len(r) = Len(b) - c /\ InOrder(h, r) /\ n - c \in Nat /\ c \in 0..Len(b)
  <2>1. c \in 0..Len(b) /\ n - c \in Nat
    <3>1. Len(b) \in Nat
      BY <1>1
    <3> QED
      BY <3>1
  <2> HIDE DEF c
  <2> QED
    BY <1>1, <2>1, SeqDeliverKeepsOrder
<1>4. Len(b) \in Nat /\ Len(g) \in Nat
  BY <1>1
<1>5. n >= Len(b) => c = Len(b)
  BY <1>4
<1>6. n < Len(b) => c = n
  BY <1>4
<1>7. b = <<>> => h = g
  <2>1. ASSUME b = <<>> PROVE SubSeq(b, 1, c) = <<>>
    BY <1>3, <2>1
  <2> QED
    BY <1>1, <2>1
<1> HIDE DEF c, h, r
<1>8. n >= Len(b) => r = <<>>
  BY <1>3, <1>4, <1>5
<1>9. n < Len(b) => r # <<>>
  <2>1. Len(<<>>) = 0
    OBVIOUS
  <2> QED
    BY <1>3, <1>4, <1>6, <2>1
<1>10. b = <<>> => r = <<>>
  BY <1>3, <1>4
<1>11. Len(h) + Len(r) = Len(g) + Len(b)
  BY <1>3, <1>4
<1>12. buf \in [Files -> Seq(Nat)] /\ got \in [Files -> Seq(Nat)] /\ want \in [Files -> Nat]
  BY DEF SeqInv, SeqTypes
<1>13. buf'[f] = r /\ got'[f] = h
  BY <1>2, <1>12
<1>14. /\ buf' \in [Files -> Seq(Nat)] /\ got' \in [Files -> Seq(Nat)]
       /\ want' \in [Files -> Nat]
       /\ \A e \in Files \ {f} : buf'[e] = buf[e] /\ got'[e] = got[e]
  BY <1>2, <1>3, <1>12
<1> QED
  BY <1>3, <1>7, <1>8, <1>9, <1>10, <1>11, <1>13, <1>14 DEF b, g

(* A read takes the rest of the buffer first. *)
LEMMA SeqReadKeeps == ASSUME SeqInv, NEW f \in Files, SeqF!Read(f) PROVE SeqInv'
<1>0. PICK n \in 1..(2 * RecSize) :
         SeqF!Deliver(f, buf[f], n) /\ SeqF!Goto(f, IF n >= Len(buf[f]) THEN "start" ELSE "open")
  BY DEF SeqF!Read
<1>a. n \in Nat
  BY SeqConstants
<1>d. /\ buf' \in [Files -> Seq(Nat)] /\ got' \in [Files -> Seq(Nat)]
      /\ want' \in [Files -> Nat]
      /\ InOrder(got'[f], buf'[f])
      /\ Len(got'[f]) + Len(buf'[f]) = Len(got[f]) + Len(buf[f])
      /\ n >= Len(buf[f]) => buf'[f] = <<>>
      /\ n < Len(buf[f]) => buf'[f] # <<>>
      /\ buf[f] = <<>> => got'[f] = got[f] /\ buf'[f] = <<>>
      /\ \A g \in Files \ {f} : buf'[g] = buf[g] /\ got'[g] = got[g]
  BY <1>0, <1>a, SeqDeliverFacts
<1>1. SeqTypes'
  <2>1. eof' \in [Files -> BOOLEAN]
    BY DEF SeqInv, SeqTypes, SeqF!Read
  <2>2. filePc' \in [Files -> {"closed", "open"} \cup SeqF!Inside]
    BY <1>0 DEF SeqInv, SeqTypes, SeqF!TypeOK, SeqF!Goto, SeqF!Inside
  <2> QED
    BY <1>d, <2>1, <2>2 DEF SeqInv, SeqTypes, SeqF!TypeOK, SeqF!Read
<1>2. EntryInv'
  <2>1. filePc[f] # "closed" /\ fileHeld' = fileHeld
    BY DEF SeqF!Read
  <2> QED
    BY <2>1 DEF SeqInv, EntryInv
<1>3. CountInv'
  BY SeqBusySame DEF SeqInv, SeqF!Read
<1>4. FileInv(f)'
  <2>1. FileInv(f) /\ filePc[f] = "open" /\ Len(buf[f]) \in Nat
    BY SeqFileTypes DEF SeqF!Read
  <2>2. /\ index' = index /\ spos' = spos /\ nomem' = nomem
        /\ eof'[f] = (buf[f] = <<>>)
        /\ filePc'[f] = IF n >= Len(buf[f]) THEN "start" ELSE "open"
    BY <1>0 DEF SeqInv, SeqTypes, SeqF!TypeOK, SeqF!Read, SeqF!Goto
  <2>3. StreamInv(f)'
    BY <1>d, <2>1, <2>2 DEF FileInv, StreamInv, InOrder, Records
  <2>4. IterInv(f)'
    BY <2>1, <2>2 DEF FileInv, IterInv
  <2>5. EofInv(f)'
    <3>1. CASE n >= Len(buf[f])
      BY <1>d, <2>2, <3>1 DEF EofInv
    <3>2. CASE n < Len(buf[f])
      <4>1. buf[f] # <<>>
        BY <1>d, <3>2
      <4>2. ~eof'[f]
        BY <2>2, <4>1
      <4>3. filePc'[f] = "open"
        BY <1>a, <2>1, <2>2, <3>2
      <4> QED
        BY <4>2, <4>3 DEF EofInv
    <3> QED
      BY <1>a, <2>1, <3>1, <3>2
  <2> QED
    BY <2>3, <2>4, <2>5 DEF FileInv
<1>5. \A g \in Files \ {f} :
         /\ filePc'[g] = filePc[g] /\ index'[g] = index[g] /\ buf'[g] = buf[g]
         /\ spos'[g] = spos[g] /\ got'[g] = got[g] /\ eof'[g] = eof[g]
         /\ nomem'[g] = nomem[g]
  BY <1>0, <1>d DEF SeqInv, SeqTypes, SeqF!TypeOK, SeqF!Read, SeqF!Goto
<1> QED
  BY <1>1, <1>2, <1>3, <1>4, <1>5, SeqOneFile

(* ct_seq_start. *)
LEMMA SeqStartKeeps == ASSUME SeqInv, NEW f \in Files, SeqF!Start(f) PROVE SeqInv'
<1>0. FileInv(f) /\ index[f] \in 0..Limit /\ filePc[f] = "start" /\ Limit \in Nat
  BY SeqFileTypes, SeqConstants DEF SeqF!Start
<1>b. spos[f] = SeqF!NoIter /\ buf[f] = <<>>
  BY <1>0 DEF FileInv, IterInv, EofInv
<1>3. CountInv'
  <2>1. CASE spos' = [spos EXCEPT ![f] = index[f]] /\ iters' = iters + 1
    BY <1>0, <1>b, <2>1, SeqBusyAdd DEF SeqInv, SeqF!Start
  <2>2. CASE spos' = spos /\ iters' = iters
    BY <2>2, SeqBusySame DEF SeqInv, SeqF!Start
  <2> QED
    BY <2>1, <2>2 DEF SeqF!Start
<1>1. SeqTypes'
  <2>1. iters' \in Nat
    <3>1. ended' \in Nat
      BY DEF SeqInv, SeqTypes, SeqF!Start
    <3> QED
      BY <1>3, <3>1, SeqItersNatural
  <2>2. filePc' \in [Files -> {"closed", "open"} \cup SeqF!Inside]
    BY DEF SeqInv, SeqTypes, SeqF!TypeOK, SeqF!Start, SeqF!Goto, SeqF!Inside
  <2>3. spos' \in [Files -> {SeqF!NoIter} \cup 0..Limit]
    BY <1>0 DEF SeqInv, SeqTypes, SeqF!TypeOK, SeqF!Start
  <2>4. nomem' \in [Files -> BOOLEAN]
    BY DEF SeqInv, SeqTypes, SeqF!Start
  <2> QED
    BY <2>1, <2>2, <2>3, <2>4 DEF SeqInv, SeqTypes, SeqF!TypeOK, SeqF!Start
<1>2. EntryInv'
  BY <1>0 DEF SeqInv, EntryInv, SeqF!Start
<1>4. FileInv(f)'
  <2>1. index' = index /\ buf' = buf /\ got' = got
    BY DEF SeqF!Start
  <2>2. \/ index[f] < Limit /\ spos'[f] = index[f] /\ filePc'[f] = "show"
        \/ filePc'[f] = "stop" /\ spos' = spos /\ (nomem'[f] \/ index[f] = Limit)
    BY <1>0 DEF SeqInv, SeqTypes, SeqF!TypeOK, SeqF!Start, SeqF!Goto
  <2>3. StreamInv(f)'
    BY <1>0, <2>1, <2>2 DEF FileInv, StreamInv, InOrder, Records
  <2>4. IterInv(f)'
    BY <1>b, <2>1, <2>2 DEF IterInv
  <2>5. EofInv(f)'
    BY <2>1, <2>2 DEF EofInv
  <2> QED
    BY <2>3, <2>4, <2>5 DEF FileInv
<1>5. \A g \in Files \ {f} :
         /\ filePc'[g] = filePc[g] /\ index'[g] = index[g] /\ buf'[g] = buf[g]
         /\ spos'[g] = spos[g] /\ got'[g] = got[g] /\ eof'[g] = eof[g]
         /\ nomem'[g] = nomem[g]
  BY DEF SeqInv, SeqTypes, SeqF!TypeOK, SeqF!Start, SeqF!Goto
<1> QED
  BY <1>1, <1>2, <1>3, <1>4, <1>5, SeqOneFile

(* ct_seq_show, and what seq_read does when the record does not fit. *)
LEMMA SeqShowKeeps == ASSUME SeqInv, NEW f \in Files, SeqF!Show(f) PROVE SeqInv'
<1> DEFINE data == buf[f] \o [i \in 1..RecSize |-> spos[f]]
<1>0. /\ FileInv(f) /\ index[f] \in 0..Limit /\ filePc[f] = "show"
      /\ buf[f] \in Seq(Nat) /\ got[f] \in Seq(Nat)
      /\ Limit \in Nat /\ RecSize \in Nat \ {0}
  BY SeqFileTypes, SeqConstants DEF SeqF!Show
<1>b. spos[f] = index[f] /\ index[f] < Limit /\ index[f] \in Nat
  BY <1>0 DEF FileInv, IterInv
<1>c. /\ data \in Seq(Nat) /\ Len(data) = Len(buf[f]) + RecSize
      /\ InOrder(got[f], data)
      /\ Len(got[f]) + Len(data) = RecSize * (index[f] + 1)
  <2>1. InOrder(got[f], buf[f]) /\ Len(got[f]) + Len(buf[f]) = RecSize * index[f]
    BY <1>0 DEF FileInv, StreamInv, Records
  <2>2. data = buf[f] \o [i \in 1..RecSize |-> index[f]]
    BY <1>b
  <2> HIDE DEF data
  <2> QED
    BY <1>0, <1>b, <2>1, <2>2, SeqShowKeepsOrder, Zenon
<1>d. data # <<>>
  <2>1. Len(<<>>) = 0 /\ Len(buf[f]) \in Nat
    BY <1>0
  <2> HIDE DEF data
  <2> QED
    BY <1>0, <1>c, <2>1
<1>e. \/ /\ buf' = [buf EXCEPT ![f] = data] /\ SeqF!Goto(f, "next")
         /\ UNCHANGED <<size, spos, iters>>
      \/ /\ buf[f] = <<>> /\ SeqF!Stop(f) /\ size' = [size EXCEPT ![f] = 2 * @]
         /\ SeqF!Goto(f, "start") /\ UNCHANGED buf
      \/ /\ buf[f] # <<>> /\ SeqF!Goto(f, "stop") /\ UNCHANGED <<size, spos, iters, buf>>
  BY DEF SeqF!Show
<1>f. UNCHANGED <<life, fileHeld, index, want, got, eof, ended, nomem, reads>>
  BY DEF SeqF!Show
<1> HIDE DEF data
<1>3. CountInv'
  <2>1. CASE SeqF!Stop(f)
    BY <1>f, <2>1, SeqStopCounts
  <2>2. CASE spos' = spos /\ iters' = iters
    BY <1>f, <2>2, SeqBusySame DEF SeqInv
  <2> QED
    BY <1>e, <2>1, <2>2
<1>1. SeqTypes'
  <2>1. iters' \in Nat
    <3>1. ended' \in Nat
      BY <1>f DEF SeqInv, SeqTypes
    <3> QED
      BY <1>3, <3>1, SeqItersNatural
  <2>2. filePc' \in [Files -> {"closed", "open"} \cup SeqF!Inside]
    BY <1>e DEF SeqInv, SeqTypes, SeqF!TypeOK, SeqF!Goto, SeqF!Inside
  <2>3. spos' \in [Files -> {SeqF!NoIter} \cup 0..Limit]
    BY <1>e DEF SeqInv, SeqTypes, SeqF!TypeOK, SeqF!Stop
  <2>4. buf' \in [Files -> Seq(Nat)]
    BY <1>c, <1>e DEF SeqInv, SeqTypes
  <2>5. size' \in [Files -> Nat]
    <3>1. size \in [Files -> Nat] /\ 2 * size[f] \in Nat
      BY DEF SeqInv, SeqTypes
    <3>2. size' = size \/ size' = [size EXCEPT ![f] = 2 * size[f]]
      BY <1>e
    <3> QED
      BY <3>1, <3>2
  <2> QED
    BY <1>f, <2>1, <2>2, <2>3, <2>4, <2>5 DEF SeqInv, SeqTypes, SeqF!TypeOK
<1>2. EntryInv'
  BY <1>0, <1>f DEF SeqInv, EntryInv
<1>4. FileInv(f)'
  <2>1. filePc \in [Files -> {"closed", "open"} \cup SeqF!Inside] /\ buf \in [Files -> Seq(Nat)]
        /\ spos \in [Files -> {SeqF!NoIter} \cup 0..Limit]
    BY DEF SeqInv, SeqTypes, SeqF!TypeOK
  <2>2. CASE buf' = [buf EXCEPT ![f] = data] /\ SeqF!Goto(f, "next") /\ UNCHANGED spos
    <3>1. buf'[f] = data /\ filePc'[f] = "next" /\ spos' = spos
      BY <2>1, <2>2 DEF SeqF!Goto
    <3>2. StreamInv(f)'
      BY <1>c, <1>f, <3>1 DEF StreamInv, InOrder, Records
    <3> QED
      BY <1>b, <1>d, <1>f, <3>1, <3>2 DEF FileInv, IterInv, EofInv
  <2>3. CASE buf[f] = <<>> /\ SeqF!Stop(f) /\ SeqF!Goto(f, "start") /\ UNCHANGED buf
    <3>1. buf' = buf /\ filePc'[f] = "start" /\ spos'[f] = SeqF!NoIter
      BY <2>1, <2>3 DEF SeqF!Goto, SeqF!Stop
    <3>2. StreamInv(f)'
      BY <1>0, <1>f, <3>1 DEF FileInv, StreamInv, InOrder, Records
    <3> QED
      BY <2>3, <3>1, <3>2 DEF FileInv, IterInv, EofInv
  <2>4. CASE buf[f] # <<>> /\ SeqF!Goto(f, "stop") /\ UNCHANGED <<spos, buf>>
    <3>1. buf' = buf /\ filePc'[f] = "stop" /\ spos' = spos
      BY <2>1, <2>4 DEF SeqF!Goto
    <3>2. StreamInv(f)'
      BY <1>0, <1>f, <3>1 DEF FileInv, StreamInv, InOrder, Records
    <3> QED
      BY <1>b, <1>f, <2>4, <3>1, <3>2 DEF FileInv, IterInv, EofInv
  <2> QED
    BY <1>e, <2>2, <2>3, <2>4
<1>5. \A g \in Files \ {f} :
         /\ filePc'[g] = filePc[g] /\ index'[g] = index[g] /\ buf'[g] = buf[g]
         /\ spos'[g] = spos[g] /\ got'[g] = got[g] /\ eof'[g] = eof[g]
         /\ nomem'[g] = nomem[g]
  BY <1>e, <1>f DEF SeqInv, SeqTypes, SeqF!TypeOK, SeqF!Goto, SeqF!Stop
<1> QED
  BY <1>1, <1>2, <1>3, <1>4, <1>5, SeqOneFile

(* ct_seq_next. *)
LEMMA SeqNextRecordKeeps == ASSUME SeqInv, NEW f \in Files, SeqF!NextRecord(f) PROVE SeqInv'
<1>0. /\ FileInv(f) /\ index[f] \in 0..Limit /\ filePc[f] = "next"
      /\ Limit \in Nat /\ want[f] \in Nat
  BY SeqFileTypes, SeqConstants DEF SeqF!NextRecord
<1>b. spos[f] = index[f] /\ index[f] < Limit /\ index[f] \in Nat /\ buf[f] # <<>>
  BY <1>0 DEF FileInv, IterInv, EofInv
<1>n. spos[f] + 1 \in 0..Limit /\ spos[f] # SeqF!NoIter
  BY <1>0, <1>b DEF SeqF!NoIter
<1>3. CountInv'
  <2>1. CASE spos[f] + 1 >= Limit
    BY <1>n, <2>1, SeqBusyRemove DEF SeqInv, SeqF!NextRecord
  <2>2. CASE ~(spos[f] + 1 >= Limit)
    <3>1. spos' = [spos EXCEPT ![f] = spos[f] + 1] /\ iters' = iters /\ ended' = ended
      BY <2>2 DEF SeqF!NextRecord
    <3>2. \A g \in Files : spos'[g] = SeqF!NoIter <=> spos[g] = SeqF!NoIter
      BY <1>b, <1>n, <3>1 DEF SeqInv, SeqTypes, SeqF!TypeOK, SeqF!NoIter
    <3> QED
      BY <3>1, <3>2, SeqBusySame DEF SeqInv
  <2> QED
    BY <2>1, <2>2
<1>1. SeqTypes'
  <2>1. index' \in [Files -> 0..Limit]
    BY <1>n DEF SeqInv, SeqTypes, SeqF!TypeOK, SeqF!NextRecord
  <2>2. filePc' \in [Files -> {"closed", "open"} \cup SeqF!Inside]
    BY DEF SeqInv, SeqTypes, SeqF!TypeOK, SeqF!NextRecord, SeqF!Goto,
       SeqF!Inside
  <2>3. spos' \in [Files -> {SeqF!NoIter} \cup 0..Limit]
    BY <1>n DEF SeqInv, SeqTypes, SeqF!TypeOK, SeqF!NextRecord
  <2>4. ended' \in Nat
    BY DEF SeqInv, SeqTypes, SeqF!NextRecord
  <2> QED
    BY <2>1, <2>2, <2>3, <2>4 DEF SeqInv, SeqTypes, SeqF!TypeOK,
       SeqF!NextRecord
<1>2. EntryInv'
  BY <1>0 DEF SeqInv, EntryInv, SeqF!NextRecord
<1>4. FileInv(f)'
  <2>1. buf' = buf /\ got' = got /\ index'[f] = index[f] + 1
    BY <1>b DEF SeqInv, SeqTypes, SeqF!TypeOK, SeqF!NextRecord
  <2>2. \/ filePc'[f] = "stop" /\ spos'[f] \in {SeqF!NoIter, index[f] + 1}
        \/ filePc'[f] = "show" /\ spos'[f] = index[f] + 1 /\ index[f] + 1 < Limit
    BY <1>0, <1>b DEF SeqInv, SeqTypes, SeqF!TypeOK, SeqF!NextRecord,
       SeqF!Goto
  <2>3. StreamInv(f)'
    BY <1>0, <2>1, <2>2 DEF FileInv, StreamInv, InOrder, Records
  <2>4. IterInv(f)'
    BY <2>1, <2>2 DEF IterInv
  <2>5. EofInv(f)'
    BY <1>b, <2>1, <2>2 DEF EofInv
  <2> QED
    BY <2>3, <2>4, <2>5 DEF FileInv
<1>5. \A g \in Files \ {f} :
         /\ filePc'[g] = filePc[g] /\ index'[g] = index[g] /\ buf'[g] = buf[g]
         /\ spos'[g] = spos[g] /\ got'[g] = got[g] /\ eof'[g] = eof[g]
         /\ nomem'[g] = nomem[g]
  BY DEF SeqInv, SeqTypes, SeqF!TypeOK, SeqF!NextRecord, SeqF!Goto
<1> QED
  BY <1>1, <1>2, <1>3, <1>4, <1>5, SeqOneFile

(* The end of seq_read. *)
LEMMA SeqReturnKeeps == ASSUME SeqInv, NEW f \in Files, SeqF!Return(f) PROVE SeqInv'
<1>0. /\ FileInv(f) /\ filePc[f] = "stop" /\ want[f] \in Nat /\ eof[f] \in BOOLEAN
  BY SeqFileTypes DEF SeqF!Return
<1>d. /\ buf' \in [Files -> Seq(Nat)] /\ got' \in [Files -> Seq(Nat)]
      /\ want' \in [Files -> Nat]
      /\ InOrder(got'[f], buf'[f])
      /\ Len(got'[f]) + Len(buf'[f]) = Len(got[f]) + Len(buf[f])
      /\ buf[f] = <<>> => got'[f] = got[f] /\ buf'[f] = <<>>
      /\ \A g \in Files \ {f} : buf'[g] = buf[g] /\ got'[g] = got[g]
  BY <1>0, SeqDeliverFacts DEF SeqF!Return
<1>3. CountInv'
  BY SeqStopCounts DEF SeqF!Return
<1>1. SeqTypes'
  <2>1. iters' \in Nat
    <3>1. ended' \in Nat
      BY DEF SeqInv, SeqTypes, SeqF!Return
    <3> QED
      BY <1>3, <3>1, SeqItersNatural
  <2>2. filePc' \in [Files -> {"closed", "open"} \cup SeqF!Inside]
    BY DEF SeqInv, SeqTypes, SeqF!TypeOK, SeqF!Return, SeqF!Goto
  <2>3. spos' \in [Files -> {SeqF!NoIter} \cup 0..Limit]
    BY DEF SeqInv, SeqTypes, SeqF!TypeOK, SeqF!Return, SeqF!Stop
  <2>4. eof' \in [Files -> BOOLEAN]
    BY DEF SeqInv, SeqTypes, SeqF!Return
  <2> QED
    BY <1>d, <2>1, <2>2, <2>3, <2>4 DEF SeqInv, SeqTypes, SeqF!TypeOK,
       SeqF!Return
<1>2. EntryInv'
  BY <1>0 DEF SeqInv, EntryInv, SeqF!Return
<1>4. FileInv(f)'
  <2>1. /\ index' = index /\ nomem' = nomem /\ filePc'[f] = "open" /\ spos'[f] = SeqF!NoIter
        /\ eof'[f] = (eof[f] /\ buf[f] = <<>>)
    BY DEF SeqInv, SeqTypes, SeqF!TypeOK, SeqF!Return, SeqF!Goto, SeqF!Stop
  <2>2. StreamInv(f)'
    BY <1>0, <1>d, <2>1 DEF FileInv, StreamInv, InOrder, Records
  <2>3. IterInv(f)'
    BY <2>1 DEF IterInv
  <2>4. eof'[f] => nomem[f] \/ Len(got'[f]) = RecSize * Limit
    <3> SUFFICES ASSUME eof'[f], ~nomem[f] PROVE Len(got'[f]) = RecSize * Limit
      OBVIOUS
    <3>1. buf[f] = <<>>
      BY <2>1
    <3>2. index[f] = Limit
      BY <1>0, <3>1 DEF FileInv, EofInv
    <3>3. Len(got[f]) + Len(buf[f]) = RecSize * Limit
      BY <1>0, <3>2 DEF FileInv, StreamInv, Records
    <3>4. Len(<<>>) = 0 /\ Len(got[f]) \in Nat
      BY SeqFileTypes
    <3>5. Len(got[f]) + Len(buf[f]) = Len(got[f])
      BY <3>1, <3>4
    <3> QED
      BY <1>d, <3>1, <3>3, <3>5
  <2>5. EofInv(f)'
    BY <2>1, <2>4 DEF EofInv
  <2> QED
    BY <2>2, <2>3, <2>5 DEF FileInv
<1>5. \A g \in Files \ {f} :
         /\ filePc'[g] = filePc[g] /\ index'[g] = index[g] /\ buf'[g] = buf[g]
         /\ spos'[g] = spos[g] /\ got'[g] = got[g] /\ eof'[g] = eof[g]
         /\ nomem'[g] = nomem[g]
  BY <1>d DEF SeqInv, SeqTypes, SeqF!TypeOK, SeqF!Return, SeqF!Goto, SeqF!Stop
<1> QED
  BY <1>1, <1>2, <1>3, <1>4, <1>5, SeqOneFile

(* Every step keeps the invariant. *)
LEMMA SeqStepHolds == SeqInv /\ [SeqF!Next]_SeqF!vars => SeqInv'
<1> SUFFICES ASSUME SeqInv, [SeqF!Next]_SeqF!vars PROVE SeqInv'
  OBVIOUS
<1>1. CASE UNCHANGED SeqF!vars
  <2>1. UNCHANGED <<life, fileHeld, filePc, index, size, buf, spos, want, iters, got, eof, ended, nomem>>
    BY <1>1 DEF SeqF!vars
  <2>2. SeqTypes' /\ EntryInv'
    BY <2>1 DEF SeqInv, SeqTypes, SeqF!TypeOK, EntryInv
  <2>3. CountInv'
    BY <2>1, SeqBusySame DEF SeqInv
  <2>4. ASSUME NEW f \in Files PROVE FileInv(f)'
    BY <2>1, SeqFileTypes, SeqFrameFile
  <2> QED
    BY <2>2, <2>3, <2>4 DEF SeqInv
<1>2. CASE SeqF!CtInit
  BY <1>2, SeqEntryKeeps DEF SeqF!CtInit
<1>3. CASE SeqF!CtExit
  BY <1>3, SeqFreeAllKeeps DEF SeqF!CtExit
<1>4. ASSUME NEW f \in Files,
             \/ SeqF!Open(f) \/ SeqF!Release(f) \/ SeqF!Lseek(f)
             \/ SeqF!Read(f) \/ SeqF!Start(f) \/ SeqF!Show(f) \/ SeqF!NextRecord(f) \/ SeqF!Return(f)
      PROVE  SeqInv'
  BY <1>4, SeqOpenKeeps, SeqReleaseKeeps, SeqLseekKeeps, SeqReadKeeps,
     SeqStartKeeps, SeqShowKeeps, SeqNextRecordKeeps, SeqReturnKeeps
<1> QED
  BY <1>1, <1>2, <1>3, <1>4 DEF SeqF!Next

(* The instance counts its sets as FiniteSets does. *)
LEMMA SeqCardinality == ASSUME NEW S PROVE SeqF!Cardinality(S) = Cardinality(S)
  BY Zenon DEF SeqF!Cardinality, Cardinality

(* The invariant implies both properties. *)
LEMMA SeqImplies == SeqInv => SeqF!DeliversInOrder /\ SeqF!LeaksOnePerPass
<1> SUFFICES ASSUME SeqInv PROVE SeqF!DeliversInOrder /\ SeqF!LeaksOnePerPass
  OBVIOUS
<1>1. ASSUME NEW f \in Files
      PROVE  /\ \A i \in 1..Len(got[f]) : got[f][i] = (i - 1) \div RecSize
             /\ eof[f] /\ filePc[f] = "open" => nomem[f] \/ Len(got[f]) = Limit * RecSize
             /\ spos[f] # SeqF!NoIter => filePc[f] \in SeqF!Inside
  <2>1. FileInv(f) /\ filePc[f] \in {"closed", "open"} \cup SeqF!Inside
    BY SeqFileTypes
  <2>2. RecSize * Limit = Limit * RecSize
    BY SeqConstants
  <2> QED
    BY <2>1, <2>2 DEF FileInv, StreamInv, InOrder, EofInv, IterInv
<1>2. SeqF!DeliversInOrder
  BY <1>1 DEF SeqF!DeliversInOrder
<1>3. SeqF!TypeOK /\ iters = ended + SeqF!Cardinality({f \in Files : spos[f] # SeqF!NoIter})
  BY SeqCardinality DEF SeqInv, SeqTypes, CountInv, Busy
<1>4. SeqF!LeaksOnePerPass
  BY <1>1, <1>3 DEF SeqF!LeaksOnePerPass
<1> QED
  BY <1>2, <1>4

(* The invariant holds in every behaviour of the composed modules. *)
THEOREM SeqInvariant == AllSpec => []SeqInv
<1>1. AllInit => SeqF!Init
  BY DEF AllInit
<1>2. [AllNext]_allVars => [SeqF!Next]_SeqF!vars
  BY DEF AllNext, VfsStep, MyVfsStep, SeqFileStep, SingleFileStep, allVars, seqVars,
         SeqF!vars
<1> QED
  BY <1>1, <1>2, SeqInitHolds, SeqStepHolds, PTL DEF AllSpec

(* Whatever the sizes of the reads, of a record and of the first buffer,    *)
(* seq_read with the callbacks of seq_file.c delivers the records in order, *)
(* none of them twice, and ends only after the last or without memory.      *)
THEOREM SeqDelivers == AllSpec => []DeliversInOrder
<1>1. SeqInv => DeliversInOrder
  BY SeqImplies DEF DeliversInOrder
<1> QED
  BY <1>1, SeqInvariant, PTL

(* ct_seq_stop frees every iterator once but those that ct_seq_next took to *)
(* the limit: they are leaked, one for every pass over the file.            *)
THEOREM SeqLeaks == AllSpec => []LeaksOnePerPass
<1>1. SeqInv => LeaksOnePerPass
  BY SeqImplies DEF LeaksOnePerPass
<1> QED
  BY <1>1, SeqInvariant, PTL

-----------------------------------------------------------------------------
(* single_file.c *)

(* what a text consists of                                                  *)
Bytes == (Nat \ {SingleF!NUL}) \cup {SingleF!NL}

(* what the variables that TypeOK leaves out are                            *)
CookieTypes ==
    /\ SingleF!TypeOK
    /\ text \in [Procs -> Seq(Bytes)] /\ k \in [Procs -> 0..Size]
    /\ tgt \in [Procs -> Seq(Nat \cup {SingleF!NL})] /\ par \in [Procs -> Pids \cup {SingleF!Idle}]
    /\ alone \in [Procs -> BOOLEAN]
    /\ \A p \in Procs : k[p] <= Len(text[p]) /\ Len(text[p]) <= Size + 1

CookieEntryInv == "file" \notin cookieHeld => \A p \in Procs : cookiePc[p] = "closed"

(* the calls of show that have yet to take a reference                      *)
Pending == {p \in Procs : cookiePc[p] \in {"r_parse", "r_task"}}

RefsInv == IsFiniteSet(Pending) /\ \A t \in Pids : refs[t] + Cardinality(Pending) <= calls

(* a task that somebody has a reference to is not freed, and show has one   *)
HeldTaskInv ==
    /\ \A t \in Pids : refs[t] > 0 => task[t] # "freed"
    /\ \A p \in Procs : cookiePc[p] \in {"r_parent", "r_show"} => tgt[p] \in Pids /\ refs[tgt[p]] > 0

(* only a write that fills the buffer takes its last NUL, for a while       *)
NulInv == cookie[Size - 1] # SingleF!NUL => \E p \in Procs : cookiePc[p] = "write" /\ k[p] = Size

(* a write that is alone has the buffer for itself                          *)
AloneInv ==
    \A p \in Procs : alone[p] /\ cookiePc[p] = "write" =>
        /\ \A q \in Procs \ {p} : cookiePc[q] # "write"
        /\ \A i \in 1..k[p] : cookie[i - 1] = text[p][i]

(* the buffer holds s and the NUL that ends it                              *)
Holds(s) ==
    /\ s \in Seq(Bytes) /\ Len(s) < Size
    /\ \A i \in 1..Len(s) : cookie[i - 1] = s[i]
    /\ cookie[Len(s)] = SingleF!NUL

LastInv == SingleF!NobodyWrites /\ last # SingleF!Mixture => Holds(last)

FaultInv ==
    /\ cookieUp # "task"
    /\ cookieUp = "parent" => \E p \in Procs : cookiePc[p] = "r_show" /\ par[p] \in Pids /\ refs[par[p]] = 0
    /\ cookieUp = "buffer" => \E p \in Procs : cookiePc[p] = "write" /\ Len(text[p]) \in {0, Size, Size + 1}

CookieInv ==
    /\ CookieTypes
    /\ CookieEntryInv
    /\ RefsInv
    /\ HeldTaskInv
    /\ NulInv
    /\ AloneInv
    /\ LastInv
    /\ FaultInv
    /\ SingleF!ShowsLastWrite

USE DEF SingleF!fVars, SingleF!tVars, SingleF!history

(* The constants are what the model takes them for. *)
LEMMA CookieConstants ==
  /\ Size \in Nat \ {0} /\ MaxCalls \in Nat
  /\ Texts \subseteq Seq(Bytes)
  /\ SingleF!Idle \notin Pids /\ Parent \in [Pids -> Pids \cup {SingleF!Idle}]
  BY SingleAssumption DEF SingleF!SingleFileAssumption, Bytes

(* The buffer has its bytes from 0 to Size - 1, and a newline is no NUL. *)
LEMMA CookieCells ==
  /\ Size - 1 \in SingleF!Cells /\ 0 \in SingleF!Cells
  /\ \A i \in Int : i \in SingleF!Cells <=> 0 <= i /\ i < Size
  /\ Bytes \subseteq Nat \cup {SingleF!NL} /\ SingleF!NUL \in Nat \cup {SingleF!NL} /\ SingleF!NUL \notin Bytes
  BY CookieConstants DEF SingleF!Cells, Bytes, SingleF!NUL, SingleF!NL

(* What holds of every process. *)
LEMMA CookieProcTypes ==
  ASSUME CookieTypes, NEW p \in Procs
  PROVE  /\ cookiePc[p] \in {"closed", "open"} \cup SingleF!Inside
         /\ text[p] \in Seq(Bytes) /\ Len(text[p]) \in Nat
         /\ k[p] \in 0..Size /\ k[p] \in Nat
         /\ k[p] <= Len(text[p]) /\ Len(text[p]) <= Size + 1
         /\ tgt[p] \in Seq(Nat \cup {SingleF!NL}) /\ par[p] \in Pids \cup {SingleF!Idle}
         /\ alone[p] \in BOOLEAN
<1>1. text[p] \in Seq(Bytes)
  BY DEF CookieTypes
<1>2. Len(text[p]) \in Nat
  BY <1>1
<1>3. k[p] \in 0..Size /\ k[p] \in Nat
  BY CookieConstants DEF CookieTypes
<1> QED
  BY <1>1, <1>2, <1>3 DEF CookieTypes, SingleF!TypeOK

(* A step that leaves the buffer and the writes alone keeps what is said of *)
(* them.                                                                    *)
LEMMA CookieWritesSame ==
  ASSUME NulInv, AloneInv, LastInv, cookie' = cookie, text' = text, k' = k,
         alone' = alone, last' = last,
         \A q \in Procs : cookiePc'[q] = "write" <=> cookiePc[q] = "write"
  PROVE  NulInv' /\ AloneInv' /\ LastInv'
<1>1. NulInv'
  BY DEF NulInv
<1>2. AloneInv'
  BY DEF AloneInv
<1>3. LastInv'
  BY DEF LastInv, SingleF!NobodyWrites, Holds
<1> QED
  BY <1>1, <1>2, <1>3

(* A step that takes and drops no task keeps the references safe, unless it *)
(* sends a process on to follow one.                                        *)
LEMMA CookieTasksSame ==
  ASSUME HeldTaskInv, task' = task, refs' = refs,
         \A q \in Procs : cookiePc'[q] \in {"r_parent", "r_show"} =>
                            cookiePc[q] \in {"r_parent", "r_show"} /\ tgt'[q] = tgt[q]
  PROVE  HeldTaskInv'
  BY DEF HeldTaskInv

(* The references and the calls that may take one are counted. *)
LEMMA CookiePendingSame ==
  ASSUME RefsInv, refs' = refs, calls' = calls,
         \A q \in Procs : cookiePc'[q] \in {"r_parse", "r_task"} <=> cookiePc[q] \in {"r_parse", "r_task"}
  PROVE  RefsInv'
<1>1. Pending' = Pending
  BY DEF Pending
<1> QED
  BY <1>1 DEF RefsInv

LEMMA CookiePendingAdd ==
  ASSUME CookieTypes, RefsInv, refs' = refs, calls' = calls + 1, NEW p \in Procs,
         p \notin Pending, SingleF!Goto(p, "r_parse")
  PROVE  RefsInv'
<1>1. Pending' = Pending \cup {p}
  BY DEF Pending, SingleF!Goto, CookieTypes, SingleF!TypeOK
<1>2. /\ IsFiniteSet(Pending \cup {p})
      /\ Cardinality(Pending \cup {p}) = Cardinality(Pending) + 1
  BY FS_AddElement DEF RefsInv
<1>3. Cardinality(Pending) \in Nat
  BY FS_CardinalityType DEF RefsInv
<1>4. ASSUME NEW t \in Pids PROVE refs'[t] + (Cardinality(Pending) + 1) <= calls'
  <2>1. refs[t] \in Nat /\ calls \in Nat
    BY CookieConstants DEF CookieTypes, SingleF!TypeOK
  <2>2. refs[t] + Cardinality(Pending) <= calls
    BY DEF RefsInv
  <2> QED
    BY <1>3, <2>1, <2>2
<1> QED
  BY <1>1, <1>2, <1>4 DEF RefsInv

LEMMA CookiePendingRemove ==
  ASSUME CookieTypes, RefsInv, calls' = calls, NEW p \in Procs, p \in Pending,
         NEW where \in {"open", "r_parent"}, SingleF!Goto(p, where),
         refs' \in [Pids -> Nat], \A t \in Pids : refs'[t] <= refs[t] + 1
  PROVE  RefsInv'
<1>1. Pending' = Pending \ {p}
  BY DEF Pending, SingleF!Goto, CookieTypes, SingleF!TypeOK
<1>2. /\ IsFiniteSet(Pending \ {p})
      /\ Cardinality(Pending \ {p}) = Cardinality(Pending) - 1
  BY FS_RemoveElement DEF RefsInv
<1>3. Cardinality(Pending) \in Nat
  BY FS_CardinalityType DEF RefsInv
<1>4. ASSUME NEW t \in Pids PROVE refs'[t] + (Cardinality(Pending) - 1) <= calls'
  <2>1. refs[t] \in Nat /\ calls \in Nat /\ refs'[t] \in Nat
    BY CookieConstants DEF CookieTypes, SingleF!TypeOK
  <2>2. refs[t] + Cardinality(Pending) <= calls /\ refs'[t] <= refs[t] + 1
    BY DEF RefsInv
  <2> QED
    BY <1>3, <2>1, <2>2
<1> QED
  BY <1>1, <1>2, <1>4 DEF RefsInv

(* A task that a call may still take a reference to has one less than there *)
(* were calls.                                                              *)
LEMMA CookieRefsBelow ==
  ASSUME CookieTypes, RefsInv, NEW p \in Pending, NEW t \in Pids
  PROVE  refs[t] + 1 \in 0..MaxCalls
<1>1. Cardinality(Pending) \in Nat /\ Cardinality(Pending) # 0
  BY FS_CardinalityType, FS_EmptySet DEF RefsInv
<1>2. refs[t] \in Nat /\ calls \in Nat /\ calls <= MaxCalls /\ MaxCalls \in Nat
  BY CookieConstants DEF CookieTypes, SingleF!TypeOK
<1>3. refs[t] + Cardinality(Pending) <= calls
  BY DEF RefsInv
<1> QED
  BY <1>1, <1>2, <1>3

(* Before insmod. *)
LEMMA CookieInitHolds == SingleF!Init => CookieInv
<1> SUFFICES ASSUME SingleF!Init PROVE CookieInv
  OBVIOUS
<1>1. <<>> \in Seq(Bytes) /\ <<>> \in Seq(Nat \cup {SingleF!NL}) /\ Len(<<>>) = 0
  OBVIOUS
<1>2. CookieTypes
  <2>1. SingleF!TypeOK
    BY CookieConstants, CookieCells DEF SingleF!Init, SingleF!TypeOK
  <2>2. 0 \in 0..Size /\ 0 <= 0 /\ 0 <= Size + 1
    BY CookieConstants
  <2> QED
    BY <1>1, <2>1, <2>2 DEF SingleF!Init, CookieTypes, SingleF!Idle
<1>3. CookieEntryInv /\ HeldTaskInv /\ FaultInv
  BY DEF SingleF!Init, CookieEntryInv, HeldTaskInv, FaultInv
<1>4. RefsInv
  <2>1. Pending = {}
    BY DEF SingleF!Init, Pending
  <2> QED
    BY <2>1, FS_EmptySet DEF SingleF!Init, RefsInv
<1>5. NulInv /\ AloneInv
  BY CookieCells DEF SingleF!Init, NulInv, AloneInv
<1>6. LastInv
  <2>1. cookie[0] = SingleF!NUL /\ last = <<>>
    BY CookieCells DEF SingleF!Init
  <2>2. 0 < Size
    BY CookieConstants
  <2> QED
    BY <1>1, <2>1, <2>2 DEF LastInv, Holds
<1>7. SingleF!ShowsLastWrite
  BY DEF SingleF!Init, SingleF!ShowsLastWrite
<1> QED
  BY <1>2, <1>3, <1>4, <1>5, <1>6, <1>7 DEF CookieInv

(* Once memory was used wrongly nothing changes any more. *)
LEMMA CookieFault ==
  ASSUME CookieInv, NEW what \in {"buffer", "task", "parent"}, SingleF!Fault(what), FaultInv'
  PROVE  CookieInv'
<1>1. UNCHANGED <<cookieLife, cookieHeld, cookie, cookiePc, text, k, tgt, par, task, refs, parent,
                  alone, last, shown, calls>>
  BY DEF SingleF!Fault
<1>2. CookieTypes'
  BY <1>1 DEF CookieInv, CookieTypes, SingleF!TypeOK, SingleF!Fault
<1>3. CookieEntryInv' /\ SingleF!ShowsLastWrite'
  BY <1>1 DEF CookieInv, CookieEntryInv, SingleF!ShowsLastWrite
<1>4. RefsInv'
  BY <1>1, CookiePendingSame DEF CookieInv
<1>5. HeldTaskInv'
  BY <1>1, CookieTasksSame DEF CookieInv
<1>6. NulInv' /\ AloneInv' /\ LastInv'
  BY <1>1, CookieWritesSame DEF CookieInv
<1> QED
  BY <1>2, <1>3, <1>4, <1>5, <1>6 DEF CookieInv

(* free_all comes when nobody is inside. *)
LEMMA CookieFreeAll ==
  ASSUME CookieInv, SingleF!Running, NEW next \in {"rejected", "gone"}, SingleF!FreeAll(next)
  PROVE  CookieInv'
<1>0. \A p \in Procs : cookiePc[p] \notin SingleF!Inside /\ cookiePc'[p] = "closed"
  BY DEF CookieInv, CookieEntryInv, SingleF!FreeAll, SingleF!Inside
<1>1. UNCHANGED <<cookie, text, k, tgt, par, task, refs, parent, alone, last, shown,
                  calls, cookieUp>>
  BY DEF SingleF!FreeAll
<1>2. CookieTypes'
  BY <1>1 DEF CookieInv, CookieTypes, SingleF!TypeOK, SingleF!FreeAll
<1>3. CookieEntryInv' /\ SingleF!ShowsLastWrite' /\ FaultInv'
  BY <1>1 DEF CookieInv, CookieEntryInv, SingleF!ShowsLastWrite, FaultInv,
     SingleF!FreeAll, SingleF!Running
<1>4. RefsInv'
  BY <1>0, <1>1, CookiePendingSame DEF CookieInv, SingleF!Inside
<1>5. HeldTaskInv'
  BY <1>0, <1>1, CookieTasksSame DEF CookieInv
<1>6. NulInv' /\ AloneInv' /\ LastInv'
  BY <1>0, <1>1, CookieWritesSame DEF CookieInv, SingleF!Inside
<1> QED
  BY <1>2, <1>3, <1>4, <1>5, <1>6 DEF CookieInv

(* vmalloc, proc_mkdir, proc_create, proc_symlink. *)
LEMMA CookieObtain ==
  ASSUME CookieInv, NEW here, NEW what \in {"buf", "dir", "file", "link"},
         NEW next \in {"proc_mkdir", "proc_create", "proc_symlink", "loaded"},
         SingleF!Obtain(here, what, next)
  PROVE  CookieInv'
<1>a. CASE SingleF!FreeAll("rejected")
  BY <1>a, CookieFreeAll DEF SingleF!Obtain
<1>b. CASE /\ cookieLife' = next /\ cookieHeld' = cookieHeld \cup {what}
           /\ UNCHANGED <<cookie, cookiePc, SingleF!fVars, SingleF!tVars, SingleF!history, cookieUp>>
  <2>1. UNCHANGED <<cookie, cookiePc, text, k, tgt, par, task, refs, parent, alone, last, shown,
                    calls, cookieUp>>
    BY <1>b
  <2>2. CookieTypes'
    BY <1>b, <2>1 DEF CookieInv, CookieTypes, SingleF!TypeOK
  <2>3. CookieEntryInv' /\ SingleF!ShowsLastWrite' /\ FaultInv'
    BY <1>b, <2>1 DEF CookieInv, CookieEntryInv, SingleF!ShowsLastWrite,
       FaultInv
  <2>4. RefsInv'
    BY <2>1, CookiePendingSame DEF CookieInv
  <2>5. HeldTaskInv'
    BY <2>1, CookieTasksSame DEF CookieInv
  <2>6. NulInv' /\ AloneInv' /\ LastInv'
    BY <2>1, CookieWritesSame DEF CookieInv
  <2> QED
    BY <2>2, <2>3, <2>4, <2>5, <2>6 DEF CookieInv
<1> QED
  BY <1>a, <1>b DEF SingleF!Obtain

(* open and close move a process and nothing else. *)
LEMMA CookieOpenClose ==
  ASSUME CookieInv, NEW p \in Procs, SingleF!Open(p) \/ SingleF!Release(p)
  PROVE  CookieInv'
<1>0. /\ UNCHANGED <<cookieHeld, cookieLife, cookie, text, k, tgt, par, task, refs, parent, alone, last,
                     shown, calls, cookieUp>>
      /\ SingleF!Running /\ (cookiePc[p] = "open" \/ "file" \in cookieHeld)
  BY DEF SingleF!Open, SingleF!Release
<1>1. /\ cookiePc[p] \in {"closed", "open"} /\ cookiePc'[p] \in {"closed", "open"}
      /\ cookiePc' \in [Procs -> {"closed", "open"} \cup SingleF!Inside]
      /\ \A q \in Procs \ {p} : cookiePc'[q] = cookiePc[q]
  BY DEF SingleF!Open, SingleF!Release, SingleF!Goto, CookieInv, CookieTypes,
     SingleF!TypeOK
<1>2. CookieTypes'
  BY <1>0, <1>1 DEF CookieInv, CookieTypes, SingleF!TypeOK
<1>3. CookieEntryInv' /\ SingleF!ShowsLastWrite' /\ FaultInv'
  BY <1>0, <1>1 DEF CookieInv, CookieEntryInv, SingleF!ShowsLastWrite,
     FaultInv, SingleF!Running
<1>4. RefsInv'
  BY <1>0, <1>1, CookiePendingSame DEF CookieInv
<1>5. HeldTaskInv'
  BY <1>0, <1>1, CookieTasksSame DEF CookieInv
<1>6. NulInv' /\ AloneInv' /\ LastInv'
  BY <1>0, <1>1, CookieWritesSame DEF CookieInv
<1> QED
  BY <1>2, <1>3, <1>4, <1>5, <1>6 DEF CookieInv

(* The first bytes of a text. *)
LEMMA CookieFirstPart ==
  ASSUME NEW T, NEW s \in Seq(T), NEW n \in 0..Len(s)
  PROVE  /\ SubSeq(s, 1, n) \in Seq(T) /\ Len(SubSeq(s, 1, n)) = n
         /\ \A i \in 1..n : SubSeq(s, 1, n)[i] = s[i]
  OBVIOUS

(* A write begins: it is alone only if nobody else writes, and from now on  *)
(* nobody else is.                                                          *)
LEMMA CookieWriteTest ==
  ASSUME CookieInv, NEW p \in Procs, SingleF!WriteTest(p)
  PROVE  CookieInv'
<1>0. /\ UNCHANGED <<cookieHeld, cookieLife, cookie, tgt, par, task, refs, parent, last, shown, cookieUp>>
      /\ SingleF!Running /\ cookiePc[p] = "open" /\ calls < MaxCalls /\ calls' = calls + 1
      /\ k' = [k EXCEPT ![p] = 0] /\ alone' = [q \in Procs |-> q = p /\ SingleF!NobodyWrites]
  BY DEF SingleF!WriteTest
<1>1. /\ cookiePc'[p] = "write" /\ cookiePc' \in [Procs -> {"closed", "open"} \cup SingleF!Inside]
      /\ \A q \in Procs \ {p} : cookiePc'[q] = cookiePc[q]
  BY DEF SingleF!WriteTest, SingleF!Goto, CookieInv, CookieTypes,
     SingleF!TypeOK, SingleF!Inside
<1>2. PICK t \in Texts : SingleF!Fits(Len(t)) /\ text' = [text EXCEPT ![p] = t]
  BY DEF SingleF!WriteTest
<1>3. CookieTypes'
  <2>1. t \in Seq(Bytes) /\ Len(t) \in Nat /\ Len(t) <= Size + 1
    BY <1>2, CookieConstants DEF SingleF!Fits
  <2>2. text' \in [Procs -> Seq(Bytes)] /\ text'[p] = t
    BY <1>2, <2>1 DEF CookieInv, CookieTypes
  <2>3. k' \in [Procs -> 0..Size] /\ k'[p] = 0
    BY <1>0, CookieConstants DEF CookieInv, CookieTypes
  <2>4. ASSUME NEW q \in Procs PROVE k'[q] <= Len(text'[q]) /\ Len(text'[q]) <= Size + 1
    <3>1. CASE q = p
      BY <2>1, <2>2, <2>3, <3>1
    <3>2. CASE q # p
      BY <1>0, <1>2, <3>2, CookieProcTypes DEF CookieInv, CookieTypes
    <3> QED
      BY <3>1, <3>2
  <2>5. calls' \in 0..MaxCalls
    BY <1>0, CookieConstants DEF CookieInv, CookieTypes, SingleF!TypeOK
  <2>6. alone' \in [Procs -> BOOLEAN]
    BY <1>0
  <2> QED
    BY <1>0, <1>1, <2>2, <2>3, <2>4, <2>5, <2>6 DEF CookieInv, CookieTypes,
       SingleF!TypeOK
<1>4. CookieEntryInv' /\ SingleF!ShowsLastWrite' /\ FaultInv'
  BY <1>0, <1>1 DEF CookieInv, CookieEntryInv, SingleF!ShowsLastWrite,
     FaultInv, SingleF!Running
<1>5. RefsInv'
  <2>1. Pending' = Pending
    BY <1>0, <1>1 DEF Pending
  <2>2. Cardinality(Pending) \in Nat
    BY FS_CardinalityType DEF RefsInv, CookieInv
  <2>3. ASSUME NEW u \in Pids PROVE refs[u] + Cardinality(Pending) <= calls + 1
    <3>1. refs[u] \in Nat /\ calls \in Nat
      BY CookieConstants DEF CookieInv, CookieTypes, SingleF!TypeOK
    <3> QED
      BY <2>2, <3>1 DEF CookieInv, RefsInv
  <2> QED
    BY <1>0, <2>1, <2>3 DEF CookieInv, RefsInv
<1>6. HeldTaskInv'
  BY <1>0, <1>1, CookieTasksSame DEF CookieInv
<1>7. NulInv'
  BY <1>0, <1>1 DEF CookieInv, NulInv, CookieTypes
<1>8. AloneInv'
  <2>1. ASSUME NEW q \in Procs, alone'[q] PROVE q = p /\ SingleF!NobodyWrites
    BY <1>0, <2>1
  <2>2. ASSUME SingleF!NobodyWrites, NEW q \in Procs \ {p} PROVE cookiePc'[q] # "write"
    BY <1>1, <2>2 DEF SingleF!NobodyWrites
  <2>3. \A i \in 1..k'[p] : cookie'[i - 1] = text'[p][i]
    <3>1. k'[p] = 0
      BY <1>0 DEF CookieInv, CookieTypes
    <3> QED
      BY <3>1
  <2> QED
    BY <2>1, <2>2, <2>3 DEF AloneInv
<1>9. LastInv'
  BY <1>1 DEF LastInv, SingleF!NobodyWrites
<1> QED
  BY <1>3, <1>4, <1>5, <1>6, <1>7, <1>8, <1>9 DEF CookieInv

(* What a step of a write leaves as it was. *)
LEMMA CookieWriteFrame ==
  ASSUME CookieInv, NEW p \in Procs, cookiePc[p] = "write", SingleF!Running,
         NEW where \in {"write", "open"}, cookiePc' = [cookiePc EXCEPT ![p] = where],
         UNCHANGED <<cookieLife, cookieHeld, tgt, par, task, refs, parent, shown, calls, cookieUp>>
  PROVE  /\ CookieEntryInv' /\ SingleF!ShowsLastWrite' /\ FaultInv' /\ RefsInv' /\ HeldTaskInv'
         /\ cookiePc' \in [Procs -> {"closed", "open"} \cup SingleF!Inside]
         /\ cookiePc'[p] = where /\ \A q \in Procs \ {p} : cookiePc'[q] = cookiePc[q]
<1>1. /\ cookiePc' \in [Procs -> {"closed", "open"} \cup SingleF!Inside]
      /\ cookiePc'[p] = where /\ \A q \in Procs \ {p} : cookiePc'[q] = cookiePc[q]
  BY DEF CookieInv, CookieTypes, SingleF!TypeOK, SingleF!Inside
<1>2. CookieEntryInv' /\ SingleF!ShowsLastWrite' /\ FaultInv'
  BY <1>1 DEF CookieInv, CookieEntryInv, SingleF!ShowsLastWrite, FaultInv,
     SingleF!Running
<1>3. RefsInv'
  BY <1>1, CookiePendingSame DEF CookieInv
<1>4. HeldTaskInv'
  BY <1>1, CookieTasksSame DEF CookieInv
<1> QED
  BY <1>1, <1>2, <1>3, <1>4

(* A write whose text does not end inside the buffer explains the fault. *)
LEMMA CookieOutside ==
  ASSUME CookieInv, NEW p \in Procs, cookiePc[p] = "write", SingleF!Fault("buffer"),
         Len(text[p]) \in {0, Size, Size + 1}
  PROVE  CookieInv'
<1>1. FaultInv'
  BY DEF FaultInv, SingleF!Fault
<1> QED
  BY <1>1, CookieFault

(* copy_from_user copies a byte. *)
LEMMA CookieWriteByte ==
  ASSUME CookieInv, NEW p \in Procs, SingleF!WriteByte(p)
  PROVE  CookieInv'
<1>0. /\ SingleF!Running /\ cookiePc[p] = "write" /\ k[p] < Len(text[p]) /\ CookieTypes
      /\ text[p] \in Seq(Bytes) /\ Len(text[p]) \in Nat /\ k[p] \in 0..Size /\ k[p] \in Nat
      /\ Len(text[p]) <= Size + 1 /\ Size \in Nat
  BY CookieProcTypes, CookieConstants DEF SingleF!WriteByte, CookieInv
<1>1. CASE k[p] \notin SingleF!Cells /\ SingleF!Fault("buffer")
  <2>1. Len(text[p]) = Size + 1
    BY <1>0, <1>1, CookieCells
  <2> QED
    BY <1>0, <1>1, <2>1, CookieOutside
<1>2. CASE /\ k[p] \in SingleF!Cells
           /\ cookie' = [cookie EXCEPT ![k[p]] = text[p][k[p] + 1]]
           /\ k' = [k EXCEPT ![p] = @ + 1]
           /\ UNCHANGED <<cookieLife, cookieHeld, cookiePc, text, tgt, par, SingleF!tVars, SingleF!history, cookieUp>>
  <2>0. text' = text /\ cookiePc' = cookiePc /\ alone' = alone /\ last' = last
    BY <1>2
  <2>1. k[p] + 1 \in 0..Size /\ k[p] + 1 <= Len(text[p]) /\ k[p] + 1 \in 1..Len(text[p])
    BY <1>0, <1>2, CookieCells
  <2>2. text[p][k[p] + 1] \in Bytes
    BY <1>0, <2>1
  <2>3. k' \in [Procs -> 0..Size] /\ k'[p] = k[p] + 1 /\ \A q \in Procs \ {p} : k'[q] = k[q]
    BY <1>2, <2>1 DEF CookieInv, CookieTypes
  <2>4. /\ cookie' \in [SingleF!Cells -> Nat \cup {SingleF!NL}] /\ cookie'[k[p]] = text[p][k[p] + 1]
        /\ \A i \in SingleF!Cells \ {k[p]} : cookie'[i] = cookie[i]
    <3>1. cookie \in [SingleF!Cells -> Nat \cup {SingleF!NL}] /\ text[p][k[p] + 1] \in Nat \cup {SingleF!NL}
      BY <2>2, CookieCells DEF CookieInv, CookieTypes, SingleF!TypeOK
    <3> QED
      BY <1>2, <3>1
  <2>5. CookieTypes'
    <3>1. ASSUME NEW q \in Procs PROVE k'[q] <= Len(text'[q]) /\ Len(text'[q]) <= Size + 1
      <4>1. CASE q = p
        BY <1>0, <2>0, <2>1, <2>3, <4>1
      <4>2. CASE q # p
        BY <1>0, <2>0, <2>3, <4>2, CookieProcTypes
      <4> QED
        BY <4>1, <4>2
    <3> QED
      BY <1>2, <2>3, <2>4, <3>1 DEF CookieInv, CookieTypes, SingleF!TypeOK
  <2>6. CookieEntryInv' /\ SingleF!ShowsLastWrite' /\ FaultInv' /\ RefsInv' /\ HeldTaskInv'
    <3>1. cookiePc' = [cookiePc EXCEPT ![p] = "write"]
      BY <1>0, <2>0 DEF CookieInv, CookieTypes, SingleF!TypeOK
    <3>2. UNCHANGED <<cookieLife, cookieHeld, tgt, par, task, refs, parent, shown, calls, cookieUp>>
      BY <1>2
    <3> QED
      BY <1>0, <3>1, <3>2, CookieWriteFrame
  <2>7. NulInv'
    <3> SUFFICES ASSUME cookie'[Size - 1] # SingleF!NUL
                 PROVE  \E q \in Procs : cookiePc'[q] = "write" /\ k'[q] = Size
      BY DEF NulInv
    <3>1. CASE k[p] = Size - 1
      BY <1>0, <2>0, <2>3, <3>1
    <3>2. CASE k[p] # Size - 1
      <4>1. cookie[Size - 1] # SingleF!NUL
        BY <2>4, <3>2, CookieCells
      <4>2. PICK q \in Procs : cookiePc[q] = "write" /\ k[q] = Size
        BY <4>1 DEF CookieInv, NulInv
      <4>3. q # p
        BY <1>0, <1>2, <4>2, CookieCells
      <4> QED
        BY <2>0, <2>3, <4>2, <4>3
    <3> QED
      BY <3>1, <3>2
  <2>8. AloneInv'
    <3> SUFFICES ASSUME NEW q \in Procs, alone[q], cookiePc[q] = "write"
                 PROVE  /\ \A e \in Procs \ {q} : cookiePc[e] # "write"
                        /\ \A i \in 1..k'[q] : cookie'[i - 1] = text[q][i]
      BY <2>0 DEF AloneInv
    <3>1. /\ \A e \in Procs \ {q} : cookiePc[e] # "write"
          /\ \A i \in 1..k[q] : cookie[i - 1] = text[q][i]
      BY DEF CookieInv, AloneInv
    <3>2. q = p
      BY <1>0, <3>1
    <3>3. ASSUME NEW i \in 1..k'[p] PROVE cookie'[i - 1] = text[p][i]
      <4>1. CASE i = k[p] + 1
        <5>1. i - 1 = k[p]
          BY <1>0, <4>1
        <5> QED
          BY <2>4, <4>1, <5>1
      <4>2. CASE i # k[p] + 1
        <5>1. i \in 1..k[p] /\ i - 1 \in SingleF!Cells \ {k[p]}
          BY <1>0, <1>2, <2>3, <4>2, CookieCells
        <5> QED
          BY <2>4, <3>1, <3>2, <5>1
      <4> QED
        BY <4>1, <4>2
    <3> QED
      BY <3>1, <3>2, <3>3
  <2>9. LastInv'
    BY <1>0, <2>0 DEF LastInv, SingleF!NobodyWrites
  <2> QED
    BY <2>5, <2>6, <2>7, <2>8, <2>9 DEF CookieInv
<1> QED
  BY <1>1, <1>2 DEF SingleF!WriteByte

(* A write leaves: the buffer keeps a NUL at its end, and what the others   *)
(* know.                                                                    *)
LEMMA CookieWriteLeaves ==
  ASSUME CookieInv, NEW p \in Procs, cookiePc[p] = "write", SingleF!Running,
         cookiePc' = [cookiePc EXCEPT ![p] = "open"],
         UNCHANGED <<cookieLife, cookieHeld, tgt, par, task, refs, parent, shown, calls, cookieUp>>,
         text' = text, k' = k, alone' = alone,
         cookie' \in [SingleF!Cells -> Nat \cup {SingleF!NL}],
         cookie'[Size - 1] # SingleF!NUL => k[p] < Size /\ cookie[Size - 1] # SingleF!NUL,
         LastInv'
  PROVE  CookieInv'
<1>1. /\ CookieEntryInv' /\ SingleF!ShowsLastWrite' /\ FaultInv' /\ RefsInv' /\ HeldTaskInv'
      /\ cookiePc' \in [Procs -> {"closed", "open"} \cup SingleF!Inside]
      /\ cookiePc'[p] = "open" /\ \A q \in Procs \ {p} : cookiePc'[q] = cookiePc[q]
  BY CookieWriteFrame
<1>2. CookieTypes'
  BY <1>1 DEF CookieInv, CookieTypes, SingleF!TypeOK
<1>3. NulInv'
  <2> SUFFICES ASSUME cookie'[Size - 1] # SingleF!NUL
               PROVE  \E q \in Procs : cookiePc'[q] = "write" /\ k'[q] = Size
    BY DEF NulInv
  <2>1. PICK q \in Procs : cookiePc[q] = "write" /\ k[q] = Size
    BY DEF CookieInv, NulInv
  <2>2. q # p
    BY <2>1, CookieConstants
  <2> QED
    BY <1>1, <2>1, <2>2
<1>4. AloneInv'
  <2> SUFFICES ASSUME NEW q \in Procs, alone[q], cookiePc'[q] = "write" PROVE FALSE
    BY DEF AloneInv
  <2>1. q # p /\ cookiePc[q] = "write"
    BY <1>1
  <2> QED
    BY <2>1 DEF CookieInv, AloneInv
<1> QED
  BY <1>1, <1>2, <1>3, <1>4 DEF CookieInv

(* copy_from_user fails half way. *)
LEMMA CookieWriteFails ==
  ASSUME CookieInv, NEW p \in Procs, SingleF!WriteFails(p)
  PROVE  CookieInv'
<1>0. /\ SingleF!Running /\ cookiePc[p] = "write" /\ k[p] < Len(text[p])
      /\ Len(text[p]) \in Nat /\ k[p] \in Nat
      /\ Len(text[p]) <= Size + 1 /\ Size \in Nat
  BY CookieProcTypes, CookieConstants DEF SingleF!WriteFails, CookieInv
<1>1. CASE Len(text[p]) > Size /\ SingleF!Fault("buffer")
  <2>1. Len(text[p]) = Size + 1
    BY <1>0, <1>1
  <2> QED
    BY <1>0, <1>1, <2>1, CookieOutside
<1>2. CASE ~(Len(text[p]) > Size /\ SingleF!Fault("buffer"))
  <2>1. /\ Len(text[p]) <= Size
        /\ cookie' = [i \in SingleF!Cells |-> IF i \in k[p] .. (Len(text[p]) - 1) THEN SingleF!NUL ELSE cookie[i]]
        /\ last' = SingleF!Mixture /\ SingleF!Goto(p, "open")
        /\ UNCHANGED <<cookieLife, cookieHeld, SingleF!fVars, SingleF!tVars, alone, shown, calls, cookieUp>>
    BY <1>2 DEF SingleF!WriteFails
  <2>2. cookie' \in [SingleF!Cells -> Nat \cup {SingleF!NL}]
    <3>1. cookie \in [SingleF!Cells -> Nat \cup {SingleF!NL}]
      BY DEF CookieInv, CookieTypes, SingleF!TypeOK
    <3> QED
      BY <2>1, <3>1, CookieCells
  <2>3. cookie'[Size - 1] # SingleF!NUL => k[p] < Size /\ cookie[Size - 1] # SingleF!NUL
    BY <1>0, <2>1, CookieCells
  <2>4. LastInv'
    BY <2>1 DEF LastInv
  <2>5. /\ UNCHANGED <<cookieLife, cookieHeld, tgt, par, task, refs, parent, shown, calls, cookieUp>>
        /\ text' = text /\ k' = k /\ alone' = alone
    BY <2>1
  <2> QED
    BY <1>0, <2>1, <2>2, <2>3, <2>4, <2>5, CookieWriteLeaves DEF SingleF!Goto
<1> QED
  BY <1>1, <1>2

(* cookie_buf[len - 1] = 0 ends a write: alone, it leaves its text. *)
LEMMA CookieWriteNul ==
  ASSUME CookieInv, NEW p \in Procs, SingleF!WriteNul(p)
  PROVE  CookieInv'
<1>0. /\ SingleF!Running /\ cookiePc[p] = "write" /\ k[p] = Len(text[p])
      /\ text[p] \in Seq(Bytes) /\ Len(text[p]) \in Nat
      /\ Len(text[p]) <= Size + 1 /\ Size \in Nat
  BY CookieProcTypes, CookieConstants DEF SingleF!WriteNul, CookieInv
<1>1. CASE Len(text[p]) - 1 \notin SingleF!Cells /\ SingleF!Fault("buffer")
  <2>1. Len(text[p]) \in {0, Size + 1}
    BY <1>0, <1>1, CookieCells
  <2> QED
    BY <1>0, <1>1, <2>1, CookieOutside
<1>2. CASE ~(Len(text[p]) - 1 \notin SingleF!Cells /\ SingleF!Fault("buffer"))
  <2> DEFINE n == Len(text[p]) - 1
  <2>1. /\ n \in SingleF!Cells /\ cookie' = [cookie EXCEPT ![n] = SingleF!NUL]
        /\ last' = (IF alone[p] THEN SingleF!Kept(text[p]) ELSE SingleF!Mixture) /\ SingleF!Goto(p, "open")
        /\ UNCHANGED <<cookieLife, cookieHeld, SingleF!fVars, SingleF!tVars, alone, shown, calls, cookieUp>>
    BY <1>2 DEF SingleF!WriteNul
  <2>2. n \in Nat /\ n < Size /\ n + 1 = Len(text[p])
    BY <1>0, <2>1, CookieCells
  <2> HIDE DEF n
  <2>3. /\ cookie' \in [SingleF!Cells -> Nat \cup {SingleF!NL}] /\ cookie'[n] = SingleF!NUL
        /\ \A i \in SingleF!Cells \ {n} : cookie'[i] = cookie[i]
    <3>1. cookie \in [SingleF!Cells -> Nat \cup {SingleF!NL}]
      BY DEF CookieInv, CookieTypes, SingleF!TypeOK
    <3> QED
      BY <2>1, <3>1, CookieCells
  <2>4. cookie'[Size - 1] # SingleF!NUL => k[p] < Size /\ cookie[Size - 1] # SingleF!NUL
    <3> SUFFICES ASSUME cookie'[Size - 1] # SingleF!NUL PROVE k[p] < Size /\ cookie[Size - 1] # SingleF!NUL
      OBVIOUS
    <3>1. n # Size - 1
      BY <2>3
    <3>2. n + 1 < Size
      BY <1>0, <2>2, <3>1
    <3> QED
      BY <1>0, <2>2, <2>3, <3>1, <3>2, CookieCells
  <2>5. LastInv'
    <3> SUFFICES ASSUME last' # SingleF!Mixture PROVE Holds(last)'
      BY DEF LastInv
    <3>1. alone[p] /\ last' = SingleF!Kept(text[p])
      BY <2>1
    <3>2. /\ SingleF!Kept(text[p]) \in Seq(Bytes) /\ Len(SingleF!Kept(text[p])) = n
          /\ \A i \in 1..n : SingleF!Kept(text[p])[i] = text[p][i]
      <4>1. n \in 0..Len(text[p]) /\ SingleF!Kept(text[p]) = SubSeq(text[p], 1, n)
        BY <1>0, <2>2 DEF SingleF!Kept, n
      <4> QED
        BY <1>0, <4>1, CookieFirstPart
    <3>3. ASSUME NEW i \in 1..n PROVE cookie'[i - 1] = text[p][i]
      <4>1. i \in 1..k[p] /\ i - 1 \in SingleF!Cells \ {n}
        BY <1>0, <2>2, CookieCells
      <4>2. cookie[i - 1] = text[p][i]
        BY <1>0, <3>1, <4>1 DEF CookieInv, AloneInv
      <4> QED
        BY <2>3, <4>1, <4>2
    <3> QED
      BY <2>2, <2>3, <3>1, <3>2, <3>3 DEF Holds
  <2>6. /\ UNCHANGED <<cookieLife, cookieHeld, tgt, par, task, refs, parent, shown, calls, cookieUp>>
        /\ text' = text /\ k' = k /\ alone' = alone
    BY <2>1
  <2> QED
    BY <1>0, <2>1, <2>3, <2>4, <2>5, <2>6, CookieWriteLeaves DEF SingleF!Goto
<1> QED
  BY <1>1, <1>2

(* What a step of a read leaves as it was. *)
LEMMA CookieReadFrame ==
  ASSUME CookieInv, NEW p \in Procs, SingleF!Running, cookiePc[p] \notin {"closed", "write"},
         NEW where \in {"open", "r_parse", "r_task", "r_parent", "r_show"}, SingleF!Goto(p, where),
         UNCHANGED <<cookieLife, cookieHeld, cookie, text, k, task, parent, alone, last, cookieUp>>,
         tgt' \in [Procs -> Seq(Nat \cup {SingleF!NL})], par' \in [Procs -> Pids \cup {SingleF!Idle}],
         refs' \in [Pids -> 0..MaxCalls], calls' \in 0..MaxCalls
  PROVE  /\ CookieTypes' /\ CookieEntryInv' /\ FaultInv' /\ NulInv' /\ AloneInv' /\ LastInv'
         /\ cookiePc'[p] = where /\ \A q \in Procs \ {p} : cookiePc'[q] = cookiePc[q]
<1>1. /\ cookiePc' \in [Procs -> {"closed", "open"} \cup SingleF!Inside]
      /\ cookiePc'[p] = where /\ \A q \in Procs \ {p} : cookiePc'[q] = cookiePc[q]
  BY DEF CookieInv, CookieTypes, SingleF!TypeOK, SingleF!Inside, SingleF!Goto
<1>2. CookieTypes'
  BY <1>1 DEF CookieInv, CookieTypes, SingleF!TypeOK
<1>3. CookieEntryInv' /\ FaultInv'
  BY <1>1 DEF CookieInv, CookieEntryInv, FaultInv, SingleF!Running
<1>4. NulInv' /\ AloneInv' /\ LastInv'
  BY <1>1, CookieWritesSame DEF CookieInv
<1> QED
  BY <1>1, <1>2, <1>3, <1>4

(* What the variables of a read are. *)
LEMMA CookieReadTypes ==
  ASSUME CookieInv
  PROVE  /\ tgt \in [Procs -> Seq(Nat \cup {SingleF!NL})] /\ par \in [Procs -> Pids \cup {SingleF!Idle}]
         /\ refs \in [Pids -> 0..MaxCalls] /\ calls \in 0..MaxCalls
         /\ calls < MaxCalls => calls + 1 \in 0..MaxCalls
         /\ \A t \in Pids : refs[t] \in Nat
  BY CookieConstants DEF CookieInv, CookieTypes, SingleF!TypeOK

(* A read begins, or show is called again. *)
LEMMA CookieRead ==
  ASSUME CookieInv, NEW p \in Procs, SingleF!Running, cookiePc[p] \in {"open", "r_show"},
         calls < MaxCalls, calls' = calls + 1, SingleF!Goto(p, "r_parse"),
         UNCHANGED <<cookieLife, cookieHeld, cookie, SingleF!fVars, SingleF!tVars, alone, last, shown, cookieUp>>
  PROVE  CookieInv'
<1>1. /\ CookieTypes' /\ CookieEntryInv' /\ FaultInv' /\ NulInv' /\ AloneInv' /\ LastInv'
      /\ cookiePc'[p] = "r_parse" /\ \A q \in Procs \ {p} : cookiePc'[q] = cookiePc[q]
  BY CookieReadFrame, CookieReadTypes
<1>2. SingleF!ShowsLastWrite'
  BY DEF CookieInv, SingleF!ShowsLastWrite
<1>3. RefsInv'
  BY CookiePendingAdd DEF CookieInv, Pending
<1>4. HeldTaskInv'
  BY <1>1, CookieTasksSame DEF CookieInv
<1> QED
  BY <1>1, <1>2, <1>3, <1>4 DEF CookieInv

(* The first NUL of a buffer that holds a text is the one behind it. *)
LEMMA CookieFirstNul ==
  ASSUME CookieTypes, NEW s, Holds(s), NEW e \in SingleF!Cells, cookie[e] = SingleF!NUL,
         \A j \in SingleF!Cells : cookie[j] = SingleF!NUL => e <= j
  PROVE  [i \in 1..e |-> cookie[i - 1]] = s
<1>1. s \in Seq(Bytes) /\ Len(s) \in Nat /\ Len(s) \in SingleF!Cells /\ e \in Nat /\ e + 1 - 1 = e
  <2>1. s \in Seq(Bytes) /\ Len(s) < Size
    BY DEF Holds
  <2>2. Len(s) \in Nat
    BY <2>1
  <2>3. Size \in Nat
    BY CookieConstants
  <2>4. e \in Nat /\ e + 1 - 1 = e
    BY <2>3 DEF SingleF!Cells
  <2>5. Len(s) \in SingleF!Cells
    BY <2>1, <2>2, CookieCells
  <2> QED
    BY <2>1, <2>2, <2>4, <2>5
<1>2. e <= Len(s)
  BY <1>1 DEF Holds
<1>3. ~(e < Len(s))
  <2> SUFFICES ASSUME e < Len(s) PROVE FALSE
    OBVIOUS
  <2>1. e + 1 \in 1..Len(s)
    BY <1>1
  <2>2. s[e + 1] \in Bytes
    BY <1>1, <2>1
  <2>3. cookie[e] = s[e + 1]
    BY <1>1, <2>1 DEF Holds
  <2> QED
    BY <2>2, <2>3, CookieCells
<1>4. e = Len(s)
  BY <1>1, <1>2, <1>3
<1>5. s = [i \in 1..Len(s) |-> s[i]]
  BY <1>1
<1>6. [i \in 1..e |-> cookie[i - 1]] = [i \in 1..Len(s) |-> s[i]]
  BY <1>4 DEF Holds
<1> QED
  BY <1>5, <1>6

(* kstrtoint sees the text of the last write, if that had the buffer for    *)
(* itself.                                                                  *)
LEMMA CookieParse ==
  ASSUME CookieInv, NEW p \in Procs, SingleF!Parse(p)
  PROVE  CookieInv'
<1> DEFINE ends == {i \in SingleF!Cells : cookie[i] = SingleF!NUL}
           end == CHOOSE i \in ends : \A j \in ends : i <= j
           str == [i \in 1..end |-> cookie[i - 1]]
           number == IF end > 0 /\ str[end] = SingleF!NL THEN SingleF!Kept(str) ELSE str
<1>0. SingleF!Running /\ cookiePc[p] = "r_parse"
  BY DEF SingleF!Parse
<1>1. CASE ends = {} /\ SingleF!Fault("buffer")
  <2>1. cookie[Size - 1] # SingleF!NUL
    BY <1>1, CookieCells
  <2>2. PICK q \in Procs : cookiePc[q] = "write" /\ k[q] = Size
    BY <2>1 DEF CookieInv, NulInv
  <2>3. Len(text[q]) \in {Size, Size + 1}
    BY <2>2, CookieProcTypes, CookieConstants DEF CookieInv
  <2> QED
    BY <1>1, <2>2, <2>3, CookieOutside
<1>2. CASE ~(ends = {} /\ SingleF!Fault("buffer"))
  <2>1. /\ ends # {}
        /\ shown' = [text |-> str, last |-> IF SingleF!NobodyWrites THEN last ELSE SingleF!Mixture]
        /\ tgt' = [tgt EXCEPT ![p] = number]
        /\ \E where \in {"r_task", "open"} : SingleF!Goto(p, where)
        /\ UNCHANGED <<cookieLife, cookieHeld, cookie, text, k, par, SingleF!tVars, alone, last, calls, cookieUp>>
    BY <1>2 DEF SingleF!Parse
  <2>2. end \in ends /\ \A j \in ends : end <= j
    <3>1. ends \in SUBSET Nat
      BY CookieConstants DEF SingleF!Cells
    <3> HIDE DEF ends
    <3>2. \E i \in ends : \A j \in ends : i <= j
      BY <2>1, <3>1, LeastNatural
    <3> QED
      BY <3>2
  <2>3. end \in SingleF!Cells /\ cookie[end] = SingleF!NUL /\ end \in Nat
    BY <2>2, CookieCells DEF SingleF!Cells
  <2>4. \A j \in SingleF!Cells : cookie[j] = SingleF!NUL => end <= j
    BY <2>2
  <2> HIDE DEF ends, end
  <2>5. str \in Seq(Nat \cup {SingleF!NL})
    <3>1. \A i \in 1..end : cookie[i - 1] \in Nat \cup {SingleF!NL}
      <4>1. cookie \in [SingleF!Cells -> Nat \cup {SingleF!NL}]
        BY DEF CookieInv, CookieTypes, SingleF!TypeOK
      <4>2. \A i \in 1..end : i - 1 \in SingleF!Cells
        BY <2>3, CookieConstants DEF SingleF!Cells
      <4> QED
        BY <4>1, <4>2
    <3> QED
      BY <2>3, <3>1
  <2>6. number \in Seq(Nat \cup {SingleF!NL})
    <3>1. CASE end > 0 /\ str[end] = SingleF!NL
      <4>1. Len(str) = end
        BY <2>3
      <4>2. end - 1 \in 0..Len(str) /\ SingleF!Kept(str) = SubSeq(str, 1, end - 1)
        BY <2>3, <3>1, <4>1 DEF SingleF!Kept
      <4> HIDE DEF str
      <4>3. SingleF!Kept(str) \in Seq(Nat \cup {SingleF!NL})
        BY <2>5, <4>2, CookieFirstPart
      <4> QED
        BY <3>1, <4>3
    <3>2. CASE ~(end > 0 /\ str[end] = SingleF!NL)
      BY <2>5, <3>2
    <3> QED
      BY <3>1, <3>2
  <2>7. SingleF!ShowsLastWrite'
    <3>1. shown'.text = str /\ shown'.last = IF SingleF!NobodyWrites THEN last ELSE SingleF!Mixture
      BY <2>1
    <3> SUFFICES ASSUME shown'.last # SingleF!Mixture PROVE str = shown'.last
      BY <3>1 DEF SingleF!ShowsLastWrite
    <3>2. SingleF!NobodyWrites /\ last # SingleF!Mixture /\ shown'.last = last
      BY <3>1
    <3>3. Holds(last)
      BY <3>2 DEF CookieInv, LastInv
    <3>4. str = last
      BY <2>3, <2>4, <3>3, CookieFirstNul DEF CookieInv
    <3> QED
      BY <3>2, <3>4
  <2> HIDE DEF str, number
  <2>8. PICK where \in {"r_task", "open"} : SingleF!Goto(p, where)
    BY <2>1
  <2>9. tgt' \in [Procs -> Seq(Nat \cup {SingleF!NL})]
    BY <2>1, <2>6, CookieReadTypes
  <2>10. /\ CookieTypes' /\ CookieEntryInv' /\ FaultInv' /\ NulInv' /\ AloneInv' /\ LastInv'
         /\ cookiePc'[p] = where /\ \A q \in Procs \ {p} : cookiePc'[q] = cookiePc[q]
    <3>1. /\ par' \in [Procs -> Pids \cup {SingleF!Idle}] /\ refs' \in [Pids -> 0..MaxCalls]
          /\ calls' \in 0..MaxCalls
          /\ UNCHANGED <<cookieLife, cookieHeld, cookie, text, k, task, parent, alone, last, cookieUp>>
      BY <2>1, CookieReadTypes
    <3> QED
      BY <1>0, <2>8, <2>9, <3>1, CookieReadFrame
  <2>11. RefsInv'
    <3>1. CASE where = "open"
      <4>1. p \in Pending /\ refs' = refs /\ calls' = calls
        BY <1>0, <2>1 DEF Pending
      <4>2. refs' \in [Pids -> Nat] /\ \A t \in Pids : refs'[t] <= refs[t] + 1
        BY <4>1, CookieReadTypes
      <4> QED
        BY <2>8, <3>1, <4>1, <4>2, CookiePendingRemove DEF CookieInv
    <3>2. CASE where = "r_task"
      BY <1>0, <2>1, <2>10, <3>2, CookiePendingSame DEF CookieInv
    <3> QED
      BY <3>1, <3>2
  <2>12. HeldTaskInv'
    <3>1. ASSUME NEW q \in Procs, cookiePc'[q] \in {"r_parent", "r_show"}
          PROVE  cookiePc[q] \in {"r_parent", "r_show"} /\ tgt'[q] = tgt[q]
      BY <2>1, <2>10, <3>1, CookieReadTypes
    <3> QED
      BY <2>1, <3>1, CookieTasksSame DEF CookieInv
  <2> QED
    BY <2>7, <2>10, <2>11, <2>12 DEF CookieInv
<1> QED
  BY <1>1, <1>2

(* get_pid_task takes a reference to a task that lives. *)
LEMMA CookieFindTask ==
  ASSUME CookieInv, NEW p \in Procs, SingleF!FindTask(p)
  PROVE  CookieInv'
<1>0. /\ SingleF!Running /\ cookiePc[p] = "r_task" /\ p \in Pending
      /\ UNCHANGED <<cookieLife, cookieHeld, cookie, text, k, tgt, par, task, parent, alone, last, shown,
                     calls, cookieUp>>
  BY DEF SingleF!FindTask, Pending
<1>1. PICK where \in {"open", "r_parent"} :
         /\ SingleF!Goto(p, where)
         /\ \/ /\ where = "r_parent" /\ tgt[p] \in Pids /\ task[tgt[p]] = "alive"
               /\ refs' = [refs EXCEPT ![tgt[p]] = @ + 1]
            \/ where = "open" /\ refs' = refs
  BY DEF SingleF!FindTask
<1>2. refs' \in [Pids -> 0..MaxCalls] /\ \A t \in Pids : refs'[t] <= refs[t] + 1
                                                   /\ refs'[t] >= refs[t]
  <2>1. CASE refs' = refs
    BY <2>1, CookieReadTypes
  <2>2. CASE tgt[p] \in Pids /\ refs' = [refs EXCEPT ![tgt[p]] = @ + 1]
    <3>1. refs[tgt[p]] + 1 \in 0..MaxCalls
      BY <1>0, <2>2, CookieRefsBelow DEF CookieInv
    <3> QED
      BY <2>2, <3>1, CookieReadTypes
  <2> QED
    BY <1>1, <2>1, <2>2
<1>3. /\ CookieTypes' /\ CookieEntryInv' /\ FaultInv' /\ NulInv' /\ AloneInv' /\ LastInv'
      /\ cookiePc'[p] = where /\ \A q \in Procs \ {p} : cookiePc'[q] = cookiePc[q]
  BY <1>0, <1>1, <1>2, CookieReadFrame, CookieReadTypes
<1>4. SingleF!ShowsLastWrite'
  BY <1>0 DEF CookieInv, SingleF!ShowsLastWrite
<1>5. RefsInv'
  <2>1. refs' \in [Pids -> Nat]
    BY <1>2, CookieConstants
  <2> QED
    BY <1>0, <1>1, <1>2, <2>1, CookiePendingRemove DEF CookieInv
<1>6. HeldTaskInv'
  <2>1. ASSUME NEW t \in Pids, refs'[t] > 0 PROVE task'[t] # "freed"
    <3>1. CASE refs'[t] = refs[t]
      BY <1>0, <2>1, <3>1 DEF CookieInv, HeldTaskInv
    <3>2. CASE refs'[t] # refs[t]
      <4>1. t = tgt[p] /\ task[tgt[p]] = "alive"
        BY <1>1, <3>2, CookieReadTypes
      <4> QED
        BY <1>0, <4>1
    <3> QED
      BY <3>1, <3>2
  <2>2. ASSUME NEW q \in Procs, cookiePc'[q] \in {"r_parent", "r_show"}
        PROVE  tgt[q] \in Pids /\ refs'[tgt[q]] > 0
    <3>1. CASE q = p
      <4>1. tgt[p] \in Pids /\ refs' = [refs EXCEPT ![tgt[p]] = @ + 1]
        BY <1>1, <1>3, <2>2, <3>1
      <4> QED
        BY <3>1, <4>1, CookieReadTypes
    <3>2. CASE q # p
      <4>1. tgt[q] \in Pids /\ refs[tgt[q]] > 0
        BY <1>3, <2>2, <3>2 DEF CookieInv, HeldTaskInv
      <4>2. refs'[tgt[q]] >= refs[tgt[q]] /\ refs[tgt[q]] \in Nat /\ refs'[tgt[q]] \in Int
        BY <1>2, <4>1, CookieReadTypes
      <4> QED
        BY <4>1, <4>2
    <3> QED
      BY <3>1, <3>2
  <2> QED
    BY <1>0, <2>1, <2>2 DEF HeldTaskInv
<1> QED
  BY <1>3, <1>4, <1>5, <1>6 DEF CookieInv

(* The task that show follows is held. *)
LEMMA CookieTaskThere ==
  ASSUME CookieInv, NEW p \in Procs, cookiePc[p] \in {"r_parent", "r_show"}
  PROVE  tgt[p] \in Pids /\ task[tgt[p]] # "freed"
  BY DEF CookieInv, HeldTaskInv

(* task->parent is loaded. *)
LEMMA CookieLoadParent ==
  ASSUME CookieInv, NEW p \in Procs, SingleF!LoadParent(p)
  PROVE  CookieInv'
<1>0. SingleF!Running /\ cookiePc[p] = "r_parent" /\ tgt[p] \in Pids /\ task[tgt[p]] # "freed"
  BY CookieTaskThere DEF SingleF!LoadParent
<1>1. /\ par' = [par EXCEPT ![p] = parent[tgt[p]]] /\ SingleF!Goto(p, "r_show")
      /\ UNCHANGED <<cookieLife, cookieHeld, cookie, text, k, tgt, task, refs, parent, alone, last, shown,
                     calls, cookieUp>>
  BY <1>0 DEF SingleF!LoadParent
<1>2. par' \in [Procs -> Pids \cup {SingleF!Idle}]
  <2>1. parent[tgt[p]] \in Pids \cup {SingleF!Idle}
    BY <1>0 DEF CookieInv, CookieTypes, SingleF!TypeOK
  <2> QED
    BY <1>1, <2>1, CookieReadTypes
<1>3. /\ CookieTypes' /\ CookieEntryInv' /\ FaultInv' /\ NulInv' /\ AloneInv' /\ LastInv'
      /\ cookiePc'[p] = "r_show" /\ \A q \in Procs \ {p} : cookiePc'[q] = cookiePc[q]
  BY <1>0, <1>1, <1>2, CookieReadFrame, CookieReadTypes
<1>4. SingleF!ShowsLastWrite'
  BY <1>1 DEF CookieInv, SingleF!ShowsLastWrite
<1>5. RefsInv'
  BY <1>0, <1>1, <1>3, CookiePendingSame DEF CookieInv
<1>6. HeldTaskInv'
  BY <1>0, <1>1, <1>3, CookieTasksSame DEF CookieInv
<1> QED
  BY <1>3, <1>4, <1>5, <1>6 DEF CookieInv

(* The parent is followed: it may be freed, but only if nobody has ever     *)
(* shown it.                                                                *)
LEMMA CookieShow ==
  ASSUME CookieInv, NEW p \in Procs, SingleF!Show(p)
  PROVE  CookieInv'
<1>0. SingleF!Running /\ cookiePc[p] = "r_show" /\ tgt[p] \in Pids /\ task[tgt[p]] # "freed"
  BY CookieTaskThere DEF SingleF!Show
<1>1. CASE par[p] # SingleF!Idle /\ task[par[p]] = "freed" /\ SingleF!Fault("parent")
  <2>1. par[p] \in Pids /\ refs[par[p]] \in Nat
    BY <1>1, CookieReadTypes
  <2>2. refs[par[p]] = 0
    BY <1>1, <2>1 DEF CookieInv, HeldTaskInv
  <2>3. FaultInv'
    BY <1>0, <1>1, <2>1, <2>2 DEF FaultInv, SingleF!Fault
  <2> QED
    BY <1>1, <2>3, CookieFault
<1>2. CASE /\ SingleF!Goto(p, "open") /\ UNCHANGED calls
           /\ UNCHANGED <<cookieLife, cookieHeld, cookie, SingleF!fVars, SingleF!tVars, alone, last, shown, cookieUp>>
  <2>1. /\ CookieTypes' /\ CookieEntryInv' /\ FaultInv' /\ NulInv' /\ AloneInv' /\ LastInv'
        /\ cookiePc'[p] = "open" /\ \A q \in Procs \ {p} : cookiePc'[q] = cookiePc[q]
    BY <1>0, <1>2, CookieReadFrame, CookieReadTypes
  <2>2. SingleF!ShowsLastWrite'
    BY <1>2 DEF CookieInv, SingleF!ShowsLastWrite
  <2>3. RefsInv'
    BY <1>0, <1>2, <2>1, CookiePendingSame DEF CookieInv
  <2>4. HeldTaskInv'
    BY <1>0, <1>2, <2>1, CookieTasksSame DEF CookieInv
  <2> QED
    BY <2>1, <2>2, <2>3, <2>4 DEF CookieInv
<1>3. CASE /\ calls < MaxCalls /\ calls' = calls + 1 /\ SingleF!Goto(p, "r_parse")
           /\ UNCHANGED <<cookieLife, cookieHeld, cookie, SingleF!fVars, SingleF!tVars, alone, last, shown, cookieUp>>
  BY <1>0, <1>3, CookieRead
<1> QED
  BY <1>0, <1>1, <1>2, <1>3 DEF SingleF!Show

(* A task that show holds a reference to stays when it exits. *)
LEMMA CookieExitTask ==
  ASSUME CookieInv, NEW t \in Pids, SingleF!ExitTask(t)
  PROVE  CookieInv'
<1>0. /\ UNCHANGED <<cookieLife, cookieHeld, cookie, cookiePc, text, k, tgt, par, refs, alone, last, shown,
                     calls, cookieUp>>
      /\ SingleF!Running
  BY DEF SingleF!ExitTask
<1>1. CookieTypes'
  <2>1. task' \in [Pids -> {"alive", "exited", "freed"}]
    BY DEF SingleF!ExitTask, CookieInv, CookieTypes, SingleF!TypeOK
  <2>2. parent' \in [Pids -> Pids \cup {SingleF!Idle}]
    BY DEF SingleF!ExitTask, CookieInv, CookieTypes, SingleF!TypeOK
  <2> QED
    BY <1>0, <2>1, <2>2 DEF CookieInv, CookieTypes, SingleF!TypeOK
<1>2. CookieEntryInv' /\ FaultInv' /\ SingleF!ShowsLastWrite'
  BY <1>0 DEF CookieInv, CookieEntryInv, FaultInv, SingleF!ShowsLastWrite,
     SingleF!Running
<1>3. RefsInv'
  BY <1>0, CookiePendingSame DEF CookieInv
<1>4. NulInv' /\ AloneInv' /\ LastInv'
  BY <1>0, CookieWritesSame DEF CookieInv
<1>5. HeldTaskInv'
  <2>1. ASSUME NEW u \in Pids, refs[u] > 0 PROVE task'[u] # "freed"
    BY <2>1, CookieReadTypes DEF SingleF!ExitTask, CookieInv, HeldTaskInv,
       CookieTypes, SingleF!TypeOK
  <2> QED
    BY <1>0, <2>1 DEF CookieInv, HeldTaskInv
<1> QED
  BY <1>1, <1>2, <1>3, <1>4, <1>5 DEF CookieInv

(* Every step keeps the invariant. *)
LEMMA CookieStepHolds == CookieInv /\ [SingleF!Next]_SingleF!vars => CookieInv'
<1> SUFFICES ASSUME CookieInv, [SingleF!Next]_SingleF!vars PROVE CookieInv'
  OBVIOUS
<1>1. CASE UNCHANGED SingleF!vars
  <2>0. UNCHANGED <<cookieLife, cookieHeld, cookie, cookiePc, text, k, tgt, par, task, refs, parent, alone, last,
                    shown, calls, cookieUp>>
    BY <1>1 DEF SingleF!vars
  <2>1. CookieTypes'
    BY <2>0 DEF CookieInv, CookieTypes, SingleF!TypeOK
  <2>2. CookieEntryInv' /\ FaultInv' /\ SingleF!ShowsLastWrite'
    BY <2>0 DEF CookieInv, CookieEntryInv, FaultInv, SingleF!ShowsLastWrite
  <2>3. RefsInv'
    BY <2>0, CookiePendingSame DEF CookieInv
  <2>4. NulInv' /\ AloneInv' /\ LastInv'
    BY <2>0, CookieWritesSame DEF CookieInv
  <2>5. HeldTaskInv'
    BY <2>0, CookieTasksSame DEF CookieInv
  <2> QED
    BY <2>1, <2>2, <2>3, <2>4, <2>5 DEF CookieInv
<1>2. CASE SingleF!CtInit
  BY <1>2, CookieObtain DEF SingleF!CtInit
<1>3. CASE SingleF!CtExit
  BY <1>3, CookieFreeAll DEF SingleF!CtExit
<1>4. ASSUME NEW p \in Procs,
             \/ SingleF!Open(p) \/ SingleF!Release(p)
             \/ SingleF!WriteTest(p) \/ SingleF!WriteByte(p) \/ SingleF!WriteFails(p) \/ SingleF!WriteNul(p)
      PROVE  CookieInv'
  BY <1>4, CookieOpenClose, CookieWriteTest, CookieWriteByte,
     CookieWriteFails, CookieWriteNul
<1>5. ASSUME NEW p \in Procs, SingleF!Read(p) PROVE CookieInv'
  <2>1. /\ SingleF!Running /\ cookiePc[p] = "open" /\ calls < MaxCalls
        /\ calls' = calls + 1 /\ SingleF!Goto(p, "r_parse")
        /\ UNCHANGED <<cookieLife, cookieHeld, cookie, SingleF!fVars, SingleF!tVars, alone, last, shown, cookieUp>>
    BY <1>5 DEF SingleF!Read
  <2> QED
    BY <2>1, CookieRead
<1>6. ASSUME NEW p \in Procs, SingleF!Parse(p) \/ SingleF!FindTask(p) \/ SingleF!LoadParent(p) \/ SingleF!Show(p) PROVE CookieInv'
  BY <1>6, CookieParse, CookieFindTask, CookieLoadParent, CookieShow
<1>7. ASSUME NEW t \in Pids, SingleF!ExitTask(t) PROVE CookieInv'
  BY <1>7, CookieExitTask
<1> QED
  BY <1>1, <1>2, <1>3, <1>4, <1>5, <1>6, <1>7 DEF SingleF!Next

(* The invariant implies both properties. *)
LEMMA CookieImplies == CookieInv => SingleF!ShowsLastWrite /\ SingleF!FaultExplained
  BY DEF CookieInv, CookieTypes, FaultInv, SingleF!FaultExplained

(* The invariant holds in every behaviour of the composed modules. *)
THEOREM CookieInvariant == AllSpec => []CookieInv
<1>1. AllInit => SingleF!Init
  BY DEF AllInit
<1>2. [AllNext]_allVars => [SingleF!Next]_SingleF!vars
  BY DEF AllNext, VfsStep, MyVfsStep, SeqFileStep, SingleFileStep, allVars, singleVars,
         SingleF!vars
<1> QED
  BY <1>1, <1>2, CookieInitHolds, CookieStepHolds, PTL DEF AllSpec

(* ct_seq_show reads the text of the last ct_seq_write if no write is under *)
(* way and the last one had cookie_buf for itself and did not fail: nothing *)
(* but a second write, at any of its bytes, can come between.               *)
THEOREM CookieShows == AllSpec => []ShowsLastWrite
<1>1. CookieInv => ShowsLastWrite
  BY CookieImplies DEF ShowsLastWrite
<1> QED
  BY <1>1, CookieInvariant, PTL

(* The references that get_pid_task takes keep the task from going, the     *)
(* parent of it may be gone, and cookie_buf is left only while a write is   *)
(* under way that fills it, is one byte longer or is empty.                 *)
THEOREM CookieFaults == AllSpec => []FaultExplained
<1>1. CookieInv => FaultExplained
  BY CookieImplies DEF FaultExplained
<1> QED
  BY <1>1, CookieInvariant, PTL
=============================================================================
