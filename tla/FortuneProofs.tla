---------------------------- MODULE FortuneProofs ----------------------------
(***************************************************************************)
(* Machine-checked proofs about Fortune, for any number of processes, any  *)
(* size of the pot and any number of calls: unloading leaves nothing       *)
(* behind, calls that do not overlap leave the pot in two ways only, and   *)
(* they make it a ring of cookies (the refinement of CookieRing).          *)
(***************************************************************************)
EXTENDS Fortune, NumberLemmas, FiniteSetTheorems

(* The inductive invariant.                                                 *)

(* What md_init has registered when it comes to each of its statements.     *)
HeldAt(stmt) ==
    CASE stmt \in {"vmalloc", "rejected", "gone"} -> {}
      [] stmt = "proc_mkdir" -> {"pot"}
      [] stmt = "proc_create" -> {"pot", "dir"}
      [] stmt = "proc_symlink" -> {"pot", "dir", "file"}
      [] stmt \in {"reset", "loaded"} -> {"pot", "dir", "file", "link"}

(* Only a registered file is open; a write carries the byte of its call.    *)
LifeInv ==
    /\ held = HeldAt(life)
    /\ buf = [p \in Procs |-> buf[p]]
    /\ \A p \in Procs :
        /\ pc[p] # "closed" => "file" \in held
        /\ pc[p] = "w_copy" => buf[p][1] \in 0..MaxCalls

(* Where the one call inside the module is: the index in its register is    *)
(* the shared one, and what it is about to add to an index stays in bounds. *)
CallInv(p) ==
    /\ pc[p] = "w_copy" => loc[p] = writeInd /\ writeInd + len[p] <= Size + 1
    /\ pc[p] = "w_load" => writeInd + len[p] <= Size
    /\ pc[p] = "w_store" => loc[p] = writeInd /\ writeInd + len[p] <= Size
    /\ pc[p] = "w_term" => writeInd = loc[p] + len[p]
    /\ pc[p] = "r_wrap" => loc[p] = writeInd /\ writeInd # 0
    /\ pc[p] = "r_format" => readInd < writeInd
    /\ pc[p] \in {"r_copy", "r_load"} => readInd + len[p] <= writeInd
    /\ pc[p] = "r_store" => loc[p] = readInd /\ readInd + len[p] <= writeInd

(* The text before writeInd is terminated, unless a write is about to.      *)
Terminated ==
    writeInd # 0 /\ (\A p \in Procs : pc[p] # "w_term") => pot[writeInd - 1] = NUL

(* One call at a time, in a module that is loaded.                          *)
AloneInv ==
    /\ \A p, q \in Procs : pc[p] \notin Outside /\ pc[q] \notin Outside => p = q
    /\ \A p \in Procs : pc[p] \notin Outside => life = "loaded"
    /\ readInd <= writeInd /\ writeInd <= Size
    /\ \A p \in Procs : CallInv(p)
    /\ Terminated

SequentialInv == overlap \/ early \/ AloneInv

IInv == TypeOK /\ LifeInv /\ SequentialInv /\ FaultExplained
-----------------------------------------------------------------------------
(* Types, and what md_init and md_exit register and release.                *)

(* Going to the next statement keeps the program counters well typed and    *)
(* moves no other process.                                                  *)
LEMMA GotoType ==
    ASSUME TypeOK, NEW p \in Procs, NEW where \in Outside \cup Writing \cup Reading,
           Goto(p, where)
    PROVE  /\ pc' \in [Procs -> Outside \cup Writing \cup Reading]
           /\ pc'[p] = where
           /\ \A q \in Procs : q # p => pc'[q] = pc[q]
    BY DEF TypeOK, Goto

(* A process whose call is inside the module finds the file registered, so  *)
(* md_exit, which waits for it, does not free the pot under it.             *)
LEMMA InsideHeld ==
    ASSUME TypeOK, LifeInv, NEW p \in Procs, pc[p] # "closed"
    PROVE  "pot" \in held
    BY DEF LifeInv, HeldAt, TypeOK, Loading

(* remove_proc_entry and vfree leave nothing.                               *)
LEMMA FreeStep ==
    ASSUME TypeOK, LifeInv, NEW next \in {"rejected", "gone"}, FreeMemory(next)
    PROVE  TypeOK' /\ LifeInv'
<1>1. pc' \in [Procs -> Outside \cup Writing \cup Reading]
    BY DEF FreeMemory, Outside
<1>2. \A p \in Procs : pc'[p] = "closed"
    BY DEF FreeMemory
<1>3. LifeInv'
    BY <1>2 DEF FreeMemory, LifeInv, HeldAt
<1>4. TypeOK'
    BY <1>1, <1>2 DEF FreeMemory, TypeOK, potVars, history, Outside
<1> QED
    BY <1>3, <1>4

(* md_init keeps the types.                                                 *)
LEMMA InitStep ==
    ASSUME TypeOK, LifeInv, MdInit \/ MdExit
    PROVE  TypeOK' /\ LifeInv'
<1>1. CASE Vmalloc
  <2>1. \A p \in Procs : pc[p] = "closed"
    BY <1>1 DEF Vmalloc, LifeInv, HeldAt
  <2>2. LifeInv'
    BY <1>1, <2>1 DEF Vmalloc, LifeInv, HeldAt, pVars
  <2>3. TypeOK'
    BY <1>1, <2>1 DEF Vmalloc, TypeOK, Loading, Outside, potVars, pVars, history
  <2> QED
    BY <2>2, <2>3
<1>2. ASSUME NEW here, NEW name, NEW next,
             \/ here = "proc_mkdir" /\ name = "dir" /\ next = "proc_create"
             \/ here = "proc_create" /\ name = "file" /\ next = "proc_symlink"
             \/ here = "proc_symlink" /\ name = "link" /\ next = "reset",
             ProcEntry(here, name, next)
      PROVE  TypeOK' /\ LifeInv'
  <2>1. CASE FreeMemory("rejected")
    BY <2>1, FreeStep
  <2>2. CASE life = here /\ life' = next /\ held' = held \cup {name}
             /\ UNCHANGED <<potVars, pVars, history, up>>
    <3>1. LifeInv'
      BY <1>2, <2>2 DEF LifeInv, HeldAt, pVars
    <3>2. TypeOK'
      BY <1>2, <2>2 DEF TypeOK, Loading, potVars, pVars, history
    <3> QED
      BY <3>1, <3>2
  <2> QED
    BY <1>2, <2>1, <2>2 DEF ProcEntry
<1>3. CASE ResetIndices
  <2>1. LifeInv'
    BY <1>3 DEF ResetIndices, LifeInv, HeldAt, pVars
  <2>2. TypeOK'
    BY <1>3 DEF ResetIndices, TypeOK, Loading, pVars, history
  <2> QED
    BY <2>1, <2>2
<1>4. CASE MdExit
  BY <1>4, FreeStep DEF MdExit
<1> QED
  BY <1>1, <1>2, <1>3, <1>4 DEF MdInit

(* Facts about a step of a process that TypeOK and LifeInv follow from.     *)
LEMMA ProcessStep ==
    ASSUME TypeOK, LifeInv, NEW p \in Procs, NEW where \in Outside \cup Writing \cup Reading,
           Goto(p, where), UNCHANGED <<life, held, up>>,
           where # "closed" => "file" \in held,
           pot' \in [Pot -> 0..MaxCalls], tmpBuf' \in [Pot -> 0..NL],
           writeInd' \in Nat, readInd' \in Nat,
           fPos' \in [Procs -> BOOLEAN], len' \in [Procs -> Lens], loc' \in [Procs -> Nat],
           calls' \in 0..MaxCalls, overlap' \in BOOLEAN, early' \in BOOLEAN,
           \A q \in Procs : q # p => buf'[q] = buf[q],
           buf' = [q \in Procs |-> buf'[q]],
           where = "w_copy" => buf'[p][1] \in 0..MaxCalls
    PROVE  TypeOK' /\ LifeInv'
<1>1. /\ pc' \in [Procs -> Outside \cup Writing \cup Reading]
      /\ pc'[p] = where
      /\ \A q \in Procs : q # p => pc'[q] = pc[q]
    BY GotoType
<1>2. LifeInv'
    BY <1>1 DEF LifeInv
<1>3. "file" \in held => "pot" \in held
    BY DEF LifeInv, HeldAt, TypeOK, Loading
<1>4. \A q \in Procs : pc'[q] \notin Outside => "pot" \in held
    BY <1>1, <1>3 DEF TypeOK, Outside
<1>5. TypeOK'
    BY <1>1, <1>4 DEF TypeOK
<1> QED
    BY <1>2, <1>5
(* Processes keep the types: their indices are natural numbers, the lengths *)
(* they call with or have read are in range, and the bytes are bytes.       *)
LEMMA ProcessTypes ==
    ASSUME TypeOK, LifeInv, NEW p \in Procs,
           FortuneOpen(p) \/ FortuneRelease(p) \/ FortuneWrite(p) \/ FortuneRead(p),
           ~Fault
    PROVE  TypeOK' /\ LifeInv'
<1> USE FortuneAssumption DEF Outside, Writing, Reading
<1>0. /\ pot \in [Pot -> 0..MaxCalls] /\ tmpBuf \in [Pot -> 0..NL]
      /\ writeInd \in Nat /\ readInd \in Nat
      /\ fPos \in [Procs -> BOOLEAN] /\ len \in [Procs -> Lens] /\ loc \in [Procs -> Nat]
      /\ calls \in 0..MaxCalls /\ overlap \in BOOLEAN /\ early \in BOOLEAN
      /\ \A n \in Lens : n \in Nat
      /\ \A q \in Procs : len[q] \in Nat /\ loc[q] \in Nat
      /\ pc[p] # "closed" => "file" \in held
      /\ buf = [q \in Procs |-> buf[q]]
    BY DEF TypeOK, LifeInv, Lens
<1>1. CASE FortuneOpen(p)
  <2>1. /\ Goto(p, "open") /\ "file" \in held /\ fPos' \in [Procs -> BOOLEAN]
        /\ UNCHANGED <<life, held, up, pot, tmpBuf, writeInd, readInd, len, loc, calls, overlap,
                       early, buf>>
    BY <1>0, <1>1 DEF FortuneOpen, potVars, history
  <2> QED
    BY <1>0, <2>1, ProcessStep
<1>2. CASE FortuneRelease(p)
  <2>1. /\ Goto(p, "closed")
        /\ UNCHANGED <<life, held, up, pot, tmpBuf, writeInd, readInd, fPos, len, loc, calls,
                       overlap, early, buf>>
    BY <1>0, <1>2 DEF FortuneRelease, potVars, history
  <2> QED
    BY <1>0, <2>1, ProcessStep
<1>3. ASSUME NEW where, Enter(p, where)
      PROVE  /\ pc[p] = "open" /\ Goto(p, where)
             /\ calls' = calls + 1 /\ calls' \in 0..MaxCalls
             /\ overlap' \in BOOLEAN /\ early' \in BOOLEAN
  <2>1. pc[p] = "open" /\ Goto(p, where) /\ calls' = calls + 1 /\ calls < MaxCalls
    BY <1>3 DEF Enter
  <2>2. calls' \in 0..MaxCalls
    BY <1>0, <2>1
  <2>3. overlap' \in BOOLEAN
    BY <1>0, <1>3 DEF Enter
  <2>4. early' \in BOOLEAN
    BY <1>0, <1>3 DEF Enter
  <2> QED
    BY <2>1, <2>2, <2>3, <2>4
<1>4. CASE WriteTest(p)
  <2>1. PICK n \in Lens : /\ Enter(p, "w_copy")
                          /\ len' = [len EXCEPT ![p] = n]
                          /\ loc' = [loc EXCEPT ![p] = writeInd]
                          /\ buf' = [buf EXCEPT ![p] = <<calls + 1>>]
                          /\ UNCHANGED <<life, held, potVars, fPos, out, up>>
    BY <1>4 DEF WriteTest
  <2>2. /\ len' \in [Procs -> Lens] /\ loc' \in [Procs -> Nat]
    BY <1>0, <2>1
  <2>3. /\ buf'[p][1] = calls + 1
        /\ \A q \in Procs : q # p => buf'[q] = buf[q]
        /\ buf' = [q \in Procs |-> buf'[q]]
    BY <1>0, <2>1
  <2> QED
    BY <1>0, <1>3, <2>1, <2>2, <2>3, ProcessStep DEF potVars
<1>5. CASE WriteCopy(p)
  <2>1. PICK n \in Int, where \in {"w_load", "open"} :
          /\ pc[p] = "w_copy" /\ Goto(p, where)
          /\ pot' = [i \in Pot |-> IF i \notin loc[p] .. (loc[p] + len[p] - 1) THEN pot[i]
                                   ELSE IF i < loc[p] + n THEN buf[p][1] ELSE NUL]
          /\ UNCHANGED <<life, held, writeInd, readInd, tmpBuf, fPos, len, loc, buf, history, up>>
    BY <1>0, <1>5 DEF WriteCopy, Fault
  <2>2. buf[p][1] \in 0..MaxCalls
    BY <2>1 DEF LifeInv
  <2>3. pot' \in [Pot -> 0..MaxCalls]
    BY <1>0, <2>1, <2>2 DEF NUL
  <2> QED
    BY <1>0, <2>1, <2>3, ProcessStep DEF history
<1>6. CASE WriteLoad(p)
  <2>1. loc' \in [Procs -> Nat]
    BY <1>0, <1>6 DEF WriteLoad
  <2> QED
    BY <1>0, <1>6, <2>1, ProcessStep DEF WriteLoad, potVars, history
<1>7. CASE WriteStore(p)
  <2>1. writeInd' \in Nat
    BY <1>0, <1>7 DEF WriteStore
  <2> QED
    BY <1>0, <1>7, <2>1, ProcessStep DEF WriteStore, history
<1>8. CASE WriteTerminate(p)
  <2> DEFINE last == loc[p] + len[p] - 1
  <2>1. /\ pc[p] = "w_term" /\ Goto(p, "open")
        /\ pot' = [pot EXCEPT ![last] = NUL]
        /\ UNCHANGED <<life, held, writeInd, readInd, tmpBuf, fPos, len, loc, buf, history, up>>
    BY <1>8 DEF WriteTerminate, Fault
  <2> HIDE DEF last
  <2>2. pot' \in [Pot -> 0..MaxCalls]
    <3>1. pot \in [Pot -> 0..MaxCalls] /\ NUL \in 0..MaxCalls
      BY <1>0 DEF NUL
    <3> QED
      BY <2>1, <3>1
  <2> QED
    BY <1>0, <2>1, <2>2, ProcessStep DEF history
<1>9. CASE ReadTest(p)
  <2>1. loc' \in [Procs -> Nat]
    BY <1>0, <1>9 DEF ReadTest
  <2> QED
    BY <1>0, <1>3, <1>9, <2>1, ProcessStep DEF ReadTest, potVars
<1>10. CASE ReadWrap(p)
  <2>1. readInd' \in Nat
    BY <1>0, <1>10 DEF ReadWrap
  <2> QED
    BY <1>0, <1>10, <2>1, ProcessStep DEF ReadWrap, history
<1>11. CASE ReadFormat(p)
  <2> DEFINE ends == {i \in Pot : i >= readInd /\ pot[i] = NUL}
             end == CHOOSE i \in ends : \A j \in ends : i <= j
             n == end - readInd
  <2>1. /\ pc[p] = "r_format" /\ Goto(p, "r_copy") /\ ends # {}
        /\ tmpBuf' = [i \in Pot |-> IF i < n THEN pot[readInd + i]
                                    ELSE IF i = n THEN IF n < Size - 1 THEN NL ELSE NUL
                                    ELSE IF i = n + 1 THEN NUL
                                    ELSE tmpBuf[i]]
        /\ len' = [len EXCEPT ![p] = n + 1]
        /\ UNCHANGED <<life, held, pot, writeInd, readInd, fPos, loc, buf, history, up>>
    BY <1>11 DEF ReadFormat, Fault
  <2>2. end \in ends
    <3>1. ends \in SUBSET Nat
      BY DEF Pot
    <3> HIDE DEF ends
    <3> QED
      BY <2>1, <3>1, LeastNatural
  <2>3. end \in Pot /\ end >= readInd
    BY <2>2
  <2> HIDE DEF end, ends
  <2>4. n \in 0..(Size - 1) /\ n + readInd \in Pot /\ readInd \in Nat
    BY <1>0, <2>3 DEF Pot
  <2> HIDE DEF n
  <2>5. tmpBuf' \in [Pot -> 0..NL]
    <3>1. ASSUME NEW i \in Pot, i < n PROVE pot[readInd + i] \in 0..NL
      <4>1. readInd + i \in Pot
        BY <2>4, <3>1 DEF Pot
      <4>2. pot[readInd + i] \in 0..MaxCalls
        BY <1>0, <4>1
      <4> QED
        BY <4>2 DEF NL
    <3>2. NL \in 0..NL /\ NUL \in 0..NL
      BY DEF NL, NUL
    <3> QED
      BY <1>0, <2>1, <3>1, <3>2
  <2>6. len' \in [Procs -> Lens]
    BY <1>0, <2>1, <2>4 DEF Lens
  <2> QED
    BY <1>0, <2>1, <2>5, <2>6, ProcessStep DEF history
<1>12. CASE ReadCopy(p)
  <2>1. \E where \in {"r_load", "open"} : Goto(p, where)
    BY <1>12 DEF ReadCopy
  <2>2. /\ \A q \in Procs : q # p => buf'[q] = buf[q]
        /\ buf' = [q \in Procs |-> buf'[q]]
    BY <1>0, <1>12 DEF ReadCopy
  <2> QED
    BY <1>0, <1>12, <2>1, <2>2, ProcessStep DEF ReadCopy, potVars, history
<1>13. CASE ReadLoad(p)
  <2>1. loc' \in [Procs -> Nat]
    BY <1>0, <1>13 DEF ReadLoad
  <2> QED
    BY <1>0, <1>13, <2>1, ProcessStep DEF ReadLoad, potVars, history
<1>14. CASE ReadStore(p)
  <2>1. readInd' \in Nat /\ fPos' \in [Procs -> BOOLEAN]
    BY <1>0, <1>14 DEF ReadStore
  <2>2. /\ \A q \in Procs : q # p => buf'[q] = buf[q]
        /\ buf' = [q \in Procs |-> buf'[q]]
    BY <1>0, <1>14 DEF ReadStore
  <2> QED
    BY <1>0, <1>14, <2>1, <2>2, ProcessStep DEF ReadStore
<1> QED
  BY <1>1, <1>2, <1>4, <1>5, <1>6, <1>7, <1>8, <1>9, <1>10, <1>11, <1>12, <1>13, <1>14
     DEF FortuneWrite, FortuneRead
-----------------------------------------------------------------------------
(* Calls that come one after the other.                                     *)

(* The one call inside makes a step: nobody else has to be looked at.       *)
LEMMA AloneStep ==
    ASSUME TypeOK, AloneInv, NEW p \in Procs,
           NEW where \in Outside \cup Writing \cup Reading, Goto(p, where),
           life' = life,
           pc[p] \notin Outside \/ (NobodyInside /\ life = "loaded"),
           CallInv(p)', readInd' <= writeInd', writeInd' <= Size, Terminated'
    PROVE  AloneInv'
<1>1. pc'[p] = where /\ \A q \in Procs : q # p => pc'[q] = pc[q]
    BY GotoType
<1>2. \A q \in Procs : q # p => pc'[q] \in Outside
    BY <1>1 DEF AloneInv, NobodyInside
<1>3. \A q \in Procs : q # p => CallInv(q)'
    BY <1>2 DEF CallInv, Outside
<1>4. life = "loaded"
    BY DEF AloneInv
<1> QED
    BY <1>2, <1>3, <1>4 DEF AloneInv

(* Opening and closing disturb nobody.                                      *)
LEMMA AloneOutside ==
    ASSUME TypeOK, AloneInv, NEW p \in Procs, NEW where \in Outside, Goto(p, where),
           pc[p] \in Outside,
           UNCHANGED <<life, pot, writeInd, readInd, len, loc>>
    PROVE  AloneInv'
<1>1. pc'[p] = where /\ \A q \in Procs : q # p => pc'[q] = pc[q]
    BY GotoType
<1>2. \A q \in Procs : CallInv(q)'
    BY <1>1 DEF AloneInv, CallInv, Outside
<1>3. Terminated'
    BY <1>1 DEF AloneInv, Terminated, Outside
<1> QED
    BY <1>1, <1>2, <1>3 DEF AloneInv

(* Every step of a process alone in the module keeps the indices in bounds  *)
(* and the text terminated; where it leaves the pot is the last write's.    *)
LEMMA ProcessAlone ==
    ASSUME TypeOK, LifeInv, AloneInv, NEW p \in Procs,
           FortuneOpen(p) \/ FortuneRelease(p) \/ FortuneWrite(p) \/ FortuneRead(p),
           ~Fault, ~overlap', ~early', overlap \in BOOLEAN, early \in BOOLEAN
    PROVE  AloneInv'
<1> USE FortuneAssumption DEF Outside, Writing, Reading
<1>0. /\ writeInd \in Nat /\ readInd \in Nat /\ readInd <= writeInd /\ writeInd <= Size
      /\ \A q \in Procs : len[q] \in Nat /\ loc[q] \in Nat
      /\ CallInv(p) /\ Terminated
      /\ len \in [Procs -> Lens] /\ loc \in [Procs -> Nat]
      /\ \A n \in Lens : n \in Nat
      /\ pot \in [Pot -> 0..MaxCalls]
    BY DEF TypeOK, AloneInv, Lens
<1>1. CASE FortuneOpen(p) \/ FortuneRelease(p)
  BY <1>1, AloneOutside DEF FortuneOpen, FortuneRelease, potVars
<1>2. ASSUME NEW where, Enter(p, where)
      PROVE  pc[p] = "open" /\ Goto(p, where) /\ NobodyInside /\ life = "loaded"
  BY <1>2 DEF Enter
<1>3. ASSUME NobodyInside \/ pc[p] \notin Outside, NEW where, Goto(p, where),
             where \in Outside \cup Writing \cup Reading, where # "w_term", pc[p] # "w_term",
             UNCHANGED <<pot, writeInd>>
      PROVE  Terminated'
  <2>1. \A q \in Procs : pc[q] # "w_term"
    BY <1>3 DEF AloneInv, NobodyInside
  <2> QED
    BY <1>0, <1>3, <2>1 DEF Terminated
<1>4. CASE WriteTest(p)
  <2>1. PICK n \in Lens : /\ Fits(n) /\ Enter(p, "w_copy")
                          /\ len' = [len EXCEPT ![p] = n]
                          /\ loc' = [loc EXCEPT ![p] = writeInd]
                          /\ UNCHANGED <<life, potVars>>
    BY <1>4 DEF WriteTest
  <2>2. pc'[p] = "w_copy" /\ len'[p] = n /\ loc'[p] = writeInd /\ n <= Size - writeInd + 1
    BY <1>0, <1>2, <2>1, GotoType DEF Fits
  <2>3. CallInv(p)'
    BY <1>0, <2>1, <2>2 DEF CallInv, potVars
  <2>4. Terminated'
    BY <1>2, <1>3, <2>1 DEF potVars
  <2> QED
    BY <1>0, <1>2, <2>1, <2>3, <2>4, AloneStep DEF potVars
<1>5. CASE WriteCopy(p)
  <2> DEFINE target == loc[p] .. (loc[p] + len[p] - 1)
  <2>1. PICK n \in Int, where \in {"w_load", "open"} :
          /\ pc[p] = "w_copy" /\ Goto(p, where)
          /\ target \subseteq Pot
          /\ pot' = [i \in Pot |-> IF i \notin target THEN pot[i]
                                   ELSE IF i < loc[p] + n THEN buf[p][1] ELSE NUL]
          /\ UNCHANGED <<life, writeInd, readInd, len, loc>>
    BY <1>0, <1>5 DEF WriteCopy, Fault
  <2>2. loc[p] = writeInd /\ pc'[p] = where
    BY <1>0, <2>1, GotoType DEF CallInv
  <2>3. writeInd + len[p] <= Size
    <3>1. CASE len[p] = 0
      BY <1>0, <3>1
    <3>2. CASE len[p] # 0
      <4>1. loc[p] + len[p] - 1 \in target
        BY <1>0, <3>2
      <4>2. loc[p] + len[p] - 1 \in Pot
        BY <2>1, <4>1
      <4> QED
        BY <1>0, <2>2, <4>2 DEF Pot
    <3> QED
      BY <3>1, <3>2
  <2>4. CallInv(p)'
    BY <2>1, <2>2, <2>3 DEF CallInv
  <2>5. Terminated'
    <3>1. \A q \in Procs : pc[q] # "w_term"
      BY <2>1 DEF AloneInv
    <3>2. SUFFICES ASSUME writeInd # 0 PROVE pot'[writeInd - 1] = NUL
      BY <2>1 DEF Terminated
    <3>3. pot[writeInd - 1] = NUL
      BY <1>0, <3>1, <3>2 DEF Terminated
    <3>4. writeInd - 1 \in Pot /\ writeInd - 1 \notin target
      BY <1>0, <2>2, <3>2 DEF Pot
    <3> HIDE DEF target
    <3> QED
      BY <2>1, <3>3, <3>4
  <2> QED
    BY <1>0, <2>1, <2>4, <2>5, AloneStep
<1>6. CASE WriteLoad(p)
  <2>1. /\ pc[p] = "w_load" /\ Goto(p, "w_store") /\ loc'[p] = writeInd /\ pc'[p] = "w_store"
        /\ UNCHANGED <<life, pot, writeInd, readInd, len>>
    BY <1>0, <1>6, GotoType DEF WriteLoad, potVars
  <2>2. CallInv(p)'
    BY <1>0, <2>1 DEF CallInv
  <2>3. Terminated'
    BY <1>3, <2>1
  <2> QED
    BY <1>0, <2>1, <2>2, <2>3, AloneStep
<1>7. CASE WriteStore(p)
  <2>1. /\ pc[p] = "w_store" /\ Goto(p, "w_term") /\ writeInd' = loc[p] + len[p]
        /\ pc'[p] = "w_term"
        /\ UNCHANGED <<life, readInd, len, loc>>
    BY <1>7, GotoType DEF WriteStore
  <2>2. CallInv(p)'
    BY <1>0, <2>1 DEF CallInv
  <2>3. Terminated'
    BY <2>1 DEF Terminated
  <2>4. readInd' <= writeInd' /\ writeInd' <= Size
    BY <1>0, <2>1 DEF CallInv
  <2> QED
    BY <1>0, <2>1, <2>2, <2>3, <2>4, AloneStep
<1>8. CASE WriteTerminate(p)
  <2> DEFINE last == loc[p] + len[p] - 1
  <2>1. /\ pc[p] = "w_term" /\ Goto(p, "open") /\ pc'[p] = "open"
        /\ last \in Pot /\ pot' = [pot EXCEPT ![last] = NUL]
        /\ UNCHANGED <<life, writeInd, readInd, len, loc>>
    BY <1>8, GotoType DEF WriteTerminate, Fault
  <2>2. last = writeInd - 1
    BY <1>0, <2>1 DEF CallInv
  <2> HIDE DEF last
  <2>3. pot'[writeInd - 1] = NUL
    BY <1>0, <2>1, <2>2
  <2>4. CallInv(p)' /\ Terminated'
    BY <2>1, <2>3 DEF CallInv, Terminated
  <2> QED
    BY <1>0, <2>1, <2>4, AloneStep
<1>9. CASE ReadTest(p)
  <2>1. /\ pc[p] = "open" /\ NobodyInside /\ life = "loaded" /\ Goto(p, "r_wrap")
        /\ loc'[p] = writeInd /\ writeInd # 0 /\ pc'[p] = "r_wrap"
        /\ UNCHANGED <<life, pot, writeInd, readInd>>
    BY <1>0, <1>2, <1>9, GotoType DEF ReadTest, potVars
  <2>2. CallInv(p)'
    BY <1>0, <2>1 DEF CallInv
  <2>3. Terminated'
    BY <1>3, <2>1
  <2> QED
    BY <1>0, <2>1, <2>2, <2>3, AloneStep
<1>10. CASE ReadWrap(p)
  <2>1. /\ pc[p] = "r_wrap" /\ Goto(p, "r_format") /\ pc'[p] = "r_format"
        /\ readInd' = IF readInd >= loc[p] THEN 0 ELSE readInd
        /\ UNCHANGED <<life, pot, writeInd>>
    BY <1>10, GotoType DEF ReadWrap
  <2>2. readInd' < writeInd' /\ readInd' <= writeInd'
    BY <1>0, <2>1 DEF CallInv
  <2>3. CallInv(p)'
    BY <2>1, <2>2 DEF CallInv
  <2>4. Terminated'
    BY <1>3, <2>1
  <2> QED
    BY <1>0, <2>1, <2>2, <2>3, <2>4, AloneStep
<1>11. CASE ReadFormat(p)
  <2> DEFINE ends == {i \in Pot : i >= readInd /\ pot[i] = NUL}
             end == CHOOSE i \in ends : \A j \in ends : i <= j
             n == end - readInd
  <2>1. /\ pc[p] = "r_format" /\ Goto(p, "r_copy") /\ pc'[p] = "r_copy"
        /\ len' = [len EXCEPT ![p] = n + 1]
        /\ UNCHANGED <<life, pot, writeInd, readInd>>
    BY <1>11, GotoType DEF ReadFormat, Fault
  <2>2. writeInd - 1 \in ends
    <3>1. readInd < writeInd
      BY <1>0, <2>1 DEF CallInv
    <3>2. pot[writeInd - 1] = NUL
      BY <1>0, <2>1, <3>1 DEF Terminated, AloneInv
    <3> QED
      BY <1>0, <3>1, <3>2 DEF Pot
  <2>3. end \in ends /\ \A j \in ends : end <= j
    <3>1. ends \in SUBSET Nat
      BY DEF Pot
    <3> HIDE DEF ends
    <3> QED
      BY <2>2, <3>1, LeastNatural
  <2>4. end \in Nat /\ end >= readInd /\ end <= writeInd - 1
    BY <2>2, <2>3 DEF Pot
  <2> HIDE DEF end, ends
  <2>5. len'[p] = n + 1
    BY <1>0, <2>1
  <2>6. CallInv(p)'
    BY <1>0, <2>1, <2>4, <2>5 DEF CallInv
  <2>7. Terminated'
    BY <1>3, <2>1
  <2> QED
    BY <1>0, <2>1, <2>6, <2>7, AloneStep
<1>12. CASE ReadCopy(p)
  <2>1. PICK where \in {"r_load", "open"} :
          /\ pc[p] = "r_copy" /\ Goto(p, where) /\ pc'[p] = where
          /\ UNCHANGED <<life, pot, writeInd, readInd, len>>
    BY <1>12, GotoType DEF ReadCopy, potVars
  <2>2. CallInv(p)'
    BY <1>0, <2>1 DEF CallInv
  <2>3. Terminated'
    BY <1>3, <2>1
  <2> QED
    BY <1>0, <2>1, <2>2, <2>3, AloneStep
<1>13. CASE ReadLoad(p)
  <2>1. /\ pc[p] = "r_load" /\ Goto(p, "r_store") /\ pc'[p] = "r_store" /\ loc'[p] = readInd
        /\ UNCHANGED <<life, pot, writeInd, readInd, len>>
    BY <1>0, <1>13, GotoType DEF ReadLoad, potVars
  <2>2. CallInv(p)'
    BY <1>0, <2>1 DEF CallInv
  <2>3. Terminated'
    BY <1>3, <2>1
  <2> QED
    BY <1>0, <2>1, <2>2, <2>3, AloneStep
<1>14. CASE ReadStore(p)
  <2>1. /\ pc[p] = "r_store" /\ Goto(p, "open") /\ pc'[p] = "open"
        /\ readInd' = loc[p] + len[p]
        /\ UNCHANGED <<life, pot, writeInd>>
    BY <1>14, GotoType DEF ReadStore
  <2>2. readInd' <= writeInd'
    BY <1>0, <2>1 DEF CallInv
  <2>3. CallInv(p)'
    BY <2>1 DEF CallInv
  <2>4. Terminated'
    BY <1>3, <2>1
  <2> QED
    BY <1>0, <2>1, <2>2, <2>3, <2>4, AloneStep
<1> QED
  BY <1>1, <1>4, <1>5, <1>6, <1>7, <1>8, <1>9, <1>10, <1>11, <1>12, <1>13, <1>14
     DEF FortuneWrite, FortuneRead
(* md_init and md_exit run while nobody is inside.                          *)
LEMMA ModuleAlone ==
    ASSUME TypeOK, LifeInv, AloneInv, MdInit \/ MdExit
    PROVE  AloneInv'
<1> USE FortuneAssumption DEF Outside
<1>0. writeInd \in Nat /\ readInd \in Nat /\ Size \in Nat
    BY DEF TypeOK
<1>1. ASSUME NEW next, FreeMemory(next) PROVE AloneInv'
  <2>1. \A p \in Procs : pc[p] \in Outside /\ pc'[p] = "closed"
    BY <1>1 DEF FreeMemory, NobodyInside, LifeInv
  <2>2. UNCHANGED <<pot, writeInd, readInd>>
    BY <1>1 DEF FreeMemory, potVars
  <2>3. Terminated'
    BY <2>1, <2>2 DEF AloneInv, Terminated
  <2>4. \A p \in Procs : CallInv(p)'
    BY <2>1 DEF CallInv
  <2> QED
    BY <2>1, <2>2, <2>3, <2>4 DEF AloneInv
<1>2. CASE life # "loaded" /\ UNCHANGED <<pc, pot, writeInd, readInd, len, loc>>
  <2>1. \A p \in Procs : pc'[p] \in Outside
    BY <1>2 DEF AloneInv
  <2>2. \A p \in Procs : CallInv(p)'
    BY <2>1 DEF CallInv
  <2>3. Terminated'
    BY <1>2 DEF AloneInv, Terminated
  <2> QED
    BY <1>2, <2>1, <2>2, <2>3 DEF AloneInv
<1>3. CASE ResetIndices
  <2>1. \A p \in Procs : pc'[p] \in Outside
    BY <1>3 DEF AloneInv, ResetIndices, pVars
  <2>2. \A p \in Procs : CallInv(p)'
    BY <2>1 DEF CallInv
  <2> QED
    BY <1>0, <1>3, <2>1, <2>2 DEF AloneInv, ResetIndices, Terminated
<1> QED
  BY <1>1, <1>2, <1>3
     DEF MdInit, MdExit, Vmalloc, ProcEntry, pVars, potVars

(* What the histories say is never taken back.                              *)
LEMMA HistoryStep ==
    ASSUME TypeOK, Next, overlap \/ early
    PROVE  overlap' \/ early'
<1>1. ASSUME NEW p \in Procs, NEW where, Enter(p, where) PROVE overlap' \/ early'
  BY <1>1 DEF Enter, TypeOK
<1>2. CASE UNCHANGED <<overlap, early>>
  BY <1>2
<1>3. CASE MdInit \/ MdExit
  BY <1>2, <1>3 DEF MdInit, MdExit, Vmalloc, ProcEntry, FreeMemory, ResetIndices, history
<1>4. ASSUME NEW p \in Procs,
             FortuneOpen(p) \/ FortuneRelease(p) \/ FortuneWrite(p) \/ FortuneRead(p)
      PROVE  overlap' \/ early'
  BY <1>1, <1>2, <1>4
     DEF FortuneOpen, FortuneRelease, FortuneWrite, FortuneRead, WriteTest, WriteCopy,
         WriteLoad, WriteStore, WriteTerminate, ReadTest, ReadWrap, ReadFormat, ReadCopy,
         ReadLoad, ReadStore, Fault, history
<1> QED
  BY <1>3, <1>4 DEF Next

(* Only a call faults: a copy that is one byte too long, or the terminator  *)
(* of an empty write into an empty pot; the reader always finds a NUL.      *)
LEMMA FaultStep ==
    ASSUME IInv, NEW p \in Procs, FortuneWrite(p) \/ FortuneRead(p), Fault,
           ~overlap, ~early
    PROVE  \/ pc[p] = "w_copy" /\ loc[p] + len[p] = Size + 1
           \/ pc[p] = "w_term" /\ loc[p] + len[p] = 0
<1> USE FortuneAssumption DEF Pot
<1>0. /\ AloneInv /\ CallInv(p) /\ Size \in Nat
      /\ writeInd \in Nat /\ readInd \in Nat /\ loc[p] \in Nat /\ len[p] \in Nat
      /\ writeInd <= Size /\ readInd <= writeInd
  BY DEF IInv, SequentialInv, AloneInv, TypeOK, Lens
<1>1. up' = "fault" /\ up = "running" /\ pc' = pc
  BY DEF Fault, pVars, Running, FortuneWrite, FortuneRead, WriteTest, Enter, WriteCopy,
         WriteLoad, WriteStore, WriteTerminate, ReadTest, ReadWrap, ReadFormat, ReadCopy,
         ReadLoad, ReadStore
<1>2. CASE WriteCopy(p)
  <2>1. pc[p] = "w_copy" /\ ~(loc[p] .. (loc[p] + len[p] - 1) \subseteq Pot)
    BY <1>1, <1>2 DEF WriteCopy
  <2> QED
    BY <1>0, <2>1 DEF CallInv
<1>3. CASE WriteTerminate(p)
  <2>1. pc[p] = "w_term" /\ loc[p] + len[p] - 1 \notin Pot
    BY <1>1, <1>3 DEF WriteTerminate
  <2> QED
    BY <1>0, <2>1 DEF CallInv
<1>4. CASE ReadFormat(p)
  <2>1. pc[p] = "r_format" /\ {i \in Pot : i >= readInd /\ pot[i] = NUL} = {}
    BY <1>1, <1>4 DEF ReadFormat
  <2>2. readInd < writeInd /\ \A q \in Procs : pc[q] # "w_term"
    BY <1>0, <2>1 DEF CallInv, AloneInv, Outside
  <2>3. writeInd - 1 \in Pot /\ writeInd - 1 >= readInd /\ pot[writeInd - 1] = NUL
    BY <1>0, <2>2 DEF AloneInv, Terminated
  <2> QED
    BY <2>1, <2>3
<1> QED
  BY <1>1, <1>2, <1>3, <1>4
     DEF FortuneWrite, FortuneRead, WriteTest, WriteLoad, WriteStore, ReadTest, ReadWrap,
         ReadCopy, ReadLoad, ReadStore, history

-----------------------------------------------------------------------------
(* The theorems.                                                            *)

(* Every step keeps the inductive invariant.                                *)
LEMMA NextIInv ==
    ASSUME IInv, [Next]_vars
    PROVE  IInv'
<1>0. TypeOK /\ LifeInv /\ SequentialInv /\ FaultExplained
  BY DEF IInv
<1>1. CASE UNCHANGED <<life, held, potVars, pVars, history>> /\ UNCHANGED up
  BY <1>0, <1>1 DEF IInv, TypeOK, LifeInv, SequentialInv, AloneInv, CallInv, Terminated,
                    FaultExplained, potVars, pVars, history
<1>2. ASSUME NEW p \in Procs, FortuneWrite(p) \/ FortuneRead(p), Fault
      PROVE  IInv'
  <2>1. /\ up' = "fault"
        /\ UNCHANGED <<life, held, pot, writeInd, readInd, tmpBuf, pc, fPos, len, loc, buf,
                       out, calls, overlap, early>>
    BY <1>2 DEF Fault, potVars, pVars, history
  <2>2. TypeOK' /\ LifeInv'
    BY <1>0, <2>1 DEF TypeOK, LifeInv
  <2>3. SequentialInv'
    BY <1>0, <2>1 DEF SequentialInv, AloneInv, CallInv, Terminated
  <2>4. FaultExplained'
    BY <1>0, <1>2, <2>1, FaultStep DEF FaultExplained
  <2> QED
    BY <2>2, <2>3, <2>4 DEF IInv
<1>3. CASE (MdInit \/ MdExit) /\ ~Fault
  <2>1. TypeOK' /\ LifeInv'
    BY <1>0, <1>3, InitStep
  <2>2. SequentialInv'
    BY <1>0, <1>3, ModuleAlone, HistoryStep DEF SequentialInv, Next
  <2>3. up' = "running"
    BY <1>3 DEF MdInit, MdExit, Vmalloc, ProcEntry, FreeMemory, ResetIndices, Running
  <2> QED
    BY <2>1, <2>2, <2>3 DEF IInv, FaultExplained, SequentialInv, AloneInv
<1>4. ASSUME NEW p \in Procs,
             FortuneOpen(p) \/ FortuneRelease(p) \/ FortuneWrite(p) \/ FortuneRead(p),
             ~Fault
      PROVE  IInv'
  <2>1. TypeOK' /\ LifeInv'
    BY <1>0, <1>4, ProcessTypes
  <2>2. SequentialInv'
    <3>1. CASE overlap' \/ early'
      BY <3>1 DEF SequentialInv
    <3>2. CASE ~overlap' /\ ~early'
      <4>1. AloneInv
        BY <1>0, <1>4, <3>2, HistoryStep DEF SequentialInv, Next
      <4>2. AloneInv'
        BY <1>0, <1>4, <3>2, <4>1, ProcessAlone DEF TypeOK
      <4> QED
        BY <4>2 DEF SequentialInv
    <3> QED
      BY <3>1, <3>2
  <2>3. up' = "running"
    BY <1>4 DEF Running, FortuneOpen, FortuneRelease, FortuneWrite, FortuneRead, WriteTest,
                Enter, WriteCopy, WriteLoad, WriteStore, WriteTerminate, ReadTest, ReadWrap,
                ReadFormat, ReadCopy, ReadLoad, ReadStore
  <2> QED
    BY <2>1, <2>2, <2>3 DEF IInv, FaultExplained, SequentialInv, AloneInv
<1>5. ASSUME MdInit \/ MdExit PROVE ~Fault
  BY <1>5 DEF MdInit, MdExit, Vmalloc, ProcEntry, FreeMemory, ResetIndices, Running, Fault
<1>6. ASSUME NEW p \in Procs, FortuneOpen(p) \/ FortuneRelease(p) PROVE ~Fault
  BY <1>6 DEF FortuneOpen, FortuneRelease, Running, Fault
<1> QED
  BY <1>1, <1>2, <1>3, <1>4, <1>5, <1>6 DEF Next, vars

(* The inductive invariant holds in every reachable state.                  *)
THEOREM FortuneInvariant == Spec => []IInv
<1>1. Init => IInv
  <2> SUFFICES ASSUME Init PROVE IInv
    OBVIOUS
  <2> USE FortuneAssumption DEF Init
  <2>1. TypeOK
    <3>1. 0 \in Lens /\ NUL \in 0..MaxCalls /\ NUL \in 0..NL
      BY DEF NUL, NL, Lens
    <3>2. /\ life \in Loading /\ held \subseteq {"pot", "dir", "file", "link"}
          /\ pot \in [Pot -> 0..MaxCalls] /\ tmpBuf \in [Pot -> 0..NL]
      BY <3>1 DEF Loading
    <3>3. /\ pc \in [Procs -> Outside] /\ \A p \in Procs : pc[p] \in Outside
          /\ len \in [Procs -> Lens] /\ loc \in [Procs -> Nat]
      BY <3>1 DEF Outside
    <3>4. fPos \in [Procs -> BOOLEAN] /\ overlap \in BOOLEAN /\ early \in BOOLEAN
      OBVIOUS
    <3>5. calls \in 0..MaxCalls /\ up \in {"running", "fault"} /\ writeInd \in Nat /\ readInd \in Nat
      OBVIOUS
    <3>6. pc \in [Procs -> Outside \cup Writing \cup Reading]
      BY <3>3
    <3> QED
      BY <3>2, <3>3, <3>4, <3>5, <3>6 DEF TypeOK
  <2>2. LifeInv
    BY DEF LifeInv, HeldAt
  <2>3. SequentialInv /\ FaultExplained
    BY DEF SequentialInv, AloneInv, CallInv, Terminated, FaultExplained, Outside
  <2> QED
    BY <2>1, <2>2, <2>3 DEF IInv
<1> QED
  BY <1>1, NextIInv, PTL DEF Spec

(* Calls of fortuneWrite and fortuneRead that come one after the other, and *)
(* after insmod, keep readInd <= writeInd <= COOKIE_POT_SIZE and leave the  *)
(* pot only by a write one byte too long or an empty write into an empty    *)
(* pot.                                                                     *)
THEOREM FaultsAreExplained == Spec => []FaultExplained
<1>1. IInv => FaultExplained
  BY DEF IInv
<1> QED
  BY <1>1, FortuneInvariant, PTL

(* md_exit and a failed md_init leave no entry, no memory and nobody in the *)
(* module; the types hold throughout, overlapping calls included.           *)
THEOREM UnloadLeavesNothing == Spec => []UnloadedIsClean
<1>1. IInv => UnloadedIsClean
  BY DEF IInv, UnloadedIsClean, LifeInv, HeldAt
<1> QED
  BY <1>1, FortuneInvariant, PTL

-----------------------------------------------------------------------------
(* The cookies of a pot f below w, as the refinement counts them.           *)

NulsIn(f, n) == {i \in 0..(n - 1) : f[i] = NUL}

StartOf(S) == IF S = {} THEN 0 ELSE 1 + CHOOSE j \in S : \A k \in S : k <= j

TextIn(f, i) ==
    [k \in 1..(i - StartOf(NulsIn(f, i))) |-> f[StartOf(NulsIn(f, i)) + k - 1]]

(* n bytes from r on                                                        *)
Bytes(f, r, n) == [k \in 1..n |-> f[r + k - 1]]

KthNul(f, w, k) == CHOOSE i \in NulsIn(f, w) : Cardinality(NulsIn(f, i)) = k - 1

RingIn(f, w) ==
    [k \in 1..Cardinality(NulsIn(f, w)) |-> TextIn(f, KthNul(f, w, k))]

(* There are finitely many.                                                 *)
LEMMA NulsFinite ==
  ASSUME NEW f, NEW n \in Nat
  PROVE  /\ IsFiniteSet(NulsIn(f, n)) /\ Cardinality(NulsIn(f, n)) \in Nat
         /\ \A i \in NulsIn(f, n) : i \in Nat /\ i < n /\ f[i] = NUL
<1>1. IsFiniteSet(0..(n - 1))
  <2>1. 0 \in Int /\ n - 1 \in Int
    OBVIOUS
  <2> QED
    BY <2>1, FS_Interval
<1>2. NulsIn(f, n) \in SUBSET (0..(n - 1))
  BY DEF NulsIn
<1>3. IsFiniteSet(NulsIn(f, n))
  BY <1>1, <1>2, FS_Subset
<1> QED
  BY <1>3, FS_CardinalityType DEF NulsIn

(* Pots that agree below n have the same NULs there.                        *)
LEMMA NulsSame ==
  ASSUME NEW f, NEW g, NEW n \in Nat, \A i \in 0..(n - 1) : f[i] = g[i]
  PROVE  NulsIn(f, n) = NulsIn(g, n)
  BY DEF NulsIn

(* The later of two NULs has more of them before it.                        *)
LEMMA NulsOrder ==
  ASSUME NEW f, NEW i \in Nat, NEW j \in Nat, i < j, f[i] = NUL
  PROVE  Cardinality(NulsIn(f, i)) < Cardinality(NulsIn(f, j))
<1> DEFINE S == NulsIn(f, i)
           T == NulsIn(f, j)
<1>1. IsFiniteSet(S) /\ IsFiniteSet(T) /\ Cardinality(S) \in Nat /\ Cardinality(T) \in Nat
  BY NulsFinite
<1>2. i \notin S /\ S \cup {i} \in SUBSET T
  BY DEF NulsIn
<1> HIDE DEF S, T
<1>3. Cardinality(S \cup {i}) = Cardinality(S) + 1
  BY <1>1, <1>2, FS_AddElement
<1>4. Cardinality(S \cup {i}) <= Cardinality(T)
  BY <1>1, <1>2, FS_Subset
<1>5. Cardinality(S) < Cardinality(T)
  BY <1>1, <1>3, <1>4
<1> QED
  BY <1>5 DEF S, T

(* For every number up to that of the NULs there is one NUL with so many    *)
(* before it.                                                               *)
LEMMA KthExists ==
  ASSUME NEW f, NEW w \in Nat, NEW k \in 1..Cardinality(NulsIn(f, w))
  PROVE  /\ KthNul(f, w, k) \in NulsIn(f, w)
         /\ Cardinality(NulsIn(f, KthNul(f, w, k))) = k - 1
         /\ \A j \in NulsIn(f, w) : Cardinality(NulsIn(f, j)) = k - 1 => j = KthNul(f, w, k)
<1> DEFINE S == NulsIn(f, w)
           c == Cardinality(S)
           T == 0..(c - 1)
           g == [i \in S |-> Cardinality(NulsIn(f, i))]
<1>1. IsFiniteSet(S) /\ c \in Nat /\ \A i \in S : i \in Nat /\ i < w /\ f[i] = NUL
  BY NulsFinite
<1>2. IsFiniteSet(T) /\ Cardinality(T) = c
  <2>1. 0 \in Int /\ c - 1 \in Int
    BY <1>1
  <2>2. IsFiniteSet(T) /\ Cardinality(T) = IF 0 > c - 1 THEN 0 ELSE (c - 1) - 0 + 1
    BY <2>1, FS_Interval
  <2> QED
    BY <1>1, <2>2
<1>3. ASSUME NEW i \in S PROVE Cardinality(NulsIn(f, i)) \in T
  <2>1. Cardinality(NulsIn(f, i)) \in Nat /\ Cardinality(NulsIn(f, i)) < c
    BY <1>1, NulsFinite, NulsOrder
  <2> QED
    BY <1>1, <2>1
<1>4. ASSUME NEW i \in S, NEW j \in S, Cardinality(NulsIn(f, i)) = Cardinality(NulsIn(f, j))
      PROVE  i = j
  <2>1. i < j => Cardinality(NulsIn(f, i)) < Cardinality(NulsIn(f, j))
    BY <1>1, NulsOrder
  <2>2. j < i => Cardinality(NulsIn(f, j)) < Cardinality(NulsIn(f, i))
    BY <1>1, NulsOrder
  <2>3. Cardinality(NulsIn(f, i)) \in Nat /\ i \in Nat /\ j \in Nat
    BY <1>1, NulsFinite
  <2> QED
    BY <1>4, <2>1, <2>2, <2>3
<1>5. g \in Injection(S, T)
  <2>1. g \in [S -> T]
    BY <1>3
  <2>2. \A i, j \in S : g[i] = g[j] => i = j
    BY <1>4
  <2> HIDE DEF g
  <2> QED
    BY <2>1, <2>2 DEF Injection, IsInjective
<1>6. g \in Surjection(S, T)
  <2> HIDE DEF g, S, T, c
  <2>1. Cardinality(S) = Cardinality(T)
    BY <1>2 DEF c
  <2> QED
    BY <1>2, <1>5, <2>1, FS_Injection
<1>7. k - 1 \in T
  BY <1>1
<1>8. PICK i \in S : Cardinality(NulsIn(f, i)) = k - 1
  <2>1. \A t \in T : \E i \in S : g[i] = t
    BY <1>6 DEF Surjection
  <2> QED
    BY <1>7, <2>1
<1>9. KthNul(f, w, k) \in S /\ Cardinality(NulsIn(f, KthNul(f, w, k))) = k - 1
  BY <1>8 DEF KthNul
<1> QED
  BY <1>4, <1>9

(* A text starts behind the last NUL before it.                             *)
LEMMA StartBelow ==
  ASSUME NEW f, NEW i \in Nat
  PROVE  StartOf(NulsIn(f, i)) \in 0..i
<1> DEFINE S == NulsIn(f, i)
<1>1. \A j \in S : j \in Nat /\ j < i
  BY NulsFinite
<1>2. CASE S = {}
  BY <1>2 DEF StartOf
<1>3. CASE S # {}
  <2> HIDE DEF S
  <2>1. S \in SUBSET Nat /\ \A j \in S : j <= i
    BY <1>1
  <2>2. \E j \in S : \A k \in S : k <= j
    BY <1>3, <2>1, LargestNatural
  <2>3. (CHOOSE j \in S : \A k \in S : k <= j) \in S
    BY <2>2
  <2>4. StartOf(S) \in 0..i
    BY <1>1, <1>3, <2>3 DEF StartOf
  <2> QED
    BY <2>4 DEF S
<1> QED
  BY <1>2, <1>3

(* Pots that agree below w have the same text up to each place there.       *)
LEMMA TextSame ==
  ASSUME NEW f, NEW g, NEW i \in Nat, \A j \in 0..(i - 1) : f[j] = g[j]
  PROVE  TextIn(f, i) = TextIn(g, i)
<1> DEFINE b == StartOf(NulsIn(f, i))
<1>1. NulsIn(f, i) = NulsIn(g, i)
  BY NulsSame
<1>2. b \in 0..i /\ b = StartOf(NulsIn(g, i))
  BY <1>1, StartBelow
<1>3. /\ TextIn(f, i) = [k \in 1..(i - b) |-> f[b + k - 1]]
      /\ TextIn(g, i) = [k \in 1..(i - b) |-> g[b + k - 1]]
  BY <1>2 DEF TextIn
<1> HIDE DEF b
<1>4. ASSUME NEW k \in 1..(i - b) PROVE f[b + k - 1] = g[b + k - 1]
  <2>1. b + k - 1 \in 0..(i - 1)
    BY <1>2
  <2> QED
    BY <2>1
<1> QED
  BY <1>3, <1>4

(* Pots that agree below w have the same cookies there; and one more NUL    *)
(* behind them, with none in between, is one more cookie.                   *)
LEMMA RingGrows ==
  ASSUME NEW f, NEW w \in Nat, NEW g, NEW v \in Nat, w <= v,
         \A i \in 0..(w - 1) : f[i] = g[i],
         \/ v = w
         \/ v > w /\ g[v - 1] = NUL /\ \A i \in w..(v - 2) : g[i] # NUL
  PROVE  /\ v = w => RingIn(g, v) = RingIn(f, w)
         /\ v > w => /\ Len(RingIn(g, v)) = Len(RingIn(f, w)) + 1
                     /\ SubSeq(RingIn(g, v), 1, Len(RingIn(f, w))) = RingIn(f, w)
<1> DEFINE S == NulsIn(f, w)
           T == NulsIn(g, v)
           c == Cardinality(S)
           d == Cardinality(T)
<1>1. /\ IsFiniteSet(S) /\ c \in Nat /\ \A i \in S : i \in Nat /\ i < w /\ f[i] = NUL
      /\ IsFiniteSet(T) /\ d \in Nat
  BY NulsFinite
<1>2. S = NulsIn(g, w)
  BY NulsSame
<1>3. (v = w => T = S) /\ (v > w => T = S \cup {v - 1} /\ v - 1 \notin S)
  <2>1. v = w => T = S
    BY <1>2
  <2>2. ASSUME v > w PROVE T = S \cup {v - 1} /\ v - 1 \notin S
    <3>1. g[v - 1] = NUL /\ v - 1 \in 0..(v - 1) /\ \A i \in w..(v - 2) : g[i] # NUL
      BY <2>2
    <3>2. \A i \in 0..(v - 1) : i \in 0..(w - 1) \/ i \in w..(v - 2) \/ i = v - 1
      OBVIOUS
    <3>3. 0..(w - 1) \subseteq 0..(v - 1)
      OBVIOUS
    <3>4. v - 1 \notin S
      BY <1>1, <2>2
    <3>5. T = S \cup {v - 1}
      BY <1>2, <3>1, <3>2, <3>3 DEF NulsIn
    <3> QED
      BY <3>4, <3>5
  <2> QED
    BY <2>1, <2>2
<1>4. d = IF v = w THEN c ELSE c + 1
  <2> HIDE DEF S, T
  <2>1. CASE v = w
    BY <1>3, <2>1
  <2>2. CASE v > w
    BY <1>1, <1>3, <2>2, FS_AddElement
  <2> QED
    BY <2>1, <2>2
<1>5. ASSUME NEW k \in 1..c PROVE TextIn(g, KthNul(g, v, k)) = TextIn(f, KthNul(f, w, k))
  <2> DEFINE j == KthNul(f, w, k)
  <2>1. j \in S /\ Cardinality(NulsIn(f, j)) = k - 1
    BY KthExists
  <2> HIDE DEF j
  <2>2. j \in Nat /\ j < w /\ \A i \in 0..(j - 1) : f[i] = g[i]
    BY <1>1, <2>1
  <2>3. NulsIn(f, j) = NulsIn(g, j) /\ TextIn(f, j) = TextIn(g, j)
    BY <2>2, NulsSame, TextSame
  <2>4. j \in T /\ k \in 1..d
    <3>1. k \in 1..d
      BY <1>1, <1>4
    <3>2. j \in T
      BY <1>3, <2>1
    <3> QED
      BY <3>1, <3>2
  <2>5. j = KthNul(g, v, k)
    BY <2>1, <2>3, <2>4, KthExists
  <2> QED
    BY <2>3, <2>5 DEF j
<1> DEFINE a == RingIn(f, w)
           b == RingIn(g, v)
<1>6. /\ a = [k \in 1..c |-> TextIn(f, KthNul(f, w, k))]
      /\ b = [k \in 1..d |-> TextIn(g, KthNul(g, v, k))]
  BY DEF RingIn
<1> HIDE DEF S, T, c, d, a, b
<1>7. DOMAIN a = 1..c /\ DOMAIN b = 1..d /\ \A k \in 1..c : b[k] = a[k]
  <2>1. \A k \in 1..c : k \in 1..d
    BY <1>1, <1>4
  <2> QED
    BY <1>5, <1>6, <2>1
<1>8. a = [k \in 1..c |-> a[k]] /\ b = [k \in 1..d |-> b[k]]
  BY <1>6
<1>9. v = w => b = a
  BY <1>4, <1>7, <1>8
<1>10. v > w => Len(b) = Len(a) + 1 /\ SubSeq(b, 1, Len(a)) = a
  <2> SUFFICES ASSUME v > w PROVE Len(b) = Len(a) + 1 /\ SubSeq(b, 1, Len(a)) = a
    OBVIOUS
  <2>1. d = c + 1
    BY <1>4
  <2>2. Len(a) = c /\ Len(b) = d
    BY <1>1, <1>7
  <2>3. SubSeq(b, 1, c) = [k \in 1..c |-> b[k]]
    BY <1>1, <1>7
  <2>4. [k \in 1..c |-> b[k]] = [k \in 1..c |-> a[k]]
    BY <1>7
  <2> QED
    BY <1>8, <2>1, <2>2, <2>3, <2>4
<1> QED
  BY <1>9, <1>10 DEF a, b

(* A function on the first n numbers is a sequence.                         *)
LEMMA FunctionSeq ==
  ASSUME NEW T, NEW n \in Nat, NEW f \in [1..n -> T]
  PROVE  f \in Seq(T) /\ Len(f) = n
  OBVIOUS

(* What is read from r to the first NUL is the cookie after those before r. *)
LEMMA RingReads ==
  ASSUME NEW f, NEW w \in Nat, NEW r \in Nat, NEW n \in Nat, r + n < w,
         f[r + n] = NUL, \A i \in r..(r + n - 1) : f[i] # NUL,
         r # 0 => f[r - 1] = NUL
  PROVE  /\ Cardinality(NulsIn(f, r)) < Len(RingIn(f, w))
         /\ Cardinality(NulsIn(f, r + n + 1)) = Cardinality(NulsIn(f, r)) + 1
         /\ RingIn(f, w)[Cardinality(NulsIn(f, r)) + 1] = Bytes(f, r, n)
<1> DEFINE S == NulsIn(f, r)
           c == Cardinality(S)
           d == Cardinality(NulsIn(f, w))
<1>1. IsFiniteSet(S) /\ c \in Nat /\ d \in Nat /\ \A i \in S : i \in Nat /\ i < r /\ f[i] = NUL
  BY NulsFinite
<1>2. NulsIn(f, r + n) = S
  <2>1. \A i \in 0..(r + n - 1) : i \in 0..(r - 1) \/ i \in r..(r + n - 1)
    OBVIOUS
  <2>2. 0..(r - 1) \subseteq 0..(r + n - 1)
    OBVIOUS
  <2> QED
    BY <2>1, <2>2 DEF NulsIn
<1>3. Cardinality(NulsIn(f, r + n + 1)) = c + 1
  <2>1. (r + n + 1) - 1 = r + n
    OBVIOUS
  <2>2. \A i \in 0..(r + n) : i \in 0..(r + n - 1) \/ i = r + n
    OBVIOUS
  <2>3. 0..(r + n - 1) \subseteq 0..(r + n) /\ r + n \in 0..(r + n)
    OBVIOUS
  <2>4. NulsIn(f, r + n + 1) = S \cup {r + n}
    BY <1>2, <2>1, <2>2, <2>3 DEF NulsIn
  <2>5. r + n \notin S
    BY <1>1
  <2> HIDE DEF S
  <2> QED
    BY <1>1, <2>4, <2>5, FS_AddElement
<1>4. c < d
  <2>1. r + n \in Nat
    OBVIOUS
  <2> QED
    BY <1>2, <2>1, NulsOrder
<1>5. Len(RingIn(f, w)) = d /\ RingIn(f, w)[c + 1] = TextIn(f, KthNul(f, w, c + 1))
  <2>1. RingIn(f, w) = [k \in 1..d |-> TextIn(f, KthNul(f, w, k))]
    BY DEF RingIn
  <2> HIDE DEF c, d
  <2>2. c + 1 \in 1..d
    BY <1>1, <1>4
  <2> QED
    BY <1>1, <2>1, <2>2
<1>6. KthNul(f, w, c + 1) = r + n
  <2>1. c + 1 \in 1..d /\ (c + 1) - 1 = c
    BY <1>1, <1>4
  <2>2. r + n \in NulsIn(f, w)
    BY DEF NulsIn
  <2> QED
    BY <1>2, <2>1, <2>2, KthExists
<1>7. StartOf(S) = r
  <2>1. CASE r = 0
    <3>1. S = {}
      BY <1>1, <2>1
    <3> QED
      BY <2>1, <3>1 DEF StartOf
  <2>2. CASE r # 0
    <3>1. r - 1 \in S /\ \A k \in S : k <= r - 1
      BY <1>1, <2>2 DEF NulsIn
    <3> DEFINE m == CHOOSE j \in S : \A k \in S : k <= j
    <3>2. m \in S /\ \A k \in S : k <= m
      BY <3>1
    <3> HIDE DEF m
    <3>3. m = r - 1
      BY <1>1, <3>1, <3>2
    <3>4. StartOf(S) = 1 + m
      BY <3>1 DEF StartOf, m
    <3> QED
      BY <3>3, <3>4
  <2> QED
    BY <2>1, <2>2
<1>8. TextIn(f, r + n) = Bytes(f, r, n)
  <2>1. (r + n) - r = n
    OBVIOUS
  <2> QED
    BY <1>2, <1>7, <2>1 DEF TextIn, Bytes
<1> QED
  BY <1>3, <1>4, <1>5, <1>6, <1>8

-----------------------------------------------------------------------------
(* What the calls do to the cookies.                                        *)

(* a read has the text from readInd to the first NUL, which it counts       *)
ReadText(p, text) ==
    /\ len[p] >= 1 /\ pot[readInd + len[p] - 1] = NUL
    /\ \A i \in 1..(len[p] - 1) : pot[readInd + i - 1] # NUL /\ text[i] = pot[readInd + i - 1]

Filled(i, n) == \A k \in i..(i + n - 1) : pot[k] # NUL

(* What the call inside has in hand: a write has filled its part of the     *)
(* pot, behind the cookies, with bytes that are not NUL; a read has a       *)
(* cookie, in tmpBuf and then in its own buffer.                            *)
RingCall(p) ==
    /\ pc[p] = "w_copy" => buf[p][1] # NUL
    /\ pc[p] = "w_load" => Filled(writeInd, len[p])
    /\ pc[p] = "w_store" => Filled(loc[p], len[p])
    /\ pc[p] = "w_term" =>
           /\ Filled(loc[p], len[p]) /\ readInd <= loc[p]
           /\ loc[p] # 0 => pot[loc[p] - 1] = NUL
    /\ pc[p] = "r_copy" => ReadText(p, [i \in 1..(len[p] - 1) |-> tmpBuf[i - 1]])
    /\ pc[p] \in {"r_load", "r_store"} =>
           ReadText(p, buf[p]) /\ buf[p] \in Seq(0..NL) /\ Len(buf[p]) = len[p]

(* readInd is at the start of a cookie                                      *)
RingAlone ==
    /\ life \in Loading => writeInd = 0 /\ readInd = 0
    /\ readInd # 0 => pot[readInd - 1] = NUL
    /\ \A p \in Procs : RingCall(p)

RingInv == overlap \/ early \/ RingAlone

(* The cookies and the cursor of the refinement.                            *)
Mapped == Cookies = RingIn(pot, Written) /\ Cursor = Cardinality(NulsIn(pot, readInd))

(* The refinement mapping of Fortune, in the terms of the lemmas above.     *)
LEMMA MappedNow == Mapped
<1>1. \A n : NulsBelow(n) = NulsIn(pot, n)
  BY DEF NulsBelow, NulsIn
<1>2. ASSUME NEW n PROVE TextEndingAt(n) = TextIn(pot, n)
  <2>1. NulsBelow(n) = NulsIn(pot, n)
    BY <1>1
  <2>2. TextEndingAt(n)
          = [k \in 1..(n - StartOf(NulsBelow(n))) |-> pot[StartOf(NulsBelow(n)) + k - 1]]
    BY DEF TextEndingAt, StartOf
  <2> QED
    BY <2>1, <2>2 DEF TextIn
<1>3. \A k : CookieText(k) = TextIn(pot, KthNul(pot, Written, k))
  BY <1>1, <1>2 DEF CookieText, KthNul
<1> QED
  BY <1>1, <1>3 DEF Mapped, Cookies, Cursor, RingIn

(* Where the cookies end: a write that is about to store its NUL has moved  *)
(* writeInd already.                                                        *)
WrittenIs ==
    /\ Written \in Nat /\ Written <= writeInd /\ Written <= Size
    /\ (\A p \in Procs : pc[p] # "w_term") => Written = writeInd
    /\ \A p \in Procs : pc[p] = "w_term" => Written = loc[p]
    /\ RingAlone => readInd <= Written

(* So it is as long as calls come one after the other.                      *)
LEMMA WrittenNow == TypeOK /\ AloneInv => WrittenIs
<1> SUFFICES ASSUME TypeOK, AloneInv PROVE WrittenIs
  OBVIOUS
<1>1. writeInd \in Nat /\ writeInd <= Size /\ readInd <= writeInd /\ readInd \in Nat /\ Size \in Nat
  BY FortuneAssumption DEF TypeOK, AloneInv
<1>2. CASE \A p \in Procs : pc[p] # "w_term"
  <2>1. Written = writeInd
    BY <1>2 DEF Written
  <2> QED
    BY <1>1, <1>2, <2>1 DEF WrittenIs
<1>3. ASSUME NEW p \in Procs, pc[p] = "w_term" PROVE WrittenIs
  <2>1. \A q \in Procs : pc[q] = "w_term" => q = p
    BY <1>3 DEF AloneInv, Outside
  <2>2. (CHOOSE q \in Procs : pc[q] = "w_term") = p
    BY <1>3, <2>1
  <2>3. Written = loc[p]
    BY <1>3, <2>2 DEF Written
  <2>4. loc[p] \in Nat /\ len[p] \in Nat /\ writeInd = loc[p] + len[p]
    BY <1>3, FortuneAssumption DEF TypeOK, AloneInv, CallInv, Lens
  <2>5. RingAlone => readInd <= loc[p]
    BY <1>3 DEF RingAlone, RingCall
  <2> QED
    BY <1>1, <1>3, <2>1, <2>3, <2>4, <2>5 DEF WrittenIs
<1> QED
  BY <1>2, <1>3

(* A step that changes nothing below the end of the cookies.                *)
LEMMA RingKept ==
  ASSUME TypeOK, AloneInv, RingAlone, Written' = Written, readInd' = readInd, out' = out,
         \A i \in 0..(Written - 1) : pot'[i] = pot[i]
  PROVE  UNCHANGED Ring!vars
<1>1. Written \in Nat /\ readInd \in Nat /\ readInd <= Written
  BY WrittenNow DEF WrittenIs, TypeOK
<1>2. Mapped /\ Mapped'
  <2>1. Mapped'
    BY MappedNow, PTL
  <2> QED
    BY <2>1, MappedNow
<1>3. RingIn(pot', Written) = RingIn(pot, Written)
  BY <1>1, RingGrows
<1>4. NulsIn(pot', readInd) = NulsIn(pot, readInd)
  <2>1. \A i \in 0..(readInd - 1) : pot'[i] = pot[i]
    BY <1>1
  <2> QED
    BY <1>1, <2>1, NulsSame
<1>5. Cookies' = Cookies /\ Cursor' = Cursor
  BY <1>2, <1>3, <1>4 DEF Mapped
<1> QED
  BY <1>5 DEF Ring!vars, LastRead

(* A process moves while nobody else is inside.                             *)
LEMMA RingMoves ==
  ASSUME TypeOK, AloneInv, NEW p \in Procs, NEW where \in Outside \cup Writing \cup Reading,
         Goto(p, where), pc[p] \notin Outside \/ NobodyInside,
         RingCall(p)', life' = life, life = "loaded", readInd' # 0 => pot'[readInd' - 1] = NUL
  PROVE  /\ RingAlone' /\ pc'[p] = where
         /\ \A q \in Procs : q # p => pc[q] # "w_term" /\ pc'[q] # "w_term"
<1>1. pc'[p] = where /\ \A q \in Procs : q # p => pc'[q] = pc[q]
  BY GotoType
<1>2. \A q \in Procs : q # p => pc[q] \in Outside
  BY DEF AloneInv, NobodyInside
<1>3. \A q \in Procs : q # p => RingCall(q)'
  BY <1>1, <1>2 DEF RingCall, Outside
<1>4. life' \notin Loading
  BY DEF Loading
<1> QED
  BY <1>1, <1>2, <1>3, <1>4 DEF RingAlone, Outside

(* The context of a step of calls that come one after the other.            *)
Before == TypeOK /\ LifeInv /\ AloneInv /\ RingAlone
After == TypeOK' /\ AloneInv'

(* What such a step of a process starts from.                               *)
LEMMA StepFacts ==
  ASSUME Before, After, NEW p \in Procs
  PROVE  /\ WrittenIs /\ WrittenIs' /\ CallInv(p) /\ RingCall(p) /\ Terminated
         /\ writeInd \in Nat /\ readInd \in Nat /\ readInd <= writeInd /\ writeInd <= Size
         /\ Size \in Nat \ {0} /\ MaxCalls \in Nat /\ NL \in Nat
         /\ len \in [Procs -> Nat] /\ loc \in [Procs -> Nat] /\ len[p] \in Nat /\ loc[p] \in Nat
         /\ pot \in [Pot -> 0..MaxCalls] /\ tmpBuf \in [Pot -> 0..NL] /\ calls \in Nat
         /\ pc \in [Procs -> Outside \cup Writing \cup Reading]
         /\ pc[p] \notin Outside => life = "loaded"
         /\ readInd # 0 => pot[readInd - 1] = NUL
<1>1. WrittenIs
  BY WrittenNow DEF Before
<1>2. WrittenIs'
  <2>1. (TypeOK /\ AloneInv => WrittenIs)'
    BY WrittenNow, PTL
  <2> QED
    BY <2>1 DEF After
<1>3. CallInv(p) /\ RingCall(p) /\ Terminated /\ readInd <= writeInd /\ writeInd <= Size
      /\ (pc[p] \notin Outside => life = "loaded") /\ (readInd # 0 => pot[readInd - 1] = NUL)
  BY DEF Before, AloneInv, RingAlone
<1>4. len \in [Procs -> Lens] /\ loc \in [Procs -> Nat] /\ writeInd \in Nat /\ readInd \in Nat
      /\ pot \in [Pot -> 0..MaxCalls] /\ tmpBuf \in [Pot -> 0..NL] /\ calls \in 0..MaxCalls
      /\ pc \in [Procs -> Outside \cup Writing \cup Reading]
  BY DEF Before, TypeOK
<1>5. Lens \subseteq Nat /\ 0..MaxCalls \subseteq Nat /\ MaxCalls \in Nat /\ NL \in Nat /\ Size \in Nat \ {0}
  BY FortuneAssumption DEF Lens, NL
<1>6. len \in [Procs -> Nat] /\ len[p] \in Nat /\ loc[p] \in Nat /\ calls \in Nat
  BY <1>4, <1>5
<1> QED
  BY <1>1, <1>2, <1>3, <1>4, <1>5, <1>6

(* Steps that move a process and leave the cookies alone.                   *)
LEMMA RingQuiet ==
  ASSUME Before, After, NEW p \in Procs, NEW where \in Outside \cup Writing \cup Reading,
         Goto(p, where), pc[p] \notin Outside \/ NobodyInside,
         RingCall(p)', life' = life, life = "loaded", readInd' = readInd, out' = out,
         Written' = Written, \A i \in 0..(Written - 1) : pot'[i] = pot[i]
  PROVE  RingAlone' /\ [Ring!Next]_(Ring!vars)
<1>1. TypeOK /\ AloneInv /\ RingAlone
  BY DEF Before
<1>2. readInd' # 0 => pot'[readInd' - 1] = NUL
  <2> SUFFICES ASSUME readInd # 0 PROVE pot'[readInd - 1] = NUL
    OBVIOUS
  <2>1. readInd \in Nat /\ Written \in Nat /\ readInd <= Written /\ pot[readInd - 1] = NUL
    BY <1>1, WrittenNow DEF WrittenIs, TypeOK, RingAlone
  <2>2. readInd - 1 \in 0..(Written - 1)
    BY <2>1
  <2> QED
    BY <2>1, <2>2
<1>3. RingAlone'
  BY <1>1, <1>2, RingMoves
<1>4. UNCHANGED Ring!vars
  BY <1>1, RingKept
<1> QED
  BY <1>3, <1>4

(* fortuneOpen, fortuneRelease.                                             *)
LEMMA RingOpen ==
  ASSUME Before, After, NEW p \in Procs, FortuneOpen(p) \/ FortuneRelease(p)
  PROVE  RingAlone' /\ [Ring!Next]_(Ring!vars)
<1>1. TypeOK /\ AloneInv /\ RingAlone
  BY DEF Before
<1>2. /\ pot' = pot /\ writeInd' = writeInd /\ readInd' = readInd /\ tmpBuf' = tmpBuf
      /\ len' = len /\ loc' = loc /\ buf' = buf /\ out' = out /\ life' = life
      /\ pc[p] \in Outside
  BY DEF FortuneOpen, FortuneRelease, potVars, history, Outside
<1>3. PICK where \in Outside : Goto(p, where)
  BY DEF FortuneOpen, FortuneRelease, Outside
<1>4. pc'[p] = where /\ \A q \in Procs : q # p => pc'[q] = pc[q]
  BY <1>1, <1>3, GotoType
<1>5. \A q \in Procs : (pc'[q] = pc[q] \/ (pc'[q] \in Outside /\ pc[q] \in Outside))
  BY <1>2, <1>3, <1>4
<1>6. ASSUME NEW q \in Procs PROVE RingCall(q)'
  <2>1. CASE pc'[q] = pc[q]
    BY <1>1, <1>2, <2>1 DEF RingAlone, RingCall, Filled, ReadText
  <2>2. CASE pc'[q] \in Outside
    BY <2>2 DEF RingCall, Outside
  <2> QED
    BY <1>5, <2>1, <2>2
<1>7. RingAlone'
  BY <1>1, <1>2, <1>6 DEF RingAlone
<1>8. Written' = Written
  <2>1. WrittenIs /\ WrittenIs'
    BY StepFacts
  <2>2. \A q \in Procs : pc'[q] = "w_term" <=> pc[q] = "w_term"
    BY <1>5 DEF Outside
  <2>3. CASE \A q \in Procs : pc[q] # "w_term"
    BY <1>2, <2>1, <2>2, <2>3 DEF WrittenIs
  <2>4. CASE \E q \in Procs : pc[q] = "w_term"
    BY <1>2, <2>1, <2>2, <2>4 DEF WrittenIs
  <2> QED
    BY <2>3, <2>4
<1>9. UNCHANGED Ring!vars
  BY <1>1, <1>2, <1>8, RingKept
<1> QED
  BY <1>7, <1>9

(* A step that does not enter or leave the last statement of a write leaves *)
(* the end of the cookies where it is.                                      *)
LEMMA WrittenStays ==
  ASSUME Before, After, NEW p \in Procs, NEW where \in Outside \cup Writing \cup Reading,
         Goto(p, where), where # "w_term", pc[p] \notin Outside \/ NobodyInside,
         pc[p] # "w_term", writeInd' = writeInd
  PROVE  Written' = Written /\ Written = writeInd /\ pc'[p] = where
<1> USE DEF Outside
<1>1. TypeOK /\ AloneInv
  BY DEF Before
<1>2. WrittenIs /\ WrittenIs'
  BY StepFacts
<1>3. \A q \in Procs : pc[q] # "w_term"
  BY <1>1 DEF AloneInv, NobodyInside
<1>4. pc'[p] = where /\ \A q \in Procs : q # p => pc'[q] = pc[q]
  BY <1>1, GotoType
<1>5. \A q \in Procs : pc'[q] # "w_term"
  BY <1>3, <1>4
<1> QED
  BY <1>2, <1>3, <1>4, <1>5 DEF WrittenIs

(* fortuneWrite until its last statement.                                   *)
LEMMA RingWrite ==
  ASSUME Before, After, NEW p \in Procs, ~overlap', ~early', ~Fault,
         WriteTest(p) \/ WriteCopy(p) \/ WriteLoad(p) \/ WriteStore(p)
  PROVE  RingAlone' /\ [Ring!Next]_(Ring!vars)
<1> USE DEF Outside, Writing, Reading
<1>1. TypeOK /\ AloneInv /\ RingAlone
  BY DEF Before
<1>2. /\ WrittenIs /\ WrittenIs' /\ CallInv(p) /\ RingCall(p) /\ Terminated
      /\ writeInd \in Nat /\ readInd \in Nat /\ readInd <= writeInd /\ writeInd <= Size
      /\ Size \in Nat \ {0} /\ MaxCalls \in Nat
      /\ len \in [Procs -> Nat] /\ loc \in [Procs -> Nat] /\ len[p] \in Nat /\ loc[p] \in Nat
      /\ pot \in [Pot -> 0..MaxCalls] /\ calls \in Nat
      /\ (pc[p] \notin Outside => life = "loaded")
  BY StepFacts
<1>3. ASSUME pc[p] \notin Outside \/ NobodyInside, pc[p] # "w_term"
      PROVE  (\A q \in Procs : pc[q] # "w_term") /\ Written = writeInd
  <2>1. \A q \in Procs : pc[q] # "w_term"
    BY <1>1, <1>3 DEF AloneInv, NobodyInside
  <2> QED
    BY <1>2, <2>1 DEF WrittenIs
<1>4. CASE WriteTest(p)
  <2>1. /\ Enter(p, "w_copy") /\ buf' = [buf EXCEPT ![p] = <<calls + 1>>]
        /\ pot' = pot /\ writeInd' = writeInd /\ readInd' = readInd /\ out' = out /\ life' = life
    BY <1>4 DEF WriteTest, potVars
  <2>2. NobodyInside /\ life = "loaded" /\ Goto(p, "w_copy") /\ pc[p] = "open"
    BY <2>1 DEF Enter
  <2>3. Written' = Written /\ pc'[p] = "w_copy"
    BY <2>1, <2>2, WrittenStays
  <2>4. buf'[p][1] # NUL
    <3>1. buf = [q \in Procs |-> buf[q]]
      BY DEF Before, LifeInv
    <3>2. buf'[p] = <<calls + 1>>
      BY <2>1, <3>1
    <3> QED
      BY <1>2, <3>2 DEF NUL
  <2>5. RingCall(p)'
    BY <2>3, <2>4 DEF RingCall
  <2> QED
    BY <2>1, <2>2, <2>3, <2>5, RingQuiet
<1>5. CASE WriteCopy(p)
  <2> DEFINE target == loc[p] .. (loc[p] + len[p] - 1)
  <2>1. PICK n \in Int, where \in {"w_load", "open"} :
          /\ pc[p] = "w_copy" /\ Goto(p, where)
          /\ where = "w_load" => n = len[p]
          /\ target \subseteq Pot
          /\ pot' = [i \in Pot |-> IF i \notin target THEN pot[i]
                                   ELSE IF i < loc[p] + n THEN buf[p][1] ELSE NUL]
          /\ life' = life /\ writeInd' = writeInd /\ readInd' = readInd /\ len' = len /\ loc' = loc
          /\ out' = out
    BY <1>2, <1>5 DEF WriteCopy, Fault, history
  <2>2. loc[p] = writeInd /\ buf[p][1] # NUL
    BY <1>2, <2>1 DEF CallInv, RingCall
  <2>3. Written' = Written /\ pc'[p] = where /\ Written = writeInd
    BY <2>1, WrittenStays
  <2>4. \A i \in 0..(Written - 1) : pot'[i] = pot[i]
    <3> SUFFICES ASSUME NEW i \in 0..(Written - 1) PROVE pot'[i] = pot[i]
      OBVIOUS
    <3>1. i \in Pot /\ i \notin target
      BY <1>2, <2>2, <2>3 DEF Pot
    <3> QED
      BY <2>1, <3>1
  <2>5. where = "w_load" => Filled(writeInd, len[p])'
    <3> SUFFICES ASSUME where = "w_load", NEW k \in writeInd..(writeInd + len[p] - 1)
                 PROVE  pot'[k] # NUL
      BY <2>1 DEF Filled
    <3>1. k \in Pot /\ k \in target /\ k < loc[p] + n
      BY <1>2, <2>1, <2>2
    <3> QED
      BY <2>1, <2>2, <3>1
  <2>6. RingCall(p)'
    BY <2>1, <2>3, <2>5 DEF RingCall
  <2> QED
    BY <1>2, <2>1, <2>3, <2>4, <2>6, RingQuiet
<1>6. CASE WriteLoad(p)
  <2>1. /\ pc[p] = "w_load" /\ Goto(p, "w_store") /\ loc' = [loc EXCEPT ![p] = writeInd]
        /\ pot' = pot /\ writeInd' = writeInd /\ readInd' = readInd /\ out' = out /\ life' = life
        /\ len' = len
    BY <1>6 DEF WriteLoad, potVars, history
  <2>2. Written' = Written /\ pc'[p] = "w_store"
    BY <2>1, WrittenStays
  <2>3. loc'[p] = writeInd /\ Filled(writeInd, len[p])
    BY <1>2, <2>1 DEF RingCall
  <2>4. RingCall(p)'
    BY <2>1, <2>2, <2>3 DEF RingCall, Filled
  <2> QED
    BY <1>2, <2>1, <2>2, <2>4, RingQuiet
<1>7. CASE WriteStore(p)
  <2>1. /\ pc[p] = "w_store" /\ Goto(p, "w_term") /\ writeInd' = loc[p] + len[p]
        /\ pot' = pot /\ readInd' = readInd /\ out' = out /\ life' = life
        /\ len' = len /\ loc' = loc
    BY <1>7 DEF WriteStore, history
  <2>2. pc'[p] = "w_term"
    BY <1>1, <2>1, GotoType
  <2>3. loc[p] = writeInd /\ Filled(loc[p], len[p]) /\ Written = writeInd
        /\ \A q \in Procs : pc[q] # "w_term"
    BY <1>2, <1>3, <2>1 DEF CallInv, RingCall
  <2>4. Written' = Written
    <3>1. Written' = loc'[p]
      BY <1>2, <2>2 DEF WrittenIs
    <3> QED
      BY <2>1, <2>3, <3>1
  <2>5. loc[p] # 0 => pot[loc[p] - 1] = NUL
    BY <1>2, <2>3 DEF Terminated
  <2>6. RingCall(p)'
    BY <1>2, <2>1, <2>2, <2>3, <2>5 DEF RingCall, Filled
  <2> QED
    BY <1>2, <2>1, <2>4, <2>6, RingQuiet
<1> QED
  BY <1>4, <1>5, <1>6, <1>7

(* The NUL makes what was written a cookie, if anything was.                *)
LEMMA RingPut ==
  ASSUME Before, After, NEW p \in Procs, ~Fault, WriteTerminate(p)
  PROVE  RingAlone' /\ [Ring!Next]_(Ring!vars)
<1> USE DEF Outside, Writing, Reading
<1>1. TypeOK /\ AloneInv /\ RingAlone
  BY DEF Before
<1>2. /\ WrittenIs /\ WrittenIs' /\ CallInv(p) /\ RingCall(p)
      /\ writeInd \in Nat /\ readInd \in Nat /\ len[p] \in Nat /\ loc[p] \in Nat
      /\ pot \in [Pot -> 0..MaxCalls] /\ (pc[p] \notin Outside => life = "loaded")
      /\ (readInd # 0 => pot[readInd - 1] = NUL)
  BY StepFacts
<1> DEFINE last == loc[p] + len[p] - 1
<1>3. /\ pc[p] = "w_term" /\ last \in Pot /\ pot' = [pot EXCEPT ![last] = NUL] /\ Goto(p, "open")
      /\ life' = life /\ writeInd' = writeInd /\ readInd' = readInd /\ out' = out
  BY DEF WriteTerminate, Fault, history
<1>4. /\ writeInd = loc[p] + len[p] /\ Written = loc[p] /\ readInd <= loc[p]
      /\ Filled(loc[p], len[p]) /\ (loc[p] # 0 => pot[loc[p] - 1] = NUL)
  BY <1>2, <1>3 DEF CallInv, RingCall, WrittenIs
<1>5. pc'[p] = "open" /\ \A q \in Procs : pc'[q] # "w_term"
  <2>1. pc'[p] = "open" /\ \A q \in Procs : q # p => pc'[q] = pc[q]
    BY <1>1, <1>3, GotoType
  <2>2. \A q \in Procs : q # p => pc[q] \in Outside
    BY <1>1, <1>3 DEF AloneInv
  <2> QED
    BY <2>1, <2>2
<1>6. Written' = loc[p] + len[p]
  BY <1>2, <1>3, <1>4, <1>5 DEF WrittenIs
<1>7. \A i \in Pot : pot'[i] = IF i = last THEN NUL ELSE pot[i]
  BY <1>2, <1>3
<1>8. Pot = 0..(Size - 1) /\ Size \in Nat
  BY FortuneAssumption DEF Pot
<1>9. \A i \in 0..(loc[p] - 1) : pot'[i] = pot[i]
  <2> SUFFICES ASSUME NEW i \in 0..(loc[p] - 1) PROVE pot'[i] = pot[i]
    OBVIOUS
  <2>1. i \in Pot
    BY <1>2, <1>3, <1>8
  <2>2. CASE i = last
    <3>1. i = loc[p] - 1 /\ loc[p] # 0
      BY <1>2, <2>2
    <3> QED
      BY <1>4, <1>7, <2>1, <2>2, <3>1
  <2>3. CASE i # last
    BY <1>7, <2>1, <2>3
  <2> QED
    BY <2>2, <2>3
<1>10. RingAlone'
  <2>1. readInd' # 0 => pot'[readInd' - 1] = NUL
    <3> SUFFICES ASSUME readInd # 0 PROVE pot'[readInd - 1] = NUL
      BY <1>3
    <3>1. readInd - 1 \in 0..(loc[p] - 1)
      BY <1>2, <1>4
    <3> QED
      BY <1>2, <1>9, <3>1
  <2>2. RingCall(p)'
    BY <1>5 DEF RingCall
  <2> QED
    BY <1>1, <1>2, <1>3, <2>1, <2>2, RingMoves
<1>11. CASE len[p] = 0
  <2>1. Written' = Written
    BY <1>2, <1>4, <1>6, <1>11
  <2>2. UNCHANGED Ring!vars
    BY <1>1, <1>3, <1>4, <1>9, <2>1, RingKept
  <2> QED
    BY <1>10, <2>2
<1>12. CASE len[p] > 0
  <2> DEFINE w == loc[p]
             v == loc[p] + len[p]
  <2>1. w \in Nat /\ v \in Nat /\ v > w /\ w <= v /\ last = v - 1
    BY <1>2, <1>12
  <2>2. pot'[v - 1] = NUL
    <3>1. pot'[last] = NUL
      BY <1>3, <1>7
    <3> QED
      BY <2>1, <3>1
  <2>3. \A i \in w..(v - 2) : pot'[i] # NUL
    <3> SUFFICES ASSUME NEW i \in w..(v - 2) PROVE pot'[i] # NUL
      OBVIOUS
    <3>1. i \in w..(w + len[p] - 1) /\ i # last
      BY <1>2, <2>1
    <3>2. last \in 0..(Size - 1)
      BY <1>3, <1>8
    <3>3. i \in 0..(Size - 1)
      BY <1>2, <1>8, <2>1, <3>2
    <3>4. i \in Pot
      BY <1>8, <3>3
    <3> QED
      BY <1>4, <1>7, <3>1, <3>4 DEF Filled
  <2> HIDE DEF v, w, last
  <2>4. /\ Len(RingIn(pot', v)) = Len(RingIn(pot, w)) + 1
        /\ SubSeq(RingIn(pot', v), 1, Len(RingIn(pot, w))) = RingIn(pot, w)
    <3>1. \A i \in 0..(w - 1) : pot[i] = pot'[i]
      BY <1>9 DEF w
    <3> QED
      BY <2>1, <2>2, <2>3, <3>1, RingGrows
  <2>5. NulsIn(pot', readInd) = NulsIn(pot, readInd)
    <3>1. \A i \in 0..(readInd - 1) : pot'[i] = pot[i]
      BY <1>2, <1>4, <1>9
    <3> QED
      BY <1>2, <3>1, NulsSame
  <2>6. Mapped /\ Mapped'
    <3>1. Mapped'
      BY MappedNow, PTL
    <3> QED
      BY <3>1, MappedNow
  <2>7. Cookies = RingIn(pot, w) /\ Cookies' = RingIn(pot', v) /\ Cursor' = Cursor
    BY <1>3, <1>4, <1>6, <2>5, <2>6 DEF Mapped, v, w
  <2>8. LastRead' = LastRead
    BY <1>3 DEF LastRead
  <2>9. Ring!Put
    BY <2>4, <2>7, <2>8 DEF Ring!Put
  <2> QED
    BY <1>10, <2>9 DEF Ring!Next
<1> QED
  BY <1>2, <1>11, <1>12

(* fortuneRead until it adds to readInd.                                    *)
LEMMA RingRead ==
  ASSUME Before, After, NEW p \in Procs, ~overlap', ~early', ~Fault,
         ReadTest(p) \/ ReadFormat(p) \/ ReadCopy(p) \/ ReadLoad(p)
  PROVE  RingAlone' /\ [Ring!Next]_(Ring!vars)
<1> USE DEF Outside, Writing, Reading
<1>1. TypeOK /\ AloneInv /\ RingAlone
  BY DEF Before
<1>2. /\ CallInv(p) /\ RingCall(p)
      /\ writeInd \in Nat /\ readInd \in Nat /\ readInd <= writeInd /\ writeInd <= Size
      /\ Size \in Nat \ {0} /\ MaxCalls \in Nat /\ NL \in Nat
      /\ len \in [Procs -> Nat] /\ loc \in [Procs -> Nat] /\ len[p] \in Nat /\ loc[p] \in Nat
      /\ pot \in [Pot -> 0..MaxCalls] /\ tmpBuf \in [Pot -> 0..NL]
      /\ (pc[p] \notin Outside => life = "loaded")
  BY StepFacts
<1>3. buf = [q \in Procs |-> buf[q]]
  BY DEF Before, LifeInv
<1>4. CASE ReadTest(p)
  <2>1. /\ Enter(p, "r_wrap")
        /\ pot' = pot /\ writeInd' = writeInd /\ readInd' = readInd /\ out' = out /\ life' = life
    BY <1>4 DEF ReadTest, potVars
  <2>2. NobodyInside /\ life = "loaded" /\ Goto(p, "r_wrap") /\ pc[p] = "open"
    BY <2>1 DEF Enter
  <2>3. Written' = Written /\ pc'[p] = "r_wrap"
    BY <2>1, <2>2, WrittenStays
  <2>4. RingCall(p)'
    BY <2>3 DEF RingCall
  <2> QED
    BY <2>1, <2>2, <2>3, <2>4, RingQuiet
<1>5. CASE ReadFormat(p)
  <2> DEFINE ends == {i \in Pot : i >= readInd /\ pot[i] = NUL}
             end == CHOOSE i \in ends : \A j \in ends : i <= j
             n == end - readInd
  <2>1. /\ pc[p] = "r_format" /\ Goto(p, "r_copy") /\ ends # {}
        /\ tmpBuf' = [i \in Pot |-> IF i < n THEN pot[readInd + i]
                                    ELSE IF i = n THEN IF n < Size - 1 THEN NL ELSE NUL
                                    ELSE IF i = n + 1 THEN NUL
                                    ELSE tmpBuf[i]]
        /\ len' = [len EXCEPT ![p] = n + 1]
        /\ pot' = pot /\ writeInd' = writeInd /\ readInd' = readInd /\ out' = out /\ life' = life
    BY <1>5 DEF ReadFormat, Fault, history
  <2>2. end \in ends /\ \A j \in ends : end <= j
    <3>1. ends \in SUBSET Nat
      BY <1>2 DEF Pot
    <3>2. \E i \in ends : \A j \in ends : i <= j
      BY <2>1, <3>1, LeastNatural
    <3> QED
      BY <3>2
  <2>3. Pot = 0..(Size - 1)
    BY DEF Pot
  <2>4. end \in Pot /\ end >= readInd /\ pot[end] = NUL
        /\ \A i \in Pot : i >= readInd /\ i < end => pot[i] # NUL
    <3>1. end \in Pot /\ end >= readInd /\ pot[end] = NUL
      BY <2>2
    <3>2. ASSUME NEW i \in Pot, i >= readInd, i < end, pot[i] = NUL PROVE FALSE
      <4>1. end <= i
        BY <2>2, <3>2
      <4> QED
        BY <2>3, <3>1, <3>2, <4>1
    <3> QED
      BY <3>1, <3>2
  <2> HIDE DEF end, ends
  <2>5. n \in Nat /\ n < Size /\ readInd + n = end /\ end \in Nat /\ end < Size
    BY <1>2, <2>3, <2>4
  <2> HIDE DEF n
  <2>6. len'[p] = n + 1 /\ (n + 1) - 1 = n /\ readInd + (n + 1) - 1 = end /\ n + 1 >= 1
    BY <1>2, <2>1, <2>5
  <2>7. Written' = Written /\ pc'[p] = "r_copy"
    BY <2>1, WrittenStays
  <2>8. ASSUME NEW i \in 1..n
        PROVE  pot[readInd + i - 1] # NUL /\ tmpBuf'[i - 1] = pot[readInd + i - 1]
    <3>1. i - 1 \in 0..(Size - 1) /\ i - 1 < n /\ readInd + (i - 1) = readInd + i - 1
      BY <1>2, <2>5
    <3>2. readInd + i - 1 \in 0..(Size - 1) /\ readInd + i - 1 >= readInd /\ readInd + i - 1 < end
      BY <1>2, <2>5
    <3> QED
      BY <2>1, <2>3, <2>4, <3>1, <3>2
  <2>9. ReadText(p, [i \in 1..(len[p] - 1) |-> tmpBuf[i - 1]])'
    BY <2>1, <2>4, <2>6, <2>8 DEF ReadText
  <2>10. RingCall(p)'
    BY <2>7, <2>9 DEF RingCall
  <2> QED
    BY <1>2, <2>1, <2>7, <2>10, RingQuiet
<1>6. CASE ReadCopy(p)
  <2>1. PICK where \in {"r_load", "open"} :
          /\ pc[p] = "r_copy" /\ Goto(p, where)
          /\ where = "r_load" => buf' = [buf EXCEPT ![p] = [i \in 1..len[p] |-> tmpBuf[i - 1]]]
          /\ pot' = pot /\ writeInd' = writeInd /\ readInd' = readInd /\ out' = out /\ life' = life
          /\ len' = len /\ tmpBuf' = tmpBuf
    BY <1>6 DEF ReadCopy, potVars, history
  <2>2. Written' = Written /\ pc'[p] = where
    BY <2>1, WrittenStays
  <2>3. readInd + len[p] <= writeInd /\ ReadText(p, [i \in 1..(len[p] - 1) |-> tmpBuf[i - 1]])
    BY <1>2, <2>1 DEF CallInv, RingCall
  <2>4. ASSUME where = "r_load"
        PROVE  ReadText(p, buf[p])' /\ buf'[p] \in Seq(0..NL) /\ Len(buf'[p]) = len[p]
    <3>1. buf'[p] = [i \in 1..len[p] |-> tmpBuf[i - 1]]
      BY <1>3, <2>1, <2>4
    <3>2. ASSUME NEW i \in 1..len[p] PROVE tmpBuf[i - 1] \in 0..NL
      <4>1. i - 1 \in Pot
        BY <1>2, <2>3 DEF Pot
      <4> QED
        BY <1>2, <4>1
    <3>3. buf'[p] \in Seq(0..NL) /\ Len(buf'[p]) = len[p]
      <4>1. buf'[p] \in [1..len[p] -> 0..NL]
        BY <3>1, <3>2
      <4>2. len[p] \in Nat
        BY <1>2
      <4> QED
        BY <4>1, <4>2, FunctionSeq
    <3>4. \A i \in 1..(len[p] - 1) : buf'[p][i] = tmpBuf[i - 1]
      BY <1>2, <3>1
    <3>5. ReadText(p, buf[p])'
      BY <2>1, <2>3, <3>4 DEF ReadText
    <3> QED
      BY <3>3, <3>5
  <2>5. RingCall(p)'
    BY <2>1, <2>2, <2>4 DEF RingCall
  <2> QED
    BY <1>2, <2>1, <2>2, <2>5, RingQuiet
<1>7. CASE ReadLoad(p)
  <2>1. /\ pc[p] = "r_load" /\ Goto(p, "r_store")
        /\ pot' = pot /\ writeInd' = writeInd /\ readInd' = readInd /\ out' = out /\ life' = life
        /\ len' = len /\ buf' = buf
    BY <1>7 DEF ReadLoad, potVars, history
  <2>2. Written' = Written /\ pc'[p] = "r_store"
    BY <2>1, WrittenStays
  <2>3. RingCall(p)'
    BY <1>2, <2>1, <2>2 DEF RingCall, ReadText
  <2> QED
    BY <1>2, <2>1, <2>2, <2>3, RingQuiet
<1> QED
  BY <1>4, <1>5, <1>6, <1>7

(* The wrap begins the cookies again; without it the step changes nothing.  *)
LEMMA RingRewind ==
  ASSUME Before, After, NEW p \in Procs, ReadWrap(p)
  PROVE  RingAlone' /\ [Ring!Next]_(Ring!vars)
<1> USE DEF Outside, Writing, Reading
<1>1. TypeOK /\ AloneInv /\ RingAlone
  BY DEF Before
<1>2. /\ CallInv(p) /\ writeInd \in Nat /\ readInd \in Nat /\ readInd <= writeInd
      /\ (pc[p] \notin Outside => life = "loaded")
  BY StepFacts
<1>3. /\ pc[p] = "r_wrap" /\ Goto(p, "r_format")
      /\ readInd' = IF readInd >= loc[p] THEN 0 ELSE readInd
      /\ pot' = pot /\ writeInd' = writeInd /\ out' = out /\ life' = life
  BY DEF ReadWrap, history
<1>4. Written' = Written /\ Written = writeInd /\ pc'[p] = "r_format"
  BY <1>3, WrittenStays
<1>5. loc[p] = writeInd
  BY <1>2, <1>3 DEF CallInv
<1>6. RingCall(p)'
  BY <1>4 DEF RingCall
<1>7. CASE readInd < writeInd
  <2>1. readInd' = readInd
    BY <1>2, <1>3, <1>5, <1>7
  <2> QED
    BY <1>2, <1>3, <1>4, <1>6, <2>1, RingQuiet
<1>8. CASE readInd = writeInd
  <2>1. readInd' = 0
    BY <1>2, <1>3, <1>5, <1>8
  <2>2. RingAlone'
    BY <1>1, <1>2, <1>3, <1>6, <2>1, RingMoves
  <2>3. Mapped /\ Mapped'
    <3>1. Mapped'
      BY MappedNow, PTL
    <3> QED
      BY <3>1, MappedNow
  <2>4. Cookies' = Cookies /\ LastRead' = LastRead
    BY <1>3, <1>4, <2>3 DEF Mapped, LastRead
  <2>5. Cursor' = 0
    <3>1. NulsIn(pot, 0) = {}
      BY DEF NulsIn
    <3>2. Cursor' = Cardinality(NulsIn(pot, 0))
      BY <1>3, <2>1, <2>3 DEF Mapped
    <3> QED
      BY <3>1, <3>2, FS_EmptySet
  <2>6. Cursor = Len(Cookies)
    <3>1. Cookies = RingIn(pot, writeInd) /\ Cursor = Cardinality(NulsIn(pot, writeInd))
      BY <1>4, <1>8, <2>3 DEF Mapped
    <3>2. Cardinality(NulsIn(pot, writeInd)) \in Nat
      BY <1>2, NulsFinite
    <3>3. Len(RingIn(pot, writeInd)) = Cardinality(NulsIn(pot, writeInd))
      BY <3>2 DEF RingIn
    <3> QED
      BY <3>1, <3>3
  <2>7. Ring!Rewind
    BY <2>4, <2>5, <2>6 DEF Ring!Rewind
  <2> QED
    BY <2>2, <2>7 DEF Ring!Next
<1> QED
  BY <1>2, <1>7, <1>8

(* A read that returns has returned the next cookie.                        *)
LEMMA RingGet ==
  ASSUME Before, After, NEW p \in Procs, ReadStore(p)
  PROVE  RingAlone' /\ [Ring!Next]_(Ring!vars)
<1> USE DEF Outside, Writing, Reading
<1>1. TypeOK /\ AloneInv /\ RingAlone
  BY DEF Before
<1>2. /\ CallInv(p) /\ RingCall(p) /\ len[p] \in Nat
      /\ writeInd \in Nat /\ readInd \in Nat /\ readInd <= writeInd
      /\ (pc[p] \notin Outside => life = "loaded")
      /\ (readInd # 0 => pot[readInd - 1] = NUL)
  BY StepFacts
<1>3. /\ pc[p] = "r_store" /\ Goto(p, "open") /\ readInd' = loc[p] + len[p] /\ out' = buf[p]
      /\ pot' = pot /\ writeInd' = writeInd /\ life' = life
  BY DEF ReadStore
<1>4. Written' = Written /\ Written = writeInd /\ pc'[p] = "open"
  BY <1>3, WrittenStays
<1>5. /\ loc[p] = readInd /\ readInd + len[p] <= writeInd
      /\ ReadText(p, buf[p]) /\ buf[p] \in Seq(0..NL) /\ Len(buf[p]) = len[p]
  BY <1>2, <1>3 DEF CallInv, RingCall
<1> DEFINE n == len[p] - 1
<1>6. n \in Nat /\ readInd + n < writeInd /\ readInd' = readInd + n + 1 /\ len[p] = n + 1
  BY <1>2, <1>3, <1>5 DEF ReadText
<1>7. /\ pot[readInd + n] = NUL
      /\ \A i \in 1..n : pot[readInd + i - 1] # NUL /\ buf[p][i] = pot[readInd + i - 1]
  <2>1. readInd + len[p] - 1 = readInd + n
    BY <1>2
  <2> QED
    BY <1>5, <2>1 DEF ReadText
<1> HIDE DEF n
<1>8. RingAlone'
  <2>1. RingCall(p)'
    BY <1>4 DEF RingCall
  <2>2. readInd' - 1 = readInd + n
    BY <1>2, <1>6
  <2> QED
    BY <1>1, <1>2, <1>3, <1>7, <2>1, <2>2, RingMoves
<1>9. \A i \in readInd..(readInd + n - 1) : pot[i] # NUL
  <2> SUFFICES ASSUME NEW i \in readInd..(readInd + n - 1) PROVE pot[i] # NUL
    OBVIOUS
  <2>1. i - readInd + 1 \in 1..n /\ readInd + (i - readInd + 1) - 1 = i
    BY <1>2, <1>6
  <2> QED
    BY <1>7, <2>1
<1> DEFINE c == Cardinality(NulsIn(pot, readInd))
<1>10. /\ c < Len(RingIn(pot, writeInd))
       /\ Cardinality(NulsIn(pot, readInd + n + 1)) = c + 1
       /\ RingIn(pot, writeInd)[c + 1] = Bytes(pot, readInd, n)
  <2>1. /\ writeInd \in Nat /\ readInd \in Nat /\ n \in Nat /\ readInd + n < writeInd
        /\ pot[readInd + n] = NUL /\ (\A i \in readInd..(readInd + n - 1) : pot[i] # NUL)
        /\ (readInd # 0 => pot[readInd - 1] = NUL)
    BY <1>2, <1>6, <1>7, <1>9
  <2> QED
    BY <2>1, RingReads
<1>11. LastRead' = Bytes(pot, readInd, n)
  <2>1. buf[p] # <<>>
    BY <1>5, <1>6
  <2>2. LastRead' = SubSeq(buf[p], 1, Len(buf[p]) - 1)
    BY <1>3, <2>1 DEF LastRead
  <2>3. Len(buf[p]) - 1 = n
    BY <1>5, <1>6
  <2>4. SubSeq(buf[p], 1, n) = [k \in 1..n |-> buf[p][k]]
    BY <1>5, <1>6
  <2>5. \A k \in 1..n : buf[p][k] = pot[readInd + k - 1]
    BY <1>7
  <2> QED
    BY <2>2, <2>3, <2>4, <2>5 DEF Bytes
<1>12. Mapped /\ Mapped'
  <2>1. Mapped'
    BY MappedNow, PTL
  <2> QED
    BY <2>1, MappedNow
<1>13. Cookies = RingIn(pot, writeInd) /\ Cookies' = Cookies /\ Cursor = c /\ Cursor' = c + 1
  BY <1>3, <1>4, <1>6, <1>10, <1>12 DEF Mapped
<1>14. Ring!Get
  BY <1>10, <1>11, <1>13 DEF Ring!Get
<1> QED
  BY <1>8, <1>14 DEF Ring!Next

(* md_init and md_exit run while nobody is inside, and leave the cookies    *)
(* alone: as long as md_init runs, there are none.                          *)
LEMMA RingModule ==
  ASSUME Before, After, MdInit \/ MdExit
  PROVE  RingAlone' /\ [Ring!Next]_(Ring!vars)
<1> USE DEF Outside
<1>1. TypeOK /\ LifeInv /\ AloneInv /\ RingAlone
  BY DEF Before
<1>2. pot' = pot /\ out' = out
  BY DEF MdInit, MdExit, Vmalloc, ProcEntry, FreeMemory, ResetIndices, potVars, history
<1>3. \A p \in Procs : pc[p] \in Outside /\ pc'[p] \in Outside
  <2>1. ASSUME NEW next, FreeMemory(next)
        PROVE  \A p \in Procs : pc[p] \in Outside /\ pc'[p] \in Outside
    BY <1>1, <2>1 DEF FreeMemory, NobodyInside, LifeInv
  <2>2. CASE life # "loaded" /\ pc' = pc
    BY <1>1, <2>2 DEF AloneInv
  <2> QED
    BY <2>1, <2>2 DEF MdInit, MdExit, Vmalloc, ProcEntry, ResetIndices, pVars
<1>4. writeInd' = writeInd /\ readInd' = readInd /\ (life' \in Loading => life \in Loading)
  <2>1. ASSUME NEW next \in {"rejected", "gone"}, FreeMemory(next)
        PROVE  writeInd' = writeInd /\ readInd' = readInd /\ life' \notin Loading
    BY <2>1 DEF FreeMemory, potVars, Loading
  <2>2. CASE ResetIndices
    BY <1>1, <2>2 DEF ResetIndices, RingAlone, Loading
  <2>3. CASE life \in Loading /\ UNCHANGED potVars
    BY <2>3 DEF potVars
  <2> QED
    BY <2>1, <2>2, <2>3 DEF MdInit, MdExit, Vmalloc, ProcEntry, Loading
<1>5. \A p \in Procs : RingCall(p)'
  BY <1>3 DEF RingCall
<1>6. RingAlone'
  BY <1>1, <1>2, <1>4, <1>5 DEF RingAlone
<1>7. Written' = Written
  <2>1. \A p \in Procs : pc[p] # "w_term" /\ pc'[p] # "w_term"
    BY <1>3
  <2>2. Written = writeInd /\ Written' = writeInd'
    BY <2>1 DEF Written
  <2> QED
    BY <1>4, <2>2
<1>8. UNCHANGED Ring!vars
  BY <1>1, <1>2, <1>4, <1>7, RingKept
<1> QED
  BY <1>6, <1>8

(* A call that leaves the pot changes nothing in the model.                 *)
LEMMA RingStill ==
  ASSUME RingAlone, UNCHANGED <<life, held, potVars, pVars, history>>
  PROVE  RingAlone' /\ [Ring!Next]_(Ring!vars)
<1>1. /\ life' = life /\ pot' = pot /\ writeInd' = writeInd /\ readInd' = readInd /\ tmpBuf' = tmpBuf
      /\ pc' = pc /\ len' = len /\ loc' = loc /\ buf' = buf /\ out' = out
  BY DEF potVars, pVars, history
<1>2. RingAlone'
  BY <1>1 DEF RingAlone, RingCall, Filled, ReadText
<1>3. Written' = Written
  BY <1>1 DEF Written
<1>4. Mapped /\ Mapped'
  <2>1. Mapped'
    BY MappedNow, PTL
  <2> QED
    BY <2>1, MappedNow
<1>5. Cookies' = Cookies /\ Cursor' = Cursor /\ LastRead' = LastRead
  BY <1>1, <1>3, <1>4 DEF Mapped, LastRead
<1> QED
  BY <1>2, <1>5 DEF Ring!vars

(* Calls that come one after the other, and after insmod.                   *)
Sequential == ~overlap /\ ~early

(* Every step of such calls is a step of the ring of cookies, or none.      *)
LEMMA RingStep ==
  ASSUME IInv, IInv', RingInv, [Next]_vars
  PROVE  RingInv' /\ (Sequential' => [Ring!Next]_(Ring!vars))
<1> SUFFICES ASSUME ~overlap', ~early'
             PROVE  RingAlone' /\ [Ring!Next]_(Ring!vars)
  BY DEF RingInv, Sequential
<1>1. ~overlap /\ ~early
  BY HistoryStep DEF IInv, vars, history
<1>2. Before /\ After /\ RingAlone
  BY <1>1 DEF IInv, SequentialInv, RingInv, Before, After
<1>3. CASE UNCHANGED vars
  BY <1>2, <1>3, RingStill DEF vars
<1>4. CASE Fault
  BY <1>2, <1>4, RingStill DEF Fault
<1>5. CASE MdInit \/ MdExit
  BY <1>2, <1>5, RingModule
<1>6. ASSUME NEW p \in Procs, ~Fault,
             FortuneOpen(p) \/ FortuneRelease(p) \/ FortuneWrite(p) \/ FortuneRead(p)
      PROVE  RingAlone' /\ [Ring!Next]_(Ring!vars)
  <2>1. CASE FortuneOpen(p) \/ FortuneRelease(p)
    BY <1>2, <2>1, RingOpen
  <2>2. CASE WriteTest(p) \/ WriteCopy(p) \/ WriteLoad(p) \/ WriteStore(p)
    BY <1>2, <1>6, <2>2, RingWrite
  <2>3. CASE WriteTerminate(p)
    BY <1>2, <1>6, <2>3, RingPut
  <2>4. CASE ReadTest(p) \/ ReadFormat(p) \/ ReadCopy(p) \/ ReadLoad(p)
    BY <1>2, <1>6, <2>4, RingRead
  <2>5. CASE ReadWrap(p)
    BY <1>2, <2>5, RingRewind
  <2>6. CASE ReadStore(p)
    BY <1>2, <2>6, RingGet
  <2> QED
    BY <1>6, <2>1, <2>2, <2>3, <2>4, <2>5, <2>6 DEF FortuneWrite, FortuneRead
<1> QED
  BY <1>3, <1>4, <1>5, <1>6 DEF Next

(* An empty pot is an empty ring.                                           *)
LEMMA RingInit ==
  ASSUME Init
  PROVE  RingInv /\ Ring!Init
<1>1. \A p \in Procs : pc[p] = "closed"
  BY DEF Init
<1>2. writeInd = 0 /\ readInd = 0 /\ out = <<>>
  BY DEF Init
<1>3. RingInv
  BY <1>1, <1>2 DEF RingInv, RingAlone, RingCall
<1>4. Written = 0
  BY <1>1, <1>2 DEF Written
<1>5. NulsIn(pot, 0) = {}
  BY DEF NulsIn
<1>6. Cardinality(NulsIn(pot, 0)) = 0
  BY <1>5, FS_EmptySet
<1>7. Cursor = 0 /\ Cookies = RingIn(pot, 0)
  BY <1>2, <1>4, <1>6, MappedNow DEF Mapped
<1>8. RingIn(pot, 0) = <<>>
  <2>1. RingIn(pot, 0) = [k \in 1..0 |-> TextIn(pot, KthNul(pot, 0, k))]
    BY <1>6 DEF RingIn
  <2> QED
    BY <2>1
<1>9. LastRead = <<>>
  BY <1>2 DEF LastRead
<1> QED
  BY <1>3, <1>7, <1>8, <1>9 DEF Ring!Init

(* Calls of fortuneWrite and fortuneRead that come one after the other, and *)
(* after insmod, from any number of processes, make the pot a ring of       *)
(* cookies: the detailed specification implements CookieRing.               *)
THEOREM SequentialRing == Spec /\ []Sequential => IsCookieRing
<1>1. Init => RingInv /\ Ring!Init
  BY RingInit
<1>2. IInv /\ IInv' /\ RingInv /\ Sequential' /\ [Next]_vars => RingInv' /\ [Ring!Next]_(Ring!vars)
  BY RingStep
<1>3. IInv /\ IInv' /\ RingInv /\ [Next]_vars => RingInv'
  BY RingStep
<1> QED
  BY <1>1, <1>2, <1>3, FortuneInvariant, PTL DEF Spec, IsCookieRing, Ring!Spec

(* With OpenEarly FALSE nobody calls before insmod returns, and one process *)
(* cannot overlap with itself.                                              *)
OpenLoaded == ~early /\ \A p \in Procs : pc[p] # "closed" => life = "loaded"

(* Every step keeps the file closed until insmod has returned.              *)
LEMMA OpenLoadedStep ==
  ASSUME IInv, OpenLoaded, ~OpenEarly, [Next]_vars
  PROVE  OpenLoaded'
<1>1. TypeOK
  BY DEF IInv
<1>2. CASE UNCHANGED <<early, pc, life>>
  BY <1>2 DEF OpenLoaded
<1>3. CASE MdInit \/ MdExit
  <2>1. ASSUME NEW next, FreeMemory(next) PROVE OpenLoaded'
    BY <2>1 DEF FreeMemory, OpenLoaded, history
  <2>2. CASE UNCHANGED <<early, pc>> /\ life # "loaded"
    BY <2>2 DEF OpenLoaded
  <2> QED
    BY <1>3, <2>1, <2>2
       DEF MdInit, MdExit, Vmalloc, ProcEntry, ResetIndices, pVars, history
<1>4. ASSUME NEW p \in Procs, NEW where \in Outside \cup Writing \cup Reading, Goto(p, where),
             life' = life, early' = early, pc[p] # "closed" \/ life = "loaded"
      PROVE  OpenLoaded'
  <2>1. \A q \in Procs : q # p => pc'[q] = pc[q]
    BY <1>1, <1>4, GotoType
  <2> QED
    BY <1>4, <2>1 DEF OpenLoaded
<1>5. ASSUME NEW p \in Procs,
             FortuneOpen(p) \/ FortuneRelease(p) \/ FortuneWrite(p) \/ FortuneRead(p), ~Fault
      PROVE  \E where \in Outside \cup Writing \cup Reading :
                 Goto(p, where) /\ life' = life /\ early' = early
                 /\ (pc[p] # "closed" \/ life = "loaded")
  BY <1>5 DEF OpenLoaded, Outside, Writing, Reading, Enter, history,
              FortuneOpen, FortuneRelease, FortuneWrite, FortuneRead, WriteTest, WriteCopy,
              WriteLoad, WriteStore, WriteTerminate, ReadTest, ReadWrap, ReadFormat, ReadCopy,
              ReadLoad, ReadStore
<1> QED
  BY <1>2, <1>3, <1>4, <1>5 DEF Next, Fault, vars, pVars, history

(* Used by one process after insmod, the fortune file is a ring of cookies, *)
(* for every size of the pot and every sequence of its calls.               *)
THEOREM OneProcessRing ==
  ASSUME NEW user, Procs = {user}, ~OpenEarly
  PROVE  Spec => IsCookieRing
<1>1. Init => OpenLoaded /\ ~overlap
  BY DEF Init, OpenLoaded
<1>2. IInv /\ OpenLoaded /\ [Next]_vars => OpenLoaded'
  BY OpenLoadedStep
<1>3. IInv /\ ~overlap /\ [Next]_vars => ~overlap'
  <2>1. ASSUME NEW p \in Procs, NEW where, Enter(p, where) PROVE overlap' = overlap
    BY <2>1 DEF Enter, NobodyInside, Outside
  <2>2. CASE overlap' = overlap
    BY <2>2
  <2> QED
    BY <2>1, <2>2
       DEF Next, MdInit, MdExit, Vmalloc, ProcEntry, FreeMemory, ResetIndices, vars,
           FortuneOpen, FortuneRelease, FortuneWrite, FortuneRead, WriteTest, WriteCopy,
           WriteLoad, WriteStore, WriteTerminate, ReadTest, ReadWrap, ReadFormat, ReadCopy,
           ReadLoad, ReadStore, Fault, history
<1>4. OpenLoaded /\ ~overlap => Sequential
  BY DEF OpenLoaded, Sequential
<1> QED
  BY <1>1, <1>2, <1>3, <1>4, FortuneInvariant, SequentialRing, PTL DEF Spec
=============================================================================
