------------------------------ MODULE Fortune ------------------------------
(***************************************************************************)
(* The fortune file of 6/fortunka/fortune.c: md_init and md_exit, and      *)
(* processes that open, write, read and close /proc/fortuneDir/fortuneFile.*)
(*                                                                         *)
(* The pot is kept byte by byte, because its limits matter; what a cookie  *)
(* says does not, so every byte of the n-th call is the number n.   The    *)
(* operations are split where they read or write the shared indices, the   *)
(* pot or tmpBuf; writeInd and readInd are plain ints, kept in registers   *)
(* between two calls.  The model stops at the first access outside the pot *)
(* (up = "fault").                                                         *)
(***************************************************************************)
EXTENDS Integers, Sequences, FiniteSets

CONSTANTS
    Procs,       \* processes
    Size,        \* COOKIE_POT_SIZE
    MaxCalls,    \* bound on the reads and writes of a behaviour
    OpenEarly    \* may a process open the file before insmod returns

ASSUME FortuneAssumption ==
    Size \in Nat \ {0} /\ MaxCalls \in Nat /\ OpenEarly \in BOOLEAN

NUL == 0
NL == MaxCalls + 1
Pot == 0..(Size - 1)
Lens == 0..(Size + 2)        \* longer writes are refused just like Size + 2

VARIABLES
    life,        \* the statement md_init executes next
    held,        \* the entries and the memory that exist
    pot,         \* cookiePot
    writeInd, readInd,
    tmpBuf,
    pc,          \* where each process is
    fPos,        \* TRUE if its file position is not 0
    len,         \* the length it calls, or readLen
    loc,         \* the index it has loaded
    buf,         \* its own buffer: the byte it calls, or what it has read
    out,         \* history: what the last successful read returned
    calls,       \* reads and writes so far
    overlap,     \* history: two calls were inside the module at once
    early,       \* history: a call began before md_init set the indices
    up           \* "running" or "fault"

pVars == <<pc, fPos, len, loc, buf>>
potVars == <<pot, writeInd, readInd, tmpBuf>>
history == <<out, calls, overlap, early>>
vars == <<life, held, potVars, pVars, history, up>>

Loading == {"vmalloc", "proc_mkdir", "proc_create", "proc_symlink", "reset"}
Outside == {"closed", "open"}
Writing == {"w_copy", "w_load", "w_store", "w_term"}
Reading == {"r_wrap", "r_format", "r_copy", "r_load", "r_store"}

(* Every call inside the module finds the pot allocated; the buffers hold   *)
(* bytes, and the calls have the local values they need.                    *)
TypeOK ==
    /\ life \in Loading \cup {"loaded", "rejected", "gone"}
    /\ held \subseteq {"pot", "dir", "file", "link"}
    /\ pot \in [Pot -> 0..MaxCalls]
    /\ writeInd \in Nat /\ readInd \in Nat
    /\ tmpBuf \in [Pot -> 0..NL]
    /\ pc \in [Procs -> Outside \cup Writing \cup Reading]
    /\ fPos \in [Procs -> BOOLEAN]
    /\ len \in [Procs -> Lens]
    /\ loc \in [Procs -> Nat]
    /\ calls \in 0..MaxCalls
    /\ overlap \in BOOLEAN /\ early \in BOOLEAN
    /\ up \in {"running", "fault"}
    /\ \A p \in Procs : pc[p] \notin Outside => "pot" \in held

Init ==
    /\ life = "vmalloc" /\ held = {}
    /\ pot = [i \in Pot |-> NUL] /\ tmpBuf = [i \in Pot |-> NUL]
    /\ writeInd = 0 /\ readInd = 0
    /\ pc = [p \in Procs |-> "closed"] /\ fPos = [p \in Procs |-> FALSE]
    /\ len = [p \in Procs |-> 0] /\ loc = [p \in Procs |-> 0]
    /\ buf = [p \in Procs |-> <<>>]
    /\ out = <<>> /\ calls = 0 /\ overlap = FALSE /\ early = FALSE
    /\ up = "running"

Running == up = "running"

Fault == up' = "fault" /\ UNCHANGED <<life, held, potVars, pVars, history>>

Goto(p, where) == pc' = [pc EXCEPT ![p] = where]

NobodyInside == \A p \in Procs : pc[p] \in Outside

-----------------------------------------------------------------------------
(* md_init, md_exit *)

(* Mutant: the directory stays.                                             *)
FreeMemoryKeepsDir(next) ==
    /\ "file" \in held => NobodyInside
    /\ life' = next /\ held' = held \cap {"dir"}
    /\ pc' = [p \in Procs |-> "closed"]
    /\ UNCHANGED <<potVars, fPos, len, loc, buf, history, up>>

(* freeMemory: remove_proc_entry waits for the calls inside and closes the  *)
(* file; then the pot is freed                                              *)
FreeMemory(next) ==
    /\ "file" \in held => NobodyInside
    /\ life' = next /\ held' = {}
    /\ pc' = [p \in Procs |-> "closed"]
    /\ UNCHANGED <<potVars, fPos, len, loc, buf, history, up>>

(* vmalloc and memset *)
Vmalloc ==
    /\ Running /\ life = "vmalloc"
    /\ \/ life' = "proc_mkdir" /\ held' = {"pot"}
       \/ life' = "rejected" /\ UNCHANGED held
    /\ UNCHANGED <<potVars, pVars, history, up>>

(* proc_mkdir, proc_create and proc_symlink *)
ProcEntry(here, name, next) ==
    /\ Running /\ life = here
    /\ \/ /\ life' = next /\ held' = held \cup {name}
          /\ UNCHANGED <<potVars, pVars, history, up>>
       \/ FreeMemory("rejected")

(* readInd = 0; writeInd = 0 *)
ResetIndices ==
    /\ Running /\ life = "reset"
    /\ life' = "loaded"
    /\ readInd' = 0 /\ writeInd' = 0
    /\ UNCHANGED <<held, pot, tmpBuf, pVars, history, up>>

MdExit == Running /\ life = "loaded" /\ FreeMemory("gone")

-----------------------------------------------------------------------------
(* fortuneOpen, fortuneRelease *)

FortuneOpen(p) ==
    /\ Running /\ "file" \in held /\ pc[p] = "closed"
    /\ OpenEarly \/ life = "loaded"
    /\ Goto(p, "open")
    /\ fPos' = [fPos EXCEPT ![p] = FALSE]
    /\ UNCHANGED <<life, held, potVars, len, loc, buf, history, up>>

FortuneRelease(p) ==
    /\ Running /\ pc[p] = "open"
    /\ Goto(p, "closed")
    /\ UNCHANGED <<life, held, potVars, fPos, len, loc, buf, history, up>>

(* a call enters the module *)
Enter(p, where) ==
    /\ Running /\ pc[p] = "open" /\ calls < MaxCalls
    /\ Goto(p, where)
    /\ calls' = calls + 1
    /\ overlap' = IF NobodyInside THEN overlap ELSE TRUE
    /\ early' = IF life = "loaded" THEN early ELSE TRUE

-----------------------------------------------------------------------------
(* fortuneWrite *)

(* Mutant: one byte more.                                                   *)
FitsOneMore(n) == Size - writeInd + 2 >= 0 => n <= Size - writeInd + 2

(* COOKIE_POT_SIZE - writeInd + 1 is unsigned: below zero it is huge        *)
Fits(n) == Size - writeInd + 1 >= 0 => n <= Size - writeInd + 1

(* the test; -ENOSPC if it fails *)
WriteTest(p) ==
    \E n \in Lens :
        /\ Fits(n)
        /\ Enter(p, "w_copy")
        /\ len' = [len EXCEPT ![p] = n]
        /\ loc' = [loc EXCEPT ![p] = writeInd]
        /\ buf' = [buf EXCEPT ![p] = <<calls + 1>>]
        /\ UNCHANGED <<life, held, potVars, fPos, out, up>>

(* copy_from_user; if it fails after n bytes it clears the others           *)
WriteCopy(p) ==
    LET target == loc[p] .. (loc[p] + len[p] - 1)
        Copied(n) == [i \in Pot |-> IF i \notin target THEN pot[i]
                                    ELSE IF i < loc[p] + n THEN buf[p][1] ELSE NUL]
    IN  /\ Running /\ pc[p] = "w_copy"
        /\ \/ ~(target \subseteq Pot) /\ Fault
           \/ /\ target \subseteq Pot
              /\ \/ pot' = Copied(len[p]) /\ Goto(p, "w_load")
                 \/ \E n \in 0..(len[p] - 1) : pot' = Copied(n) /\ Goto(p, "open")
              /\ UNCHANGED <<life, held, writeInd, readInd, tmpBuf, fPos, len, loc, buf, history, up>>

(* writeInd += len is a load ... *)
WriteLoad(p) ==
    /\ Running /\ pc[p] = "w_load"
    /\ loc' = [loc EXCEPT ![p] = writeInd]
    /\ Goto(p, "w_store")
    /\ UNCHANGED <<life, held, potVars, fPos, len, buf, history, up>>

(* ... and a store *)
WriteStore(p) ==
    /\ Running /\ pc[p] = "w_store"
    /\ writeInd' = loc[p] + len[p]
    /\ Goto(p, "w_term")
    /\ UNCHANGED <<life, held, pot, readInd, tmpBuf, fPos, len, loc, buf, history, up>>

(* cookiePot[writeInd - 1] = 0, with the index just stored *)
WriteTerminate(p) ==
    LET last == loc[p] + len[p] - 1
    IN  /\ Running /\ pc[p] = "w_term"
        /\ \/ last \notin Pot /\ Fault
           \/ /\ last \in Pot
              /\ pot' = [pot EXCEPT ![last] = NUL]
              /\ Goto(p, "open")
              /\ UNCHANGED <<life, held, writeInd, readInd, tmpBuf, fPos, len, loc, buf, history, up>>

-----------------------------------------------------------------------------
(* fortuneRead *)

(* end of file after the first read and while there is no cookie            *)
ReadTest(p) ==
    /\ ~fPos[p] /\ writeInd # 0
    /\ Enter(p, "r_wrap")
    /\ loc' = [loc EXCEPT ![p] = writeInd]
    /\ UNCHANGED <<life, held, potVars, fPos, len, buf, out, up>>

ReadWrap(p) ==
    /\ Running /\ pc[p] = "r_wrap"
    /\ readInd' = IF readInd >= loc[p] THEN 0 ELSE readInd
    /\ Goto(p, "r_format")
    /\ UNCHANGED <<life, held, pot, writeInd, tmpBuf, fPos, len, loc, buf, history, up>>

(* snprintf(tmpBuf, COOKIE_POT_SIZE, "%s\n", &cookiePot[readInd]): the text  *)
(* ends at the first NUL; in tmpBuf it is cut to leave room for a NUL       *)
ReadFormat(p) ==
    LET ends == {i \in Pot : i >= readInd /\ pot[i] = NUL}
        end == CHOOSE i \in ends : \A j \in ends : i <= j
        n == end - readInd
    IN  /\ Running /\ pc[p] = "r_format"
        /\ \/ ends = {} /\ Fault
           \/ /\ ends # {}
              /\ tmpBuf' = [i \in Pot |-> IF i < n THEN pot[readInd + i]
                                          ELSE IF i = n THEN IF n < Size - 1 THEN NL ELSE NUL
                                          ELSE IF i = n + 1 THEN NUL
                                          ELSE tmpBuf[i]]
              /\ len' = [len EXCEPT ![p] = n + 1]
              /\ Goto(p, "r_copy")
              /\ UNCHANGED <<life, held, pot, writeInd, readInd, fPos, loc, buf, history, up>>

(* copy_to_user(buf, tmpBuf, readLen), or -EFAULT *)
ReadCopy(p) ==
    /\ Running /\ pc[p] = "r_copy"
    /\ \/ /\ buf' = [buf EXCEPT ![p] = [i \in 1..len[p] |-> tmpBuf[i - 1]]]
          /\ Goto(p, "r_load")
       \/ UNCHANGED buf /\ Goto(p, "open")
    /\ UNCHANGED <<life, held, potVars, fPos, len, loc, history, up>>

(* readInd += readLen is a load ... *)
ReadLoad(p) ==
    /\ Running /\ pc[p] = "r_load"
    /\ loc' = [loc EXCEPT ![p] = readInd]
    /\ Goto(p, "r_store")
    /\ UNCHANGED <<life, held, potVars, fPos, len, buf, history, up>>

(* Mutant: the NUL is not counted.                                          *)
ReadStoreShort(p) ==
    /\ Running /\ pc[p] = "r_store"
    /\ readInd' = loc[p] + len[p] - 1
    /\ fPos' = [fPos EXCEPT ![p] = TRUE]
    /\ out' = buf[p]
    /\ buf' = [buf EXCEPT ![p] = <<>>]
    /\ Goto(p, "open")
    /\ UNCHANGED <<life, held, pot, writeInd, tmpBuf, len, loc, calls, overlap, early, up>>

(* ... and a store; *fPos += readLen; return readLen *)
ReadStore(p) ==
    /\ Running /\ pc[p] = "r_store"
    /\ readInd' = loc[p] + len[p]
    /\ fPos' = [fPos EXCEPT ![p] = TRUE]
    /\ out' = buf[p]
    /\ buf' = [buf EXCEPT ![p] = <<>>]
    /\ Goto(p, "open")
    /\ UNCHANGED <<life, held, pot, writeInd, tmpBuf, len, loc, calls, overlap, early, up>>

-----------------------------------------------------------------------------
MdInit ==
    \/ Vmalloc
    \/ ProcEntry("proc_mkdir", "dir", "proc_create")
    \/ ProcEntry("proc_create", "file", "proc_symlink")
    \/ ProcEntry("proc_symlink", "link", "reset")
    \/ ResetIndices

FortuneWrite(p) ==
    WriteTest(p) \/ WriteCopy(p) \/ WriteLoad(p) \/ WriteStore(p) \/ WriteTerminate(p)

FortuneRead(p) ==
    ReadTest(p) \/ ReadWrap(p) \/ ReadFormat(p) \/ ReadCopy(p) \/ ReadLoad(p) \/ ReadStore(p)

Next ==
    \/ MdInit \/ MdExit
    \/ \E p \in Procs : \/ FortuneOpen(p) \/ FortuneRelease(p)
                        \/ FortuneWrite(p) \/ FortuneRead(p)

Spec == Init /\ [][Next]_vars

-----------------------------------------------------------------------------
(* As long as calls come one after the other and after insmod, the pot is   *)
(* left only by a write that is one byte too long for it (the test allows   *)
(* one byte too many) or by an empty write into an empty pot; the indices   *)
(* stay inside it, and the reader does not get ahead of the writer.         *)
FaultExplained ==
    /\ overlap \/ early \/ (readInd <= writeInd /\ writeInd <= Size)
    /\ up = "fault" =>
        \/ overlap \/ early
        \/ \E p \in Procs : pc[p] = "w_copy" /\ loc[p] + len[p] = Size + 1
        \/ \E p \in Procs : pc[p] = "w_term" /\ loc[p] + len[p] = 0

(* After md_exit nobody is inside the module, and the entries and the pot   *)
(* are gone; a failed md_init leaves nothing either.                        *)
UnloadedIsClean ==
    /\ TypeOK
    /\ life \in {"gone", "rejected"} => held = {} /\ \A p \in Procs : pc[p] = "closed"

(* The cookies of the pot, for the refinement: the texts between the NULs   *)
(* below writeInd; a write that is about to store its NUL does not count.   *)
Written ==
    IF \E p \in Procs : pc[p] = "w_term"
    THEN LET p == CHOOSE q \in Procs : pc[q] = "w_term" IN loc[p]
    ELSE writeInd

NulsBelow(n) == {i \in 0..(n - 1) : pot[i] = NUL}

TextEndingAt(i) ==
    LET start == IF NulsBelow(i) = {} THEN 0
                 ELSE 1 + CHOOSE j \in NulsBelow(i) : \A k \in NulsBelow(i) : k <= j
    IN  [k \in 1..(i - start) |-> pot[start + k - 1]]

CookieText(k) ==
    TextEndingAt(CHOOSE i \in NulsBelow(Written) : Cardinality(NulsBelow(i)) = k - 1)

Cookies == [k \in 1..Cardinality(NulsBelow(Written)) |-> CookieText(k)]

Cursor == Cardinality(NulsBelow(readInd))

LastRead == IF out = <<>> THEN <<>> ELSE SubSeq(out, 1, Len(out) - 1)

Ring == INSTANCE CookieRing WITH
    cookies <- Cookies, cursor <- Cursor, out <- LastRead

(* Used by one process at a time, the file is a ring of cookies: a write    *)
(* adds one and changes none, and reads return them in turn, byte for byte, *)
(* whatever writes and failed copies come in between.                       *)
IsCookieRing == Ring!Spec
=============================================================================
