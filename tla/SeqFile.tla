------------------------------ MODULE SeqFile ------------------------------
(***************************************************************************)
(* The module of 6/seq_files/seq_file.c: its entries under /proc, and the  *)
(* four callbacks through which the kernel's seq_read fetches the records  *)
(* 0, 1, ..., Limit - 1.  A record is RecSize bytes, each of them its      *)
(* number; whether it fits the first buffer depends on the page size, so   *)
(* the buffer starts with any of BufSizes, and grows.  A file is used by   *)
(* one call at a time (seq_read holds its mutex).                          *)
(***************************************************************************)
EXTENDS Integers, Sequences, FiniteSets

CONSTANTS
    Files,       \* opens of the file
    Limit,       \* limit, 1 in the code
    RecSize,     \* bytes of a record
    BufSizes,    \* bytes the first buffer of an open file may have
    MaxReads     \* bound on the reads of a behaviour

SeqFileAssumption ==
    {Limit, RecSize} \cup BufSizes \subseteq Nat \ {0} /\ MaxReads \in Nat

VARIABLES
    life,        \* the statement ct_init executes next
    held,        \* the entries that exist
    pc,          \* where the call on each open file is
    index,       \* m->index
    size, buf,   \* m->size, and the bytes of m->buf that are not yet copied
    spos,        \* the iterator seq_read holds: its value, or NoIter
    want,        \* bytes the read still asks for
    iters,       \* iterators allocated and not freed
    got,         \* history: bytes read since the position was 0
    eof,         \* history: the read has copied nothing, or returned 0
    ended,       \* history: iterators that went to the limit
    nomem,       \* history: ct_seq_start got no memory for this file
    reads        \* reads so far

mVars == <<index, size, buf, spos, want>>
history == <<got, eof, ended, nomem, reads>>
vars == <<life, held, pc, mVars, iters, history>>

NoIter == -1
Inside == {"start", "show", "next", "stop"}

TypeOK ==
    /\ life \in {"proc_mkdir", "proc_create", "proc_symlink", "loaded", "rejected", "gone"}
    /\ held \subseteq {"dir", "file", "link"}
    /\ pc \in [Files -> {"closed", "open"} \cup Inside]
    /\ index \in [Files -> 0..Limit]
    /\ spos \in [Files -> {NoIter} \cup 0..Limit]
    /\ iters \in Nat

Init ==
    /\ life = "proc_mkdir" /\ held = {}
    /\ pc = [f \in Files |-> "closed"]
    /\ index = [f \in Files |-> 0] /\ size = [f \in Files |-> 0]
    /\ buf = [f \in Files |-> <<>>] /\ spos = [f \in Files |-> NoIter]
    /\ want = [f \in Files |-> 0] /\ iters = 0
    /\ got = [f \in Files |-> <<>>] /\ eof = [f \in Files |-> FALSE]
    /\ ended = 0 /\ nomem = [f \in Files |-> FALSE] /\ reads = 0

Goto(f, where) == pc' = [pc EXCEPT ![f] = where]

-----------------------------------------------------------------------------
(* ct_init, ct_exit *)

(* free_all: remove_proc_entry waits for the calls inside and closes the    *)
(* file                                                                     *)
FreeAll(next) ==
    /\ "file" \in held => \A f \in Files : pc[f] \notin Inside
    /\ life' = next /\ held' = {}
    /\ pc' = [f \in Files |-> "closed"]
    /\ UNCHANGED <<mVars, iters, history>>

ProcEntry(here, name, next) ==
    /\ life = here
    /\ \/ /\ life' = next /\ held' = held \cup {name}
          /\ UNCHANGED <<pc, mVars, iters, history>>
       \/ FreeAll("rejected")

CtInit ==
    \/ ProcEntry("proc_mkdir", "dir", "proc_create")
    \/ ProcEntry("proc_create", "file", "proc_symlink")
    \/ ProcEntry("proc_symlink", "link", "loaded")

CtExit == life = "loaded" /\ FreeAll("gone")

-----------------------------------------------------------------------------
(* ct_seq_open, ct_seq_release, ct_seq_lseek *)

(* seq_open: a fresh struct seq_file *)
Open(f) ==
    /\ "file" \in held /\ pc[f] = "closed"
    /\ Goto(f, "open")
    /\ index' = [index EXCEPT ![f] = 0]
    /\ \E s \in BufSizes : size' = [size EXCEPT ![f] = s]
    /\ buf' = [buf EXCEPT ![f] = <<>>]
    /\ got' = [got EXCEPT ![f] = <<>>] /\ eof' = [eof EXCEPT ![f] = FALSE]
    /\ nomem' = [nomem EXCEPT ![f] = FALSE]
    /\ UNCHANGED <<life, held, spos, want, iters, ended, reads>>

Release(f) == pc[f] = "open" /\ Goto(f, "closed") /\ UNCHANGED <<life, held, mVars, iters, history>>

(* seq_lseek to 0 *)
Lseek(f) ==
    /\ pc[f] = "open" /\ got[f] # <<>>
    /\ index' = [index EXCEPT ![f] = 0] /\ buf' = [buf EXCEPT ![f] = <<>>]
    /\ got' = [got EXCEPT ![f] = <<>>] /\ eof' = [eof EXCEPT ![f] = FALSE]
    /\ nomem' = [nomem EXCEPT ![f] = FALSE]
    /\ UNCHANGED <<life, held, pc, size, spos, want, iters, ended, reads>>

-----------------------------------------------------------------------------
(* ct_seq_read: seq_read *)

(* copy_to_user of the first bytes of data; the rest stays in the buffer    *)
Deliver(f, data, n) ==
    LET k == IF Len(data) < n THEN Len(data) ELSE n
    IN  /\ buf' = [buf EXCEPT ![f] = SubSeq(data, k + 1, Len(data))]
        /\ got' = [got EXCEPT ![f] = @ \o SubSeq(data, 1, k)]
        /\ want' = [want EXCEPT ![f] = n - k]

(* a read of n bytes: what is left in the buffer comes first, and only if   *)
(* the buffer is empty then are the callbacks asked                         *)
Read(f) ==
    /\ pc[f] = "open" /\ reads < MaxReads
    /\ \E n \in 1..(2 * RecSize) :
        /\ Deliver(f, buf[f], n)
        /\ Goto(f, IF n >= Len(buf[f]) THEN "start" ELSE "open")
    /\ reads' = reads + 1 /\ eof' = [eof EXCEPT ![f] = (buf[f] = <<>>)]
    /\ UNCHANGED <<life, held, index, size, spos, iters, ended, nomem>>

(* Mutant: *spos = *pos is forgotten.                                       *)
StartAtZero(f) ==
    /\ pc[f] = "start"
    /\ \/ /\ index[f] < Limit
          /\ spos' = [spos EXCEPT ![f] = 0] /\ iters' = iters + 1
          /\ Goto(f, "show") /\ UNCHANGED nomem
       \/ /\ index[f] < Limit /\ nomem' = [nomem EXCEPT ![f] = TRUE]
          /\ Goto(f, "stop") /\ UNCHANGED <<spos, iters>>
       \/ /\ index[f] >= Limit
          /\ Goto(f, "stop") /\ UNCHANGED <<spos, iters, nomem>>
    /\ UNCHANGED <<life, held, index, size, buf, want, got, eof, ended, reads>>

(* ct_seq_start: end of file at the limit, and without memory as well       *)
Start(f) ==
    /\ pc[f] = "start"
    /\ \/ /\ index[f] < Limit
          /\ spos' = [spos EXCEPT ![f] = index[f]] /\ iters' = iters + 1
          /\ Goto(f, "show") /\ UNCHANGED nomem
       \/ /\ index[f] < Limit /\ nomem' = [nomem EXCEPT ![f] = TRUE]
          /\ Goto(f, "stop") /\ UNCHANGED <<spos, iters>>
       \/ /\ index[f] >= Limit
          /\ Goto(f, "stop") /\ UNCHANGED <<spos, iters, nomem>>
    /\ UNCHANGED <<life, held, index, size, buf, want, got, eof, ended, reads>>

(* Mutant: nothing is freed.                                                *)
StopKeeps(f) == spos' = [spos EXCEPT ![f] = NoIter] /\ UNCHANGED iters

(* ct_seq_stop frees what it is given, which may be NULL                    *)
Stop(f) ==
    /\ spos' = [spos EXCEPT ![f] = NoIter]
    /\ iters' = IF spos[f] = NoIter THEN iters ELSE iters - 1

(* ct_seq_show adds the record.  If it does not fit, the first record of a  *)
(* read gets a larger buffer and another start, a later one waits for the   *)
(* next read                                                                *)
Show(f) ==
    LET data == buf[f] \o [i \in 1..RecSize |-> spos[f]]
    IN  /\ pc[f] = "show"
        /\ \/ /\ Len(data) <= size[f]
              /\ buf' = [buf EXCEPT ![f] = data] /\ Goto(f, "next")
              /\ UNCHANGED <<size, spos, iters>>
           \/ /\ Len(data) > size[f] /\ buf[f] = <<>>
              /\ Stop(f) /\ size' = [size EXCEPT ![f] = 2 * @]
              /\ Goto(f, "start") /\ UNCHANGED buf
           \/ /\ Len(data) > size[f] /\ buf[f] # <<>>
              /\ Goto(f, "stop") /\ UNCHANGED <<size, spos, iters, buf>>
        /\ UNCHANGED <<life, held, index, want, history>>

(* ct_seq_next: the iterator and the index go on; at the limit it returns   *)
(* NULL, and nobody has the iterator any more                               *)
NextRecord(f) ==
    LET n == spos[f] + 1
    IN  /\ pc[f] = "next"
        /\ index' = [index EXCEPT ![f] = n]
        /\ spos' = [spos EXCEPT ![f] = IF n >= Limit THEN NoIter ELSE n]
        /\ ended' = IF n >= Limit THEN ended + 1 ELSE ended
        /\ Goto(f, IF n >= Limit \/ Len(buf[f]) >= want[f] THEN "stop" ELSE "show")
        /\ UNCHANGED <<life, held, size, buf, want, iters, got, eof, nomem, reads>>

(* the end of seq_read: stop, copy, return                                  *)
Return(f) ==
    /\ pc[f] = "stop"
    /\ Stop(f)
    /\ Deliver(f, buf[f], want[f])
    /\ eof' = [eof EXCEPT ![f] = @ /\ buf[f] = <<>>]
    /\ Goto(f, "open")
    /\ UNCHANGED <<life, held, index, size, ended, nomem, reads>>

Next ==
    \/ CtInit \/ CtExit
    \/ \E f \in Files : \/ Open(f) \/ Release(f) \/ Lseek(f)
                        \/ Read(f) \/ Start(f) \/ Show(f) \/ NextRecord(f) \/ Return(f)

Spec == Init /\ [][Next]_vars

-----------------------------------------------------------------------------
(* Whatever the sizes of the reads and of the buffer, a file delivers the   *)
(* records one after the other, none of them twice, and it ends only after  *)
(* the last of them or when ct_seq_start has had no memory.                 *)
DeliversInOrder ==
    \A f \in Files :
        /\ \A i \in 1..Len(got[f]) : got[f][i] = (i - 1) \div RecSize
        /\ eof[f] /\ pc[f] = "open" => nomem[f] \/ Len(got[f]) = Limit * RecSize

(* An iterator is freed once, and exactly those are never freed that went   *)
(* to the limit: the module leaks one for every pass over the file.         *)
LeaksOnePerPass ==
    /\ TypeOK
    /\ iters = ended + Cardinality({f \in Files : spos[f] # NoIter})
    /\ \A f \in Files : spos[f] # NoIter => pc[f] \in Inside
=============================================================================
