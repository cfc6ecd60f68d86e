----------------------------- MODULE OpenWrite -----------------------------
(***************************************************************************)
(* The programs of 8/open_file/src that write the alphabet to q.txt through *)
(* two descriptors:                                                         *)
(*   2_1.c, 2_1_thread.c   write on O_APPEND descriptors;                   *)
(*   3.c, 3_thread.c       fprintf on two streams, "w" and "w", or "w" and  *)
(*                         "a", which write their buffers when closed.      *)
(* The letters are 1..N, 'a' is 1.  2_1.c and 3.c write in main, the odd    *)
(* letters to the first descriptor; the others in two threads.  PRINT_STAT  *)
(* goes through one statbuf.  No buffer is filled by the alphabet.          *)
(***************************************************************************)
EXTENDS Naturals, Sequences

CONSTANTS N      \* letters of the alphabet

OpenWriteAssumption == N \in Nat \ {0}

Programs == {"2_1", "2_1_thread", "3", "3_thread"}
Fds == {0, 1}
Old == <<0>>                  \* what q.txt may hold before
Over == {"done", "failed"}

VARIABLES
    prog,
    exists, file, before,     \* q.txt, and its content when it was opened
    main,                     \* what main does
    pc, c,                    \* a writer: what it does, its loop variable
    pos, buf,                 \* a descriptor's f_pos, its stream's buffer
    wrote,                    \* the letters given to each descriptor
    st, statbuf, shown        \* st_size: in the kernel, in statbuf, printed

disk == <<exists, file, before>>
statVars == <<st, statbuf, shown>>
vars == <<prog, disk, main, pc, c, pos, buf, wrote, statVars>>

Threaded == prog \in {"2_1_thread", "3_thread"}
Stdio == prog \in {"3", "3_thread"}

(* Mutant: both streams are opened with "w" in 3_thread.c as in 3.c.        *)
AppendsNoStdio(s) == ~Stdio

(* O_APPEND, or "a" *)
Appends(s) == ~Stdio \/ (prog = "3_thread" /\ s = 1)

(* the writer of a letter, and the descriptor it is written to *)
Takes(p, l) == IF Threaded THEN l % 2 = p ELSE p = 0
Fd(p, l) == IF Threaded THEN p ELSE 1 - (l % 2)

Init ==
    /\ prog \in Programs
    /\ \/ exists = TRUE /\ file \in {<<>>, Old}
       \/ exists = FALSE /\ file = <<>>
    /\ before = file /\ main = "open"
    /\ pc = [p \in Fds |-> "none"] /\ c = [p \in Fds |-> 1]
    /\ pos = [s \in Fds |-> 0] /\ buf = [s \in Fds |-> <<>>]
    /\ wrote = [s \in Fds |-> <<>>]
    /\ st = [p \in Fds |-> 0] /\ statbuf = 0 /\ shown = 0

(* both opens and their PRINT_STATs: "w" makes the file, or empties it;     *)
(* without O_CREAT there may be no descriptors                              *)
Open ==
    /\ main = "open"
    /\ exists' = (exists \/ Stdio)
    /\ file' = IF Stdio THEN <<>> ELSE file
    /\ before' = file'
    /\ IF Threaded THEN main' = "create" /\ UNCHANGED <<pc, statVars>>
       ELSE /\ main' = "loop" /\ pc' = [pc EXCEPT ![0] = "loop"]
            /\ statbuf' = Len(file') /\ shown' = statbuf' /\ UNCHANGED st
    /\ UNCHANGED <<prog, c, pos, buf, wrote>>

(* what a flush of stream s makes of the file *)
Flushed(s) ==
    LET n == pos[s] + Len(buf[s])
    IN  IF Appends(s) THEN file \o buf[s]
        ELSE [k \in 1..(IF n > Len(file) THEN n ELSE Len(file)) |->
                IF k > pos[s] /\ k <= n THEN buf[s][k - pos[s]] ELSE file[k]]

(* pthread_create; on a failure exit flushes what the first thread wrote    *)
Create ==
    /\ main = "create"
    /\ \E i \in Fds :
        /\ pc[i] = "none" /\ (i = 1 => pc[0] # "none")
        /\ \/ /\ pc' = [pc EXCEPT ![i] = "loop"]
              /\ main' = IF i = 1 THEN "join" ELSE main
              /\ UNCHANGED <<file, buf>>
           \/ /\ main' = "failed" /\ UNCHANGED pc
              /\ file' = Flushed(0) /\ buf' = [buf EXCEPT ![0] = <<>>]
    /\ UNCHANGED <<prog, exists, before, c, pos, wrote, statVars>>

Running(p) == main \notin Over /\ (Threaded \/ main = "loop")

(* one round of the loop until PRINT_STAT: write, or fprintf to the buffer  *)
Write(p) ==
    /\ Running(p) /\ pc[p] = "loop" /\ c[p] <= N
    /\ c' = [c EXCEPT ![p] = @ + 1]
    /\ LET l == c[p]  s == Fd(p, l)
       IN  IF Takes(p, l)
           THEN /\ pc' = [pc EXCEPT ![p] = "stat"]
                /\ file' = IF exists /\ ~Stdio THEN Append(file, l) ELSE file
                /\ buf' = IF Stdio THEN [buf EXCEPT ![s] = Append(@, l)] ELSE buf
                /\ wrote' = [wrote EXCEPT ![s] = Append(@, l)]
           ELSE UNCHANGED <<pc, file, buf, wrote>>
    /\ UNCHANGED <<prog, exists, before, main, pos, statVars>>

(* PRINT_STAT: stat reads the size, stores it, unless it fails, and what    *)
(* statbuf holds is printed                                                 *)
Stat(p) ==
    /\ Running(p) /\ pc[p] = "stat"
    /\ st' = [st EXCEPT ![p] = Len(file)]
    /\ pc' = [pc EXCEPT ![p] = IF exists THEN "store" ELSE "print"]
    /\ UNCHANGED <<prog, disk, main, c, pos, buf, wrote, statbuf, shown>>

StatStore(p) ==
    /\ Running(p) /\ pc[p] = "store"
    /\ statbuf' = st[p]
    /\ pc' = [pc EXCEPT ![p] = "print"]
    /\ UNCHANGED <<prog, disk, main, c, pos, buf, wrote, st, shown>>

StatPrint(p) ==
    /\ Running(p) /\ pc[p] = "print"
    /\ shown' = statbuf
    /\ pc' = [pc EXCEPT ![p] = "loop"]
    /\ UNCHANGED <<prog, disk, main, c, pos, buf, wrote, st, statbuf>>

(* the loop ends: main goes on to close, a thread returns *)
LoopEnds(p) ==
    /\ Running(p) /\ pc[p] = "loop" /\ c[p] > N
    /\ pc' = [pc EXCEPT ![p] = "done"]
    /\ main' = IF Threaded THEN main ELSE "close0"
    /\ UNCHANGED <<prog, disk, c, pos, buf, wrote, statVars>>

Join ==
    /\ main = "join" /\ \A p \in Fds : pc[p] = "done"
    /\ main' = "close0"
    /\ UNCHANGED <<prog, disk, pc, c, pos, buf, wrote, statVars>>

(* close or fclose, with PRINT_STAT except in 2_1_thread.c; only main runs  *)
Close(s) ==
    /\ main = IF s = 0 THEN "close0" ELSE "close1"
    /\ main' = IF s = 0 THEN "close1" ELSE "done"
    /\ file' = Flushed(s)
    /\ pos' = [pos EXCEPT ![s] = @ + Len(buf[s])]
    /\ buf' = [buf EXCEPT ![s] = <<>>]
    /\ IF prog = "2_1_thread" THEN UNCHANGED statVars
       ELSE statbuf' = Len(file') /\ shown' = statbuf' /\ UNCHANGED st
    /\ UNCHANGED <<prog, exists, before, pc, c, wrote>>

Next ==
    \/ Open \/ Create \/ Join
    \/ \E p \in Fds : Write(p) \/ Stat(p) \/ StatStore(p) \/ StatPrint(p) \/ LoopEnds(p)
    \/ \E s \in Fds : Close(s)

Spec == Init /\ [][Next]_vars

-----------------------------------------------------------------------------
TypeOK ==
    /\ main \in {"open", "create", "loop", "join", "close0", "close1"} \cup Over
    /\ pc \in [Fds -> {"none", "loop", "stat", "store", "print", "done"}]
    /\ c \in [Fds -> 1..(N + 1)] /\ pos \in [Fds -> 0..N]

(* the letters given to s are in the file in the order they were given,     *)
(* and none of them twice                                                   *)
Ordered(s) ==
    \A i, j \in 1..Len(file), k, l \in 1..Len(wrote[s]) :
        i < j /\ file[i] = wrote[s][k] /\ file[j] = wrote[s][l] => k < l

(* With O_APPEND, and with "a" for the stream that is closed last, a file   *)
(* that is there ends with all letters of the alphabet behind what it held, *)
(* each once, and those of one descriptor in their order; with "w" twice    *)
(* the second stream's letters replace the first's: all, or all but the     *)
(* last one.                                                                *)
(* Nothing is in the file before a stream is closed.  The last size printed *)
(* is the size of the file, though threads may print a size that the other  *)
(* has stored: never more than what the file has.                           *)
KeepsEveryLetter ==
    /\ TypeOK
    /\ shown <= Len(file) /\ SubSeq(file, 1, Len(before)) = before
    /\ Stdio /\ main \in {"create", "loop", "join"} => file = <<>>
    /\ main = "done" /\ exists /\ prog # "3" =>
        /\ Len(file) = Len(before) + N
        /\ \A l \in 1..N : \E j \in (Len(before) + 1)..Len(file) : file[j] = l
        /\ \A s \in Fds : Ordered(s)
    /\ main = "done" /\ prog = "3" =>
        file = wrote[1] \o (IF N % 2 = 0 THEN <<>> ELSE <<N>>)
    /\ main = "done" /\ prog # "2_1_thread" => shown = Len(file)

(* The report on 2_1_thread.c, 8/open_file/report/01-text.tex: the first    *)
(* write on fd[0], by the first thread, writes 'a'.                         *)
FirstThreadWritesA ==
    prog = "2_1_thread" /\ wrote[0] # <<>> => Head(wrote[0]) = 1
=============================================================================
