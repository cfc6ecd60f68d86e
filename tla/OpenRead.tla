------------------------------ MODULE OpenRead ------------------------------
(***************************************************************************)
(* The programs of 8/open_file/src that read alphabet.txt:                  *)
(*   1.c, 1_thread.c   one descriptor under two stdio streams;              *)
(*   2.c, 2_thread.c   two descriptors.                                     *)
(* 1.c and 2.c read in turn in main, the others in two threads.  The file   *)
(* holds the letters 1..N, unless it does not exist.                        *)
(***************************************************************************)
EXTENDS Naturals, Sequences

CONSTANTS
    N,         \* letters in the file
    BufLen     \* length of a stream's buffer

OpenReadAssumption == N \in Nat \ {0} /\ BufLen \in Nat \ {0}

Programs == {"1", "1_thread", "2", "2_thread"}
Readers == {0, 1}
File == [k \in 1..N |-> k]
Over == {"done", "failed", "crashed"}

VARIABLES
    prog, exists,
    main,      \* what main does
    pc,        \* what each reader does
    flag,      \* was the reader's last read successful
    turn,      \* whose turn it is in main's loop
    pos,       \* f_pos of the open files
    buf,       \* what a stream has read ahead
    c,         \* the letter a reader has read; 0: nothing
    out        \* <<reader, letter>> in the order of output

vars == <<prog, exists, main, pc, flag, turn, pos, buf, c, out>>

Threaded == prog \in {"1_thread", "2_thread"}
Buffered == prog \in {"1", "1_thread"}

(* the open file of a reader, and how much one read asks for *)
OpenFile(i) == IF Buffered THEN 0 ELSE i
Chunk == IF Buffered THEN BufLen ELSE 1

Init ==
    /\ prog \in Programs /\ exists \in BOOLEAN
    /\ main = "open"
    /\ pc = [i \in Readers |-> "none"] /\ flag = [i \in Readers |-> 1]
    /\ turn = 0 /\ pos = [i \in Readers |-> 0] /\ buf = [i \in Readers |-> <<>>]
    /\ c = [i \in Readers |-> 0] /\ out = <<>>

(* open and fdopen; a stream over no descriptor is NULL, and setvbuf fails  *)
Open ==
    /\ main = "open"
    /\ \/ Buffered /\ ~exists /\ main' = "crashed" /\ UNCHANGED pc
       \/ /\ ~(Buffered /\ ~exists)
          /\ IF Threaded THEN main' = "create" /\ UNCHANGED pc
             ELSE main' = "loop" /\ pc' = [i \in Readers |-> "read"]
    /\ UNCHANGED <<prog, exists, flag, turn, pos, buf, c, out>>

(* pthread_create; a failure ends the process *)
Create ==
    /\ main = "create"
    /\ \E i \in Readers :
        /\ pc[i] = "none" /\ (i = 1 => pc[0] # "none")
        /\ \/ pc' = [pc EXCEPT ![i] = "read"] /\ main' = IF i = 1 THEN "join" ELSE main
           \/ main' = "failed" /\ UNCHANGED pc
    /\ UNCHANGED <<prog, exists, flag, turn, pos, buf, c, out>>

(* Mutant: 1.c and 2.c have the same condition, that of 2.c.                *)
LoopHoldsBoth == flag[0] = 1 /\ flag[1] = 1

(* Mutant: 1.c and 2.c have the same condition, that of 1.c.                *)
LoopHoldsOne == flag[0] = 1 \/ flag[1] = 1

(* main's while *)
LoopHolds ==
    IF prog = "1" THEN flag[0] = 1 \/ flag[1] = 1 ELSE flag[0] = 1 /\ flag[1] = 1

Running(i) ==
    /\ main \notin Over
    /\ ~Threaded => main = "loop" /\ turn = i /\ (turn = 0 => LoopHolds)

(* what the reader's stream or descriptor has next *)
Ahead(i) ==
    LET p == pos[OpenFile(i)]
        n == IF p + Chunk < N THEN p + Chunk ELSE N
    IN  IF buf[i] # <<>> THEN buf[i]
        ELSE IF exists THEN SubSeq(File, p + 1, n) ELSE <<>>

(* fscanf or read, with a letter *)
Fscanf(i) ==
    /\ Running(i) /\ pc[i] = "read" /\ Ahead(i) # <<>>
    /\ c' = [c EXCEPT ![i] = Head(Ahead(i))]
    /\ buf' = [buf EXCEPT ![i] = Tail(Ahead(i))]
    /\ pos' = [pos EXCEPT ![OpenFile(i)] =
                  IF buf[i] = <<>> THEN @ + Len(Ahead(i)) ELSE @]
    /\ flag' = [flag EXCEPT ![i] = 1]
    /\ pc' = [pc EXCEPT ![i] = "write"]
    /\ UNCHANGED <<prog, exists, main, turn, out>>

(* fscanf or read without: a thread ends, except that 2_thread.c takes the  *)
(* -1 of a bad descriptor for a letter; 2.c leaves its loop                 *)
Eof(i) ==
    /\ Running(i) /\ pc[i] = "read" /\ Ahead(i) = <<>>
    /\ flag' = [flag EXCEPT ![i] = 0]
    /\ pc' = [pc EXCEPT ![i] = IF ~Threaded THEN @
                               ELSE IF exists THEN "done" ELSE "write"]
    /\ turn' = IF prog = "1" THEN 1 - i ELSE 0
    /\ UNCHANGED <<prog, exists, main, pos, buf, c, out>>

(* fprintf or write; what 2_thread.c prints without a file is not recorded  *)
PrintLetter(i) ==
    /\ Running(i) /\ pc[i] = "write"
    /\ out' = IF exists THEN Append(out, <<i, c[i]>>) ELSE out
    /\ pc' = [pc EXCEPT ![i] = "read"]
    /\ turn' = IF Threaded THEN turn ELSE 1 - i
    /\ UNCHANGED <<prog, exists, main, flag, pos, buf, c>>

(* the end of main's loop, or of both threads *)
Return ==
    /\ \/ main = "loop" /\ turn = 0 /\ pc[0] = "read" /\ ~LoopHolds
       \/ main = "join" /\ \A i \in Readers : pc[i] = "done"
    /\ main' = "done"
    /\ UNCHANGED <<prog, exists, pc, flag, turn, pos, buf, c, out>>

Reader(i) == Fscanf(i) \/ Eof(i) \/ PrintLetter(i)

Next ==
    \/ Open \/ Create \/ Return
    \/ \E i \in Readers : Fscanf(i) \/ Eof(i) \/ PrintLetter(i)

(* A thread that can go on does: the scheduler is fair.                     *)
Fairness ==
    /\ WF_vars(Open \/ Create \/ Return)
    /\ \A i \in Readers : WF_vars(Reader(i))

Spec == Init /\ [][Next]_vars /\ Fairness

-----------------------------------------------------------------------------
TypeOK ==
    /\ prog \in Programs /\ main \in {"open", "create", "loop", "join"} \cup Over
    /\ pc \in [Readers -> {"none", "read", "write", "done"}]
    /\ pos \in [Readers -> 0..N] /\ c \in [Readers -> 0..N]

(* One descriptor under two streams: every letter is printed exactly once,  *)
(* by one of them.  Two descriptors: every letter is printed exactly twice, *)
(* once by each.  In both cases each reader prints in the order of the      *)
(* file, whatever the threads do, and nothing a stream has read ahead is    *)
(* left when the program ends.                                              *)
ReadsAll ==
    /\ TypeOK
    /\ \A j, k \in 1..Len(out) : j < k /\ out[j][1] = out[k][1] => out[j][2] < out[k][2]
    /\ Buffered => \A j, k \in 1..Len(out) : out[j][2] = out[k][2] => j = k
    /\ main = "done" /\ exists => Len(out) = IF Buffered THEN N ELSE 2 * N

(* Every program ends, except 2_thread.c without a file, whose threads take *)
(* the error for a letter for ever.                                         *)
Ends == <>(main \in Over) \/ [](prog = "2_thread" /\ ~exists)
=============================================================================
