-------------------------- MODULE MCKernelModules --------------------------
(***************************************************************************)
(* The modules for the kernel that neither use nor disturb one another, in *)
(* one instance for TLC: the two file systems of 7/vfs and the two files   *)
(* of 6/seq_files.  A behaviour is of the one that "which" names; the      *)
(* others stay unloaded.                                                   *)
(***************************************************************************)
EXTENDS Vfs, Integers, TLC

CONSTANTS Files, Limit, RecSize, BufSizes, MaxReads,
          Procs, Size, Texts, Pids, Parent, MaxCalls

VARIABLES
    which,
    myMstate, myEntry, myMount, myFailed, myUp, myPc, myHeld,
    life, fileHeld, filePc, index, size, buf, spos, want, iters,
    got, eof, ended, nomem, reads,
    cookieLife, cookieHeld, cookiePc, cookieUp, cookie, text, k, tgt, par,
    task, refs, parent, alone, last, shown, calls

My == INSTANCE MyVfs WITH mstate <- myMstate, entry <- myEntry, mount <- myMount,
                          failed <- myFailed, up <- myUp, pc <- myPc, held <- myHeld

SeqF == INSTANCE SeqFile WITH held <- fileHeld, pc <- filePc

(* A task and its child.  The texts are a pid with and without its newline, *)
(* both pids, the empty one, one that fills the buffer and one that is one  *)
(* byte too long.                                                           *)
NewLine == -1
Swapper == <<>>
MCTexts == {<<1, NewLine>>, <<1, 2, NewLine>>, <<2, 2, 2>>, <<>>, <<1, 1, 1, 1>>}
MCPids == {<<1>>, <<1, 2>>}
MCParent == (<<1>> :> Swapper) @@ (<<1, 2>> :> <<1>>)

SingleF == INSTANCE SingleFile
    WITH life <- cookieLife, held <- cookieHeld, pc <- cookiePc, up <- cookieUp

ASSUME SeqAssumption == SeqF!SeqFileAssumption
ASSUME SingleAssumption == SingleF!SingleFileAssumption

vfsVars == vars
myVars == <<myMstate, myEntry, myMount, myFailed, myUp, myPc, myHeld>>
seqVars == <<life, fileHeld, filePc, index, size, buf, spos, want, iters,
             got, eof, ended, nomem, reads>>
singleVars == <<cookieLife, cookieHeld, cookiePc, cookieUp, cookie, text, k, tgt, par,
                task, refs, parent, alone, last, shown, calls>>
allVars == <<which, vfsVars, myVars, seqVars, singleVars>>

AllInit ==
    /\ which \in {"vfs", "myvfs", "seq_file", "single_file"}
    /\ Init /\ My!Init /\ SeqF!Init /\ SingleF!Init

VfsStep ==
    /\ which = "vfs" /\ Next
    /\ UNCHANGED <<which, myVars, seqVars, singleVars>>

MyVfsStep ==
    /\ which = "myvfs" /\ My!Next
    /\ UNCHANGED <<which, vfsVars, seqVars, singleVars>>

SeqFileStep ==
    /\ which = "seq_file" /\ SeqF!Next
    /\ UNCHANGED <<which, vfsVars, myVars, singleVars>>

SingleFileStep ==
    /\ which = "single_file" /\ SingleF!Next
    /\ UNCHANGED <<which, vfsVars, myVars, seqVars>>

AllNext == VfsStep \/ MyVfsStep \/ SeqFileStep \/ SingleFileStep

AllSpec == AllInit /\ [][AllNext]_allVars

Symmetry == Permutations(Files) \cup Permutations(Procs)

-----------------------------------------------------------------------------
(* myvfs.c returns its memory however it came to be unloaded, and nothing   *)
(* dangles but for the error paths of my_vfs_init.                          *)
MyUnloadsClean == My!MyUnloadsClean

(* seq_file.c: whatever the sizes of the reads and of the buffer, a file    *)
(* delivers the records one after the other, none of them twice, and ends   *)
(* only after the last or when ct_seq_start has had no memory.              *)
DeliversInOrder == SeqF!DeliversInOrder

(* seq_file.c: an iterator is freed once, and exactly those are never freed *)
(* that went to the limit: one for every pass over the file.                *)
LeaksOnePerPass == SeqF!LeaksOnePerPass

(* single_file.c: a read that meets no write shows the text of the last     *)
(* one, if that had the buffer for itself and did not fail half way.        *)
ShowsLastWrite == SingleF!ShowsLastWrite

(* single_file.c: the task a read shows is held and never gone, its parent  *)
(* may be; the buffer is left only by a write that fills it, is one byte    *)
(* longer, or is empty.                                                     *)
FaultExplained == SingleF!FaultExplained
=============================================================================
