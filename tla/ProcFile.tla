------------------------------ MODULE ProcFile ------------------------------
(***************************************************************************)
(* How the kernel calls the operations of a /proc file: every call is      *)
(* counted while it is inside the module, and proc_remove first waits for  *)
(* the calls that are inside and then closes what is still open.           *)
(***************************************************************************)
CONSTANT Readers             \* processes that read the file

VARIABLE reader              \* what each of them is doing

ReaderTypeOK == reader \in [Readers -> {"closed", "open", "inside"}]

ReaderInit == reader = [r \in Readers |-> "closed"]

(* proc_open succeeded *)
FileOpen(r) ==
    /\ reader[r] = "closed"
    /\ reader' = [reader EXCEPT ![r] = "open"]

(* a read has entered the module *)
FileEnter(r) ==
    /\ reader[r] = "open"
    /\ reader' = [reader EXCEPT ![r] = "inside"]

(* ... and leaves it *)
FileLeave(r) ==
    /\ reader[r] = "inside"
    /\ reader' = [reader EXCEPT ![r] = "open"]

(* the last close *)
FileRelease(r) ==
    /\ reader[r] = "open"
    /\ reader' = [reader EXCEPT ![r] = "closed"]

(* proc_remove: waits for the calls inside, closes the file for everybody *)
Rundown ==
    /\ \A r \in Readers : reader[r] # "inside"
    /\ reader' = [r \in Readers |-> "closed"]

NobodyReads == \A r \in Readers : reader[r] = "closed"
=============================================================================
