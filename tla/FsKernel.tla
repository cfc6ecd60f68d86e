------------------------------ MODULE FsKernel ------------------------------
(***************************************************************************)
(* What the kernel keeps of a file system module: the state of the module, *)
(* the entry of its file_system_type in the list of file systems, and its  *)
(* mounts.  A mount holds a reference to the module, but only rmmod asks   *)
(* for references: an init function that fails frees the module whatever   *)
(* still points into it.                                                   *)
(***************************************************************************)
CONSTANT Mounts              \* mount points, all of this file system

VARIABLES
    mstate,      \* state of the module; "freed" also before the first insmod
    entry,       \* the entry in the list: "stale" if it is in freed memory
    mount,       \* what happens at each mount point
    failed,      \* history: an init failed with the entry in the list
    up           \* "running", or how the kernel came to its end

kVars == <<mstate, entry, mount, failed, up>>

KernelTypeOK ==
    /\ mstate \in {"coming", "live", "going", "freed"}
    /\ entry \in {"none", "listed", "stale"}
    /\ mount \in [Mounts -> {"none", "found", "mounted", "stale"}]
    /\ failed \in BOOLEAN
    /\ up \in {"running", "freed text", "no root", "double put", "free of NULL"}

KernelInit ==
    /\ mstate = "freed" /\ entry = "none" /\ failed = FALSE
    /\ mount = [m \in Mounts |-> "none"]
    /\ up = "running"

Running == up = "running"

Oops(how) == up' = how /\ UNCHANGED <<mstate, entry, mount, failed>>

Becomes(state) == mstate' = state /\ UNCHANGED <<entry, mount, failed, up>>

SetMount(m, what) ==
    /\ mount' = [mount EXCEPT ![m] = what]
    /\ UNCHANGED <<mstate, entry, failed, up>>

(* insmod has loaded the text and calls the init function                   *)
Load == mstate = "freed" /\ Becomes("coming")

(* the text goes; what still points at it is stale from now on              *)
FreeModule(initFailed) ==
    /\ mstate' = "freed"
    /\ entry' = IF entry = "listed" THEN "stale" ELSE entry
    /\ mount' = [m \in Mounts |-> IF mount[m] = "none" THEN "none" ELSE "stale"]
    /\ failed' = (failed \/ (initFailed /\ entry = "listed"))
    /\ UNCHANGED up

(* register_filesystem has walked the list and appended the entry           *)
RegisterFilesystem ==
    /\ entry = "none"
    /\ entry' = "listed" /\ UNCHANGED <<mstate, mount, failed, up>>

UnregisterFilesystem == entry' = "none" /\ UNCHANGED <<mstate, mount, failed, up>>

(* delete_module: only without references                                   *)
DeleteModule ==
    /\ mstate = "live" /\ \A m \in Mounts : mount[m] \in {"none", "stale"}
    /\ Becomes("going")

(* get_fs_type, by mount: finds the entry and takes a reference, which a    *)
(* module that is going refuses                                             *)
GetFsType(m) ==
    /\ mount[m] = "none"
    /\ \/ entry = "stale" /\ Oops("freed text")
       \/ entry = "listed" /\ mstate \in {"coming", "live"} /\ SetMount(m, "found")

-----------------------------------------------------------------------------
(* While a file system is mounted, or its entry is in the list, its module  *)
(* is there - unless an init failed after register_filesystem, which none   *)
(* of its error paths undoes.                                               *)
NoDangling ==
    \/ failed
    \/ /\ entry # "stale" /\ \A m \in Mounts : mount[m] # "stale"
       /\ up # "freed text"
       /\ mstate = "freed" => entry = "none" /\ \A m \in Mounts : mount[m] = "none"
=============================================================================
