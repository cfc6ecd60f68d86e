-------------------------------- MODULE Vfs --------------------------------
(***************************************************************************)
(* The file system module of 7/vfs/main.c, the one its Makefile builds:    *)
(* myfs_init and myfs_exit statement by statement, and mounts at any time. *)
(***************************************************************************)
EXTENDS FsKernel, Naturals

CONSTANT Number              \* number: the objects taken from the cache

ASSUME NumberAssumption == Number \in Nat \ {0}

VARIABLES
    pc,          \* the statement the module executes next
    held,        \* the table of pointers and the cache, while they exist
    objs         \* objects of the cache in use

mVars == <<held, objs>>
vars == <<kVars, pc, mVars>>

TypeOK ==
    /\ KernelTypeOK
    /\ pc \in {"unloaded", "register", "kmalloc", "create", "alloc", "loaded", "free", "unregister"}
    /\ held \subseteq {"slab", "cache"}
    /\ objs \in 0..Number

Init ==
    /\ KernelInit
    /\ pc = "unloaded" /\ held = {} /\ objs = 0

-----------------------------------------------------------------------------
(* myfs_init *)

Insmod == Running /\ pc = "unloaded" /\ Load /\ pc' = "register" /\ UNCHANGED mVars

(* an error return: insmod frees the module                                 *)
InitFails == pc' = "unloaded" /\ FreeModule(TRUE)

Register ==
    /\ Running /\ pc = "register"
    /\ \/ RegisterFilesystem /\ pc' = "kmalloc" /\ UNCHANGED mVars
       \/ entry = "none" /\ InitFails /\ UNCHANGED mVars
       \/ entry = "stale" /\ Oops("freed text") /\ UNCHANGED <<pc, mVars>>

Kmalloc ==
    /\ Running /\ pc = "kmalloc"
    /\ \/ held' = held \cup {"slab"} /\ pc' = "create" /\ UNCHANGED <<kVars, objs>>
       \/ InitFails /\ UNCHANGED mVars

CacheCreate ==
    /\ Running /\ pc = "create"
    /\ \/ held' = held \cup {"cache"} /\ pc' = "alloc" /\ UNCHANGED <<kVars, objs>>
       \/ InitFails /\ held' = held \ {"slab"} /\ UNCHANGED objs

(* Mutant: the objects allocated so far are not freed.                      *)
CacheAllocLeaks ==
    /\ Running /\ pc = "alloc"
    /\ \/ /\ objs' = objs + 1 /\ UNCHANGED held
          /\ IF objs + 1 < Number THEN UNCHANGED <<kVars, pc>>
             ELSE Becomes("live") /\ pc' = "loaded"
       \/ InitFails /\ UNCHANGED objs /\ held' = {}

(* one round of the loop; a failure frees the objects of the earlier rounds *)
(* and destroys cache and table                                             *)
CacheAlloc ==
    /\ Running /\ pc = "alloc"
    /\ \/ /\ objs' = objs + 1 /\ UNCHANGED held
          /\ IF objs + 1 < Number THEN UNCHANGED <<kVars, pc>>
             ELSE Becomes("live") /\ pc' = "loaded"
       \/ InitFails /\ objs' = 0 /\ held' = {}

-----------------------------------------------------------------------------
(* myfs_exit *)

Rmmod == Running /\ pc = "loaded" /\ DeleteModule /\ pc' = "free" /\ UNCHANGED mVars

ExitFree ==
    /\ Running /\ pc = "free"
    /\ objs' = 0 /\ held' = {}
    /\ pc' = "unregister" /\ UNCHANGED kVars

(* unregister_filesystem; then the kernel frees the module                  *)
ExitUnregister ==
    /\ Running /\ pc = "unregister"
    /\ \/ entry = "listed" /\ UnregisterFilesystem /\ UNCHANGED pc
       \/ entry = "none" /\ FreeModule(FALSE) /\ pc' = "unloaded"
    /\ UNCHANGED mVars

-----------------------------------------------------------------------------
(* mounting *)

Lookup(m) == Running /\ GetFsType(m) /\ UNCHANGED <<pc, mVars>>

(* myfs_mount with my_simple_fill_super: no inode, then mount_nodev kills   *)
(* the super block; no root, then the error path dereferences the null root *)
Mount(m) ==
    /\ Running /\ mount[m] = "found"
    /\ SetMount(m, "mounted") \/ SetMount(m, "none") \/ Oops("no root")
    /\ UNCHANGED <<pc, mVars>>

(* my_kill_block_super, myfs_put_super *)
Umount(m) == Running /\ mount[m] = "mounted" /\ SetMount(m, "none") /\ UNCHANGED <<pc, mVars>>

(* a mount that goes on, or is given up, in text that is gone               *)
UseFreed(m) == Running /\ mount[m] = "stale" /\ Oops("freed text") /\ UNCHANGED <<pc, mVars>>

Next ==
    \/ Insmod \/ Register \/ Kmalloc \/ CacheCreate \/ CacheAlloc
    \/ Rmmod \/ ExitFree \/ ExitUnregister
    \/ \E m \in Mounts : Lookup(m) \/ Mount(m) \/ Umount(m) \/ UseFreed(m)

Spec == Init /\ [][Next]_vars

-----------------------------------------------------------------------------
(* At every statement the module holds exactly what its earlier statements  *)
(* obtained.                                                                *)
HoldsWhatItTook ==
    /\ TypeOK
    /\ "slab" \in held <=> pc \in {"create", "alloc", "loaded", "free"}
    /\ "cache" \in held <=> pc \in {"alloc", "loaded", "free"}
    /\ objs # 0 => pc \in {"alloc", "loaded", "free"}
    /\ pc \in {"loaded", "free"} => objs = Number
    /\ pc = "alloc" => objs < Number

(* However the module came to be unloaded it holds no memory, its cache is  *)
(* destroyed only when all objects are back, and while it is live it has    *)
(* all of them; nothing dangles but for the error paths of myfs_init.       *)
UnloadsClean == HoldsWhatItTook /\ NoDangling
=============================================================================
