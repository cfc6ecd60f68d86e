------------------------------- MODULE MyVfs -------------------------------
(***************************************************************************)
(* The other file system module, 7/vfs/myvfs.c: one object in the cache,   *)
(* and error paths of its own.                                             *)
(***************************************************************************)
EXTENDS FsKernel

VARIABLES
    pc,          \* the statement the module executes next
    held         \* the memory it holds

vars == <<kVars, pc, held>>

TypeOK ==
    /\ KernelTypeOK
    /\ pc \in {"unloaded", "register", "kmalloc", "create", "alloc", "loaded", "exit"}
    /\ held \subseteq {"area", "cache", "object"}

Init == KernelInit /\ pc = "unloaded" /\ held = {}

-----------------------------------------------------------------------------
(* my_vfs_init *)

Insmod == Running /\ pc = "unloaded" /\ Load /\ pc' = "register" /\ UNCHANGED held

Register ==
    /\ Running /\ pc = "register"
    /\ \/ RegisterFilesystem /\ pc' = "kmalloc"
       \/ entry = "none" /\ FreeModule(TRUE) /\ pc' = "unloaded"
       \/ entry = "stale" /\ Oops("freed text") /\ UNCHANGED pc
    /\ UNCHANGED held

(* kmalloc, kmem_cache_create; an error frees what there is and returns     *)
Obtain(here, what, next) ==
    /\ Running /\ pc = here
    /\ \/ held' = held \cup {what} /\ pc' = next /\ UNCHANGED kVars
       \/ held' = {} /\ pc' = "unloaded" /\ FreeModule(TRUE)

(* kmem_cache_alloc; its error path first frees the object it did not get,  *)
(* which the allocator may survive                                          *)
CacheAlloc ==
    /\ Running /\ pc = "alloc"
    /\ \/ held' = held \cup {"object"} /\ pc' = "loaded" /\ Becomes("live")
       \/ Oops("free of NULL") /\ UNCHANGED <<pc, held>>
       \/ held' = {} /\ pc' = "unloaded" /\ FreeModule(TRUE)

-----------------------------------------------------------------------------
(* my_vfs_exit *)

Rmmod == Running /\ pc = "loaded" /\ DeleteModule /\ pc' = "exit" /\ UNCHANGED held

(* Mutant: the module goes before the entry is taken out of the list.       *)
ExitEarly ==
    /\ Running /\ pc = "exit"
    /\ \/ held # {} /\ held' = {} /\ UNCHANGED <<kVars, pc>>
       \/ held = {} /\ FreeModule(FALSE) /\ pc' = "unloaded" /\ UNCHANGED held

(* the memory first, then unregister_filesystem; then the module is freed   *)
Exit ==
    /\ Running /\ pc = "exit"
    /\ \/ held # {} /\ held' = {} /\ UNCHANGED <<kVars, pc>>
       \/ held = {} /\ entry = "listed" /\ UnregisterFilesystem /\ UNCHANGED <<pc, held>>
       \/ held = {} /\ entry = "none" /\ FreeModule(FALSE) /\ pc' = "unloaded" /\ UNCHANGED held

-----------------------------------------------------------------------------
(* mounting *)

Lookup(m) == Running /\ GetFsType(m) /\ UNCHANGED <<pc, held>>

(* my_vfs_mount: my_vfs_make_inode fails, or all goes well *)
Mount(m) ==
    /\ Running /\ mount[m] = "found"
    /\ SetMount(m, "none") \/ SetMount(m, "mounted")
    /\ UNCHANGED <<pc, held>>

(* d_make_root failed and has put the inode; my_vfs_fill_sb puts it again   *)
NoRoot(m) ==
    /\ Running /\ mount[m] = "found"
    /\ Oops("double put") /\ UNCHANGED <<pc, held>>

(* my_kill_litter_super, my_vfs_put_super *)
Umount(m) == Running /\ mount[m] = "mounted" /\ SetMount(m, "none") /\ UNCHANGED <<pc, held>>

(* a mount that goes on, or is given up, in text that is gone               *)
UseFreed(m) == Running /\ mount[m] = "stale" /\ Oops("freed text") /\ UNCHANGED <<pc, held>>

Next ==
    \/ Insmod \/ Register
    \/ Obtain("kmalloc", "area", "create") \/ Obtain("create", "cache", "alloc") \/ CacheAlloc
    \/ Rmmod \/ Exit
    \/ \E m \in Mounts : Lookup(m) \/ Mount(m) \/ NoRoot(m) \/ Umount(m) \/ UseFreed(m)

Spec == Init /\ [][Next]_vars

-----------------------------------------------------------------------------
(* However the module came to be unloaded it holds no memory, and while it  *)
(* is live it has all of it; nothing dangles but for the error paths of     *)
(* my_vfs_init.                                                             *)
MyUnloadsClean ==
    /\ TypeOK
    /\ mstate = "freed" => held = {}
    /\ mstate = "live" => held = {"area", "cache", "object"}
    /\ NoDangling
=============================================================================
