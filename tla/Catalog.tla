------------------------------ MODULE Catalog ------------------------------
(***************************************************************************)
(* 1/catalog/main.c: main counts the files of a tree twice, first with     *)
(* myftw, which keeps one path buffer for all levels of the recursion, and *)
(* then with my_myftw, which changes the current directory.  The recursion *)
(* is a stack of frames.  The tree is any tree over the nodes 1..Size with *)
(* root 1; its directories may be closed for reading or for searching, and *)
(* two files of different directories may have the same name.  The argument *)
(* is any path of the root: a name, ".", "a/b", "/etc", "/".               *)
(***************************************************************************)
EXTENDS Integers, Sequences

CONSTANTS
    Size,        \* files of the tree
    Names,       \* names of files
    NameLen,     \* their lengths
    NameMax,     \* NAME_MAX
    PathAlloc,   \* the length path_alloc allocates
    MaxOpen,     \* directories a process may have open
    Arguments    \* argv[1]: its length, the directory in which the program
                 \* is started, and what ".." of the root is

Nodes == 1..Size
Root == 1
Outer == 0                   \* the directory above the root
Away == -1                   \* any other outside the tree
Missing == Size + 1          \* no file
Walks == {"myftw", "my_myftw"}

(* PATH_MAX is at least 256 and NAME_MAX 255; "/" is its own ".."           *)
ASSUME CatalogAssumption ==
    /\ {Size, NameMax, PathAlloc, MaxOpen} \subseteq Nat \ {0}
    /\ PathAlloc > NameMax
    /\ NameLen \in [Names -> 1..NameMax]
    /\ Arguments \subseteq [len : Nat \ {0}, home : Nodes \cup {Outer, Away}, up : {Outer, Root}]

VARIABLES
    argument,
    parent, name, dirs,      \* the tree
    readable, searchable,    \* its directories' modes
    walk,                    \* which of the two walks main is at
    pc,                      \* what the innermost call does next
    stack,                   \* frames of the calls that read a directory
    ret,
    fullpath,                \* the names on it behind the argument
    strlen, pathlen,         \* the length of it and of its buffer
    arg, cwd,                \* mydopath: filename, and the current directory
    cnt,                     \* how often each file was counted in each walk
    rets,                    \* what the walks returned
    lost,                    \* history: a chdir has failed
    unread                   \* history: directories where readdir has failed

tree == <<argument, parent, name, dirs, readable, searchable>>
pathVars == <<fullpath, strlen, pathlen>>
vars == <<tree, walk, pc, stack, ret, pathVars, arg, cwd, cnt, rets, lost, unread>>

Children(d) == {n \in Nodes : n # Root /\ parent[n] = d}

TypeOK ==
    /\ walk \in Walks \cup {"done", "crashed"}
    /\ pc \in {"start", "call", "read", "return"}
    /\ Len(stack) <= MaxOpen
    /\ ret \in {0, -1}
    /\ cwd \in Nodes \cup {Outer, Away}
    /\ unread \in [Walks -> SUBSET Nodes]

Init ==
    /\ argument \in Arguments
    /\ parent \in [Nodes -> {Outer} \cup Nodes] /\ parent[Root] = argument.up
    /\ \A n \in Nodes \ {Root} : parent[n] \in Nodes /\ parent[n] < n
    /\ name \in [Nodes -> Names]
    /\ \A m, n \in Nodes \ {Root} : parent[m] = parent[n] /\ name[m] = name[n] => m = n
    /\ dirs \in SUBSET Nodes /\ \A n \in Nodes : Children(n) # {} => n \in dirs
    /\ readable \in SUBSET dirs /\ searchable \in SUBSET dirs
    /\ walk = "myftw" /\ pc = "start" /\ stack = <<>> /\ ret = 0
    /\ fullpath = <<>> /\ strlen = 0 /\ pathlen = 0
    /\ arg = name[Root] /\ cwd = argument.home
    /\ cnt = [w \in Walks |-> [n \in Nodes |-> 0]] /\ rets = [w \in Walks |-> 0]
    /\ lost = FALSE /\ unread = [w \in Walks |-> {}]

(* the file a name stands for in a directory, if that may be searched;      *)
(* outside the tree there is none with such a name but the root             *)
InDir(d, nm) ==
    IF d \notin Nodes THEN IF d = Outer /\ nm = name[Root] THEN Root ELSE Missing
    ELSE IF d \in searchable /\ \E c \in Children(d) : name[c] = nm
         THEN CHOOSE c \in Children(d) : name[c] = nm ELSE Missing

(* the file a path stands for, which begins with the argument *)
Resolve(path) ==
    LET at[k \in 0..Len(path)] ==
            IF k = 0 THEN Root
            ELSE IF at[k - 1] = Missing THEN Missing ELSE InDir(at[k - 1], path[k])
    IN  at[Len(path)]

(* a file may be removed before lstat *)
Lstat(n) == {n, Missing}

Opens(n) == n \in readable /\ Len(stack) < MaxOpen

Top == stack[Len(stack)]
Pop == stack' = SubSeq(stack, 1, Len(stack) - 1)
Push(frame) == stack' = Append(stack, frame)

(* a frame: its directory, the names and n of dopath, the entries not yet   *)
(* read                                                                     *)
Frame(d) == [dir |-> d, names |-> Len(fullpath), n |-> strlen + 1, todo |-> Children(d)]

Reads(c) == stack' = [stack EXCEPT ![Len(stack)].todo = @ \ {c}]

(* readdir returns NULL at the end of the directory, and on an error, which *)
(* is not told apart                                                        *)
NoMore ==
    unread' = [unread EXCEPT ![walk] = IF Top.todo = {} THEN @ ELSE @ \cup {Top.dir}]

Returns(r) == ret' = r /\ pc' = "return"

Counted(w, n) == cnt' = [cnt EXCEPT ![w][n] = @ + 1]

-----------------------------------------------------------------------------
(* myftw, dopath, myfunc *)

(* path_alloc and strcpy; the argument may be longer than what path_alloc   *)
(* gives, and without memory strcpy writes to NULL                          *)
Myftw ==
    /\ walk = "myftw" /\ pc = "start"
    /\ \/ /\ strlen' = argument.len
          /\ pathlen' = IF PathAlloc <= argument.len THEN 2 * argument.len ELSE PathAlloc
          /\ pc' = "call" /\ UNCHANGED <<walk, fullpath>>
       \/ walk' = "crashed" /\ UNCHANGED <<pathVars, pc>>
    /\ UNCHANGED <<tree, stack, ret, arg, cwd, cnt, rets, lost, unread>>

(* the length of the buffer before a slash and a name are added             *)
Grow(n) == IF n + NameMax + 2 > pathlen THEN 2 * pathlen ELSE pathlen

(* dopath until its loop; an error makes myfunc return -1, a failed realloc *)
(* makes dopath write to NULL                                               *)
DopathCall ==
    /\ walk = "myftw" /\ pc = "call"
    /\ \E n \in Lstat(Resolve(fullpath)) :
        \/ /\ n = Missing
           /\ Returns(-1) /\ UNCHANGED <<walk, stack, strlen, pathlen, cnt>>
        \/ /\ n \in Nodes \ dirs
           /\ Counted("myftw", n)
           /\ Returns(0) /\ UNCHANGED <<walk, stack, strlen, pathlen>>
        \/ /\ n \in dirs
           /\ Counted("myftw", n)
           /\ pathlen' = Grow(strlen) /\ strlen' = strlen + 1
           /\ \/ Opens(n) /\ Push(Frame(n)) /\ pc' = "read" /\ UNCHANGED ret
              \/ ~Opens(n) /\ Returns(-1) /\ UNCHANGED stack
           /\ UNCHANGED walk
        \/ /\ n \in dirs /\ Grow(strlen) # pathlen
           /\ Counted("myftw", n)
           /\ walk' = "crashed" /\ UNCHANGED <<pc, stack, ret, strlen, pathlen>>
    /\ UNCHANGED <<tree, fullpath, arg, cwd, rets, lost, unread>>

(* Mutant: the name goes to the end of the path.                            *)
DopathReadAppends ==
    /\ walk = "myftw" /\ pc = "read"
    /\ \E c \in Top.todo :
        /\ fullpath' = Append(fullpath, name[c])
        /\ strlen' = strlen + NameLen[name[c]]
        /\ Reads(c) /\ pc' = "call"
    /\ UNCHANGED <<tree, walk, ret, pathlen, arg, cwd, cnt, rets, lost, unread>>

(* readdir, and the name behind the slash of this level                     *)
DopathRead ==
    /\ walk = "myftw" /\ pc = "read"
    /\ \E c \in Top.todo :
        /\ fullpath' = Append(SubSeq(fullpath, 1, Top.names), name[c])
        /\ strlen' = Top.n + NameLen[name[c]]
        /\ Reads(c) /\ pc' = "call"
    /\ UNCHANGED <<tree, walk, ret, pathlen, arg, cwd, cnt, rets, lost, unread>>

(* readdir's NULL, or an error: the path is cut                             *)
DopathLeave ==
    /\ walk = "myftw"
    /\ \/ pc = "read" /\ NoMore
       \/ pc = "return" /\ ret # 0 /\ stack # <<>> /\ UNCHANGED unread
    /\ fullpath' = SubSeq(fullpath, 1, Top.names) /\ strlen' = Top.n - 1
    /\ Pop /\ pc' = "return"
    /\ UNCHANGED <<tree, walk, ret, pathlen, arg, cwd, cnt, rets, lost>>

-----------------------------------------------------------------------------
(* my_myftw, mydopath, counter *)

(* whether chdir succeeds is not tested                                     *)
Chdir(d, ok) ==
    /\ cwd' = IF ok THEN d ELSE cwd
    /\ lost' = (lost \/ ~ok)

(* mydopath until its loop; the argument is a path of the root              *)
MydopathCall ==
    /\ walk = "my_myftw" /\ pc = "call"
    /\ \E n \in Lstat(IF stack = <<>> THEN Root ELSE InDir(cwd, arg)) :
        \/ /\ n = Missing
           /\ Returns(-1) /\ UNCHANGED <<stack, cwd, cnt, lost>>
        \/ /\ n \in Nodes \ dirs
           /\ Counted("my_myftw", n)
           /\ Returns(0) /\ UNCHANGED <<stack, cwd, lost>>
        \/ /\ n \in dirs
           /\ Counted("my_myftw", n)
           /\ \/ /\ Opens(n) /\ Push(Frame(n)) /\ pc' = "read"
                 /\ Chdir(n, n \in searchable)
                 /\ UNCHANGED ret
              \/ ~Opens(n) /\ Returns(-1) /\ UNCHANGED <<stack, cwd, lost>>
    /\ UNCHANGED <<tree, walk, pathVars, arg, rets, unread>>

MydopathRead ==
    /\ walk = "my_myftw" /\ pc = "read" /\ ret = 0
    /\ \E c \in Top.todo : arg' = name[c] /\ Reads(c) /\ pc' = "call"
    /\ UNCHANGED <<tree, walk, ret, pathVars, cwd, cnt, rets, lost, unread>>

(* what ".." is, and whether the process may enter it                       *)
Above(d) == IF d \in Nodes THEN {parent[d]} ELSE {Outer, Away}
Enters(d) == IF d \in Nodes THEN {{cwd, d} \subseteq searchable} ELSE BOOLEAN

(* chdir("..") on every way out of the loop                                 *)
MydopathLeave ==
    /\ walk = "my_myftw" /\ pc = "read"
    /\ \/ ret # 0 /\ UNCHANGED unread
       \/ ret = 0 /\ NoMore
    /\ \E d \in Above(cwd) : \E ok \in Enters(d) : Chdir(d, ok)
    /\ Pop /\ pc' = "return"
    /\ UNCHANGED <<tree, walk, ret, pathVars, arg, cnt, rets>>

-----------------------------------------------------------------------------
(* Mutant: the loop goes on after an error and forgets it.                  *)
ReturnToLoopForgets ==
    /\ pc = "return" /\ stack # <<>> /\ (walk = "myftw" => ret = 0)
    /\ pc' = "read" /\ ret' = 0
    /\ UNCHANGED <<tree, walk, stack, pathVars, arg, cwd, cnt, rets, lost, unread>>

(* a call returns to the loop that made it; dopath has left it on an error  *)
ReturnToLoop ==
    /\ pc = "return" /\ stack # <<>> /\ (walk = "myftw" => ret = 0)
    /\ pc' = "read"
    /\ UNCHANGED <<tree, walk, stack, ret, pathVars, arg, cwd, cnt, rets, lost, unread>>

(* main: the other walk, with the same argument, or the end                 *)
WalkEnds ==
    /\ walk \in Walks /\ pc = "return" /\ stack = <<>>
    /\ rets' = [rets EXCEPT ![walk] = ret] /\ ret' = 0
    /\ walk' = IF walk = "myftw" THEN "my_myftw" ELSE "done"
    /\ pc' = IF walk = "myftw" THEN "call" ELSE "return"
    /\ UNCHANGED <<tree, stack, pathVars, arg, cwd, cnt, lost, unread>>

Next ==
    \/ Myftw \/ DopathCall \/ DopathRead \/ DopathLeave
    \/ MydopathCall \/ MydopathRead \/ MydopathLeave
    \/ ReturnToLoop \/ WalkEnds

Spec == Init /\ [][Next]_vars

-----------------------------------------------------------------------------
Ended(w) == walk = "done" \/ (w = "myftw" /\ walk = "my_myftw")

(* No file is counted twice, whatever fails, and a walk that returns 0 has  *)
(* counted every file of the tree but those below a directory where readdir *)
(* has failed: that error is the only one it does not return.  After a      *)
(* failed chdir my_myftw promises nothing.                                  *)
CountsOnce ==
    /\ TypeOK
    /\ \A w \in Walks : ~(w = "my_myftw" /\ lost) =>
        /\ \A n \in Nodes : cnt[w][n] <= 1
        /\ Ended(w) /\ rets[w] = 0 =>
            \A n \in Nodes : cnt[w][n] = 0 =>
                n # Root /\ (cnt[w][parent[n]] = 0 \/ parent[n] \in unread[w])

(* In every frame the path, cut to the names of the frame, leads to the     *)
(* frame's directory, and the buffer holds the path; the current directory  *)
(* is that of the innermost frame.  A walk of dopath ends with the path it  *)
(* began with.  One of mydopath ends in the directory above the argument's, *)
(* which is that of the beginning only if the argument is a name in it, or  *)
(* stays there if it has not opened the argument - but for a failed chdir,  *)
(* after which it goes on, and ends, in other directories.                  *)
InPlace ==
    /\ pc # "start" => strlen + 1 <= pathlen
    /\ \A i \in 1..Len(stack) :
        walk = "myftw" => Resolve(SubSeq(fullpath, 1, stack[i].names)) = stack[i].dir
    /\ walk = "my_myftw" /\ stack # <<>> /\ ~lost => cwd = Top.dir
    /\ walk \in {"my_myftw", "done"} => fullpath = <<>>
    /\ walk = "done" /\ ~lost =>
        cwd = IF Root \in readable /\ cnt["my_myftw"][Root] = 1 THEN argument.up ELSE argument.home
=============================================================================
