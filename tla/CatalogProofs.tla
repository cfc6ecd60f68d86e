---------------------------- MODULE CatalogProofs ----------------------------
(***************************************************************************)
(* Machine-checked proofs about Catalog, for every tree and every size of  *)
(* it, every argument and all names of at most NAME_MAX bytes: neither     *)
(* walk counts a file twice, a walk that returns 0 has counted all that    *)
(* readdir has given (CountsOnce), and the path and the current directory  *)
(* are those of the innermost call (InPlace).                              *)
(***************************************************************************)
EXTENDS Catalog, NumberLemmas, TLAPS

Frames == [dir : Nodes, names : Nat, n : Nat \ {0}, todo : SUBSET Nodes]

(* the directory a file is called in; the root is called by main           *)
Start == 0
Dir == [n \in Nodes |-> IF n = Root THEN Start ELSE parent[n]]

(* the tree, as it is from the beginning to the end                         *)
TreeInv ==
    /\ argument \in Arguments
    /\ parent \in [Nodes -> {Outer} \cup Nodes] /\ parent[Root] = argument.up
    /\ \A n \in Nodes \ {Root} : parent[n] \in Nodes /\ parent[n] < n
    /\ name \in [Nodes -> Names]
    /\ \A m, n \in Nodes \ {Root} : parent[m] = parent[n] /\ name[m] = name[n] => m = n
    /\ dirs \in SUBSET Nodes /\ \A n \in Nodes : Children(n) # {} => n \in dirs
    /\ readable \in SUBSET dirs /\ searchable \in SUBSET dirs

CatalogTypes ==
    /\ TypeOK
    /\ stack \in Seq(Frames)
    /\ fullpath \in Seq(Names) /\ strlen \in Nat /\ pathlen \in Nat /\ arg \in Names
    /\ cnt \in [Walks -> [Nodes -> Nat]] /\ rets \in [Walks -> {0, -1}]
    /\ lost \in BOOLEAN

(* the directory of the innermost frame, and the name the next call is for  *)
Here == IF stack = <<>> THEN Start ELSE Top.dir
Word == IF walk = "myftw" THEN fullpath[Len(fullpath)] ELSE arg

(* the file that is called                                                  *)
Called(n) == pc = "call" /\ Dir[n] = Here /\ (n # Root => name[n] = Word)

(* A frame's directory is an entry of the one below that has been read.     *)
StackInv ==
    /\ \A i, j \in 1..Len(stack) : i < j => stack[i].dir < stack[j].dir
    /\ \A i \in 1..Len(stack) :
        /\ \A c \in stack[i].todo : c # Root /\ Dir[c] = stack[i].dir
        /\ Dir[stack[i].dir] = IF i = 1 THEN Start ELSE stack[i - 1].dir

(* What is called is a file of the tree that has been read.                 *)
CallInv ==
    pc = "call" => /\ ret = 0
                   /\ \E n \in Nodes : Called(n) /\ (stack # <<>> => n \notin Top.todo)

OnStack(d) == \E i \in 1..Len(stack) : stack[i].dir = d

(* Unless something has failed: a directory that is not counted hides what  *)
(* is in it, one that is left is counted with all that readdir has given,   *)
(* and of one that is being read the entries are counted that have been     *)
(* read.                                                                    *)
CountInv(w) ==
    /\ cnt[w][Root] = 0 <=> Called(Root)
    /\ \A n \in Nodes \ {Root} :
        /\ cnt[w][Dir[n]] = 0 => cnt[w][n] = 0
        /\ cnt[w][Dir[n]] = 1 /\ ~OnStack(Dir[n]) => cnt[w][n] = 1 \/ Dir[n] \in unread[w]
        /\ \A i \in 1..Len(stack) : stack[i].dir = Dir[n] =>
               (cnt[w][n] = 0 <=> n \in stack[i].todo \/ Called(n))
    /\ \A i \in 1..Len(stack) : cnt[w][stack[i].dir] = 1

AtMostOnce(w) == \A n \in Nodes : cnt[w][n] \in {0, 1}
NoneYet(w) == \A n \in Nodes : cnt[w][n] = 0

OnceInv == AtMostOnce("myftw") /\ (~lost => AtMostOnce("my_myftw"))

(* how far main has come                                                    *)
StageInv ==
    /\ pc = "start" =>
           /\ walk \in {"myftw", "crashed"} /\ stack = <<>> /\ ret = 0 /\ NoneYet("myftw")
           /\ fullpath = <<>>
    /\ walk = "myftw" => /\ ~lost /\ arg = name[Root] /\ NoneYet("my_myftw")
                         /\ cwd = argument.home
    /\ pc = "read" => stack # <<>> /\ (walk = "myftw" => ret = 0)
    /\ walk = "done" => stack = <<>>

(* the walk that goes on                                                    *)
WalkInv ==
    walk \in Walks /\ ~lost => /\ StackInv /\ CallInv
                               /\ pc # "start" /\ ret = 0 => CountInv(walk)

(* What is not counted is in a directory that is not counted, or that       *)
(* readdir has not given to its end.                                        *)
AllGiven(w) ==
    \A n \in Nodes : cnt[w][n] = 0 =>
        n # Root /\ (cnt[w][parent[n]] = 0 \/ parent[n] \in unread[w])

(* the walks that have ended                                                *)
EndInv ==
    \A w \in Walks : ~(w = "my_myftw" /\ lost) /\ Ended(w) /\ rets[w] = 0 => AllGiven(w)

(* The path: a name for each frame but the first, and one name more when a  *)
(* call is made and when it returns.                                        *)
PathInv ==
    /\ walk = "myftw" /\ pc # "start" =>
        /\ pc \in {"call", "return"} => Len(fullpath) = Len(stack)
        /\ Len(fullpath) + 1 >= Len(stack)
        /\ \A i \in 1..Len(stack) :
            /\ stack[i].names = i - 1
            /\ i > 1 => /\ fullpath[i - 1] = name[stack[i].dir]
                        /\ stack[i - 1].dir \in searchable
    /\ walk \in {"my_myftw", "done"} => fullpath = <<>>

(* The buffer holds the path and its 0, and a slash and a name behind the   *)
(* path of each frame.                                                      *)
BufferInv ==
    /\ pc # "start" => strlen + 1 <= pathlen
    /\ walk = "myftw" /\ pc # "start" => NameMax + 1 <= pathlen
    /\ walk = "myftw" => \A i \in 1..Len(stack) : stack[i].n + NameMax + 1 <= pathlen

(* where my_myftw is: it has left the root upwards if it had entered it     *)
Entered == Root \in readable /\ cnt["my_myftw"][Root] = 1

CwdInv ==
    walk \in {"my_myftw", "done"} /\ ~lost =>
        /\ stack # <<>> => Entered /\ cwd = Top.dir
        /\ stack = <<>> => cwd = IF Entered THEN argument.up ELSE argument.home

CatalogInv ==
    /\ TreeInv /\ CatalogTypes /\ OnceInv /\ StageInv
    /\ WalkInv /\ EndInv /\ PathInv /\ BufferInv /\ CwdInv

-----------------------------------------------------------------------------
(* the tree *)

\* The constants, and that no node is Start, outside the tree or Missing.
LEMMA Numbers ==
  /\ Size \in Nat \ {0} /\ NameMax \in Nat \ {0} /\ PathAlloc \in Nat \ {0} /\ MaxOpen \in Nat \ {0}
  /\ PathAlloc > NameMax /\ NameLen \in [Names -> 1..NameMax]
  /\ Nodes \subseteq Nat \ {0} /\ Root \in Nodes
  /\ Start \notin Nodes /\ Missing \notin Nodes /\ Missing # Start
  /\ Outer \notin Nodes /\ Away \notin Nodes
<1>1. Size \in Nat \ {0} /\ NameMax \in Nat \ {0} /\ PathAlloc \in Nat \ {0} /\ MaxOpen \in Nat \ {0}
      /\ PathAlloc > NameMax /\ NameLen \in [Names -> 1..NameMax]
  BY CatalogAssumption
<1> QED
  BY <1>1 DEF Nodes, Root, Start, Missing, Outer, Away

\* What the arguments are.
LEMMA ArgumentFacts ==
  ASSUME NEW a \in Arguments
  PROVE  a.len \in Nat \ {0} /\ a.home \in Nodes \cup {Outer, Away} /\ a.up \in Nodes \cup {Outer}
<1>1. a \in [len : Nat \ {0}, home : Nodes \cup {Outer, Away}, up : {Outer, Root}]
  BY CatalogAssumption
<1> QED
  BY <1>1, Numbers

\* Every file but the root is in a directory of the tree.
LEMMA ParentFacts ==
  ASSUME TreeInv, NEW n \in Nodes
  PROVE  /\ Dir[n] < n /\ Dir[n] # n
         /\ n = Root <=> Dir[n] = Start
         /\ n # Root => /\ Dir[n] = parent[n] /\ Dir[n] \in dirs /\ Dir[n] \in Nodes
                        /\ n \in Children(Dir[n])
         /\ \A c \in Children(n) : c \in Nodes /\ c # Root /\ Dir[c] = n
<1>1. n # Root => parent[n] \in Nodes /\ parent[n] < n
  BY DEF TreeInv
<1>2. Dir[n] = IF n = Root THEN Start ELSE parent[n]
  BY DEF Dir
<1>3. n \in Nat \ {0} /\ Start = 0 /\ Start \notin Nodes
  BY Numbers DEF Start
<1>4. Dir[n] < n /\ Dir[n] # n
  <2>1. CASE n = Root
    BY <1>2, <1>3, <2>1
  <2>2. CASE n # Root
    BY <1>1, <1>2, <1>3, <2>2, Numbers
  <2> QED
    BY <2>1, <2>2
<1>5. n = Root <=> Dir[n] = Start
  BY <1>1, <1>2, <1>3
<1>6. n # Root => n \in Children(parent[n])
  BY DEF Children
<1>7. n # Root => parent[n] \in dirs
  BY <1>1, <1>6 DEF TreeInv
<1>8. \A c \in Children(n) : c \in Nodes /\ c # Root /\ Dir[c] = n
  BY DEF Children, Dir
<1> QED
  BY <1>1, <1>2, <1>4, <1>5, <1>6, <1>7, <1>8

\* Names are unique in a directory: a lookup finds the file or, where
\* searching is forbidden, nothing.
LEMMA InDirFinds ==
  ASSUME TreeInv, NEW n \in Nodes, n # Root
  PROVE  InDir(Dir[n], name[n]) = IF Dir[n] \in searchable THEN n ELSE Missing
<1>1. Dir[n] \in Nodes /\ n \in Children(Dir[n])
  BY ParentFacts
<1>2. ASSUME NEW c \in Children(Dir[n]), name[c] = name[n] PROVE c = n
  <2>1. c \in Nodes \ {Root} /\ parent[c] = parent[n]
    BY ParentFacts DEF Children
  <2> QED
    BY <1>2, <2>1 DEF TreeInv
<1>3. (CHOOSE c \in Children(Dir[n]) : name[c] = name[n]) = n
  BY <1>1, <1>2
<1> QED
  BY <1>1, <1>3 DEF InDir

-----------------------------------------------------------------------------
(* sequences *)

\* A sequence without elements is empty.
LEMMA EmptySeq ==
  ASSUME NEW T, NEW s \in Seq(T)
  PROVE  /\ Len(s) \in Nat
         /\ Len(s) = 0 <=> s = <<>>
  OBVIOUS

\* The front of a sequence.
LEMMA FrontFacts ==
  ASSUME NEW T, NEW s \in Seq(T), NEW k \in 0..Len(s)
  PROVE  /\ SubSeq(s, 1, k) \in Seq(T)
         /\ Len(SubSeq(s, 1, k)) = k
         /\ \A i \in 1..k : SubSeq(s, 1, k)[i] = s[i]
  OBVIOUS

\* An element put behind a sequence.
LEMMA AppendFacts ==
  ASSUME NEW T, NEW s \in Seq(T), NEW e \in T
  PROVE  /\ Append(s, e) \in Seq(T)
         /\ Len(Append(s, e)) = Len(s) + 1
         /\ Append(s, e)[Len(s) + 1] = e
         /\ \A i \in 1..Len(s) : Append(s, e)[i] = s[i]
         /\ Append(s, e) # <<>>
  OBVIOUS

\* A front of a sequence is a shorter one and an element.
LEMMA FrontStep ==
  ASSUME NEW T, NEW s \in Seq(T), NEW k \in 1..Len(s)
  PROVE  SubSeq(s, 1, k) = Append(SubSeq(s, 1, k - 1), s[k])
<1>1. k - 1 \in 0..Len(s) /\ k \in 0..Len(s) /\ s[k] \in T
  OBVIOUS
<1> DEFINE a == SubSeq(s, 1, k)
           p == SubSeq(s, 1, k - 1)
           b == Append(p, s[k])
<1>2. a \in Seq(T) /\ Len(a) = k /\ \A i \in 1..k : a[i] = s[i]
  BY <1>1, FrontFacts
<1>3. p \in Seq(T) /\ Len(p) = k - 1 /\ \A i \in 1..(k - 1) : p[i] = s[i]
  BY <1>1, FrontFacts
<1>4. b \in Seq(T) /\ Len(b) = (k - 1) + 1 /\ b[(k - 1) + 1] = s[k] /\ \A i \in 1..(k - 1) : b[i] = p[i]
  BY <1>1, <1>3, AppendFacts
<1> HIDE DEF a, b, p
<1>5. Len(b) = k /\ b[k] = s[k]
  BY <1>4
<1>6. ASSUME NEW i \in 1..k PROVE a[i] = b[i]
  <2>1. CASE i = k
    BY <1>2, <1>5, <2>1
  <2>2. CASE i # k
    <3>1. i \in 1..(k - 1)
      BY <2>2
    <3> QED
      BY <1>2, <1>3, <1>4, <3>1
  <2> QED
    BY <2>1, <2>2
<1>7. a = b
  BY <1>2, <1>4, <1>5, <1>6
<1> QED
  BY <1>7 DEF a, b, p

-----------------------------------------------------------------------------
(* paths *)

(* one round of the recursion of Resolve                                    *)
Round(path, n, g) ==
    [k \in 0..n |->
        IF k = 0 THEN Root
        ELSE IF g[k - 1] = Missing THEN Missing ELSE InDir(g[k - 1], path[k])]

\* The recursion by which a path is resolved defines a function.
LEMMA RoundExists ==
  ASSUME NEW path, NEW n \in Nat
  PROVE  \E g : g = Round(path, n, g)
<1> DEFINE F(m, g) == Round(path, m, g)
           E == {m \in Nat : \E g : g = F(m, g)}
           Step(e, k) == IF e = Missing THEN Missing ELSE InDir(e, path[k])
<1>0. ASSUME NEW m \in Nat, NEW g
      PROVE  F(m, g) = [k \in 0..m |-> IF k = 0 THEN Root ELSE Step(g[k - 1], k)]
  BY DEF Round
<1> HIDE DEF Step, F
<1>1. 0 \in E
  <2> DEFINE g == [i \in 0..0 |-> Root]
  <2>1. F(0, g) = [i \in 0..0 |-> IF i = 0 THEN Root ELSE Step(g[i - 1], i)]
    BY <1>0
  <2>2. g = F(0, g)
    BY <2>1
  <2> QED
    BY <2>2
<1>2. ASSUME NEW m \in Nat, m \in E PROVE m + 1 \in E
  <2>1. PICK g : g = F(m, g)
    BY <1>2
  <2>2. g = [k \in 0..m |-> IF k = 0 THEN Root ELSE Step(g[k - 1], k)]
    BY <2>1, <1>0
  <2> DEFINE h == [i \in 0..(m + 1) |-> IF i = m + 1 THEN Step(g[m], i) ELSE g[i]]
             f == [k \in 0..(m + 1) |-> IF k = 0 THEN Root ELSE Step(h[k - 1], k)]
  <2>3. ASSUME NEW i \in 0..(m + 1) PROVE h[i] = f[i]
    <3>1. CASE i = m + 1
      <4>1. h[i - 1] = g[m] /\ i # 0
        BY <3>1
      <4> QED
        BY <3>1, <4>1
    <3>2. CASE i # m + 1
      <4>1. i \in 0..m /\ h[i] = g[i]
        BY <3>2
      <4>2. g[i] = IF i = 0 THEN Root ELSE Step(g[i - 1], i)
        BY <2>2, <4>1
      <4>3. CASE i = 0
        BY <4>1, <4>2, <4>3
      <4>4. CASE i # 0
        <5>1. h[i - 1] = g[i - 1]
          BY <4>1, <4>4
        <5> QED
          BY <4>1, <4>2, <4>4, <5>1
      <4> QED
        BY <4>3, <4>4
    <3> QED
      BY <3>1, <3>2
  <2>4. h = f
    <3>1. DOMAIN h = 0..(m + 1) /\ h = [i \in DOMAIN h |-> h[i]]
      OBVIOUS
    <3>2. DOMAIN f = 0..(m + 1) /\ f = [i \in DOMAIN f |-> f[i]]
      OBVIOUS
    <3> HIDE DEF h, f
    <3> QED
      BY <2>3, <3>1, <3>2, Zenon
  <2>5. m + 1 \in Nat /\ F(m + 1, h) = f
    <3>1. m + 1 \in Nat
      OBVIOUS
    <3> QED
      BY <3>1, <1>0, Zenon DEF f
  <2> HIDE DEF h, f
  <2> QED
    BY <2>4, <2>5
<1>3. Nat \subseteq E
  <2> HIDE DEF E
  <2> QED
    BY <1>1, <1>2, SetInduction
<1> QED
  BY <1>3 DEF F

\* The empty path is the argument, and a path
\* with one name more is looked up where the shorter one leads to.
LEMMA ResolveFacts ==
  /\ Resolve(<<>>) = Root
  /\ \A p \in Seq(Names), nm \in Names :
        Resolve(Append(p, nm)) =
            IF Resolve(p) = Missing THEN Missing ELSE InDir(Resolve(p), nm)
<1> DEFINE At(p) == CHOOSE g : g = Round(p, Len(p), g)
           Step(e, nm) == IF e = Missing THEN Missing ELSE InDir(e, nm)
<1>1. ASSUME NEW p \in Seq(Names)
      PROVE  /\ At(p) = Round(p, Len(p), At(p))
             /\ Resolve(p) = At(p)[Len(p)]
  <2>1. Len(p) \in Nat
    OBVIOUS
  <2>2. At(p) = Round(p, Len(p), At(p))
    BY <2>1, RoundExists
  <2>3. Resolve(p) = At(p)[Len(p)]
    BY DEF Resolve, Round
  <2> QED
    BY <2>2, <2>3
<1> HIDE DEF At
<1>2. ASSUME NEW p \in Seq(Names)
      PROVE  /\ At(p)[0] = Root
             /\ \A k \in 1..Len(p) : At(p)[k] = Step(At(p)[k - 1], p[k])
  <2> DEFINE a == At(p)
  <2>1. a = Round(p, Len(p), a)
    BY <1>1
  <2> HIDE DEF a
  <2>2. Len(p) \in Nat
    OBVIOUS
  <2>3. a[0] = Root
    BY <2>1, <2>2 DEF Round
  <2>4. ASSUME NEW k \in 1..Len(p) PROVE a[k] = Step(a[k - 1], p[k])
    <3>1. k \in 0..Len(p) /\ k # 0
      OBVIOUS
    <3>2. Round(p, Len(p), a)[k] = Step(a[k - 1], p[k])
      BY <3>1 DEF Round
    <3> QED
      BY <2>1, <3>2
  <2> QED
    BY <2>3, <2>4 DEF a
<1> HIDE DEF Step
<1>3. Resolve(<<>>) = Root
  <2>1. <<>> \in Seq(Names) /\ Len(<<>>) = 0
    OBVIOUS
  <2> QED
    BY <1>1, <1>2, <2>1
<1>4. ASSUME NEW p \in Seq(Names), NEW nm \in Names
      PROVE  Resolve(Append(p, nm)) = Step(Resolve(p), nm)
  <2> DEFINE q == Append(p, nm)
             a == At(p)
             b == At(q)
             n == Len(p)
  <2>1. q \in Seq(Names) /\ Len(q) = n + 1 /\ q[n + 1] = nm /\ n \in Nat
    BY AppendFacts
  <2>2. \A k \in 1..n : q[k] = p[k]
    BY AppendFacts
  <2>3. a[0] = Root /\ \A k \in 1..n : a[k] = Step(a[k - 1], p[k])
    BY <1>2
  <2> HIDE DEF q
  <2>4. b[0] = Root /\ \A k \in 1..(n + 1) : b[k] = Step(b[k - 1], q[k])
    BY <1>2, <2>1
  <2>5. Resolve(p) = a[n]
    BY <1>1
  <2>6. Resolve(q) = b[n + 1]
    BY <1>1, <2>1
  <2> HIDE DEF a, b, n
  <2> DEFINE S == {k \in Nat : k <= n => a[k] = b[k]}
  <2>7. 0 \in S
    BY <2>3, <2>4
  <2>8. ASSUME NEW k \in Nat, k \in S PROVE k + 1 \in S
    <3> SUFFICES ASSUME k + 1 <= n PROVE a[k + 1] = b[k + 1]
      OBVIOUS
    <3>1. k + 1 \in 1..n /\ k + 1 \in 1..(n + 1) /\ (k + 1) - 1 = k /\ a[k] = b[k]
      BY <2>1, <2>8
    <3>2. a[k + 1] = Step(a[k], p[k + 1])
      BY <2>3, <3>1
    <3>3. b[k + 1] = Step(b[k], q[k + 1])
      BY <2>4, <3>1
    <3> QED
      BY <2>2, <3>1, <3>2, <3>3
  <2>9. n \in S
    <3> HIDE DEF S
    <3> QED
      BY <2>1, <2>7, <2>8, SetInduction
  <2>10. a[n] = b[n]
    BY <2>1, <2>9
  <2>11. b[n + 1] = Step(b[n], nm)
    <3>1. n + 1 \in 1..(n + 1) /\ (n + 1) - 1 = n
      BY <2>1
    <3> QED
      BY <2>1, <2>4, <3>1
  <2> QED
    BY <2>5, <2>6, <2>10, <2>11 DEF q
<1> QED
  BY <1>3, <1>4 DEF Step

-----------------------------------------------------------------------------
(* calls and frames *)

\* The stack is not empty when there is a top frame, and that is one of Frames.
LEMMA TopFacts ==
  ASSUME CatalogTypes
  PROVE  /\ Len(stack) \in Nat
         /\ stack = <<>> <=> Len(stack) = 0
         /\ \A i \in 1..Len(stack) : stack[i] \in Frames
         /\ stack # <<>> => Len(stack) \in 1..Len(stack) /\ Top \in Frames /\ Top.dir \in Nodes
<1>1. stack \in Seq(Frames)
  BY DEF CatalogTypes
<1>2. Len(stack) \in Nat /\ (stack = <<>> <=> Len(stack) = 0)
  BY <1>1, EmptySeq
<1>3. \A i \in 1..Len(stack) : stack[i] \in Frames
  BY <1>1
<1>4. stack # <<>> => Len(stack) \in 1..Len(stack)
  BY <1>2
<1> QED
  BY <1>2, <1>3, <1>4 DEF Top, Frames

\* Only one file is called.
LEMMA CalledUnique ==
  ASSUME TreeInv, NEW m \in Nodes, NEW n \in Nodes, Called(m), Called(n)
  PROVE  m = n
<1>1. Dir[m] = Dir[n]
  BY DEF Called
<1>2. CASE n = Root
  BY <1>1, <1>2, ParentFacts
<1>3. CASE n # Root
  <2>1. m # Root
    BY <1>1, <1>3, ParentFacts
  <2>2. parent[m] = parent[n]
    BY <1>1, <1>3, <2>1, ParentFacts
  <2>3. name[m] = name[n]
    BY <1>3, <2>1 DEF Called
  <2> QED
    BY <1>3, <2>1, <2>2, <2>3 DEF TreeInv
<1> QED
  BY <1>2, <1>3

\* The root is what is called when no directory is being read.
LEMMA CalledRoot ==
  ASSUME TreeInv, CatalogTypes, NEW n \in Nodes, Called(n)
  PROVE  /\ stack = <<>> <=> n = Root
         /\ stack # <<>> => Dir[n] = stack[Len(stack)].dir
<1>1. Dir[n] = Here
  BY DEF Called
<1>2. CASE stack = <<>>
  BY <1>1, <1>2, ParentFacts DEF Here
<1>3. CASE stack # <<>>
  <2>1. Dir[n] = Top.dir /\ Top.dir \in Nodes
    BY <1>1, <1>3, TopFacts DEF Here
  <2>2. n # Root
    BY <2>1, ParentFacts, Numbers
  <2> QED
    BY <1>3, <2>1, <2>2 DEF Top
<1> QED
  BY <1>2, <1>3

\* What is called has not been counted yet.
LEMMA CalledNew ==
  ASSUME TreeInv, CatalogTypes, NEW w, CountInv(w), NEW n \in Nodes, Called(n)
  PROVE  cnt[w][n] = 0
<1>1. CASE n = Root
  BY <1>1 DEF CountInv
<1>2. CASE n # Root
  <2>1. stack # <<>> /\ Dir[n] = stack[Len(stack)].dir
    BY <1>2, CalledRoot
  <2>2. Len(stack) \in 1..Len(stack)
    BY <2>1, TopFacts
  <2> QED
    BY <1>2, <2>1, <2>2 DEF CountInv
<1> QED
  BY <1>1, <1>2

\* The path, cut behind the name of a frame, leads to the frame's directory.
LEMMA PathLeads ==
  ASSUME TreeInv, CatalogTypes, StackInv, PathInv, walk = "myftw", pc # "start"
  PROVE  \A i \in 1..Len(stack) : Resolve(SubSeq(fullpath, 1, i - 1)) = stack[i].dir
<1> DEFINE R(i) == Resolve(SubSeq(fullpath, 1, i))
           S == {i \in Nat : i + 1 <= Len(stack) => R(i) = stack[i + 1].dir}
<1>1. Len(stack) \in Nat /\ fullpath \in Seq(Names) /\ Len(fullpath) \in Nat
      /\ Len(stack) <= Len(fullpath) + 1
  BY TopFacts, EmptySeq DEF CatalogTypes, PathInv
<1>2. 0 \in S
  <2> SUFFICES ASSUME 1 <= Len(stack) PROVE R(0) = stack[1].dir
    OBVIOUS
  <2>1. SubSeq(fullpath, 1, 0) = <<>>
    BY <1>1
  <2>2. 1 \in 1..Len(stack)
    BY <1>1
  <2>3. stack[1].dir \in Nodes /\ Dir[stack[1].dir] = Start
    BY <2>2, TopFacts DEF StackInv, Frames
  <2>4. stack[1].dir = Root
    BY <2>3, ParentFacts
  <2> QED
    BY <2>1, <2>4, ResolveFacts
<1>3. ASSUME NEW i \in Nat, i \in S PROVE i + 1 \in S
  <2> SUFFICES ASSUME (i + 1) + 1 <= Len(stack) PROVE R(i + 1) = stack[(i + 1) + 1].dir
    OBVIOUS
  <2>1. /\ i + 1 \in 1..Len(stack) /\ (i + 1) + 1 \in 1..Len(stack) /\ i + 1 \in 1..Len(fullpath)
        /\ (i + 1) + 1 > 1 /\ (i + 1) + 1 # 1 /\ ((i + 1) + 1) - 1 = i + 1 /\ (i + 1) - 1 = i
    BY <1>1
  <2>2. R(i) = stack[i + 1].dir
    BY <1>3, <2>1
  <2> DEFINE d == stack[(i + 1) + 1].dir
  <2>3. d \in Nodes /\ stack[i + 1].dir \in Nodes
    BY <2>1, TopFacts DEF Frames
  <2>4. Dir[d] = stack[i + 1].dir
    <3>1. Dir[d] = IF (i + 1) + 1 = 1 THEN Start ELSE stack[((i + 1) + 1) - 1].dir
      BY <2>1 DEF StackInv
    <3> QED
      BY <2>1, <3>1
  <2>5. fullpath[i + 1] = name[d] /\ stack[i + 1].dir \in searchable
    <3>1. /\ fullpath[((i + 1) + 1) - 1] = name[d]
          /\ stack[((i + 1) + 1) - 1].dir \in searchable
      BY <2>1 DEF PathInv
    <3> QED
      BY <2>1, <3>1
  <2>6. d # Root
    BY <2>3, <2>4, ParentFacts, Numbers
  <2>7. InDir(Dir[d], name[d]) = d
    BY <2>3, <2>4, <2>5, <2>6, InDirFinds
  <2>8. R(i) = Dir[d] /\ R(i) # Missing
    BY <2>2, <2>3, <2>4, Numbers
  <2>9. SubSeq(fullpath, 1, i + 1) = Append(SubSeq(fullpath, 1, i), fullpath[i + 1])
    <3>1. SubSeq(fullpath, 1, i + 1) = Append(SubSeq(fullpath, 1, (i + 1) - 1), fullpath[i + 1])
      BY <1>1, <2>1, FrontStep
    <3> QED
      BY <2>1, <3>1
  <2>10. SubSeq(fullpath, 1, i) \in Seq(Names) /\ fullpath[i + 1] \in Names
    BY <1>1, <2>1
  <2> HIDE DEF d
  <2>11. R(i + 1) = InDir(R(i), fullpath[i + 1])
    BY <2>8, <2>9, <2>10, ResolveFacts
  <2> QED
    BY <2>5, <2>7, <2>8, <2>11 DEF d
<1>4. Nat \subseteq S
  <2> HIDE DEF S
  <2> QED
    BY <1>2, <1>3, SetInduction
<1>5. ASSUME NEW i \in 1..Len(stack) PROVE R(i - 1) = stack[i].dir
  <2>1. i - 1 \in Nat /\ (i - 1) + 1 = i /\ (i - 1) + 1 <= Len(stack)
    BY <1>1
  <2>2. i - 1 \in S
    BY <1>4, <2>1
  <2>3. R(i - 1) = stack[(i - 1) + 1].dir
    BY <2>1, <2>2
  <2> QED
    BY <2>1, <2>3
<1> QED
  BY <1>5

\* lstat in dopath gets the file that is called, or nothing.
LEMMA ResolveCalled ==
  ASSUME TreeInv, CatalogTypes, StackInv, PathInv, walk = "myftw",
         NEW n \in Nodes, Called(n)
  PROVE  Resolve(fullpath) = IF n = Root \/ Dir[n] \in searchable THEN n ELSE Missing
<1>1. pc = "call" /\ Dir[n] = Here /\ (n # Root => name[n] = fullpath[Len(fullpath)])
  BY DEF Called, Word
<1>2. Len(fullpath) = Len(stack) /\ Len(stack) \in Nat /\ fullpath \in Seq(Names)
  BY <1>1, TopFacts DEF PathInv, CatalogTypes
<1>3. CASE n = Root
  <2>1. stack = <<>>
    BY <1>3, CalledRoot
  <2>2. fullpath = <<>>
    BY <1>2, <2>1, TopFacts, EmptySeq
  <2> QED
    BY <1>3, <2>2, ResolveFacts
<1>4. CASE n # Root
  <2> DEFINE k == Len(stack)
             p == SubSeq(fullpath, 1, k - 1)
  <2>1. stack # <<>> /\ Dir[n] = stack[k].dir /\ k \in 1..k
    BY <1>4, CalledRoot, TopFacts
  <2>2. fullpath = Append(p, name[n])
    <3>1. SubSeq(fullpath, 1, k) = Append(p, fullpath[k])
      BY <1>2, <2>1, FrontStep
    <3>2. SubSeq(fullpath, 1, k) = fullpath
      BY <1>2
    <3> QED
      BY <1>1, <1>2, <1>4, <3>1, <3>2
  <2>3. Resolve(p) = Dir[n]
    BY <1>1, <2>1, PathLeads
  <2>4. Dir[n] # Missing
    BY <1>4, ParentFacts, Numbers
  <2>5. p \in Seq(Names) /\ name[n] \in Names
    <3>1. name[n] \in Names
      BY DEF TreeInv
    <3>2. k - 1 \in 0..Len(fullpath)
      BY <1>2, <2>1
    <3>3. p \in Seq(Names)
      BY <1>2, <3>2, FrontFacts
    <3> QED
      BY <3>1, <3>3
  <2> HIDE DEF p
  <2>6. Resolve(Append(p, name[n])) = InDir(Dir[n], name[n])
    BY <2>3, <2>4, <2>5, ResolveFacts
  <2> QED
    BY <1>4, <2>2, <2>6, InDirFinds
<1> QED
  BY <1>3, <1>4

-----------------------------------------------------------------------------
(* what the actions do to the stack *)

\* opendir succeeds: a frame for the directory that is called.
LEMMA PushFacts ==
  ASSUME TreeInv, CatalogTypes, NEW n \in Nodes, Push(Frame(n))
  PROVE  /\ stack' \in Seq(Frames) /\ stack' # <<>>
         /\ Len(stack') = Len(stack) + 1
         /\ stack'[Len(stack) + 1] = Frame(n)
         /\ \A i \in 1..Len(stack) : stack'[i] = stack[i]
<1>1. Frame(n) \in Frames
  <2>1. Len(fullpath) \in Nat /\ strlen + 1 \in Nat \ {0}
    BY EmptySeq DEF CatalogTypes
  <2> QED
    BY <2>1 DEF Frame, Frames, Children
<1>2. stack \in Seq(Frames)
  BY DEF CatalogTypes
<1> QED
  BY <1>1, <1>2, AppendFacts DEF Push

\* closedir: the top frame is taken away.
LEMMA PopFacts ==
  ASSUME CatalogTypes, stack # <<>>, Pop
  PROVE  /\ stack' \in Seq(Frames)
         /\ Len(stack') = Len(stack) - 1
         /\ \A i \in 1..(Len(stack) - 1) : stack'[i] = stack[i]
<1>1. stack \in Seq(Frames) /\ Len(stack) - 1 \in 0..Len(stack)
  BY TopFacts DEF CatalogTypes
<1> QED
  BY <1>1, FrontFacts DEF Pop

\* readdir: an entry less in the top frame.
LEMMA ReadFacts ==
  ASSUME CatalogTypes, stack # <<>>, NEW c, Reads(c)
  PROVE  /\ stack' \in Seq(Frames) /\ stack' # <<>>
         /\ Len(stack') = Len(stack)
         /\ \A i \in 1..Len(stack) :
               /\ stack'[i].dir = stack[i].dir /\ stack'[i].n = stack[i].n
               /\ stack'[i].names = stack[i].names
               /\ stack'[i].todo = IF i = Len(stack) THEN stack[i].todo \ {c} ELSE stack[i].todo
<1> DEFINE k == Len(stack)
           e == [stack[k] EXCEPT !.todo = @ \ {c}]
<1>1. stack \in Seq(Frames) /\ k \in 1..Len(stack) /\ k \in Nat /\ stack[k] \in Frames
  BY TopFacts DEF CatalogTypes
<1>2. e \in Frames /\ e.dir = stack[k].dir /\ e.n = stack[k].n /\ e.names = stack[k].names
      /\ e.todo = stack[k].todo \ {c}
  BY <1>1 DEF Frames
<1>3. stack' = [stack EXCEPT ![k] = e]
  BY <1>1 DEF Reads
<1> HIDE DEF e
<1>4. stack' \in Seq(Frames) /\ Len(stack') = k
  BY <1>1, <1>2, <1>3
<1>5. ASSUME NEW i \in 1..k PROVE stack'[i] = IF i = k THEN e ELSE stack[i]
  BY <1>1, <1>3
<1>6. stack' # <<>>
  BY <1>1, <1>4, EmptySeq
<1> QED
  BY <1>2, <1>4, <1>5, <1>6

-----------------------------------------------------------------------------
(* what the actions do to the counts *)

\* Nobody changes the tree.
LEMMA TreeKept ==
  ASSUME TreeInv, UNCHANGED tree
  PROVE  /\ TreeInv' /\ Dir' = Dir /\ name' = name
         /\ argument' = argument /\ readable' = readable /\ searchable' = searchable
         /\ \A d : Children(d)' = Children(d)
<1>1. /\ argument' = argument /\ parent' = parent /\ name' = name /\ dirs' = dirs
      /\ readable' = readable /\ searchable' = searchable
  BY DEF tree
<1>2. \A d : Children(d)' = Children(d)
  BY <1>1 DEF Children
<1>3. TreeInv'
  BY <1>1, <1>2 DEF TreeInv
<1>4. Dir' = Dir
  BY <1>1 DEF Dir
<1> QED
  BY <1>1, <1>2, <1>3, <1>4

\* The new frame is for a file of the innermost directory.
LEMMA PushStack ==
  ASSUME TreeInv, CatalogTypes, StackInv, UNCHANGED tree,
         NEW n \in Nodes, Dir[n] = Here, Push(Frame(n))
  PROVE  StackInv'
<1> DEFINE k == Len(stack)
<1>1. k \in Nat /\ Len(stack') = k + 1 /\ stack'[k + 1] = Frame(n)
      /\ \A i \in 1..k : stack'[i] = stack[i]
  BY PushFacts, TopFacts
<1>2. Frame(n).dir = n /\ Frame(n).todo = Children(n)
  BY DEF Frame
<1>3. Dir[n] < n /\ n \in Nat
  BY ParentFacts, Numbers
<1>4. k > 0 => Dir[n] = stack[k].dir
  BY TopFacts DEF Here, Top
<1>5. k = 0 => Dir[n] = Start
  BY TopFacts DEF Here
<1>6. \A i \in 1..k : stack[i].dir \in Nat
  BY TopFacts, Numbers DEF Frames
<1> HIDE DEF k
<1>7. ASSUME NEW i \in 1..Len(stack'), NEW j \in 1..Len(stack'), i < j
      PROVE  stack'[i].dir < stack'[j].dir
  <2>1. i \in 1..k /\ stack'[i] = stack[i]
    BY <1>1, <1>7
  <2>2. CASE j = k + 1
    <3>1. stack[i].dir <= stack[k].dir
      <4>1. CASE i = k
        BY <1>6, <2>1, <4>1
      <4>2. CASE i # k
        BY <1>1, <1>6, <2>1, <4>2 DEF StackInv, k
      <4> QED
        BY <4>1, <4>2
    <3>2. k > 0 /\ k \in 1..k
      BY <1>1, <2>1
    <3> QED
      BY <1>1, <1>2, <1>3, <1>4, <1>6, <2>1, <2>2, <3>1, <3>2
  <2>3. CASE j # k + 1
    <3>1. j \in 1..k /\ stack'[j] = stack[j]
      BY <1>1, <2>3
    <3> QED
      BY <1>7, <2>1, <3>1 DEF StackInv, k
  <2> QED
    BY <2>2, <2>3
<1>8. ASSUME NEW i \in 1..Len(stack')
      PROVE  /\ \A c \in stack'[i].todo : c # Root /\ Dir[c] = stack'[i].dir
             /\ Dir[stack'[i].dir] = IF i = 1 THEN Start ELSE stack'[i - 1].dir
  <2>1. CASE i = k + 1
    <3>1. k > 0 => k \in 1..k /\ stack'[k] = stack[k]
      BY <1>1
    <3>2. i - 1 = k /\ (i = 1 <=> k = 0)
      BY <1>1, <2>1
    <3>3. \A c \in Children(n) : c # Root /\ Dir[c] = n
      BY ParentFacts
    <3> QED
      BY <1>1, <1>2, <1>4, <1>5, <2>1, <3>1, <3>2, <3>3
  <2>2. CASE i # k + 1
    <3>1. i \in 1..k /\ stack'[i] = stack[i] /\ (i # 1 => i - 1 \in 1..k /\ stack'[i - 1] = stack[i - 1])
      BY <1>1, <2>2
    <3> QED
      BY <3>1 DEF StackInv, k
  <2> QED
    BY <2>1, <2>2
<1>9. Dir' = Dir
  BY TreeKept
<1> QED
  BY <1>7, <1>8, <1>9 DEF StackInv

\* The frames below the top one stay as they are.
LEMMA PopStack ==
  ASSUME TreeInv, CatalogTypes, StackInv, UNCHANGED tree, stack # <<>>, Pop
  PROVE  StackInv' /\ Here' = Dir[Top.dir]
<1> DEFINE k == Len(stack)
<1>1. k \in Nat \ {0} /\ Len(stack') = k - 1 /\ stack' \in Seq(Frames)
      /\ \A i \in 1..(k - 1) : stack'[i] = stack[i]
  BY PopFacts, TopFacts
<1>2. Dir' = Dir
  BY TreeKept
<1> HIDE DEF k
<1>3. ASSUME NEW i \in 1..Len(stack'), NEW j \in 1..Len(stack'), i < j
      PROVE  stack'[i].dir < stack'[j].dir
  <2>1. i \in 1..(k - 1) /\ j \in 1..(k - 1) /\ i \in 1..k /\ j \in 1..k
    BY <1>1
  <2> QED
    BY <1>1, <1>3, <2>1 DEF StackInv, k
<1>4. ASSUME NEW i \in 1..Len(stack')
      PROVE  /\ \A e \in stack'[i].todo : e # Root /\ Dir[e] = stack'[i].dir
             /\ Dir[stack'[i].dir] = IF i = 1 THEN Start ELSE stack'[i - 1].dir
  <2>1. i \in 1..k /\ i \in 1..(k - 1) /\ stack'[i] = stack[i]
        /\ (i # 1 => i - 1 \in 1..(k - 1) /\ stack'[i - 1] = stack[i - 1])
    BY <1>1
  <2> QED
    BY <1>2, <2>1 DEF StackInv, k
<1>5. StackInv'
  BY <1>2, <1>3, <1>4 DEF StackInv
<1>6. Here' = Dir[Top.dir]
  <2>1. k \in 1..k /\ Dir[Top.dir] = IF k = 1 THEN Start ELSE stack[k - 1].dir
    BY <1>1 DEF StackInv, Top, k
  <2>2. stack' = <<>> <=> k = 1
    BY <1>1, EmptySeq
  <2>3. k # 1 => Top' = stack[k - 1]
    <3>1. k # 1 => k - 1 \in 1..(k - 1)
      BY <1>1
    <3> QED
      BY <1>1, <3>1 DEF Top
  <2> QED
    BY <2>1, <2>2, <2>3 DEF Here
<1> QED
  BY <1>5, <1>6

\* Reading an entry changes no directory of the stack.
LEMMA ReadStack ==
  ASSUME TreeInv, CatalogTypes, StackInv, UNCHANGED tree, stack # <<>>, NEW c, Reads(c)
  PROVE  /\ StackInv' /\ Here' = Top.dir
         /\ (\A e \in Top.todo : e # Root /\ Dir[e] = Top.dir) /\ c \notin Top'.todo
<1> DEFINE k == Len(stack)
<1>1. k \in Nat \ {0} /\ k \in 1..k /\ Len(stack') = k /\ stack' # <<>>
      /\ \A i \in 1..k :
            /\ stack'[i].dir = stack[i].dir
            /\ stack'[i].todo = IF i = k THEN stack[i].todo \ {c} ELSE stack[i].todo
  BY ReadFacts, TopFacts
<1>2. Dir' = Dir
  BY TreeKept
<1> HIDE DEF k
<1>3. \A i, j \in 1..Len(stack') : i < j => stack'[i].dir < stack'[j].dir
  BY <1>1 DEF StackInv, k
<1>4. ASSUME NEW i \in 1..Len(stack')
      PROVE  /\ \A e \in stack'[i].todo : e # Root /\ Dir[e] = stack'[i].dir
             /\ Dir[stack'[i].dir] = IF i = 1 THEN Start ELSE stack'[i - 1].dir
  <2>1. i \in 1..k /\ (i # 1 => i - 1 \in 1..k /\ stack'[i - 1].dir = stack[i - 1].dir)
    <3>1. i \in 1..k /\ (i # 1 => i - 1 \in 1..k)
      BY <1>1
    <3> QED
      BY <1>1, <3>1
  <2>2. (\A e \in stack[i].todo : e # Root /\ Dir[e] = stack[i].dir)
        /\ Dir[stack[i].dir] = IF i = 1 THEN Start ELSE stack[i - 1].dir
    BY <2>1 DEF StackInv, k
  <2>3. stack'[i].todo \subseteq stack[i].todo
    BY <1>1, <2>1
  <2>4. \A e \in stack'[i].todo : e # Root /\ Dir[e] = stack'[i].dir
    BY <1>1, <1>2, <2>1, <2>2, <2>3
  <2>5. Dir[stack'[i].dir] = Dir[stack[i].dir]
    BY <1>1, <1>2, <2>1
  <2> QED
    BY <2>1, <2>2, <2>4, <2>5
<1>5. StackInv'
  BY <1>2, <1>3, <1>4 DEF StackInv
<1>6. Here' = Top.dir /\ c \notin Top'.todo
  BY <1>1 DEF Here, Top, k
<1>7. \A e \in Top.todo : e # Root /\ Dir[e] = Top.dir
  BY <1>1 DEF StackInv, Top, k
<1> QED
  BY <1>5, <1>6, <1>7

\* Frames are of different directories.
LEMMA FramesDiffer ==
  ASSUME CatalogTypes, StackInv, NEW i \in 1..Len(stack), NEW j \in 1..Len(stack),
         stack[i].dir = stack[j].dir
  PROVE  i = j
<1>1. stack[i].dir \in Nat /\ stack[j].dir \in Nat
  BY TopFacts, Numbers DEF Frames
<1>2. ~(i < j) /\ ~(j < i)
  BY <1>1 DEF StackInv
<1>3. i \in Nat /\ j \in Nat
  BY TopFacts
<1> QED
  BY <1>2, <1>3

\* A file is counted when it is called: once, after its directory, before
\* what is in it.
LEMMA CountCalled ==
  ASSUME TreeInv, CatalogTypes, StackInv, NEW w \in Walks, CountInv(w),
         NEW n \in Nodes, Called(n), stack # <<>> => n \notin Top.todo,
         UNCHANGED <<tree, unread>>, Counted(w, n), pc' # "call",
         (n \notin dirs /\ UNCHANGED stack) \/ Push(Frame(n))
  PROVE  CountInv(w)'
<1> DEFINE k == Len(stack)
<1>1. \A m \in Nodes : cnt'[w][m] = IF m = n THEN 1 ELSE cnt[w][m]
  <2>1. cnt[w][n] = 0
    BY CalledNew
  <2> QED
    BY <2>1 DEF Counted, CatalogTypes
<1>2. \A m : ~Called(m)'
  BY DEF Called
<1>3. Dir' = Dir
  BY TreeKept
<1>4. \A m \in Nodes : Called(m) <=> m = n
  BY CalledUnique
<1>5. n # Root => k \in 1..k /\ Dir[n] = stack[k].dir /\ n \notin stack[k].todo
  BY CalledRoot, TopFacts DEF Top
<1>6. \A i \in 1..k : i \in 1..Len(stack') /\ stack'[i] = stack[i] /\ stack[i].dir \in Nodes
  <2>1. \A i \in 1..k : stack[i].dir \in Nodes
    BY TopFacts DEF Frames
  <2>2. k \in Nat
    BY TopFacts
  <2>3. CASE UNCHANGED stack
    BY <2>1, <2>3
  <2>4. CASE Push(Frame(n))
    <3>1. Len(stack') = k + 1 /\ \A i \in 1..k : stack'[i] = stack[i]
      BY <2>4, PushFacts
    <3> QED
      BY <2>1, <2>2, <3>1
  <2> QED
    BY <2>3, <2>4
<1>7. \A i \in 1..Len(stack') :
          i \in 1..k \/ (Push(Frame(n)) /\ stack'[i].dir = n /\ stack'[i].todo = Children(n))
  <2>1. CASE UNCHANGED stack
    BY <2>1
  <2>2. CASE Push(Frame(n))
    <3>1. Len(stack') = k + 1 /\ stack'[k + 1] = Frame(n) /\ k \in Nat
      BY <2>2, PushFacts, TopFacts
    <3>2. Frame(n).dir = n /\ Frame(n).todo = Children(n)
      BY DEF Frame
    <3> QED
      BY <2>2, <3>1, <3>2
  <2> QED
    BY <2>1, <2>2
<1>8. ASSUME NEW m \in Nodes \ {Root}
      PROVE  Dir[m] \in Nodes /\ m \in Children(Dir[m]) /\ Dir[m] # m /\ Dir[m] \in dirs
  BY ParentFacts
<1>9. cnt[w][n] = 0 /\ \A i \in 1..k : cnt[w][stack[i].dir] = 1
  BY CalledNew DEF CountInv
<1>10. Push(Frame(n)) => \E i \in 1..Len(stack') : stack'[i].dir = n
  <2> SUFFICES ASSUME Push(Frame(n)) PROVE \E i \in 1..Len(stack') : stack'[i].dir = n
    OBVIOUS
  <2>1. Len(stack') = k + 1 /\ stack'[k + 1] = Frame(n) /\ k \in Nat
    BY PushFacts, TopFacts
  <2>2. k + 1 \in 1..Len(stack') /\ stack'[k + 1].dir = n
    BY <2>1 DEF Frame
  <2> QED
    BY <2>2
<1>11. cnt'[w][Root] # 0
  <2>1. Root \in Nodes
    BY Numbers
  <2> QED
    BY <1>1, <1>4, <2>1 DEF CountInv
<1>12. ASSUME NEW m \in Nodes \ {Root}
       PROVE  cnt'[w][Dir[m]] = 0 => cnt'[w][m] = 0
  <2> SUFFICES ASSUME cnt'[w][Dir[m]] = 0 PROVE cnt'[w][m] = 0
    OBVIOUS
  <2>1. cnt[w][Dir[m]] = 0
    BY <1>1, <1>8
  <2>2. m # n
    BY <1>5, <1>9, <2>1
  <2>3. cnt[w][m] = 0
    BY <2>1 DEF CountInv
  <2> QED
    BY <1>1, <2>2, <2>3
<1>13. ASSUME NEW m \in Nodes \ {Root}, cnt'[w][Dir[m]] = 1,
              \A i \in 1..Len(stack') : stack'[i].dir # Dir[m]
       PROVE  cnt'[w][m] = 1 \/ Dir[m] \in unread[w]
  <2>1. Dir[m] # n
    BY <1>8, <1>10, <1>13
  <2>2. cnt[w][Dir[m]] = 1
    BY <1>1, <1>8, <1>13, <2>1
  <2>3. ~OnStack(Dir[m])
    BY <1>6, <1>13 DEF OnStack
  <2>4. cnt[w][m] = 1 \/ Dir[m] \in unread[w]
    BY <2>2, <2>3 DEF CountInv
  <2> QED
    BY <1>1, <2>4
<1>14. ASSUME NEW m \in Nodes \ {Root}, NEW i \in 1..Len(stack'), stack'[i].dir = Dir[m]
       PROVE  cnt'[w][m] = 0 <=> m \in stack'[i].todo
  <2>1. CASE i \in 1..k
    <3>1. stack[i].dir = Dir[m] /\ stack'[i] = stack[i]
      BY <1>6, <1>14, <2>1
    <3>2. cnt[w][m] = 0 <=> m \in stack[i].todo \/ m = n
      BY <1>4, <2>1, <3>1 DEF CountInv
    <3>3. CASE m = n
      <4>1. i = k /\ n \notin stack[k].todo
        BY <1>5, <2>1, <3>1, <3>3, FramesDiffer
      <4>2. cnt'[w][m] = 1
        BY <1>1, <3>3
      <4> QED
        BY <3>1, <3>3, <4>1, <4>2
    <3>4. CASE m # n
      BY <1>1, <3>1, <3>2, <3>4
    <3> QED
      BY <3>3, <3>4
  <2>2. CASE i \notin 1..k
    <3>1. Dir[m] = n /\ stack'[i].todo = Children(n)
      BY <1>7, <1>14, <2>2
    <3>2. m # n /\ m \in Children(n)
      BY <1>8, <3>1
    <3>3. cnt[w][m] = 0
      BY <1>9, <3>1 DEF CountInv
    <3> QED
      BY <1>1, <3>1, <3>2, <3>3
  <2> QED
    BY <2>1, <2>2
<1>15. ASSUME NEW i \in 1..Len(stack') PROVE cnt'[w][stack'[i].dir] = 1
  <2>1. CASE i \in 1..k
    BY <1>1, <1>6, <1>9, <2>1
  <2>2. CASE i \notin 1..k
    BY <1>1, <1>7, <2>2
  <2> QED
    BY <2>1, <2>2
<1> HIDE DEF k
<1> QED
  BY <1>2, <1>3, <1>11, <1>12, <1>13, <1>14, <1>15 DEF CountInv, OnStack

\* An entry that is read is called next; it is the only one to be called.
LEMMA CountRead ==
  ASSUME TreeInv, CatalogTypes, StackInv, NEW w \in Walks, CountInv(w),
         stack # <<>>, pc = "read", NEW c \in Top.todo, Reads(c),
         pc' = "call", Word' = name[c], UNCHANGED <<tree, cnt, unread>>
  PROVE  CountInv(w)'
<1> DEFINE k == Len(stack)
<1>1. \A m : ~Called(m)
  BY DEF Called
<1>2. Dir' = Dir /\ name' = name /\ cnt' = cnt
  BY TreeKept
<1>3. c # Root /\ c \in Nodes /\ Dir[c] = Top.dir
  <2>1. Top \in Frames
    BY TopFacts
  <2> QED
    BY <2>1, ReadStack DEF Frames
<1>4. \A m \in Nodes : Called(m)' <=> m = c
  <2>1. Here' = Top.dir
    BY ReadStack
  <2>2. ASSUME NEW m \in Nodes
        PROVE  Called(m)' <=> Dir[m] = Top.dir /\ (m # Root => name[m] = name[c])
    BY <1>2, <2>1 DEF Called
  <2>3. ASSUME NEW m \in Nodes, Dir[m] = Top.dir, m # Root => name[m] = name[c] PROVE m = c
    <3>1. m # Root
      BY <1>3, <2>3, ParentFacts
    <3>2. parent[m] = parent[c]
      BY <1>3, <2>3, <3>1, ParentFacts
    <3> QED
      BY <1>3, <2>3, <3>1, <3>2 DEF TreeInv
  <2> QED
    BY <1>3, <2>2, <2>3
<1>5. Len(stack') = k /\ k \in 1..k /\ Top = stack[k]
      /\ \A i \in 1..k :
            /\ stack'[i].dir = stack[i].dir
            /\ stack'[i].todo = IF i = k THEN stack[i].todo \ {c} ELSE stack[i].todo
  BY ReadFacts, TopFacts DEF Top
<1>6. cnt'[w][Root] # 0 /\ ~Called(Root)'
  <2>1. Root \in Nodes
    BY Numbers
  <2> QED
    BY <1>1, <1>2, <1>3, <1>4, <2>1 DEF CountInv
<1>7. ASSUME NEW m \in Nodes \ {Root}
      PROVE  /\ cnt'[w][Dir[m]] = 0 => cnt'[w][m] = 0
             /\ cnt'[w][Dir[m]] = 1 /\ (\A i \in 1..Len(stack') : stack'[i].dir # Dir[m])
                    => cnt'[w][m] = 1 \/ Dir[m] \in unread[w]
  <2>1. (\A i \in 1..Len(stack') : stack'[i].dir # Dir[m]) => ~OnStack(Dir[m])
    BY <1>5 DEF OnStack
  <2> QED
    BY <1>2, <2>1 DEF CountInv
<1>8. ASSUME NEW m \in Nodes \ {Root}, NEW i \in 1..k, stack[i].dir = Dir[m]
      PROVE  cnt[w][m] = 0 <=> m \in stack'[i].todo \/ m = c
  <2>1. cnt[w][m] = 0 <=> m \in stack[i].todo
    BY <1>1, <1>8 DEF CountInv
  <2>2. CASE i = k
    BY <1>5, <2>1, <2>2
  <2>3. CASE i # k
    <3>1. m # c
      BY <1>3, <1>5, <1>8, <2>3, FramesDiffer
    <3> QED
      BY <1>5, <2>1, <2>3, <3>1
  <2> QED
    BY <2>2, <2>3
<1>9. \A i \in 1..k : cnt'[w][stack'[i].dir] = 1
  BY <1>2, <1>5 DEF CountInv
<1>10. ASSUME NEW m \in Nodes \ {Root}, NEW i \in 1..Len(stack'), stack'[i].dir = Dir[m]
       PROVE  cnt'[w][m] = 0 <=> m \in stack'[i].todo \/ Called(m)'
  <2>1. i \in 1..k /\ stack[i].dir = Dir[m]
    BY <1>5, <1>10
  <2> QED
    BY <1>2, <1>4, <1>8, <2>1
<1> HIDE DEF k
<1> QED
  BY <1>2, <1>5, <1>6, <1>7, <1>9, <1>10 DEF CountInv, OnStack

\* A directory is left when all of its entries have been counted, or when
\* readdir has failed there.
LEMMA CountPop ==
  ASSUME TreeInv, CatalogTypes, StackInv, NEW w \in Walks, CountInv(w), AtMostOnce(w),
         stack # <<>>, pc = "read", Top.todo = {} \/ Top.dir \in unread'[w], Pop,
         pc' = "return", UNCHANGED <<tree, cnt>>, unread[w] \subseteq unread'[w]
  PROVE  CountInv(w)'
<1> DEFINE k == Len(stack)
<1>1. \A m : ~Called(m) /\ ~Called(m)'
  BY DEF Called
<1>2. Dir' = Dir /\ cnt' = cnt
  BY TreeKept
<1>3. k \in Nat \ {0} /\ k \in 1..k /\ Len(stack') = k - 1
      /\ \A i \in 1..(k - 1) : i \in 1..k /\ stack'[i] = stack[i]
  BY PopFacts, TopFacts
<1>4. ASSUME NEW m \in Nodes \ {Root}, cnt[w][Dir[m]] = 1,
             \A i \in 1..Len(stack') : stack'[i].dir # Dir[m]
      PROVE  cnt[w][m] = 1 \/ Dir[m] \in unread'[w]
  <2>1. CASE Dir[m] = stack[k].dir
    <3>1. Top.todo = {} => cnt[w][m] # 0
      BY <1>1, <1>3, <2>1 DEF CountInv, Top
    <3> QED
      BY <2>1, <3>1 DEF AtMostOnce, Top
  <2>2. CASE Dir[m] # stack[k].dir
    <3>1. ~OnStack(Dir[m])
      <4> SUFFICES ASSUME NEW i \in 1..k, stack[i].dir = Dir[m] PROVE FALSE
        BY DEF OnStack
      <4>1. i \in 1..(k - 1)
        BY <1>3, <2>2
      <4> QED
        BY <1>3, <1>4, <4>1
    <3> QED
      BY <1>4, <3>1 DEF CountInv
  <2> QED
    BY <2>1, <2>2
<1>5. ASSUME NEW m \in Nodes \ {Root}, NEW i \in 1..Len(stack'), stack'[i].dir = Dir[m]
      PROVE  cnt[w][m] = 0 <=> m \in stack'[i].todo
  <2>1. i \in 1..k /\ stack'[i] = stack[i]
    BY <1>3
  <2> QED
    BY <1>1, <1>5, <2>1 DEF CountInv
<1>6. \A i \in 1..Len(stack') : cnt[w][stack'[i].dir] = 1
  BY <1>3 DEF CountInv
<1>7. cnt[w][Root] # 0 /\ \A m \in Nodes \ {Root} : cnt[w][Dir[m]] = 0 => cnt[w][m] = 0
  BY <1>1 DEF CountInv
<1> HIDE DEF k
<1> QED
  BY <1>1, <1>2, <1>4, <1>5, <1>6, <1>7 DEF CountInv, OnStack

\* When no directory is being read and the root is counted, all is counted
\* that readdir has given.
LEMMA AllCounted ==
  ASSUME TreeInv, CatalogTypes, NEW w \in Walks, CountInv(w), AtMostOnce(w),
         stack = <<>>, pc # "call"
  PROVE  AllGiven(w)
<1> SUFFICES ASSUME NEW n \in Nodes, cnt[w][n] = 0
             PROVE  n # Root /\ (cnt[w][parent[n]] = 0 \/ parent[n] \in unread[w])
  BY DEF AllGiven
<1>1. n # Root
  BY DEF CountInv, Called
<1>2. Dir[n] = parent[n] /\ Dir[n] \in Nodes
  BY <1>1, ParentFacts
<1>3. ~OnStack(Dir[n])
  <2>1. 1..Len(stack) = {}
    BY TopFacts
  <2> QED
    BY <2>1 DEF OnStack
<1>4. cnt[w][Dir[n]] = 1 => Dir[n] \in unread[w]
  BY <1>1, <1>3 DEF CountInv
<1>5. cnt[w][Dir[n]] \in {0, 1}
  BY <1>2 DEF AtMostOnce
<1> QED
  BY <1>1, <1>2, <1>4, <1>5

-----------------------------------------------------------------------------
(* the steps that all actions share *)

\* Counting a file touches nothing but its count in this walk.
LEMMA CountedFacts ==
  ASSUME CatalogTypes, NEW w \in Walks, NEW n \in Nodes, Counted(w, n)
  PROVE  /\ cnt' \in [Walks -> [Nodes -> Nat]]
         /\ \A v \in Walks \ {w} : cnt'[v] = cnt[v]
         /\ \A m \in Nodes : cnt'[w][m] = IF m = n THEN cnt[w][m] + 1 ELSE cnt[w][m]
<1>1. cnt \in [Walks -> [Nodes -> Nat]]
  BY DEF CatalogTypes
<1>2. cnt' = [cnt EXCEPT ![w] = [cnt[w] EXCEPT ![n] = cnt[w][n] + 1]]
  BY DEF Counted
<1>3. [cnt[w] EXCEPT ![n] = cnt[w][n] + 1] \in [Nodes -> Nat]
  BY <1>1
<1> QED
  BY <1>1, <1>2, <1>3

\* A walk begins: the root is called, and nothing is counted.
LEMMA Begins ==
  ASSUME TreeInv, UNCHANGED tree, stack' = <<>>, pc' = "call", ret' = 0,
         NEW w, NoneYet(w)'
  PROVE  StackInv' /\ CallInv' /\ CountInv(w)'
<1>1. 1..Len(stack') = {}
  <2>1. Len(<<>>) = 0
    OBVIOUS
  <2> QED
    BY <2>1
<1>2. Dir' = Dir /\ Root \in Nodes /\ Dir[Root] = Start
  BY TreeKept, ParentFacts, Numbers
<1>3. Called(Root)'
  BY <1>2 DEF Called, Here
<1>4. StackInv'
  BY <1>1 DEF StackInv
<1>5. CallInv'
  BY <1>2, <1>3 DEF CallInv
<1>6. \A n \in Nodes : cnt'[w][n] = 0
  BY DEF NoneYet
<1>7. \A n \in Nodes \ {Root} : Dir[n] \in Nodes
  BY ParentFacts
<1>8. \A n \in Nodes \ {Root} : cnt'[w][Dir[n]] # 1
  BY <1>6, <1>7
<1>9. CountInv(w)'
  BY <1>1, <1>2, <1>3, <1>6, <1>8 DEF CountInv
<1> QED
  BY <1>4, <1>5, <1>9

\* Nothing is counted, and no call is made: the walk goes on as it was.
LEMMA WalkKept ==
  ASSUME StackInv, UNCHANGED <<tree, stack, cnt, unread>>, pc # "call", pc' # "call", NEW w
  PROVE  StackInv' /\ CallInv' /\ (CountInv(w) => CountInv(w)')
<1>1. Dir' = Dir
  BY DEF tree, Dir
<1>2. \A m : ~Called(m) /\ ~Called(m)'
  BY DEF Called
<1>3. StackInv'
  BY <1>1 DEF StackInv
<1>4. CallInv'
  BY DEF CallInv
<1>5. CountInv(w) => CountInv(w)'
  BY <1>1, <1>2 DEF CountInv, OnStack
<1> QED
  BY <1>3, <1>4, <1>5

\* dopath makes the buffer long enough for a slash and one more name.
LEMMA Room ==
  ASSUME strlen \in Nat, pathlen \in Nat, strlen + 1 <= pathlen, NameMax + 1 <= pathlen
  PROVE  /\ Grow(strlen) \in Nat
         /\ Grow(strlen) >= strlen + NameMax + 2
         /\ Grow(strlen) >= pathlen
<1>1. NameMax \in Nat
  BY Numbers
<1> QED
  BY <1>1 DEF Grow

\* readdir that gives no entry: the directory has been read to its end, or is
\* noted among those where readdir has failed.
LEMMA NoMoreFacts ==
  ASSUME CatalogTypes, stack # <<>>, walk \in Walks, NoMore \/ UNCHANGED unread
  PROVE  /\ unread' \in [Walks -> SUBSET Nodes]
         /\ \A w \in Walks \ {walk} : unread'[w] = unread[w]
         /\ unread[walk] \subseteq unread'[walk]
         /\ NoMore => Top.todo = {} \/ Top.dir \in unread'[walk]
<1>1. unread \in [Walks -> SUBSET Nodes] /\ Top.dir \in Nodes
  BY TopFacts DEF CatalogTypes, TypeOK
<1>2. CASE NoMore
  <2> DEFINE u == IF Top.todo = {} THEN unread[walk] ELSE unread[walk] \cup {Top.dir}
  <2>1. unread' = [unread EXCEPT ![walk] = u]
    BY <1>2 DEF NoMore
  <2>2. u \in SUBSET Nodes /\ unread[walk] \subseteq u /\ (Top.todo = {} \/ Top.dir \in u)
    BY <1>1
  <2> HIDE DEF u
  <2> QED
    BY <1>1, <2>1, <2>2
<1>3. CASE ~NoMore
  BY <1>1, <1>3
<1> QED
  BY <1>2, <1>3

\* What is kept of an ended walk while the other one goes on.
LEMMA EndKept ==
  ASSUME EndInv, UNCHANGED <<tree, walk, rets>>,
         walk = "my_myftw" => /\ cnt'["myftw"] = cnt["myftw"]
                              /\ unread'["myftw"] = unread["myftw"],
         walk # "done"
  PROVE  EndInv'
<1>1. parent' = parent
  BY DEF tree
<1>2. \A w : Ended(w)' => w = "myftw" /\ walk = "my_myftw" /\ Ended(w)
  BY DEF Ended
<1>3. ASSUME Ended("myftw"), walk = "my_myftw", rets["myftw"] = 0 PROVE AllGiven("myftw")'
  <2>1. AllGiven("myftw")
    BY <1>3 DEF EndInv, Walks
  <2> QED
    BY <1>1, <1>3, <2>1 DEF AllGiven
<1>4. ASSUME NEW w \in Walks, Ended(w)', rets'[w] = 0 PROVE AllGiven(w)'
  <2>1. w = "myftw" /\ walk = "my_myftw" /\ Ended("myftw") /\ rets["myftw"] = 0
    BY <1>2, <1>4
  <2>2. AllGiven("myftw")'
    BY <1>3, <2>1
  <2> QED
    BY <2>1, <2>2 DEF AllGiven
<1> QED
  BY <1>4 DEF EndInv

-----------------------------------------------------------------------------
(* the actions *)

\* main begins with a tree and nothing else.
LEMMA InitCatalog == Init => CatalogInv
<1> SUFFICES ASSUME Init PROVE CatalogInv
  OBVIOUS
<1>1. TreeInv
  BY DEF Init, TreeInv
<1>2. /\ walk = "myftw" /\ pc = "start" /\ stack = <<>> /\ ret = 0
      /\ fullpath = <<>> /\ strlen = 0 /\ pathlen = 0
      /\ arg = name[Root] /\ cwd = argument.home /\ lost = FALSE
      /\ rets = [w \in Walks |-> 0] /\ unread = [w \in Walks |-> {}]
  BY DEF Init
<1>3. cnt = [w \in Walks |-> [n \in Nodes |-> 0]]
  BY DEF Init
<1>4. \A w \in Walks, n \in Nodes : cnt[w][n] = 0
  BY <1>3
<1>5. cnt \in [Walks -> [Nodes -> Nat]]
  BY <1>3
<1>6. Len(stack) = 0 /\ 1..Len(stack) = {}
  BY <1>2
<1>7. CatalogTypes
  <2>1. arg \in Names
    BY <1>1, <1>2, Numbers DEF TreeInv
  <2>2. TypeOK
    <3>1. cwd \in Nodes \cup {Outer, Away}
      BY <1>1, <1>2, ArgumentFacts DEF TreeInv
    <3>2. Len(stack) <= MaxOpen
      BY <1>6, Numbers
    <3>3. unread \in [Walks -> SUBSET Nodes]
      BY <1>2
    <3> QED
      BY <1>2, <3>1, <3>2, <3>3 DEF TypeOK, Walks
  <2>3. rets \in [Walks -> {0, -1}]
    BY <1>2
  <2>4. stack \in Seq(Frames) /\ fullpath \in Seq(Names)
    BY <1>2
  <2> QED
    BY <1>2, <1>5, <2>1, <2>2, <2>3, <2>4 DEF CatalogTypes
<1>8. NoneYet("myftw") /\ NoneYet("my_myftw") /\ OnceInv
  BY <1>4 DEF NoneYet, OnceInv, AtMostOnce, Walks
<1>9. StageInv
  BY <1>2, <1>8 DEF StageInv
<1>10. WalkInv
  BY <1>2, <1>6 DEF WalkInv, StackInv, CallInv
<1>11. EndInv /\ PathInv /\ BufferInv /\ CwdInv
  BY <1>2, <1>6 DEF EndInv, Ended, PathInv, BufferInv, CwdInv
<1> QED
  BY <1>1, <1>7, <1>8, <1>9, <1>10, <1>11 DEF CatalogInv

\* myftw allocates the path and calls dopath for the root.
LEMMA MyftwStep ==
  ASSUME CatalogInv, Myftw
  PROVE  CatalogInv'
<1>1. /\ TreeInv /\ CatalogTypes /\ OnceInv /\ StageInv /\ WalkInv /\ EndInv
      /\ PathInv /\ BufferInv /\ CwdInv
  BY DEF CatalogInv
<1>2. /\ walk = "myftw" /\ pc = "start" /\ UNCHANGED tree /\ stack' = stack /\ ret' = ret
      /\ arg' = arg /\ cwd' = cwd /\ cnt' = cnt /\ rets' = rets /\ lost' = lost
      /\ unread' = unread
  BY DEF Myftw
<1>3. stack = <<>> /\ ret = 0 /\ NoneYet("myftw") /\ NoneYet("my_myftw") /\ ~lost
      /\ cwd = argument.home /\ arg = name[Root] /\ fullpath = <<>>
  BY <1>1, <1>2 DEF StageInv
<1>4. TreeInv' /\ name' = name /\ argument' = argument
  BY <1>1, <1>2, TreeKept
<1>5. OnceInv'
  BY <1>1, <1>2 DEF OnceInv, AtMostOnce
<1>6. NoneYet("myftw")' /\ NoneYet("my_myftw")'
  BY <1>2, <1>3 DEF NoneYet
<1>7. CASE /\ fullpath' = fullpath /\ strlen' = argument.len /\ pc' = "call" /\ walk' = walk
           /\ pathlen' = IF PathAlloc <= argument.len THEN 2 * argument.len ELSE PathAlloc
  <2> DEFINE l == argument.len
  <2>1. l \in Nat \ {0}
    BY <1>1, ArgumentFacts DEF TreeInv
  <2> HIDE DEF l
  <2>2. pathlen' = (IF PathAlloc <= l THEN 2 * l ELSE PathAlloc) /\ strlen' = l
    BY <1>7 DEF l
  <2>3. strlen' \in Nat /\ pathlen' \in Nat /\ NameMax + 1 <= pathlen' /\ strlen' + 1 <= pathlen'
    BY <2>1, <2>2, Numbers
  <2>4. CatalogTypes'
    BY <1>1, <1>2, <1>7, <2>3 DEF CatalogTypes, TypeOK
  <2>5. StackInv' /\ CallInv' /\ CountInv("myftw")'
    BY <1>1, <1>2, <1>3, <1>6, <1>7, Begins
  <2>6. WalkInv'
    BY <1>2, <1>7, <2>5 DEF WalkInv
  <2>7. StageInv'
    BY <1>2, <1>3, <1>4, <1>6, <1>7 DEF StageInv
  <2>8. EndInv' /\ CwdInv'
    BY <1>2, <1>7 DEF EndInv, Ended, CwdInv
  <2>9. Len(stack') = 0 /\ Len(fullpath') = 0
    BY <1>2, <1>3, <1>7
  <2>10. PathInv' /\ BufferInv'
    BY <1>2, <1>7, <2>3, <2>9 DEF PathInv, BufferInv
  <2> QED
    BY <1>4, <1>5, <2>4, <2>6, <2>7, <2>8, <2>10 DEF CatalogInv
<1>8. CASE walk' = "crashed" /\ UNCHANGED <<pathVars, pc>>
  <2>1. fullpath' = fullpath /\ strlen' = strlen /\ pathlen' = pathlen /\ pc' = pc
    BY <1>8 DEF pathVars
  <2>2. CatalogTypes'
    BY <1>1, <1>2, <1>8, <2>1 DEF CatalogTypes, TypeOK
  <2>3. StageInv'
    BY <1>2, <1>3, <1>6, <1>8, <2>1 DEF StageInv
  <2>4. WalkInv' /\ EndInv' /\ PathInv' /\ BufferInv' /\ CwdInv'
    BY <1>2, <1>8, <2>1 DEF WalkInv, EndInv, Ended, PathInv, BufferInv, CwdInv, Walks
  <2> QED
    BY <1>4, <1>5, <2>2, <2>3, <2>4 DEF CatalogInv
<1> QED
  BY <1>7, <1>8 DEF Myftw

\* A call returns to the loop of the directory it was made in.
LEMMA ReturnToLoopStep ==
  ASSUME CatalogInv, ReturnToLoop
  PROVE  CatalogInv'
<1>1. /\ TreeInv /\ CatalogTypes /\ OnceInv /\ StageInv /\ WalkInv /\ EndInv
      /\ PathInv /\ BufferInv /\ CwdInv
  BY DEF CatalogInv
<1>2. /\ pc = "return" /\ stack # <<>> /\ (walk = "myftw" => ret = 0) /\ pc' = "read"
      /\ UNCHANGED tree /\ walk' = walk /\ stack' = stack /\ ret' = ret
      /\ fullpath' = fullpath /\ strlen' = strlen /\ pathlen' = pathlen
      /\ arg' = arg /\ cwd' = cwd /\ cnt' = cnt /\ rets' = rets /\ lost' = lost
      /\ unread' = unread
  BY DEF ReturnToLoop, pathVars
<1>3. TreeInv' /\ name' = name /\ searchable' = searchable /\ readable' = readable
      /\ argument' = argument
  BY <1>1, <1>2, TreeKept
<1>4. CatalogTypes' /\ OnceInv'
  BY <1>1, <1>2 DEF CatalogTypes, TypeOK, OnceInv, AtMostOnce
<1>5. StageInv'
  BY <1>1, <1>2, <1>3 DEF StageInv, NoneYet
<1>6. WalkInv'
  <2> SUFFICES ASSUME walk \in Walks, ~lost
               PROVE  StackInv' /\ CallInv' /\ (ret = 0 => CountInv(walk)')
    BY <1>2 DEF WalkInv
  <2>1. StackInv /\ (ret = 0 => CountInv(walk))
    BY <1>1, <1>2 DEF WalkInv
  <2>2. StackInv' /\ CallInv'
    BY <1>2, <2>1, WalkKept
  <2>3. ASSUME NEW w \in Walks, w = walk, ret = 0 PROVE CountInv(w)'
    BY <1>2, <2>1, <2>3, WalkKept
  <2>4. ret = 0 => CountInv(walk)'
    BY <1>2, <2>3 DEF CountInv
  <2> QED
    BY <2>2, <2>4
<1>7. EndInv'
  <2>1. walk # "done"
    BY <1>1, <1>2 DEF StageInv
  <2> QED
    BY <1>1, <1>2, <2>1, EndKept
<1>8. CwdInv'
  BY <1>1, <1>2, <1>3 DEF CwdInv, Entered, Top
<1>9. PathInv'
  <2>1. Len(stack) \in Nat
    BY <1>1, TopFacts
  <2> QED
    BY <1>1, <1>2, <1>3, <2>1 DEF PathInv
<1>10. BufferInv'
  BY <1>1, <1>2 DEF BufferInv
<1> QED
  BY <1>3, <1>4, <1>5, <1>6, <1>7, <1>8, <1>9, <1>10 DEF CatalogInv

\* myftw has returned and my_myftw begins, or that has returned too.
LEMMA WalkEndsStep ==
  ASSUME CatalogInv, WalkEnds
  PROVE  CatalogInv'
<1>1. /\ TreeInv /\ CatalogTypes /\ OnceInv /\ StageInv /\ WalkInv /\ EndInv
      /\ PathInv /\ BufferInv /\ CwdInv
  BY DEF CatalogInv
<1>2. /\ walk \in Walks /\ pc = "return" /\ stack = <<>>
      /\ rets' = [rets EXCEPT ![walk] = ret] /\ ret' = 0
      /\ walk' = (IF walk = "myftw" THEN "my_myftw" ELSE "done")
      /\ pc' = (IF walk = "myftw" THEN "call" ELSE "return")
      /\ UNCHANGED tree /\ stack' = stack
      /\ fullpath' = fullpath /\ strlen' = strlen /\ pathlen' = pathlen
      /\ arg' = arg /\ cwd' = cwd /\ cnt' = cnt /\ lost' = lost /\ unread' = unread
  BY DEF WalkEnds, pathVars
<1>3. TreeInv' /\ name' = name /\ searchable' = searchable /\ readable' = readable
      /\ argument' = argument
  BY <1>1, <1>2, TreeKept
<1>4. rets' \in [Walks -> {0, -1}] /\ rets'[walk] = ret /\ \A v \in Walks \ {walk} : rets'[v] = rets[v]
  BY <1>1, <1>2 DEF CatalogTypes, TypeOK
<1>5. CatalogTypes' /\ OnceInv'
  <2>1. walk' \in Walks \cup {"done", "crashed"} /\ pc' \in {"start", "call", "read", "return"}
    BY <1>2 DEF Walks
  <2> QED
    BY <1>1, <1>2, <1>4, <2>1 DEF CatalogTypes, TypeOK, OnceInv, AtMostOnce
<1>6. ASSUME ~lost, ret = 0 PROVE AllGiven(walk)
  <2>1. CountInv(walk)
    BY <1>1, <1>2, <1>6 DEF WalkInv
  <2>2. AtMostOnce(walk)
    BY <1>1, <1>2, <1>6 DEF OnceInv, Walks
  <2> QED
    BY <1>1, <1>2, <2>1, <2>2, AllCounted
<1>7. ASSUME NEW w \in Walks, ~(w = "my_myftw" /\ lost), rets'[w] = 0, Ended(w)'
      PROVE  AllGiven(w)'
  <2>1. walk = "myftw" => ~lost
    BY <1>1 DEF StageInv
  <2>2. AllGiven(w)
    <3>1. CASE w = walk
      <4>1. ~lost /\ ret = 0
        BY <1>2, <1>4, <1>7, <2>1, <3>1 DEF Walks
      <4> QED
        BY <1>6, <3>1, <4>1
    <3>2. CASE w # walk
      <4>1. w = "myftw" /\ walk = "my_myftw"
        BY <1>2, <1>7, <3>2 DEF Walks, Ended
      <4>2. rets[w] = 0 /\ Ended(w)
        BY <1>4, <1>7, <3>2, <4>1 DEF Ended
      <4> QED
        BY <1>1, <1>7, <4>2 DEF EndInv
    <3> QED
      BY <3>1, <3>2
  <2>3. parent' = parent
    BY <1>2 DEF tree
  <2> QED
    BY <1>2, <2>2, <2>3 DEF AllGiven
<1>8. EndInv'
  BY <1>2, <1>7 DEF EndInv
<1>9. Len(stack) = 0 /\ Len(stack) \in Nat
  BY <1>1, <1>2, TopFacts
<1>10. fullpath' = <<>>
  <2>1. walk = "myftw" => Len(fullpath) = 0 /\ fullpath \in Seq(Names)
    BY <1>1, <1>2, <1>9 DEF PathInv, CatalogTypes
  <2>2. walk = "myftw" => fullpath = <<>>
    BY <2>1, EmptySeq
  <2>3. walk = "my_myftw" => fullpath = <<>>
    BY <1>1 DEF PathInv
  <2> QED
    BY <1>2, <2>2, <2>3 DEF Walks
<1>11. walk' # "myftw" /\ walk' \in {"my_myftw", "done"}
  BY <1>2
<1>12. PathInv' /\ BufferInv'
  BY <1>1, <1>2, <1>10, <1>11 DEF PathInv, BufferInv
<1>13. CwdInv'
  <2>1. CASE walk = "myftw"
    <3>1. NoneYet("my_myftw") /\ cwd = argument.home
      BY <1>1, <2>1 DEF StageInv
    <3>2. cnt'["my_myftw"][Root] = 0
      BY <1>2, <3>1, Numbers DEF NoneYet
    <3> QED
      BY <1>2, <1>3, <3>1, <3>2 DEF CwdInv, Entered
  <2>2. CASE walk = "my_myftw"
    BY <1>1, <1>2, <1>3, <2>2 DEF CwdInv, Entered
  <2> QED
    BY <1>2, <2>1, <2>2 DEF Walks
<1>14. CASE walk = "myftw"
  <2>1. ~lost /\ NoneYet("my_myftw")
    BY <1>1, <1>14 DEF StageInv
  <2>2. walk' = "my_myftw" /\ pc' = "call"
    BY <1>2, <1>14
  <2>3. NoneYet("my_myftw")'
    BY <1>2, <2>1 DEF NoneYet
  <2>4. StackInv' /\ CallInv' /\ CountInv("my_myftw")'
    BY <1>1, <1>2, <2>2, <2>3, Begins
  <2>5. WalkInv'
    BY <2>2, <2>4 DEF WalkInv
  <2>6. StageInv'
    BY <2>2 DEF StageInv
  <2> QED
    BY <1>3, <1>5, <1>8, <1>12, <1>13, <2>5, <2>6 DEF CatalogInv
<1>15. CASE walk # "myftw"
  <2>1. walk = "my_myftw" /\ walk' = "done" /\ pc' = "return"
    BY <1>2, <1>15 DEF Walks
  <2>2. WalkInv' /\ StageInv'
    BY <1>2, <2>1 DEF WalkInv, StageInv, Walks
  <2> QED
    BY <1>3, <1>5, <1>8, <1>12, <1>13, <2>2 DEF CatalogInv
<1> QED
  BY <1>14, <1>15

\* mydopath takes the next entry.
LEMMA MydopathReadStep ==
  ASSUME CatalogInv, MydopathRead
  PROVE  CatalogInv'
<1>1. /\ TreeInv /\ CatalogTypes /\ OnceInv /\ StageInv /\ WalkInv /\ EndInv
      /\ PathInv /\ BufferInv /\ CwdInv
  BY DEF CatalogInv
<1>2. /\ walk = "my_myftw" /\ pc = "read" /\ ret = 0
      /\ UNCHANGED tree /\ walk' = walk /\ ret' = ret
      /\ fullpath' = fullpath /\ strlen' = strlen /\ pathlen' = pathlen
      /\ cwd' = cwd /\ cnt' = cnt /\ rets' = rets /\ lost' = lost /\ unread' = unread
  BY DEF MydopathRead, pathVars
<1>3. PICK c \in Top.todo : arg' = name[c] /\ Reads(c) /\ pc' = "call"
  BY DEF MydopathRead
<1>4. TreeInv' /\ Dir' = Dir /\ name' = name /\ searchable' = searchable /\ readable' = readable
      /\ argument' = argument
  BY <1>1, <1>2, TreeKept
<1>5. stack # <<>> /\ Top \in Frames
  BY <1>1, <1>2, TopFacts DEF StageInv
<1>6. c \in Nodes /\ name[c] \in Names
  BY <1>1, <1>5 DEF Frames, TreeInv
<1>7. stack' \in Seq(Frames) /\ stack' # <<>> /\ Len(stack') = Len(stack)
      /\ \A i \in 1..Len(stack) : stack'[i].dir = stack[i].dir
  BY <1>1, <1>3, <1>5, ReadFacts
<1>8. CatalogTypes' /\ OnceInv'
  BY <1>1, <1>2, <1>3, <1>6, <1>7 DEF CatalogTypes, TypeOK, OnceInv, AtMostOnce
<1>9. StageInv' /\ EndInv'
  BY <1>1, <1>2, <1>3, <1>7, EndKept DEF StageInv
<1>10. PathInv' /\ BufferInv'
  BY <1>1, <1>2, <1>4 DEF PathInv, BufferInv
<1>11. ASSUME ~lost
       PROVE  StackInv' /\ CallInv' /\ CountInv(walk)'
  <2>1. StackInv /\ CountInv("my_myftw")
    BY <1>1, <1>2, <1>11 DEF WalkInv, Walks
  <2>2. StackInv' /\ Here' = Top.dir /\ Dir[c] = Top.dir /\ c \notin Top'.todo
    BY <1>1, <1>2, <1>3, <1>5, <2>1, ReadStack
  <2>3. Word' = name[c]
    BY <1>2, <1>3 DEF Word
  <2>4. "my_myftw" \in Walks
    BY DEF Walks
  <2>5. CountInv("my_myftw")'
    BY <1>1, <1>2, <1>3, <1>5, <2>1, <2>3, <2>4, CountRead
  <2>6. Called(c)'
    BY <1>3, <1>4, <2>2, <2>3 DEF Called
  <2>7. CallInv'
    BY <1>2, <1>6, <2>2, <2>6 DEF CallInv
  <2>8. CountInv(walk)'
    BY <1>2, <2>5 DEF CountInv
  <2> QED
    BY <2>2, <2>7, <2>8
<1>12. WalkInv'
  BY <1>2, <1>11 DEF WalkInv
<1>13. CwdInv'
  <2>1. Top'.dir = Top.dir
    BY <1>1, <1>5, <1>7, TopFacts DEF Top
  <2> QED
    BY <1>1, <1>2, <1>4, <1>5, <1>7, <2>1 DEF CwdInv, Entered
<1> QED
  BY <1>4, <1>8, <1>9, <1>10, <1>12, <1>13 DEF CatalogInv

\* mydopath leaves a directory with chdir("..").
LEMMA MydopathLeaveStep ==
  ASSUME CatalogInv, MydopathLeave
  PROVE  CatalogInv'
<1>1. /\ TreeInv /\ CatalogTypes /\ OnceInv /\ StageInv /\ WalkInv /\ EndInv
      /\ PathInv /\ BufferInv /\ CwdInv
  BY DEF CatalogInv
<1>2. /\ walk = "my_myftw" /\ pc = "read" /\ (ret # 0 \/ NoMore) /\ (NoMore \/ UNCHANGED unread)
      /\ Pop /\ pc' = "return"
      /\ UNCHANGED tree /\ walk' = walk /\ ret' = ret
      /\ fullpath' = fullpath /\ strlen' = strlen /\ pathlen' = pathlen
      /\ arg' = arg /\ cnt' = cnt /\ rets' = rets
  BY DEF MydopathLeave, pathVars
<1>3. PICK d \in Above(cwd) : \E ok \in Enters(d) : Chdir(d, ok)
  BY DEF MydopathLeave
<1>4. PICK ok \in BOOLEAN : cwd' = (IF ok THEN d ELSE cwd) /\ lost' = (lost \/ ~ok)
  BY <1>3 DEF Chdir, Enters
<1>5. TreeInv' /\ Dir' = Dir /\ name' = name /\ searchable' = searchable /\ readable' = readable
      /\ argument' = argument
  BY <1>1, <1>2, TreeKept
<1>6. stack # <<>> /\ Top.dir \in Nodes
  BY <1>1, <1>2, TopFacts DEF StageInv
<1>7. stack' \in Seq(Frames) /\ Len(stack') = Len(stack) - 1 /\ Len(stack) \in Nat
      /\ \A i \in 1..(Len(stack) - 1) : stack'[i] = stack[i]
  BY <1>1, <1>2, <1>6, PopFacts, TopFacts
<1>8. cwd' \in Nodes \cup {Outer, Away} /\ lost' \in BOOLEAN
  <2>1. cwd \in Nodes \cup {Outer, Away} /\ lost \in BOOLEAN
    BY <1>1 DEF CatalogTypes, TypeOK
  <2>2. cwd \in Nodes => parent[cwd] \in Nodes \cup {Outer}
    BY <1>1 DEF TreeInv
  <2>3. d \in Nodes \cup {Outer, Away}
    BY <2>2 DEF Above
  <2> QED
    BY <1>4, <2>1, <2>3
<1>9. Len(stack') <= MaxOpen
  BY <1>1, <1>7, Numbers DEF CatalogTypes, TypeOK
<1>10. /\ unread' \in [Walks -> SUBSET Nodes] /\ unread'["myftw"] = unread["myftw"]
       /\ unread["my_myftw"] \subseteq unread'["my_myftw"]
       /\ NoMore => Top.todo = {} \/ Top.dir \in unread'["my_myftw"]
  <2>1. walk \in Walks /\ "myftw" \in Walks \ {walk}
    BY <1>2 DEF Walks
  <2> QED
    BY <1>1, <1>2, <1>6, <2>1, NoMoreFacts
<1>11. CatalogTypes' /\ OnceInv'
  BY <1>1, <1>2, <1>4, <1>7, <1>8, <1>9, <1>10 DEF CatalogTypes, TypeOK, OnceInv, AtMostOnce
<1>12. StageInv' /\ EndInv'
  BY <1>1, <1>2, <1>10, EndKept DEF StageInv
<1>13. PathInv' /\ BufferInv'
  BY <1>1, <1>2, <1>5 DEF PathInv, BufferInv
<1>14. ASSUME ~lost
       PROVE  StackInv' /\ CallInv' /\ (ret' = 0 => CountInv(walk)') /\ Here' = Dir[Top.dir]
  <2>1. StackInv /\ (ret = 0 => CountInv("my_myftw"))
    BY <1>1, <1>2, <1>14 DEF WalkInv, Walks
  <2>2. StackInv' /\ Here' = Dir[Top.dir]
    BY <1>1, <1>2, <1>6, <2>1, PopStack
  <2>3. "my_myftw" \in Walks /\ AtMostOnce("my_myftw")
    BY <1>1, <1>14 DEF Walks, OnceInv
  <2>4. ret = 0 => Top.todo = {} \/ Top.dir \in unread'["my_myftw"]
    BY <1>2, <1>10
  <2>5. ret = 0 => CountInv("my_myftw")'
    BY <1>1, <1>2, <1>6, <1>10, <2>1, <2>3, <2>4, CountPop
  <2>6. ret' = 0 => CountInv(walk)'
    BY <1>2, <2>5 DEF CountInv
  <2> QED
    BY <1>2, <2>2, <2>6 DEF CallInv
<1>15. WalkInv'
  BY <1>2, <1>4, <1>14 DEF WalkInv
<1>16. CwdInv'
  <2> SUFFICES ASSUME ~lost'
               PROVE  /\ Entered
                      /\ stack' # <<>> => cwd' = Top'.dir
                      /\ stack' = <<>> => cwd' = argument.up
    BY <1>2, <1>5 DEF CwdInv, Entered
  <2>1. ~lost /\ cwd' = d
    BY <1>4
  <2>2. Entered /\ cwd = Top.dir
    BY <1>1, <1>2, <1>6, <2>1 DEF CwdInv
  <2>3. d = parent[Top.dir]
    BY <1>6, <2>2 DEF Above
  <2>4. Here' = Dir[Top.dir]
    BY <1>14, <2>1
  <2>5. CASE stack' = <<>>
    <3>1. Top.dir = Root
      BY <1>1, <1>6, <2>4, <2>5, ParentFacts DEF Here
    <3> QED
      BY <1>1, <2>1, <2>2, <2>3, <2>5, <3>1 DEF TreeInv
  <2>6. CASE stack' # <<>>
    <3>1. Top'.dir = Dir[Top.dir]
      BY <2>4, <2>6 DEF Here
    <3>2. Len(stack') \in 1..Len(stack')
      BY <1>7, <2>6, EmptySeq
    <3>3. Top'.dir \in Nodes
      <4>1. stack'[Len(stack')] \in Frames
        BY <1>7, <3>2
      <4> QED
        BY <4>1 DEF Top, Frames
    <3>4. Top.dir # Root
      BY <1>1, <1>6, <3>1, <3>3, ParentFacts, Numbers
    <3>5. Dir[Top.dir] = parent[Top.dir]
      BY <1>1, <1>6, <3>4, ParentFacts
    <3> QED
      BY <2>1, <2>2, <2>3, <2>6, <3>1, <3>5
  <2> QED
    BY <2>5, <2>6
<1> QED
  BY <1>5, <1>11, <1>12, <1>13, <1>15, <1>16 DEF CatalogInv

\* mydopath counts a file; of a directory it opens it and goes there.
LEMMA MydopathCallStep ==
  ASSUME CatalogInv, MydopathCall
  PROVE  CatalogInv'
<1>1. /\ TreeInv /\ CatalogTypes /\ OnceInv /\ StageInv /\ WalkInv /\ EndInv
      /\ PathInv /\ BufferInv /\ CwdInv
  BY DEF CatalogInv
<1>2. /\ walk = "my_myftw" /\ pc = "call" /\ UNCHANGED tree /\ walk' = walk
      /\ fullpath' = fullpath /\ strlen' = strlen /\ pathlen' = pathlen
      /\ arg' = arg /\ rets' = rets /\ unread' = unread
  BY DEF MydopathCall, pathVars
<1>3. TreeInv' /\ Dir' = Dir /\ name' = name /\ searchable' = searchable /\ readable' = readable
      /\ argument' = argument
  BY <1>1, <1>2, TreeKept
<1>4. "my_myftw" \in Walks /\ "myftw" \in Walks \ {"my_myftw"}
  BY DEF Walks
<1>5. PICK n \in Lstat(IF stack = <<>> THEN Root ELSE InDir(cwd, arg)) :
        \/ n = Missing /\ Returns(-1) /\ UNCHANGED <<stack, cwd, cnt, lost>>
        \/ /\ n \in Nodes \ dirs /\ Counted("my_myftw", n)
           /\ Returns(0) /\ UNCHANGED <<stack, cwd, lost>>
        \/ /\ n \in dirs /\ Counted("my_myftw", n)
           /\ \/ /\ Opens(n) /\ Push(Frame(n)) /\ pc' = "read" /\ UNCHANGED ret
                 /\ Chdir(n, n \in searchable)
              \/ ~Opens(n) /\ Returns(-1) /\ UNCHANGED <<stack, cwd, lost>>
  BY DEF MydopathCall
<1>7. ASSUME ~lost
      PROVE  /\ StackInv /\ CountInv("my_myftw") /\ ret = 0 /\ AtMostOnce("my_myftw")
             /\ \E m \in Nodes : Called(m) /\ (stack # <<>> => m \notin Top.todo)
             /\ n # Missing => n \in Nodes /\ Called(n) /\ (stack # <<>> => n \notin Top.todo)
  <2>1. StackInv /\ CallInv
    BY <1>1, <1>2, <1>4, <1>7 DEF WalkInv
  <2>2. ret = 0 /\ \E m \in Nodes : Called(m) /\ (stack # <<>> => m \notin Top.todo)
    BY <1>2, <2>1 DEF CallInv
  <2>3. CountInv("my_myftw") /\ AtMostOnce("my_myftw")
    BY <1>1, <1>2, <1>4, <1>7, <2>2 DEF WalkInv, OnceInv
  <2>4. PICK m \in Nodes : Called(m) /\ (stack # <<>> => m \notin Top.todo)
    BY <2>2
  <2>5. CASE stack = <<>>
    <3>1. m = Root
      BY <1>1, <2>4, <2>5, CalledRoot
    <3>2. n \in {m, Missing}
      BY <1>5, <2>5, <3>1 DEF Lstat
    <3> QED
      BY <2>1, <2>2, <2>3, <2>4, <3>2
  <2>6. CASE stack # <<>>
    <3>1. m # Root
      BY <1>1, <2>4, <2>6, CalledRoot
    <3>2. cwd = Dir[m] /\ arg = name[m]
      BY <1>1, <1>2, <1>7, <2>4, <2>6, <3>1 DEF Called, Word, Here, CwdInv
    <3>3. InDir(cwd, arg) \in {m, Missing}
      BY <1>1, <3>1, <3>2, InDirFinds
    <3>4. n \in {m, Missing}
      BY <1>5, <2>6, <3>3 DEF Lstat
    <3> QED
      BY <2>1, <2>2, <2>3, <2>4, <3>4
  <2> QED
    BY <2>5, <2>6
<1>8. \* before the root is called it has not been counted
      ASSUME ~lost, stack = <<>> PROVE cnt["my_myftw"][Root] = 0 /\ cwd = argument.home
  <2>1. cnt["my_myftw"][Root] = 0
    BY <1>1, <1>7, <1>8, CalledRoot DEF CountInv
  <2> QED
    BY <1>1, <1>2, <1>8, <2>1 DEF CwdInv, Entered
<1>9. PathInv' /\ BufferInv'
  BY <1>1, <1>2, <1>3 DEF PathInv, BufferInv
<1>10. CASE n = Missing /\ Returns(-1) /\ UNCHANGED <<stack, cwd, cnt, lost>>
  <2>1. pc' = "return" /\ ret' = -1 /\ stack' = stack /\ cwd' = cwd /\ cnt' = cnt /\ lost' = lost
    BY <1>10 DEF Returns
  <2>2. CatalogTypes' /\ OnceInv'
    BY <1>1, <1>2, <2>1 DEF CatalogTypes, TypeOK, OnceInv, AtMostOnce
  <2>3. StageInv' /\ EndInv'
    BY <1>1, <1>2, <2>1, EndKept DEF StageInv
  <2>4. ASSUME ~lost PROVE StackInv' /\ CallInv'
    BY <1>3, <1>7, <2>1, <2>4 DEF StackInv, CallInv
  <2>5. WalkInv'
    BY <1>2, <2>1, <2>4 DEF WalkInv
  <2>6. CwdInv'
    BY <1>1, <1>2, <1>3, <2>1 DEF CwdInv, Entered, Top
  <2> QED
    BY <1>3, <1>9, <2>2, <2>3, <2>5, <2>6 DEF CatalogInv
<1>11. CASE n \in Nodes /\ Counted("my_myftw", n)
  <2>1. n # Missing
    BY <1>11, Numbers
  <2>2. /\ cnt' \in [Walks -> [Nodes -> Nat]] /\ cnt'["myftw"] = cnt["myftw"]
        /\ \A m \in Nodes : cnt'["my_myftw"][m] =
               IF m = n THEN cnt["my_myftw"][m] + 1 ELSE cnt["my_myftw"][m]
    BY <1>1, <1>4, <1>11, CountedFacts
  <2>3. ASSUME ~lost PROVE AtMostOnce("my_myftw")' /\ cnt["my_myftw"][n] = 0
    <3>1. cnt["my_myftw"][n] = 0
      BY <1>1, <1>7, <2>1, <2>3, CalledNew
    <3>2. \A m \in Nodes : cnt["my_myftw"][m] \in {0, 1}
      BY <1>7, <2>3 DEF AtMostOnce
    <3> QED
      BY <2>2, <3>1, <3>2 DEF AtMostOnce
  <2>4. AtMostOnce("myftw")'
    BY <1>1, <2>2 DEF OnceInv, AtMostOnce
  <2>5. EndInv'
    BY <1>1, <1>2, <2>2, EndKept
  <2>6. \* the root stays as it was while a file below it is called
        ASSUME ~lost, stack # <<>> PROVE Entered'
    <3>1. n # Root
      BY <1>1, <1>7, <2>1, <2>6, CalledRoot
    <3>2. Entered
      BY <1>1, <1>2, <2>6 DEF CwdInv
    <3> QED
      BY <1>3, <2>2, <3>1, <3>2, Numbers DEF Entered
  <2>7. CASE (ret' = 0 \/ ret' = -1) /\ pc' = "return" /\ (ret' = 0 => n \notin dirs)
             /\ ~(n \in dirs /\ Opens(n)) /\ UNCHANGED <<stack, cwd, lost>>
    <3>1. CatalogTypes'
      BY <1>1, <1>2, <2>2, <2>7 DEF CatalogTypes, TypeOK
    <3>2. OnceInv'
      BY <2>3, <2>4, <2>7 DEF OnceInv
    <3>3. StageInv'
      BY <1>2, <2>7 DEF StageInv
    <3>4. ASSUME ~lost PROVE StackInv' /\ CallInv' /\ (ret' = 0 => CountInv(walk)')
      <4>1. StackInv' /\ CallInv'
        BY <1>3, <1>7, <2>7, <3>4 DEF StackInv, CallInv
      <4>2. ret' = 0 => CountInv("my_myftw")'
        BY <1>1, <1>2, <1>4, <1>7, <1>11, <2>1, <2>7, <3>4, CountCalled
      <4>3. ret' = 0 => CountInv(walk)'
        BY <1>2, <4>2 DEF CountInv
      <4> QED
        BY <4>1, <4>3
    <3>5. WalkInv'
      BY <1>2, <2>7, <3>4 DEF WalkInv
    <3>6. ASSUME ~lost, stack = <<>> PROVE ~Entered'
      <4>1. n = Root
        BY <1>1, <1>7, <2>1, <3>6, CalledRoot
      <4>2. Len(stack) < MaxOpen
        BY <1>1, <3>6, TopFacts, Numbers
      <4>3. Root \notin readable
        BY <1>1, <2>7, <4>1, <4>2 DEF Opens, TreeInv
      <4> QED
        BY <1>3, <4>3 DEF Entered
    <3>7. CwdInv'
      <4>1. /\ stack' = stack /\ cwd' = cwd /\ lost' = lost /\ argument' = argument
            /\ walk' = "my_myftw" /\ Top' = Top
        BY <1>2, <1>3, <2>7 DEF Top
      <4>2. ~lost /\ stack # <<>> => cwd = Top.dir
        BY <1>1, <1>2 DEF CwdInv
      <4> QED
        BY <1>8, <2>6, <3>6, <4>1, <4>2 DEF CwdInv
    <3> QED
      BY <1>3, <1>9, <2>5, <3>1, <3>2, <3>3, <3>5, <3>7 DEF CatalogInv
  <2>8. CASE /\ n \in dirs /\ Opens(n) /\ Push(Frame(n)) /\ pc' = "read" /\ UNCHANGED ret
             /\ Chdir(n, n \in searchable)
    <3>1. /\ stack' \in Seq(Frames) /\ stack' # <<>> /\ Len(stack') = Len(stack) + 1
          /\ stack'[Len(stack) + 1] = Frame(n)
      BY <1>1, <1>11, <2>8, PushFacts
    <3>2. Len(stack') <= MaxOpen
      BY <1>1, <2>8, <3>1, TopFacts, Numbers DEF Opens
    <3>3. lost' \in BOOLEAN /\ (~lost' => ~lost /\ cwd' = n) /\ cwd' \in Nodes \cup {Outer, Away}
      <4>1. lost \in BOOLEAN /\ cwd \in Nodes \cup {Outer, Away}
        BY <1>1 DEF CatalogTypes, TypeOK
      <4>2. lost' = (lost \/ n \notin searchable)
        BY <2>8 DEF Chdir
      <4>3. cwd' = IF n \in searchable THEN n ELSE cwd
        BY <2>8 DEF Chdir
      <4> QED
        BY <1>11, <4>1, <4>2, <4>3
    <3>4. CatalogTypes'
      BY <1>1, <1>2, <2>2, <2>8, <3>1, <3>2, <3>3 DEF CatalogTypes, TypeOK
    <3>5. OnceInv'
      BY <2>3, <2>4, <3>3 DEF OnceInv
    <3>6. StageInv'
      BY <1>2, <2>8, <3>1 DEF StageInv
    <3>7. ASSUME ~lost' PROVE StackInv' /\ CallInv' /\ CountInv(walk)'
      <4>1. Dir[n] = Here
        BY <1>7, <2>1, <3>3, <3>7 DEF Called
      <4>2. StackInv'
        BY <1>1, <1>2, <1>7, <1>11, <2>8, <3>3, <3>7, <4>1, PushStack
      <4>3. CountInv("my_myftw")'
        BY <1>1, <1>2, <1>4, <1>7, <1>11, <2>1, <2>8, <3>3, <3>7, CountCalled
      <4>4. CountInv(walk)'
        BY <1>2, <4>3 DEF CountInv
      <4> QED
        BY <2>8, <4>2, <4>4 DEF CallInv
    <3>8. WalkInv'
      BY <1>2, <3>7 DEF WalkInv
    <3>9. CwdInv'
      <4> SUFFICES ASSUME ~lost' PROVE Entered' /\ cwd' = Top'.dir
        BY <3>1 DEF CwdInv
      <4>1. Top'.dir = n
        BY <3>1 DEF Top, Frame
      <4>2. CASE stack # <<>>
        BY <2>6, <3>3, <4>1, <4>2
      <4>3. CASE stack = <<>>
        <5>1. n = Root
          BY <1>1, <1>7, <2>1, <3>3, <4>3, CalledRoot
        <5>2. cnt'["my_myftw"][Root] = 1
          BY <1>11, <2>2, <2>3, <3>3, <5>1
        <5>3. Root \in readable
          BY <2>8, <5>1 DEF Opens
        <5> QED
          BY <1>3, <3>3, <4>1, <5>2, <5>3 DEF Entered
      <4> QED
        BY <4>2, <4>3
    <3> QED
      BY <1>3, <1>9, <2>5, <3>4, <3>5, <3>6, <3>8, <3>9 DEF CatalogInv
  <2>9. \/ /\ (ret' = 0 \/ ret' = -1) /\ pc' = "return" /\ (ret' = 0 => n \notin dirs)
           /\ ~(n \in dirs /\ Opens(n)) /\ UNCHANGED <<stack, cwd, lost>>
        \/ /\ n \in dirs /\ Opens(n) /\ Push(Frame(n)) /\ pc' = "read" /\ UNCHANGED ret
           /\ Chdir(n, n \in searchable)
    BY <1>5, <2>1 DEF Returns
  <2> QED
    BY <2>7, <2>8, <2>9
<1>12. dirs \subseteq Nodes
  BY <1>1 DEF TreeInv
<1> QED
  BY <1>5, <1>10, <1>11, <1>12

\* dopath puts the next entry's name behind the slash.
LEMMA DopathReadStep ==
  ASSUME CatalogInv, DopathRead
  PROVE  CatalogInv'
<1>1. /\ TreeInv /\ CatalogTypes /\ OnceInv /\ StageInv /\ WalkInv /\ EndInv
      /\ PathInv /\ BufferInv /\ CwdInv
  BY DEF CatalogInv
<1>2. /\ walk = "myftw" /\ pc = "read" /\ UNCHANGED tree /\ walk' = walk /\ ret' = ret
      /\ pathlen' = pathlen /\ arg' = arg /\ cwd' = cwd /\ cnt' = cnt
      /\ rets' = rets /\ lost' = lost /\ unread' = unread
  BY DEF DopathRead
<1>3. PICK c \in Top.todo : /\ fullpath' = Append(SubSeq(fullpath, 1, Top.names), name[c])
                            /\ strlen' = Top.n + NameLen[name[c]]
                            /\ Reads(c) /\ pc' = "call"
  BY DEF DopathRead
<1>4. TreeInv' /\ Dir' = Dir /\ name' = name /\ searchable' = searchable
      /\ argument' = argument
  BY <1>1, <1>2, TreeKept
<1>5. stack # <<>> /\ Top \in Frames /\ Len(stack) \in 1..Len(stack) /\ ret = 0 /\ ~lost
  BY <1>1, <1>2, TopFacts DEF StageInv
<1>6. c \in Nodes /\ name[c] \in Names
  BY <1>1, <1>5 DEF Frames, TreeInv
<1> DEFINE k == Len(stack)
           p == SubSeq(fullpath, 1, k - 1)
<1>7. /\ stack' \in Seq(Frames) /\ stack' # <<>> /\ Len(stack') = k /\ k \in Nat \ {0}
      /\ \A i \in 1..k : /\ stack'[i].dir = stack[i].dir /\ stack'[i].n = stack[i].n
                         /\ stack'[i].names = stack[i].names
  BY <1>1, <1>3, <1>5, ReadFacts, TopFacts
<1>8. Top.names = k - 1 /\ fullpath \in Seq(Names) /\ k - 1 \in 0..Len(fullpath)
  <2>1. Top.names = k - 1 /\ Len(fullpath) + 1 >= k
    BY <1>1, <1>2, <1>5 DEF PathInv, Top
  <2>2. fullpath \in Seq(Names) /\ Len(fullpath) \in Nat
    BY <1>1, EmptySeq DEF CatalogTypes
  <2> QED
    BY <1>7, <2>1, <2>2
<1>9. p \in Seq(Names) /\ Len(p) = k - 1 /\ \A i \in 1..(k - 1) : p[i] = fullpath[i]
  BY <1>8, FrontFacts
<1>10. fullpath' = Append(p, name[c])
  BY <1>3, <1>8
<1> HIDE DEF p
<1>11. /\ fullpath' \in Seq(Names) /\ Len(fullpath') = (k - 1) + 1
       /\ fullpath'[(k - 1) + 1] = name[c]
       /\ \A i \in 1..(k - 1) : fullpath'[i] = fullpath[i]
  BY <1>6, <1>9, <1>10, AppendFacts
<1>12. Len(fullpath') = k /\ fullpath'[k] = name[c]
  BY <1>7, <1>11
<1>13. strlen' \in Nat /\ strlen' + 1 <= pathlen
  <2>1. Top.n \in Nat \ {0} /\ NameLen[name[c]] \in 1..NameMax /\ NameMax \in Nat
    BY <1>5, <1>6, Numbers DEF Frames
  <2>2. Top.n + NameMax + 1 <= pathlen /\ pathlen \in Nat
    BY <1>1, <1>2, <1>5 DEF BufferInv, Top, CatalogTypes
  <2>3. strlen' = Top.n + NameLen[name[c]]
    BY <1>3
  <2> DEFINE t == Top.n
             l == NameLen[name[c]]
  <2>4. t \in Nat \ {0} /\ l \in 1..NameMax /\ strlen' = t + l /\ t + NameMax + 1 <= pathlen
    BY <2>1, <2>2, <2>3
  <2> HIDE DEF t, l
  <2> QED
    BY <2>1, <2>2, <2>4
<1>14. CatalogTypes' /\ OnceInv'
  BY <1>1, <1>2, <1>3, <1>7, <1>11, <1>13 DEF CatalogTypes, TypeOK, OnceInv, AtMostOnce
<1>15. StageInv' /\ EndInv' /\ CwdInv'
  BY <1>1, <1>2, <1>3, <1>4, <1>7, EndKept DEF StageInv, CwdInv, NoneYet
<1>16. WalkInv'
  <2>1. StackInv /\ CountInv("myftw") /\ "myftw" \in Walks
    BY <1>1, <1>2, <1>5 DEF WalkInv, Walks
  <2>2. StackInv' /\ Here' = Top.dir /\ Dir[c] = Top.dir /\ c \notin Top'.todo
    BY <1>1, <1>2, <1>3, <1>5, <2>1, ReadStack
  <2>3. Word' = name[c]
    BY <1>2, <1>12 DEF Word
  <2>4. CountInv("myftw")'
    BY <1>1, <1>2, <1>3, <1>5, <2>1, <2>3, CountRead
  <2>5. Called(c)'
    BY <1>3, <1>4, <2>2, <2>3 DEF Called
  <2>6. CallInv'
    BY <1>2, <1>5, <1>6, <2>2, <2>5 DEF CallInv
  <2> QED
    BY <1>2, <2>2, <2>4, <2>6 DEF WalkInv
<1>17. PathInv'
  <2>1. ASSUME NEW i \in 1..k
        PROVE  /\ stack'[i].names = i - 1
               /\ i > 1 => /\ fullpath'[i - 1] = name[stack'[i].dir]
                           /\ stack'[i - 1].dir \in searchable
    <3>1. i > 1 => i - 1 \in 1..k /\ i - 1 \in 1..(k - 1)
      BY <1>7
    <3>2. /\ stack[i].names = i - 1
          /\ i > 1 => fullpath[i - 1] = name[stack[i].dir] /\ stack[i - 1].dir \in searchable
      BY <1>1, <1>2 DEF PathInv
    <3> QED
      BY <1>7, <1>11, <3>1, <3>2
  <2>2. Len(fullpath') + 1 >= Len(stack') /\ Len(fullpath') = Len(stack')
    BY <1>7, <1>12
  <2> QED
    BY <1>2, <1>3, <1>4, <1>7, <2>1, <2>2 DEF PathInv
<1>18. BufferInv'
  BY <1>1, <1>2, <1>7, <1>13 DEF BufferInv
<1> QED
  BY <1>4, <1>14, <1>15, <1>16, <1>17, <1>18 DEF CatalogInv

\* dopath cuts the path when it leaves a directory.
LEMMA DopathLeaveStep ==
  ASSUME CatalogInv, DopathLeave
  PROVE  CatalogInv'
<1>1. /\ TreeInv /\ CatalogTypes /\ OnceInv /\ StageInv /\ WalkInv /\ EndInv
      /\ PathInv /\ BufferInv /\ CwdInv
  BY DEF CatalogInv
<1>2. /\ walk = "myftw" /\ UNCHANGED tree /\ walk' = walk /\ ret' = ret
      /\ (pc = "read" /\ NoMore) \/ (pc = "return" /\ ret # 0 /\ stack # <<>> /\ UNCHANGED unread)
      /\ fullpath' = SubSeq(fullpath, 1, Top.names) /\ strlen' = Top.n - 1
      /\ Pop /\ pc' = "return"
      /\ pathlen' = pathlen /\ arg' = arg /\ cwd' = cwd /\ cnt' = cnt
      /\ rets' = rets /\ lost' = lost
  BY DEF DopathLeave
<1>3. TreeInv' /\ Dir' = Dir /\ name' = name /\ searchable' = searchable
      /\ argument' = argument
  BY <1>1, <1>2, TreeKept
<1>4. stack # <<>> /\ Len(stack) \in 1..Len(stack) /\ Top \in Frames /\ ~lost /\ pc # "start"
  BY <1>1, <1>2, TopFacts DEF StageInv
<1> DEFINE k == Len(stack)
<1>5. /\ stack' \in Seq(Frames) /\ Len(stack') = k - 1 /\ k \in Nat \ {0}
      /\ \A i \in 1..(k - 1) : stack'[i] = stack[i]
  BY <1>1, <1>2, <1>4, PopFacts, TopFacts
<1>6. Top.names = k - 1 /\ fullpath \in Seq(Names) /\ k - 1 \in 0..Len(fullpath)
  <2>1. Top.names = k - 1 /\ Len(fullpath) + 1 >= k
    BY <1>1, <1>2, <1>4 DEF PathInv, Top
  <2>2. fullpath \in Seq(Names) /\ Len(fullpath) \in Nat
    BY <1>1, EmptySeq DEF CatalogTypes
  <2> QED
    BY <1>5, <2>1, <2>2
<1>7. /\ fullpath' \in Seq(Names) /\ Len(fullpath') = k - 1
      /\ \A i \in 1..(k - 1) : fullpath'[i] = fullpath[i]
  <2>1. fullpath' = SubSeq(fullpath, 1, k - 1)
    BY <1>2, <1>6
  <2> QED
    BY <1>6, <2>1, FrontFacts
<1>8. strlen' \in Nat /\ strlen' + 1 <= pathlen
  <2>1. Top.n \in Nat \ {0} /\ NameMax \in Nat
    BY <1>4, Numbers DEF Frames
  <2>2. Top.n + NameMax + 1 <= pathlen /\ pathlen \in Nat
    BY <1>1, <1>2, <1>4 DEF BufferInv, Top, CatalogTypes
  <2>3. strlen' = Top.n - 1
    BY <1>2
  <2> DEFINE t == Top.n
  <2>4. t \in Nat \ {0} /\ strlen' = t - 1 /\ t + NameMax + 1 <= pathlen
    BY <2>1, <2>2, <2>3
  <2> HIDE DEF t
  <2> QED
    BY <2>1, <2>2, <2>4
<1>9. Len(stack') <= MaxOpen
  BY <1>1, <1>5, Numbers DEF CatalogTypes, TypeOK
<1>10. /\ unread' \in [Walks -> SUBSET Nodes] /\ unread["myftw"] \subseteq unread'["myftw"]
       /\ NoMore => Top.todo = {} \/ Top.dir \in unread'["myftw"]
  <2>1. walk \in Walks
    BY <1>2 DEF Walks
  <2> QED
    BY <1>1, <1>2, <1>4, <2>1, NoMoreFacts
<1>11. CatalogTypes' /\ OnceInv'
  BY <1>1, <1>2, <1>5, <1>7, <1>8, <1>9, <1>10 DEF CatalogTypes, TypeOK, OnceInv, AtMostOnce
<1>12. StageInv' /\ EndInv' /\ CwdInv'
  BY <1>1, <1>2, <1>3, EndKept DEF StageInv, CwdInv, NoneYet
<1>13. WalkInv'
  <2>1. StackInv /\ (ret = 0 => CountInv("myftw")) /\ "myftw" \in Walks /\ AtMostOnce("myftw")
    BY <1>1, <1>2, <1>4 DEF WalkInv, Walks, OnceInv
  <2>2. StackInv'
    BY <1>1, <1>2, <1>4, <2>1, PopStack
  <2>3. ret = 0 => pc = "read" /\ (Top.todo = {} \/ Top.dir \in unread'["myftw"])
    BY <1>2, <1>10
  <2>4. ret = 0 => CountInv("myftw")'
    BY <1>1, <1>2, <1>4, <1>10, <2>1, <2>3, CountPop
  <2> QED
    BY <1>2, <2>2, <2>4 DEF WalkInv, CallInv
<1>14. PathInv'
  <2>1. ASSUME NEW i \in 1..(k - 1)
        PROVE  /\ stack'[i].names = i - 1
               /\ i > 1 => /\ fullpath'[i - 1] = name[stack'[i].dir]
                           /\ stack'[i - 1].dir \in searchable
    <3>1. i \in 1..k /\ (i > 1 => i - 1 \in 1..(k - 1))
      BY <1>5
    <3>2. /\ stack[i].names = i - 1
          /\ i > 1 => fullpath[i - 1] = name[stack[i].dir] /\ stack[i - 1].dir \in searchable
      BY <1>1, <1>2, <1>4, <3>1 DEF PathInv
    <3> QED
      BY <1>5, <1>7, <3>1, <3>2
  <2>2. Len(fullpath') = Len(stack') /\ Len(fullpath') + 1 >= Len(stack')
    BY <1>5, <1>7
  <2> QED
    BY <1>2, <1>3, <1>5, <2>1, <2>2 DEF PathInv
<1>15. BufferInv'
  <2>1. \A i \in 1..(k - 1) : i \in 1..k
    BY <1>5
  <2> QED
    BY <1>1, <1>2, <1>4, <1>5, <1>8, <2>1 DEF BufferInv
<1> QED
  BY <1>3, <1>11, <1>12, <1>13, <1>14, <1>15 DEF CatalogInv

\* dopath counts a file; of a directory it opens it and lengthens the buffer.
LEMMA DopathCallStep ==
  ASSUME CatalogInv, DopathCall
  PROVE  CatalogInv'
<1>1. /\ TreeInv /\ CatalogTypes /\ OnceInv /\ StageInv /\ WalkInv /\ EndInv
      /\ PathInv /\ BufferInv /\ CwdInv
  BY DEF CatalogInv
<1>2. /\ walk = "myftw" /\ pc = "call" /\ UNCHANGED tree /\ fullpath' = fullpath
      /\ arg' = arg /\ cwd' = cwd /\ rets' = rets /\ lost' = lost /\ unread' = unread
  BY DEF DopathCall
<1>3. TreeInv' /\ Dir' = Dir /\ name' = name /\ searchable' = searchable
      /\ argument' = argument
  BY <1>1, <1>2, TreeKept
<1>4. "myftw" \in Walks /\ "my_myftw" \in Walks \ {"myftw"}
  BY DEF Walks
<1>5. StackInv /\ CallInv /\ ret = 0 /\ ~lost /\ NoneYet("my_myftw") /\ AtMostOnce("myftw")
      /\ arg = name[Root] /\ cwd = argument.home
  BY <1>1, <1>2, <1>4 DEF WalkInv, CallInv, StageInv, OnceInv
<1>6. CountInv("myftw")
  BY <1>1, <1>2, <1>4, <1>5 DEF WalkInv
<1>7. PICK m \in Nodes : Called(m) /\ (stack # <<>> => m \notin Top.todo)
  BY <1>2, <1>5 DEF CallInv
<1>8. Resolve(fullpath) = IF m = Root \/ Dir[m] \in searchable THEN m ELSE Missing
  BY <1>1, <1>2, <1>5, <1>7, ResolveCalled
<1>9. /\ fullpath \in Seq(Names) /\ strlen \in Nat /\ pathlen \in Nat /\ NameMax \in Nat
      /\ strlen + 1 <= pathlen /\ NameMax + 1 <= pathlen
      /\ \A i \in 1..Len(stack) : stack[i].n \in Nat /\ stack[i].n + NameMax + 1 <= pathlen
      /\ Len(stack) \in Nat /\ Len(fullpath) = Len(stack)
  <2>1. \A i \in 1..Len(stack) : stack[i].n \in Nat
    BY <1>1, TopFacts DEF Frames
  <2> QED
    BY <1>1, <1>2, <2>1, TopFacts, Numbers DEF CatalogTypes, PathInv, BufferInv
<1>10. \A i \in 1..Len(stack) :
            /\ stack[i].names = i - 1
            /\ i > 1 => fullpath[i - 1] = name[stack[i].dir] /\ stack[i - 1].dir \in searchable
  BY <1>1, <1>2 DEF PathInv
<1> DEFINE g == Grow(strlen)
<1>11. g \in Nat /\ g >= strlen + NameMax + 2 /\ g >= pathlen
  BY <1>9, Room
<1> HIDE DEF g
<1>12. PICK n \in Lstat(Resolve(fullpath)) :
        \/ n = Missing /\ Returns(-1) /\ UNCHANGED <<walk, stack, strlen, pathlen, cnt>>
        \/ /\ n \in Nodes \ dirs /\ Counted("myftw", n)
           /\ Returns(0) /\ UNCHANGED <<walk, stack, strlen, pathlen>>
        \/ /\ n \in dirs /\ Counted("myftw", n)
           /\ pathlen' = g /\ strlen' = strlen + 1
           /\ \/ Opens(n) /\ Push(Frame(n)) /\ pc' = "read" /\ UNCHANGED ret
              \/ ~Opens(n) /\ Returns(-1) /\ UNCHANGED stack
           /\ UNCHANGED walk
        \/ /\ n \in dirs /\ Counted("myftw", n)
           /\ walk' = "crashed" /\ UNCHANGED <<pc, stack, ret, strlen, pathlen>>
  BY DEF DopathCall, g
<1>13. n # Missing => n = m /\ (n = Root \/ Dir[n] \in searchable)
  BY <1>8, <1>12 DEF Lstat
<1>14. \* the path of a call that returns, with or without its slash
       ASSUME walk' = walk, pc' = "return", stack' = stack,
              (strlen' = strlen /\ pathlen' = pathlen) \/ (strlen' = strlen + 1 /\ pathlen' = g)
       PROVE  PathInv' /\ BufferInv' /\ strlen' \in Nat /\ pathlen' \in Nat
  <2>1. strlen' \in Nat /\ pathlen' \in Nat /\ pathlen' >= pathlen /\ strlen' + 1 <= pathlen'
    <3>1. strlen \in Nat /\ pathlen \in Nat /\ NameMax \in Nat /\ strlen + 1 <= pathlen
      BY <1>9
    <3>2. (strlen' = strlen /\ pathlen' = pathlen) \/ (strlen' = strlen + 1 /\ pathlen' = g)
      BY <1>14
    <3> QED
      BY <1>11, <3>1, <3>2
  <2>2. NameMax + 1 <= pathlen' /\ \A i \in 1..Len(stack) : stack[i].n + NameMax + 1 <= pathlen'
    <3>1. pathlen' >= pathlen /\ pathlen' \in Nat /\ pathlen \in Nat /\ NameMax \in Nat
      BY <1>9, <2>1
    <3>2. NameMax + 1 <= pathlen'
      BY <1>9, <3>1
    <3>3. ASSUME NEW i \in 1..Len(stack) PROVE stack[i].n + NameMax + 1 <= pathlen'
      <4> DEFINE t == stack[i].n
      <4>1. t \in Nat /\ t + NameMax + 1 <= pathlen
        BY <1>9
      <4> HIDE DEF t
      <4>2. t + NameMax + 1 <= pathlen'
        BY <3>1, <4>1
      <4> QED
        BY <4>2 DEF t
    <3> QED
      BY <3>2, <3>3
  <2>3. BufferInv'
    BY <1>2, <1>14, <2>1, <2>2 DEF BufferInv
  <2>4. PathInv'
    BY <1>2, <1>3, <1>9, <1>10, <1>14 DEF PathInv
  <2> QED
    BY <2>1, <2>3, <2>4
<1>15. ASSUME walk' = "crashed" \/ walk' = walk PROVE EndInv' /\ CwdInv'
  BY <1>2, <1>15 DEF EndInv, Ended, CwdInv
<1>16. CASE n = Missing /\ Returns(-1) /\ UNCHANGED <<walk, stack, strlen, pathlen, cnt>>
  <2>1. pc' = "return" /\ ret' = -1 /\ walk' = walk /\ stack' = stack /\ strlen' = strlen
        /\ pathlen' = pathlen /\ cnt' = cnt
    BY <1>16 DEF Returns
  <2>2. CatalogTypes' /\ OnceInv'
    BY <1>1, <1>2, <2>1 DEF CatalogTypes, TypeOK, OnceInv, AtMostOnce
  <2>3. StageInv'
    BY <1>2, <1>3, <1>5, <2>1 DEF StageInv, NoneYet
  <2>4. WalkInv'
    BY <1>3, <1>5, <2>1 DEF WalkInv, StackInv, CallInv
  <2>5. PathInv' /\ BufferInv'
    BY <1>14, <2>1
  <2> QED
    BY <1>3, <1>15, <2>1, <2>2, <2>3, <2>4, <2>5 DEF CatalogInv
<1>17. CASE n \in Nodes /\ Counted("myftw", n)
  <2>1. n # Missing /\ n = m /\ (n = Root \/ Dir[n] \in searchable) /\ Called(n)
        /\ (stack # <<>> => n \notin Top.todo)
    BY <1>7, <1>13, <1>17, Numbers
  <2>2. /\ cnt' \in [Walks -> [Nodes -> Nat]] /\ cnt'["my_myftw"] = cnt["my_myftw"]
        /\ \A e \in Nodes : cnt'["myftw"][e] =
               IF e = n THEN cnt["myftw"][e] + 1 ELSE cnt["myftw"][e]
    BY <1>1, <1>4, <1>17, CountedFacts
  <2>3. OnceInv'
    <3>1. cnt["myftw"][n] = 0
      BY <1>1, <1>6, <2>1, CalledNew
    <3>2. \A e \in Nodes : cnt["myftw"][e] \in {0, 1}
      BY <1>5 DEF AtMostOnce
    <3>3. AtMostOnce("myftw")'
      BY <2>2, <3>1, <3>2 DEF AtMostOnce
    <3>4. AtMostOnce("my_myftw")'
      BY <1>5, <2>2 DEF AtMostOnce, NoneYet
    <3> QED
      BY <3>3, <3>4 DEF OnceInv
  <2>4. NoneYet("my_myftw")'
    BY <1>5, <2>2 DEF NoneYet
  <2>5. CASE /\ (ret' = 0 \/ ret' = -1) /\ pc' = "return" /\ (ret' = 0 => n \notin dirs)
             /\ walk' = walk /\ stack' = stack
             /\ (strlen' = strlen /\ pathlen' = pathlen) \/ (strlen' = strlen + 1 /\ pathlen' = g)
    <3>1. PathInv' /\ BufferInv' /\ strlen' \in Nat /\ pathlen' \in Nat
      BY <1>14, <2>5
    <3>2. CatalogTypes'
      BY <1>1, <1>2, <2>2, <2>5, <3>1 DEF CatalogTypes, TypeOK
    <3>3. StageInv'
      BY <1>2, <1>3, <1>5, <2>4, <2>5 DEF StageInv
    <3>4. WalkInv'
      <4>1. StackInv' /\ CallInv'
        BY <1>3, <1>5, <2>5 DEF StackInv, CallInv
      <4>2. ret' = 0 => CountInv("myftw")'
        BY <1>1, <1>2, <1>4, <1>5, <1>6, <1>17, <2>1, <2>5, CountCalled
      <4> QED
        BY <1>2, <2>5, <4>1, <4>2 DEF WalkInv
    <3> QED
      BY <1>3, <1>15, <2>3, <2>5, <3>1, <3>2, <3>3, <3>4 DEF CatalogInv
  <2>6. CASE /\ Opens(n) /\ Push(Frame(n)) /\ pc' = "read" /\ ret' = ret /\ walk' = walk
             /\ strlen' = strlen + 1 /\ pathlen' = g
    <3> DEFINE k == Len(stack)
    <3>1. /\ stack' \in Seq(Frames) /\ stack' # <<>> /\ Len(stack') = k + 1 /\ k \in Nat
          /\ stack'[k + 1] = Frame(n) /\ \A i \in 1..k : stack'[i] = stack[i]
      BY <1>1, <1>9, <1>17, <2>6, PushFacts
    <3>2. Len(stack') <= MaxOpen
      BY <1>1, <2>6, <3>1, TopFacts, Numbers DEF Opens
    <3>3. strlen' \in Nat /\ pathlen' \in Nat /\ strlen' + 1 <= pathlen' /\ pathlen' >= pathlen
          /\ strlen' + NameMax + 1 <= pathlen'
      BY <1>9, <1>11, <2>6
    <3>4. CatalogTypes'
      BY <1>1, <1>2, <2>2, <2>6, <3>1, <3>2, <3>3 DEF CatalogTypes, TypeOK
    <3>5. StageInv'
      BY <1>2, <1>3, <1>5, <2>4, <2>6, <3>1 DEF StageInv
    <3>6. WalkInv'
      <4>1. Dir[n] = Here
        BY <2>1 DEF Called
      <4>2. StackInv'
        BY <1>1, <1>2, <1>5, <1>17, <2>6, <4>1, PushStack
      <4>3. CountInv("myftw")'
        BY <1>1, <1>2, <1>4, <1>5, <1>6, <1>17, <2>1, <2>6, CountCalled
      <4> QED
        BY <1>2, <2>6, <4>2, <4>3 DEF WalkInv, CallInv
    <3>7. Frame(n).names = k /\ Frame(n).dir = n /\ Frame(n).n = strlen + 1
      BY <1>9 DEF Frame
    <3>8. PathInv'
      <4>1. k > 0 => fullpath[k] = name[n] /\ stack[k].dir \in searchable
        <5> SUFFICES ASSUME k > 0 PROVE fullpath[k] = name[n] /\ stack[k].dir \in searchable
          OBVIOUS
        <5>1. stack # <<>>
          BY <1>1, TopFacts
        <5>2. n # Root /\ Dir[n] = stack[k].dir
          BY <1>1, <1>17, <2>1, <5>1, CalledRoot
        <5>3. name[n] = fullpath[k]
          BY <1>2, <1>9, <2>1, <5>2 DEF Called, Word
        <5> QED
          BY <2>1, <5>2, <5>3
      <4>2. ASSUME NEW i \in 1..(k + 1)
            PROVE  /\ stack'[i].names = i - 1
                   /\ i > 1 => fullpath[i - 1] = name[stack'[i].dir] /\ stack'[i - 1].dir \in searchable
        <5>1. CASE i = k + 1
          <6>1. i - 1 = k /\ (i > 1 => k > 0 /\ k \in 1..k)
            BY <3>1, <5>1
          <6>2. i > 1 => fullpath[i - 1] = name[n] /\ stack'[i - 1].dir \in searchable
            BY <3>1, <4>1, <6>1
          <6> QED
            BY <3>1, <3>7, <5>1, <6>1, <6>2
        <5>2. CASE i # k + 1
          <6>1. i \in 1..k /\ (i > 1 => i - 1 \in 1..k)
            BY <3>1, <5>2
          <6> QED
            BY <1>10, <3>1, <6>1
        <5> QED
          BY <5>1, <5>2
      <4>3. Len(fullpath) + 1 >= Len(stack')
        BY <1>9, <3>1
      <4> QED
        BY <1>2, <1>3, <2>6, <3>1, <4>2, <4>3 DEF PathInv
    <3>9. BufferInv'
      <4>1. ASSUME NEW i \in 1..(k + 1) PROVE stack'[i].n + NameMax + 1 <= pathlen'
        <5>1. CASE i = k + 1
          BY <2>6, <3>1, <3>3, <3>7, <5>1
        <5>2. CASE i # k + 1
          <6>1. i \in 1..k
            BY <3>1, <5>2
          <6> DEFINE t == stack[i].n
          <6>2. t \in Nat /\ t + NameMax + 1 <= pathlen /\ stack'[i].n = t
            BY <1>9, <3>1, <6>1
          <6> HIDE DEF t
          <6>3. pathlen \in Nat /\ NameMax \in Nat
            BY <1>9
          <6>4. t + NameMax + 1 <= pathlen'
            BY <3>3, <6>2, <6>3
          <6> QED
            BY <6>2, <6>4
        <5> QED
          BY <5>1, <5>2
      <4>2. NameMax + 1 <= pathlen'
        BY <1>9, <3>3
      <4> QED
        BY <2>6, <3>1, <3>3, <4>1, <4>2 DEF BufferInv
    <3> QED
      BY <1>3, <1>15, <2>3, <2>6, <3>4, <3>5, <3>6, <3>8, <3>9 DEF CatalogInv
  <2>7. CASE walk' = "crashed" /\ UNCHANGED <<pc, stack, ret, strlen, pathlen>>
    <3>1. CatalogTypes'
      BY <1>1, <1>2, <2>2, <2>7 DEF CatalogTypes, TypeOK
    <3>2. StageInv'
      BY <1>2, <2>7 DEF StageInv
    <3>3. WalkInv' /\ PathInv'
      BY <2>7 DEF WalkInv, PathInv, Walks
    <3>4. BufferInv'
      BY <1>1, <1>2, <2>7 DEF BufferInv
    <3> QED
      BY <1>3, <1>15, <2>3, <2>7, <3>1, <3>2, <3>3, <3>4 DEF CatalogInv
  <2>8. \/ /\ (ret' = 0 \/ ret' = -1) /\ pc' = "return" /\ (ret' = 0 => n \notin dirs)
           /\ walk' = walk /\ stack' = stack
           /\ (strlen' = strlen /\ pathlen' = pathlen) \/ (strlen' = strlen + 1 /\ pathlen' = g)
        \/ /\ Opens(n) /\ Push(Frame(n)) /\ pc' = "read" /\ ret' = ret /\ walk' = walk
           /\ strlen' = strlen + 1 /\ pathlen' = g
        \/ walk' = "crashed" /\ UNCHANGED <<pc, stack, ret, strlen, pathlen>>
    BY <1>12, <2>1 DEF Returns
  <2> QED
    BY <2>5, <2>6, <2>7, <2>8
<1>18. dirs \subseteq Nodes
  BY <1>1 DEF TreeInv
<1> QED
  BY <1>12, <1>16, <1>17, <1>18

-----------------------------------------------------------------------------
\* What the two walks keep to at every step, for every tree: the frames are a
\* path of directories from the root, what is called was read and not yet
\* counted, and of a directory that was left without an error all is counted
\* that readdir has given.
THEOREM CatalogInvariant == Spec => []CatalogInv
<1>1. Init => CatalogInv
  BY InitCatalog
<1>2. CatalogInv /\ [Next]_vars => CatalogInv'
  <2> SUFFICES ASSUME CatalogInv, [Next]_vars PROVE CatalogInv'
    OBVIOUS
  <2>1. CASE UNCHANGED vars
    <3>1. /\ UNCHANGED tree /\ argument' = argument /\ parent' = parent /\ name' = name
          /\ dirs' = dirs /\ readable' = readable /\ searchable' = searchable
          /\ walk' = walk /\ pc' = pc /\ stack' = stack /\ ret' = ret
          /\ fullpath' = fullpath /\ strlen' = strlen /\ pathlen' = pathlen
          /\ arg' = arg /\ cwd' = cwd /\ cnt' = cnt /\ rets' = rets /\ lost' = lost
          /\ unread' = unread
      BY <2>1 DEF vars, tree, pathVars
    <3>2. TreeInv' /\ Dir' = Dir
      BY <3>1, TreeKept DEF CatalogInv
    <3>3. CatalogTypes' /\ OnceInv' /\ StageInv'
      BY <3>1 DEF CatalogInv, CatalogTypes, TypeOK, OnceInv, AtMostOnce, StageInv, NoneYet
    <3>4. WalkInv'
      BY <3>1, <3>2 DEF CatalogInv, WalkInv, StackInv, CallInv, CountInv, OnStack, Called, Here, Word, Top
    <3>5. EndInv' /\ PathInv' /\ BufferInv' /\ CwdInv'
      BY <3>1 DEF CatalogInv, EndInv, AllGiven, Ended, PathInv, BufferInv, CwdInv, Entered, Top
    <3> QED
      BY <3>2, <3>3, <3>4, <3>5 DEF CatalogInv
  <2>2. CASE Myftw
    BY <2>2, MyftwStep
  <2>3. CASE DopathCall
    BY <2>3, DopathCallStep
  <2>4. CASE DopathRead
    BY <2>4, DopathReadStep
  <2>5. CASE DopathLeave
    BY <2>5, DopathLeaveStep
  <2>6. CASE MydopathCall
    BY <2>6, MydopathCallStep
  <2>7. CASE MydopathRead
    BY <2>7, MydopathReadStep
  <2>8. CASE MydopathLeave
    BY <2>8, MydopathLeaveStep
  <2>9. CASE ReturnToLoop
    BY <2>9, ReturnToLoopStep
  <2>10. CASE WalkEnds
    BY <2>10, WalkEndsStep
  <2> QED
    BY <2>1, <2>2, <2>3, <2>4, <2>5, <2>6, <2>7, <2>8, <2>9, <2>10 DEF Next
<1> QED
  BY <1>1, <1>2, PTL DEF Spec

\* Neither walk counts a file twice, whatever fails, and one that returns 0
\* has counted every file of the tree but those below a directory where
\* readdir has failed (after a failed chdir my_myftw excepted).
THEOREM WalksCountOnce == Spec => []CountsOnce
<1>1. CatalogInv => CountsOnce
  <2> SUFFICES ASSUME CatalogInv PROVE CountsOnce
    OBVIOUS
  <2>1. TypeOK
    BY DEF CatalogInv, CatalogTypes
  <2>2. ASSUME NEW w \in Walks, ~(w = "my_myftw" /\ lost), NEW n \in Nodes PROVE cnt[w][n] <= 1
    <3>1. AtMostOnce(w)
      BY <2>2 DEF CatalogInv, OnceInv, Walks
    <3> QED
      BY <3>1 DEF AtMostOnce
  <2>3. ASSUME NEW w \in Walks, ~(w = "my_myftw" /\ lost), Ended(w), rets[w] = 0
        PROVE  \A n \in Nodes : cnt[w][n] = 0 =>
                   n # Root /\ (cnt[w][parent[n]] = 0 \/ parent[n] \in unread[w])
    <3>1. AllGiven(w)
      BY <2>3 DEF CatalogInv, EndInv
    <3> QED
      BY <3>1 DEF AllGiven
  <2> QED
    BY <2>1, <2>2, <2>3 DEF CountsOnce
<1> QED
  BY <1>1, CatalogInvariant, PTL

\* The path of myftw leads to the directory of each frame and fits into its
\* buffer, whatever the argument and the names' lengths; the current directory
\* of my_myftw is that of the innermost frame; and while no chdir has failed
\* my_myftw ends above the argument's directory if it could open that, and
\* where it began if not.
THEOREM WalksInPlace == Spec => []InPlace
<1>1. CatalogInv => InPlace
  <2> SUFFICES ASSUME CatalogInv PROVE InPlace
    OBVIOUS
  <2>1. TreeInv /\ CatalogTypes /\ StageInv /\ WalkInv /\ PathInv /\ BufferInv /\ CwdInv
    BY DEF CatalogInv
  <2>2. pc # "start" => strlen + 1 <= pathlen
    BY <2>1 DEF BufferInv
  <2>3. ASSUME NEW i \in 1..Len(stack), walk = "myftw"
        PROVE  Resolve(SubSeq(fullpath, 1, stack[i].names)) = stack[i].dir
    <3>1. Len(stack) \in Nat
      BY <2>1, TopFacts
    <3>2. pc # "start"
      <4>1. stack # <<>>
        BY <2>1, <3>1, TopFacts
      <4> QED
        BY <2>1, <4>1 DEF StageInv
    <3>3. StackInv
      BY <2>1, <2>3 DEF WalkInv, StageInv, Walks
    <3>4. stack[i].names = i - 1
      BY <2>1, <2>3, <3>2 DEF PathInv
    <3>5. Resolve(SubSeq(fullpath, 1, i - 1)) = stack[i].dir
      BY <2>1, <2>3, <3>2, <3>3, PathLeads
    <3> QED
      BY <3>4, <3>5
  <2>4. walk = "my_myftw" /\ stack # <<>> /\ ~lost => cwd = Top.dir
    BY <2>1 DEF CwdInv
  <2>5. walk \in {"my_myftw", "done"} => fullpath = <<>>
    BY <2>1 DEF PathInv
  <2>6. walk = "done" /\ ~lost =>
            cwd = IF Root \in readable /\ cnt["my_myftw"][Root] = 1 THEN argument.up ELSE argument.home
    BY <2>1 DEF CwdInv, Entered, StageInv
  <2> QED
    BY <2>2, <2>3, <2>4, <2>5, <2>6 DEF InPlace
<1> QED
  BY <1>1, CatalogInvariant, PTL
=============================================================================
