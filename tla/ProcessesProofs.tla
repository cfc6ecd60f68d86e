--------------------------- MODULE ProcessesProofs ---------------------------
(***************************************************************************)
(* What the servers of 2 promise, for any number of servers, clients,      *)
(* descriptors and events and any length of their queues.  The epoll       *)
(* server answers a client on its own connection with its own message, and *)
(* never accepts when nobody waits.  The server that responds answers each *)
(* client's own request, the one that does not prints everything in order, *)
(* and of each only one at a time has the name; over the paired sockets    *)
(* nobody prints what it has not received unless the other was killed.     *)
(* And what the programs of 8 read, for any length of the file and of a    *)
(* stream's buffer, and what is left of what they write, for any length of *)
(* the alphabet.                                                           *)
(***************************************************************************)
EXTENDS MCProcesses, NumberLemmas, FiniteSetTheorems, SequenceTheorems, TLAPS

(* an item occurs at most once in a list                                    *)
Once(x, list) ==
    \A i, j \in DOMAIN list : list[i] = x /\ list[j] = x => i = j

(* the connections: a client is at most once in the backlog, or it has at   *)
(* most one descriptor, never both, and neither before it connects          *)
ConnInv ==
    /\ backlog \in Seq(Clients)
    /\ \A i, j \in DOMAIN backlog : backlog[i] = backlog[j] => i = j
    /\ \A f, g \in Fds : fds[f] = fds[g] /\ fds[f] # Free => f = g
    /\ \A f \in Fds : ~InList(fds[f], backlog)
    /\ \A u \in Clients : client[u] = "connect" =>
           ~InList(u, backlog) /\ \A f \in Fds : fds[f] # u

(* the events: one at most is of listen_sock, and as long as it is not yet  *)
(* handled a connection waits; msg_from holds what came in on the           *)
(* descriptor that is answered                                              *)
EventInv ==
    /\ rdlist \in Seq(Items) /\ events \in Seq(Items)
    /\ Once(Listen, rdlist) /\ Once(Listen, events)
    /\ pc \in {"handle", "send"} => events # <<>>
    /\ InList(Listen, events) => backlog # <<>>
    /\ pc = "send" => Head(events) # Listen /\ from = fds[Head(events)] /\ from \in Clients

ExitInv == ExitExplained /\ (pc # "exit" => why = "")

EpollInv == AnswersOwnRequest /\ ConnInv /\ EventInv /\ ExitInv

-----------------------------------------------------------------------------
(* lists *)

(* one round of the recursion of Keep                                       *)
Round(list, S, n, g) ==
    [i \in 0..n |->
        IF i = 0 THEN <<>>
        ELSE IF list[i] \in S THEN Append(g[i - 1], list[i]) ELSE g[i - 1]]

\* The recursion by which a list is filtered defines a function.
LEMMA FilterExists ==
  ASSUME NEW list, NEW S, NEW n \in Nat
  PROVE  \E g : g = Round(list, S, n, g)
<1> USE DEF Round
<1> DEFINE F(m, g) == Round(list, S, m, g)
           E == {m \in Nat : \E g : g = F(m, g)}
<1>1. 0 \in E
  <2> DEFINE g == [i \in 0..0 |-> <<>>]
  <2>1. g = F(0, g)
    OBVIOUS
  <2> QED
    BY <2>1
<1>2. ASSUME NEW m \in Nat, m \in E PROVE m + 1 \in E
  <2>1. PICK g : g = F(m, g)
    BY <1>2
  <2> DEFINE h == [i \in 0..(m + 1) |->
            IF i = m + 1
            THEN IF list[i] \in S THEN Append(g[m], list[i]) ELSE g[m]
            ELSE g[i]]
  <2>2. ASSUME NEW i \in 0..(m + 1) PROVE h[i] = F(m + 1, h)[i]
    <3>1. CASE i = m + 1
      <4>1. h[i - 1] = g[m]
        BY <3>1
      <4> QED
        BY <3>1, <4>1
    <3>2. CASE i # m + 1
      <4>1. i \in 0..m /\ h[i] = g[i]
        BY <3>2
      <4>2. g[i] = F(m, g)[i]
        BY <2>1
      <4>3. CASE i = 0
        BY <4>1, <4>2, <4>3
      <4>4. CASE i # 0
        <5>1. h[i - 1] = g[i - 1]
          BY <4>1, <4>4
        <5> QED
          BY <4>1, <4>2, <4>4, <5>1
      <4> QED
        BY <4>3, <4>4
    <3> QED
      BY <3>1, <3>2
  <2>3. h = F(m + 1, h)
    <3>1. DOMAIN h = 0..(m + 1) /\ h = [i \in DOMAIN h |-> h[i]]
      OBVIOUS
    <3>2. DOMAIN F(m + 1, h) = 0..(m + 1)
      OBVIOUS
    <3> HIDE DEF h
    <3> QED
      BY <2>2, <3>1, <3>2, Zenon
  <2> HIDE DEF h, F
  <2> QED
    BY <2>3
<1>3. Nat \subseteq E
  <2> HIDE DEF E
  <2> QED
    BY <1>1, <1>2, SetInduction
<1> QED
  BY <1>3

\* What Keep returns: items of the list that are in S; an item that occurs
\* once at most in the list does so in what is kept.
LEMMA KeepFacts ==
  ASSUME NEW T, NEW list \in Seq(T), NEW S, NEW x
  PROVE  /\ Keep(list, S) \in Seq(T \cap S)
         /\ Once(x, list) => Once(x, Keep(list, S))
<1> DEFINE k == CHOOSE g : g = Round(list, S, Len(list), g)
<1>1. Len(list) \in Nat
  OBVIOUS
<1>2. k = Round(list, S, Len(list), k)
  BY <1>1, FilterExists
<1>3. Keep(list, S) = k[Len(list)]
  BY DEF Keep, Round
<1> HIDE DEF k
<1>4. k[0] = <<>>
  BY <1>1, <1>2 DEF Round
<1>5. ASSUME NEW n \in 1..Len(list)
      PROVE  k[n] = IF list[n] \in S THEN Append(k[n - 1], list[n]) ELSE k[n - 1]
  <2>1. n \in 0..Len(list) /\ n # 0
    BY <1>1
  <2>2. Round(list, S, Len(list), k)[n]
          = IF list[n] \in S THEN Append(k[n - 1], list[n]) ELSE k[n - 1]
    BY <2>1 DEF Round
  <2> QED
    BY <1>2, <2>2
<1> DEFINE P == {n \in Nat : n <= Len(list) =>
              /\ k[n] \in Seq(T \cap S)
              /\ \A j \in 1..Len(k[n]) : \E i \in 1..n : list[i] = k[n][j]
              /\ Once(x, list) => Once(x, k[n])}
<1>6. 0 \in P
  <2>1. k[0] \in Seq(T \cap S) /\ Len(k[0]) = 0 /\ DOMAIN k[0] = {}
    BY <1>4
  <2>2. 1..Len(k[0]) = {}
    BY <2>1
  <2>3. Once(x, k[0])
    BY <2>1 DEF Once
  <2> QED
    BY <2>1, <2>2, <2>3
<1>7. ASSUME NEW n \in Nat, n \in P PROVE n + 1 \in P
  <2> SUFFICES ASSUME n + 1 <= Len(list)
               PROVE  /\ k[n + 1] \in Seq(T \cap S)
                      /\ \A j \in 1..Len(k[n + 1]) : \E i \in 1..(n + 1) : list[i] = k[n + 1][j]
                      /\ Once(x, list) => Once(x, k[n + 1])
    OBVIOUS
  <2>1. /\ k[n] \in Seq(T \cap S)
        /\ \A j \in 1..Len(k[n]) : \E i \in 1..n : list[i] = k[n][j]
        /\ Once(x, list) => Once(x, k[n])
    BY <1>7
  <2>2. n + 1 \in 1..Len(list) /\ (n + 1) - 1 = n
    OBVIOUS
  <2>3. CASE list[n + 1] \notin S
    <3>1. k[n + 1] = k[n]
      BY <1>5, <2>2, <2>3
    <3> QED
      BY <2>1, <3>1
  <2>4. CASE list[n + 1] \in S
    <3>1. k[n + 1] = Append(k[n], list[n + 1]) /\ list[n + 1] \in T
      <4>1. k[n + 1] = Append(k[n], list[n + 1])
        BY <1>5, <2>2, <2>4
      <4>2. list[n + 1] \in T
        BY <2>2
      <4> QED
        BY <4>1, <4>2
    <3>2. /\ k[n + 1] \in Seq(T \cap S)
          /\ Len(k[n + 1]) = Len(k[n]) + 1
          /\ k[n + 1][Len(k[n]) + 1] = list[n + 1]
          /\ \A j \in 1..Len(k[n]) : k[n + 1][j] = k[n][j]
      BY <2>1, <2>4, <3>1
    <3>3. Len(k[n]) \in Nat
      BY <2>1
    <3>4. \A j \in 1..Len(k[n + 1]) : \E i \in 1..(n + 1) : list[i] = k[n + 1][j]
      <4>1. TAKE j \in 1..Len(k[n + 1])
      <4>2. CASE j = Len(k[n]) + 1
        BY <4>2, <3>2
      <4>3. CASE j # Len(k[n]) + 1
        <5>1. j \in 1..Len(k[n]) /\ k[n + 1][j] = k[n][j]
          BY <4>3, <3>2, <3>3
        <5> QED
          BY <5>1, <2>1
      <4> QED
        BY <4>2, <4>3
    <3>5. ASSUME Once(x, list) PROVE Once(x, k[n + 1])
      <4>1. DOMAIN k[n + 1] = 1..(Len(k[n]) + 1) /\ DOMAIN k[n] = 1..Len(k[n])
        BY <2>1, <3>2
      <4>2. ASSUME NEW j \in 1..Len(k[n]), k[n][j] = x, list[n + 1] = x PROVE FALSE
        <5>1. PICK i \in 1..n : list[i] = x
          BY <2>1, <4>2
        <5>2. i \in DOMAIN list /\ n + 1 \in DOMAIN list /\ i # n + 1
          BY <2>2
        <5> QED
          BY <3>5, <4>2, <5>1, <5>2 DEF Once
      <4>3. \A i, j \in 1..Len(k[n]) : k[n][i] = x /\ k[n][j] = x => i = j
        BY <2>1, <3>5, <4>1 DEF Once
      <4> SUFFICES ASSUME NEW i \in 1..(Len(k[n]) + 1), NEW j \in 1..(Len(k[n]) + 1),
                          k[n + 1][i] = x, k[n + 1][j] = x
                   PROVE  i = j
        BY <4>1 DEF Once
      <4>4. CASE i \in 1..Len(k[n]) /\ j \in 1..Len(k[n])
        BY <3>2, <4>3, <4>4
      <4>5. CASE i = Len(k[n]) + 1 /\ j \in 1..Len(k[n])
        BY <3>2, <4>2, <4>5
      <4>6. CASE i \in 1..Len(k[n]) /\ j = Len(k[n]) + 1
        BY <3>2, <4>2, <4>6
      <4> QED
        BY <3>3, <4>4, <4>5, <4>6
    <3> QED
      BY <3>2, <3>4, <3>5
  <2> QED
    BY <2>3, <2>4
<1>8. Nat \subseteq P
  <2> HIDE DEF P
  <2> QED
    BY <1>6, <1>7, SetInduction
<1>9. Len(list) \in P
  BY <1>1, <1>8
<1> QED
  BY <1>1, <1>3, <1>9

\* An item that is woken up is on the ready list once.
LEMMA WakeFacts ==
  ASSUME NEW T, NEW list \in Seq(T), NEW x \in T, NEW y
  PROVE  /\ Wake(list, x) \in Seq(T)
         /\ Once(y, list) => Once(y, Wake(list, x))
<1>1. CASE InList(x, list)
  BY <1>1 DEF Wake
<1>2. CASE ~InList(x, list)
  <2> DEFINE w == Append(list, x)
  <2>1. Wake(list, x) = w
    BY <1>2 DEF Wake
  <2>2. /\ w \in Seq(T) /\ Len(w) = Len(list) + 1 /\ Len(list) \in Nat
        /\ w[Len(list) + 1] = x /\ \A i \in 1..Len(list) : w[i] = list[i]
        /\ DOMAIN w = 1..(Len(list) + 1) /\ DOMAIN list = 1..Len(list)
    OBVIOUS
  <2> HIDE DEF w
  <2>3. \A i \in 1..Len(list) : list[i] # x
    BY <1>2, <2>2 DEF InList
  <2>4. ASSUME Once(y, list), NEW i \in 1..(Len(list) + 1), NEW j \in 1..(Len(list) + 1),
               w[i] = y, w[j] = y
        PROVE  i = j
    <3>1. CASE i \in 1..Len(list) /\ j \in 1..Len(list)
      BY <2>2, <2>4, <3>1 DEF Once
    <3>2. CASE i = Len(list) + 1 /\ j \in 1..Len(list)
      BY <2>2, <2>3, <2>4, <3>2
    <3>3. CASE i \in 1..Len(list) /\ j = Len(list) + 1
      BY <2>2, <2>3, <2>4, <3>3
    <3> QED
      BY <2>2, <3>1, <3>2, <3>3
  <2>5. Once(y, list) => Once(y, w)
    BY <2>2, <2>4 DEF Once
  <2> QED
    BY <2>1, <2>2, <2>5
<1> QED
  BY <1>1, <1>2

\* The rest of a list: what is in it was in the list, and an item that
\* occurred once and was the first is gone.
LEMMA TailFacts ==
  ASSUME NEW T, NEW list \in Seq(T), list # <<>>, NEW x
  PROVE  /\ Tail(list) \in Seq(T) /\ Head(list) \in T
         /\ InList(x, Tail(list)) => InList(x, list)
         /\ Once(x, list) => Once(x, Tail(list))
         /\ Once(x, list) /\ Head(list) = x => ~InList(x, Tail(list))
<1> DEFINE t == Tail(list)
<1>1. /\ t \in Seq(T) /\ Head(list) = list[1] /\ Len(list) \in Nat \ {0}
      /\ DOMAIN list = 1..Len(list) /\ DOMAIN t = 1..(Len(list) - 1)
      /\ \A i \in 1..(Len(list) - 1) : t[i] = list[i + 1]
      /\ list[1] \in T
  OBVIOUS
<1> HIDE DEF t
<1>2. ASSUME InList(x, t) PROVE InList(x, list)
  <2>1. PICK i \in 1..(Len(list) - 1) : t[i] = x
    BY <1>1, <1>2 DEF InList
  <2>2. i + 1 \in DOMAIN list /\ list[i + 1] = x
    BY <1>1, <2>1
  <2> QED
    BY <2>2 DEF InList
<1>3. ASSUME Once(x, list) PROVE Once(x, t)
  <2> SUFFICES ASSUME NEW i \in 1..(Len(list) - 1), NEW j \in 1..(Len(list) - 1),
                      t[i] = x, t[j] = x
               PROVE  i = j
    BY <1>1 DEF Once
  <2>1. i + 1 \in DOMAIN list /\ j + 1 \in DOMAIN list /\ list[i + 1] = x /\ list[j + 1] = x
    BY <1>1
  <2>2. i + 1 = j + 1
    BY <1>3, <2>1 DEF Once
  <2> QED
    BY <2>2
<1>4. ASSUME Once(x, list), Head(list) = x, InList(x, t) PROVE FALSE
  <2>1. PICK i \in 1..(Len(list) - 1) : list[i + 1] = x
    BY <1>1, <1>4 DEF InList
  <2>2. 1 \in DOMAIN list /\ i + 1 \in DOMAIN list /\ list[1] = x /\ i + 1 # 1
    BY <1>1, <1>4
  <2> QED
    BY <1>4, <2>1, <2>2 DEF Once
<1> QED
  BY <1>1, <1>2, <1>3, <1>4 DEF t

\* A list is cut in two: an item that occurs once is in one part at most.
LEMMA CutFacts ==
  ASSUME NEW T, NEW list \in Seq(T), NEW n \in 0..Len(list), NEW x
  PROVE  LET a == SubSeq(list, 1, n)
             b == SubSeq(list, n + 1, Len(list))
         IN  /\ a \in Seq(T) /\ b \in Seq(T) /\ Len(a) = n
             /\ InList(x, a) => InList(x, list)
             /\ Once(x, list) => Once(x, a) /\ Once(x, b)
             /\ Once(x, list) /\ InList(x, a) => ~InList(x, b)
<1> DEFINE a == SubSeq(list, 1, n)
           b == SubSeq(list, n + 1, Len(list))
<1>1. /\ a \in Seq(T) /\ Len(a) = n /\ DOMAIN a = 1..n
      /\ \A i \in 1..n : a[i] = list[i]
      /\ Len(list) \in Nat /\ DOMAIN list = 1..Len(list)
  OBVIOUS
<1>2. /\ b \in Seq(T) /\ DOMAIN b = 1..(Len(list) - n)
      /\ \A i \in 1..(Len(list) - n) : b[i] = list[i + n]
  OBVIOUS
<1> HIDE DEF a, b
<1>3. InList(x, a) => InList(x, list)
  BY <1>1 DEF InList
<1>4. Once(x, list) => Once(x, a)
  BY <1>1 DEF Once
<1>5. ASSUME Once(x, list) PROVE Once(x, b)
  <2> SUFFICES ASSUME NEW i \in 1..(Len(list) - n), NEW j \in 1..(Len(list) - n),
                      b[i] = x, b[j] = x
               PROVE  i = j
    BY <1>2 DEF Once
  <2>1. i + n \in DOMAIN list /\ j + n \in DOMAIN list /\ list[i + n] = x /\ list[j + n] = x
    BY <1>1, <1>2
  <2>2. i + n = j + n
    BY <1>5, <2>1 DEF Once
  <2> QED
    BY <2>2
<1>6. ASSUME Once(x, list), InList(x, a), InList(x, b) PROVE FALSE
  <2>1. PICK i \in 1..n : list[i] = x
    BY <1>1, <1>6 DEF InList
  <2>2. PICK j \in 1..(Len(list) - n) : list[j + n] = x
    BY <1>2, <1>6 DEF InList
  <2>3. i \in DOMAIN list /\ j + n \in DOMAIN list /\ i # j + n
    BY <1>1
  <2> QED
    BY <1>6, <2>1, <2>2, <2>3 DEF Once
<1> QED
  BY <1>1, <1>2, <1>3, <1>4, <1>5, <1>6 DEF a, b

-----------------------------------------------------------------------------
(* the server *)

\* The first step: nothing is connected, nothing is ready.
LEMMA InitIInv == Init => EpollInv
<1> SUFFICES ASSUME Init PROVE EpollInv
  OBVIOUS
<1>0. backlog = <<>> /\ rdlist = <<>> /\ events = <<>> /\ pc = "socket"
  BY DEF Init
<1>1. TypeOK
  BY EpollAssumption DEF Init, TypeOK
<1>2. AnswersOwnRequest
  BY <1>1 DEF Init, AnswersOwnRequest
<1>3. ConnInv
  <2>1. backlog \in Seq(Clients) /\ DOMAIN backlog = {}
    BY <1>0
  <2>2. \A x : ~InList(x, backlog)
    BY <2>1 DEF InList
  <2>3. \A f \in Fds : fds[f] = Free
    BY DEF Init
  <2> QED
    BY EpollAssumption, <2>1, <2>2, <2>3 DEF ConnInv
<1>4. EventInv
  <2>1. /\ rdlist \in Seq(Items) /\ DOMAIN rdlist = {}
        /\ events \in Seq(Items) /\ DOMAIN events = {}
    BY <1>0
  <2>2. ~InList(Listen, events) /\ Once(Listen, rdlist) /\ Once(Listen, events)
    BY <2>1 DEF InList, Once
  <2> QED
    BY <1>0, <2>1, <2>2 DEF EventInv
<1>5. ExitInv
  BY DEF Init, ExitInv, ExitExplained
<1> QED
  BY <1>2, <1>3, <1>4, <1>5 DEF EpollInv

\* An exit leaves everything as it is, and is explained by its reason.
LEMMA ExitStep ==
  ASSUME EpollInv, NEW reason, Exit(reason),
         reason # "EAGAIN",
         reason = "EMFILE" => \A f \in Fds : fds[f] # Free,
         reason \in {"ECONNRESET", "SIGPIPE"} => \E f \in Fds : fds[f] \in rst
  PROVE  EpollInv'
<1> USE DEF Exit, EpollInv, kVars
<1>1. AnswersOwnRequest'
  BY DEF AnswersOwnRequest, TypeOK
<1>2. ConnInv'
  BY DEF ConnInv, InList
<1>3. EventInv'
  BY DEF EventInv, InList, Once
<1>4. ExitInv'
  BY DEF ExitInv, ExitExplained
<1> QED
  BY <1>1, <1>2, <1>3, <1>4

\* The calls before the loop.
LEMMA MainStep ==
  ASSUME EpollInv, Main
  PROVE  EpollInv'
<1>1. ASSUME NEW here \in {"socket", "bind", "listen", "epoll_create1"},
             NEW next \in {"bind", "listen", "epoll_create1", "epoll_ctl"}, Setup(here, next)
      PROVE  EpollInv'
  <2>1. CASE Exit(here)
    BY <2>1, ExitStep
  <2>2. CASE pc' = next /\ UNCHANGED <<why, fds, events, from, nonblock, kVars, client, ans>>
    <3> USE <2>2 DEF EpollInv, kVars
    <3>0. pc = here
      BY <1>1 DEF Setup
    <3>1. AnswersOwnRequest'
      BY DEF AnswersOwnRequest, TypeOK
    <3>2. ConnInv'
      BY DEF ConnInv, InList
    <3>3. EventInv'
      BY DEF EventInv, InList, Once
    <3>4. ExitInv'
      BY <3>0 DEF ExitInv, ExitExplained
    <3> QED
      BY <3>1, <3>2, <3>3, <3>4
  <2> QED
    BY <1>1, <2>1, <2>2 DEF Setup
<1>2. ASSUME Register PROVE EpollInv'
  <2>1. CASE Exit("epoll_ctl")
    BY <2>1, ExitStep
  <2>2. CASE ~Exit("epoll_ctl")
    <3>0. /\ pc = "epoll_ctl" /\ pc' = "epoll_wait"
          /\ rdlist' = IF backlog = <<>> THEN <<>> ELSE <<Listen>>
          /\ UNCHANGED <<why, fds, events, from, nonblock, backlog, data, fin, rst, client, ans>>
      BY <1>2, <2>2 DEF Register
    <3> USE DEF EpollInv
    <3>1. AnswersOwnRequest'
      BY <3>0 DEF AnswersOwnRequest, TypeOK
    <3>2. ConnInv'
      BY <3>0 DEF ConnInv, InList
    <3>3. rdlist' \in Seq(Items) /\ Once(Listen, rdlist')
      BY <3>0 DEF Items, Once
    <3>4. EventInv'
      BY <3>0, <3>3 DEF EventInv, InList, Once
    <3>5. ExitInv'
      BY <3>0 DEF ExitInv, ExitExplained
    <3> QED
      BY <3>1, <3>2, <3>4, <3>5
  <2> QED
    BY <2>1, <2>2
<1> QED
  BY <1>1, <1>2 DEF Main

\* epoll_wait: the events are on the ready list, so listen_sock is one of
\* them once at most, and only while somebody waits for accept.
LEMMA EpollWaitStep ==
  ASSUME EpollInv, EpollWait
  PROVE  EpollInv'
<1> DEFINE R == {x \in Items : Ready(x)}
           ready == Keep(rdlist, R)
           n == IF Len(ready) < MaxEvents THEN Len(ready) ELSE MaxEvents
           a == SubSeq(ready, 1, n)
           b == SubSeq(ready, n + 1, Len(ready))
<1>1. /\ pc = "epoll_wait" /\ n > 0 /\ events' = a /\ pc' = "handle"
      /\ rdlist' = b \o IF InList(Listen, events') THEN <<Listen>> ELSE <<>>
      /\ UNCHANGED <<why, fds, from, nonblock, backlog, data, fin, rst, client, ans>>
  BY DEF EpollWait
<1>2. ready \in Seq(Items \cap R) /\ Once(Listen, ready)
  <2>1. rdlist \in Seq(Items) /\ Once(Listen, rdlist)
    BY DEF EpollInv, EventInv
  <2> HIDE DEF R
  <2> QED
    BY <2>1, KeepFacts
<1>3. ready \in Seq(Items)
  <2>1. Items \cap R \subseteq Items
    OBVIOUS
  <2> HIDE DEF R, ready
  <2> QED
    BY <1>2, <2>1
<1>4. n \in 1..Len(ready)
  <2> HIDE DEF ready
  <2>1. MaxEvents \in Nat \ {0} /\ Len(ready) \in Nat
    BY EpollAssumption, <1>2
  <2> QED
    BY <1>1, <2>1
<1> HIDE DEF ready, n
<1>5. /\ a \in Seq(Items) /\ b \in Seq(Items) /\ Len(a) = n
      /\ InList(Listen, a) => InList(Listen, ready)
      /\ Once(Listen, a) /\ Once(Listen, b)
      /\ InList(Listen, a) => ~InList(Listen, b)
  <2>1. n \in 0..Len(ready)
    BY <1>4
  <2> QED
    BY <1>2, <1>3, <2>1, CutFacts
<1>6. InList(Listen, a) => backlog # <<>>
  <2>1. InList(Listen, ready) => Listen \in R
    <3> HIDE DEF R
    <3> QED
      BY <1>2 DEF InList
  <2> QED
    BY <1>5, <2>1 DEF Ready
<1> HIDE DEF R, a, b
<1>7. rdlist' \in Seq(Items) /\ Once(Listen, rdlist')
  <2>1. CASE InList(Listen, a)
    <3>1. rdlist' = b \o <<Listen>> /\ ~InList(Listen, b)
      BY <1>1, <1>5, <2>1
    <3>2. Listen \in Items
      BY DEF Items
    <3>3. rdlist' = Wake(b, Listen)
      <4>1. b \o <<Listen>> = Append(b, Listen)
        BY <1>5, <3>2
      <4> QED
        BY <3>1, <4>1 DEF Wake
    <3> QED
      BY <1>5, <3>2, <3>3, WakeFacts
  <2>2. CASE ~InList(Listen, a)
    <3>1. rdlist' = b
      BY <1>1, <1>5, <2>2
    <3> QED
      BY <1>5, <3>1
  <2> QED
    BY <2>1, <2>2
<1>8. AnswersOwnRequest'
  BY <1>1 DEF EpollInv, AnswersOwnRequest, TypeOK
<1>9. ConnInv'
  BY <1>1 DEF EpollInv, ConnInv, InList
<1>10. EventInv'
  <2>1. a # <<>>
    BY <1>4, <1>5
  <2> QED
    BY <1>1, <1>5, <1>6, <1>7, <2>1 DEF EventInv
<1>11. ExitInv'
  BY <1>1 DEF EpollInv, ExitInv, ExitExplained
<1> QED
  BY <1>8, <1>9, <1>10, <1>11 DEF EpollInv

\* The event that was handled leaves the batch.
LEMMA HandledFacts ==
  ASSUME EpollInv, Handled, events # <<>>
  PROVE  /\ events' \in Seq(Items) /\ Once(Listen, events')
         /\ InList(Listen, events') => InList(Listen, events) /\ Head(events) # Listen
         /\ pc' \in {"epoll_wait", "handle"}
         /\ pc' = "handle" => events' # <<>>
<1>1. events \in Seq(Items) /\ Once(Listen, events)
  BY DEF EpollInv, EventInv
<1> QED
  BY <1>1, TailFacts DEF Handled

\* A connection that is closed: its descriptor is free, and off the ready
\* list.
LEMMA CloseFacts ==
  ASSUME EpollInv, NEW f \in Fds, Close(f), events # <<>>, pc # "exit",
         UNCHANGED <<why, backlog, client, rst>>
  PROVE  /\ fds' \in [Fds -> Clients \cup {Free}]
         /\ pc' \in {"epoll_wait", "handle"}
         /\ ConnInv' /\ EventInv' /\ ExitInv'
<1>1. /\ fds \in [Fds -> Clients \cup {Free}]
      /\ fds' = [fds EXCEPT ![f] = Free] /\ rdlist' = Keep(rdlist, Items \ {f}) /\ Handled
  BY DEF Close, EpollInv, AnswersOwnRequest, TypeOK
<1>2. fds' \in [Fds -> Clients \cup {Free}] /\ \A g \in Fds : fds'[g] \in {fds[g], Free}
  BY <1>1
<1>3. /\ events' \in Seq(Items) /\ Once(Listen, events')
      /\ InList(Listen, events') => InList(Listen, events)
      /\ pc' \in {"epoll_wait", "handle"} /\ (pc' = "handle" => events' # <<>>)
  BY <1>1, HandledFacts
<1>4. rdlist' \in Seq(Items) /\ Once(Listen, rdlist')
  <2>1. rdlist \in Seq(Items) /\ Once(Listen, rdlist)
    BY DEF EpollInv, EventInv
  <2>2. rdlist' \in Seq(Items \cap (Items \ {f})) /\ Once(Listen, rdlist')
    BY <1>1, <2>1, KeepFacts
  <2> QED
    BY <2>2
<1>5. ConnInv'
  <2> USE DEF EpollInv, ConnInv
  <2>1. /\ backlog' \in Seq(Clients)
        /\ \A i, j \in DOMAIN backlog' : backlog'[i] = backlog'[j] => i = j
    OBVIOUS
  <2>2. \A h, g \in Fds : fds'[h] = fds'[g] /\ fds'[h] # Free => h = g
    BY <1>1
  <2>3. \A g \in Fds : ~InList(fds'[g], backlog')
    <3>1. ~InList(Free, backlog)
      BY EpollAssumption DEF InList
    <3>2. \A x : InList(x, backlog') <=> InList(x, backlog)
      BY DEF InList
    <3> QED
      BY <1>2, <3>1, <3>2
  <2>4. ASSUME NEW u \in Clients, client'[u] = "connect"
        PROVE  ~InList(u, backlog') /\ \A g \in Fds : fds'[g] # u
    BY <1>2, <2>4, EpollAssumption DEF InList
  <2> QED
    BY <2>1, <2>2, <2>3, <2>4
<1>6. EventInv'
  BY <1>3, <1>4 DEF EpollInv, EventInv
<1>7. ExitInv'
  BY DEF EpollInv, ExitInv, ExitExplained
<1> QED
  BY <1>2, <1>3, <1>5, <1>6, <1>7

\* accept takes the connection that waits longest, which no descriptor has;
\* there is one, for the event of listen_sock was raised for one and is the
\* only one of the batch.
LEMMA AcceptStep ==
  ASSUME EpollInv, Accept
  PROVE  EpollInv'
<1> DEFINE free == {f \in Fds : fds[f] = Free}
           d == CHOOSE f \in free : \A g \in free : f <= g
           Taken == /\ backlog # <<>> /\ free # {}
                    /\ fds' = [fds EXCEPT ![d] = Head(backlog)]
                    /\ backlog' = Tail(backlog)
                    /\ rdlist' = IF Arrives(Head(backlog)) THEN Wake(rdlist, d) ELSE rdlist
                    /\ nonblock' = TRUE
                    /\ Handled
                    /\ UNCHANGED <<why, from, data, fin, rst, client, ans>>
<1>1. pc = "handle" /\ Head(events) = Listen /\ events # <<>>
  BY DEF Accept, EpollInv, EventInv
<1>2. backlog # <<>>
  <2>1. events \in Seq(Items) /\ (InList(Listen, events) => backlog # <<>>)
    BY DEF EpollInv, EventInv
  <2>2. 1 \in DOMAIN events /\ events[1] = Listen
    BY <1>1, <2>1
  <2> QED
    BY <2>1, <2>2 DEF InList
<1>3. ASSUME Exit("EMFILE"), free = {} PROVE EpollInv'
  BY <1>3, ExitStep
<1>4. ASSUME Exit("EINVAL") \/ Exit("fcntl") PROVE EpollInv'
  BY <1>4, ExitStep
<1>5. ASSUME Taken PROVE EpollInv'
  <2>0. /\ fds \in [Fds -> Clients \cup {Free}] /\ backlog \in Seq(Clients)
        /\ rdlist \in Seq(Items) /\ Once(Listen, rdlist)
    BY DEF EpollInv, ConnInv, EventInv, AnswersOwnRequest, TypeOK
  <2>1. d \in Fds /\ fds[d] = Free
    <3>1. free \in SUBSET Nat /\ free # {}
      BY <1>5, EpollAssumption DEF Fds
    <3> HIDE DEF free
    <3>2. \E f \in free : \A g \in free : f <= g
      BY <3>1, LeastNatural
    <3>3. d \in free
      BY <3>2
    <3> USE DEF free
    <3> HIDE DEF d
    <3> QED
      BY <3>3
  <2> HIDE DEF d, free
  <2> DEFINE u == Head(backlog)
  <2>2. /\ u \in Clients /\ u = backlog[1] /\ 1 \in DOMAIN backlog
        /\ backlog' \in Seq(Clients)
        /\ \A i \in DOMAIN backlog' : i + 1 \in DOMAIN backlog /\ i \in Nat
                                      /\ backlog'[i] = backlog[i + 1]
    BY <1>2, <1>5, <2>0
  <2> HIDE DEF u
  <2>3. fds' = [fds EXCEPT ![d] = u]
    BY <1>5 DEF u
  <2>4. /\ fds' \in [Fds -> Clients \cup {Free}] /\ fds'[d] = u
        /\ \A g \in Fds : g # d => fds'[g] = fds[g]
    BY <2>0, <2>1, <2>2, <2>3
  <2>5. InList(u, backlog) /\ ~InList(u, backlog')
    <3>1. \A i, j \in DOMAIN backlog : backlog[i] = backlog[j] => i = j
      BY DEF EpollInv, ConnInv
    <3>2. ASSUME NEW i \in DOMAIN backlog', backlog'[i] = u PROVE FALSE
      <4>1. i + 1 = 1 /\ i \in Nat
        BY <2>2, <3>1, <3>2
      <4>2. i = 0
        BY <4>1
      <4> QED
        BY <2>2, <3>2, <4>2
    <3> QED
      BY <2>2, <3>2 DEF InList
  <2>6. ASSUME NEW x, InList(x, backlog') PROVE InList(x, backlog)
    BY <2>2, <2>6 DEF InList
  <2>7. \A g \in Fds : fds[g] # u
    BY <2>5 DEF EpollInv, ConnInv
  <2>8. ConnInv'
    <3>1. ASSUME NEW i \in DOMAIN backlog', NEW j \in DOMAIN backlog',
                 backlog'[i] = backlog'[j]
          PROVE  i = j
      <4>1. i + 1 = j + 1
        BY <2>2, <3>1 DEF EpollInv, ConnInv
      <4> QED
        BY <2>2, <4>1
    <3>2. ASSUME NEW h \in Fds, NEW g \in Fds, fds'[h] = fds'[g], fds'[h] # Free
          PROVE  h = g
      <4>1. CASE h # d /\ g # d
        BY <2>4, <3>2, <4>1 DEF EpollInv, ConnInv
      <4>2. CASE h = d \/ g = d
        BY <2>4, <2>7, <3>2, <4>2
      <4> QED
        BY <4>1, <4>2
    <3>3. ASSUME NEW g \in Fds PROVE ~InList(fds'[g], backlog')
      <4>1. ~InList(fds[g], backlog)
        BY DEF EpollInv, ConnInv
      <4>2. ~InList(fds[g], backlog')
        BY <2>6, <4>1
      <4> QED
        BY <2>4, <2>5, <4>2
    <3>4. ASSUME NEW e \in Clients, client'[e] = "connect"
          PROVE  ~InList(e, backlog') /\ \A g \in Fds : fds'[g] # e
      <4>1. ~InList(e, backlog) /\ \A g \in Fds : fds[g] # e
        BY <1>5, <3>4 DEF EpollInv, ConnInv
      <4>2. e # u
        BY <2>5, <4>1
      <4> QED
        BY <2>4, <2>6, <4>1, <4>2
    <3> QED
      BY <2>2, <3>1, <3>2, <3>3, <3>4 DEF ConnInv
  <2>9. /\ events' \in Seq(Items) /\ Once(Listen, events') /\ ~InList(Listen, events')
        /\ pc' \in {"epoll_wait", "handle"} /\ (pc' = "handle" => events' # <<>>)
    BY <1>1, <1>5, HandledFacts
  <2>10. rdlist' \in Seq(Items) /\ Once(Listen, rdlist')
    <3>1. d \in Items
      BY <2>1 DEF Items
    <3>2. rdlist' \in {rdlist, Wake(rdlist, d)}
      BY <1>5
    <3> QED
      BY <2>0, <3>1, <3>2, WakeFacts
  <2>11. EventInv'
    BY <2>9, <2>10 DEF EventInv
  <2>12. ExitInv'
    BY <1>1, <1>5, <2>9 DEF EpollInv, ExitInv, ExitExplained
  <2>13. AnswersOwnRequest'
    <3>1. TypeOK'
      BY <1>5, <2>4, <2>9 DEF EpollInv, AnswersOwnRequest, TypeOK
    <3> QED
      BY <1>5, <2>8, <3>1 DEF EpollInv, AnswersOwnRequest, ConnInv
  <2> QED
    BY <2>8, <2>11, <2>12, <2>13 DEF EpollInv
<1> QED
  BY <1>2, <1>3, <1>4, <1>5 DEF Accept

\* read: what it returns comes from the connection of the event.
LEMMA ReadConnStep ==
  ASSUME EpollInv, ReadConn
  PROVE  EpollInv'
<1> DEFINE f == Head(events)
           u == fds[f]
<1>1. pc = "handle" /\ f # Listen /\ events # <<>> /\ f \in Fds
  <2>1. pc = "handle" /\ f # Listen /\ events \in Seq(Items) /\ events # <<>>
    BY DEF ReadConn, EpollInv, EventInv
  <2>2. f \in Items
    BY <2>1
  <2> QED
    BY <2>1, <2>2 DEF Items
<1>2. CASE /\ u \in data
           /\ data' = data \ {u} /\ from' = u /\ pc' = "send"
           /\ UNCHANGED <<why, fds, events, nonblock, backlog, rdlist, fin, rst, client, ans>>
  <2>1. AnswersOwnRequest'
    BY <1>2 DEF EpollInv, AnswersOwnRequest, TypeOK
  <2>2. ConnInv'
    BY <1>2 DEF EpollInv, ConnInv, InList
  <2>3. EventInv'
    <3>1. u \in Clients
      BY <1>2 DEF EpollInv, AnswersOwnRequest, TypeOK
    <3> QED
      BY <1>1, <1>2, <3>1 DEF EpollInv, EventInv, InList, Once
  <2>4. ExitInv'
    BY <1>1, <1>2 DEF EpollInv, ExitInv, ExitExplained
  <2> QED
    BY <2>1, <2>2, <2>3, <2>4 DEF EpollInv
<1>3. CASE u \in rst /\ Exit("ECONNRESET")
  BY <1>1, <1>3, ExitStep
<1>4. CASE Close(f) /\ UNCHANGED <<why, from, nonblock, backlog, data, fin, rst, client, ans>>
  <2>1. /\ fds' \in [Fds -> Clients \cup {Free}] /\ pc' \in {"epoll_wait", "handle"}
        /\ ConnInv' /\ EventInv' /\ ExitInv'
    <3> HIDE DEF f
    <3> QED
      BY <1>1, <1>4, CloseFacts
  <2>2. TypeOK'
    BY <1>4, <2>1 DEF EpollInv, AnswersOwnRequest, TypeOK
  <2>3. AnswersOwnRequest'
    BY <1>4, <2>1, <2>2 DEF EpollInv, AnswersOwnRequest, ConnInv
  <2> QED
    BY <2>1, <2>3 DEF EpollInv
<1> QED
  BY <1>2, <1>3, <1>4 DEF ReadConn

\* send: msg_from still holds the message of the connection it is sent on.
LEMMA SendAnswerStep ==
  ASSUME EpollInv, SendAnswer
  PROVE  EpollInv'
<1> DEFINE f == Head(events)
<1>1. /\ pc = "send" /\ events # <<>> /\ f \in Fds
      /\ from = fds[f] /\ from \in Clients
  <2>1. /\ pc = "send" /\ f # Listen /\ events \in Seq(Items) /\ events # <<>>
        /\ from = fds[f] /\ from \in Clients
    BY DEF SendAnswer, EpollInv, EventInv
  <2>2. f \in Items
    BY <2>1
  <2> QED
    BY <2>1, <2>2 DEF Items
<1>2. CASE fds[f] \in rst /\ Exit("SIGPIPE")
  BY <1>1, <1>2, ExitStep
<1>3. CASE /\ ans' = [ans EXCEPT ![fds[f]] = from] /\ Close(f)
           /\ UNCHANGED <<why, from, nonblock, backlog, data, fin, rst, client>>
  <2>1. /\ fds' \in [Fds -> Clients \cup {Free}] /\ pc' \in {"epoll_wait", "handle"}
        /\ ConnInv' /\ EventInv' /\ ExitInv'
    <3> HIDE DEF f
    <3> QED
      BY <1>1, <1>3, CloseFacts
  <2>2. ans \in [Clients -> Clients \cup {None}] /\ \A u \in Clients : ans[u] \in {u, None}
    BY DEF EpollInv, AnswersOwnRequest, TypeOK
  <2>3. ans' = [ans EXCEPT ![from] = from]
    BY <1>1, <1>3
  <2>4. ans' \in [Clients -> Clients \cup {None}] /\ \A u \in Clients : ans'[u] \in {u, None}
    BY <1>1, <2>2, <2>3
  <2>5. TypeOK'
    BY <1>3, <2>1, <2>4 DEF EpollInv, AnswersOwnRequest, TypeOK
  <2>6. AnswersOwnRequest'
    BY <2>1, <2>4, <2>5 DEF AnswersOwnRequest, ConnInv
  <2> QED
    BY <2>1, <2>6 DEF EpollInv
<1> QED
  BY <1>2, <1>3 DEF SendAnswer

-----------------------------------------------------------------------------
(* the clients *)

\* connect: a client joins the backlog, in which it was not.
LEMMA ConnectStep ==
  ASSUME EpollInv, NEW u \in Clients, Connect(u)
  PROVE  EpollInv'
<1>0. /\ client \in [Clients -> {"connect", "send", "read", "answered", "failed", "killed"}]
      /\ client[u] = "connect" /\ UNCHANGED <<sVars, data, fin, rst, ans>>
      /\ backlog \in Seq(Clients) /\ rdlist \in Seq(Items) /\ Once(Listen, rdlist)
  BY DEF Connect, EpollInv, AnswersOwnRequest, TypeOK, ConnInv, EventInv
<1>1. \E s \in {"send", "failed"} : client' = [client EXCEPT ![u] = s]
  BY DEF Connect
<1>2. /\ client' \in [Clients -> {"connect", "send", "read", "answered", "failed", "killed"}]
      /\ client'[u] # "connect" /\ \A e \in Clients : e # u => client'[e] = client[e]
  BY <1>0, <1>1
<1>3. ~InList(u, backlog) /\ \A f \in Fds : fds[f] # u
  BY <1>0 DEF EpollInv, ConnInv
<1>4. rdlist' \in Seq(Items) /\ Once(Listen, rdlist')
  <2>1. Listen \in Items /\ rdlist' \in {rdlist, Wake(rdlist, Listen)}
    BY DEF Connect, Items
  <2> QED
    BY <1>0, <2>1, WakeFacts
<1>5. AnswersOwnRequest'
  BY <1>0, <1>2 DEF EpollInv, AnswersOwnRequest, TypeOK, sVars
<1>6. ExitInv'
  BY <1>0 DEF EpollInv, ExitInv, ExitExplained, sVars
<1>7. CASE backlog' = Append(backlog, u)
  <2>1. /\ backlog' \in Seq(Clients) /\ Len(backlog) \in Nat /\ backlog' # <<>>
        /\ DOMAIN backlog = 1..Len(backlog) /\ DOMAIN backlog' = 1..(Len(backlog) + 1)
        /\ backlog'[Len(backlog) + 1] = u
        /\ \A i \in 1..Len(backlog) : backlog'[i] = backlog[i]
    BY <1>0, <1>7
  <2>2. \A i \in 1..Len(backlog) : backlog'[i] # u
    BY <1>3, <2>1 DEF InList
  <2>3. ASSUME NEW i \in DOMAIN backlog', NEW j \in DOMAIN backlog', backlog'[i] = backlog'[j]
        PROVE  i = j
    <3>1. CASE i \in 1..Len(backlog) /\ j \in 1..Len(backlog)
      BY <2>1, <2>3, <3>1 DEF EpollInv, ConnInv
    <3>2. CASE i = Len(backlog) + 1 \/ j = Len(backlog) + 1
      BY <2>1, <2>2, <2>3, <3>2
    <3> QED
      BY <2>1, <3>1, <3>2
  <2>4. ASSUME NEW x, InList(x, backlog') PROVE x = u \/ InList(x, backlog)
    <3>1. PICK i \in 1..(Len(backlog) + 1) : backlog'[i] = x
      BY <2>1, <2>4 DEF InList
    <3>2. CASE i = Len(backlog) + 1
      BY <2>1, <3>1, <3>2
    <3>3. CASE i \in 1..Len(backlog)
      BY <2>1, <3>1, <3>3 DEF InList
    <3> QED
      BY <2>1, <3>2, <3>3
  <2>5. fds' = fds /\ events' = events /\ pc' = pc /\ from' = from
    BY <1>0 DEF sVars
  <2>6. ASSUME NEW f \in Fds PROVE ~InList(fds'[f], backlog')
    <3>1. ~InList(fds[f], backlog)
      BY DEF EpollInv, ConnInv
    <3> QED
      BY <1>3, <2>4, <2>5, <3>1
  <2>7. ASSUME NEW e \in Clients, client'[e] = "connect"
        PROVE  ~InList(e, backlog') /\ \A f \in Fds : fds'[f] # e
    <3>1. e # u /\ client[e] = "connect"
      BY <1>2, <2>7
    <3>2. ~InList(e, backlog) /\ \A f \in Fds : fds[f] # e
      BY <3>1 DEF EpollInv, ConnInv
    <3> QED
      BY <2>4, <2>5, <3>1, <3>2
  <2>8. \A f, g \in Fds : fds'[f] = fds'[g] /\ fds'[f] # Free => f = g
    BY <2>5 DEF EpollInv, ConnInv
  <2>9. ConnInv'
    BY <2>1, <2>3, <2>6, <2>7, <2>8 DEF ConnInv
  <2>10. EventInv'
    BY <1>4, <2>1, <2>5 DEF EpollInv, EventInv, InList, Once
  <2> QED
    BY <1>5, <1>6, <2>9, <2>10 DEF EpollInv
<1>8. CASE backlog' = backlog
  <2>1. ConnInv'
    BY <1>0, <1>2, <1>8 DEF EpollInv, ConnInv, InList, sVars
  <2>2. EventInv'
    BY <1>0, <1>4, <1>8 DEF EpollInv, EventInv, InList, Once, sVars
  <2> QED
    BY <1>5, <1>6, <2>1, <2>2 DEF EpollInv
<1> QED
  BY <1>7, <1>8 DEF Connect

\* A step of a client that has connected touches neither the backlog nor the
\* descriptors, and it puts on the ready list what is registered.
LEMMA ConnectedStep ==
  ASSUME EpollInv, NEW u \in Clients, NEW s \in {"read", "answered", "failed", "killed"},
         client' = [client EXCEPT ![u] = s], rdlist' \in {rdlist, WakeConn(u)},
         data' \in {data, data \cup {u}}, fin' \in {fin, fin \cup {u}}, rst' \in {rst,
         rst \cup {u}},
         UNCHANGED <<sVars, backlog, ans>>
  PROVE  EpollInv'
<1>0. /\ client \in [Clients -> {"connect", "send", "read", "answered", "failed", "killed"}]
      /\ rdlist \in Seq(Items) /\ Once(Listen, rdlist)
  BY DEF EpollInv, AnswersOwnRequest, TypeOK, EventInv
<1>1. /\ client' \in [Clients -> {"connect", "send", "read", "answered", "failed", "killed"}]
      /\ \A e \in Clients : client'[e] = "connect" => client[e] = "connect"
  BY <1>0
<1>2. rdlist' \in Seq(Items) /\ Once(Listen, rdlist')
  <2>1. CASE \E f \in Fds : fds[f] = u
    <3> DEFINE f == CHOOSE g \in Fds : fds[g] = u
    <3>1. f \in Items
      BY <2>1 DEF Items
    <3>2. rdlist' \in {rdlist, Wake(rdlist, f)}
      BY <2>1 DEF WakeConn
    <3> HIDE DEF f
    <3> QED
      BY <1>0, <3>1, <3>2, WakeFacts
  <2>2. CASE ~\E f \in Fds : fds[f] = u
    BY <1>0, <2>2 DEF WakeConn
  <2> QED
    BY <2>1, <2>2
<1>3. AnswersOwnRequest'
  BY <1>1 DEF EpollInv, AnswersOwnRequest, TypeOK, sVars
<1>4. ConnInv'
  BY <1>1 DEF EpollInv, ConnInv, InList, sVars
<1>5. EventInv'
  BY <1>2 DEF EpollInv, EventInv, InList, Once, sVars
<1>6. ExitInv'
  BY DEF EpollInv, ExitInv, ExitExplained, sVars
<1> QED
  BY <1>3, <1>4, <1>5, <1>6 DEF EpollInv

-----------------------------------------------------------------------------

\* Every step preserves the invariant.
LEMMA NextIInv == EpollInv /\ [Next]_vars => EpollInv'
<1> SUFFICES ASSUME EpollInv, [Next]_vars PROVE EpollInv'
  OBVIOUS
<1>1. CASE Server
  BY <1>1, MainStep, EpollWaitStep, AcceptStep, ReadConnStep, SendAnswerStep DEF Server
<1>2. CASE Interrupted
  BY <1>2, ExitStep DEF Interrupted
<1>3. ASSUME NEW u \in Clients, Connect(u) PROVE EpollInv'
  BY <1>3, ConnectStep
<1>4. ASSUME NEW u \in Clients, Send(u) PROVE EpollInv'
  BY <1>4, ConnectedStep DEF Send
<1>5. ASSUME NEW u \in Clients, ReadAnswer(u) PROVE EpollInv'
  BY <1>5, ConnectedStep DEF ReadAnswer, kVars
<1>6. ASSUME NEW u \in Clients, Kill(u) PROVE EpollInv'
  BY <1>6, ConnectedStep DEF Kill
<1>7. CASE UNCHANGED vars
  <2> USE <1>7 DEF vars, sVars, kVars, EpollInv
  <2>1. AnswersOwnRequest'
    BY DEF AnswersOwnRequest, TypeOK
  <2>2. ConnInv'
    BY DEF ConnInv, InList
  <2>3. EventInv'
    BY DEF EventInv, InList, Once
  <2>4. ExitInv'
    BY DEF ExitInv, ExitExplained
  <2> QED
    BY <2>1, <2>2, <2>3, <2>4
<1> QED
  BY <1>1, <1>2, <1>3, <1>4, <1>5, <1>6, <1>7 DEF Next, ClientStep

(* A step of all programs is a step of the epoll server or leaves it alone. *)
LEMMA EpollAlone ==
  /\ AllInit => Init
  /\ [AllNext]_allVars => [Next]_vars
  BY DEF AllInit, AllNext, EpollStep, DgramStep, ReceiveStep, PairedStep, ReadStep, WriteStep,
         allVars, epollVars

(* The inductive invariant of the epoll server. *)
THEOREM EpollInvariant == AllSpec => []EpollInv
<1> QED
  BY EpollAlone, InitIInv, NextIInv, PTL DEF AllSpec

(* Whatever the number of clients, of descriptors and of events of a batch, *)
(* a client is answered on its own connection with its own message, and no  *)
(* two descriptors are of one connection (main of the server: read, send,   *)
(* close).                                                                  *)
THEOREM AnswersOwn == AllSpec => []AnswersOwnRequest
<1>1. EpollInv => AnswersOwnRequest
  BY DEF EpollInv
<1> QED
  BY EpollInvariant, <1>1, PTL

(* The server never fails because it accepts without a connection, and it   *)
(* runs out of descriptors or meets a broken connection only if clients     *)
(* have taken all of them or reset one (main of the server: accept, read,   *)
(* send).                                                                   *)
THEOREM ExitsExplained == AllSpec => []ExitExplained
<1>1. EpollInv => ExitExplained
  BY DEF EpollInv, ExitInv
<1> QED
  BY EpollInvariant, <1>1, PTL


-----------------------------------------------------------------------------
(* socket(send-receive-respond) *)

(* what the variables are that TypeOK leaves out                            *)
DgramTypes ==
    /\ Dgram!TypeOK
    /\ queue \in Seq(Dgram!Requests)
    /\ buf \in [Servers -> Dgram!Requests \cup {None}]
    /\ addr \in [Servers -> Pids \cup {None}]
    /\ inbox \in [Pids -> Seq(Dgram!Requests)]
    /\ answer \in [Pids -> Dgram!Requests \cup {None}]
    /\ killed \in BOOLEAN /\ errors \in BOOLEAN
    /\ digits \in [Pids -> 1..Longest]

(* one server at most has the name, and what its file says                  *)
NameInv ==
    /\ \A s, t \in Servers : srv[s] \in Dgram!Serving /\ srv[t] \in Dgram!Serving => s = t
    /\ file = "bound" <=> \E s \in Servers : srv[s] \in Dgram!Serving \ {"unlink"}
    /\ file = "stale" <=> killed \/ \E s \in Servers : srv[s] = "unlink"
    /\ killed => \A s \in Servers : srv[s] \notin Dgram!Serving

(* the name of a client exists while it uses it; only one that was killed   *)
(* or refused leaves it                                                     *)
OwnInv ==
    \A p \in Pids :
        /\ dgramClient[p] = "bind" => own[p] \in {"none", "stale"}
        /\ dgramClient[p] \in {"sendto", "read"} => own[p] = "bound"
        /\ dgramClient[p] = "ended" => own[p] \in {"none", "stale"}

(* what client_addr names is the sender of what is in the buffer, and what  *)
(* waits in the socket of a client is for its pid                           *)
AddrInv ==
    \A s \in Servers : addr[s] # None => buf[s] \in Dgram!Requests /\ addr[s] = buf[s].pid

PidInv == \A p \in Pids : \A i \in 1..Len(inbox[p]) : inbox[p][i].pid = p

(* the places where a request of p, or the answer to it, can be             *)
Queued(p) == {i \in 1..Len(queue) : queue[i].pid = p}
Answering(p) == {s \in Servers : srv[s] = "sendto" /\ buf[s].pid = p}
Answered(p) == 1..Len(inbox[p])

(* A client that has not sent its request has none under way, and one that  *)
(* has sent it has no other, and in one place at most.                      *)
FlightInv(p) ==
    /\ dgramClient[p] # "read" => Queued(p) = {} /\ Answering(p) = {} /\ Answered(p) = {}
    /\ \A i \in Queued(p) : queue[i] = [pid |-> p, run |-> run[p]]
    /\ \A s \in Answering(p) : buf[s] = [pid |-> p, run |-> run[p]]
    /\ \A i \in Answered(p) : inbox[p][i] = [pid |-> p, run |-> run[p]]
    /\ \A i, j \in Queued(p) : i = j
    /\ Queued(p) # {} => Answering(p) = {} /\ Answered(p) = {}
    /\ Answering(p) # {} => Answered(p) = {}

RequestInv == ~errors => \A p \in Pids : own[p] # "stale" => FlightInv(p)

DgramInv ==
    /\ DgramTypes
    /\ NameInv
    /\ OwnInv
    /\ AddrInv /\ PidInv
    /\ RequestInv
    /\ Dgram!OwnAnswer

(* A waiting client whose name fits a sockaddr, and was not cut, has its    *)
(* request in the queue, in the server with the whole of its name, or has   *)
(* an answer, as long as no server has ended.                               *)
Waits(p) ==
    LET m == [pid |-> p, run |-> run[p]] IN
    (/\ dgramClient[p] = "read" /\ Dgram!Fits(p) /\ ~Dgram!WasCut(p)
     /\ \A s \in Servers : srv[s] \notin {"unlink", "ended", "undefined"})
    => \/ \E i \in 1..Len(queue) : queue[i] = m
       \/ \E s \in Servers : srv[s] = "sendto" /\ buf[s] = m /\ addr[s] = p /\ Dgram!Whole(s, p)
       \/ inbox[p] # <<>>

WaitInv == \A p \in Pids : Waits(p)

USE DEF Dgram!sVars, Dgram!cVars, Dgram!addrVars

(* What an element and the ends of a queue are. *)
LEMMA QueueHead ==
  ASSUME NEW T, NEW q \in Seq(T), q # <<>>
  PROVE  /\ Head(q) \in T /\ Head(q) = q[1] /\ 1 \in 1..Len(q) /\ Len(q) \in Nat
         /\ Tail(q) \in Seq(T) /\ Len(Tail(q)) = Len(q) - 1
         /\ \A i \in 1..(Len(q) - 1) : Tail(q)[i] = q[i + 1]
  OBVIOUS

LEMMA QueueAppend ==
  ASSUME NEW T, NEW q \in Seq(T), NEW m \in T
  PROVE  /\ Append(q, m) \in Seq(T) /\ Len(Append(q, m)) = Len(q) + 1 /\ Len(q) \in Nat
         /\ \A i \in 1..Len(q) : Append(q, m)[i] = q[i]
         /\ Append(q, m)[Len(q) + 1] = m
  OBVIOUS

LEMMA QueueAppendNotEmpty ==
  ASSUME NEW T, NEW q \in Seq(T), NEW m \in T
  PROVE  Append(q, m) # <<>>
<1>1. Len(Append(q, m)) # 0
  BY QueueAppend
<1>2. Len(<<>>) = 0
  OBVIOUS
<1> QED
  BY <1>1, <1>2

(* A sequence without indices is empty. *)
LEMMA NoIndex == ASSUME NEW n \in Nat, 1..n = {} PROVE n = 0
<1>1. 1 \notin 1..n
  OBVIOUS
<1> QED
  BY <1>1

(* The request of a client is one. *)
LEMMA DgramRequest ==
  ASSUME DgramTypes, NEW p \in Pids
  PROVE  /\ [pid |-> p, run |-> run[p]] \in Dgram!Requests
         /\ [pid |-> p, run |-> run[p]].pid = p
  BY DEF DgramTypes, Dgram!TypeOK, Dgram!Requests

LEMMA DgramPid == ASSUME NEW m \in Dgram!Requests PROVE m.pid \in Pids
  BY DEF Dgram!Requests

(* A server that moves while the file stays keeps what is said of the name. *)
LEMMA DgramNameSame ==
  ASSUME NameInv, file' = file, killed' = killed,
         \A s \in Servers : /\ srv'[s] \in Dgram!Serving <=> srv[s] \in Dgram!Serving
                            /\ srv'[s] = "unlink" <=> srv[s] = "unlink"
  PROVE  NameInv'
  BY DEF NameInv

(* A client's request is where it was if neither the queue, nor its inbox,  *)
(* nor the server that answers it has changed.                              *)
LEMMA DgramFlightSame ==
  ASSUME NEW p \in Pids, FlightInv(p), dgramClient'[p] = dgramClient[p], run'[p] = run[p],
         queue' = queue, inbox'[p] = inbox[p],
         \A s \in Servers : srv'[s] = "sendto" <=> srv[s] = "sendto",
         \A s \in Servers : srv[s] = "sendto" => buf'[s] = buf[s]
  PROVE  FlightInv(p)'
<1>1. Queued(p)' = Queued(p) /\ Answering(p)' = Answering(p) /\ Answered(p)' = Answered(p)
  BY DEF Queued, Answering, Answered
<1>2. \A s \in Answering(p) : buf'[s] = buf[s]
  BY DEF Answering
<1> QED
  BY <1>1, <1>2 DEF FlightInv

(* what the variables of a server are that hold a message and its sender    *)
AddrTypes ==
    /\ buf \in [Servers -> Dgram!Requests \cup {None}]
    /\ addr \in [Servers -> Pids \cup {None}]
    /\ addrlen \in [Servers -> 1..Longest]
    /\ bytes \in [Servers -> [1..Fit -> 0..Longest]]
    /\ digits \in [Pids -> 1..Longest]

LEMMA DgramAddrTypes == DgramInv => AddrTypes
  BY DEF DgramInv, DgramTypes, Dgram!TypeOK, AddrTypes

(* They are kept, or taken over from the sender of the message received, or *)
(* go with the process.                                                     *)
LEMMA DgramAddrSame ==
  ASSUME DgramInv, UNCHANGED <<buf, addr, addrlen, bytes, digits>>
  PROVE  AddrTypes' /\ AddrInv'
<1>1. AddrTypes'
  BY DgramAddrTypes DEF AddrTypes
<1> QED
  BY <1>1 DEF DgramInv, AddrInv

LEMMA DgramStores ==
  ASSUME DgramInv, NEW s \in Servers, NEW m \in Dgram!Requests, Dgram!StoreName(s, m.pid),
         buf' = [buf EXCEPT ![s] = m], addr' = [addr EXCEPT ![s] = m.pid]
  PROVE  AddrTypes' /\ AddrInv'
<1>0. AddrTypes /\ m.pid \in Pids
  BY DgramPid, DgramAddrTypes
<1>1. AddrTypes'
  <2>1. addrlen' \in [Servers -> 1..Longest] /\ digits' = digits
    BY <1>0 DEF Dgram!StoreName, AddrTypes
  <2>2. bytes' \in [Servers -> [1..Fit -> 0..Longest]]
    <3>1. digits[m.pid] \in 0..Longest
      BY <1>0, DgramConstants DEF AddrTypes, Dgram!DgramAssumption
    <3> QED
      BY <1>0, <3>1 DEF Dgram!StoreName, AddrTypes
  <2> QED
    BY <1>0, <2>1, <2>2 DEF AddrTypes
<1>2. AddrInv'
  BY <1>0 DEF DgramInv, AddrInv, AddrTypes
<1> QED
  BY <1>1, <1>2

LEMMA DgramExits ==
  ASSUME DgramInv, NEW s \in Servers, Dgram!Exits(s)
  PROVE  AddrTypes' /\ AddrInv' /\ \A t \in Servers \ {s} : buf'[t] = buf[t]
<1>0. AddrTypes /\ Fit \in 1..Longest /\ 0 \in 0..Longest
  BY DgramAddrTypes, DgramConstants DEF Dgram!DgramAssumption
<1>1. AddrTypes'
  BY <1>0 DEF Dgram!Exits, AddrTypes
<1>2. AddrInv' /\ \A t \in Servers \ {s} : buf'[t] = buf[t]
  BY <1>0 DEF DgramInv, AddrInv, AddrTypes, Dgram!Exits
<1> QED
  BY <1>1, <1>2

(* The other conjuncts of the invariant when no client moves. *)
LEMMA DgramClientsSame ==
  ASSUME DgramInv, dgramClient' = dgramClient, run' = run, own' = own, answer' = answer,
         errors => errors'
  PROVE  OwnInv' /\ Dgram!OwnAnswer'
<1>1. OwnInv'
  BY DEF DgramInv, OwnInv
<1>2. Dgram!OwnAnswer'
  BY DEF DgramInv, Dgram!OwnAnswer
<1> QED
  BY <1>1, <1>2

(* Before anything is started. *)
LEMMA DgramInitHolds == Dgram!Init => DgramInv
<1> SUFFICES ASSUME Dgram!Init PROVE DgramInv
  OBVIOUS
<1>0. <<>> \in Seq(Dgram!Requests) /\ <<>> \in Seq(Dgram!Requests) /\ Len(<<>>) = 0
  OBVIOUS
<1>1. DgramTypes
  <2>1. Dgram!TypeOK
    <3>1. Dgram!FileTypeOK
      BY <1>0, DgramConstants DEF Dgram!Init, Dgram!FileInit,
         Dgram!FileTypeOK, Dgram!DgramAssumption
    <3>2. run \in [Pids -> 1..MaxRuns]
      BY DgramConstants DEF Dgram!Init, Dgram!DgramAssumption
    <3>3. addrlen \in [Servers -> 1..Longest] /\ bytes \in [Servers -> [1..Fit -> 0..Longest]]
      BY DgramConstants DEF Dgram!Init, Dgram!DgramAssumption
    <3> QED
      BY <3>1, <3>2, <3>3 DEF Dgram!Init, Dgram!TypeOK
  <2> QED
    BY <1>0, <2>1 DEF Dgram!Init, Dgram!FileInit, DgramTypes
<1>2. NameInv
  BY DEF Dgram!Init, Dgram!FileInit, NameInv, Dgram!Serving
<1>3. OwnInv /\ Dgram!OwnAnswer
  BY DEF Dgram!Init, OwnInv, Dgram!OwnAnswer
<1>5. AddrInv
  BY DEF Dgram!Init, AddrInv
<1>6. PidInv
  BY <1>0 DEF Dgram!Init, PidInv
<1>4. RequestInv
  <2>2. ASSUME NEW p \in Pids PROVE FlightInv(p)
    <3>1. Queued(p) = {} /\ Answered(p) = {}
      <4>1. queue = <<>> /\ inbox[p] = <<>>
        BY DEF Dgram!Init, Dgram!FileInit
      <4> QED
        BY <1>0, <4>1 DEF Queued, Answered
    <3>2. Answering(p) = {}
      BY DEF Dgram!Init, Answering
    <3> QED
      BY <3>1, <3>2 DEF FlightInv
  <2> QED
    BY <2>2 DEF RequestInv
<1> QED
  BY <1>1, <1>2, <1>3, <1>4, <1>5, <1>6 DEF DgramInv

(* A step of a server that leaves the queue and the clients alone, and      *)
(* neither begins nor ends an answer.                                       *)
LEMMA DgramQuiet ==
  ASSUME DgramInv, NEW s \in Servers, NEW next \in {"bind", "failed", "signal", "recvfrom",
         "ended"},
         Dgram!Step(s, next), srv[s] # "sendto", next # "sendto", NameInv',
         file' \in {"none", "bound", "stale"}, AddrTypes', AddrInv',
         \A t \in Servers \ {s} : buf'[t] = buf[t],
         UNCHANGED <<queue, killed, errors, Dgram!cVars>>
  PROVE  DgramInv'
<1>1. /\ srv' \in [Servers -> {"new", "bind", "failed", "ended"} \cup Dgram!Serving]
      /\ \A t \in Servers : srv'[t] = "sendto" <=> srv[t] = "sendto"
  BY DEF DgramInv, DgramTypes, Dgram!TypeOK, Dgram!Step, Dgram!Serving
<1>2. DgramTypes'
  BY <1>1 DEF DgramInv, DgramTypes, AddrTypes, Dgram!TypeOK, Dgram!FileTypeOK
<1>3. OwnInv' /\ Dgram!OwnAnswer'
  BY DgramClientsSame
<1>4. PidInv'
  BY DEF DgramInv, PidInv
<1>5. RequestInv'
  <2>1. ASSUME ~errors, NEW p \in Pids, own[p] # "stale" PROVE FlightInv(p)'
    BY <1>1, <2>1, DgramFlightSame DEF DgramInv, RequestInv
  <2> QED
    BY <2>1 DEF RequestInv
<1> QED
  BY <1>2, <1>3, <1>4, <1>5 DEF DgramInv

(* socket, bind, signal, and the unlink of sigint_handler. *)
LEMMA DgramSetUp ==
  ASSUME DgramInv, NEW s \in Servers,
         Dgram!Socket(s) \/ Dgram!Bind(s) \/ Dgram!Signal(s) \/ Dgram!SigintUnlink(s)
  PROVE  DgramInv'
<1>0. srv \in [Servers -> {"new", "bind", "failed", "ended"} \cup Dgram!Serving] /\ NameInv
      /\ file \in {"none", "bound", "stale"} /\ killed \in BOOLEAN
  BY DEF DgramInv, DgramTypes, Dgram!TypeOK, Dgram!FileTypeOK
<1>a. Dgram!Socket(s) \/ Dgram!Bind(s) \/ Dgram!Signal(s)
      => AddrTypes' /\ AddrInv' /\ buf' = buf
  BY DgramAddrSame DEF Dgram!Socket, Dgram!Bind, Dgram!Signal
<1>1. CASE Dgram!Socket(s)
  <2>1. PICK next \in {"bind", "failed"} : Dgram!Step(s, next)
    BY <1>1 DEF Dgram!Socket
  <2>2. NameInv'
    BY <1>0, <1>1, <2>1, DgramNameSame DEF Dgram!Socket, Dgram!Step,
       Dgram!Serving
  <2> QED
    BY <1>0, <1>1, <1>a, <2>1, <2>2, DgramQuiet DEF Dgram!Socket
<1>2. CASE Dgram!Bind(s)
  <2>1. CASE Dgram!BindFile /\ Dgram!Step(s, "signal")
    <3>1. file = "none" /\ file' = "bound" /\ killed' = killed /\ queue' = queue
      BY <1>2, <2>1 DEF Dgram!Bind, Dgram!BindFile, Dgram!CanBind
    <3>2. \A t \in Servers : srv[t] \notin Dgram!Serving
      BY <1>0, <3>1 DEF NameInv
    <3>3. srv'[s] = "signal" /\ \A t \in Servers \ {s} : srv'[t] = srv[t]
      BY <1>0, <2>1 DEF Dgram!Step
    <3>4. ~killed
      BY <1>0, <3>1 DEF NameInv
    <3>5. NameInv'
      BY <3>1, <3>2, <3>3, <3>4 DEF NameInv, Dgram!Serving
    <3> QED
      BY <1>2, <1>a, <2>1, <3>1, <3>5, DgramQuiet DEF Dgram!Bind
  <2>2. CASE Dgram!Step(s, "failed") /\ UNCHANGED <<file, queue>>
    <3>1. NameInv'
      BY <1>0, <1>2, <2>2, DgramNameSame DEF Dgram!Bind, Dgram!Step,
         Dgram!Serving
    <3> QED
      BY <1>0, <1>2, <1>a, <2>2, <3>1, DgramQuiet DEF Dgram!Bind
  <2> QED
    BY <1>2, <2>1, <2>2 DEF Dgram!Bind
<1>3. CASE Dgram!Signal(s)
  <2>1. NameInv'
    BY <1>0, <1>3, DgramNameSame DEF Dgram!Signal, Dgram!Step, Dgram!Serving
  <2> QED
    BY <1>0, <1>3, <1>a, <2>1, DgramQuiet DEF Dgram!Signal
<1>4. CASE Dgram!SigintUnlink(s)
  <2>1. file' = "none" /\ queue' = queue /\ killed' = killed /\ srv[s] = "unlink"
    BY <1>4 DEF Dgram!SigintUnlink, Dgram!Unlink
  <2>2. ~killed /\ \A t \in Servers \ {s} : srv[t] \notin Dgram!Serving
    BY <1>0, <2>1 DEF NameInv, Dgram!Serving
  <2>3. srv'[s] = "ended" /\ \A t \in Servers \ {s} : srv'[t] = srv[t]
    BY <1>0, <1>4 DEF Dgram!SigintUnlink, Dgram!Exits, Dgram!Step
  <2>4. NameInv'
    BY <2>1, <2>2, <2>3 DEF NameInv, Dgram!Serving
  <2> QED
    BY <1>4, <2>1, <2>4, DgramExits, DgramQuiet DEF Dgram!SigintUnlink, Dgram!Exits
<1> QED
  BY <1>1, <1>2, <1>3, <1>4

(* A server that ends, or gets stuck, has no answer any more.               *)
LEMMA DgramAnswersLess ==
  ASSUME NEW p \in Pids, FlightInv(p), dgramClient'[p] = dgramClient[p], run'[p] = run[p],
         inbox'[p] = inbox[p], Queued(p)' = {} \/ queue' = queue,
         \A s \in Servers : srv'[s] = "sendto" => srv[s] = "sendto" /\ buf'[s] = buf[s]
  PROVE  FlightInv(p)'
<1>1. Answering(p)' \subseteq Answering(p) /\ \A s \in Answering(p)' : buf'[s] = buf[s]
  BY DEF Answering
<1>2. Answered(p)' = Answered(p)
  BY DEF Answered
<1>3. Queued(p)' = {} \/ (Queued(p)' = Queued(p) /\ queue' = queue)
  BY DEF Queued
<1> QED
  BY <1>1, <1>2, <1>3 DEF FlightInv

(* The server takes the next request: it was in the queue, and in no other  *)
(* place.                                                                   *)
LEMMA DgramRecvfrom ==
  ASSUME DgramInv, NEW s \in Servers, Dgram!Recvfrom(s)
  PROVE  DgramInv'
<1> DEFINE m == Head(queue)
<1>0. /\ srv[s] = "recvfrom" /\ queue # <<>> /\ queue' = Tail(queue) /\ file' = file
      /\ buf' = [buf EXCEPT ![s] = m] /\ addr' = [addr EXCEPT ![s] = m.pid]
      /\ Dgram!StoreName(s, m.pid)
      /\ UNCHANGED <<killed, errors, dgramClient, run, own, inbox, answer>>
  BY DEF Dgram!Recvfrom, Dgram!Dequeue
<1>a. PICK next \in {"sendto", "undefined"} : srv' = [srv EXCEPT ![s] = next]
  BY DEF Dgram!Recvfrom, Dgram!Step
<1>1. /\ srv \in [Servers -> {"new", "bind", "failed", "ended"} \cup Dgram!Serving]
      /\ queue \in Seq(Dgram!Requests) /\ Len(queue) <= MaxQueue /\ MaxQueue \in Nat
      /\ buf \in [Servers -> Dgram!Requests \cup {None}]
  BY DgramConstants DEF DgramInv, DgramTypes, Dgram!TypeOK, Dgram!FileTypeOK,
     Dgram!DgramAssumption
<1>2. /\ m \in Dgram!Requests /\ m = queue[1] /\ 1 \in 1..Len(queue) /\ Len(queue) \in Nat
      /\ queue' \in Seq(Dgram!Requests) /\ Len(queue') = Len(queue) - 1
      /\ \A i \in 1..(Len(queue) - 1) : queue'[i] = queue[i + 1]
  BY <1>0, <1>1, QueueHead
<1> HIDE DEF m
<1>3. AddrTypes' /\ AddrInv'
  BY <1>0, <1>2, DgramStores
<1>4. /\ srv'[s] = next /\ buf'[s] = m
      /\ srv' \in [Servers -> {"new", "bind", "failed", "ended"} \cup Dgram!Serving]
      /\ \A t \in Servers \ {s} : srv'[t] = srv[t] /\ buf'[t] = buf[t]
  BY <1>0, <1>a, <1>1 DEF Dgram!Serving
<1>5. \A t \in Servers \ {s} : srv[t] # "sendto"
  BY <1>0 DEF DgramInv, NameInv, Dgram!Serving
<1>6. DgramTypes'
  <2>1. Len(queue') <= MaxQueue
    BY <1>1, <1>2
  <2> QED
    BY <1>0, <1>1, <1>2, <1>3, <1>4, <2>1 DEF DgramInv, DgramTypes, AddrTypes,
       Dgram!TypeOK, Dgram!FileTypeOK
<1>7. NameInv'
  BY <1>0, <1>4, DgramNameSame DEF DgramInv, Dgram!Serving
<1>8. OwnInv' /\ Dgram!OwnAnswer' /\ PidInv'
  BY <1>0, DgramClientsSame DEF DgramInv, PidInv
<1>9. RequestInv'
  <2>2. ASSUME ~errors, NEW p \in Pids, own[p] # "stale" PROVE FlightInv(p)'
    <3>0. FlightInv(p)
      BY <2>2 DEF DgramInv, RequestInv
    <3>1. /\ Answered(p)' = Answered(p) /\ inbox'[p] = inbox[p]
          /\ dgramClient'[p] = dgramClient[p]
          /\ run'[p] = run[p]
      BY <1>0 DEF Answered
    <3>2. \A i \in Queued(p)' : i + 1 \in Queued(p) /\ queue'[i] = queue[i + 1] /\ i \in Nat \ {0}
      BY <1>2 DEF Queued
    <3>4. CASE m.pid = p
      <4>1. 1 \in Queued(p)
        BY <1>2, <3>4 DEF Queued
      <4>2. Queued(p)' = {}
        BY <3>0, <3>2, <4>1 DEF FlightInv
      <4>3. Answering(p)' \subseteq {s}
        BY <1>4, <1>5 DEF Answering
      <4>4. dgramClient[p] = "read" /\ m = [pid |-> p, run |-> run[p]] /\ Answered(p) = {}
        BY <1>2, <3>0, <4>1 DEF FlightInv
      <4> QED
        BY <1>4, <3>1, <4>2, <4>3, <4>4 DEF FlightInv
    <3>5. CASE m.pid # p
      <4>1. Answering(p)' = {}
        BY <1>4, <1>5, <3>5 DEF Answering
      <4>2. Queued(p)' # {} => Queued(p) # {}
        BY <3>2
      <4>3. \A i, j \in Queued(p)' : i = j
        BY <3>0, <3>2 DEF FlightInv
      <4>4. \A i \in Queued(p)' : queue'[i] = [pid |-> p, run |-> run[p]]
        BY <3>0, <3>2 DEF FlightInv
      <4> QED
        BY <3>0, <3>1, <4>1, <4>2, <4>3, <4>4 DEF FlightInv
    <3> QED
      BY <3>4, <3>5
  <2> QED
    BY <1>0, <2>2 DEF RequestInv
<1> QED
  BY <1>3, <1>6, <1>7, <1>8, <1>9 DEF DgramInv

(* A failed recvfrom ends all that is said of the answers, but for whose    *)
(* they are.                                                                *)
LEMMA DgramRecvfromFails ==
  ASSUME DgramInv, NEW s \in Servers, Dgram!RecvfromFails(s)
  PROVE  DgramInv'
<1>0. /\ UNCHANGED <<buf, addr, addrlen, digits>>
      /\ bytes' = [bytes EXCEPT ![s][Fit] = Fit] \/ bytes' = bytes
      /\ srv[s] = "recvfrom"
  BY DEF Dgram!RecvfromFails
<1>a. PICK next \in {"sendto", "undefined"} : srv' = [srv EXCEPT ![s] = next]
  BY DEF Dgram!RecvfromFails, Dgram!Step
<1>1. /\ srv' \in [Servers -> {"new", "bind", "failed", "ended"} \cup Dgram!Serving]
      /\ srv'[s] = next
      /\ \A t \in Servers \ {s} : srv'[t] = srv[t]
  BY <1>a DEF DgramInv, DgramTypes, Dgram!TypeOK, Dgram!Serving
<1>2. AddrTypes' /\ AddrInv'
  <2>1. Fit \in 0..Longest /\ Fit \in 1..Fit
    BY DgramConstants DEF Dgram!DgramAssumption
  <2>2. bytes' \in [Servers -> [1..Fit -> 0..Longest]]
    <3>1. bytes \in [Servers -> [1..Fit -> 0..Longest]] /\ bytes[s] \in [1..Fit -> 0..Longest]
      BY DgramAddrTypes DEF AddrTypes
    <3>2. [bytes[s] EXCEPT ![Fit] = Fit] \in [1..Fit -> 0..Longest]
      BY <2>1, <3>1
    <3> QED
      BY <1>0, <3>1, <3>2
  <2> QED
    BY <1>0, <2>2, DgramAddrTypes DEF AddrTypes, DgramInv, AddrInv
<1>3. DgramTypes'
  BY <1>1, <1>2 DEF DgramInv, DgramTypes, AddrTypes, Dgram!TypeOK, Dgram!FileTypeOK,
     Dgram!RecvfromFails
<1>4. NameInv'
  BY <1>0, <1>1, DgramNameSame DEF DgramInv, Dgram!RecvfromFails, Dgram!Serving
<1>5. OwnInv' /\ Dgram!OwnAnswer' /\ PidInv'
  BY DgramClientsSame DEF Dgram!RecvfromFails, DgramInv, PidInv
<1>6. RequestInv'
  BY DEF RequestInv, Dgram!RecvfromFails
<1> QED
  BY <1>2, <1>3, <1>4, <1>5, <1>6 DEF DgramInv

(* The answer goes to whoever has the name, the client that asked, or to    *)
(* nobody.                                                                  *)
LEMMA DgramSendto ==
  ASSUME DgramInv, NEW s \in Servers, Dgram!Sendto(s)
  PROVE  DgramInv'
<1>0. /\ srv[s] = "sendto" /\ srv' = [srv EXCEPT ![s] = "recvfrom"]
      /\ UNCHANGED <<buf, addr, addrlen, bytes, digits, file, queue, killed, errors,
                     dgramClient, run, own, answer>>
  BY DEF Dgram!Sendto, Dgram!Step
<1>a. \/ inbox' = inbox
      \/ \E p \in Pids : addr[s] = p /\ inbox' = [inbox EXCEPT ![p] = Append(inbox[p], buf[s])]
  BY DEF Dgram!Sendto
<1>1. /\ srv \in [Servers -> {"new", "bind", "failed", "ended"} \cup Dgram!Serving]
      /\ buf[s] \in Dgram!Requests \cup {None} /\ None \notin Pids
      /\ inbox \in [Pids -> Seq(Dgram!Requests)]
  BY DgramConstants DEF DgramInv, DgramTypes, Dgram!TypeOK, Dgram!DgramAssumption
<1>2. /\ srv'[s] = "recvfrom" /\ \A t \in Servers \ {s} : srv'[t] = srv[t]
      /\ srv' \in [Servers -> {"new", "bind", "failed", "ended"} \cup Dgram!Serving]
  BY <1>0, <1>1 DEF Dgram!Serving
<1>3. \A t \in Servers \ {s} : srv[t] # "sendto"
  BY <1>0 DEF DgramInv, NameInv, Dgram!Serving
<1>4. AddrTypes' /\ AddrInv'
  BY <1>0, DgramAddrSame
<1>5. ASSUME NEW p \in Pids, addr[s] = p
      PROVE  /\ buf[s] \in Dgram!Requests /\ buf[s].pid = p
             /\ Append(inbox[p], buf[s]) \in Seq(Dgram!Requests)
             /\ Len(Append(inbox[p], buf[s])) = Len(inbox[p]) + 1 /\ Len(inbox[p]) \in Nat
             /\ \A i \in 1..Len(inbox[p]) : Append(inbox[p], buf[s])[i] = inbox[p][i]
             /\ Append(inbox[p], buf[s])[Len(inbox[p]) + 1] = buf[s]
  <2>1. buf[s] \in Dgram!Requests /\ buf[s].pid = p
    BY <1>1, <1>5 DEF DgramInv, AddrInv
  <2>2. inbox[p] \in Seq(Dgram!Requests)
    BY <1>1
  <2> QED
    BY <2>1, <2>2, QueueAppend
<1>6. inbox' \in [Pids -> Seq(Dgram!Requests)]
  BY <1>a, <1>1, <1>5
<1>7. PidInv'
  <2>1. ASSUME NEW p \in Pids, NEW i \in 1..Len(inbox'[p]) PROVE inbox'[p][i].pid = p
    <3>1. CASE inbox'[p] = inbox[p]
      BY <3>1 DEF DgramInv, PidInv
    <3>2. CASE addr[s] = p /\ inbox'[p] = Append(inbox[p], buf[s])
      <4>1. i \in 1..Len(inbox[p]) \/ i = Len(inbox[p]) + 1
        BY <1>5, <3>2
      <4> QED
        BY <1>5, <3>2, <4>1 DEF DgramInv, PidInv
    <3> QED
      BY <1>a, <1>1, <3>1, <3>2
  <2> QED
    BY <2>1 DEF PidInv
<1>8. DgramTypes'
  BY <1>0, <1>2, <1>4, <1>6 DEF DgramInv, DgramTypes, AddrTypes, Dgram!TypeOK,
     Dgram!FileTypeOK
<1>9. NameInv'
  BY <1>0, <1>2, DgramNameSame DEF DgramInv, Dgram!Serving
<1>10. OwnInv' /\ Dgram!OwnAnswer'
  BY <1>0, DgramClientsSame
<1>11. RequestInv'
  <2>2. ASSUME ~errors, NEW p \in Pids, own[p] # "stale" PROVE FlightInv(p)'
    <3>0. FlightInv(p)
      BY <2>2 DEF DgramInv, RequestInv
    <3>1. Answering(p)' = {}
      BY <1>2, <1>3 DEF Answering
    <3>2. Queued(p)' = Queued(p)
      BY <1>0 DEF Queued
    <3>3. CASE inbox'[p] = inbox[p]
      <4>1. Answered(p)' = Answered(p)
        BY <3>3 DEF Answered
      <4> QED
        BY <1>0, <3>0, <3>1, <3>2, <3>3, <4>1 DEF FlightInv
    <3>4. CASE addr[s] = p /\ inbox'[p] = Append(inbox[p], buf[s])
      <4>1. s \in Answering(p)
        BY <1>0, <1>5, <3>4 DEF Answering
      <4>2. /\ dgramClient[p] = "read" /\ Queued(p) = {} /\ Answered(p) = {}
            /\ buf[s] = [pid |-> p, run |-> run[p]]
        BY <3>0, <4>1 DEF FlightInv
      <4>3. Len(inbox[p]) = 0
        BY <1>5, <3>4, <4>2, NoIndex DEF Answered
      <4>4. Len(inbox'[p]) = 1 /\ inbox'[p][1] = buf[s]
        BY <1>5, <3>4, <4>3
      <4>5. Answered(p)' = {1}
        BY <4>4 DEF Answered
      <4> QED
        BY <1>0, <3>1, <3>2, <4>2, <4>4, <4>5 DEF FlightInv
    <3> QED
      BY <1>a, <1>1, <3>3, <3>4
  <2> QED
    BY <1>0, <2>2 DEF RequestInv
<1> QED
  BY <1>4, <1>7, <1>8, <1>9, <1>10, <1>11 DEF DgramInv

(* A server ends or is on its way out: the queue goes with its socket. *)
LEMMA DgramCloses ==
  ASSUME DgramInv, NEW s \in Servers, NEW next \in {"unlink", "ended"}, Dgram!Step(s, next),
         Dgram!CloseSocket, NameInv', killed' \in BOOLEAN, AddrTypes', AddrInv',
         \A t \in Servers \ {s} : buf'[t] = buf[t],
         UNCHANGED <<errors, Dgram!cVars>>
  PROVE  DgramInv'
<1>0. file' = "stale" /\ queue' = <<>>
  BY DEF Dgram!CloseSocket
<1>1. /\ srv' \in [Servers -> {"new", "bind", "failed", "ended"} \cup Dgram!Serving]
      /\ \A t \in Servers : srv'[t] = "sendto" => srv[t] = "sendto" /\ buf'[t] = buf[t]
  BY DEF DgramInv, DgramTypes, Dgram!TypeOK, Dgram!Step, Dgram!Serving
<1>2. DgramTypes'
  <2>1. queue' \in Seq(Dgram!Requests) /\ Len(queue') <= MaxQueue
    BY <1>0, DgramConstants DEF Dgram!DgramAssumption
  <2> QED
    BY <1>0, <1>1, <2>1 DEF DgramInv, DgramTypes, AddrTypes, Dgram!TypeOK,
       Dgram!FileTypeOK
<1>3. OwnInv' /\ Dgram!OwnAnswer' /\ PidInv'
  BY DgramClientsSame DEF DgramInv, PidInv
<1>4. RequestInv'
  <2>1. ASSUME NEW p \in Pids PROVE Queued(p)' = {}
    <3>1. Len(queue') = 0
      BY <1>0
    <3> QED
      BY <3>1 DEF Queued
  <2>2. ASSUME ~errors, NEW p \in Pids, own[p] # "stale" PROVE FlightInv(p)'
    <3>0. FlightInv(p)
      BY <2>2 DEF DgramInv, RequestInv
    <3> QED
      BY <1>1, <2>1, <3>0, DgramAnswersLess
  <2> QED
    BY <2>2 DEF RequestInv
<1> QED
  BY <1>2, <1>3, <1>4 DEF DgramInv

(* sigint_handler closes, or the server is killed. *)
LEMMA DgramEnds ==
  ASSUME DgramInv, NEW s \in Servers, Dgram!SigintClose(s) \/ Dgram!KillServer(s)
  PROVE  DgramInv'
<1>0. /\ srv \in [Servers -> {"new", "bind", "failed", "ended"} \cup Dgram!Serving] /\ NameInv
      /\ srv[s] \in Dgram!Serving
  BY DEF DgramInv, DgramTypes, Dgram!TypeOK, Dgram!SigintClose,
     Dgram!KillServer, Dgram!Serving
<1>1. ~killed /\ \A t \in Servers \ {s} : srv[t] \notin Dgram!Serving
  BY <1>0 DEF NameInv
<1>2. CASE Dgram!SigintClose(s)
  <2>1. srv'[s] = "unlink" /\ \A t \in Servers \ {s} : srv'[t] = srv[t]
    BY <1>0, <1>2 DEF Dgram!SigintClose, Dgram!Step
  <2>2. file' = "stale" /\ killed' = killed
    BY <1>2 DEF Dgram!SigintClose, Dgram!CloseSocket
  <2>3. NameInv'
    BY <1>1, <2>1, <2>2 DEF NameInv, Dgram!Serving
  <2> QED
    BY <1>2, <2>3, DgramAddrSame, DgramCloses DEF Dgram!SigintClose, DgramInv, DgramTypes
<1>3. CASE Dgram!KillServer(s)
  <2>1. srv'[s] = "ended" /\ \A t \in Servers \ {s} : srv'[t] = srv[t]
    BY <1>0, <1>3 DEF Dgram!KillServer, Dgram!Exits, Dgram!Step
  <2>2. file' = "stale" /\ killed' = TRUE
    BY <1>3 DEF Dgram!KillServer, Dgram!CloseSocket
  <2>3. NameInv'
    BY <1>1, <2>1, <2>2 DEF NameInv, Dgram!Serving
  <2> QED
    BY <1>3, <2>2, <2>3, DgramExits, DgramCloses DEF Dgram!KillServer, Dgram!Exits
<1> QED
  BY <1>2, <1>3

(* A step of one client: what the others have under way stays. *)
LEMMA DgramOneClient ==
  ASSUME DgramInv, NEW p \in Pids, DgramTypes', NameInv',
         UNCHANGED <<srv, buf, Dgram!addrVars, errors>>,
         \A q \in Pids \ {p} : /\ dgramClient'[q] = dgramClient[q]
                               /\ run'[q] = run[q] /\ own'[q] = own[q]
                               /\ inbox'[q] = inbox[q] /\ answer'[q] = answer[q]
                               /\ Queued(q)' = Queued(q)
                               /\ \A i \in Queued(q) : queue'[i] = queue[i],
         dgramClient'[p] \in {"bind", "ended"} => own'[p] \in {"none", "stale"},
         dgramClient'[p] \in {"sendto", "read"} => own'[p] = "bound",
         answer'[p] # None => answer'[p].pid = p /\ (answer'[p].run = run'[p] \/ errors),
         inbox'[p] = inbox[p] \/ Len(inbox'[p]) = 0,
         ~errors /\ own'[p] # "stale" => FlightInv(p)'
  PROVE  DgramInv'
<1>1. OwnInv'
  BY DEF DgramInv, OwnInv
<1>2. Dgram!OwnAnswer'
  BY DEF DgramInv, Dgram!OwnAnswer
<1>3. AddrInv'
  BY DgramAddrSame
<1>4. RequestInv'
  <2>2. ASSUME ~errors, NEW q \in Pids, q # p, own'[q] # "stale" PROVE FlightInv(q)'
    <3>1. FlightInv(q)
      BY <2>2 DEF DgramInv, RequestInv
    <3>2. Answering(q)' = Answering(q) /\ Answered(q)' = Answered(q)
      BY <2>2 DEF Answering, Answered
    <3> QED
      BY <2>2, <3>1, <3>2 DEF FlightInv
  <2> QED
    BY <2>2 DEF RequestInv
<1>5. PidInv'
  BY DEF DgramInv, PidInv
<1> QED
  BY <1>1, <1>2, <1>3, <1>4, <1>5 DEF DgramInv

(* What the variables of the clients are. *)
LEMMA DgramClientTypes ==
  ASSUME DgramInv
  PROVE  /\ dgramClient \in [Pids -> {"bind", "sendto", "read", "ended"}]
         /\ run \in [Pids -> 1..MaxRuns] /\ own \in [Pids -> {"none", "bound", "stale"}]
         /\ inbox \in [Pids -> Seq(Dgram!Requests)]
         /\ answer \in [Pids -> Dgram!Requests \cup {None}]
  BY DEF DgramInv, DgramTypes, Dgram!TypeOK

(* A client that has nothing under way. *)
LEMMA DgramNothing ==
  ASSUME NEW p \in Pids, Queued(p) = {}, Answering(p) = {}, queue' = queue,
         srv' = srv, buf' = buf, Len(inbox'[p]) = 0
  PROVE  FlightInv(p)'
<1>1. Queued(p)' = {} /\ Answering(p)' = {} /\ Answered(p)' = {}
  BY DEF Queued, Answering, Answered
<1> QED
  BY <1>1 DEF FlightInv

(* bind of a client. *)
LEMMA DgramClientBind ==
  ASSUME DgramInv, NEW p \in Pids, Dgram!ClientBind(p)
  PROVE  DgramInv'
<1>0. /\ dgramClient[p] = "bind"
      /\ \/ /\ own[p] = "none" /\ dgramClient' = [dgramClient EXCEPT ![p] = "sendto"]
            /\ own' = [own EXCEPT ![p] = "bound"]
         \/ dgramClient' = [dgramClient EXCEPT ![p] = "ended"] /\ own' = own
      /\ UNCHANGED <<srv, buf, Dgram!addrVars, file, queue, killed, errors, run, inbox, answer>>
  BY DEF Dgram!ClientBind, Dgram!To
<1>1. /\ dgramClient' \in [Pids -> {"bind", "sendto", "read", "ended"}]
      /\ own' \in [Pids -> {"none", "bound", "stale"}]
      /\ \/ dgramClient'[p] = "sendto" /\ own'[p] = "bound" /\ own[p] # "stale"
         \/ dgramClient'[p] = "ended" /\ own' = own /\ own[p] \in {"none", "stale"}
      /\ \A q \in Pids \ {p} : dgramClient'[q] = dgramClient[q] /\ own'[q] = own[q]
  BY <1>0, DgramClientTypes DEF DgramInv, OwnInv
<1>2. DgramTypes'
  BY <1>0, <1>1 DEF DgramInv, DgramTypes, Dgram!TypeOK, Dgram!FileTypeOK
<1>3. NameInv'
  BY <1>0, DgramNameSame DEF DgramInv
<1>4. ASSUME ~errors, own'[p] # "stale" PROVE FlightInv(p)'
  <2>1. Queued(p) = {} /\ Answering(p) = {} /\ Answered(p) = {}
    BY <1>0, <1>1, <1>4 DEF DgramInv, RequestInv, FlightInv
  <2>2. Len(inbox'[p]) = 0
    <3>1. Len(inbox[p]) \in Nat
      BY DgramClientTypes
    <3> QED
      BY <1>0, <2>1, <3>1, NoIndex DEF Answered
  <2> QED
    BY <1>0, <2>1, <2>2, DgramNothing
<1>5. \A q \in Pids : Queued(q)' = Queued(q)
  BY <1>0 DEF Queued
<1>6. answer'[p] # None => answer'[p].pid = p /\ (answer'[p].run = run'[p] \/ errors)
  BY <1>0 DEF DgramInv, Dgram!OwnAnswer
<1> QED
  BY <1>0, <1>1, <1>2, <1>3, <1>4, <1>5, <1>6, DgramOneClient

(* sendto of a client: its request is the only one it has under way. *)
LEMMA DgramClientSendto ==
  ASSUME DgramInv, NEW p \in Pids, Dgram!ClientSendto(p)
  PROVE  DgramInv'
<1>0. /\ dgramClient[p] = "sendto"
      /\ UNCHANGED <<srv, buf, Dgram!addrVars, killed, errors, run, inbox, answer>>
  BY DEF Dgram!ClientSendto
<1>1. answer'[p] # None => answer'[p].pid = p /\ (answer'[p].run = run'[p] \/ errors)
  BY <1>0 DEF DgramInv, Dgram!OwnAnswer
<1>2. CASE Dgram!Enqueue([pid |-> p, run |-> run[p]]) /\ Dgram!To(p, "read") /\ UNCHANGED own
  <2> DEFINE m == [pid |-> p, run |-> run[p]]
  <2>1. /\ file' = file /\ Len(queue) < MaxQueue /\ queue' = Append(queue, m) /\ own' = own
        /\ dgramClient' = [dgramClient EXCEPT ![p] = "read"]
    BY <1>2 DEF Dgram!Enqueue, Dgram!CanSend, Dgram!To
  <2>2. m \in Dgram!Requests /\ m.pid = p
    BY DgramRequest DEF DgramInv
  <2> HIDE DEF m
  <2>3. queue \in Seq(Dgram!Requests) /\ MaxQueue \in Nat
    BY DgramConstants DEF DgramInv, DgramTypes, Dgram!DgramAssumption
  <2>4. /\ queue' \in Seq(Dgram!Requests) /\ Len(queue') = Len(queue) + 1 /\ Len(queue) \in Nat
        /\ \A i \in 1..Len(queue) : queue'[i] = queue[i]
        /\ queue'[Len(queue) + 1] = m
    BY <2>1, <2>2, <2>3, QueueAppend
  <2>5. /\ dgramClient' \in [Pids -> {"bind", "sendto", "read", "ended"}]
        /\ dgramClient'[p] = "read"
        /\ \A q \in Pids \ {p} : dgramClient'[q] = dgramClient[q]
    BY <2>1, DgramClientTypes
  <2>6. DgramTypes'
    <3>1. Len(queue') <= MaxQueue
      BY <2>1, <2>3, <2>4
    <3> QED
      BY <1>0, <2>1, <2>4, <2>5, <3>1 DEF DgramInv, DgramTypes, Dgram!TypeOK,
         Dgram!FileTypeOK
  <2>7. NameInv'
    BY <1>0, <2>1, DgramNameSame DEF DgramInv
  <2>8. ASSUME NEW q \in Pids \ {p}
        PROVE  Queued(q)' = Queued(q) /\ \A i \in Queued(q) : queue'[i] = queue[i]
    <3>1. \A i \in 1..Len(queue') : i \in 1..Len(queue) \/ i = Len(queue) + 1
      BY <2>4
    <3>2. \A i \in 1..Len(queue) : i \in 1..Len(queue')
      BY <2>4
    <3> QED
      BY <2>2, <2>4, <3>1, <3>2 DEF Queued
  <2>9. ASSUME ~errors PROVE FlightInv(p)'
    <3>1. own[p] = "bound"
      BY <1>0 DEF DgramInv, OwnInv
    <3>2. Queued(p) = {} /\ Answering(p) = {} /\ Answered(p) = {}
      BY <1>0, <2>9, <3>1 DEF DgramInv, RequestInv, FlightInv
    <3>3. Queued(p)' = {Len(queue) + 1}
      <4>1. \A i \in 1..Len(queue') : i \in 1..Len(queue) \/ i = Len(queue) + 1
        BY <2>4
      <4>2. Len(queue) + 1 \in 1..Len(queue')
        BY <2>4
      <4>3. \A i \in 1..Len(queue) : queue'[i].pid # p
        BY <2>4, <3>2 DEF Queued
      <4> QED
        BY <2>2, <2>4, <4>1, <4>2, <4>3 DEF Queued
    <3>4. Answering(p)' = {} /\ Answered(p)' = {}
      BY <1>0, <3>2 DEF Answering, Answered
    <3>5. queue'[Len(queue) + 1] = [pid |-> p, run |-> run'[p]]
      BY <1>0, <2>4 DEF m
    <3> QED
      BY <2>5, <3>3, <3>4, <3>5 DEF FlightInv
  <2>10. own'[p] = "bound"
    BY <1>0, <2>1 DEF DgramInv, OwnInv
  <2>11. \A q \in Pids \ {p} : /\ dgramClient'[q] = dgramClient[q] /\ run'[q] = run[q]
                                /\ own'[q] = own[q] /\ inbox'[q] = inbox[q]
                                /\ answer'[q] = answer[q]
    BY <1>0, <2>1, <2>5
  <2>12. inbox'[p] = inbox[p] /\ UNCHANGED <<srv, buf, Dgram!addrVars, errors>>
    BY <1>0
  <2> QED
    BY <1>1, <2>5, <2>6, <2>7, <2>8, <2>9, <2>10, <2>11, <2>12, DgramOneClient
<1>3. CASE /\ Dgram!To(p, "ended") /\ own' = [own EXCEPT ![p] = "stale"]
           /\ UNCHANGED <<file, queue>>
  <2>1. /\ dgramClient' \in [Pids -> {"bind", "sendto", "read", "ended"}]
        /\ dgramClient'[p] = "ended"
        /\ own' \in [Pids -> {"none", "bound", "stale"}] /\ own'[p] = "stale"
        /\ \A q \in Pids \ {p} : dgramClient'[q] = dgramClient[q] /\ own'[q] = own[q]
    BY <1>3, DgramClientTypes DEF Dgram!To
  <2>2. DgramTypes'
    BY <1>0, <1>3, <2>1 DEF DgramInv, DgramTypes, Dgram!TypeOK,
       Dgram!FileTypeOK
  <2>3. NameInv'
    BY <1>0, <1>3, DgramNameSame DEF DgramInv
  <2>4. \A q \in Pids : Queued(q)' = Queued(q)
    BY <1>3 DEF Queued
  <2> QED
    BY <1>0, <1>1, <1>3, <2>1, <2>2, <2>3, <2>4, DgramOneClient
<1> QED
  BY <1>2, <1>3 DEF Dgram!ClientSendto

(* read of a client: the one answer that is under way. *)
LEMMA DgramClientRead ==
  ASSUME DgramInv, NEW p \in Pids, Dgram!ClientRead(p)
  PROVE  DgramInv'
<1>0. /\ dgramClient[p] = "read" /\ inbox[p] # <<>>
      /\ answer' = [answer EXCEPT ![p] = Head(inbox[p])]
      /\ dgramClient' = [dgramClient EXCEPT ![p] = "ended"]
      /\ inbox' = [inbox EXCEPT ![p] = <<>>]
      /\ UNCHANGED <<srv, buf, Dgram!addrVars, file, queue, killed, errors, run>>
  BY DEF Dgram!ClientRead, Dgram!To
<1>a. PICK after \in {"none", "stale"} : own' = [own EXCEPT ![p] = after]
  BY DEF Dgram!ClientRead
<1>1. /\ Head(inbox[p]) \in Dgram!Requests /\ Head(inbox[p]) = inbox[p][1]
      /\ 1 \in 1..Len(inbox[p])
  <2>1. inbox[p] \in Seq(Dgram!Requests)
    BY DgramClientTypes
  <2> QED
    BY <1>0, <2>1, QueueHead
<1>2. <<>> \in Seq(Dgram!Requests) /\ Len(<<>>) = 0
  OBVIOUS
<1>3. /\ dgramClient' \in [Pids -> {"bind", "sendto", "read", "ended"}]
      /\ dgramClient'[p] = "ended"
      /\ own' \in [Pids -> {"none", "bound", "stale"}] /\ own'[p] = after
      /\ inbox' \in [Pids -> Seq(Dgram!Requests)] /\ inbox'[p] = <<>>
      /\ answer' \in [Pids -> Dgram!Requests \cup {None}] /\ answer'[p] = inbox[p][1]
      /\ \A q \in Pids \ {p} : /\ dgramClient'[q] = dgramClient[q] /\ own'[q] = own[q]
                               /\ inbox'[q] = inbox[q] /\ answer'[q] = answer[q]
  BY <1>0, <1>a, <1>1, <1>2, DgramClientTypes
<1>4. DgramTypes'
  BY <1>0, <1>3 DEF DgramInv, DgramTypes, Dgram!TypeOK, Dgram!FileTypeOK
<1>5. NameInv'
  BY <1>0, DgramNameSame DEF DgramInv
<1>6. ~errors => FlightInv(p)
  BY <1>0 DEF DgramInv, OwnInv, RequestInv
<1>7. 1 \in Answered(p)
  BY <1>1 DEF Answered
<1>8. ASSUME ~errors PROVE FlightInv(p)'
  <2>1. Queued(p) = {} /\ Answering(p) = {}
    BY <1>6, <1>7, <1>8 DEF FlightInv
  <2> QED
    BY <1>0, <1>2, <1>3, <2>1, DgramNothing
<1>9. answer'[p].pid = p /\ (answer'[p].run = run'[p] \/ errors)
  <2>1. answer'[p].pid = p
    BY <1>1, <1>3 DEF DgramInv, PidInv
  <2>2. ~errors => answer'[p].run = run'[p]
    BY <1>0, <1>3, <1>6, <1>7 DEF FlightInv
  <2> QED
    BY <2>1, <2>2
<1>10. \A q \in Pids : Queued(q)' = Queued(q)
  BY <1>0 DEF Queued
<1> QED
  BY <1>0, <1>3, <1>4, <1>5, <1>8, <1>9, <1>10, DgramOneClient

(* A killed client leaves its name, and no later one gets past its bind. *)
LEMMA DgramKillClient ==
  ASSUME DgramInv, NEW p \in Pids, Dgram!KillClient(p)
  PROVE  DgramInv'
<1>0. /\ dgramClient' = [dgramClient EXCEPT ![p] = "ended"]
      /\ own' = [own EXCEPT ![p] = "stale"] /\ inbox' = [inbox EXCEPT ![p] = <<>>]
      /\ UNCHANGED <<srv, buf, Dgram!addrVars, file, queue, killed, errors, run, answer>>
  BY DEF Dgram!KillClient, Dgram!To
<1>1. <<>> \in Seq(Dgram!Requests)
  OBVIOUS
<1>2. /\ dgramClient' \in [Pids -> {"bind", "sendto", "read", "ended"}]
      /\ dgramClient'[p] = "ended"
      /\ own' \in [Pids -> {"none", "bound", "stale"}] /\ own'[p] = "stale"
      /\ inbox' \in [Pids -> Seq(Dgram!Requests)]
      /\ \A q \in Pids \ {p} : /\ dgramClient'[q] = dgramClient[q] /\ own'[q] = own[q]
                               /\ inbox'[q] = inbox[q]
  BY <1>0, <1>1, DgramClientTypes
<1>3. DgramTypes'
  BY <1>0, <1>2 DEF DgramInv, DgramTypes, Dgram!TypeOK, Dgram!FileTypeOK
<1>4. NameInv'
  BY <1>0, DgramNameSame DEF DgramInv
<1>5. answer'[p] # None => answer'[p].pid = p /\ (answer'[p].run = run'[p] \/ errors)
  BY <1>0 DEF DgramInv, Dgram!OwnAnswer
<1>6. \A q \in Pids : Queued(q)' = Queued(q)
  BY <1>0 DEF Queued
<1> QED
  BY <1>0, <1>2, <1>3, <1>4, <1>5, <1>6, DgramOneClient

(* The next client with a pid. *)
LEMMA DgramNewClient ==
  ASSUME DgramInv, NEW p \in Pids, Dgram!NewClient(p)
  PROVE  DgramInv'
<1>0. /\ dgramClient[p] = "ended" /\ run[p] < MaxRuns
      /\ dgramClient' = [dgramClient EXCEPT ![p] = "bind"]
      /\ run' = [run EXCEPT ![p] = @ + 1] /\ answer' = [answer EXCEPT ![p] = None]
      /\ UNCHANGED <<srv, buf, Dgram!addrVars, file, queue, killed, errors, own, inbox>>
  BY DEF Dgram!NewClient, Dgram!To
<1>1. run[p] + 1 \in 1..MaxRuns
  BY <1>0, DgramClientTypes, DgramConstants DEF Dgram!DgramAssumption
<1>2. /\ dgramClient' \in [Pids -> {"bind", "sendto", "read", "ended"}]
      /\ dgramClient'[p] = "bind"
      /\ run' \in [Pids -> 1..MaxRuns]
      /\ answer' \in [Pids -> Dgram!Requests \cup {None}] /\ answer'[p] = None
      /\ \A q \in Pids \ {p} : /\ dgramClient'[q] = dgramClient[q] /\ run'[q] = run[q]
                               /\ answer'[q] = answer[q]
  BY <1>0, <1>1, DgramClientTypes
<1>3. DgramTypes'
  BY <1>0, <1>2 DEF DgramInv, DgramTypes, Dgram!TypeOK, Dgram!FileTypeOK
<1>4. NameInv'
  BY <1>0, DgramNameSame DEF DgramInv
<1>5. own'[p] \in {"none", "stale"}
  BY <1>0 DEF DgramInv, OwnInv
<1>6. ASSUME ~errors, own'[p] # "stale" PROVE FlightInv(p)'
  <2>1. Queued(p) = {} /\ Answering(p) = {} /\ Answered(p) = {}
    BY <1>0, <1>6 DEF DgramInv, RequestInv, FlightInv
  <2>2. Len(inbox'[p]) = 0
    <3>1. Len(inbox[p]) \in Nat
      BY DgramClientTypes
    <3> QED
      BY <1>0, <2>1, <3>1, NoIndex DEF Answered
  <2> QED
    BY <1>0, <2>1, <2>2, DgramNothing
<1>7. \A q \in Pids : Queued(q)' = Queued(q)
  BY <1>0 DEF Queued
<1> QED
  BY <1>0, <1>2, <1>3, <1>4, <1>5, <1>6, <1>7, DgramOneClient

(* Every step keeps the invariant. *)
LEMMA DgramStepHolds == DgramInv /\ [Dgram!Next]_Dgram!vars => DgramInv'
<1> SUFFICES ASSUME DgramInv, [Dgram!Next]_Dgram!vars PROVE DgramInv'
  OBVIOUS
<1>1. ASSUME NEW s \in Servers,
             \/ Dgram!Socket(s) \/ Dgram!Bind(s) \/ Dgram!Signal(s) \/ Dgram!Recvfrom(s)
             \/ Dgram!Sendto(s)
             \/ Dgram!SigintUnlink(s) \/ Dgram!RecvfromFails(s)
             \/ Dgram!SigintClose(s) \/ Dgram!KillServer(s)
      PROVE  DgramInv'
  BY <1>1, DgramSetUp, DgramRecvfrom, DgramSendto, DgramRecvfromFails,
     DgramEnds
<1>2. ASSUME NEW p \in Pids,
             \/ Dgram!ClientBind(p) \/ Dgram!ClientSendto(p) \/ Dgram!ClientRead(p)
             \/ Dgram!KillClient(p) \/ Dgram!NewClient(p)
      PROVE  DgramInv'
  BY <1>2, DgramClientBind, DgramClientSendto, DgramClientRead,
     DgramKillClient, DgramNewClient
<1>3. CASE UNCHANGED Dgram!vars
  <2>0. UNCHANGED <<srv, buf, Dgram!addrVars, file, queue, killed, errors,
                    dgramClient, run, own, inbox, answer>>
    BY <1>3 DEF Dgram!vars
  <2>1. DgramTypes'
    BY <2>0 DEF DgramInv, DgramTypes, Dgram!TypeOK, Dgram!FileTypeOK
  <2>2. NameInv'
    BY <2>0, DgramNameSame DEF DgramInv
  <2>3. OwnInv' /\ Dgram!OwnAnswer'
    BY <2>0, DgramClientsSame
  <2>5. AddrInv' /\ PidInv'
    BY <2>0 DEF DgramInv, AddrInv, PidInv
  <2>4. RequestInv'
    <3>2. ASSUME ~errors, NEW p \in Pids, own[p] # "stale" PROVE FlightInv(p)'
      BY <2>0, <3>2, DgramFlightSame DEF DgramInv, RequestInv
    <3> QED
      BY <2>0, <3>2 DEF RequestInv
  <2> QED
    BY <2>1, <2>2, <2>3, <2>4, <2>5 DEF DgramInv
<1> QED
  BY <1>1, <1>2, <1>3 DEF Dgram!Next, Dgram!ServerStep, Dgram!ClientStep

(* The instance counts its sets as FiniteSets does. *)
LEMMA DgramCardinality == ASSUME NEW S PROVE Dgram!Cardinality(S) = Cardinality(S)
  BY Zenon DEF Dgram!Cardinality, Cardinality

(* The invariant implies both properties. *)
LEMMA DgramImplies == DgramInv => Dgram!OwnAnswer /\ Dgram!StaleMeansKilled
<1> SUFFICES ASSUME DgramInv PROVE Dgram!OwnAnswer /\ Dgram!StaleMeansKilled
  OBVIOUS
<1> DEFINE D == {s \in Servers : srv[s] \in Dgram!Serving}
<1>1. Cardinality(D) <= 1
  <2>1. CASE D = {}
    <3>1. Cardinality(D) = 0
      BY <2>1, FS_EmptySet
    <3> QED
      BY <3>1
  <2>2. CASE D # {}
    <3>1. PICK s \in D : TRUE
      BY <2>2
    <3>2. D = {s}
      BY <3>1 DEF DgramInv, NameInv
    <3>3. Cardinality(D) = 1
      BY <3>2, FS_Singleton
    <3> QED
      BY <3>3
  <2> QED
    BY <2>1, <2>2
<1> HIDE DEF D
<1>2. file = "bound" <=> \E s \in Servers : srv[s] \in Dgram!Serving \ {"unlink"}
  BY DEF DgramInv, NameInv
<1>3. (file = "stale" /\ \A s \in Servers : srv[s] # "unlink") <=> killed
  BY DEF DgramInv, NameInv, DgramTypes, Dgram!Serving
<1> QED
  BY <1>1, <1>2, <1>3, DgramCardinality DEF Dgram!StaleMeansKilled, DgramInv,
     DgramTypes, D

(* The request of a waiting client moves on: from the queue to the server,  *)
(* which has its whole name then, and from there to its socket.             *)
LEMMA DgramWaitsSame ==
  ASSUME DgramInv, WaitInv, NEW p \in Pids,
         dgramClient'[p] = dgramClient[p], run'[p] = run[p], digits' = digits,
         cut \subseteq cut', inbox'[p] # <<>> \/ inbox'[p] = inbox[p], queue' = queue,
         \A s \in Servers : srv[s] = "sendto" =>
            /\ srv'[s] = srv[s] /\ buf'[s] = buf[s] /\ addr'[s] = addr[s]
            /\ bytes'[s] = bytes[s],
         \A s \in Servers : srv[s] \in {"unlink", "ended", "undefined"} =>
                           srv'[s] \in {"unlink", "ended", "undefined"}
  PROVE  Waits(p)'
<1> DEFINE m == [pid |-> p, run |-> run[p]]
           Has(s) == srv[s] = "sendto" /\ buf[s] = m /\ addr[s] = p /\ Dgram!Whole(s, p)
<1>1. SUFFICES ASSUME dgramClient[p] = "read", Dgram!Fits(p), m \notin cut,
                      \A s \in Servers : srv[s] \notin {"unlink", "ended", "undefined"}
               PROVE  \/ \E i \in 1..Len(queue) : queue[i] = m
                      \/ \E s \in Servers : /\ srv'[s] = "sendto" /\ buf'[s] = m /\ addr'[s] = p
                                          /\ Dgram!Whole(s, p)'
                      \/ inbox'[p] # <<>>
  BY DEF Waits, Dgram!Fits, Dgram!WasCut
<1>2. (\E i \in 1..Len(queue) : queue[i] = m) \/ (\E s \in Servers : Has(s)) \/ inbox[p] # <<>>
  BY <1>1 DEF WaitInv, Waits, Dgram!WasCut
<1>3. ASSUME NEW s \in Servers, Has(s)
      PROVE  srv'[s] = "sendto" /\ buf'[s] = m /\ addr'[s] = p /\ Dgram!Whole(s, p)'
  BY <1>3 DEF Dgram!Whole
<1> HIDE DEF m
<1> QED
  BY <1>2, <1>3

LEMMA DgramWaitStep == DgramInv /\ WaitInv /\ [Dgram!Next]_Dgram!vars => WaitInv'
<1> SUFFICES ASSUME DgramInv, WaitInv, [Dgram!Next]_Dgram!vars, NEW p \in Pids PROVE Waits(p)'
  BY DEF WaitInv
<1>0. /\ srv \in [Servers -> {"new", "bind", "failed", "ended"} \cup Dgram!Serving]
      /\ AddrTypes /\ queue \in Seq(Dgram!Requests)
  BY DgramAddrTypes DEF DgramInv, DgramTypes, Dgram!TypeOK
<1>a. /\ dgramClient \in [Pids -> {"bind", "sendto", "read", "ended"}]
      /\ run \in [Pids -> 1..MaxRuns] /\ inbox \in [Pids -> Seq(Dgram!Requests)]
  BY DgramClientTypes
<1>1. ASSUME NEW s \in Servers, Dgram!Socket(s) \/ Dgram!Bind(s) \/ Dgram!Signal(s)
      PROVE  Waits(p)'
  <2>1. PICK next : srv' = [srv EXCEPT ![s] = next] /\ srv[s] \in {"new", "bind", "signal"}
    BY <1>1 DEF Dgram!Socket, Dgram!Bind, Dgram!Signal, Dgram!Step
  <2>2. /\ queue' = queue
        /\ UNCHANGED <<buf, addr, bytes, digits, cut, dgramClient, run, inbox>>
    BY <1>1 DEF Dgram!Socket, Dgram!Bind, Dgram!Signal, Dgram!BindFile
  <2> QED
    BY <1>0, <2>1, <2>2, DgramWaitsSame
<1>2. ASSUME NEW s \in Servers, Dgram!Recvfrom(s) PROVE Waits(p)'
  <2> DEFINE m == [pid |-> p, run |-> run[p]]
             q == Head(queue)
  <2>0. /\ srv[s] = "recvfrom" /\ queue # <<>> /\ queue' = Tail(queue)
        /\ buf' = [buf EXCEPT ![s] = q] /\ addr' = [addr EXCEPT ![s] = q.pid]
        /\ Dgram!StoreName(s, q.pid) /\ UNCHANGED <<dgramClient, run, inbox>>
        /\ cut' = IF digits[q.pid] > addrlen[s] THEN cut \cup {q} ELSE cut
    BY <1>2 DEF Dgram!Recvfrom, Dgram!Dequeue
  <2>1. PICK next \in {"sendto", "undefined"} : srv' = [srv EXCEPT ![s] = next]
    BY <1>2 DEF Dgram!Recvfrom, Dgram!Step
  <2>2. SUFFICES ASSUME dgramClient[p] = "read", Dgram!Fits(p), m \notin cut',
                        \A t \in Servers : srv'[t] \notin {"unlink", "ended", "undefined"}
                 PROVE  \/ \E i \in 1..Len(queue') : queue'[i] = m
                        \/ \E t \in Servers : /\ srv'[t] = "sendto" /\ buf'[t] = m
                                            /\ addr'[t] = p /\ Dgram!Whole(t, p)'
                        \/ inbox[p] # <<>>
    BY <2>0 DEF Waits, Dgram!StoreName, Dgram!Fits, Dgram!WasCut
  <2>3. \A t \in Servers : srv[t] \notin {"unlink", "ended", "undefined"}
    BY <1>0, <2>0, <2>1, <2>2
  <2>4. /\ q = queue[1] /\ Len(queue) \in Nat /\ Len(queue') = Len(queue) - 1
        /\ \A i \in 1..(Len(queue) - 1) : queue'[i] = queue[i + 1]
    BY <1>0, <2>0, QueueHead
  <2> HIDE DEF q
  <2>5. m \notin cut
    BY <2>0, <2>2
  <2>6. \/ \E i \in 1..Len(queue) : queue[i] = m
        \/ \E t \in Servers : srv[t] = "sendto" /\ buf[t] = m /\ addr[t] = p /\ Dgram!Whole(t, p)
        \/ inbox[p] # <<>>
    BY <2>2, <2>3, <2>5 DEF WaitInv, Waits, Dgram!WasCut
  <2>7. CASE q = m
    <3>1. q.pid = p /\ digits[p] <= addrlen[s] /\ digits[p] <= Fit
      BY <1>0, <2>0, <2>2, <2>7, DgramConstants
         DEF Dgram!Fits, AddrTypes, Dgram!DgramAssumption
    <3>2. Dgram!Whole(s, p)'
      BY <1>0, <2>0, <3>1, DgramConstants
         DEF Dgram!Whole, Dgram!StoreName, AddrTypes, Dgram!DgramAssumption
    <3>3. srv'[s] = "sendto" /\ buf'[s] = m /\ addr'[s] = p
      BY <1>0, <2>0, <2>1, <2>2, <2>7, <3>1 DEF AddrTypes
    <3> QED
      BY <3>2, <3>3
  <2>8. CASE \E i \in 1..Len(queue) : queue[i] = m /\ q # m
    <3>1. PICK i \in 1..Len(queue) : queue[i] = m /\ q # m
      BY <2>8
    <3>2. i - 1 \in 1..Len(queue') /\ queue'[i - 1] = m
      BY <2>4, <3>1
    <3> QED
      BY <3>2
  <2>9. CASE \E t \in Servers : srv[t] = "sendto" /\ buf[t] = m /\ addr[t] = p /\ Dgram!Whole(t, p)
    BY <2>0, <2>9 DEF DgramInv, NameInv, Dgram!Serving
  <2> QED
    BY <2>6, <2>7, <2>8, <2>9
<1>3. ASSUME NEW s \in Servers, Dgram!RecvfromFails(s) PROVE Waits(p)'
  <2>1. PICK next : srv' = [srv EXCEPT ![s] = next] /\ srv[s] = "recvfrom"
    BY <1>3 DEF Dgram!RecvfromFails, Dgram!Step
  <2>2. /\ UNCHANGED <<queue, buf, addr, digits, cut, dgramClient, run, inbox>>
        /\ bytes' = [bytes EXCEPT ![s][Fit] = Fit] \/ bytes' = bytes
    BY <1>3 DEF Dgram!RecvfromFails
  <2>3. \A t \in Servers \ {s} : bytes'[t] = bytes[t] /\ srv'[t] = srv[t]
    BY <1>0, <2>1, <2>2 DEF AddrTypes
  <2> QED
    BY <1>0, <2>1, <2>2, <2>3, DgramWaitsSame
<1>4. ASSUME NEW s \in Servers, Dgram!Sendto(s) PROVE Waits(p)'
  <2> DEFINE m == [pid |-> p, run |-> run[p]]
  <2>0. /\ srv[s] = "sendto" /\ srv' = [srv EXCEPT ![s] = "recvfrom"]
        /\ UNCHANGED <<queue, buf, addr, addrlen, bytes, digits, cut, dgramClient, run, own>>
    BY <1>4 DEF Dgram!Sendto, Dgram!Step
  <2>1. \A t \in Servers \ {s} : srv'[t] = srv[t]
    BY <2>0
  <2>a. \A r \in Pids : addr[s] = r => buf[s] \in Dgram!Requests
    BY DgramConstants DEF DgramInv, AddrInv, Dgram!DgramAssumption
  <2>2. inbox'[p] # <<>> \/ inbox'[p] = inbox[p]
    <3>1. CASE inbox' = inbox
      BY <3>1
    <3>2. ASSUME NEW r \in Pids, addr[s] = r, inbox' = [inbox EXCEPT ![r] = Append(inbox[r], buf[s])]
          PROVE  inbox'[p] # <<>> \/ inbox'[p] = inbox[p]
      <4>1. CASE r = p
        <5>1. Append(inbox[p], buf[s]) # <<>>
          BY <1>a, <2>a, <3>2, QueueAppendNotEmpty
        <5> QED
          BY <1>a, <3>2, <4>1, <5>1
      <4>2. CASE r # p
        BY <1>a, <3>2, <4>2
      <4> QED
        BY <4>1, <4>2
    <3> QED
      BY <1>4, <3>1, <3>2 DEF Dgram!Sendto
  <2>3. SUFFICES ASSUME dgramClient[p] = "read", Dgram!Fits(p), m \notin cut,
                        \A t \in Servers : srv[t] \notin {"unlink", "ended", "undefined"}
                 PROVE  \/ \E i \in 1..Len(queue) : queue[i] = m
                        \/ \E t \in Servers : /\ srv'[t] = "sendto" /\ buf[t] = m
                                            /\ addr[t] = p /\ Dgram!Whole(t, p)
                        \/ inbox'[p] # <<>>
    BY <1>0, <2>0, <2>1 DEF Waits, Dgram!Fits, Dgram!WasCut, Dgram!Whole
  <2>4. \/ \E i \in 1..Len(queue) : queue[i] = m
        \/ \E t \in Servers : srv[t] = "sendto" /\ buf[t] = m /\ addr[t] = p /\ Dgram!Whole(t, p)
        \/ inbox[p] # <<>>
    BY <2>3 DEF WaitInv, Waits, Dgram!WasCut
  <2>5. CASE buf[s] = m /\ addr[s] = p /\ Dgram!Whole(s, p)
    <3>1. own[p] = "bound"
      BY <2>3 DEF DgramInv, OwnInv
    <3>2. \E r \in Pids : addr[s] = r /\ inbox' = [inbox EXCEPT ![r] = Append(inbox[r], buf[s])]
      BY <1>4, <2>5, <3>1 DEF Dgram!Sendto
    <3>3. inbox'[p] = Append(inbox[p], buf[s])
      BY <1>a, <2>5, <3>2
    <3>4. Append(inbox[p], buf[s]) # <<>>
      BY <1>a, <2>a, <2>5, QueueAppendNotEmpty
    <3> QED
      BY <3>3, <3>4
  <2> QED
    BY <2>1, <2>2, <2>4, <2>5
<1>5. ASSUME NEW s \in Servers,
             Dgram!SigintClose(s) \/ Dgram!SigintUnlink(s) \/ Dgram!KillServer(s)
      PROVE  Waits(p)'
  <2>1. srv'[s] \in {"unlink", "ended"}
    BY <1>0, <1>5 DEF Dgram!SigintClose, Dgram!SigintUnlink, Dgram!KillServer, Dgram!Exits, Dgram!Step
  <2> QED
    BY <2>1 DEF Waits
<1>6. ASSUME NEW q \in Pids, Dgram!ClientSendto(q) PROVE Waits(p)'
  <2>0. UNCHANGED <<srv, buf, addr, bytes, digits, cut, run, inbox>>
    BY <1>6 DEF Dgram!ClientSendto
  <2>1. CASE Dgram!Enqueue([pid |-> q, run |-> run[q]]) /\ Dgram!To(q, "read")
    <3> DEFINE n == [pid |-> q, run |-> run[q]]
    <3>1. /\ Len(queue') = Len(queue) + 1 /\ Len(queue) \in Nat
          /\ \A i \in 1..Len(queue) : queue'[i] = queue[i]
          /\ queue'[Len(queue) + 1] = n
      <4>1. n \in Dgram!Requests
        BY DgramRequest DEF DgramInv
      <4>2. queue' = Append(queue, n)
        BY <2>1 DEF Dgram!Enqueue
      <4> HIDE DEF n
      <4> QED
        BY <1>0, <4>1, <4>2, QueueAppend
    <3>2. \A r \in Pids \ {q} : dgramClient'[r] = dgramClient[r]
      BY <1>a, <2>1 DEF Dgram!To
    <3>3. CASE p = q
      <4>1. Len(queue) + 1 \in 1..Len(queue') /\ queue'[Len(queue) + 1] = [pid |-> p, run |-> run'[p]]
        BY <2>0, <3>1, <3>3
      <4> QED
        BY <4>1 DEF Waits
    <3>4. CASE p # q
      <4>1. Waits(p)
        BY DEF WaitInv
      <4>2. \A i \in 1..Len(queue) : i \in 1..Len(queue') /\ queue'[i] = queue[i]
        BY <3>1
      <4> QED
        BY <2>0, <3>2, <3>4, <4>1, <4>2 DEF Waits, Dgram!Fits, Dgram!WasCut, Dgram!Whole
    <3> QED
      BY <3>3, <3>4
  <2>2. CASE Dgram!To(q, "ended") /\ UNCHANGED queue
    <3>1. dgramClient'[q] # "read" /\ \A r \in Pids \ {q} : dgramClient'[r] = dgramClient[r]
      BY <1>a, <2>2 DEF Dgram!To
    <3>2. CASE p = q
      BY <3>1, <3>2 DEF Waits
    <3>3. CASE p # q
      BY <2>0, <2>2, <3>1, <3>3, DgramWaitsSame
    <3> QED
      BY <3>2, <3>3
  <2> QED
    BY <1>6, <2>1, <2>2 DEF Dgram!ClientSendto
<1>7. ASSUME NEW q \in Pids, \/ Dgram!ClientBind(q) \/ Dgram!ClientRead(q)
                             \/ Dgram!KillClient(q) \/ Dgram!NewClient(q)
      PROVE  Waits(p)'
  <2>1. PICK next \in {"bind", "sendto", "ended"} : dgramClient' = [dgramClient EXCEPT ![q] = next]
    BY <1>7 DEF Dgram!ClientBind, Dgram!ClientRead, Dgram!KillClient, Dgram!NewClient, Dgram!To
  <2>2. /\ UNCHANGED <<srv, queue, buf, addr, bytes, digits, cut>>
        /\ \A r \in Pids \ {q} : run'[r] = run[r] /\ inbox'[r] = inbox[r]
    BY <1>7, <1>a DEF Dgram!ClientBind, Dgram!ClientRead, Dgram!KillClient, Dgram!NewClient
  <2>3. dgramClient'[q] # "read" /\ \A r \in Pids \ {q} : dgramClient'[r] = dgramClient[r]
    BY <1>a, <2>1
  <2>4. CASE p = q
    BY <2>3, <2>4 DEF Waits
  <2>5. CASE p # q
    BY <2>2, <2>3, <2>5, DgramWaitsSame
  <2> QED
    BY <2>4, <2>5
<1>8. CASE UNCHANGED Dgram!vars
  BY <1>8, DgramWaitsSame DEF Dgram!vars
<1> QED
  BY <1>1, <1>2, <1>3, <1>4, <1>5, <1>6, <1>7, <1>8
     DEF Dgram!Next, Dgram!ServerStep, Dgram!ClientStep

(* Whatever the lengths of the names, no client has more than one message   *)
(* under way unless a recvfrom has failed, and one that waits has its       *)
(* request or its answer under way, unless the server received it with too  *)
(* short an addrlen, its name does not fit a sockaddr, or a server ended    *)
(* (main of the server: recvfrom, sendto; main of the client).              *)
THEOREM DgramInvariant == Dgram!Spec => [](DgramInv /\ WaitInv)
<1>1. Dgram!Init => DgramInv /\ WaitInv
  <2>1. Dgram!Init => WaitInv
    BY DEF Dgram!Init, WaitInv, Waits
  <2> QED
    BY <2>1, DgramInitHolds
<1>2. DgramInv /\ WaitInv /\ [Dgram!Next]_Dgram!vars => (DgramInv /\ WaitInv)'
  BY DgramStepHolds, DgramWaitStep
<1> QED
  BY <1>1, <1>2, PTL DEF Dgram!Spec

(* A client reads the answer to the request it sent, although the server    *)
(* answers the path of a pid and not a process, clients are killed and pids *)
(* come back; after a failed recvfrom it may be that to an earlier request  *)
(* with its pid: main of the client binds its own path first and exits if   *)
(* it still exists.                                                         *)
THEOREM DgramAnswers == Dgram!Spec => []OwnAnswer
<1>1. DgramInv => OwnAnswer
  BY DgramImplies DEF OwnAnswer
<1> QED
  BY <1>1, DgramInvariant, PTL

(* bind lets one server at a time have the name, whatever the number of     *)
(* servers that are started, and the file is left by a server exactly if it *)
(* was not ended by its sigint_handler.                                     *)
THEOREM DgramNames == Dgram!Spec => []StaleMeansKilled
<1>1. DgramInv => StaleMeansKilled
  BY DgramImplies DEF StaleMeansKilled
<1> QED
  BY <1>1, DgramInvariant, PTL


-----------------------------------------------------------------------------
(* socket(send-receive) *)

(* what the variables are that the properties do not say                    *)
ReceiveTypes ==
    /\ Receive!FileTypeOK
    /\ rcvSrv \in [Receivers -> {"socket", "bind", "failed", "ended"} \cup Receive!Serving]
    /\ rcvClient \in [Senders -> {"sendto", "done"}]
    /\ rcvQueue \in Seq(Senders) /\ sent \in Seq(Senders) /\ printed \in Seq(Senders)
    /\ rcvKilled \in BOOLEAN

(* one server at most has the name, and what its file says                  *)
ReceiverInv ==
    /\ \A s, t \in Receivers :
           rcvSrv[s] \in Receive!Serving /\ rcvSrv[t] \in Receive!Serving => s = t
    /\ rcvFile = "bound" <=> \E s \in Receivers : rcvSrv[s] \in Receive!Serving \ {"unlink"}
    /\ rcvFile = "stale" <=> rcvKilled \/ \E s \in Receivers : rcvSrv[s] = "unlink"
    /\ rcvKilled => \A s \in Receivers : rcvSrv[s] \notin Receive!Serving

(* what was sent is printed or waits, and nothing waits without a server    *)
MessageInv ==
    /\ rcvFile = "bound" => sent = printed \o rcvQueue
    /\ rcvFile # "bound" => rcvQueue = <<>>

ReceiveInv == ReceiveTypes /\ ReceiverInv /\ MessageInv

USE DEF Receive!history

(* The first message that waits becomes the last that is printed. *)
LEMMA PrintNext ==
  ASSUME NEW T, NEW a \in Seq(T), NEW b \in Seq(T), b # <<>>
  PROVE  /\ a \o b = Append(a, Head(b)) \o Tail(b)
         /\ Append(a, Head(b)) \in Seq(T) /\ Tail(b) \in Seq(T) /\ Len(Tail(b)) <= Len(b)
  OBVIOUS

(* A message that is sent waits behind the others. *)
LEMMA SendNext ==
  ASSUME NEW T, NEW a \in Seq(T), NEW b \in Seq(T), NEW m \in T
  PROVE  /\ Append(a \o b, m) = a \o Append(b, m) /\ Append(a \o b, m) \in Seq(T)
         /\ Append(b, m) \in Seq(T) /\ Len(Append(b, m)) = Len(b) + 1 /\ Len(b) \in Nat
  OBVIOUS

(* Before anything is started. *)
LEMMA ReceiveInitHolds == Receive!Init => ReceiveInv
<1> SUFFICES ASSUME Receive!Init PROVE ReceiveInv
  OBVIOUS
<1>0. <<>> \in Seq(Senders) /\ Len(<<>>) = 0
  OBVIOUS
<1>1. ReceiveTypes
  <2>1. Len(<<>>) <= (MaxQueue + 1)
    BY <1>0, ReceiveConstants DEF Receive!QueueAssumption
  <2>2. Receive!FileTypeOK
    BY <2>1 DEF Receive!Init, Receive!FileInit, Receive!FileTypeOK
  <2> QED
    BY <1>0, <2>2 DEF Receive!Init, Receive!FileInit, ReceiveTypes
<1>2. ReceiverInv
  BY DEF Receive!Init, Receive!FileInit, ReceiverInv, Receive!Serving
<1>3. MessageInv
  BY DEF Receive!Init, Receive!FileInit, MessageInv
<1> QED
  BY <1>1, <1>2, <1>3 DEF ReceiveInv

(* What a step of one server is. *)
LEMMA ReceiverMoves ==
  ASSUME ReceiveInv, NEW s \in Receivers,
         NEW next \in {"socket", "bind", "failed", "ended"} \cup Receive!Serving,
         Receive!Step(s, next)
  PROVE  /\ rcvSrv' \in [Receivers -> {"socket", "bind", "failed", "ended"} \cup Receive!Serving]
         /\ rcvSrv'[s] = next /\ \A t \in Receivers \ {s} : rcvSrv'[t] = rcvSrv[t]
  BY DEF ReceiveInv, ReceiveTypes, Receive!Step

(* A step that moves no server past bind or into its handler. *)
LEMMA ReceiverSame ==
  ASSUME ReceiverInv, rcvFile' = rcvFile, rcvKilled' = rcvKilled,
         \A s \in Receivers :
             /\ rcvSrv'[s] \in Receive!Serving <=> rcvSrv[s] \in Receive!Serving
             /\ rcvSrv'[s] = "unlink" <=> rcvSrv[s] = "unlink"
  PROVE  ReceiverInv'
  BY DEF ReceiverInv

(* socket, a bind that fails, signal: nothing but the server moves. *)
LEMMA ReceiveQuiet ==
  ASSUME ReceiveInv, NEW s \in Receivers, NEW next \in {"bind", "failed", "read"},
         Receive!Step(s, next),
         \/ rcvSrv[s] \in {"socket", "bind"} /\ next # "read"
         \/ rcvSrv[s] = "signal" /\ next = "read",
         UNCHANGED <<rcvClient, rcvFile, rcvQueue, sent, printed, rcvKilled>>
  PROVE  ReceiveInv'
<1>1. /\ rcvSrv' \in [Receivers -> {"socket", "bind", "failed", "ended"} \cup Receive!Serving]
      /\ rcvSrv'[s] = next /\ \A t \in Receivers \ {s} : rcvSrv'[t] = rcvSrv[t]
  BY ReceiverMoves DEF Receive!Serving
<1>2. ReceiveTypes'
  BY <1>1 DEF ReceiveInv, ReceiveTypes, Receive!FileTypeOK
<1>3. ReceiverInv'
  BY <1>1, ReceiverSame DEF ReceiveInv, Receive!Serving
<1>4. MessageInv'
  BY DEF ReceiveInv, MessageInv
<1> QED
  BY <1>2, <1>3, <1>4 DEF ReceiveInv

(* bind with the name free: nobody has it, and nothing waits. *)
LEMMA ReceiveBind ==
  ASSUME ReceiveInv, NEW s \in Receivers, rcvSrv[s] = "bind", Receive!BindFile,
         Receive!Step(s, "signal"),
         sent' = <<>>, printed' = <<>>, UNCHANGED <<rcvClient, rcvKilled>>
  PROVE  ReceiveInv'
<1>0. rcvFile = "none" /\ rcvFile' = "bound" /\ rcvQueue' = rcvQueue /\ rcvKilled' = rcvKilled
  BY DEF Receive!BindFile, Receive!CanBind
<1>1. /\ rcvSrv' \in [Receivers -> {"socket", "bind", "failed", "ended"} \cup Receive!Serving]
      /\ rcvSrv'[s] = "signal" /\ \A t \in Receivers \ {s} : rcvSrv'[t] = rcvSrv[t]
  BY ReceiverMoves DEF Receive!Serving
<1>2. ~rcvKilled /\ \A t \in Receivers : rcvSrv[t] \notin Receive!Serving
  BY <1>0 DEF ReceiveInv, ReceiverInv
<1>3. ReceiveTypes'
  <2>1. <<>> \in Seq(Senders)
    OBVIOUS
  <2> QED
    BY <1>0, <1>1, <2>1 DEF ReceiveInv, ReceiveTypes, Receive!FileTypeOK
<1>4. ReceiverInv'
  BY <1>0, <1>1, <1>2 DEF ReceiverInv, Receive!Serving
<1>5. MessageInv'
  <2>1. rcvQueue = <<>>
    BY <1>0 DEF ReceiveInv, MessageInv
  <2>2. <<>> \o <<>> = <<>>
    OBVIOUS
  <2> QED
    BY <1>0, <2>1, <2>2 DEF MessageInv
<1> QED
  BY <1>3, <1>4, <1>5 DEF ReceiveInv

(* One round of the loop. *)
LEMMA ReceiveRead ==
  ASSUME ReceiveInv, NEW s \in Receivers, Receive!Read(s)
  PROVE  ReceiveInv'
<1>0. /\ rcvQueue # <<>> /\ rcvQueue' = Tail(rcvQueue) /\ rcvFile' = rcvFile
      /\ printed' = Append(printed, Head(rcvQueue))
      /\ UNCHANGED <<rcvSrv, rcvClient, sent, rcvKilled>>
  BY DEF Receive!Read, Receive!Dequeue
<1>1. /\ rcvQueue \in Seq(Senders) /\ printed \in Seq(Senders)
      /\ Len(rcvQueue) <= (MaxQueue + 1)
      /\ (MaxQueue + 1) \in Nat /\ Len(rcvQueue) \in Nat /\ Len(Tail(rcvQueue)) \in Nat
  <2>1. /\ rcvQueue \in Seq(Senders) /\ printed \in Seq(Senders)
        /\ Len(rcvQueue) <= (MaxQueue + 1)
    BY DEF ReceiveInv, ReceiveTypes, Receive!FileTypeOK
  <2>2. Len(rcvQueue) \in Nat /\ Len(Tail(rcvQueue)) \in Nat
    BY <1>0, <2>1
  <2>3. (MaxQueue + 1) \in Nat
    BY ReceiveConstants DEF Receive!QueueAssumption
  <2> QED
    BY <2>1, <2>2, <2>3
<1>2. /\ printed \o rcvQueue = printed' \o rcvQueue' /\ printed' \in Seq(Senders)
      /\ rcvQueue' \in Seq(Senders) /\ Len(rcvQueue') <= Len(rcvQueue)
  BY <1>0, <1>1, PrintNext
<1>3. ReceiveTypes'
  <2>1. Len(rcvQueue') <= (MaxQueue + 1)
    BY <1>0, <1>1, <1>2
  <2> QED
    BY <1>0, <1>2, <2>1 DEF ReceiveInv, ReceiveTypes, Receive!FileTypeOK
<1>4. ReceiverInv'
  BY <1>0, ReceiverSame DEF ReceiveInv
<1>5. MessageInv'
  BY <1>0, <1>2 DEF ReceiveInv, MessageInv
<1> QED
  BY <1>3, <1>4, <1>5 DEF ReceiveInv

(* A server closes its socket: by its handler, or because it ends. *)
LEMMA ReceiveCloses ==
  ASSUME ReceiveInv, NEW s \in Receivers, rcvSrv[s] \in Receive!Serving, Receive!CloseSocket,
         UNCHANGED <<rcvClient, sent, printed>>,
         \/ Receive!Step(s, "unlink") /\ rcvKilled' = rcvKilled
         \/ Receive!Step(s, "ended") /\ rcvKilled' = TRUE
  PROVE  ReceiveInv'
<1>0. rcvFile' = "stale" /\ rcvQueue' = <<>> /\ rcvKilled' \in BOOLEAN
  BY DEF Receive!CloseSocket, ReceiveInv, ReceiveTypes
<1>1. /\ rcvSrv' \in [Receivers -> {"socket", "bind", "failed", "ended"} \cup Receive!Serving]
      /\ \A t \in Receivers \ {s} : rcvSrv'[t] = rcvSrv[t]
      /\ \/ rcvSrv'[s] = "unlink" /\ rcvKilled' = rcvKilled
         \/ rcvSrv'[s] = "ended" /\ rcvKilled' = TRUE
  BY ReceiverMoves DEF Receive!Serving
<1>2. ~rcvKilled /\ \A t \in Receivers \ {s} : rcvSrv[t] \notin Receive!Serving
  BY DEF ReceiveInv, ReceiverInv
<1>3. ReceiveTypes'
  <2>1. rcvQueue' \in Seq(Senders) /\ Len(rcvQueue') <= (MaxQueue + 1)
    BY <1>0, ReceiveConstants DEF Receive!QueueAssumption
  <2> QED
    BY <1>0, <1>1, <2>1 DEF ReceiveInv, ReceiveTypes, Receive!FileTypeOK
<1>4. ReceiverInv'
  BY <1>0, <1>1, <1>2 DEF ReceiverInv, Receive!Serving
<1>5. MessageInv'
  BY <1>0 DEF MessageInv
<1> QED
  BY <1>3, <1>4, <1>5 DEF ReceiveInv

(* sigint_handler removes the file. *)
LEMMA ReceiveUnlink ==
  ASSUME ReceiveInv, NEW s \in Receivers, Receive!SigintUnlink(s)
  PROVE  ReceiveInv'
<1>0. /\ rcvSrv[s] = "unlink" /\ rcvFile' = "none" /\ rcvQueue' = rcvQueue
      /\ UNCHANGED <<rcvClient, sent, printed, rcvKilled>>
  BY DEF Receive!SigintUnlink, Receive!Unlink
<1>1. /\ rcvSrv' \in [Receivers -> {"socket", "bind", "failed", "ended"} \cup Receive!Serving]
      /\ rcvSrv'[s] = "ended" /\ \A t \in Receivers \ {s} : rcvSrv'[t] = rcvSrv[t]
  BY ReceiverMoves DEF Receive!SigintUnlink
<1>2. ~rcvKilled /\ rcvFile = "stale" /\ \A t \in Receivers \ {s} : rcvSrv[t] \notin Receive!Serving
  BY <1>0 DEF ReceiveInv, ReceiverInv, Receive!Serving
<1>3. ReceiveTypes'
  BY <1>0, <1>1 DEF ReceiveInv, ReceiveTypes, Receive!FileTypeOK
<1>4. ReceiverInv'
  BY <1>0, <1>1, <1>2 DEF ReceiverInv, Receive!Serving
<1>5. MessageInv'
  BY <1>0, <1>2 DEF ReceiveInv, MessageInv
<1> QED
  BY <1>3, <1>4, <1>5 DEF ReceiveInv

(* A client sends its message, or exits. *)
LEMMA ReceiveSendto ==
  ASSUME ReceiveInv, NEW m \in Senders, Receive!Sendto(m)
  PROVE  ReceiveInv'
<1>0. UNCHANGED <<rcvSrv, rcvFile, printed, rcvKilled>>
  BY DEF Receive!Sendto, Receive!Enqueue
<1>1. rcvClient' \in [Senders -> {"sendto", "done"}]
  BY DEF ReceiveInv, ReceiveTypes, Receive!Sendto
<1>2. ReceiverInv'
  BY <1>0, ReceiverSame DEF ReceiveInv
<1>3. CASE Receive!Enqueue(m) /\ sent' = Append(sent, m)
  <2>1. /\ rcvFile = "bound" /\ Len(rcvQueue) < (MaxQueue + 1)
        /\ rcvQueue' = Append(rcvQueue, m)
        /\ sent' = Append(sent, m) /\ sent = printed \o rcvQueue
    BY <1>3 DEF Receive!Enqueue, Receive!CanSend, ReceiveInv, MessageInv
  <2>2. rcvQueue \in Seq(Senders) /\ printed \in Seq(Senders) /\ (MaxQueue + 1) \in Nat
    BY ReceiveConstants DEF ReceiveInv, ReceiveTypes, Receive!QueueAssumption
  <2>3. /\ Append(printed \o rcvQueue, m) = printed \o Append(rcvQueue, m)
        /\ Append(printed \o rcvQueue, m) \in Seq(Senders)
        /\ Append(rcvQueue, m) \in Seq(Senders)
        /\ Len(Append(rcvQueue, m)) = Len(rcvQueue) + 1 /\ Len(rcvQueue) \in Nat
    <3>1. m \in Senders
      OBVIOUS
    <3>2. rcvQueue \in Seq(Senders) /\ printed \in Seq(Senders)
      BY <2>2
    <3>3. /\ Append(printed \o rcvQueue, m) = printed \o Append(rcvQueue, m)
          /\ Append(printed \o rcvQueue, m) \in Seq(Senders)
          /\ Append(rcvQueue, m) \in Seq(Senders)
          /\ Len(Append(rcvQueue, m)) = Len(rcvQueue) + 1 /\ Len(rcvQueue) \in Nat
      BY ONLY <3>1, <3>2
    <3> QED
      BY <3>3
  <2>4. ReceiveTypes'
    <3>1. Len(rcvQueue') <= (MaxQueue + 1)
      BY <2>1, <2>2, <2>3
    <3>2. rcvQueue' \in Seq(Senders) /\ sent' \in Seq(Senders)
      BY <2>1, <2>3
    <3> QED
      BY <1>0, <1>1, <3>1, <3>2 DEF ReceiveInv, ReceiveTypes,
         Receive!FileTypeOK
  <2>5. MessageInv'
    BY <1>0, <2>1, <2>3 DEF MessageInv
  <2> QED
    BY <1>2, <2>4, <2>5 DEF ReceiveInv
<1>4. CASE UNCHANGED <<rcvFile, rcvQueue, sent>>
  <2>1. ReceiveTypes'
    BY <1>0, <1>1, <1>4 DEF ReceiveInv, ReceiveTypes, Receive!FileTypeOK
  <2>2. MessageInv'
    BY <1>0, <1>4 DEF ReceiveInv, MessageInv
  <2> QED
    BY <1>2, <2>1, <2>2 DEF ReceiveInv
<1> QED
  BY <1>3, <1>4 DEF Receive!Sendto

(* Every step keeps the invariant. *)
LEMMA ReceiveStepHolds == ReceiveInv /\ [Receive!Next]_Receive!vars => ReceiveInv'
<1> SUFFICES ASSUME ReceiveInv, [Receive!Next]_Receive!vars PROVE ReceiveInv'
  OBVIOUS
<1>1. ASSUME NEW s \in Receivers, Receive!Socket(s) \/ Receive!Signal(s) PROVE ReceiveInv'
  <2>1. CASE Receive!Socket(s)
    BY <2>1, ReceiveQuiet DEF Receive!Socket
  <2>2. CASE Receive!Signal(s)
    BY <2>2, ReceiveQuiet DEF Receive!Signal
  <2> QED
    BY <1>1, <2>1, <2>2
<1>2. ASSUME NEW s \in Receivers, Receive!Bind(s) PROVE ReceiveInv'
  <2>1. CASE Receive!BindFile /\ Receive!Step(s, "signal") /\ sent' = <<>> /\ printed' = <<>>
    BY <1>2, <2>1, ReceiveBind DEF Receive!Bind
  <2>2. CASE Receive!Step(s, "failed") /\ UNCHANGED <<rcvFile, rcvQueue, sent, printed>>
    BY <1>2, <2>2, ReceiveQuiet DEF Receive!Bind
  <2> QED
    BY <1>2, <2>1, <2>2 DEF Receive!Bind
<1>3. ASSUME NEW s \in Receivers, Receive!Read(s) \/ Receive!SigintUnlink(s) PROVE ReceiveInv'
  BY <1>3, ReceiveRead, ReceiveUnlink
<1>4. ASSUME NEW s \in Receivers, Receive!SigintClose(s) PROVE ReceiveInv'
  BY <1>4, ReceiveCloses DEF Receive!SigintClose, Receive!Serving
<1>5. ASSUME NEW s \in Receivers, Receive!Dies(s) PROVE ReceiveInv'
  BY <1>5, ReceiveCloses DEF Receive!Dies
<1>6. ASSUME NEW m \in Senders, Receive!Sendto(m) PROVE ReceiveInv'
  BY <1>6, ReceiveSendto
<1>7. CASE UNCHANGED Receive!vars
  <2>0. UNCHANGED <<rcvSrv, rcvClient, rcvFile, rcvQueue, sent, printed, rcvKilled>>
    BY <1>7 DEF Receive!vars
  <2>1. ReceiveTypes'
    BY <2>0 DEF ReceiveInv, ReceiveTypes, Receive!FileTypeOK
  <2>2. ReceiverInv'
    BY <2>0, ReceiverSame DEF ReceiveInv
  <2>3. MessageInv'
    BY <2>0 DEF ReceiveInv, MessageInv
  <2> QED
    BY <2>1, <2>2, <2>3 DEF ReceiveInv
<1> QED
  BY <1>1, <1>2, <1>3, <1>4, <1>5, <1>6, <1>7 DEF Receive!Next

(* The invariant implies the property. *)
LEMMA ReceiveImplies == ReceiveInv => Receive!PrintsAllInOrder
<1> SUFFICES ASSUME ReceiveInv PROVE Receive!PrintsAllInOrder
  OBVIOUS
<1>1. (rcvFile = "stale" /\ \A s \in Receivers : rcvSrv[s] # "unlink") <=> rcvKilled
  BY DEF ReceiveInv, ReceiverInv, ReceiveTypes, Receive!Serving
<1> QED
  BY <1>1 DEF Receive!PrintsAllInOrder, ReceiveInv, ReceiveTypes, ReceiverInv,
     MessageInv

(* The inductive invariant of the server that only receives. *)
THEOREM ReceiveInvariant == AllSpec => []ReceiveInv
<1>1. AllInit => Receive!Init
  BY DEF AllInit
<1>2. [AllNext]_allVars => [Receive!Next]_Receive!vars
  BY DEF AllNext, EpollStep, DgramStep, ReceiveStep, PairedStep, ReadStep, WriteStep, allVars,
         receiveVars, Receive!vars
<1> QED
  BY <1>1, <1>2, ReceiveInitHolds, ReceiveStepHolds, PTL DEF AllSpec

(* As long as a server has the name, what was sent to it is what it has     *)
(* printed followed by what still waits: nothing is lost, repeated or       *)
(* reordered, and no second server takes a part of it.                      *)
THEOREM ReceivePrints == AllSpec => []PrintsAllInOrder
<1>1. ReceiveInv => PrintsAllInOrder
  BY ReceiveImplies DEF PrintsAllInOrder
<1> QED
  BY <1>1, ReceiveInvariant, PTL

-----------------------------------------------------------------------------
(* 1.c, 1_thread.c, 2.c, 2_thread.c *)

(* what the variables are that TypeOK leaves out                            *)
ReadTypes ==
    /\ Reads!TypeOK
    /\ rExists \in BOOLEAN /\ turn \in Reads!Readers /\ flag \in [Reads!Readers -> {0, 1}]
    /\ rBuf \in [Reads!Readers -> Seq(1..Letters)]
    /\ out \in Seq(Reads!Readers \X (1..Letters))
    /\ ~Reads!Buffered => \A i \in Reads!Readers : rBuf[i] = <<>>

(* a reader's position, and the letters it has taken and not yet printed    *)
At(i) == rPos[Reads!OpenFile(i)]
Holds(i, l) ==
    \/ rPc[i] = "write" /\ rC[i] = l
    \/ \E k \in 1..Len(rBuf[i]) : rBuf[i][k] = l

(* A reader holds letters before its position that come after those it has  *)
(* printed, in order.                                                       *)
HoldsInv(i) ==
    /\ \A l \in 0..Letters : Holds(i, l) => 1 <= l /\ l <= At(i)
    /\ rPc[i] = "write" => \A k \in 1..Len(rBuf[i]) : rC[i] < rBuf[i][k]
    /\ \A j, k \in 1..Len(rBuf[i]) : j < k => rBuf[i][j] < rBuf[i][k]
    /\ \A j \in 1..Len(out) : out[j][1] = i =>
           out[j][2] <= At(i) /\ \A l \in 0..Letters : Holds(i, l) => out[j][2] < l

InOrder == \A j, k \in 1..Len(out) : j < k /\ out[j][1] = out[k][1] => out[j][2] < out[k][2]

(* Of one open file a letter is taken once.                                 *)
OnceInv ==
    /\ \A l \in 0..Letters : ~(Holds(0, l) /\ Holds(1, l))
    /\ \A j \in 1..Len(out), i \in Reads!Readers : ~Holds(i, out[j][2])
    /\ \A j, k \in 1..Len(out) : out[j][2] = out[k][2] => j = k

(* As many letters are printed or held as the positions say.                *)
InHand(i) == Len(rBuf[i]) + (IF rPc[i] = "write" THEN 1 ELSE 0)
SumInv ==
    (IF Reads!Buffered THEN rPos[0] ELSE rPos[0] + rPos[1]) = Len(out) + InHand(0) + InHand(1)

(* A reader that has met the end of the file has nothing left to read, and  *)
(* is in turn with the other in main's loop.                                *)
EndInv ==
    /\ \A i \in Reads!Readers : flag[i] = 0 \/ rPc[i] = "done" =>
           rBuf[i] = <<>> /\ At(i) = Letters /\ rPc[i] # "write"
    /\ rMain = "done" => \A i \in Reads!Readers : rBuf[i] = <<>> /\ At(i) = Letters /\ rPc[i] # "write"
    /\ ~Reads!Threaded /\ rMain = "loop" => rPc[1 - turn] = "read" /\ rPc[turn] \in {"read", "write"}
    /\ rProg = "2" /\ rMain = "loop" =>
           /\ (turn = 0 <=> rPc[turn] = "read") => rPos[0] = rPos[1]
           /\ (turn = 1 <=> rPc[turn] = "read") => rPos[0] = rPos[1] + 1

(* Before main has opened the file nothing is read.                         *)
StartInv ==
    /\ Reads!Threaded => rMain \in {"open", "create", "join"} \cup Reads!Over
    /\ ~Reads!Threaded => rMain \in {"open", "loop"} \cup Reads!Over
    /\ rMain = "open" => turn = 0 /\ out = <<>>
    /\ rMain = "open" => \A i \in Reads!Readers : rPos[i] = 0 /\ rBuf[i] = <<>>
    /\ rMain = "open" => \A i \in Reads!Readers : rPc[i] = "none" /\ flag[i] = 1

FileInv ==
    IF rExists
    THEN /\ \A i \in Reads!Readers : HoldsInv(i)
         /\ Reads!Buffered => OnceInv
         /\ SumInv /\ EndInv
    ELSE out = <<>> /\ \A i \in Reads!Readers : rBuf[i] = <<>>

ReadInv == ReadTypes /\ StartInv /\ FileInv /\ InOrder

(* What one read takes from the file. *)
LEMMA ReadChunk ==
  ASSUME NEW p \in 0..Letters, NEW n \in p..Letters
  PROVE  /\ SubSeq(Reads!File, p + 1, n) \in Seq(1..Letters)
         /\ Len(SubSeq(Reads!File, p + 1, n)) = n - p
         /\ \A k \in 1..(n - p) : SubSeq(Reads!File, p + 1, n)[k] = p + k
<1>1. Letters \in Nat
  BY ReadsConstants DEF Reads!OpenReadAssumption
<1>2. p + 1 \in Int /\ n \in Int /\ n - (p + 1) + 1 = n - p
  BY <1>1
<1>3. \A k \in (p + 1)..n : Reads!File[k] \in 1..Letters
  BY <1>1 DEF Reads!File
<1>4. /\ SubSeq(Reads!File, p + 1, n) \in Seq(1..Letters)
      /\ Len(SubSeq(Reads!File, p + 1, n)) = IF p + 1 <= n THEN n - (p + 1) + 1 ELSE 0
      /\ \A k \in 1..n - (p + 1) + 1 : SubSeq(Reads!File, p + 1, n)[k] = Reads!File[(p + 1) + k - 1]
  BY <1>2, <1>3, SubSeqProperties
<1>5. \A k \in 1..(n - p) : Reads!File[(p + 1) + k - 1] = p + k
  BY <1>1 DEF Reads!File
<1>6. (IF p + 1 <= n THEN n - (p + 1) + 1 ELSE 0) = n - p
  BY <1>1
<1> QED
  BY <1>2, <1>4, <1>5, <1>6

(* What a reader has next: what it read ahead, or else what it reads. *)
LEMMA ReadAhead ==
  ASSUME ReadTypes, rExists, NEW i \in Reads!Readers,
         \A j, k \in 1..Len(rBuf[i]) : j < k => rBuf[i][j] < rBuf[i][k]
  PROVE  /\ Reads!Ahead(i) \in Seq(1..Letters)
         /\ \A j, k \in 1..Len(Reads!Ahead(i)) : j < k => Reads!Ahead(i)[j] < Reads!Ahead(i)[k]
         /\ rBuf[i] # <<>> => Reads!Ahead(i) = rBuf[i]
         /\ rBuf[i] = <<>> => At(i) + Len(Reads!Ahead(i)) <= Letters
         /\ rBuf[i] = <<>> => \A k \in 1..Len(Reads!Ahead(i)) : Reads!Ahead(i)[k] = At(i) + k
         /\ Reads!Ahead(i) = <<>> => rBuf[i] = <<>> /\ At(i) = Letters
         /\ ~Reads!Buffered => Len(Reads!Ahead(i)) <= 1
<1>1. Letters \in Nat /\ BufLen \in Nat \ {0}
  BY ReadsConstants DEF Reads!OpenReadAssumption
<1>2. At(i) \in 0..Letters
  BY DEF At, Reads!OpenFile, ReadTypes, Reads!TypeOK, Reads!Readers
<1>3. CASE rBuf[i] # <<>>
  BY <1>3 DEF Reads!Ahead, ReadTypes
<1>4. CASE rBuf[i] = <<>>
  <2> DEFINE p == At(i)
             n == IF p + Reads!Chunk < Letters THEN p + Reads!Chunk ELSE Letters
             a == SubSeq(Reads!File, p + 1, n)
  <2>0. Reads!Chunk \in Nat \ {0} /\ (~Reads!Buffered => Reads!Chunk = 1)
    BY <1>1 DEF Reads!Chunk
  <2>1. n \in p..Letters /\ n - p <= Reads!Chunk /\ (n = p => p = Letters)
    BY <1>1, <1>2, <2>0
  <2>2. Reads!Ahead(i) = a
    BY <1>4 DEF Reads!Ahead, At
  <2> HIDE DEF n
  <2>3. a \in Seq(1..Letters) /\ Len(a) = n - p /\ \A k \in 1..(n - p) : a[k] = p + k
    BY <1>2, <2>1, ReadChunk
  <2> HIDE DEF a, p
  <2>4. p \in Nat /\ n \in Nat /\ p <= Letters /\ n <= Letters /\ p <= n
    BY <1>1, <1>2, <2>1 DEF p
  <2>5. \A j, k \in 1..Len(a) : j < k => a[j] < a[k]
    BY <2>3, <2>4
  <2>6. a = <<>> => n = p
    BY <2>3, <2>4
  <2>7. p + Len(a) <= Letters /\ \A k \in 1..Len(a) : a[k] = p + k
    BY <1>1, <2>3, <2>4
  <2>8. ~Reads!Buffered => Len(a) <= 1
    BY <2>0, <2>1, <2>3, <2>4
  <2> QED
    BY <1>4, <2>1, <2>2, <2>3, <2>5, <2>6, <2>7, <2>8 DEF p
<1> QED
  BY <1>3, <1>4

(* The first of a list, and the rest. *)
LEMMA ReadFirst ==
  ASSUME NEW T, NEW s \in Seq(T), s # <<>>
  PROVE  /\ Head(s) = s[1] /\ Head(s) \in T /\ 1 \in 1..Len(s)
         /\ Tail(s) \in Seq(T) /\ Len(Tail(s)) = Len(s) - 1 /\ Len(s) \in Nat \ {0}
         /\ \A k \in 1..Len(Tail(s)) : Tail(s)[k] = s[k + 1] /\ k + 1 \in 1..Len(s) /\ k \in Nat
         /\ \A k \in 1..Len(s) : k = 1 \/ (k - 1 \in 1..Len(Tail(s)) /\ s[k] = Tail(s)[k - 1])
<1>1. Len(s) \in Nat \ {0}
  OBVIOUS
<1>2. Tail(s) \in Seq(T) /\ Len(Tail(s)) = Len(s) - 1
  OBVIOUS
<1>3. \A k \in 1..Len(Tail(s)) : Tail(s)[k] = s[k + 1] /\ k + 1 \in 1..Len(s) /\ k \in Nat
  BY <1>1, <1>2
<1>4. Head(s) = s[1] /\ Head(s) \in T /\ 1 \in 1..Len(s)
  BY <1>1
<1>5. ASSUME NEW k \in 1..Len(s), k # 1
      PROVE  k - 1 \in 1..Len(Tail(s)) /\ s[k] = Tail(s)[k - 1]
  <2>1. k - 1 \in 1..Len(Tail(s)) /\ (k - 1) + 1 = k
    BY <1>1, <1>2, <1>5
  <2> QED
    BY <1>3, <2>1
<1> QED
  BY <1>1, <1>2, <1>3, <1>4, <1>5

(* A list without a length is empty. *)
LEMMA NoLetters == ASSUME NEW T, NEW s \in Seq(T), Len(s) = 0 PROVE s = <<>>
  OBVIOUS

(* Before main runs. *)
LEMMA ReadInit == Reads!Init => ReadInv
<1> SUFFICES ASSUME Reads!Init PROVE ReadInv
  OBVIOUS
<1>0. Letters \in Nat \ {0}
  BY ReadsConstants DEF Reads!OpenReadAssumption
<1>1. ReadTypes
  <2>1. Reads!TypeOK
    BY <1>0 DEF Reads!Init, Reads!TypeOK
  <2>2. /\ rExists \in BOOLEAN /\ turn \in Reads!Readers /\ flag \in [Reads!Readers -> {0, 1}]
        /\ \A i \in Reads!Readers : rBuf[i] = <<>>
    BY DEF Reads!Init, Reads!Readers
  <2>3. rBuf \in [Reads!Readers -> Seq(1..Letters)]
    BY DEF Reads!Init
  <2>4. out \in Seq(Reads!Readers \X (1..Letters))
    BY DEF Reads!Init
  <2> QED
    BY <2>1, <2>2, <2>3, <2>4 DEF ReadTypes
<1>2. StartInv
  BY DEF Reads!Init, StartInv, Reads!Over, Reads!Threaded, Reads!Programs
<1>3. Len(out) = 0 /\ \A i \in Reads!Readers : Len(rBuf[i]) = 0
  BY DEF Reads!Init
<1>4. \A i \in Reads!Readers : rPc[i] = "none" /\ flag[i] = 1 /\ rPos[i] = 0
  BY DEF Reads!Init
<1>5. \A i \in Reads!Readers, l \in 0..Letters : ~Holds(i, l)
  BY <1>3, <1>4 DEF Holds
<1>6. InOrder
  BY <1>3 DEF InOrder
<1>7. SumInv
  <2>1. ASSUME NEW i \in Reads!Readers PROVE InHand(i) = 0 /\ rPos[i] = 0
    <3>1. Len(rBuf[i]) = 0 /\ rPc[i] # "write" /\ rPos[i] = 0
      BY <1>3, <1>4
    <3> QED
      BY <3>1 DEF InHand
  <2> QED
    BY <1>3, <2>1 DEF SumInv, Reads!Readers
<1>8. EndInv
  BY <1>4 DEF Reads!Init, EndInv, Reads!Readers
<1>9. \A i \in Reads!Readers : HoldsInv(i)
  BY <1>3, <1>4, <1>5 DEF HoldsInv
<1>10. OnceInv
  BY <1>3, <1>5 DEF OnceInv, Reads!Readers
<1>11. FileInv
  BY <1>7, <1>8, <1>9, <1>10 DEF FileInv, Reads!Init
<1> QED
  BY <1>1, <1>2, <1>6, <1>11 DEF ReadInv

(* A step that neither takes nor prints a letter. *)
LEMMA ReadSame ==
  ASSUME ReadInv, Reads!TypeOK', StartInv', rExists => EndInv',
         UNCHANGED <<rProg, rExists, rPos, rBuf, rC, out>>,
         rExists => \A i \in Reads!Readers : rPc'[i] = "write" <=> rPc[i] = "write",
         turn' \in Reads!Readers, flag' \in [Reads!Readers -> {0, 1}]
  PROVE  ReadInv'
<1>1. /\ rProg' = rProg /\ rExists' = rExists /\ rPos' = rPos
      /\ rBuf' = rBuf /\ rC' = rC /\ out' = out
      /\ Reads!Buffered' = Reads!Buffered /\ \A i \in Reads!Readers : At(i)' = At(i)
  BY DEF Reads!Buffered, At, Reads!OpenFile
<1>2. ReadTypes'
  BY <1>1 DEF ReadInv, ReadTypes
<1>3. rExists => \A i \in Reads!Readers, l \in 0..Letters : Holds(i, l)' <=> Holds(i, l)
  BY <1>1 DEF Holds
<1>4. InOrder'
  BY <1>1 DEF ReadInv, InOrder
<1>5. ASSUME rExists PROVE SumInv'
  BY <1>1, <1>5 DEF SumInv, InHand, Reads!Readers, ReadInv, FileInv
<1>6. ASSUME rExists, NEW i \in Reads!Readers PROVE HoldsInv(i)'
  BY <1>1, <1>3, <1>6 DEF HoldsInv, ReadInv, FileInv
<1>7. ASSUME rExists, Reads!Buffered PROVE OnceInv'
  <2>1. OnceInv
    BY <1>7 DEF ReadInv, FileInv
  <2>2. \A j \in 1..Len(out) : out[j][2] \in 0..Letters
    BY DEF ReadInv, ReadTypes
  <2> QED
    BY <1>1, <1>3, <1>7, <2>1, <2>2 DEF OnceInv, Reads!Readers
<1>8. FileInv'
  BY <1>1, <1>5, <1>6, <1>7 DEF ReadInv, FileInv
<1> QED
  BY <1>2, <1>4, <1>8 DEF ReadInv

(* open and fdopen, in main. *)
LEMMA ReadOpen ==
  ASSUME ReadInv, Reads!Open
  PROVE  ReadInv'
<1>1. /\ rMain = "open" /\ turn = 0
      /\ \A i \in Reads!Readers : rPc[i] = "none" /\ flag[i] = 1 /\ rPos[i] = 0
  BY DEF Reads!Open, ReadInv, StartInv
<1>2. /\ UNCHANGED <<rProg, rExists, flag, turn, rPos, rBuf, rC, out>>
      /\ Reads!Threaded' = Reads!Threaded
  BY DEF Reads!Open, Reads!Threaded
<1>3. /\ rMain' \in {"crashed", "create", "loop"} /\ (rMain' = "create" => Reads!Threaded)
      /\ (rMain' = "loop" => ~Reads!Threaded)
  BY DEF Reads!Open
<1>4. /\ rPc' \in [Reads!Readers -> {"none", "read"}]
      /\ rMain' = "loop" => \A i \in Reads!Readers : rPc'[i] = "read"
  <2>1. rPc \in [Reads!Readers -> {"none", "read"}]
    BY <1>1 DEF ReadInv, ReadTypes, Reads!TypeOK
  <2> QED
    BY <2>1 DEF Reads!Open
<1>5. Reads!TypeOK'
  BY <1>2, <1>3, <1>4 DEF ReadInv, ReadTypes, Reads!TypeOK, Reads!Over
<1>6. StartInv'
  BY <1>2, <1>3 DEF StartInv, Reads!Over
<1>7. EndInv'
  BY <1>1, <1>2, <1>3, <1>4 DEF EndInv, Reads!Readers, At, Reads!OpenFile
<1>8. turn' \in Reads!Readers /\ flag' \in [Reads!Readers -> {0, 1}]
  BY <1>2 DEF ReadInv, ReadTypes
<1> QED
  BY <1>1, <1>2, <1>4, <1>5, <1>6, <1>7, <1>8, ReadSame

(* pthread_create, in main. *)
LEMMA ReadCreate ==
  ASSUME ReadInv, Reads!Create
  PROVE  ReadInv'
<1>1. rMain = "create" /\ Reads!Threaded
  BY DEF Reads!Create, ReadInv, StartInv, Reads!Over
<1>2. /\ UNCHANGED <<rProg, rExists, flag, turn, rPos, rBuf, rC, out>>
      /\ Reads!Threaded' = Reads!Threaded
  BY DEF Reads!Create, Reads!Threaded
<1>3. rMain' \in {"create", "join", "failed"}
  BY <1>1 DEF Reads!Create
<1>4. /\ rPc' \in [Reads!Readers -> {"none", "read", "write", "done"}]
      /\ \A i \in Reads!Readers : rPc'[i] \in {"write", "done"} <=> rPc[i] \in {"write", "done"}
      /\ \A i \in Reads!Readers : rPc'[i] = "write" <=> rPc[i] = "write"
      /\ \A i \in Reads!Readers : rPc'[i] = "done" => rPc[i] = "done"
  BY DEF Reads!Create, ReadInv, ReadTypes, Reads!TypeOK
<1>5. Reads!TypeOK'
  BY <1>2, <1>3, <1>4 DEF ReadInv, ReadTypes, Reads!TypeOK, Reads!Over
<1>6. StartInv'
  BY <1>1, <1>2, <1>3 DEF StartInv, Reads!Over
<1>7. ASSUME rExists PROVE EndInv'
  <2>1. EndInv
    BY <1>7 DEF ReadInv, FileInv
  <2>2. \A i \in Reads!Readers : At(i)' = At(i)
    BY <1>2 DEF At, Reads!OpenFile, Reads!Buffered
  <2>3. rProg # "2"
    BY <1>1 DEF Reads!Threaded
  <2> QED
    BY <1>1, <1>2, <1>3, <1>4, <2>1, <2>2, <2>3 DEF EndInv
<1>8. turn' \in Reads!Readers /\ flag' \in [Reads!Readers -> {0, 1}]
  BY <1>2 DEF ReadInv, ReadTypes
<1> QED
  BY <1>2, <1>4, <1>5, <1>6, <1>7, <1>8, ReadSame

(* The end of main's loop, or of the two threads: each reader is at the end. *)
LEMMA ReadReturn ==
  ASSUME ReadInv, Reads!Return
  PROVE  ReadInv'
<1>1. rMain \in {"loop", "join"} /\ rMain' = "done"
  BY DEF Reads!Return
<1>2. /\ UNCHANGED <<rProg, rExists, rPc, flag, turn, rPos, rBuf, rC, out>>
      /\ Reads!Threaded' = Reads!Threaded
  BY DEF Reads!Return, Reads!Threaded
<1>3. Reads!TypeOK'
  BY <1>1, <1>2 DEF ReadInv, ReadTypes, Reads!TypeOK, Reads!Over
<1>4. StartInv'
  BY <1>1, <1>2 DEF StartInv, Reads!Over
<1>5. ASSUME rExists PROVE EndInv'
  <2>1. EndInv
    BY <1>5 DEF ReadInv, FileInv
  <2>2. \A i \in Reads!Readers : At(i)' = At(i)
    BY <1>2 DEF At, Reads!OpenFile, Reads!Buffered
  <2>3. ASSUME NEW i \in Reads!Readers
        PROVE  rBuf[i] = <<>> /\ At(i) = Letters /\ rPc[i] # "write"
    <3>1. CASE rMain = "join"
      BY <2>1, <3>1 DEF Reads!Return, EndInv
    <3>2. CASE rMain = "loop"
      <4>1. ~Reads!Threaded /\ rProg \in {"1", "2"}
        BY <3>2 DEF ReadInv, StartInv, Reads!Over, Reads!Threaded, ReadTypes,
           Reads!TypeOK, Reads!Programs
      <4>2. turn = 0 /\ rPc[0] = "read" /\ ~Reads!LoopHolds
        BY <3>2 DEF Reads!Return
      <4>3. rPc[1] = "read"
        BY <2>1, <3>2, <4>1, <4>2 DEF EndInv
      <4>4. flag[0] \in {0, 1} /\ flag[1] \in {0, 1}
        BY DEF ReadInv, ReadTypes, Reads!Readers
      <4>5. CASE rProg = "1"
        <5>1. flag[i] = 0
          BY <4>2, <4>4, <4>5 DEF Reads!LoopHolds, Reads!Readers
        <5> QED
          BY <2>1, <5>1 DEF EndInv
      <4>6. CASE rProg = "2"
        <5>1. flag[0] = 0 \/ flag[1] = 0
          BY <4>2, <4>4, <4>6 DEF Reads!LoopHolds
        <5>2. At(0) = rPos[0] /\ At(1) = rPos[1] /\ ~Reads!Buffered
          BY <4>6 DEF At, Reads!OpenFile, Reads!Buffered
        <5>3. rPos[0] = rPos[1]
          BY <2>1, <3>2, <4>2, <4>6 DEF EndInv
        <5>4. At(0) = Letters /\ At(1) = Letters
          BY <2>1, <5>1, <5>2, <5>3 DEF EndInv, Reads!Readers
        <5>5. rBuf[i] = <<>>
          BY <5>2 DEF ReadInv, ReadTypes
        <5> QED
          BY <4>2, <4>3, <5>4, <5>5 DEF Reads!Readers
      <4> QED
        BY <4>1, <4>5, <4>6
    <3> QED
      BY <1>1, <3>1, <3>2
  <2> QED
    BY <1>1, <1>2, <2>1, <2>2, <2>3 DEF EndInv
<1>6. turn' \in Reads!Readers /\ flag' \in [Reads!Readers -> {0, 1}]
  BY <1>2 DEF ReadInv, ReadTypes
<1> QED
  BY <1>2, <1>3, <1>4, <1>5, <1>6, ReadSame

(* Without a file there is nothing to read. *)
LEMMA ReadNothing ==
  ASSUME ReadInv, ~rExists, NEW i \in Reads!Readers
  PROVE  Reads!Ahead(i) = <<>>
  BY DEF ReadInv, FileInv, Reads!Ahead

(* A read that returns no letter. *)
LEMMA ReadEof ==
  ASSUME ReadInv, NEW i \in Reads!Readers, Reads!Eof(i)
  PROVE  ReadInv'
<1>0. /\ rMain \notin Reads!Over /\ rMain # "open" /\ rPc[i] = "read" /\ Reads!Ahead(i) = <<>>
      /\ ~Reads!Threaded => rMain = "loop" /\ turn = i
  BY DEF Reads!Eof, Reads!Running, ReadInv, StartInv
<1>1. /\ UNCHANGED <<rProg, rExists, rMain, rPos, rBuf, rC, out>>
      /\ Reads!Threaded' = Reads!Threaded
  BY DEF Reads!Eof, Reads!Threaded
<1>2. /\ turn' = (IF rProg = "1" THEN 1 - i ELSE 0) /\ turn' \in Reads!Readers
  BY DEF Reads!Eof, Reads!Readers
<1>3. /\ flag' \in [Reads!Readers -> {0, 1}]
      /\ \A j \in Reads!Readers \ {i} : flag'[j] = flag[j]
  BY DEF Reads!Eof, ReadInv, ReadTypes
<1>4. /\ rPc' \in [Reads!Readers -> {"none", "read", "write", "done"}]
      /\ \A j \in Reads!Readers \ {i} : rPc'[j] = rPc[j]
      /\ ~Reads!Threaded => rPc'[i] = "read"
      /\ rExists => rPc'[i] \in {"read", "done"}
  BY <1>0 DEF Reads!Eof, ReadInv, ReadTypes, Reads!TypeOK
<1>5. Reads!TypeOK'
  BY <1>1, <1>4 DEF ReadInv, ReadTypes, Reads!TypeOK
<1>6. StartInv'
  BY <1>0, <1>1 DEF ReadInv, StartInv
<1>7. ASSUME rExists PROVE EndInv'
  <2>1. EndInv
    BY <1>7 DEF ReadInv, FileInv
  <2>2. \A j \in Reads!Readers : At(j)' = At(j)
    BY <1>1 DEF At, Reads!OpenFile, Reads!Buffered
  <2>3. rBuf[i] = <<>> /\ At(i) = Letters
    BY <1>0, <1>7, ReadAhead DEF ReadInv, FileInv, HoldsInv
  <2>4. \A j \in Reads!Readers : flag'[j] = 0 \/ rPc'[j] = "done" =>
            rBuf'[j] = <<>> /\ At(j)' = Letters /\ rPc'[j] # "write"
    BY <1>1, <1>3, <1>4, <1>7, <2>1, <2>2, <2>3 DEF EndInv
  <2>5. rMain' # "done"
    BY <1>0, <1>1 DEF Reads!Over
  <2>6. ~Reads!Threaded /\ rMain = "loop" => \A j \in Reads!Readers : rPc'[j] = "read"
    BY <1>0, <1>4, <2>1 DEF EndInv, Reads!Readers
  <2>7. ASSUME rProg = "2", rMain = "loop" PROVE turn' = 0 /\ rPos[0] = rPos[1]
    <3>1. ~Reads!Threaded /\ turn = i
      BY <1>0, <2>7 DEF Reads!Threaded
    <3>2. i = 0
      <4>1. SUFFICES ASSUME i = 1 PROVE FALSE
        BY DEF Reads!Readers
      <4>2. rPos[0] = rPos[1] + 1
        BY <1>0, <2>1, <2>7, <3>1, <4>1 DEF EndInv
      <4>3. rPos[1] = Letters
        BY <2>3, <2>7, <4>1 DEF At, Reads!OpenFile, Reads!Buffered
      <4>4. rPos[0] \in 0..Letters /\ Letters \in Nat
        BY ReadsConstants DEF ReadInv, ReadTypes, Reads!TypeOK,
           Reads!OpenReadAssumption, Reads!Readers
      <4> QED
        BY <4>2, <4>3, <4>4
    <3> QED
      BY <1>0, <1>2, <2>1, <2>7, <3>1, <3>2 DEF EndInv
  <2>8. ~Reads!Threaded /\ rMain = "loop" => rPc'[1 - turn'] = "read" /\ rPc'[turn'] = "read"
    BY <1>2, <2>6 DEF Reads!Readers
  <2>9. rProg = "2" => ~Reads!Threaded
    BY DEF Reads!Threaded
  <2> QED
    BY <1>1, <2>4, <2>5, <2>7, <2>8, <2>9 DEF EndInv
<1>8. rExists => \A j \in Reads!Readers : rPc'[j] = "write" <=> rPc[j] = "write"
  BY <1>0, <1>4
<1> QED
  BY <1>1, <1>2, <1>3, <1>5, <1>6, <1>7, <1>8, ReadSame

(* A reader prints the letter it has taken. *)
LEMMA ReadPrint ==
  ASSUME ReadInv, NEW i \in Reads!Readers, Reads!PrintLetter(i)
  PROVE  ReadInv'
<1>0. /\ rMain \notin Reads!Over /\ rMain # "open" /\ rPc[i] = "write"
      /\ ~Reads!Threaded => rMain = "loop" /\ turn = i
  BY DEF Reads!PrintLetter, Reads!Running, ReadInv, StartInv
<1>1. /\ UNCHANGED <<rProg, rExists, rMain, flag, rPos, rBuf, rC>>
      /\ Reads!Threaded' = Reads!Threaded /\ Reads!Buffered' = Reads!Buffered
  BY DEF Reads!PrintLetter, Reads!Threaded, Reads!Buffered
<1>2. turn' = (IF Reads!Threaded THEN turn ELSE 1 - i) /\ turn' \in Reads!Readers
  BY DEF Reads!PrintLetter, Reads!Readers, ReadInv, ReadTypes
<1>3. /\ rPc' \in [Reads!Readers -> {"none", "read", "write", "done"}] /\ rPc'[i] = "read"
      /\ \A j \in Reads!Readers \ {i} : rPc'[j] = rPc[j]
  BY DEF Reads!PrintLetter, ReadInv, ReadTypes, Reads!TypeOK
<1>4. Reads!TypeOK'
  BY <1>1, <1>3 DEF ReadInv, ReadTypes, Reads!TypeOK
<1>5. StartInv'
  BY <1>0, <1>1 DEF ReadInv, StartInv
<1>6. CASE ~rExists
  <2>1. out' = out
    BY <1>6 DEF Reads!PrintLetter
  <2>2. turn' \in Reads!Readers /\ flag' \in [Reads!Readers -> {0, 1}]
    BY <1>1, <1>2 DEF ReadInv, ReadTypes
  <2> QED
    BY <1>1, <1>4, <1>5, <1>6, <2>1, <2>2, ReadSame
<1>7. CASE rExists
  <2> DEFINE l0 == rC[i]
  <2>0. /\ EndInv /\ SumInv /\ (Reads!Buffered => OnceInv) /\ \A j \in Reads!Readers : HoldsInv(j)
        /\ Letters \in Nat
    BY <1>7, ReadsConstants DEF ReadInv, FileInv, Reads!OpenReadAssumption
  <2>1. /\ l0 \in 0..Letters /\ Holds(i, l0) /\ At(i) \in 0..Letters
    BY <1>0 DEF ReadInv, ReadTypes, Reads!TypeOK, Holds, At, Reads!OpenFile,
       Reads!Readers
  <2>2. 1 <= l0 /\ l0 <= At(i) /\ l0 \in 1..Letters
    BY <2>0, <2>1 DEF HoldsInv
  <2>3. /\ out \in Seq(Reads!Readers \X (1..Letters)) /\ out' = Append(out, <<i, l0>>)
    BY <1>7 DEF Reads!PrintLetter, ReadInv, ReadTypes
  <2>4. /\ out' \in Seq(Reads!Readers \X (1..Letters)) /\ Len(out') = Len(out) + 1
        /\ Len(out) \in Nat
        /\ \A j \in 1..Len(out) : out'[j] = out[j]
        /\ out'[Len(out) + 1] = <<i, l0>>
    <3>1. <<i, l0>> \in Reads!Readers \X (1..Letters)
      BY <2>2
    <3> HIDE DEF l0
    <3> QED
      BY <2>3, <3>1
  <2>5. /\ \A j \in 1..Len(out') : j \in 1..Len(out) \/ j = Len(out) + 1
        /\ out'[Len(out) + 1][1] = i /\ out'[Len(out) + 1][2] = l0
        /\ \A j \in 1..Len(out) : j < Len(out) + 1 /\ j # Len(out) + 1 /\ j \in Nat
        /\ \A j \in 1..Len(out) : out[j][2] \in 0..Letters /\ out[j][1] \in Reads!Readers /\ out[j][2] \in Nat
    <3>1. \A j \in 1..Len(out) : out[j] \in Reads!Readers \X (1..Letters)
      BY <2>3
    <3>2. \A j \in 1..Len(out) : out[j][2] \in 1..Letters /\ out[j][1] \in Reads!Readers
      BY <3>1
    <3> QED
      BY <2>0, <2>4, <3>2
  <2>6. \A j \in Reads!Readers : At(j)' = At(j)
    BY <1>1 DEF At, Reads!OpenFile
  <2>7. \A l \in 0..Letters : Holds(i, l)' <=> Holds(i, l) /\ l # l0
    <3>1. \A k \in 1..Len(rBuf[i]) : l0 < rBuf[i][k] /\ rBuf[i][k] \in 1..Letters
      BY <1>0, <2>0 DEF HoldsInv, ReadInv, ReadTypes
    <3>2. \A k \in 1..Len(rBuf[i]) : rBuf[i][k] # l0
      BY <2>1, <3>1
    <3> QED
      BY <1>0, <1>1, <1>3, <3>2 DEF Holds
  <2>8. \A j \in Reads!Readers \ {i}, l \in 0..Letters : Holds(j, l)' <=> Holds(j, l)
    BY <1>1, <1>3 DEF Holds
  <2> HIDE DEF l0
  <2>9. ReadTypes'
    BY <1>1, <1>2, <1>4, <2>4 DEF ReadInv, ReadTypes
  <2>10. InOrder'
    <3>1. \A j \in 1..Len(out) : out[j][1] = i => out[j][2] < l0
      BY <2>0, <2>1 DEF HoldsInv
    <3>2. \A j, k \in 1..Len(out) : j < k /\ out[j][1] = out[k][1] => out[j][2] < out[k][2]
      BY DEF ReadInv, InOrder
    <3>3. SUFFICES ASSUME NEW j \in 1..Len(out'), NEW k \in 1..Len(out'), j < k,
                          out'[j][1] = out'[k][1]
                   PROVE  out'[j][2] < out'[k][2]
      BY DEF InOrder
    <3>4. j \in 1..Len(out)
      BY <2>4, <3>3
    <3>5. CASE k \in 1..Len(out)
      BY <2>4, <3>2, <3>3, <3>4, <3>5
    <3>6. CASE k = Len(out) + 1
      BY <2>4, <2>5, <3>1, <3>3, <3>4, <3>6
    <3> QED
      BY <2>5, <3>5, <3>6
  <2>11. HoldsInv(i)'
    <3>1. \A l \in 0..Letters : Holds(i, l)' => 1 <= l /\ l <= At(i)'
      BY <2>0, <2>6, <2>7 DEF HoldsInv
    <3>2. \A l \in 0..Letters : Holds(i, l)' => l0 < l
      <4>1. \A k \in 1..Len(rBuf[i]) : l0 < rBuf[i][k]
        BY <1>0, <2>0 DEF HoldsInv, l0
      <4> QED
        BY <1>1, <1>3, <4>1 DEF Holds
    <3>3. \A j \in 1..Len(out') : out'[j][1] = i =>
              out'[j][2] <= At(i)' /\ \A l \in 0..Letters : Holds(i, l)' => out'[j][2] < l
      <4>1. \A j \in 1..Len(out) : out'[j][1] = i =>
              out'[j][2] <= At(i)' /\ \A l \in 0..Letters : Holds(i, l)' => out'[j][2] < l
        BY <2>0, <2>4, <2>6, <2>7 DEF HoldsInv
      <4>2. l0 <= At(i)' /\ \A l \in 0..Letters : Holds(i, l)' => l0 < l
        BY <2>2, <2>6, <3>2
      <4> QED
        BY <2>5, <4>1, <4>2
    <3>4. \A j, k \in 1..Len(rBuf'[i]) : j < k => rBuf'[i][j] < rBuf'[i][k]
      BY <1>1, <2>0 DEF HoldsInv
    <3> QED
      BY <1>3, <3>1, <3>3, <3>4 DEF HoldsInv
  <2>12. ASSUME NEW j \in Reads!Readers \ {i} PROVE HoldsInv(j)'
    <3>1. \A k \in 1..Len(out') : out'[k][1] = j => k \in 1..Len(out) /\ out'[k] = out[k]
      BY <2>4, <2>5
    <3> QED
      BY <1>1, <1>3, <2>0, <2>6, <2>8, <3>1 DEF HoldsInv
  <2>13. ASSUME Reads!Buffered PROVE OnceInv'
    <3>1. OnceInv
      BY <2>0, <2>13
    <3>2. \A l \in 0..Letters : ~(Holds(0, l)' /\ Holds(1, l)')
      BY <2>7, <2>8, <3>1 DEF OnceInv, Reads!Readers
    <3>3. \A k \in 1..Len(out) : out[k][2] # l0
      BY <2>1, <3>1 DEF OnceInv
    <3>4. ASSUME NEW l \in 0..Letters, l = l0, NEW j \in Reads!Readers PROVE ~Holds(j, l)'
      BY <2>1, <2>7, <2>8, <3>1, <3>4 DEF OnceInv, Reads!Readers
    <3>5. ASSUME NEW k \in 1..Len(out), NEW l \in 0..Letters, l = out[k][2],
                 NEW j \in Reads!Readers
          PROVE  ~Holds(j, l)'
      BY <2>7, <2>8, <3>1, <3>5 DEF OnceInv
    <3>6. ASSUME NEW k \in 1..Len(out'), NEW l \in 0..Letters, l = out'[k][2],
                 NEW j \in Reads!Readers
          PROVE  ~Holds(j, l)'
      BY <2>4, <2>5, <3>4, <3>5, <3>6
    <3>7. \A k \in 1..Len(out') : out'[k][2] \in 0..Letters
      BY <2>1, <2>4, <2>5
    <3>8. \A k \in 1..Len(out'), j \in Reads!Readers : ~Holds(j, out[k][2])'
      BY <3>6, <3>7 DEF Holds
    <3>9. \A j, k \in 1..Len(out') : out'[j][2] = out'[k][2] => j = k
      BY <2>4, <2>5, <3>1, <3>3 DEF OnceInv
    <3> QED
      BY <3>2, <3>8, <3>9 DEF OnceInv
  <2>14. SumInv'
    <3>1. \A j \in Reads!Readers : InHand(j) \in Nat
      BY DEF InHand, ReadInv, ReadTypes
    <3>2. \A j \in Reads!Readers : InHand(j)' = IF j = i THEN InHand(j) - 1 ELSE InHand(j)
      BY <1>0, <1>1, <1>3 DEF InHand, ReadInv, ReadTypes
    <3>3. Len(out') + InHand(0)' + InHand(1)' = Len(out) + InHand(0) + InHand(1)
      <4>1. /\ i = 0 => InHand(0)' = InHand(0) - 1 /\ InHand(1)' = InHand(1)
            /\ i = 1 => InHand(1)' = InHand(1) - 1 /\ InHand(0)' = InHand(0)
            /\ InHand(0) \in Nat /\ InHand(1) \in Nat /\ i \in {0, 1}
        BY <3>1, <3>2 DEF Reads!Readers
      <4>2. Len(out') = Len(out) + 1 /\ Len(out) \in Nat
        BY <2>4
      <4> QED
        BY <4>1, <4>2
    <3> QED
      BY <1>1, <2>0, <3>3 DEF SumInv
  <2>15. EndInv'
    <3>1. flag[i] # 0
      BY <1>0, <2>0 DEF EndInv
    <3>2. \A j \in Reads!Readers : flag'[j] = 0 \/ rPc'[j] = "done" =>
              rBuf'[j] = <<>> /\ At(j)' = Letters /\ rPc'[j] # "write"
      BY <1>1, <1>3, <2>0, <2>6, <3>1 DEF EndInv
    <3>3. rMain' # "done"
      BY <1>0, <1>1 DEF Reads!Over
    <3>4. ASSUME ~Reads!Threaded, rMain = "loop"
          PROVE  turn' = 1 - i /\ rPc'[1 - turn'] = "read" /\ rPc'[turn'] = "read"
      <4>1. turn' = 1 - i /\ 1 - turn' = i /\ turn = i /\ 1 - i \in Reads!Readers \ {i}
        BY <1>0, <1>2, <3>4 DEF Reads!Readers
      <4>2. rPc[1 - i] = "read"
        BY <2>0, <3>4, <4>1 DEF EndInv
      <4> QED
        BY <1>3, <4>1, <4>2
    <3>5. ASSUME rProg = "2", rMain = "loop"
          PROVE  IF i = 0 THEN rPos[0] = rPos[1] + 1 /\ turn' = 1
                 ELSE rPos[0] = rPos[1] /\ turn' = 0
      <4>1. ~Reads!Threaded
        BY <3>5 DEF Reads!Threaded
      <4> QED
        BY <1>0, <2>0, <3>4, <3>5, <4>1 DEF EndInv, Reads!Readers
    <3>6. rProg = "2" => ~Reads!Threaded
      BY DEF Reads!Threaded
    <3> QED
      BY <1>1, <3>2, <3>3, <3>4, <3>5, <3>6 DEF EndInv, Reads!Readers
  <2>16. FileInv'
    BY <1>1, <1>7, <2>11, <2>12, <2>13, <2>14, <2>15 DEF FileInv
  <2> QED
    BY <1>5, <2>9, <2>10, <2>16 DEF ReadInv
<1> QED
  BY <1>6, <1>7

(* A reader takes the next letter, from what it has read ahead or, with     *)
(* what comes with it, from the file.                                       *)
LEMMA ReadFscanf ==
  ASSUME ReadInv, NEW i \in Reads!Readers, Reads!Fscanf(i)
  PROVE  ReadInv'
<1> DEFINE a == Reads!Ahead(i)
           d == IF rBuf[i] = <<>> THEN Len(a) ELSE 0
<1>0. /\ rMain \notin Reads!Over /\ rMain # "open" /\ rPc[i] = "read" /\ a # <<>>
      /\ ~Reads!Threaded => rMain = "loop" /\ turn = i
  BY DEF Reads!Fscanf, Reads!Running, ReadInv, StartInv
<1>1. /\ UNCHANGED <<rProg, rExists, rMain, turn, out>>
      /\ Reads!Threaded' = Reads!Threaded /\ Reads!Buffered' = Reads!Buffered
      /\ \A j \in Reads!Readers : Reads!OpenFile(j)' = Reads!OpenFile(j)
  BY DEF Reads!Fscanf, Reads!Threaded, Reads!Buffered, Reads!OpenFile
<1>2. rExists
  BY <1>0, ReadNothing
<1>3. /\ EndInv /\ SumInv /\ (Reads!Buffered => OnceInv) /\ \A j \in Reads!Readers : HoldsInv(j)
      /\ Letters \in Nat
  BY <1>2, ReadsConstants DEF ReadInv, FileInv, Reads!OpenReadAssumption
<1>4. /\ a \in Seq(1..Letters)
      /\ \A j, k \in 1..Len(a) : j < k => a[j] < a[k]
      /\ rBuf[i] # <<>> => a = rBuf[i]
      /\ rBuf[i] = <<>> => At(i) + Len(a) <= Letters /\ \A k \in 1..Len(a) : a[k] = At(i) + k
      /\ ~Reads!Buffered => Len(a) <= 1
  BY <1>2, <1>3, ReadAhead DEF ReadInv, HoldsInv
<1>5. /\ Head(a) = a[1] /\ Head(a) \in 1..Letters /\ 1 \in 1..Len(a)
      /\ Tail(a) \in Seq(1..Letters) /\ Len(Tail(a)) = Len(a) - 1 /\ Len(a) \in Nat \ {0}
      /\ \A k \in 1..Len(Tail(a)) : Tail(a)[k] = a[k + 1] /\ k + 1 \in 1..Len(a) /\ k \in Nat
      /\ \A k \in 1..Len(a) : k = 1 \/ (k - 1 \in 1..Len(Tail(a)) /\ a[k] = Tail(a)[k - 1])
  <2> HIDE DEF a
  <2> QED
    BY <1>0, <1>4, ReadFirst
<1>6. /\ rC' \in [Reads!Readers -> 0..Letters] /\ rC'[i] = Head(a)
      /\ \A j \in Reads!Readers \ {i} : rC'[j] = rC[j]
      /\ flag' \in [Reads!Readers -> {0, 1}] /\ flag'[i] = 1
      /\ \A j \in Reads!Readers \ {i} : flag'[j] = flag[j]
  <2>1. /\ rC \in [Reads!Readers -> 0..Letters] /\ flag \in [Reads!Readers -> {0, 1}]
        /\ Head(a) \in 0..Letters
    BY <1>3, <1>5 DEF ReadInv, ReadTypes, Reads!TypeOK
  <2>2. rC' = [rC EXCEPT ![i] = Head(a)] /\ flag' = [flag EXCEPT ![i] = 1]
    BY DEF Reads!Fscanf
  <2> HIDE DEF a
  <2> QED
    BY <2>1, <2>2
<1>7. /\ rBuf' \in [Reads!Readers -> Seq(1..Letters)] /\ rBuf'[i] = Tail(a)
      /\ \A j \in Reads!Readers \ {i} : rBuf'[j] = rBuf[j]
      /\ rPc' \in [Reads!Readers -> {"none", "read", "write", "done"}] /\ rPc'[i] = "write"
      /\ \A j \in Reads!Readers \ {i} : rPc'[j] = rPc[j]
  <2>1. /\ rBuf \in [Reads!Readers -> Seq(1..Letters)]
        /\ rPc \in [Reads!Readers -> {"none", "read", "write", "done"}]
    BY DEF ReadInv, ReadTypes, Reads!TypeOK
  <2>2. rBuf' = [rBuf EXCEPT ![i] = Tail(a)] /\ rPc' = [rPc EXCEPT ![i] = "write"]
    BY DEF Reads!Fscanf
  <2> HIDE DEF a
  <2> QED
    BY <1>5, <2>1, <2>2
<1>8. /\ d \in Nat /\ At(i) + d <= Letters /\ \A j \in Reads!Readers : At(j) \in 0..Letters
  BY <1>3, <1>4, <1>5 DEF At, Reads!OpenFile, ReadInv, ReadTypes,
     Reads!TypeOK, Reads!Readers
<1>9. /\ rPos' \in [Reads!Readers -> 0..Letters] /\ rPos'[Reads!OpenFile(i)] = At(i) + d
      /\ \A f \in Reads!Readers \ {Reads!OpenFile(i)} : rPos'[f] = rPos[f]
      /\ Reads!OpenFile(i) \in Reads!Readers /\ rPos[Reads!OpenFile(i)] = At(i)
  <2>1. /\ rPos \in [Reads!Readers -> 0..Letters] /\ Reads!OpenFile(i) \in Reads!Readers
        /\ rPos[Reads!OpenFile(i)] = At(i)
    BY DEF ReadInv, ReadTypes, Reads!TypeOK, Reads!OpenFile, Reads!Readers, At
  <2>2. rPos' = [rPos EXCEPT ![Reads!OpenFile(i)] = IF rBuf[i] = <<>> THEN @ + Len(a) ELSE @]
    BY DEF Reads!Fscanf
  <2>3. At(i) + d = IF rBuf[i] = <<>> THEN rPos[Reads!OpenFile(i)] + Len(a) ELSE rPos[Reads!OpenFile(i)]
    BY <1>8, <2>1
  <2>4. At(i) + d \in 0..Letters
    BY <1>3, <1>8
  <2> HIDE DEF a, d
  <2> QED
    BY <2>1, <2>2, <2>3, <2>4
<1>10. /\ At(i)' = At(i) + d
       /\ \A j \in Reads!Readers : At(j) <= At(j)' /\ At(j)' \in 0..Letters
       /\ Reads!Buffered => At(0) = At(1) /\ At(0)' = At(1)'
  <2>1. At(i)' = At(i) + d
    BY <1>1, <1>9 DEF At
  <2>2. \A j \in Reads!Readers : Reads!OpenFile(j) \in Reads!Readers
    BY DEF Reads!OpenFile, Reads!Readers
  <2>3. \A j \in Reads!Readers : At(j)' = rPos'[Reads!OpenFile(j)] /\ At(j) = rPos[Reads!OpenFile(j)]
    BY <1>1 DEF At
  <2>4. Reads!Buffered => At(0) = At(1) /\ At(0)' = At(1)'
    BY <1>1 DEF At, Reads!OpenFile
  <2> HIDE DEF d
  <2>5. ASSUME NEW j \in Reads!Readers PROVE At(j) <= At(j)' /\ At(j)' \in 0..Letters
    <3>1. CASE Reads!OpenFile(j) = Reads!OpenFile(i)
      <4>1. /\ At(j)' = At(i) + d /\ At(j) = At(i) /\ d \in Nat /\ At(i) \in 0..Letters
            /\ At(i) + d <= Letters
        BY <1>8, <1>9, <2>3, <3>1
      <4> QED
        BY <1>3, <4>1
    <3>2. CASE Reads!OpenFile(j) # Reads!OpenFile(i)
      <4>1. At(j)' = At(j) /\ At(j) \in 0..Letters
        BY <1>8, <1>9, <2>2, <2>3, <3>2
      <4> QED
        BY <1>3, <4>1
    <3> QED
      BY <3>1, <3>2
  <2> QED
    BY <2>1, <2>4, <2>5
<1>11. \A l \in 0..Letters : Holds(i, l)' <=> \E k \in 1..Len(a) : a[k] = l
  <2> HIDE DEF a
  <2> SUFFICES ASSUME NEW l \in 0..Letters
               PROVE  Holds(i, l)' <=> \E k \in 1..Len(a) : a[k] = l
    OBVIOUS
  <2>1. Holds(i, l)' <=> Head(a) = l \/ \E k \in 1..Len(Tail(a)) : Tail(a)[k] = l
    BY <1>6, <1>7 DEF Holds
  <2>2. ASSUME NEW k \in 1..Len(a), a[k] = l
        PROVE  Head(a) = l \/ \E m \in 1..Len(Tail(a)) : Tail(a)[m] = l
    BY <1>5, <2>2
  <2>3. ASSUME NEW k \in 1..Len(Tail(a)), Tail(a)[k] = l
        PROVE  \E m \in 1..Len(a) : a[m] = l
    BY <1>5, <2>3
  <2>4. Head(a) = l => \E m \in 1..Len(a) : a[m] = l
    BY <1>5
  <2> QED
    BY <2>1, <2>2, <2>3, <2>4
<1>12. \A j \in Reads!Readers \ {i}, l \in 0..Letters : Holds(j, l)' <=> Holds(j, l)
  BY <1>6, <1>7 DEF Holds
(* Either it holds what it held, or it held nothing and holds the letters    *)
(* between the old and the new position.                                     *)
<1>13. \A l \in 0..Letters : Holds(i, l)' => Holds(i, l) \/ (At(i) < l /\ l <= At(i)' /\ 1 <= l)
  <2> SUFFICES ASSUME NEW l \in 0..Letters, Holds(i, l)'
               PROVE  Holds(i, l) \/ (At(i) < l /\ l <= At(i)' /\ 1 <= l)
    OBVIOUS
  <2>1. PICK k \in 1..Len(a) : a[k] = l
    BY <1>11
  <2>2. CASE rBuf[i] # <<>>
    BY <1>4, <2>1, <2>2 DEF Holds
  <2>3. CASE rBuf[i] = <<>>
    <3>1. l = At(i) + k /\ At(i)' = At(i) + Len(a) /\ At(i) \in 0..Letters /\ Len(a) \in Nat
      BY <1>4, <1>5, <1>8, <1>10, <2>1, <2>3
    <3> HIDE DEF a, d
    <3> QED
      BY <1>3, <3>1
  <2> QED
    BY <2>2, <2>3
<1> HIDE DEF a, d
<1>14. ReadTypes'
  <2>1. Reads!TypeOK'
    BY <1>1, <1>6, <1>7, <1>9 DEF ReadInv, ReadTypes, Reads!TypeOK
  <2>2. ASSUME ~Reads!Buffered PROVE \A j \in Reads!Readers : rBuf'[j] = <<>>
    <3>1. Len(Tail(a)) = 0 /\ Tail(a) \in Seq(1..Letters)
      BY <1>4, <1>5, <2>2
    <3>2. Tail(a) = <<>>
      BY <3>1, NoLetters
    <3> QED
      BY <1>7, <2>2, <3>2 DEF ReadInv, ReadTypes
  <2> QED
    BY <1>1, <1>6, <1>7, <2>1, <2>2 DEF ReadInv, ReadTypes
<1>15. StartInv'
  BY <1>0, <1>1 DEF ReadInv, StartInv
<1>16. InOrder'
  BY <1>1 DEF ReadInv, InOrder
<1>17. \A k \in 1..Len(out) : out[k][2] \in 0..Letters /\ out[k][1] \in Reads!Readers
  BY <1>3 DEF ReadInv, ReadTypes
<1>18. HoldsInv(i)'
  <2>1. \A l \in 0..Letters : Holds(i, l)' => 1 <= l /\ l <= At(i)'
    <3> SUFFICES ASSUME NEW l \in 0..Letters, Holds(i, l)' PROVE 1 <= l /\ l <= At(i)'
      OBVIOUS
    <3>1. CASE Holds(i, l)
      <4>1. /\ 1 <= l /\ l <= At(i) /\ At(i) <= At(i)' /\ At(i) \in 0..Letters
            /\ At(i)' \in 0..Letters
        BY <1>3, <1>8, <1>10, <3>1 DEF HoldsInv
      <4> QED
        BY <1>3, <4>1
    <3> QED
      BY <1>13, <3>1
  <2>2. \A k \in 1..Len(rBuf'[i]) : rC'[i] < rBuf'[i][k]
    <3> SUFFICES ASSUME NEW k \in 1..Len(Tail(a)) PROVE a[1] < Tail(a)[k]
      BY <1>5, <1>6, <1>7
    <3>1. k + 1 \in 1..Len(a) /\ Tail(a)[k] = a[k + 1] /\ k \in Nat /\ k # 0 /\ 1 \in 1..Len(a)
      BY <1>5
    <3>2. 1 < k + 1
      BY <3>1
    <3> QED
      BY <1>4, <3>1, <3>2
  <2>3. \A j, k \in 1..Len(rBuf'[i]) : j < k => rBuf'[i][j] < rBuf'[i][k]
    <3> SUFFICES ASSUME NEW j \in 1..Len(Tail(a)), NEW k \in 1..Len(Tail(a)), j < k
                 PROVE  Tail(a)[j] < Tail(a)[k]
      BY <1>7
    <3>1. /\ j + 1 \in 1..Len(a) /\ Tail(a)[j] = a[j + 1] /\ j \in Nat
          /\ k + 1 \in 1..Len(a) /\ Tail(a)[k] = a[k + 1] /\ k \in Nat
      BY <1>5
    <3>2. j + 1 < k + 1
      BY <3>1
    <3> QED
      BY <1>4, <3>1, <3>2
  <2>4. ASSUME NEW k \in 1..Len(out), out[k][1] = i
        PROVE  out[k][2] <= At(i)' /\ \A l \in 0..Letters : Holds(i, l)' => out[k][2] < l
    <3>1. out[k][2] <= At(i) /\ \A l \in 0..Letters : Holds(i, l) => out[k][2] < l
      BY <1>3, <2>4 DEF HoldsInv
    <3>2. /\ At(i) \in 0..Letters /\ At(i)' \in 0..Letters /\ At(i) <= At(i)'
          /\ out[k][2] \in 0..Letters
      BY <1>8, <1>10, <1>17
    <3> QED
      BY <1>3, <1>13, <3>1, <3>2
  <2> QED
    BY <1>1, <2>1, <2>2, <2>3, <2>4 DEF HoldsInv
<1>19. ASSUME NEW j \in Reads!Readers \ {i} PROVE HoldsInv(j)'
  <2>1. HoldsInv(j) /\ At(j) \in 0..Letters /\ At(j)' \in 0..Letters /\ At(j) <= At(j)'
    BY <1>3, <1>8, <1>10
  <2>2. \A l \in 0..Letters : Holds(j, l)' => 1 <= l /\ l <= At(j)'
    BY <1>3, <1>12, <2>1 DEF HoldsInv
  <2>3. ASSUME NEW k \in 1..Len(out), out[k][1] = j
        PROVE  out[k][2] <= At(j)' /\ \A l \in 0..Letters : Holds(j, l)' => out[k][2] < l
    <3>1. out[k][2] <= At(j) /\ \A l \in 0..Letters : Holds(j, l)' => out[k][2] < l
      BY <1>12, <2>1, <2>3 DEF HoldsInv
    <3> QED
      BY <1>3, <1>17, <2>1, <3>1
  <2>4. /\ rPc'[j] = "write" => \A k \in 1..Len(rBuf'[j]) : rC'[j] < rBuf'[j][k]
        /\ \A k, m \in 1..Len(rBuf'[j]) : k < m => rBuf'[j][k] < rBuf'[j][m]
    BY <1>6, <1>7, <2>1 DEF HoldsInv
  <2> QED
    BY <1>1, <2>2, <2>3, <2>4 DEF HoldsInv
<1>20. ASSUME Reads!Buffered PROVE OnceInv'
  <2>1. OnceInv /\ At(0) = At(1)
    BY <1>3, <1>10, <1>20
  <2>2. \A j \in Reads!Readers, l \in 0..Letters : Holds(j, l) => l <= At(i)
    BY <1>3, <2>1 DEF HoldsInv, Reads!Readers
  <2>3. \A k \in 1..Len(out) : out[k][2] <= At(i)
    BY <1>3, <1>17, <2>1 DEF HoldsInv, Reads!Readers
  <2>4. ASSUME NEW j \in Reads!Readers \ {i}, NEW l \in 0..Letters, Holds(i, l)'
        PROVE  ~Holds(j, l)'
    <3>1. Holds(i, l) => ~Holds(j, l)
      BY <2>1 DEF OnceInv, Reads!Readers
    <3>2. At(i) < l => ~Holds(j, l)
      BY <1>3, <1>8, <2>2
    <3> QED
      BY <1>12, <1>13, <2>4, <3>1, <3>2
  <2>5. \A l \in 0..Letters : ~(Holds(0, l)' /\ Holds(1, l)')
    BY <2>4 DEF Reads!Readers
  <2>6. ASSUME NEW k \in 1..Len(out), NEW l \in 0..Letters, l = out[k][2],
               NEW j \in Reads!Readers
        PROVE  ~Holds(j, l)'
    <3>1. ~Holds(j, l) /\ l <= At(i)
      BY <2>1, <2>3, <2>6 DEF OnceInv
    <3>2. CASE j = i
      BY <1>3, <1>8, <1>13, <3>1, <3>2
    <3>3. CASE j # i
      BY <1>12, <3>1, <3>3
    <3> QED
      BY <3>2, <3>3
  <2>7. \A k \in 1..Len(out'), j \in Reads!Readers : ~Holds(j, out[k][2])'
    BY <1>1, <1>17, <2>6 DEF Holds
  <2> QED
    BY <1>1, <2>1, <2>5, <2>7 DEF OnceInv
<1>21. SumInv'
  <2>1. \A j \in Reads!Readers : InHand(j) \in Nat
    BY DEF InHand, ReadInv, ReadTypes
  <2>2. \A j \in Reads!Readers \ {i} : InHand(j)' = InHand(j)
    BY <1>7 DEF InHand
  <2>3. InHand(i)' = Len(a)
    BY <1>5, <1>7 DEF InHand
  <2>4. InHand(i) = Len(rBuf[i])
    BY <1>0 DEF InHand, ReadInv, ReadTypes
  <2>5. InHand(i) + d = Len(a)
    <3>1. CASE rBuf[i] = <<>>
      <4>1. d = Len(a) /\ Len(rBuf[i]) = 0
        BY <3>1 DEF d
      <4> QED
        BY <1>5, <2>4, <4>1
    <3>2. CASE rBuf[i] # <<>>
      <4>1. d = 0 /\ Len(rBuf[i]) = Len(a)
        BY <1>4, <3>2 DEF d
      <4> QED
        BY <1>5, <2>4, <4>1
    <3> QED
      BY <3>1, <3>2
  <2>6. InHand(0)' + InHand(1)' = InHand(0) + InHand(1) + d
    <3>1. InHand(i)' = InHand(i) + d /\ InHand(0) \in Nat /\ InHand(1) \in Nat
      BY <2>1, <2>3, <2>5 DEF Reads!Readers
    <3>2. CASE i = 0
      BY <1>8, <2>2, <3>1, <3>2 DEF Reads!Readers
    <3>3. CASE i = 1
      BY <1>8, <2>2, <3>1, <3>3 DEF Reads!Readers
    <3> QED
      BY <3>2, <3>3 DEF Reads!Readers
  <2>7. rPos[0] \in Nat /\ rPos[1] \in Nat
    BY <1>3 DEF ReadInv, ReadTypes, Reads!TypeOK, Reads!Readers
  <2>8. /\ Reads!Buffered => rPos'[0] = rPos[0] + d
        /\ ~Reads!Buffered => rPos'[0] + rPos'[1] = rPos[0] + rPos[1] + d
    BY <1>8, <1>9, <2>7 DEF Reads!OpenFile, Reads!Readers
  <2>9. /\ Len(out) \in Nat /\ InHand(0)' \in Nat /\ InHand(1)' \in Nat
        /\ InHand(0) \in Nat /\ InHand(1) \in Nat
    <3>1. Len(out) \in Nat
      BY DEF ReadInv, ReadTypes
    <3>2. \A j \in Reads!Readers : InHand(j)' \in Nat
      BY <1>5, <2>1, <2>2, <2>3
    <3> QED
      BY <2>1, <3>1, <3>2 DEF Reads!Readers
  <2>10. (Len(out) + InHand(0) + InHand(1)) + d = Len(out) + InHand(0)' + InHand(1)'
    <3>1. d \in Nat
      BY <1>8
    <3>2. d \in Nat /\ InHand(0)' \in Nat /\ InHand(1)' \in Nat
      BY <2>9, <3>1
    <3>3. InHand(0) \in Nat /\ InHand(1) \in Nat /\ Len(out) \in Nat
      BY <2>9
    <3>4. InHand(0)' + InHand(1)' = InHand(0) + InHand(1) + d
      BY <2>6
    <3>5. Len(out) + (InHand(0)' + InHand(1)') = Len(out) + (InHand(0) + InHand(1) + d)
      BY <3>4
    <3>6. Len(out) + (InHand(0)' + InHand(1)') = Len(out) + InHand(0)' + InHand(1)'
      BY <3>2, <3>3
    <3>7. Len(out) + (InHand(0) + InHand(1) + d) = (Len(out) + InHand(0) + InHand(1)) + d
      BY <3>2, <3>3
    <3> QED
      BY <3>5, <3>6, <3>7
  <2>11. CASE Reads!Buffered
    <3>1. rPos[0] = Len(out) + InHand(0) + InHand(1)
      BY <1>3, <2>11 DEF SumInv
    <3>2. rPos'[0] = Len(out) + InHand(0)' + InHand(1)'
      BY <2>8, <2>11, <2>10, <3>1
    <3> QED
      BY <1>1, <2>11, <3>2 DEF SumInv
  <2>12. CASE ~Reads!Buffered
    <3>1. rPos[0] + rPos[1] = Len(out) + InHand(0) + InHand(1)
      BY <1>3, <2>12 DEF SumInv
    <3>2. rPos'[0] + rPos'[1] = Len(out) + InHand(0)' + InHand(1)'
      BY <2>8, <2>12, <2>10, <3>1
    <3> QED
      BY <1>1, <2>12, <3>2 DEF SumInv
  <2> QED
    BY <2>11, <2>12
<1>22. EndInv'
  <2>1. ASSUME NEW j \in Reads!Readers, flag'[j] = 0 \/ rPc'[j] = "done"
        PROVE  rBuf'[j] = <<>> /\ At(j)' = Letters /\ rPc'[j] # "write"
    <3>1. j # i
      BY <1>6, <1>7, <2>1
    <3>2. rBuf[j] = <<>> /\ At(j) = Letters /\ rPc[j] # "write"
      BY <1>3, <1>6, <1>7, <2>1, <3>1 DEF EndInv
    <3>3. At(j)' = Letters
      BY <1>3, <1>10, <3>2
    <3> QED
      BY <1>7, <3>1, <3>2, <3>3
  <2>2. rMain' # "done"
    BY <1>0, <1>1 DEF Reads!Over
  <2>3. ASSUME ~Reads!Threaded, rMain = "loop"
        PROVE  turn = i /\ rPc'[1 - turn] = "read" /\ rPc'[turn] = "write"
    <3>1. turn = i /\ 1 - turn \in Reads!Readers \ {i}
      BY <1>0, <2>3 DEF Reads!Readers
    <3>2. rPc[1 - turn] = "read"
      BY <1>3, <2>3 DEF EndInv
    <3> QED
      BY <1>7, <3>1, <3>2
  <2>4. rProg = "2" => ~Reads!Threaded /\ ~Reads!Buffered
    BY DEF Reads!Threaded, Reads!Buffered
  <2>5. ASSUME rProg = "2", rMain = "loop"
        PROVE  rPos'[0] = IF i = 0 THEN rPos'[1] + 1 ELSE rPos'[1]
    <3>1. rBuf[i] = <<>> /\ d = 1 /\ Reads!OpenFile(i) = i /\ At(i) = rPos[i]
      <4>1. rBuf[i] = <<>>
        BY <2>4, <2>5 DEF ReadInv, ReadTypes
      <4>2. Len(a) = 1
        BY <1>4, <1>5, <2>4, <2>5
      <4> QED
        BY <2>4, <2>5, <4>1, <4>2 DEF d, Reads!OpenFile, At
    <3>2. rPos'[i] = rPos[i] + 1 /\ \A f \in Reads!Readers \ {i} : rPos'[f] = rPos[f]
      BY <1>9, <3>1
    <3>3. rPos[0] = IF i = 0 THEN rPos[1] ELSE rPos[1] + 1
      BY <1>0, <1>3, <2>3, <2>4, <2>5 DEF EndInv, Reads!Readers
    <3> QED
      BY <3>2, <3>3 DEF Reads!Readers
  <2> QED
    BY <1>1, <2>1, <2>2, <2>3, <2>4, <2>5 DEF EndInv, Reads!Readers
<1>23. FileInv'
  BY <1>1, <1>2, <1>18, <1>19, <1>20, <1>21, <1>22 DEF FileInv
<1> QED
  BY <1>14, <1>15, <1>16, <1>23 DEF ReadInv

(* Every step keeps the invariant. *)
LEMMA ReadNext == ReadInv /\ [Reads!Next]_Reads!vars => ReadInv'
<1> SUFFICES ASSUME ReadInv, [Reads!Next]_Reads!vars PROVE ReadInv'
  OBVIOUS
<1>1. CASE Reads!Open \/ Reads!Create \/ Reads!Return
  BY <1>1, ReadOpen, ReadCreate, ReadReturn
<1>2. ASSUME NEW i \in Reads!Readers, Reads!Fscanf(i) \/ Reads!Eof(i) \/ Reads!PrintLetter(i)
      PROVE  ReadInv'
  BY <1>2, ReadFscanf, ReadEof, ReadPrint
<1>3. CASE UNCHANGED Reads!vars
  <2>1. UNCHANGED <<rProg, rExists, rMain, rPc, flag, turn, rPos, rBuf, rC, out>>
    BY <1>3 DEF Reads!vars
  <2>2. Reads!TypeOK'
    BY <2>1 DEF ReadInv, ReadTypes, Reads!TypeOK
  <2>3. StartInv'
    BY <2>1 DEF ReadInv, StartInv, Reads!Threaded
  <2>4. rExists => EndInv'
    BY <2>1 DEF ReadInv, FileInv, EndInv, Reads!Threaded, At, Reads!OpenFile,
       Reads!Buffered
  <2>5. turn' \in Reads!Readers /\ flag' \in [Reads!Readers -> {0, 1}]
    BY <2>1 DEF ReadInv, ReadTypes
  <2> QED
    BY <2>1, <2>2, <2>3, <2>4, <2>5, ReadSame
<1> QED
  BY <1>1, <1>2, <1>3 DEF Reads!Next

(* The invariant implies the property. *)
LEMMA ReadImplies == ReadInv => Reads!ReadsAll
<1> SUFFICES ASSUME ReadInv PROVE Reads!ReadsAll
  OBVIOUS
<1>1. Reads!Buffered => \A j, k \in 1..Len(out) : out[j][2] = out[k][2] => j = k
  <2>1. CASE rExists
    BY <2>1 DEF ReadInv, FileInv, OnceInv
  <2>2. CASE ~rExists
    <3>1. Len(out) = 0
      BY <2>2 DEF ReadInv, FileInv
    <3> QED
      BY <3>1
  <2> QED
    BY <2>1, <2>2
<1>2. ASSUME rMain = "done", rExists
      PROVE  Len(out) = IF Reads!Buffered THEN Letters ELSE 2 * Letters
  <2>1. \A i \in Reads!Readers : InHand(i) = 0 /\ At(i) = Letters
    <3> SUFFICES ASSUME NEW i \in Reads!Readers PROVE InHand(i) = 0 /\ At(i) = Letters
      OBVIOUS
    <3>1. rBuf[i] = <<>> /\ At(i) = Letters /\ rPc[i] # "write"
      BY <1>2 DEF ReadInv, FileInv, EndInv
    <3>2. Len(rBuf[i]) = 0
      BY <3>1
    <3> QED
      BY <3>1, <3>2 DEF InHand
  <2>2. (IF Reads!Buffered THEN rPos[0] ELSE rPos[0] + rPos[1]) = Len(out)
    BY <1>2, <2>1 DEF ReadInv, FileInv, SumInv, Reads!Readers, ReadTypes
  <2>3. rPos[0] = Letters /\ (~Reads!Buffered => rPos[1] = Letters) /\ Letters \in Nat
    BY <2>1, ReadsConstants DEF At, Reads!OpenFile, Reads!Readers,
       Reads!OpenReadAssumption
  <2> QED
    BY <2>2, <2>3
<1> QED
  BY <1>1, <1>2 DEF Reads!ReadsAll, ReadInv, ReadTypes, InOrder

(* The inductive invariant of the programs that read. *)
THEOREM ReadInvariant == AllSpec => []ReadInv
<1>1. AllInit => Reads!Init
  BY DEF AllInit
<1>2. [AllNext]_allVars => [Reads!Next]_Reads!vars
  BY DEF AllNext, EpollStep, DgramStep, ReceiveStep, PairedStep, ReadStep, WriteStep, allVars,
         readVars, Reads!vars
<1> QED
  BY <1>1, <1>2, ReadInit, ReadNext, PTL DEF AllSpec

(* For every length of the file and of the buffers of the streams, and      *)
(* whatever the two threads do: through one descriptor every letter is      *)
(* printed once, by the stream that read it ahead (1.c, 1_thread.c), and    *)
(* through two every letter twice (2.c, 2_thread.c), each reader's letters  *)
(* in the order of the file.                                                *)
THEOREM ReadPrintsAll == AllSpec => []ReadsAll
<1>1. ReadInv => ReadsAll
  BY ReadImplies DEF ReadsAll
<1> QED
  BY <1>1, ReadInvariant, PTL

-----------------------------------------------------------------------------
(* 2_1.c, 2_1_thread.c, 3.c, 3_thread.c *)

(* what the variables are that TypeOK does not say                          *)
WriteTypes ==
    /\ Writes!TypeOK /\ prog \in Writes!Programs /\ exists \in BOOLEAN
    /\ text \in Seq(0..Letters) /\ before \in {<<>>, Writes!Old}
    /\ wrote \in [Writes!Fds -> Seq(1..Letters)] /\ wBuf \in [Writes!Fds -> Seq(1..Letters)]
    /\ st \in [Writes!Fds -> Nat] /\ statbuf \in Nat /\ shown \in Nat

(* the descriptor of the odd letters, the k-th letter of a descriptor, who  *)
(* writes to it, and how many letters that one has written to it            *)
Odd(s) == s = IF Writes!Threaded THEN 1 ELSE 0
Letter(s, k) == IF Odd(s) THEN 2 * k - 1 ELSE 2 * k
Writer(s) == IF Writes!Threaded THEN s ELSE 0
Given(s) == IF Odd(s) THEN c[Writer(s)] \div 2 ELSE (c[Writer(s)] - 1) \div 2

LettersInv ==
    \A s \in Writes!Fds :
        /\ Len(wrote[s]) = Given(s)
        /\ \A k \in 1..Len(wrote[s]) : wrote[s][k] = Letter(s, k)

Closing == {"close0", "close1", "done"}

(* how far main and the writers have come                                   *)
StagesInv ==
    /\ Writes!Threaded => main \in {"open", "create", "join"} \cup Closing \cup {"failed"}
    /\ ~Writes!Threaded => main \in {"open", "loop"} \cup Closing /\ wPc[1] = "none"
    /\ main = "open" => \A p \in Writes!Fds : wPc[p] = "none" /\ c[p] = 1 /\ wBuf[p] = <<>>
    /\ main = "open" => \A p \in Writes!Fds : st[p] = 0 /\ statbuf = 0 /\ shown = 0
    /\ \A p \in Writes!Fds : wPc[p] = "done" => c[p] = Letters + 1
    /\ main \in Closing => \A s \in Writes!Fds : wPc[Writer(s)] = "done"
    /\ pos[0] # 0 => main \in {"close1", "done"}
    /\ pos[1] # 0 => main = "done"

(* sizes that were read, stored or printed                                  *)
SizesInv ==
    /\ statbuf <= Len(text) /\ shown <= Len(text)
    /\ \A p \in Writes!Fds : st[p] <= Len(text)
    /\ main = "done" /\ prog # "2_1_thread" => shown = Len(text)

(* behind what the file held are the letters given so far, each             *)
(* descriptor's in order                                                    *)
Appended ==
    /\ \A i \in 1..Len(before) : text[i] = 0
    /\ \A s \in Writes!Fds : \A k \in 1..Len(wrote[s]) :
           \E j \in (Len(before) + 1)..Len(text) : text[j] = Letter(s, k)
    /\ \A s \in Writes!Fds, j \in 1..Len(text), k \in 1..Letters :
           text[j] = Letter(s, k) => k <= Len(wrote[s])
    /\ \A s \in Writes!Fds, i, j \in 1..Len(text), k, m \in 1..Letters :
           i < j /\ text[i] = Letter(s, k) /\ text[j] = Letter(s, m) => k < m

(* 2_1.c and 2_1_thread.c: the file grows by what is written                *)
AppendInv ==
    /\ before = text \/ main # "open"
    /\ \A s \in Writes!Fds : wBuf[s] = <<>>
    /\ exists => Len(text) = Len(before) + Len(wrote[0]) + Len(wrote[1]) /\ Appended
    /\ ~exists => before = <<>>

(* 3.c and 3_thread.c: the file is what the streams closed so far held      *)
StreamInv ==
    /\ main = "open" => before = text
    /\ main # "open" => before = <<>>
    /\ main \in {"create", "loop", "join", "close0"} => text = <<>> /\ wBuf = wrote
    /\ main = "close1" => text = wrote[0] /\ wBuf[1] = wrote[1]
    /\ main = "done" => text = IF prog = "3"
                               THEN wrote[1] \o (IF Letters % 2 = 0 THEN <<>> ELSE <<Letters>>)
                               ELSE wrote[0] \o wrote[1]

ContentInv == IF Writes!Stdio THEN StreamInv ELSE AppendInv

WriteInv == WriteTypes /\ LettersInv /\ StagesInv /\ SizesInv /\ ContentInv

\* What a sequence put behind another makes.
LEMMA QueueJoin ==
  ASSUME NEW T, NEW q \in Seq(T), NEW m \in Seq(T)
  PROVE  /\ q \o m \in Seq(T) /\ Len(q \o m) = Len(q) + Len(m) /\ Len(q) \in Nat
         /\ Len(m) \in Nat
         /\ \A k \in 1..(Len(q) + Len(m)) :
                (q \o m)[k] = IF k <= Len(q) THEN q[k] ELSE m[k - Len(q)]
  OBVIOUS

\* The first element alone.
LEMMA FirstOnly ==
  ASSUME NEW T, NEW q \in Seq(T), Len(q) >= 1
  PROVE  SubSeq(q, 1, 1) = <<q[1]>>
<1> DEFINE p == SubSeq(q, 1, 1)
<1>1. p \in Seq(T) /\ Len(p) = 1 /\ p[1] = q[1]
  OBVIOUS
<1> HIDE DEF p
<1>2. p = <<p[1]>>
  BY <1>1
<1> QED
  BY <1>1, <1>2 DEF p

\* Halves of numbers that follow one another.
LEMMA Halves ==
  ASSUME NEW n \in Nat
  PROVE  /\ n % 2 \in {0, 1} /\ n \div 2 \in Nat /\ n = 2 * (n \div 2) + (n % 2)
         /\ n % 2 = 1 => (n + 1) \div 2 = n \div 2 + 1 /\ (n + 1) % 2 = 0
         /\ n % 2 = 0 => (n + 1) \div 2 = n \div 2 /\ (n + 1) % 2 = 1
<1> DEFINE q == n \div 2
           r == n % 2
<1>1. q \in Nat /\ r \in {0, 1} /\ n = 2 * q + r
  BY Z3
<1> HIDE DEF q, r
<1>2. r = 1 => (n + 1) \div 2 = q + 1 /\ (n + 1) % 2 = 0
  <2> SUFFICES ASSUME r = 1 PROVE (n + 1) \div 2 = q + 1 /\ (n + 1) % 2 = 0
    OBVIOUS
  <2>1. n + 1 = 2 * (q + 1) + 0 /\ q + 1 \in Int /\ n + 1 \in Nat
    BY <1>1
  <2> QED
    BY <2>1, QuotientUnique, RemainderUnique
<1>3. r = 0 => (n + 1) \div 2 = q /\ (n + 1) % 2 = 1
  <2> SUFFICES ASSUME r = 0 PROVE (n + 1) \div 2 = q /\ (n + 1) % 2 = 1
    OBVIOUS
  <2>1. n + 1 = 2 * q + 1 /\ q \in Int /\ n + 1 \in Nat
    BY <1>1
  <2> QED
    BY <2>1, QuotientUnique, RemainderUnique
<1> QED
  BY <1>1, <1>2, <1>3 DEF q, r

\* Which letters go to a descriptor, and how many there are of each.
LEMMA LetterFacts ==
  ASSUME NEW s \in Writes!Fds, NEW k \in Nat, NEW m \in Nat
  PROVE  /\ Letter(s, k) \in Int
         /\ k < m => Letter(s, k) < Letter(s, m)
         /\ Letter(s, k) = Letter(s, m) => k = m
         /\ Letter(s, k) # Letter(1 - s, m)
         /\ k > 0 => Letter(s, k) > 0
         /\ Odd(s) <=> ~Odd(1 - s)
<1>1. s = 0 \/ s = 1
  BY DEF Writes!Fds
<1>2. Odd(s) <=> ~Odd(1 - s)
  BY <1>1 DEF Odd
<1>3. Letter(s, k) = (IF Odd(s) THEN 2 * k - 1 ELSE 2 * k)
      /\ Letter(s, m) = (IF Odd(s) THEN 2 * m - 1 ELSE 2 * m)
      /\ Letter(1 - s, m) = (IF Odd(1 - s) THEN 2 * m - 1 ELSE 2 * m)
  BY DEF Letter
<1> QED
  BY <1>2, <1>3

\* The constants.
LEMMA WriteConstants ==
  Letters \in Nat \ {0} /\ Writes!Fds = {0, 1}
  /\ (\A s \in Writes!Fds : 1 - s \in Writes!Fds /\ Writer(s) \in Writes!Fds)
  BY WritesConstants DEF Writes!OpenWriteAssumption, Writes!Fds, Writer

\* The next letter goes behind those its descriptor has got.
LEMMA NextLetter ==
  ASSUME WriteTypes, LettersInv, StagesInv, NEW p \in Writes!Fds, Writes!Write(p), NEW l, l = c[p]
  PROVE  /\ l \in 1..Letters /\ c'[p] = l + 1 /\ c' \in [Writes!Fds -> 1..(Letters + 1)]
         /\ Writes!Fd(p, l) \in Writes!Fds
         /\ Writes!Takes(p, l) => l = Letter(Writes!Fd(p, l), Len(wrote[Writes!Fd(p, l)]) + 1)
         /\ \A s \in Writes!Fds : Given(s)' = IF Writes!Takes(p, l) /\ s = Writes!Fd(p, l)
                                       THEN Len(wrote[s]) + 1 ELSE Len(wrote[s])
<1>1. l \in 1..Letters /\ c'[p] = l + 1 /\ (\A q \in Writes!Fds \ {p} : c'[q] = c[q])
      /\ c' \in [Writes!Fds -> 1..(Letters + 1)]
      /\ c \in [Writes!Fds -> 1..(Letters + 1)] /\ l \in Nat /\ l - 1 \in Nat
  <2>1. c \in [Writes!Fds -> 1..(Letters + 1)] /\ c[p] <= Letters
        /\ c' = [c EXCEPT ![p] = c[p] + 1]
    BY DEF Writes!Write, WriteTypes, Writes!TypeOK
  <2>2. l \in 1..Letters /\ l \in Nat /\ l - 1 \in Nat /\ l + 1 \in 1..(Letters + 1)
    BY <2>1, WriteConstants
  <2> QED
    BY <2>1, <2>2, WriteConstants
<1>2. prog' = prog
  BY DEF Writes!Write
<1>3. \A s \in Writes!Fds : Len(wrote[s]) = IF Odd(s) THEN c[Writer(s)] \div 2 ELSE (c[Writer(s)] - 1) \div 2
  BY DEF LettersInv, Given
<1>4. \A s \in Writes!Fds : Given(s)' = IF Odd(s) THEN c'[Writer(s)] \div 2 ELSE (c'[Writer(s)] - 1) \div 2
  BY <1>2 DEF Given, Odd, Writer, Writes!Threaded
<1> DEFINE h == l \div 2
           r == l % 2
           f == (l + 1) \div 2
           g == (l - 1) \div 2
<1>5. h \in Nat /\ r \in {0, 1} /\ l = 2 * h + r /\ (r = 1 => f = h + 1) /\ (r = 0 => f = h)
  BY <1>1, Halves
<1>6. (r = 1 => g = h) /\ (r = 0 => g = h - 1)
  <2> DEFINE e == l - 1
  <2>1. e \in Nat /\ e + 1 = l
    BY <1>1
  <2> HIDE DEF e
  <2>2. /\ e % 2 \in {0, 1} /\ e \div 2 \in Nat
        /\ e % 2 = 1 => l \div 2 = e \div 2 + 1 /\ l % 2 = 0
        /\ e % 2 = 0 => l \div 2 = e \div 2 /\ l % 2 = 1
    BY <2>1, Halves
  <2>3. (r = 1 => e \div 2 = h) /\ (r = 0 => e \div 2 = h - 1)
    BY <2>2
  <2> QED
    BY <2>3 DEF e
<1>7. (l + 1) - 1 = l
  BY <1>1
<1>8. p = 0 \/ p = 1
  BY DEF Writes!Fds
<1>9. CASE Writes!Threaded
  <2>1. \A q \in Writes!Fds : Writer(q) = q /\ (Odd(q) <=> q = 1)
    BY <1>9 DEF Writer, Odd
  <2>2. ASSUME NEW q \in Writes!Fds \ {p} PROVE Given(q)' = Len(wrote[q])
    <3>1. c'[q] = c[q] /\ Writer(q) = q
      BY <1>1, <2>1
    <3> QED
      BY <1>3, <1>4, <3>1
  <2>3. Len(wrote[p]) = (IF p = 1 THEN h ELSE g) /\ Given(p)' = (IF p = 1 THEN f ELSE h)
    BY <1>1, <1>3, <1>4, <1>7, <2>1
  <2>4. (Writes!Takes(p, l) <=> r = p) /\ Writes!Fd(p, l) = p
    BY <1>9 DEF Writes!Takes, Writes!Fd
  <2> HIDE DEF h, r, f, g
  <2>5. Given(p)' = IF r = p THEN Len(wrote[p]) + 1 ELSE Len(wrote[p])
    BY <1>5, <1>6, <1>8, <2>3
  <2>6. r = p => l = Letter(p, Len(wrote[p]) + 1)
    <3>1. CASE p = 1
      <4>1. Odd(p)
        BY <2>1, <3>1
      <4>2. Len(wrote[p]) = h
        BY <2>3, <3>1
      <4> QED
        BY <1>5, <3>1, <4>1, <4>2 DEF Letter
    <3>2. CASE p = 0
      <4>1. ~Odd(p)
        BY <2>1, <3>2
      <4>2. r = p => Len(wrote[p]) = h - 1
        BY <1>6, <2>3, <3>2
      <4> QED
        BY <1>5, <3>2, <4>1, <4>2 DEF Letter
    <3> QED
      BY <1>8, <3>1, <3>2
  <2> QED
    BY <1>1, <2>2, <2>4, <2>5, <2>6
<1>10. CASE ~Writes!Threaded
  <2>1. p = 0
    BY <1>8, <1>10 DEF Writes!Write, StagesInv
  <2>2. \A q \in Writes!Fds : Writer(q) = 0 /\ (Odd(q) <=> q = 0)
    BY <1>10 DEF Writer, Odd
  <2>3. Writes!Takes(p, l) /\ Writes!Fd(p, l) = 1 - r
    BY <1>10, <2>1 DEF Writes!Takes, Writes!Fd
  <2>4. Len(wrote[0]) = h /\ Given(0)' = f /\ Len(wrote[1]) = g /\ Given(1)' = h
    BY <1>1, <1>3, <1>4, <1>7, <2>1, <2>2, WriteConstants
  <2> HIDE DEF h, r, f, g
  <2>5. 0 \in Writes!Fds /\ 1 \in Writes!Fds /\ Odd(0) /\ ~Odd(1)
        /\ \A q \in Writes!Fds : q = 0 \/ q = 1
    BY <2>2, WriteConstants
  <2>6. CASE r = 1
    <3>1. Writes!Fd(p, l) = 0
      BY <2>3, <2>6
    <3>2. Given(0)' = Len(wrote[0]) + 1 /\ Given(1)' = Len(wrote[1])
      BY <1>5, <1>6, <2>4, <2>6
    <3>3. l = Letter(0, Len(wrote[0]) + 1)
      BY <1>5, <2>4, <2>5, <2>6 DEF Letter
    <3> QED
      BY <1>1, <2>3, <2>5, <3>1, <3>2, <3>3
  <2>7. CASE r = 0
    <3>1. Writes!Fd(p, l) = 1
      BY <2>3, <2>7
    <3>2. Given(1)' = Len(wrote[1]) + 1 /\ Given(0)' = Len(wrote[0])
      BY <1>5, <1>6, <2>4, <2>7
    <3>3. l = Letter(1, Len(wrote[1]) + 1)
      <4>1. Len(wrote[1]) + 1 = h
        BY <1>5, <1>6, <2>4, <2>7
      <4> QED
        BY <1>5, <2>5, <2>7, <4>1 DEF Letter
    <3> QED
      BY <1>1, <2>3, <2>5, <3>1, <3>2, <3>3
  <2> QED
    BY <1>5, <2>6, <2>7
<1> QED
  BY <1>9, <1>10

\* When a program has come to its closes, all letters are given.
LEMMA AllGiven ==
  ASSUME WriteTypes, LettersInv, StagesInv, main \in Closing
  PROVE  /\ \A s \in Writes!Fds : Len(wrote[s]) = IF Odd(s) THEN (Letters + 1) \div 2 ELSE Letters \div 2
         /\ Len(wrote[0]) + Len(wrote[1]) = Letters
         /\ \A l \in 1..Letters : \E s \in Writes!Fds : \E k \in 1..Len(wrote[s]) : Letter(s, k) = l
<1>1. \A s \in Writes!Fds : c[Writer(s)] = Letters + 1
  BY WriteConstants DEF StagesInv
<1>2. (Letters + 1) - 1 = Letters /\ Letters \in Nat
  BY WriteConstants
<1>3. \A s \in Writes!Fds : Len(wrote[s]) = IF Odd(s) THEN (Letters + 1) \div 2 ELSE Letters \div 2
  BY <1>1, <1>2 DEF LettersInv, Given
<1>4. PICK a \in Writes!Fds : Odd(a)
  BY WriteConstants DEF Odd
<1>5. 1 - a \in Writes!Fds /\ ~Odd(1 - a)
  BY <1>4, LetterFacts, WriteConstants, <1>2
<1>6. /\ Letters \div 2 \in Nat /\ Letters = 2 * (Letters \div 2) + (Letters % 2)
      /\ Letters % 2 \in {0, 1}
      /\ Letters % 2 = 1 => (Letters + 1) \div 2 = Letters \div 2 + 1
      /\ Letters % 2 = 0 => (Letters + 1) \div 2 = Letters \div 2
  BY <1>2, Halves
<1>7. Len(wrote[a]) = (Letters + 1) \div 2 /\ Len(wrote[1 - a]) = Letters \div 2
  BY <1>3, <1>4, <1>5
<1>8. Len(wrote[a]) + Len(wrote[1 - a]) = Letters
  BY <1>6, <1>7
<1>9. Len(wrote[0]) + Len(wrote[1]) = Letters
  <2>1. a = 0 \/ a = 1
    BY DEF Writes!Fds
  <2>2. Len(wrote[0]) \in Nat /\ Len(wrote[1]) \in Nat
    BY WriteConstants DEF WriteTypes
  <2>3. CASE a = 0
    <3>1. 1 - a = 1
      BY <2>3
    <3> QED
      BY <1>8, <2>3, <3>1
  <2>4. CASE a = 1
    <3>1. 1 - a = 0
      BY <2>4
    <3>2. Len(wrote[1]) + Len(wrote[0]) = Letters
      BY <1>8, <2>4, <3>1
    <3>3. \A i, j \in Nat : i + j = j + i
      OBVIOUS
    <3>4. Len(wrote[0]) + Len(wrote[1]) = Len(wrote[1]) + Len(wrote[0])
      BY <2>2, <3>3, Zenon
    <3> QED
      BY <3>2, <3>4
  <2> QED
    BY <2>1, <2>3, <2>4
<1>10. ASSUME NEW l \in 1..Letters
       PROVE  \E s \in Writes!Fds : \E k \in 1..Len(wrote[s]) : Letter(s, k) = l
  <2>1. l \in Nat /\ l \div 2 \in Nat /\ l = 2 * (l \div 2) + (l % 2) /\ l % 2 \in {0, 1}
    BY Halves
  <2>2. CASE l % 2 = 1
    <3>1. (l \div 2) + 1 \in 1..Len(wrote[a])
      BY <1>6, <1>7, <2>1, <2>2
    <3>2. Letter(a, (l \div 2) + 1) = l
      BY <1>4, <2>1, <2>2 DEF Letter
    <3> QED
      BY <3>1, <3>2
  <2>3. CASE l % 2 = 0
    <3>1. l \div 2 \in 1..Len(wrote[1 - a])
      <4>1. l \div 2 >= 1 /\ l \div 2 <= Letters \div 2
        BY <1>2, <1>6, <2>1, <2>3
      <4> QED
        BY <1>6, <1>7, <2>1, <4>1
    <3>2. Letter(1 - a, l \div 2) = l
      BY <1>5, <2>1, <2>3 DEF Letter
    <3> QED
      BY <1>5, <3>1, <3>2
  <2> QED
    BY <2>1, <2>2, <2>3
<1> QED
  BY <1>3, <1>9, <1>10

\* Who writes does so before the closes, and in 2_1.c and 3.c it is main.
LEMMA WriterRuns ==
  ASSUME StagesInv, NEW p \in Writes!Fds, Writes!Running(p), wPc[p] # "none", wPc[p] # "done"
  PROVE  main \in {"create", "loop", "join"} /\ (~Writes!Threaded => p = 0 /\ main = "loop")
<1>1. main # "open" /\ main \notin Writes!Over
  BY DEF StagesInv, Writes!Running
<1>2. CASE Writes!Threaded
  <2>1. Writer(p) = p
    BY <1>2 DEF Writer
  <2>2. main \notin Closing
    BY <2>1 DEF StagesInv
  <2> QED
    BY <1>1, <1>2, <2>2 DEF StagesInv, Writes!Over
<1>3. CASE ~Writes!Threaded
  BY <1>3 DEF StagesInv, Writes!Running, Writes!Fds
<1> QED
  BY <1>2, <1>3

\* What was appended is, as long as neither files nor letters change.
LEMMA AppendKept ==
  ASSUME AppendInv, prog' = prog, exists' = exists, text' = text, before' = before,
         wBuf' = wBuf, wrote' = wrote, main' = main \/ main' # "open"
  PROVE  AppendInv'
<1>1. \A s, k : Letter(s, k)' = Letter(s, k)
  BY DEF Letter, Odd, Writes!Threaded
<1>2. Appended => Appended'
  BY <1>1 DEF Appended
<1>3. (before = text \/ main # "open") => (before' = text' \/ main' # "open")
  OBVIOUS
<1> QED
  BY <1>2, <1>3 DEF AppendInv

\* A step that neither writes nor closes leaves what is in the file.
LEMMA QuietWrite ==
  ASSUME WriteInv, prog' = prog, exists' = exists, text' = text, before' = before,
         c' = c, pos' = pos, wBuf' = wBuf, wrote' = wrote,
         \/ main' = main
         \/ main \in {"create", "loop", "join"} /\ main' \in {"create", "loop", "join", "close0"},
         Writes!TypeOK', StagesInv', SizesInv',
         st' \in [Writes!Fds -> Nat], statbuf' \in Nat, shown' \in Nat
  PROVE  WriteInv'
<1>1. WriteTypes /\ LettersInv /\ ContentInv
  BY DEF WriteInv
<1>2. WriteTypes'
  BY <1>1 DEF WriteTypes
<1>3. LettersInv'
  BY <1>1 DEF LettersInv, Given, Letter, Odd, Writer, Writes!Threaded
<1>4. StreamInv => StreamInv'
  BY DEF StreamInv
<1>5. AppendInv => AppendInv'
  BY AppendKept DEF AppendInv
<1>6. ContentInv'
  BY <1>1, <1>4, <1>5 DEF ContentInv, Writes!Stdio
<1> QED
  BY <1>2, <1>3, <1>6 DEF WriteInv

\* Init: nothing is written.
LEMMA WriteInit == Writes!Init => WriteInv
<1> SUFFICES ASSUME Writes!Init PROVE WriteInv
  OBVIOUS
<1>1. /\ prog \in Writes!Programs /\ exists \in BOOLEAN /\ before = text /\ main = "open"
      /\ text \in {<<>>, Writes!Old} /\ (~exists => text = <<>>)
      /\ wPc = [p \in Writes!Fds |-> "none"] /\ c = [p \in Writes!Fds |-> 1]
      /\ pos = [s \in Writes!Fds |-> 0] /\ wBuf = [s \in Writes!Fds |-> <<>>]
      /\ wrote = [s \in Writes!Fds |-> <<>>]
      /\ st = [p \in Writes!Fds |-> 0] /\ statbuf = 0 /\ shown = 0
  BY DEF Writes!Init
<1>2. Letters \in Nat \ {0} /\ 0 \in Writes!Fds /\ 1 \in Writes!Fds
  BY WriteConstants
<1>3. text \in Seq(0..Letters) /\ Len(text) \in Nat /\ \A i \in 1..Len(text) : text[i] = 0
  <2>1. CASE text = <<>>
    BY <1>2, <2>1
  <2>2. CASE text = Writes!Old
    <3>1. text = <<0>> /\ 0 \in 0..Letters
      BY <1>2, <2>2 DEF Writes!Old
    <3> QED
      BY <3>1
  <2> QED
    BY <1>1, <2>1, <2>2
<1>4. \A s \in Writes!Fds : wrote[s] = <<>> /\ Len(wrote[s]) = 0 /\ wBuf[s] = <<>>
  BY <1>1
<1>5. WriteTypes
  <2>1. Writes!TypeOK
    <3>1. c \in [Writes!Fds -> 1..(Letters + 1)] /\ pos \in [Writes!Fds -> 0..Letters]
      BY <1>1, <1>2
    <3> QED
      BY <1>1, <3>1 DEF Writes!TypeOK
  <2>2. <<>> \in Seq(1..Letters)
    OBVIOUS
  <2>3. wrote \in [Writes!Fds -> Seq(1..Letters)]
        /\ wBuf \in [Writes!Fds -> Seq(1..Letters)]
    BY <1>1, <2>2
  <2>4. st \in [Writes!Fds -> Nat]
    BY <1>1
  <2> QED
    BY <1>1, <1>3, <2>1, <2>3, <2>4 DEF WriteTypes
<1>6. LettersInv
  <2>1. \A s \in Writes!Fds : c[Writer(s)] = 1
    BY <1>1, WriteConstants
  <2>2. 1 \div 2 = 0 /\ (1 - 1) \div 2 = 0
    BY Z3
  <2>3. \A s \in Writes!Fds : Given(s) = 0
    BY <2>1, <2>2 DEF Given
  <2>4. 1..0 = {}
    OBVIOUS
  <2> QED
    BY <1>4, <2>3, <2>4 DEF LettersInv
<1>7. StagesInv
  BY <1>1, <1>2, <1>4 DEF StagesInv, Closing
<1>8. SizesInv
  BY <1>1, <1>3 DEF SizesInv
<1>9. StreamInv
  BY <1>1 DEF StreamInv
<1>10. AppendInv
  <2>1. Len(wrote[0]) = 0 /\ Len(wrote[1]) = 0 /\ Len(before) = Len(text)
    BY <1>1, <1>2, <1>4
  <2>2. Len(text) = Len(before) + Len(wrote[0]) + Len(wrote[1])
    BY <1>3, <2>1
  <2>3. ASSUME NEW s \in Writes!Fds, NEW j \in 1..Len(text), NEW k \in 1..Letters PROVE text[j] # Letter(s, k)
    BY <1>3, LetterFacts
  <2>4. \A s \in Writes!Fds : 1..Len(wrote[s]) = {}
    BY <1>4
  <2> QED
    BY <1>1, <1>3, <1>4, <2>1, <2>2, <2>3, <2>4 DEF AppendInv, Appended
<1> QED
  BY <1>5, <1>6, <1>7, <1>8, <1>9, <1>10 DEF WriteInv, ContentInv

\* The opens: of a stream's file nothing is left.
LEMMA WriteOpen ==
  ASSUME WriteInv, Writes!Open
  PROVE  WriteInv'
<1>1. WriteTypes /\ LettersInv /\ StagesInv /\ SizesInv /\ ContentInv
  BY DEF WriteInv
<1>2. /\ main = "open" /\ exists' = (exists \/ Writes!Stdio)
      /\ text' = (IF Writes!Stdio THEN <<>> ELSE text)
      /\ before' = text' /\ prog' = prog /\ c' = c /\ pos' = pos /\ wBuf' = wBuf
      /\ wrote' = wrote
      /\ main' = (IF Writes!Threaded THEN "create" ELSE "loop") /\ st' = st
  BY DEF Writes!Open, Writes!statVars
<1>3. /\ Writes!Threaded => wPc' = wPc /\ statbuf' = statbuf /\ shown' = shown
      /\ ~Writes!Threaded => wPc' = [wPc EXCEPT ![0] = "loop"] /\ statbuf' = Len(text') /\ shown' = Len(text')
  BY DEF Writes!Open, Writes!statVars
<1>4. \A p \in Writes!Fds : wPc[p] = "none" /\ c[p] = 1 /\ wBuf[p] = <<>> /\ st[p] = 0 /\ statbuf = 0 /\ shown = 0
  BY <1>1, <1>2 DEF StagesInv
<1>5. text' \in Seq(0..Letters) /\ Len(text') \in Nat
  <2>1. <<>> \in Seq(0..Letters)
    OBVIOUS
  <2>2. text' \in Seq(0..Letters)
    BY <1>1, <1>2, <2>1 DEF WriteTypes
  <2> QED
    BY <2>2
<1>6. exists' \in BOOLEAN /\ (~Writes!Stdio => exists' = exists)
  BY <1>1, <1>2 DEF WriteTypes
<1>7. before' \in {<<>>, Writes!Old}
  <2>1. ~Writes!Stdio => before = text
    BY <1>1, <1>2 DEF ContentInv, AppendInv
  <2>2. CASE Writes!Stdio
    BY <1>2, <2>2
  <2>3. CASE ~Writes!Stdio
    BY <1>1, <1>2, <2>1, <2>3 DEF WriteTypes
  <2> QED
    BY <2>2, <2>3
<1>8. statbuf' \in Nat /\ shown' \in Nat /\ statbuf' <= Len(text') /\ shown' <= Len(text')
  BY <1>1, <1>3, <1>4, <1>5, WriteConstants DEF WriteTypes
<1>9. wPc' \in [Writes!Fds -> {"none", "loop", "stat", "store", "print", "done"}]
  BY <1>1, <1>3 DEF WriteTypes, Writes!TypeOK
<1>10. WriteTypes'
  <2>1. Writes!TypeOK'
    BY <1>1, <1>2, <1>9 DEF WriteTypes, Writes!TypeOK
  <2> QED
    BY <1>1, <1>2, <1>5, <1>6, <1>7, <1>8, <2>1 DEF WriteTypes
<1>11. LettersInv'
  BY <1>1, <1>2 DEF LettersInv, Given, Letter, Odd, Writer, Writes!Threaded
<1>12. StagesInv'
  <2>1. Writes!Threaded' = Writes!Threaded
    BY <1>2 DEF Writes!Threaded
  <2>2. ~Writes!Threaded => wPc'[1] = "none"
    BY <1>1, <1>3, <1>4, WriteConstants DEF WriteTypes, Writes!TypeOK
  <2>3. \A p \in Writes!Fds : wPc'[p] # "done"
    BY <1>1, <1>3, <1>4, WriteConstants DEF WriteTypes, Writes!TypeOK
  <2>4. pos'[0] = 0 /\ pos'[1] = 0
    BY <1>1, <1>2 DEF StagesInv
  <2> QED
    BY <1>2, <2>1, <2>2, <2>3, <2>4 DEF StagesInv, Closing
<1>13. SizesInv'
  BY <1>1, <1>2, <1>4, <1>5, <1>8 DEF SizesInv
<1>14. CASE Writes!Stdio
  <2>1. \A s \in Writes!Fds : wrote[s] = <<>>
    <3>1. \A s \in Writes!Fds : c[Writer(s)] = 1
      BY <1>4, WriteConstants
    <3>2. 1 \div 2 = 0 /\ (1 - 1) \div 2 = 0
      BY Z3
    <3>3. \A s \in Writes!Fds : Len(wrote[s]) = 0 /\ wrote[s] \in Seq(1..Letters)
      BY <1>1, <3>1, <3>2 DEF LettersInv, Given, WriteTypes
    <3> QED
      BY <3>3
  <2>2. wBuf = wrote
    BY <1>1, <1>4, <2>1 DEF WriteTypes
  <2>3. StreamInv'
    BY <1>2, <1>14, <2>2 DEF StreamInv
  <2> QED
    BY <1>2, <1>10, <1>11, <1>12, <1>13, <1>14, <2>3 DEF WriteInv, ContentInv,
       Writes!Stdio
<1>15. CASE ~Writes!Stdio
  <2>1. AppendInv /\ before = text
    BY <1>1, <1>2, <1>15 DEF ContentInv, AppendInv
  <2>2. before' = before /\ text' = text /\ exists' = exists
    BY <1>2, <1>6, <1>15, <2>1
  <2>3. AppendInv'
    <3>1. main' # "open"
      BY <1>2
    <3> QED
      BY <1>2, <2>1, <2>2, <3>1, AppendKept
  <2> QED
    BY <1>2, <1>10, <1>11, <1>12, <1>13, <1>15, <2>3 DEF WriteInv, ContentInv,
       Writes!Stdio
<1> QED
  BY <1>14, <1>15

\* pthread_create succeeds, PRINT_STAT, the end of a loop, pthread_join.
LEMMA WriteQuietly ==
  ASSUME WriteInv, prog' = prog, exists' = exists, text' = text, before' = before,
         c' = c, pos' = pos, wBuf' = wBuf, wrote' = wrote,
         NEW p \in Writes!Fds, NEW at \in {"none", "loop", "stat", "store", "print", "done"},
         wPc' = [wPc EXCEPT ![p] = at], at = "done" => c[p] = Letters + 1, at = "none" => wPc[p] = "none",
         at # "none" /\ ~Writes!Threaded => p = 0,
         \/ main' = main /\ main # "open" /\ (main \in Closing => at = wPc[p])
         \/ main = "create" /\ main' = "join"
         \/ main = "loop" /\ main' = "close0" /\ at = "done" /\ p = 0
         \/ main = "join" /\ main' = "close0" /\ \A q \in Writes!Fds : wPc'[q] = "done",
         st' = st \/ st' = [st EXCEPT ![p] = Len(text)],
         statbuf' = statbuf \/ statbuf' = st[p], shown' = shown \/ shown' = statbuf,
         main = "done" => shown' = shown
  PROVE  WriteInv'
<1>1. WriteTypes /\ LettersInv /\ StagesInv /\ SizesInv /\ ContentInv
  BY DEF WriteInv
<1>2. Len(text) \in Nat
  BY <1>1 DEF WriteTypes
<1>3. st' \in [Writes!Fds -> Nat] /\ statbuf' \in Nat /\ shown' \in Nat
  <2>1. st \in [Writes!Fds -> Nat] /\ statbuf \in Nat /\ shown \in Nat
    BY <1>1 DEF WriteTypes
  <2>2. st' \in [Writes!Fds -> Nat]
    <3>1. CASE st' = st
      BY <2>1, <3>1
    <3>2. CASE st' = [st EXCEPT ![p] = Len(text)]
      BY <1>2, <2>1, <3>2
    <3> QED
      BY <3>1, <3>2
  <2>3. st[p] \in Nat
    BY <2>1
  <2> QED
    BY <2>1, <2>2, <2>3
<1>4. main \in {"open", "create", "loop", "join", "close0", "close1"} \cup Writes!Over /\
      wPc \in [Writes!Fds -> {"none", "loop", "stat", "store", "print", "done"}]
  BY <1>1 DEF WriteTypes, Writes!TypeOK
<1>5. /\ wPc' \in [Writes!Fds -> {"none", "loop", "stat", "store", "print", "done"}]
      /\ \A q \in Writes!Fds : wPc'[q] = IF q = p THEN at ELSE wPc[q]
  BY <1>4
<1>6. Writes!TypeOK'
  <2>1. main' \in {"open", "create", "loop", "join", "close0", "close1"} \cup Writes!Over
    BY <1>4
  <2> QED
    BY <1>1, <1>5, <2>1 DEF WriteTypes, Writes!TypeOK
<1>7. Writes!Threaded' = Writes!Threaded /\ \A s : Writer(s)' = Writer(s)
  BY DEF Writes!Threaded, Writer
<1>8. SizesInv'
  <2>1. statbuf' <= Len(text) /\ shown' <= Len(text)
    BY <1>1, <1>2 DEF SizesInv
  <2>2. \A q \in Writes!Fds : st'[q] <= Len(text)
    <3>1. \A q \in Writes!Fds : st'[q] = st[q] \/ st'[q] = Len(text)
      BY <1>1 DEF WriteTypes
    <3> QED
      BY <1>1, <1>2, <3>1 DEF SizesInv
  <2>3. main' = "done" => main = "done"
    OBVIOUS
  <2> QED
    BY <1>1, <2>1, <2>2, <2>3 DEF SizesInv
<1>9. StagesInv'
  <2>1. Writes!Threaded => main' \in {"open", "create", "join"} \cup Closing \cup {"failed"}
    BY <1>1 DEF StagesInv, Closing
  <2>2. ~Writes!Threaded => main' \in {"open", "loop"} \cup Closing
    BY <1>1 DEF StagesInv, Closing
  <2>3. ~Writes!Threaded => wPc'[1] = "none"
    <3> SUFFICES ASSUME ~Writes!Threaded PROVE wPc'[1] = "none"
      OBVIOUS
    <3>1. wPc[1] = "none" /\ 1 \in Writes!Fds
      BY <1>1, WriteConstants DEF StagesInv
    <3> QED
      BY <1>5, <3>1
  <2>4. main' # "open"
    BY <1>4
  <2>5. \A q \in Writes!Fds : wPc'[q] = "done" => c[q] = Letters + 1
    BY <1>1, <1>5 DEF StagesInv
  <2>6. main' \in Closing => \A s \in Writes!Fds : wPc'[Writer(s)] = "done"
    <3>1. CASE main' = main /\ main \in Closing
      <4>1. \A s \in Writes!Fds : wPc[Writer(s)] = "done" /\ Writer(s) \in Writes!Fds
        BY <1>1, <3>1, WriteConstants DEF StagesInv
      <4>2. wPc' = wPc
        BY <1>4, <1>5, <3>1
      <4> QED
        BY <4>1, <4>2
    <3>2. CASE main = "loop" /\ main' = "close0" /\ at = "done" /\ p = 0
      <4>1. ~Writes!Threaded
        BY <1>1, <3>2 DEF StagesInv, Closing
      <4>2. \A s \in Writes!Fds : Writer(s) = 0
        BY <4>1 DEF Writer
      <4> QED
        BY <1>5, <3>2, <4>2
    <3>3. CASE \A q \in Writes!Fds : wPc'[q] = "done"
      BY <3>3, WriteConstants
    <3> QED
      BY <3>1, <3>2, <3>3 DEF Closing
  <2>7. (pos[0] # 0 => main' \in {"close1", "done"}) /\ (pos[1] # 0 => main' = "done")
    BY <1>1 DEF StagesInv
  <2> QED
    BY <1>7, <2>1, <2>2, <2>3, <2>4, <2>5, <2>6, <2>7 DEF StagesInv
<1>10. \/ main' = main
       \/ main \in {"create", "loop", "join"} /\ main' \in {"create", "loop", "join", "close0"}
  OBVIOUS
<1> QED
  BY <1>3, <1>6, <1>8, <1>9, <1>10, QuietWrite

\* A stream that is the first to write puts its buffer into an empty file.
LEMMA FlushFirst ==
  ASSUME WriteTypes, NEW s \in Writes!Fds, ~Writes!Appends(s), pos[s] = 0, text = <<>>
  PROVE  Writes!Flushed(s) = wBuf[s]
<1>1. wBuf[s] \in Seq(1..Letters) /\ Len(wBuf[s]) \in Nat /\ Len(text) = 0
  BY DEF WriteTypes
<1> DEFINE n == Len(wBuf[s])
<1>2. pos[s] + Len(wBuf[s]) = n /\ (IF n > Len(text) THEN n ELSE Len(text)) = n
  BY <1>1
<1>3. Writes!Flushed(s) = [k \in 1..n |-> IF k > 0 /\ k <= n THEN wBuf[s][k - 0] ELSE text[k]]
  BY <1>2 DEF Writes!Flushed
<1>4. \A k \in 1..n : k > 0 /\ k <= n /\ k - 0 = k
  BY <1>1
<1>5. Writes!Flushed(s) = [k \in 1..n |-> wBuf[s][k]]
  BY <1>3, <1>4
<1>6. wBuf[s] = [k \in 1..n |-> wBuf[s][k]]
  BY <1>1
<1> QED
  BY <1>5, <1>6

\* With O_APPEND there is nothing to flush.
LEMMA FlushNothing ==
  ASSUME WriteTypes, AppendInv, ~Writes!Stdio, NEW s \in Writes!Fds
  PROVE  Writes!Flushed(s) = text /\ wBuf[s] = <<>> /\ Len(wBuf[s]) = 0
<1>1. wBuf[s] = <<>> /\ Writes!Appends(s) /\ text \in Seq(0..Letters)
  BY DEF AppendInv, Writes!Appends, WriteTypes
<1>2. Writes!Flushed(s) = text \o <<>>
  BY <1>1 DEF Writes!Flushed
<1> QED
  BY <1>1, <1>2

\* pthread_create fails: exit flushes what the first thread wrote.
LEMMA WriteFails ==
  ASSUME WriteInv, main = "create", main' = "failed", wPc' = wPc, text' = Writes!Flushed(0),
         wBuf' = [wBuf EXCEPT ![0] = <<>>],
         UNCHANGED <<prog, exists, before, c, pos, wrote, st, statbuf, shown>>
  PROVE  WriteInv'
<1>1. WriteTypes /\ LettersInv /\ StagesInv /\ SizesInv /\ ContentInv
  BY DEF WriteInv
<1>2. 0 \in Writes!Fds /\ Letters \in Nat
  BY WriteConstants
<1>3. Writes!Threaded /\ pos[0] = 0
  BY <1>1 DEF StagesInv, Closing
<1>4. text' \in Seq(0..Letters) /\ Len(text) \in Nat /\ Len(text') \in Nat
      /\ Len(text') >= Len(text)
      /\ (Writes!Stdio => before = <<>>) /\ (~Writes!Stdio => text' = text)
  <2>1. text \in Seq(0..Letters) /\ Len(text) \in Nat
    BY <1>1 DEF WriteTypes
  <2>2. CASE Writes!Stdio
    <3>1. text = <<>> /\ before = <<>> /\ ~Writes!Appends(0)
      BY <1>1, <2>2 DEF ContentInv, StreamInv, Writes!Appends
    <3>2. text' = wBuf[0] /\ wBuf[0] \in Seq(1..Letters)
      BY <1>1, <1>2, <1>3, <3>1, FlushFirst DEF WriteTypes
    <3>3. text' \in Seq(0..Letters) /\ Len(text') \in Nat
      BY <1>2, <3>2
    <3>4. Len(text) = 0
      BY <3>1
    <3> QED
      BY <2>2, <3>1, <3>3, <3>4
  <2>3. CASE ~Writes!Stdio
    <3>1. AppendInv
      BY <1>1, <2>3 DEF ContentInv
    <3>2. text' = text
      BY <1>1, <1>2, <2>3, <3>1, FlushNothing
    <3> QED
      BY <2>1, <2>3, <3>2
  <2> QED
    BY <2>2, <2>3
<1>5. wBuf' \in [Writes!Fds -> Seq(1..Letters)]
  <2>1. <<>> \in Seq(1..Letters)
    OBVIOUS
  <2> QED
    BY <1>1, <2>1 DEF WriteTypes
<1>6. WriteTypes'
  BY <1>1, <1>4, <1>5 DEF WriteTypes, Writes!TypeOK, Writes!Over
<1>7. LettersInv'
  BY <1>1 DEF LettersInv, Given, Letter, Odd, Writer, Writes!Threaded
<1>8. StagesInv'
  <2>1. Writes!Threaded' = Writes!Threaded
    BY DEF Writes!Threaded
  <2> QED
    BY <1>1, <1>3, <2>1 DEF StagesInv, Closing
<1>9. SizesInv'
  <2>1. statbuf \in Nat /\ shown \in Nat /\ \A q \in Writes!Fds : st[q] \in Nat
    BY <1>1 DEF WriteTypes
  <2> QED
    BY <1>1, <1>4, <2>1 DEF SizesInv
<1>10. CASE Writes!Stdio
  <2>1. StreamInv' /\ Writes!Stdio'
    BY <1>4, <1>10 DEF StreamInv, Writes!Stdio
  <2> QED
    BY <1>6, <1>7, <1>8, <1>9, <2>1 DEF WriteInv, ContentInv
<1>11. CASE ~Writes!Stdio
  <2>1. AppendInv /\ ~Writes!Stdio'
    BY <1>1, <1>11 DEF ContentInv, Writes!Stdio
  <2>2. wBuf' = wBuf
    <3>1. wBuf[0] = <<>> /\ wBuf \in [Writes!Fds -> Seq(1..Letters)]
      BY <1>1, <1>2, <2>1 DEF AppendInv, WriteTypes
    <3> QED
      BY <1>2, <3>1
  <2>3. AppendInv'
    BY <1>4, <1>11, <2>1, <2>2, AppendKept
  <2> QED
    BY <1>6, <1>7, <1>8, <1>9, <2>1, <2>3 DEF WriteInv, ContentInv
<1> QED
  BY <1>10, <1>11

\* write, or fprintf to the buffer: the letter is the next of its descriptor.
LEMMA WritePuts ==
  ASSUME WriteInv, NEW p \in Writes!Fds, Writes!Write(p)
  PROVE  WriteInv'
<1>1. WriteTypes /\ LettersInv /\ StagesInv /\ SizesInv /\ ContentInv
  BY DEF WriteInv
<1>2. /\ Writes!Running(p) /\ wPc[p] = "loop" /\ prog' = prog /\ exists' = exists
      /\ before' = before
      /\ main' = main /\ pos' = pos /\ st' = st /\ statbuf' = statbuf /\ shown' = shown
  BY DEF Writes!Write, Writes!statVars
<1>3. main \in {"create", "loop", "join"} /\ (~Writes!Threaded => p = 0 /\ main = "loop")
  BY <1>1, <1>2, WriterRuns
<1> DEFINE l == c[p]
           s == Writes!Fd(p, l)
           w == Len(wrote[s])
<1>4. /\ l \in 1..Letters /\ c'[p] = l + 1 /\ c' \in [Writes!Fds -> 1..(Letters + 1)]
      /\ s \in Writes!Fds
      /\ Writes!Takes(p, l) => l = Letter(s, w + 1)
      /\ \A q \in Writes!Fds : Given(q)' = IF Writes!Takes(p, l) /\ q = s THEN Len(wrote[q]) + 1 ELSE Len(wrote[q])
  BY <1>1, NextLetter
<1>5. \A q \in Writes!Fds \ {p} : c'[q] = c[q]
  BY <1>1 DEF Writes!Write, WriteTypes, Writes!TypeOK
<1>6. /\ Writes!Threaded' = Writes!Threaded /\ Writes!Stdio' = Writes!Stdio
      /\ \A q : Writer(q)' = Writer(q)
      /\ \A q, k : Letter(q, k)' = Letter(q, k)
  BY <1>2 DEF Writes!Threaded, Writes!Stdio, Writer, Letter, Odd
<1>7. /\ Writes!Takes(p, l) =>
            /\ wPc' = [wPc EXCEPT ![p] = "stat"]
            /\ text' = IF exists /\ ~Writes!Stdio THEN Append(text, l) ELSE text
            /\ wBuf' = IF Writes!Stdio THEN [wBuf EXCEPT ![s] = Append(wBuf[s], l)] ELSE wBuf
            /\ wrote' = [wrote EXCEPT ![s] = Append(wrote[s], l)]
      /\ ~Writes!Takes(p, l) => wPc' = wPc /\ text' = text /\ wBuf' = wBuf /\ wrote' = wrote
  BY DEF Writes!Write
<1>8. /\ wrote \in [Writes!Fds -> Seq(1..Letters)]
      /\ wBuf \in [Writes!Fds -> Seq(1..Letters)] /\ text \in Seq(0..Letters)
      /\ wPc \in [Writes!Fds -> {"none", "loop", "stat", "store", "print", "done"}]
      /\ before \in {<<>>, Writes!Old} /\ Letters \in Nat
  BY <1>1, WriteConstants DEF WriteTypes, Writes!TypeOK
<1> HIDE DEF l, s, w
<1>9. \A q \in Writes!Fds : wrote'[q] = IF Writes!Takes(p, l) /\ q = s THEN Append(wrote[q], l) ELSE wrote[q]
  BY <1>4, <1>7, <1>8
<1>10. /\ wrote' \in [Writes!Fds -> Seq(1..Letters)]
       /\ wBuf' \in [Writes!Fds -> Seq(1..Letters)]
  <2>1. Append(wrote[s], l) \in Seq(1..Letters) /\ Append(wBuf[s], l) \in Seq(1..Letters)
    BY <1>4, <1>8
  <2>2. wrote' \in [Writes!Fds -> Seq(1..Letters)]
    BY <1>4, <1>7, <1>8, <2>1
  <2>3. wBuf' \in [Writes!Fds -> Seq(1..Letters)]
    BY <1>4, <1>7, <1>8, <2>1
  <2> QED
    BY <2>2, <2>3
<1>11. text' \in Seq(0..Letters) /\ Len(text') \in Nat /\ Len(text) \in Nat
       /\ Len(text') >= Len(text)
  <2>1. l \in 0..Letters
    BY <1>4, <1>8
  <2>2. CASE text' = text
    BY <1>8, <2>2
  <2>3. CASE text' = Append(text, l)
    BY <1>8, <2>1, <2>3
  <2> QED
    BY <1>7, <2>2, <2>3
<1>12. wPc' \in [Writes!Fds -> {"none", "loop", "stat", "store", "print", "done"}]
  BY <1>7, <1>8
<1>13. WriteTypes'
  <2>1. Writes!TypeOK'
    BY <1>1, <1>2, <1>4, <1>12 DEF WriteTypes, Writes!TypeOK
  <2> QED
    BY <1>1, <1>2, <1>10, <1>11, <2>1 DEF WriteTypes
<1>14. LettersInv'
  <2> SUFFICES ASSUME NEW q \in Writes!Fds
               PROVE  /\ Len(wrote'[q]) = Given(q)'
                      /\ \A k \in 1..Len(wrote'[q]) : wrote'[q][k] = Letter(q, k)
    BY <1>6 DEF LettersInv
  <2>1. wrote[q] \in Seq(1..Letters)
        /\ \A k \in 1..Len(wrote[q]) : wrote[q][k] = Letter(q, k)
    BY <1>1, <1>8 DEF LettersInv
  <2>2. CASE Writes!Takes(p, l) /\ q = s
    <3>1. wrote'[q] = Append(wrote[q], l) /\ Given(q)' = Len(wrote[q]) + 1
      BY <1>4, <1>9, <2>2
    <3>2. l = Letter(q, Len(wrote[q]) + 1)
      BY <1>4, <2>2 DEF w
    <3>3. /\ Len(wrote'[q]) = Len(wrote[q]) + 1 /\ Len(wrote[q]) \in Nat
          /\ \A k \in 1..Len(wrote[q]) : wrote'[q][k] = wrote[q][k]
          /\ wrote'[q][Len(wrote[q]) + 1] = l
      BY <1>4, <2>1, <3>1, QueueAppend
    <3>4. ASSUME NEW k \in 1..(Len(wrote[q]) + 1) PROVE wrote'[q][k] = Letter(q, k)
      <4>1. CASE k \in 1..Len(wrote[q])
        BY <2>1, <3>3, <4>1
      <4>2. CASE k = Len(wrote[q]) + 1
        BY <3>2, <3>3, <4>2
      <4> QED
        BY <3>3, <4>1, <4>2
    <3> QED
      BY <3>1, <3>3, <3>4
  <2>3. CASE ~(Writes!Takes(p, l) /\ q = s)
    <3>1. wrote'[q] = wrote[q] /\ Given(q)' = Len(wrote[q])
      BY <1>4, <1>9, <2>3
    <3> QED
      BY <2>1, <3>1
  <2> QED
    BY <2>2, <2>3
<1>15. StagesInv'
  <2>1. \A q \in Writes!Fds : wPc'[q] = wPc[q] \/ (q = p /\ wPc'[q] = "stat")
    BY <1>7, <1>8
  <2>2. \A q \in Writes!Fds : wPc'[q] = "done" => q # p /\ wPc[q] = "done"
    BY <1>2, <1>7, <1>8
  <2>3. \A q \in Writes!Fds : wPc'[q] = "done" => c'[q] = Letters + 1
    BY <1>1, <1>5, <2>2 DEF StagesInv
  <2>4. ~Writes!Threaded => wPc'[1] = "none"
    <3> SUFFICES ASSUME ~Writes!Threaded PROVE wPc'[1] = "none"
      OBVIOUS
    <3>1. wPc[1] = "none" /\ 1 \in Writes!Fds /\ p = 0
      BY <1>1, <1>3, WriteConstants DEF StagesInv
    <3> QED
      BY <2>1, <3>1
  <2>5. main' # "open" /\ main' \notin Closing
    BY <1>2, <1>3 DEF Closing
  <2>6. /\ Writes!Threaded => main' \in {"open", "create", "join"} \cup Closing \cup {"failed"}
        /\ ~Writes!Threaded => main' \in {"open", "loop"} \cup Closing
        /\ (pos'[0] # 0 => main' \in {"close1", "done"}) /\ (pos'[1] # 0 => main' = "done")
    BY <1>1, <1>2 DEF StagesInv
  <2> QED
    BY <1>6, <2>3, <2>4, <2>5, <2>6 DEF StagesInv
<1>16. SizesInv'
  <2>1. statbuf \in Nat /\ shown \in Nat /\ \A q \in Writes!Fds : st[q] \in Nat
    BY <1>1 DEF WriteTypes
  <2> QED
    BY <1>1, <1>2, <1>3, <1>11, <2>1 DEF SizesInv
<1>17. CASE Writes!Stdio
  <2>1. text' = text /\ StreamInv
    BY <1>1, <1>7, <1>17 DEF ContentInv
  <2>2. text = <<>> /\ wBuf = wrote /\ before = <<>>
    BY <1>3, <2>1 DEF StreamInv
  <2>3. wBuf' = wrote'
    BY <1>7, <1>17, <2>2
  <2>4. StreamInv'
    BY <1>2, <1>3, <2>1, <2>2, <2>3 DEF StreamInv
  <2> QED
    BY <1>6, <1>13, <1>14, <1>15, <1>16, <1>17, <2>4 DEF WriteInv, ContentInv
<1>18. CASE ~Writes!Stdio
  <2>1. AppendInv /\ wBuf' = wBuf
    BY <1>1, <1>7, <1>18 DEF ContentInv
  <2>2. CASE ~Writes!Takes(p, l)
    <3>1. AppendInv'
      BY <1>2, <1>7, <2>1, <2>2, AppendKept
    <3> QED
      BY <1>6, <1>13, <1>14, <1>15, <1>16, <1>18, <3>1 DEF WriteInv,
         ContentInv
  <2>3. CASE Writes!Takes(p, l) /\ ~exists
    <3>1. AppendInv'
      BY <1>2, <1>3, <2>1, <2>3 DEF AppendInv
    <3> QED
      BY <1>6, <1>13, <1>14, <1>15, <1>16, <1>18, <3>1 DEF WriteInv,
         ContentInv
  <2>4. CASE Writes!Takes(p, l) /\ exists
    <3>1. text' = Append(text, l) /\ l \in 0..Letters /\ Appended
      <4>1. text' = Append(text, l) /\ Appended
        BY <1>7, <1>18, <2>1, <2>4 DEF AppendInv
      <4>2. l \in 0..Letters
        BY <1>4, <1>8
      <4> QED
        BY <4>1, <4>2
    <3>2. /\ Len(text') = Len(text) + 1 /\ text'[Len(text) + 1] = l
          /\ \A i \in 1..Len(text) : text'[i] = text[i]
      BY <1>8, <3>1, QueueAppend
    <3>3. Len(wrote[0]) \in Nat /\ Len(wrote[1]) \in Nat /\ Len(before) \in Nat /\ w \in Nat
          /\ before' = before
      <4>1. 0 \in Writes!Fds /\ 1 \in Writes!Fds
        BY WriteConstants
      <4>2. Len(before) \in Nat
        BY <1>8 DEF Writes!Old
      <4>3. \A q \in Writes!Fds : Len(wrote[q]) \in Nat
        BY <1>8
      <4>4. w \in Nat
        BY <1>4, <4>3 DEF w
      <4> QED
        BY <1>2, <4>1, <4>2, <4>3, <4>4
    <3>4. Len(text) = Len(before) + Len(wrote[0]) + Len(wrote[1])
      BY <2>1, <2>4 DEF AppendInv
    <3>5. /\ s = 0 => Len(wrote'[0]) = Len(wrote[0]) + 1 /\ wrote'[1] = wrote[1]
          /\ s = 1 => Len(wrote'[1]) = Len(wrote[1]) + 1 /\ wrote'[0] = wrote[0]
          /\ s = 0 \/ s = 1
      <4>1. 0 \in Writes!Fds /\ 1 \in Writes!Fds /\ (s = 0 \/ s = 1)
        BY <1>4, WriteConstants
      <4>2. wrote[s] \in Seq(1..Letters) /\ wrote'[s] = Append(wrote[s], l)
        BY <1>4, <1>8, <1>9, <2>4
      <4>3. Len(wrote'[s]) = Len(wrote[s]) + 1
        BY <1>4, <4>2, QueueAppend
      <4>4. \A q \in Writes!Fds \ {s} : wrote'[q] = wrote[q]
        BY <1>9
      <4>5. (s = 0 => 1 \in Writes!Fds \ {s}) /\ (s = 1 => 0 \in Writes!Fds \ {s})
        BY <4>1
      <4> QED
        BY <4>1, <4>3, <4>4, <4>5
    <3>6. /\ Len(text') = Len(before') + Len(wrote'[0]) + Len(wrote'[1])
          /\ Len(before) <= Len(text)
      <4> DEFINE b == Len(before)
                 v0 == Len(wrote[0])
                 v1 == Len(wrote[1])
                 n == Len(text)
                 x0 == Len(wrote'[0])
                 x1 == Len(wrote'[1])
                 x == Len(text')
      <4>1. /\ Len(before') = b /\ b \in Nat /\ v0 \in Nat /\ v1 \in Nat /\ n = b + v0 + v1
            /\ x = n + 1 /\ ((x0 = v0 + 1 /\ x1 = v1) \/ (x0 = v0 /\ x1 = v1 + 1))
        <5>1. (x0 = v0 + 1 /\ x1 = v1) \/ (x0 = v0 /\ x1 = v1 + 1)
          BY <3>5
        <5> QED
          BY <3>2, <3>3, <3>4, <5>1
      <4> HIDE DEF b, v0, v1, n, x0, x1, x
      <4>2. x = b + x0 + x1 /\ b <= n
        BY <4>1
      <4> QED
        BY <4>1, <4>2 DEF b, n, x0, x1, x
    <3>7. /\ \A q \in Writes!Fds : Len(wrote'[q]) = (IF q = s THEN w + 1 ELSE Len(wrote[q]))
          /\ \A q \in Writes!Fds : Len(wrote[q]) \in Nat
      <4>1. wrote[s] \in Seq(1..Letters) /\ wrote'[s] = Append(wrote[s], l)
        BY <1>4, <1>8, <1>9, <2>4
      <4>2. Len(wrote'[s]) = w + 1
        BY <1>4, <4>1, QueueAppend DEF w
      <4>3. \A q \in Writes!Fds \ {s} : wrote'[q] = wrote[q]
        BY <1>9
      <4>4. \A q \in Writes!Fds : Len(wrote[q]) \in Nat
        BY <1>8
      <4> QED
        BY <4>2, <4>3, <4>4
    <3>8. l = Letter(s, w + 1)
      BY <1>4, <2>4
    <3>9. Appended'
      <4>1. \A i \in 1..Len(before) : text'[i] = 0
        BY <1>11, <3>1, <3>2, <3>3, <3>6 DEF Appended
      <4>2. ASSUME NEW q \in Writes!Fds, NEW k \in 1..Len(wrote'[q])
            PROVE  \E j \in (Len(before) + 1)..Len(text') : text'[j] = Letter(q, k)
        <5>1. CASE k \in 1..Len(wrote[q])
          <6>1. PICK j \in (Len(before) + 1)..Len(text) : text[j] = Letter(q, k)
            BY <3>1, <5>1 DEF Appended
          <6>2. j \in (Len(before) + 1)..Len(text') /\ text'[j] = text[j]
            BY <1>11, <3>2, <3>3, <6>1
          <6> QED
            BY <6>1, <6>2
        <5>2. CASE q = s /\ k = w + 1
          <6>1. Len(text) + 1 \in (Len(before) + 1)..Len(text')
            BY <1>11, <3>2, <3>3, <3>6
          <6> QED
            BY <3>2, <3>8, <5>2, <6>1
        <5>3. k \in 1..Len(wrote[q]) \/ (q = s /\ k = w + 1)
          <6>1. q = s => Len(wrote[q]) = w
            BY DEF w
          <6> QED
            BY <3>3, <3>7, <6>1
        <5> QED
          BY <5>1, <5>2, <5>3
      <4>3. \A j \in 1..Len(text') : j \in 1..Len(text) \/ j = Len(text) + 1
        BY <1>11, <3>2
      <4>4. ASSUME NEW q \in Writes!Fds, NEW j \in 1..Len(text'), NEW k \in 1..Letters, text'[j] = Letter(q, k)
            PROVE  k <= Len(wrote'[q]) /\ (j = Len(text) + 1 => q = s /\ k = w + 1)
        <5>1. CASE j \in 1..Len(text)
          <6>1. k <= Len(wrote[q])
            BY <3>1, <3>2, <4>4, <5>1 DEF Appended
          <6>2. q = s => Len(wrote[q]) = w
            BY DEF w
          <6> QED
            BY <1>11, <3>3, <3>7, <5>1, <6>1, <6>2
        <5>2. CASE j = Len(text) + 1
          <6>1. Letter(s, w + 1) = Letter(q, k) /\ k \in Nat /\ w + 1 \in Nat
            BY <3>2, <3>3, <3>8, <4>4, <5>2
          <6>2. q = s
            <7>1. Letter(s, w + 1) # Letter(1 - s, k)
              BY <1>4, <6>1, LetterFacts
            <7>2. q = s \/ q = 1 - s
              BY <1>4, WriteConstants
            <7> QED
              BY <6>1, <7>1, <7>2
          <6>3. k = w + 1
            BY <1>4, <6>1, <6>2, LetterFacts
          <6> QED
            BY <3>3, <3>7, <6>2, <6>3
        <5> QED
          BY <4>3, <5>1, <5>2
      <4>5. ASSUME NEW q \in Writes!Fds, NEW i \in 1..Len(text'), NEW j \in 1..Len(text'),
                   NEW k \in 1..Letters, NEW m \in 1..Letters,
                   i < j, text'[i] = Letter(q, k), text'[j] = Letter(q, m)
            PROVE  k < m
        <5>1. i \in 1..Len(text)
          BY <1>11, <3>2, <4>5
        <5>2. CASE j \in 1..Len(text)
          BY <3>1, <3>2, <4>5, <5>1, <5>2 DEF Appended
        <5>3. CASE j = Len(text) + 1
          <6>1. q = s /\ m = w + 1
            BY <4>4, <4>5, <5>3
          <6>2. k <= Len(wrote[q])
            BY <3>1, <3>2, <4>5, <5>1 DEF Appended
          <6>3. Len(wrote[q]) = w
            BY <6>1 DEF w
          <6> QED
            BY <3>3, <6>1, <6>2, <6>3
        <5> QED
          BY <4>3, <5>2, <5>3
      <4> QED
        BY <1>6, <3>3, <4>1, <4>2, <4>4, <4>5 DEF Appended
    <3>10. AppendInv'
      <4>1. \A q \in Writes!Fds : wBuf'[q] = <<>>
        BY <2>1 DEF AppendInv
      <4>2. main' # "open"
        BY <1>2, <1>3
      <4> QED
        BY <1>2, <2>4, <3>6, <3>9, <4>1, <4>2 DEF AppendInv
    <3> QED
      BY <1>6, <1>13, <1>14, <1>15, <1>16, <1>18, <3>10 DEF WriteInv,
         ContentInv
  <2> QED
    BY <2>2, <2>3, <2>4
<1> QED
  BY <1>17, <1>18

\* With "w" twice the second stream overlays what the first has written.
LEMMA OverlaySecond ==
  ASSUME WriteTypes, LettersInv, StagesInv, StreamInv, main = "close1", prog = "3"
  PROVE  /\ Writes!Flushed(1) = wrote[1] \o (IF Letters % 2 = 0 THEN <<>> ELSE <<Letters>>)
         /\ Writes!Flushed(1) \in Seq(1..Letters) /\ Len(Writes!Flushed(1)) = Len(text)
<1>1. text = wrote[0] /\ wBuf[1] = wrote[1] /\ pos[1] = 0
  BY DEF StreamInv, StagesInv
<1>2. ~Writes!Threaded /\ Odd(0) /\ ~Odd(1) /\ ~Writes!Appends(1) /\ 0 \in Writes!Fds
      /\ 1 \in Writes!Fds /\ Letters \in Nat
  BY WriteConstants DEF Writes!Threaded, Odd, Writes!Appends, Writes!Stdio
<1> DEFINE h == Letters \div 2
           r == Letters % 2
           a == Len(wrote[0])
<1>3. a = (Letters + 1) \div 2 /\ Len(wrote[1]) = h
  BY <1>2, AllGiven DEF Closing
<1>4. h \in Nat /\ r \in {0, 1} /\ Letters = 2 * h + r /\ a = h + r
  BY <1>2, <1>3, Halves
<1>5. wrote[0] \in Seq(1..Letters) /\ wrote[1] \in Seq(1..Letters)
  BY <1>2 DEF WriteTypes
<1> DEFINE tail == IF r = 0 THEN <<>> ELSE <<Letters>>
<1>6. r = 1 => wrote[0][h + 1] = Letters
  <2> SUFFICES ASSUME r = 1 PROVE wrote[0][h + 1] = Letters
    OBVIOUS
  <2>1. h + 1 \in 1..a
    BY <1>4
  <2>2. wrote[0][h + 1] = Letter(0, h + 1)
    BY <1>2, <2>1 DEF LettersInv
  <2>3. Letter(0, h + 1) = 2 * (h + 1) - 1
    BY <1>2 DEF Letter
  <2> HIDE DEF h, r, a
  <2> QED
    BY <1>4, <2>2, <2>3
<1> HIDE DEF h, r, a
<1>7. Writes!Flushed(1) = [k \in 1..a |-> IF k <= h THEN wrote[1][k] ELSE wrote[0][k]]
  <2> DEFINE top == IF h > a THEN h ELSE a
  <2>1. Writes!Flushed(1) = [k \in 1..top |-> IF k > 0 /\ k <= h THEN wrote[1][k - 0] ELSE wrote[0][k]]
    <3>1. pos[1] + Len(wBuf[1]) = h /\ Len(text) = a
      BY <1>1, <1>3, <1>4 DEF a
    <3> QED
      BY <1>1, <1>2, <3>1 DEF Writes!Flushed
  <2>2. top = a
    BY <1>4
  <2>3. \A k \in 1..a : k > 0 /\ k - 0 = k
    OBVIOUS
  <2> QED
    BY <2>1, <2>2, <2>3
<1>8. tail \in Seq(1..Letters) /\ Len(tail) = r /\ (r = 1 => tail[1] = Letters)
  <2>1. CASE r = 0
    BY <2>1
  <2>2. CASE r = 1
    <3>1. Letters \in 1..Letters
      BY <1>4, <2>2
    <3> QED
      BY <2>2, <3>1
  <2> QED
    BY <1>4, <2>1, <2>2
<1> HIDE DEF tail
<1> DEFINE z == wrote[1] \o tail
<1>9. /\ z \in Seq(1..Letters) /\ Len(z) = h + r
      /\ \A k \in 1..(h + r) : z[k] = IF k <= h THEN wrote[1][k] ELSE tail[k - h]
  <2> DEFINE f == wrote[1]
  <2>1. f \in Seq(1..Letters) /\ Len(f) = h
    BY <1>3, <1>5
  <2> HIDE DEF f
  <2>2. /\ f \o tail \in Seq(1..Letters) /\ Len(f \o tail) = Len(f) + Len(tail)
        /\ \A k \in 1..(Len(f) + Len(tail)) :
               (f \o tail)[k] = IF k <= Len(f) THEN f[k] ELSE tail[k - Len(f)]
    BY <1>8, <2>1, QueueJoin
  <2>3. /\ f \o tail \in Seq(1..Letters) /\ Len(f \o tail) = h + r
        /\ \A k \in 1..(h + r) : (f \o tail)[k] = IF k <= h THEN f[k] ELSE tail[k - h]
    BY <1>8, <2>1, <2>2
  <2> QED
    BY <2>3 DEF f
<1>10. z = [k \in 1..a |-> z[k]]
  <2>1. Len(z) = a /\ z \in Seq(1..Letters)
    BY <1>4, <1>9
  <2> HIDE DEF z
  <2> QED
    BY <2>1
<1> HIDE DEF z
<1>11. ASSUME NEW k \in 1..a PROVE z[k] = IF k <= h THEN wrote[1][k] ELSE wrote[0][k]
  <2>1. CASE k <= h
    BY <1>4, <1>9, <2>1
  <2>2. CASE ~(k <= h)
    <3>1. r = 1 /\ k = h + 1 /\ k - h = 1
      BY <1>4, <2>2
    <3> QED
      BY <1>4, <1>6, <1>8, <1>9, <2>2, <3>1
  <2> QED
    BY <2>1, <2>2
<1>12. z = Writes!Flushed(1)
  BY <1>7, <1>10, <1>11
<1>13. Writes!Flushed(1) \in Seq(1..Letters) /\ Len(Writes!Flushed(1)) = Len(text)
  BY <1>1, <1>4, <1>9, <1>12 DEF a
<1> QED
  BY <1>12, <1>13 DEF z, tail, r

\* What the closes make of the file.
LEMMA CloseContent ==
  ASSUME WriteInv, NEW s \in Writes!Fds, Writes!Close(s)
  PROVE  /\ text' \in Seq(0..Letters) /\ Len(text') >= Len(text) /\ ContentInv'
         /\ pos[s] = 0 /\ Len(wBuf[s]) \in 0..Letters
<1>1. WriteTypes /\ LettersInv /\ StagesInv /\ SizesInv /\ ContentInv
  BY DEF WriteInv
<1>2. /\ main = (IF s = 0 THEN "close0" ELSE "close1")
      /\ main' = (IF s = 0 THEN "close1" ELSE "done")
      /\ text' = Writes!Flushed(s) /\ wBuf' = [wBuf EXCEPT ![s] = <<>>]
      /\ prog' = prog /\ exists' = exists /\ before' = before /\ wrote' = wrote
  BY DEF Writes!Close
<1>3. /\ wrote \in [Writes!Fds -> Seq(1..Letters)]
      /\ wBuf \in [Writes!Fds -> Seq(1..Letters)] /\ text \in Seq(0..Letters)
      /\ Letters \in Nat /\ 0 \in Writes!Fds /\ 1 \in Writes!Fds /\ (s = 0 \/ s = 1)
  BY <1>1, WriteConstants DEF WriteTypes
<1>4. pos[s] = 0
  BY <1>1, <1>2, <1>3 DEF StagesInv
<1>5. Writes!Stdio' = Writes!Stdio
  BY <1>2 DEF Writes!Stdio
<1>6. CASE ~Writes!Stdio
  <2>1. AppendInv
    BY <1>1, <1>6 DEF ContentInv
  <2>2. text' = text /\ wBuf[s] = <<>> /\ Len(wBuf[s]) = 0
    BY <1>1, <1>2, <1>6, <2>1, FlushNothing
  <2>3. wBuf' = wBuf
    BY <1>2, <1>3, <2>2
  <2>4. AppendInv'
    <3>1. main' # "open"
      BY <1>2
    <3> QED
      BY <1>2, <2>1, <2>2, <2>3, <3>1, AppendKept
  <2>5. Len(text) \in Nat /\ Len(wBuf[s]) \in 0..Letters
    BY <1>3, <2>2
  <2> QED
    BY <1>3, <1>4, <1>5, <1>6, <2>2, <2>4, <2>5 DEF ContentInv
<1>7. CASE Writes!Stdio
  <2>1. StreamInv /\ (prog = "3" \/ prog = "3_thread") /\ before = <<>>
    BY <1>1, <1>2, <1>7 DEF ContentInv, Writes!Stdio, StreamInv
  <2>2. Len(wrote[0]) + Len(wrote[1]) = Letters /\ Len(wrote[0]) \in Nat
        /\ Len(wrote[1]) \in Nat
    <3>1. main \in Closing
      BY <1>2 DEF Closing
    <3> QED
      BY <1>1, <1>3, <3>1, AllGiven
  <2>3. Len(wrote[0]) \in 0..Letters /\ Len(wrote[1]) \in 0..Letters
    BY <1>3, <2>2
  <2>4. Seq(1..Letters) \subseteq Seq(0..Letters)
    BY <1>3
  <2>5. CASE s = 0
    <3>1. text = <<>> /\ wBuf = wrote /\ ~Writes!Appends(0)
      BY <1>2, <1>7, <2>1, <2>5 DEF StreamInv, Writes!Appends
    <3>2. text' = wrote[0]
      BY <1>1, <1>2, <1>3, <1>4, <2>5, <3>1, FlushFirst
    <3>3. wBuf'[1] = wrote[1]
      BY <1>2, <1>3, <2>5, <3>1
    <3>4. StreamInv'
      BY <1>2, <2>1, <2>5, <3>2, <3>3 DEF StreamInv
    <3>5. text' \in Seq(0..Letters) /\ Len(text') \in Nat /\ Len(text) = 0
      BY <1>3, <2>2, <2>4, <3>1, <3>2
    <3> QED
      BY <1>4, <1>5, <1>7, <2>3, <2>5, <3>1, <3>4, <3>5 DEF ContentInv
  <2>6. CASE s = 1 /\ prog = "3"
    <3>1. main = "close1" /\ wBuf[1] = wrote[1]
      BY <1>2, <2>1, <2>6 DEF StreamInv
    <3>2. /\ text' = wrote[1] \o (IF Letters % 2 = 0 THEN <<>> ELSE <<Letters>>)
          /\ text' \in Seq(1..Letters) /\ Len(text') = Len(text)
      BY <1>1, <1>2, <2>1, <2>6, <3>1, OverlaySecond
    <3>3. StreamInv'
      <4>1. main' = "done" /\ main' \notin {"create", "loop", "join", "close0"}
            /\ main' # "close1"
        BY <1>2, <2>6
      <4>2. before' = <<>> /\ wrote'[1] = wrote[1] /\ prog' = "3"
        BY <1>2, <2>1, <2>6
      <4> QED
        BY <3>2, <4>1, <4>2, Zenon DEF StreamInv
    <3>4. Len(text) \in Nat /\ text' \in Seq(0..Letters)
      BY <1>3, <2>4, <3>2
    <3>5. Len(text') >= Len(text)
      <4>1. Len(text') = Len(text)
        BY <3>2
      <4> QED
        BY <3>4, <4>1
    <3>6. ContentInv'
      BY <1>5, <1>7, <3>3 DEF ContentInv
    <3> QED
      BY <1>4, <2>3, <2>6, <3>1, <3>4, <3>5, <3>6
  <2>7. CASE s = 1 /\ prog = "3_thread"
    <3>1. main = "close1" /\ wBuf[1] = wrote[1] /\ text = wrote[0] /\ Writes!Appends(1)
      BY <1>2, <2>1, <2>7 DEF StreamInv, Writes!Appends
    <3>2. text' = wrote[0] \o wrote[1]
      BY <1>2, <2>7, <3>1 DEF Writes!Flushed
    <3>3. StreamInv'
      <4>1. main' = "done" /\ main' \notin {"create", "loop", "join", "close0"}
            /\ main' # "close1"
        BY <1>2, <2>7
      <4>2. before' = <<>> /\ wrote' = wrote /\ prog' # "3"
        BY <1>2, <2>1, <2>7
      <4> QED
        BY <3>2, <4>1, <4>2, Zenon DEF StreamInv
    <3>4. text' \in Seq(1..Letters) /\ Len(text') = Len(wrote[0]) + Len(wrote[1])
      <4>1. wrote[0] \in Seq(1..Letters) /\ wrote[1] \in Seq(1..Letters)
        BY <1>3
      <4> QED
        BY <3>2, <4>1, QueueJoin
    <3>5. Len(text') = Letters /\ Len(text) <= Letters /\ text' \in Seq(0..Letters)
      <4>1. Len(text') = Letters
        BY <2>2, <3>4, Zenon
      <4>2. Len(text) <= Letters
        BY <2>3, <3>1
      <4> QED
        BY <2>4, <3>4, <4>1, <4>2
    <3>6. Len(text) \in Nat
      BY <1>3
    <3> QED
      BY <1>3, <1>4, <1>5, <1>7, <2>3, <2>7, <3>1, <3>3, <3>5, <3>6 DEF
         ContentInv
  <2> QED
    BY <1>3, <2>1, <2>5, <2>6, <2>7
<1> QED
  BY <1>6, <1>7

\* close, or fclose, with PRINT_STAT.
LEMMA WriteClose ==
  ASSUME WriteInv, NEW s \in Writes!Fds, Writes!Close(s)
  PROVE  WriteInv'
<1>1. WriteTypes /\ LettersInv /\ StagesInv /\ SizesInv
  BY DEF WriteInv
<1>2. /\ main = (IF s = 0 THEN "close0" ELSE "close1")
      /\ main' = (IF s = 0 THEN "close1" ELSE "done")
      /\ wBuf' = [wBuf EXCEPT ![s] = <<>>]
      /\ pos' = [pos EXCEPT ![s] = pos[s] + Len(wBuf[s])]
      /\ prog' = prog /\ exists' = exists /\ before' = before /\ wrote' = wrote /\ c' = c
      /\ wPc' = wPc
      /\ st' = st
  BY DEF Writes!Close, Writes!statVars
<1>3. /\ prog = "2_1_thread" => statbuf' = statbuf /\ shown' = shown
      /\ prog # "2_1_thread" => statbuf' = Len(text') /\ shown' = Len(text')
  BY DEF Writes!Close, Writes!statVars
<1>4. /\ text' \in Seq(0..Letters) /\ Len(text') >= Len(text) /\ ContentInv'
      /\ pos[s] = 0 /\ Len(wBuf[s]) \in 0..Letters
  BY CloseContent
<1>5. Len(text) \in Nat /\ Len(text') \in Nat
  BY <1>1, <1>4 DEF WriteTypes
<1>6. pos \in [Writes!Fds -> 0..Letters] /\ pos' \in [Writes!Fds -> 0..Letters]
      /\ \A q \in Writes!Fds \ {s} : pos'[q] = pos[q]
  <2>1. pos \in [Writes!Fds -> 0..Letters] /\ pos[s] + Len(wBuf[s]) \in 0..Letters
    BY <1>1, <1>4 DEF WriteTypes, Writes!TypeOK
  <2> QED
    BY <1>2, <2>1
<1>7. wBuf' \in [Writes!Fds -> Seq(1..Letters)]
  <2>1. <<>> \in Seq(1..Letters)
    OBVIOUS
  <2> QED
    BY <1>1, <1>2, <2>1 DEF WriteTypes
<1>8. /\ statbuf' \in Nat /\ shown' \in Nat /\ statbuf' <= Len(text')
      /\ shown' <= Len(text')
      /\ \A q \in Writes!Fds : st'[q] <= Len(text')
  <2>1. statbuf \in Nat /\ shown \in Nat /\ \A q \in Writes!Fds : st[q] \in Nat
    BY <1>1 DEF WriteTypes
  <2> QED
    BY <1>1, <1>2, <1>3, <1>4, <1>5, <2>1 DEF SizesInv
<1>9. WriteTypes'
  <2>1. Writes!TypeOK'
    BY <1>1, <1>2, <1>6 DEF WriteTypes, Writes!TypeOK, Writes!Over
  <2> QED
    BY <1>1, <1>2, <1>4, <1>7, <1>8, <2>1 DEF WriteTypes
<1>10. LettersInv'
  BY <1>1, <1>2 DEF LettersInv, Given, Letter, Odd, Writer, Writes!Threaded
<1>11. StagesInv'
  <2>1. Writes!Threaded' = Writes!Threaded /\ \A q : Writer(q)' = Writer(q)
    BY <1>2 DEF Writes!Threaded, Writer
  <2>2. main' # "open" /\ main \in Closing /\ main' \in {"close1", "done"}
        /\ main' \in Closing
    BY <1>2 DEF Closing
  <2>3. pos'[1] # 0 => main' = "done"
    <3>1. CASE s = 1
      BY <1>2, <3>1
    <3>2. CASE s # 1
      <4>1. pos'[1] = pos[1] /\ s = 0
        BY <1>6, <3>2, WriteConstants
      <4> QED
        BY <1>1, <1>2, <4>1 DEF StagesInv
    <3> QED
      BY <3>1, <3>2
  <2> QED
    BY <1>1, <1>2, <2>1, <2>2, <2>3 DEF StagesInv
<1>12. SizesInv'
  BY <1>2, <1>3, <1>8 DEF SizesInv
<1> QED
  BY <1>4, <1>9, <1>10, <1>11, <1>12 DEF WriteInv

\* Every step keeps it.
LEMMA WriteNext == WriteInv /\ [Writes!Next]_Writes!vars => WriteInv'
<1> SUFFICES ASSUME WriteInv, [Writes!Next]_Writes!vars PROVE WriteInv'
  OBVIOUS
<1> USE DEF Writes!statVars, Writes!disk
<1>1. WriteTypes /\ StagesInv
  BY DEF WriteInv
<1>2. wPc \in [Writes!Fds -> {"none", "loop", "stat", "store", "print", "done"}]
      /\ 0 \in Writes!Fds /\ 1 \in Writes!Fds
  BY <1>1, WriteConstants DEF WriteTypes, Writes!TypeOK
<1>3. ASSUME Writes!Create PROVE WriteInv'
  <2>1. PICK i \in Writes!Fds :
        /\ wPc[i] = "none" /\ (i = 1 => wPc[0] # "none")
        /\ \/ /\ wPc' = [wPc EXCEPT ![i] = "loop"] /\ main' = (IF i = 1 THEN "join" ELSE main)
              /\ text' = text /\ wBuf' = wBuf
           \/ /\ main' = "failed" /\ wPc' = wPc
              /\ text' = Writes!Flushed(0) /\ wBuf' = [wBuf EXCEPT ![0] = <<>>]
    BY <1>3 DEF Writes!Create
  <2>2. /\ main = "create" /\ prog' = prog /\ exists' = exists /\ before' = before /\ c' = c
        /\ pos' = pos /\ wrote' = wrote /\ st' = st /\ statbuf' = statbuf /\ shown' = shown
    BY <1>3 DEF Writes!Create
  <2>3. CASE main' = "failed" /\ wPc' = wPc /\ text' = Writes!Flushed(0)
             /\ wBuf' = [wBuf EXCEPT ![0] = <<>>]
    BY <2>2, <2>3, WriteFails
  <2>4. CASE /\ wPc' = [wPc EXCEPT ![i] = "loop"]
             /\ main' = (IF i = 1 THEN "join" ELSE main)
             /\ text' = text /\ wBuf' = wBuf
    <3>1. Writes!Threaded
      BY <1>1, <2>2 DEF StagesInv, Closing
    <3>2. \/ main' = main /\ main # "open" /\ main \notin Closing
          \/ main = "create" /\ main' = "join"
      BY <2>2, <2>4 DEF Closing
    <3> QED
      BY <2>2, <2>4, <3>1, <3>2, WriteQuietly
  <2> QED
    BY <2>1, <2>3, <2>4
<1>4. ASSUME Writes!Join PROVE WriteInv'
  <2>1. main = "join" /\ main' = "close0" /\ \A q \in Writes!Fds : wPc[q] = "done"
    BY <1>4 DEF Writes!Join
  <2>2. /\ prog' = prog /\ exists' = exists /\ text' = text /\ before' = before /\ c' = c
        /\ pos' = pos
        /\ wBuf' = wBuf /\ wrote' = wrote /\ st' = st /\ statbuf' = statbuf
        /\ shown' = shown /\ wPc' = wPc
    BY <1>4 DEF Writes!Join
  <2>3. wPc' = [wPc EXCEPT ![0] = "done"] /\ c[0] = Letters + 1
    BY <1>1, <1>2, <2>1, <2>2 DEF StagesInv
  <2> QED
    BY <1>2, <2>1, <2>2, <2>3, WriteQuietly
<1>5. ASSUME NEW p \in Writes!Fds, Writes!Stat(p) \/ Writes!StatStore(p) \/ Writes!StatPrint(p) PROVE WriteInv'
  <2>1. /\ Writes!Running(p) /\ wPc[p] # "none" /\ wPc[p] # "done" /\ main' = main
        /\ prog' = prog /\ exists' = exists /\ text' = text /\ before' = before /\ c' = c
        /\ pos' = pos
        /\ wBuf' = wBuf /\ wrote' = wrote
        /\ st' = st \/ st' = [st EXCEPT ![p] = Len(text)]
        /\ statbuf' = statbuf \/ statbuf' = st[p]
        /\ shown' = shown \/ shown' = statbuf
    BY <1>5 DEF Writes!Stat, Writes!StatStore, Writes!StatPrint
  <2>2. PICK at \in {"loop", "store", "print"} : wPc' = [wPc EXCEPT ![p] = at]
    <3>1. (IF exists THEN "store" ELSE "print") \in {"loop", "store", "print"}
      OBVIOUS
    <3> QED
      BY <1>5, <3>1 DEF Writes!Stat, Writes!StatStore, Writes!StatPrint
  <2>3. main \in {"create", "loop", "join"} /\ (~Writes!Threaded => p = 0 /\ main = "loop")
    BY <1>1, <2>1, WriterRuns
  <2>4. main # "open" /\ main \notin Closing /\ main # "done"
    BY <2>3 DEF Closing
  <2> QED
    BY <2>1, <2>2, <2>3, <2>4, WriteQuietly
<1>6. ASSUME NEW p \in Writes!Fds, Writes!LoopEnds(p) PROVE WriteInv'
  <2>1. /\ Writes!Running(p) /\ wPc[p] = "loop" /\ c[p] > Letters
        /\ wPc' = [wPc EXCEPT ![p] = "done"]
        /\ main' = (IF Writes!Threaded THEN main ELSE "close0")
        /\ prog' = prog /\ exists' = exists /\ text' = text /\ before' = before /\ c' = c
        /\ pos' = pos
        /\ wBuf' = wBuf /\ wrote' = wrote /\ st' = st /\ statbuf' = statbuf
        /\ shown' = shown
    BY <1>6 DEF Writes!LoopEnds
  <2>2. main \in {"create", "loop", "join"} /\ (~Writes!Threaded => p = 0 /\ main = "loop")
    BY <1>1, <2>1, WriterRuns
  <2>3. c[p] = Letters + 1
    BY <1>1, <2>1, WriteConstants DEF WriteTypes, Writes!TypeOK
  <2>4. main # "open" /\ main \notin Closing /\ main # "done"
    BY <2>2 DEF Closing
  <2> QED
    BY <2>1, <2>2, <2>3, <2>4, WriteQuietly
<1>7. CASE UNCHANGED Writes!vars
  <2>1. /\ prog' = prog /\ exists' = exists /\ text' = text /\ before' = before
        /\ main' = main /\ wPc' = wPc
        /\ c' = c /\ pos' = pos /\ wBuf' = wBuf /\ wrote' = wrote
        /\ st' = st /\ statbuf' = statbuf /\ shown' = shown
    BY <1>7 DEF Writes!vars
  <2>2. Writes!TypeOK' /\ StagesInv' /\ SizesInv'
    BY <2>1 DEF WriteInv, WriteTypes, Writes!TypeOK, StagesInv, SizesInv,
       Writes!Threaded, Writer
  <2>3. st' \in [Writes!Fds -> Nat] /\ statbuf' \in Nat /\ shown' \in Nat
    BY <1>1, <2>1 DEF WriteTypes
  <2> QED
    BY <2>1, <2>2, <2>3, QuietWrite
<1> QED
  BY <1>3, <1>4, <1>5, <1>6, <1>7, WriteOpen, WritePuts, WriteClose DEF
     Writes!Next

\* What the k-th letter of a descriptor is.
LEMMA WroteLetters ==
  ASSUME WriteTypes, LettersInv, NEW s \in Writes!Fds, NEW k \in 1..Len(wrote[s])
  PROVE  wrote[s][k] = Letter(s, k) /\ Letter(s, k) \in 1..Letters /\ k \in 1..Letters
<1>1. wrote[s] \in Seq(1..Letters) /\ Len(wrote[s]) \in Nat /\ Letters \in Nat
  BY WriteConstants DEF WriteTypes
<1>2. wrote[s][k] = Letter(s, k) /\ wrote[s][k] \in 1..Letters
  BY <1>1 DEF LettersInv
<1>3. k \in Nat /\ k >= 1
  BY <1>1
<1>4. Letter(s, k) >= k
  BY <1>3 DEF Letter
<1> QED
  BY <1>1, <1>2, <1>3, <1>4

\* What q.txt held when it was opened stays in front.
LEMMA WriteBefore == WriteInv => SubSeq(text, 1, Len(before)) = before
<1> SUFFICES ASSUME WriteInv PROVE SubSeq(text, 1, Len(before)) = before
  OBVIOUS
<1>1. ContentInv /\ text \in Seq(0..Letters) /\ before \in {<<>>, Writes!Old}
      /\ Len(text) \in Nat
  BY DEF WriteInv, WriteTypes
<1>2. CASE before = <<>>
  <2>1. Len(before) = 0
    BY <1>2
  <2>2. SubSeq(text, 1, 0) = <<>>
    BY <1>1
  <2> QED
    BY <1>2, <2>1, <2>2
<1>3. CASE before = Writes!Old
  <2>1. Len(before) = 1 /\ before # <<>> /\ before[1] = 0 /\ before \in Seq(Nat)
    BY <1>3 DEF Writes!Old
  <2>2. CASE before = text
    <3>1. SubSeq(before, 1, 1) = before
      BY <2>1
    <3> QED
      BY <2>1, <2>2, <3>1
  <2>3. CASE before # text
    <3>1. ~Writes!Stdio
      BY <1>1, <2>1, <2>3 DEF ContentInv, StreamInv
    <3>2. exists /\ Appended /\ Len(text) = Len(before) + Len(wrote[0]) + Len(wrote[1])
      BY <1>1, <2>1, <3>1 DEF ContentInv, AppendInv
    <3>3. Len(wrote[0]) \in Nat /\ Len(wrote[1]) \in Nat
      BY WriteConstants DEF WriteInv, WriteTypes
    <3>4. Len(text) >= 1
      <4>1. \A i, j \in Nat : 1 + i + j >= 1
        OBVIOUS
      <4> QED
        BY <2>1, <3>2, <3>3, <4>1, Zenon
    <3>5. text[1] = 0
      <4>1. \A i \in 1..Len(before) : text[i] = 0
        BY <3>2 DEF Appended
      <4>2. Len(before) = 1 /\ 1 \in 1..1
        BY <2>1
      <4> QED
        BY <4>1, <4>2, Zenon
    <3>6. SubSeq(text, 1, 1) = <<text[1]>>
      BY <1>1, <3>4, FirstOnly
    <3> QED
      BY <1>3, <2>1, <3>5, <3>6 DEF Writes!Old
  <2> QED
    BY <2>2, <2>3
<1> QED
  BY <1>1, <1>2, <1>3

\* All letters, and in their order: O_APPEND.
LEMMA AppendsAll ==
  ASSUME WriteInv, ~Writes!Stdio, main = "done", exists
  PROVE  /\ Len(text) = Len(before) + Letters
         /\ \A l \in 1..Letters : \E j \in (Len(before) + 1)..Len(text) : text[j] = l
         /\ \A s \in Writes!Fds : Writes!Ordered(s)
<1>1. WriteTypes /\ LettersInv /\ StagesInv /\ AppendInv /\ Appended /\ main \in Closing
  BY DEF WriteInv, ContentInv, AppendInv, Closing
<1>2. /\ Len(wrote[0]) + Len(wrote[1]) = Letters
      /\ \A l \in 1..Letters : \E s \in Writes!Fds : \E k \in 1..Len(wrote[s]) : Letter(s, k) = l
  BY <1>1, AllGiven
<1>3. Len(text) = Len(before) + Letters
  <2>1. Len(wrote[0]) \in Nat /\ Len(wrote[1]) \in Nat /\ Len(before) \in Nat
    <3>1. Len(before) \in Nat
      BY <1>1 DEF WriteTypes, Writes!Old
    <3> QED
      BY <1>1, <3>1, WriteConstants DEF WriteTypes
  <2>2. \A i, j, k \in Nat : i + j + k = i + (j + k)
    OBVIOUS
  <2>3. Len(before) + Len(wrote[0]) + Len(wrote[1]) = Len(before) + (Len(wrote[0]) + Len(wrote[1]))
    BY <2>1, <2>2, Zenon
  <2>4. Len(text) = Len(before) + Len(wrote[0]) + Len(wrote[1])
    BY <1>1 DEF AppendInv
  <2> QED
    BY <1>2, <2>3, <2>4, Zenon
<1>4. ASSUME NEW l \in 1..Letters PROVE \E j \in (Len(before) + 1)..Len(text) : text[j] = l
  <2>0. PICK s \in Writes!Fds : \E k \in 1..Len(wrote[s]) : Letter(s, k) = l
    BY <1>2
  <2>1. PICK k \in 1..Len(wrote[s]) : Letter(s, k) = l
    BY <2>0
  <2> QED
    BY <1>1, <2>1 DEF Appended
<1>5. ASSUME NEW s \in Writes!Fds, NEW i \in 1..Len(text), NEW j \in 1..Len(text),
             NEW k \in 1..Len(wrote[s]), NEW l \in 1..Len(wrote[s]),
             i < j, text[i] = wrote[s][k], text[j] = wrote[s][l]
      PROVE  k < l
  <2>1. wrote[s][k] = Letter(s, k) /\ k \in 1..Letters /\ wrote[s][l] = Letter(s, l)
        /\ l \in 1..Letters
    BY <1>1, WroteLetters
  <2> QED
    BY <1>1, <1>5, <2>1 DEF Appended
<1> QED
  BY <1>3, <1>4, <1>5 DEF Writes!Ordered

\* All letters, and in their order: "w" and "a".
LEMMA StreamsAll ==
  ASSUME WriteInv, prog = "3_thread", main = "done"
  PROVE  /\ Len(text) = Len(before) + Letters
         /\ \A l \in 1..Letters : \E j \in (Len(before) + 1)..Len(text) : text[j] = l
         /\ \A s \in Writes!Fds : Writes!Ordered(s)
<1>1. WriteTypes /\ LettersInv /\ StagesInv /\ StreamInv /\ main \in Closing
  BY DEF WriteInv, ContentInv, Writes!Stdio, Closing
<1>2. /\ Len(wrote[0]) + Len(wrote[1]) = Letters
      /\ \A l \in 1..Letters : \E s \in Writes!Fds : \E k \in 1..Len(wrote[s]) : Letter(s, k) = l
  BY <1>1, AllGiven
<1> DEFINE f == wrote[0]
           g == wrote[1]
           a == Len(f)
           b == Len(g)
<1>3. text = f \o g /\ before = <<>> /\ Len(before) = 0
  BY <1>1 DEF StreamInv
<1>4. f \in Seq(1..Letters) /\ g \in Seq(1..Letters) /\ a \in Nat /\ b \in Nat
      /\ Letters \in Nat
  BY <1>1, WriteConstants DEF WriteTypes
<1>5. a + b = Letters /\ Len(text) = a + b
  <2>1. a + b = Letters
    BY <1>2
  <2> HIDE DEF f, g
  <2>2. Len(text) = a + b
    BY <1>3, <1>4, QueueJoin
  <2> QED
    BY <2>1, <2>2
<1>6. \A k \in 1..(a + b) : text[k] = IF k <= a THEN f[k] ELSE g[k - a]
  <2> HIDE DEF f, g
  <2> QED
    BY <1>3, <1>4, QueueJoin
<1>7. \A s \in Writes!Fds : s = 0 \/ s = 1
  BY WriteConstants
<1>8. /\ \A k \in 1..a : f[k] = Letter(0, k) /\ k \in 1..Letters
      /\ \A k \in 1..b : g[k] = Letter(1, k) /\ k \in 1..Letters
  BY <1>1, WroteLetters, WriteConstants
<1> HIDE DEF f, g, a, b
<1>9. ASSUME NEW j \in 1..(a + b) 
      PROVE  (j \in 1..a /\ text[j] = Letter(0, j)) \/ (j - a \in 1..b /\ text[j] = Letter(1, j - a))
  <2>1. CASE j <= a
    <3>1. j \in 1..a /\ text[j] = f[j]
      BY <1>4, <1>6, <2>1
    <3> QED
      BY <1>8, <3>1
  <2>2. CASE ~(j <= a)
    <3>1. j - a \in 1..b
      BY <1>4, <2>2
    <3> QED
      BY <1>4, <1>6, <1>8, <2>2, <3>1
  <2> QED
    BY <2>1, <2>2
<1>10. Len(text) = Len(before) + Letters
  BY <1>3, <1>4, <1>5
<1>11. ASSUME NEW l \in 1..Letters PROVE \E j \in (Len(before) + 1)..Len(text) : text[j] = l
  <2>0. PICK s \in Writes!Fds : \E k \in 1..Len(wrote[s]) : Letter(s, k) = l
    BY <1>2
  <2>1. PICK k \in 1..Len(wrote[s]) : Letter(s, k) = l
    BY <2>0
  <2>2. (Len(before) + 1)..Len(text) = 1..(a + b)
    BY <1>3, <1>5
  <2>3. CASE s = 0
    <3>1. k \in 1..a
      BY <2>1, <2>3 DEF a, f
    <3>2. k \in 1..(a + b) /\ text[k] = f[k]
      BY <1>4, <1>6, <3>1
    <3> QED
      BY <1>8, <2>1, <2>2, <2>3, <3>1, <3>2
  <2>4. CASE s = 1
    <3>1. k \in 1..b
      BY <2>1, <2>4 DEF b, g
    <3>2. k + a \in 1..(a + b) /\ ~(k + a <= a) /\ (k + a) - a = k
      BY <1>4, <3>1
    <3>3. text[k + a] = g[k]
      BY <1>6, <3>2
    <3> QED
      BY <1>8, <2>1, <2>2, <2>4, <3>1, <3>2, <3>3
  <2> QED
    BY <1>7, <2>3, <2>4
<1>12. ASSUME NEW s \in Writes!Fds, NEW i \in 1..Len(text), NEW j \in 1..Len(text),
              NEW k \in 1..Len(wrote[s]), NEW l \in 1..Len(wrote[s]),
              i < j, text[i] = wrote[s][k], text[j] = wrote[s][l]
       PROVE  k < l
  <2>1. text[i] = Letter(s, k) /\ text[j] = Letter(s, l) /\ k \in Nat /\ l \in Nat
    <3>1. k \in 1..Letters /\ l \in 1..Letters
      BY <1>1, WroteLetters
    <3> QED
      BY <1>1, <1>12, <3>1, WroteLetters
  <2>2. i \in 1..(a + b) /\ j \in 1..(a + b) /\ 0 \in Writes!Fds /\ 1 \in Writes!Fds
        /\ 1 - 0 = 1 /\ 1 - 1 = 0
    BY <1>5, WriteConstants
  <2>3. \A n, m \in Nat : Letter(0, n) # Letter(1, m)
    <3>1. \A n, m \in Nat : Letter(0, n) # Letter(1 - 0, m)
      BY <2>2, LetterFacts
    <3> QED
      BY <2>2, <3>1
  <2>4. \A n, m \in Nat : Letter(s, n) = Letter(s, m) => n = m
    BY LetterFacts
  <2>5. CASE s = 0
    <3>1. ASSUME NEW n \in 1..(a + b), NEW m \in Nat, text[n] = Letter(0, m) PROVE n = m
      <4>1. n \in Nat
        BY <1>4
      <4>2. CASE n - a \in 1..b /\ text[n] = Letter(1, n - a)
        BY <2>3, <3>1, <4>2
      <4> QED
        BY <1>9, <2>4, <2>5, <3>1, <4>1, <4>2
    <3>2. i = k /\ j = l
      BY <2>1, <2>2, <2>5, <3>1
    <3> QED
      BY <1>12, <3>2
  <2>6. CASE s = 1
    <3>1. ASSUME NEW n \in 1..(a + b), NEW m \in Nat, text[n] = Letter(1, m) PROVE n - a = m
      <4>1. CASE n \in 1..a /\ text[n] = Letter(0, n)
        BY <2>3, <3>1, <4>1
      <4>2. CASE n - a \in 1..b /\ text[n] = Letter(1, n - a)
        <5>1. n - a \in Nat
          BY <4>2
        <5> QED
          BY <2>4, <2>6, <3>1, <4>2, <5>1
      <4> QED
        BY <1>9, <4>1, <4>2
    <3>2. i - a = k /\ j - a = l
      BY <2>1, <2>2, <2>6, <3>1
    <3> QED
      BY <1>4, <1>12, <3>2
  <2> QED
    BY <1>7, <2>5, <2>6
<1> QED
  BY <1>10, <1>11, <1>12 DEF Writes!Ordered

\* The invariant says what the files keep.
LEMMA WriteImplies == WriteInv => Writes!KeepsEveryLetter
<1> SUFFICES ASSUME WriteInv PROVE Writes!KeepsEveryLetter
  OBVIOUS
<1>1. Writes!TypeOK /\ shown <= Len(text)
      /\ (main = "done" /\ prog # "2_1_thread" => shown = Len(text))
  BY DEF WriteInv, WriteTypes, SizesInv
<1>2. Writes!Stdio => StreamInv
  BY DEF WriteInv, ContentInv
<1>3. Writes!Stdio /\ main \in {"create", "loop", "join"} => text = <<>>
  BY <1>2 DEF StreamInv
<1>4. ASSUME main = "done", exists, prog # "3"
      PROVE  /\ Len(text) = Len(before) + Letters
             /\ \A l \in 1..Letters : \E j \in (Len(before) + 1)..Len(text) : text[j] = l
             /\ \A s \in Writes!Fds : Writes!Ordered(s)
  <2>1. ~Writes!Stdio \/ prog = "3_thread"
    BY <1>4 DEF Writes!Stdio
  <2>2. CASE ~Writes!Stdio
    BY <1>4, <2>2, AppendsAll
  <2>3. CASE prog = "3_thread"
    BY <1>4, <2>3, StreamsAll
  <2> QED
    BY <2>1, <2>2, <2>3
<1>5. ASSUME main = "done", prog = "3"
      PROVE  text = wrote[1] \o (IF Letters % 2 = 0 THEN <<>> ELSE <<Letters>>)
  <2>1. Writes!Stdio
    BY <1>5 DEF Writes!Stdio
  <2> QED
    BY <1>2, <1>5, <2>1, Zenon DEF StreamInv
<1> QED
  BY <1>1, <1>3, <1>4, <1>5, WriteBefore, Zenon DEF Writes!KeepsEveryLetter

(* The inductive invariant of the programs that write. *)
THEOREM WriteInvariant == AllSpec => []WriteInv
<1>1. AllInit => Writes!Init
  BY DEF AllInit
<1>2. [AllNext]_allVars => [Writes!Next]_Writes!vars
  BY DEF AllNext, EpollStep, DgramStep, ReceiveStep, PairedStep, ReadStep, WriteStep, allVars,
         writeVars, Writes!vars, Writes!disk, Writes!statVars
<1> QED
  BY <1>1, <1>2, WriteInit, WriteNext, PTL DEF AllSpec

(* For every length of the alphabet, whatever the two threads do: with      *)
(* O_APPEND, and with "a" for the stream closed last, the file ends with    *)
(* every letter once behind what it held, those of a descriptor in order;   *)
(* with "w" twice (3.c) the second stream's letters are over the first's.   *)
(* Nothing of a stream is in the file before a close, and no size printed   *)
(* is larger than the file.                                                 *)
THEOREM WriteKeeps == AllSpec => []KeepsEveryLetter
<1>1. WriteInv => KeepsEveryLetter
  BY WriteImplies DEF KeepsEveryLetter
<1> QED
  BY <1>1, WriteInvariant, PTL

-----------------------------------------------------------------------------
(* The paired sockets.                                                      *)

ParentPlaces == {"socketpair", "fork", "read", "print received", "write", "print sent",
                 "close", "waitpid", "exit", "killed"}
ChildPlaces == {"none", "close", "write", "print sent", "read", "print received", "exit", "killed"}

(* what is printed *)
Words == {"sent", "received", "garbage", "exit", "killed"}

PairTypes ==
    /\ parent \in ParentPlaces /\ child \in ChildPlaces
    /\ ends \in [Paired!Procs -> SUBSET {0, 1}]
    /\ toParent \in BOOLEAN /\ toChild \in BOOLEAN
    /\ pairBuf \in [Paired!Procs -> BOOLEAN]
    /\ pairOut \in Seq({"parent", "child"} \X Words)

(* the parent has both ends until it closes them, and what it prints it has *)
(* received                                                                 *)
ParentInv ==
    /\ parent \in {"fork", "read", "print received", "write", "print sent"}
         => ends["parent"] = {0, 1}
    /\ parent = "close" => 1 \in ends["parent"]
    /\ parent = "print received" => pairBuf["parent"]
    /\ parent \in {"write", "print sent", "close", "waitpid"}
         => <<"parent", "received">> \in Paired!Printed

(* the parent's message waits until the child has read it, and only a       *)
(* parent that was killed has not sent it when its ends are closed          *)
ChildInv ==
    /\ parent \in {"socketpair", "fork"} => child = "none"
    /\ parent = "exit" => child \in {"none", "exit", "killed"}
    /\ child \in {"close", "write", "print sent", "read"} =>
           (parent \in {"print sent", "close", "waitpid"} => toChild)
    /\ child = "print received" => pairBuf["child"] \/ parent = "killed"
    /\ child = "exit" => <<"child", "received">> \in Paired!Printed \/ parent = "killed"

PairInv == PairTypes /\ ParentInv /\ ChildInv /\ Paired!Exchanged

\* Printing adds one line.
LEMMA PairPrints ==
  ASSUME PairTypes, NEW who \in {"parent", "child"}, NEW what \in Words, Paired!Prints(who, what)
  PROVE  /\ pairOut' \in Seq({"parent", "child"} \X Words)
         /\ Paired!Printed' = Paired!Printed \cup {<<who, what>>}
<1> DEFINE T == {"parent", "child"} \X Words
           line == <<who, what>>
<1>1. pairOut \in Seq(T) /\ line \in T /\ pairOut' = Append(pairOut, line)
  BY DEF PairTypes, Paired!Prints
<1>2. Paired!Printed = {pairOut[i] : i \in DOMAIN pairOut}
      /\ Paired!Printed' = {pairOut'[i] : i \in DOMAIN pairOut'}
  BY DEF Paired!Printed
<1> HIDE DEF T, line
<1>3. /\ pairOut' \in Seq(T) /\ Len(pairOut') = Len(pairOut) + 1 /\ Len(pairOut) \in Nat
      /\ \A i \in 1..Len(pairOut) : pairOut'[i] = pairOut[i]
      /\ pairOut'[Len(pairOut) + 1] = line
  BY <1>1, AppendProperties
<1>4. DOMAIN pairOut = 1..Len(pairOut) /\ DOMAIN pairOut' = 1..(Len(pairOut) + 1)
  BY <1>1, <1>3
<1>5. ASSUME NEW i \in 1..(Len(pairOut) + 1)
      PROVE  i \in 1..Len(pairOut) \/ i = Len(pairOut) + 1
  BY <1>3
<1>6. Len(pairOut) + 1 \in 1..(Len(pairOut) + 1) /\ 1..Len(pairOut) \subseteq 1..(Len(pairOut) + 1)
  BY <1>3
<1>7. Paired!Printed' = Paired!Printed \cup {line}
  BY <1>2, <1>3, <1>4, <1>5, <1>6
<1> QED
  BY <1>3, <1>7 DEF T, line

\* A line that was printed stays.
LEMMA PairKeeps ==
  ASSUME PairTypes, UNCHANGED pairOut
  PROVE  Paired!Printed' = Paired!Printed /\ pairOut' \in Seq({"parent", "child"} \X Words)
  BY DEF PairTypes, Paired!Printed

\* A line that was received, or printed while one of them is killed.
LEMMA PairSays ==
  ASSUME Paired!Exchanged, NEW who, NEW what, Paired!Printed' = Paired!Printed \cup {<<who, what>>},
         what = "garbage" => "killed" \in {parent', child'},
         "killed" \in {parent, child} => "killed" \in {parent', child'},
         who = "parent" /\ what = "exit" =>
             {<<"parent", "received">>, <<"child", "received">>} \subseteq Paired!Printed
  PROVE  Paired!Exchanged'
<1>1. ASSUME NEW line \in Paired!Printed', line[2] = "garbage" PROVE "killed" \in {parent', child'}
  <2>1. CASE line \in Paired!Printed
    BY <1>1, <2>1 DEF Paired!Exchanged
  <2>2. CASE line = <<who, what>>
    BY <1>1, <2>2
  <2> QED
    BY <1>1, <2>1, <2>2
<1>2. ASSUME <<"parent", "exit">> \in Paired!Printed'
      PROVE  {<<"parent", "received">>, <<"child", "received">>} \subseteq Paired!Printed'
  <2>1. CASE <<"parent", "exit">> \in Paired!Printed
    BY <2>1 DEF Paired!Exchanged
  <2>2. CASE <<"parent", "exit">> = <<who, what>>
    BY <2>2
  <2> QED
    BY <1>2, <2>1, <2>2
<1> QED
  BY <1>1, <1>2 DEF Paired!Exchanged

\* Every step of the parent, of the child and of who kills them.
LEMMA PairNext == PairInv /\ [Paired!Next]_Paired!vars => PairInv'
<1> SUFFICES ASSUME PairInv, [Paired!Next]_Paired!vars PROVE PairInv'
  OBVIOUS
<1> USE DEF Paired!Procs, ParentPlaces, ChildPlaces
<1>1. PairTypes /\ ParentInv /\ ChildInv /\ Paired!Exchanged
  BY DEF PairInv
<1> DEFINE Lines == Seq({"parent", "child"} \X Words)
<1>2. UNCHANGED pairOut => Paired!Printed' = Paired!Printed /\ pairOut' \in Lines
  BY <1>1, PairKeeps
<1>3. ASSUME NEW who \in {"parent", "child"}, NEW what \in Words, Paired!Prints(who, what)
      PROVE  pairOut' \in Lines /\ Paired!Printed' = Paired!Printed \cup {<<who, what>>}
  BY <1>1, <1>3, PairPrints
<1> HIDE DEF Lines
<1>4. CASE UNCHANGED Paired!vars
  <2>1. UNCHANGED pairOut
    BY <1>4 DEF Paired!vars
  <2>2. pairOut' \in Lines /\ Paired!Printed' = Paired!Printed
    BY <1>2, <2>1
  <2>3. PairTypes'
    BY <1>1, <1>4, <2>2 DEF Paired!vars, PairTypes, Lines
  <2>4. ParentInv'
    BY <1>1, <1>4, <2>2 DEF Paired!vars, PairTypes, ParentInv
  <2>5. ChildInv'
    BY <1>1, <1>4, <2>2 DEF Paired!vars, PairTypes, ParentInv, ChildInv
  <2>6. Paired!Exchanged'
    BY <1>1, <1>4, <2>2 DEF Paired!vars, PairTypes, ParentInv, ChildInv, Paired!Exchanged
  <2> QED
    BY <2>3, <2>4, <2>5, <2>6 DEF PairInv
<1>5. CASE Paired!Socketpair
  BY <1>1, <1>2, <1>5
     DEF Paired!Socketpair, PairInv, PairTypes, ParentInv, ChildInv, Paired!Exchanged, Lines
<1>6. CASE Paired!Fork
  <2>1. UNCHANGED pairOut
    BY <1>6 DEF Paired!Fork, Paired!Closes
  <2>2. pairOut' \in Lines /\ Paired!Printed' = Paired!Printed
    BY <1>2, <2>1
  <2>3. PairTypes'
    BY <1>1, <1>6, <2>2 DEF Paired!Fork, Paired!Closes, PairTypes, Lines
  <2>4. ParentInv'
    BY <1>1, <1>6, <2>2 DEF Paired!Fork, Paired!Closes, PairTypes, ParentInv
  <2>5. ChildInv'
    BY <1>1, <1>6, <2>2 DEF Paired!Fork, Paired!Closes, PairTypes, ParentInv, ChildInv
  <2>6. Paired!Exchanged'
    BY <1>1, <1>6, <2>2 DEF Paired!Fork, Paired!Closes, PairTypes, ParentInv, ChildInv, Paired!Exchanged
  <2> QED
    BY <2>3, <2>4, <2>5, <2>6 DEF PairInv
<1>7. CASE Paired!ChildClose
  BY <1>1, <1>2, <1>7
     DEF Paired!ChildClose, Paired!Closes, PairInv, PairTypes, ParentInv, ChildInv, Paired!Exchanged, Lines
<1>8. CASE Paired!ChildWrite
  <2>1. UNCHANGED pairOut
    BY <1>8 DEF Paired!ChildWrite, Paired!Closes
  <2>2. pairOut' \in Lines /\ Paired!Printed' = Paired!Printed
    BY <1>2, <2>1
  <2>3. PairTypes'
    BY <1>1, <1>8, <2>2 DEF Paired!ChildWrite, Paired!Closes, PairTypes, Lines
  <2>4. ParentInv'
    BY <1>1, <1>8, <2>2 DEF Paired!ChildWrite, Paired!Closes, PairTypes, ParentInv
  <2>5. ChildInv'
    BY <1>1, <1>8, <2>2 DEF Paired!ChildWrite, Paired!Closes, PairTypes, ParentInv, ChildInv
  <2>6. Paired!Exchanged'
    BY <1>1, <1>8, <2>2 DEF Paired!ChildWrite, Paired!Closes, PairTypes, ParentInv, ChildInv, Paired!Exchanged
  <2> QED
    BY <2>3, <2>4, <2>5, <2>6 DEF PairInv
<1>9. CASE Paired!ChildPrintsSent
  <2> DEFINE what == "sent"
  <2>1. Paired!Prints("child", what) /\ what \in Words /\ UNCHANGED <<toParent, toChild, pairBuf>>
    BY <1>1, <1>9 DEF Paired!ChildPrintsSent, PairTypes, Words
  <2>2. pairOut' \in Lines /\ Paired!Printed' = Paired!Printed \cup {<<"child", what>>}
    BY <1>3, <2>1
  <2>3. PairTypes'
    BY <1>1, <1>9, <2>2 DEF Paired!ChildPrintsSent, PairTypes, Lines
  <2>4. ParentInv'
    BY <1>1, <1>9, <2>2 DEF Paired!ChildPrintsSent, PairTypes, ParentInv
  <2>5. ChildInv'
    BY <1>1, <1>9, <2>2 DEF Paired!ChildPrintsSent, PairTypes, ParentInv, ChildInv
  <2>6. Paired!Exchanged'
    <3>1. /\ what = "garbage" => "killed" \in {parent', child'}
          /\ "killed" \in {parent, child} => "killed" \in {parent', child'}
      BY <1>1, <1>9 DEF Paired!ChildPrintsSent, PairTypes, ParentInv, ChildInv
    <3>2. what = "exit" => {<<"parent", "received">>, <<"child", "received">>} \subseteq Paired!Printed
      BY <1>1, <1>9 DEF Paired!ChildPrintsSent, PairTypes, ParentInv, ChildInv
    <3> HIDE DEF what
    <3> QED
      BY <1>1, <2>2, <3>1, <3>2, PairSays
  <2> QED
    BY <2>3, <2>4, <2>5, <2>6 DEF PairInv
<1>10. CASE Paired!ChildRead
  <2>1. toChild \/ parent = "killed"
    BY <1>1, <1>10 DEF Paired!ChildRead, Paired!Held, PairTypes, ParentInv, ChildInv
  <2> QED
    BY <1>1, <1>2, <1>10, <2>1
       DEF Paired!ChildRead, PairInv, PairTypes, ParentInv, ChildInv, Paired!Exchanged, Lines
<1>11. CASE Paired!ChildPrintsReceived
  <2> DEFINE what == IF pairBuf["child"] THEN "received" ELSE "garbage"
  <2>1. Paired!Prints("child", what) /\ what \in Words /\ UNCHANGED <<toParent, toChild, pairBuf>>
    BY <1>1, <1>11 DEF Paired!ChildPrintsReceived, PairTypes, Words
  <2>2. pairOut' \in Lines /\ Paired!Printed' = Paired!Printed \cup {<<"child", what>>}
    BY <1>3, <2>1
  <2>3. PairTypes'
    BY <1>1, <1>11, <2>2 DEF Paired!ChildPrintsReceived, Paired!Closes, PairTypes, Lines
  <2>4. ParentInv'
    BY <1>1, <1>11, <2>2 DEF Paired!ChildPrintsReceived, Paired!Closes, PairTypes, ParentInv
  <2>5. ChildInv'
    BY <1>1, <1>11, <2>2 DEF Paired!ChildPrintsReceived, Paired!Closes, PairTypes, ParentInv, ChildInv
  <2>6. Paired!Exchanged'
    <3>1. /\ what = "garbage" => "killed" \in {parent', child'}
          /\ "killed" \in {parent, child} => "killed" \in {parent', child'}
      BY <1>1, <1>11 DEF Paired!ChildPrintsReceived, Paired!Closes, PairTypes, ParentInv, ChildInv
    <3>2. what = "exit" => {<<"parent", "received">>, <<"child", "received">>} \subseteq Paired!Printed
      BY <1>1, <1>11 DEF Paired!ChildPrintsReceived, Paired!Closes, PairTypes, ParentInv, ChildInv
    <3> HIDE DEF what
    <3> QED
      BY <1>1, <2>2, <3>1, <3>2, PairSays
  <2> QED
    BY <2>3, <2>4, <2>5, <2>6 DEF PairInv
<1>12. CASE Paired!ParentRead
  <2>1. toParent
    BY <1>1, <1>12 DEF Paired!ParentRead, Paired!Held, PairTypes, ParentInv
  <2> QED
    BY <1>1, <1>2, <1>12, <2>1
       DEF Paired!ParentRead, PairInv, PairTypes, ParentInv, ChildInv, Paired!Exchanged, Lines
<1>13. CASE Paired!ParentPrintsReceived
  <2> DEFINE what == IF pairBuf["parent"] THEN "received" ELSE "garbage"
  <2>1. Paired!Prints("parent", what) /\ what \in Words /\ UNCHANGED <<toParent, toChild, pairBuf>>
    BY <1>1, <1>13 DEF Paired!ParentPrintsReceived, PairTypes, Words
  <2>2. pairOut' \in Lines /\ Paired!Printed' = Paired!Printed \cup {<<"parent", what>>}
    BY <1>3, <2>1
  <2>3. PairTypes'
    BY <1>1, <1>13, <2>2 DEF Paired!ParentPrintsReceived, PairTypes, Lines
  <2>4. ParentInv'
    BY <1>1, <1>13, <2>2 DEF Paired!ParentPrintsReceived, PairTypes, ParentInv
  <2>5. ChildInv'
    BY <1>1, <1>13, <2>2 DEF Paired!ParentPrintsReceived, PairTypes, ParentInv, ChildInv
  <2>6. Paired!Exchanged'
    <3>1. /\ what = "garbage" => "killed" \in {parent', child'}
          /\ "killed" \in {parent, child} => "killed" \in {parent', child'}
      BY <1>1, <1>13 DEF Paired!ParentPrintsReceived, PairTypes, ParentInv, ChildInv
    <3>2. what = "exit" => {<<"parent", "received">>, <<"child", "received">>} \subseteq Paired!Printed
      BY <1>1, <1>13 DEF Paired!ParentPrintsReceived, PairTypes, ParentInv, ChildInv
    <3> HIDE DEF what
    <3> QED
      BY <1>1, <2>2, <3>1, <3>2, PairSays
  <2> QED
    BY <2>3, <2>4, <2>5, <2>6 DEF PairInv
<1>14. CASE Paired!ParentWrite
  BY <1>1, <1>2, <1>14
     DEF Paired!ParentWrite, PairInv, PairTypes, ParentInv, ChildInv, Paired!Exchanged, Lines
<1>15. CASE Paired!ParentPrintsSent
  <2> DEFINE what == "sent"
  <2>1. Paired!Prints("parent", what) /\ what \in Words /\ UNCHANGED <<toParent, toChild, pairBuf>>
    BY <1>1, <1>15 DEF Paired!ParentPrintsSent, PairTypes, Words
  <2>2. pairOut' \in Lines /\ Paired!Printed' = Paired!Printed \cup {<<"parent", what>>}
    BY <1>3, <2>1
  <2>3. PairTypes'
    BY <1>1, <1>15, <2>2 DEF Paired!ParentPrintsSent, PairTypes, Lines
  <2>4. ParentInv'
    BY <1>1, <1>15, <2>2 DEF Paired!ParentPrintsSent, PairTypes, ParentInv
  <2>5. ChildInv'
    BY <1>1, <1>15, <2>2 DEF Paired!ParentPrintsSent, PairTypes, ParentInv, ChildInv
  <2>6. Paired!Exchanged'
    <3>1. /\ what = "garbage" => "killed" \in {parent', child'}
          /\ "killed" \in {parent, child} => "killed" \in {parent', child'}
      BY <1>1, <1>15 DEF Paired!ParentPrintsSent, PairTypes, ParentInv, ChildInv
    <3>2. what = "exit" => {<<"parent", "received">>, <<"child", "received">>} \subseteq Paired!Printed
      BY <1>1, <1>15 DEF Paired!ParentPrintsSent, PairTypes, ParentInv, ChildInv
    <3> HIDE DEF what
    <3> QED
      BY <1>1, <2>2, <3>1, <3>2, PairSays
  <2> QED
    BY <2>3, <2>4, <2>5, <2>6 DEF PairInv
<1>16. CASE Paired!ParentClose
  <2>1. UNCHANGED pairOut
    BY <1>16 DEF Paired!ParentClose, Paired!Closes
  <2>2. pairOut' \in Lines /\ Paired!Printed' = Paired!Printed
    BY <1>2, <2>1
  <2>3. PairTypes'
    BY <1>1, <1>16, <2>2 DEF Paired!ParentClose, Paired!Closes, PairTypes, Lines
  <2>4. ParentInv'
    <3>1. parent' = "close" => ends'["parent"] = ends["parent"] \ {0}
      BY <1>1, <1>16 DEF Paired!ParentClose, Paired!Closes, PairTypes
    <3>2. parent' \in {"close", "waitpid"} /\ parent = "close"
      BY <1>16 DEF Paired!ParentClose
    <3>3. 1 \in ends["parent"] /\ <<"parent", "received">> \in Paired!Printed
      BY <1>1, <3>2 DEF ParentInv
    <3>4. parent' = "close" => 1 \in ends'["parent"]
      BY <3>1, <3>3
    <3> QED
      BY <2>2, <3>2, <3>3, <3>4 DEF ParentInv
  <2>5. ChildInv'
    BY <1>1, <1>16, <2>2 DEF Paired!ParentClose, Paired!Closes, PairTypes, ParentInv, ChildInv
  <2>6. Paired!Exchanged'
    BY <1>1, <1>16, <2>2 DEF Paired!ParentClose, Paired!Closes, PairTypes, ParentInv, ChildInv, Paired!Exchanged
  <2> QED
    BY <2>3, <2>4, <2>5, <2>6 DEF PairInv
<1>17. CASE Paired!Waitpid
  <2> DEFINE what == child
  <2>1. Paired!Prints("parent", what) /\ what \in Words /\ UNCHANGED <<toParent, toChild, pairBuf>>
    BY <1>1, <1>17 DEF Paired!Waitpid, PairTypes, Words
  <2>2. pairOut' \in Lines /\ Paired!Printed' = Paired!Printed \cup {<<"parent", what>>}
    BY <1>3, <2>1
  <2>3. PairTypes'
    BY <1>1, <1>17, <2>2 DEF Paired!Waitpid, PairTypes, Lines
  <2>4. ParentInv'
    BY <1>1, <1>17, <2>2 DEF Paired!Waitpid, PairTypes, ParentInv
  <2>5. ChildInv'
    BY <1>1, <1>17, <2>2 DEF Paired!Waitpid, PairTypes, ParentInv, ChildInv
  <2>6. Paired!Exchanged'
    <3>1. /\ what = "garbage" => "killed" \in {parent', child'}
          /\ "killed" \in {parent, child} => "killed" \in {parent', child'}
      BY <1>1, <1>17 DEF Paired!Waitpid, PairTypes, ParentInv, ChildInv
    <3>2. what = "exit" => {<<"parent", "received">>, <<"child", "received">>} \subseteq Paired!Printed
      BY <1>1, <1>17 DEF Paired!Waitpid, PairTypes, ParentInv, ChildInv
    <3> HIDE DEF what
    <3> QED
      BY <1>1, <2>2, <3>1, <3>2, PairSays
  <2> QED
    BY <2>3, <2>4, <2>5, <2>6 DEF PairInv
<1>18. CASE Paired!KillChild
  BY <1>1, <1>2, <1>18
     DEF Paired!KillChild, Paired!Closes, PairInv, PairTypes, ParentInv, ChildInv,
         Paired!Exchanged, Lines
<1>19. CASE Paired!KillParent
  BY <1>1, <1>2, <1>19
     DEF Paired!KillParent, Paired!Closes, PairInv, PairTypes, ParentInv, ChildInv,
         Paired!Exchanged, Lines
<1> QED
  BY <1>4, <1>5, <1>6, <1>7, <1>8, <1>9, <1>10, <1>11, <1>12, <1>13, <1>14, <1>15, <1>16, <1>17,
     <1>18, <1>19 DEF Paired!Next, Paired!Parent, Paired!Child

\* Nothing is printed before socketpair.
LEMMA PairInit == Paired!Init => PairInv
<1> SUFFICES ASSUME Paired!Init PROVE PairInv
  OBVIOUS
<1>1. Paired!Printed = {} /\ pairOut \in Seq({"parent", "child"} \X Words)
  BY DEF Paired!Init, Paired!Printed
<1> QED
  BY <1>1 DEF Paired!Init, PairInv, PairTypes, ParentInv, ChildInv, Paired!Exchanged,
              Paired!Procs, ParentPlaces, ChildPlaces

(* The inductive invariant of the paired sockets. *)
THEOREM PairInvariant == AllSpec => []PairInv
<1>1. AllInit => Paired!Init
  BY DEF AllInit
<1>2. [AllNext]_allVars => [Paired!Next]_Paired!vars
  BY DEF AllNext, EpollStep, DgramStep, ReceiveStep, PairedStep, ReadStep, WriteStep, allVars,
         pairVars, Paired!vars
<1> QED
  BY <1>1, <1>2, PairInit, PairNext, PTL DEF AllSpec

(* The safety half of ExchangeAndEnd, whoever is killed and whenever: who   *)
(* prints a message has received it unless the other was killed, and when   *)
(* the parent reports that the child has exited both have been received.    *)
THEOREM PairExchange == AllSpec => []Paired!Exchanged
<1>1. PairInv => Paired!Exchanged
  BY DEF PairInv
<1> QED
  BY <1>1, PairInvariant, PTL
=============================================================================
