-------------------------- MODULE ThreadPoolProofs --------------------------
(***************************************************************************)
(* PoolAlive holds of every pool, for any number of threads and of clients *)
(* that start, join and free it as PoolNext allows: no assertion of the    *)
(* pool fails, a worker finds its arguments in a living frame, every       *)
(* RThread is counted exactly, and a join leaves no worker behind.         *)
(***************************************************************************)
EXTENDS ThreadPool, FiniteSetTheorems, TLAPS

-----------------------------------------------------------------------------
(* Lists without duplicates. *)

\* A list of members of T, each at most once.
IsList(T, s) == s \in Seq(T) /\ IsInjective(s)

\* r_slist_prepend
LEMMA Prepended ==
  ASSUME NEW T, NEW s, IsList(T, s), NEW h \in T, h \notin ToSet(s)
  PROVE  IsList(T, <<h>> \o s) /\ ToSet(<<h>> \o s) = ToSet(s) \cup {h}
<1> USE DEF IsList
<1> DEFINE d == <<h>> \o s
<1>1. d \in Seq(T) /\ Len(d) = Len(s) + 1 /\ d[1] = h
  OBVIOUS
<1>2. \A i \in 1 .. Len(s) : d[i + 1] = s[i]
  OBVIOUS
<1>3. \A i \in DOMAIN d : i = 1 \/ (i - 1 \in DOMAIN s /\ d[i] = s[i - 1])
  BY <1>1, <1>2
<1>4. Len(s) \in Nat /\ DOMAIN s = 1 .. Len(s) /\ DOMAIN d = 1 .. Len(s) + 1
  BY <1>1
<1>5. \A i \in DOMAIN s : s[i] # h
  BY DEF ToSet
<1> HIDE DEF d
<1>6. ToSet(d) \subseteq ToSet(s) \cup {h}
  BY <1>1, <1>3 DEF ToSet
<1>7. ToSet(s) \cup {h} \subseteq ToSet(d)
  <2>1. h \in ToSet(d)
    BY <1>1, <1>4 DEF ToSet
  <2>2. ASSUME NEW i \in DOMAIN s PROVE s[i] \in ToSet(d)
    BY <1>2, <1>4, i + 1 \in DOMAIN d DEF ToSet
  <2> QED BY <2>1, <2>2 DEF ToSet
<1>8. IsInjective(d)
  BY <1>1, <1>3, <1>4, <1>5 DEF IsInjective
<1> QED BY <1>1, <1>6, <1>7, <1>8 DEF d

\* r_slist_remove of a member
LEMMA Removed ==
  ASSUME NEW T, NEW s, IsList(T, s), NEW h \in ToSet(s)
  PROVE  IsList(T, RemoveFirst(s, h)) /\ ToSet(RemoveFirst(s, h)) = ToSet(s) \ {h}
<1> USE DEF IsList
<1>1. PICK n \in DOMAIN s : s[n] = h
  BY DEF ToSet
<1>2. Len(s) \in Nat /\ DOMAIN s = 1 .. Len(s)
  OBVIOUS
<1>3. \A i \in DOMAIN s : s[i] = h => i = n
  BY <1>1 DEF IsInjective
<1>0. n \in 1 .. Len(s) /\ Len(s) \in Nat
  BY <1>2
<1> DEFINE a == SubSeq(s, 1, n - 1)
           b == SubSeq(s, n + 1, Len(s))
           d == a \o b
           e(i) == IF i < n THEN i ELSE i + 1
<1>4. RemoveFirst(s, h) = d
  <2> DEFINE I == {i \in 1 .. Len(s) : s[i] = h}
  <2>1. I = {n}
    BY <1>1, <1>2, <1>3
  <2>2. Min(I) = n
    <3>1. ASSUME NEW x \in {n}, \A y \in {n} : x <= y PROVE x = n
      OBVIOUS
    <3>2. n <= n
      BY <1>2
    <3> QED BY <2>1, <3>1, <3>2 DEF Min
  <2> QED BY <1>1, <1>2, <2>1, <2>2, ZenonT(30) DEF RemoveFirst, SelectInSeq, RemoveAt
<1>5. /\ a \in Seq(T) /\ Len(a) = n - 1 /\ \A i \in 1 .. n - 1 : a[i] = s[i]
      /\ b \in Seq(T) /\ Len(b) = Len(s) - n /\ \A i \in 1 .. Len(s) - n : b[i] = s[n + i]
  <2>1. a \in Seq(T) /\ b \in Seq(T)
    BY <1>0
  <2>2. Len(a) = n - 1
    BY <1>0
  <2>3. Len(b) = Len(s) - n
    BY <1>0
  <2>4. \A i \in 1 .. n - 1 : a[i] = s[i]
    BY <1>0
  <2>5. ASSUME NEW i \in 1 .. Len(s) - n PROVE b[i] = s[n + i]
    BY <1>0
  <2> QED BY <2>1, <2>2, <2>3, <2>4, <2>5
<1> HIDE DEF a, b
<1>6. d \in Seq(T) /\ DOMAIN d = 1 .. Len(s) - 1
  BY <1>0, <1>5
<1>7. ASSUME NEW i \in 1 .. Len(s) - 1 PROVE d[i] = s[e(i)] /\ e(i) \in DOMAIN s /\ e(i) # n
  <2>1. CASE i < n
    BY <1>0, <1>2, <1>5, <2>1
  <2>2. CASE i >= n
    <3> DEFINE k == i - (n - 1)
    <3>1. Len(a) = n - 1 /\ Len(b) = Len(s) - n /\ a \in Seq(T) /\ b \in Seq(T)
      BY <1>5
    <3>2. k \in 1 .. Len(s) - n /\ n + k = i + 1
      BY <1>0, <2>2
    <3>3. i = Len(a) + k
      BY <1>0, <3>1
    <3> HIDE DEF k
    <3>4. d[Len(a) + k] = b[k]
      BY <3>1, <3>2
    <3>5. b[k] = s[i + 1]
      BY <1>5, <3>2
    <3> HIDE DEF d
    <3>6. i + 1 \in DOMAIN s /\ i + 1 # n /\ e(i) = i + 1
      BY <1>0, <1>2, <2>2
    <3> QED BY <3>3, <3>4, <3>5, <3>6
  <2>3. i < n \/ i >= n
    BY <1>0
  <2> HIDE DEF d, e
  <2> QED BY <2>1, <2>2, <2>3
<1> HIDE DEF d
<1>8. \A i \in DOMAIN s : i # n => \E j \in 1 .. Len(s) - 1 : d[j] = s[i]
  <2> TAKE i \in DOMAIN s
  <2> HAVE i # n
  <2>1. CASE i < n
    BY <2>1, <1>0, <1>2, <1>7, i \in 1 .. Len(s) - 1
  <2>2. CASE i > n
    <3>1. i - 1 \in 1 .. Len(s) - 1 /\ e(i - 1) = i
      BY <2>2, <1>0, <1>2
    <3>2. d[i - 1] = s[e(i - 1)]
      BY <3>1, <1>7
    <3> QED BY <3>1, <3>2
  <2> QED BY <2>1, <2>2, <1>0, <1>2
<1>11. \A i, j \in 1 .. Len(s) - 1 : e(i) = e(j) => i = j
  BY <1>0
<1> HIDE DEF e
<1>9. IsInjective(d)
  BY <1>6, <1>7, <1>11 DEF IsInjective
<1>10. ToSet(d) = ToSet(s) \ {h}
  <2>1. ToSet(d) \subseteq ToSet(s) \ {h}
    BY <1>1, <1>3, <1>6, <1>7 DEF ToSet
  <2>2. ToSet(s) \ {h} \subseteq ToSet(d)
    BY <1>1, <1>6, <1>8 DEF ToSet
  <2> QED BY <2>1, <2>2
<1> QED BY <1>4, <1>6, <1>9, <1>10

\* What a copy made by prepending holds.
LEMMA Reversed ==
  ASSUME NEW T, NEW s, IsList(T, s)
  PROVE  IsList(T, Reverse(s)) /\ ToSet(Reverse(s)) = ToSet(s)
<1> USE DEF IsList
<1>1. Len(s) \in Nat /\ DOMAIN s = 1 .. Len(s)
  OBVIOUS
<1>2. Reverse(s) \in Seq(T) /\ DOMAIN Reverse(s) = DOMAIN s
  BY <1>1 DEF Reverse
<1>3. \A i \in DOMAIN s : /\ (Len(s) - i) + 1 \in DOMAIN s
                          /\ Reverse(s)[i] = s[(Len(s) - i) + 1]
                          /\ Reverse(s)[(Len(s) - i) + 1] = s[i]
  BY <1>1 DEF Reverse
<1>4. \A i, j \in DOMAIN s : (Len(s) - i) + 1 = (Len(s) - j) + 1 => i = j
  BY <1>1
<1>5. IsInjective(Reverse(s))
  BY <1>2, <1>3, <1>4 DEF IsInjective
<1>6. ToSet(Reverse(s)) \subseteq ToSet(s)
  BY <1>2, <1>3, ZenonT(30) DEF ToSet
<1>7. ASSUME NEW i \in DOMAIN s PROVE s[i] \in ToSet(Reverse(s))
  <2> DEFINE k == (Len(s) - i) + 1
  <2>1. k \in DOMAIN Reverse(s) /\ Reverse(s)[k] = s[i]
    BY <1>2, <1>3
  <2> HIDE DEF k
  <2> QED BY <2>1 DEF ToSet
<1> QED BY <1>2, <1>5, <1>6, <1>7, ZenonT(30) DEF ToSet

\* Two lists of different members, one after the other.
LEMMA Joined ==
  ASSUME NEW T, NEW a, NEW b, IsList(T, a), IsList(T, b), ToSet(a) \cap ToSet(b) = {}
  PROVE  IsList(T, a \o b) /\ ToSet(a \o b) = ToSet(a) \cup ToSet(b)
<1> USE DEF IsList
<1> DEFINE d == a \o b
<1>1. d \in Seq(T) /\ Len(d) = Len(a) + Len(b) /\ DOMAIN d = 1 .. Len(d)
  OBVIOUS
<1>2. Len(a) \in Nat /\ DOMAIN a = 1 .. Len(a) /\ Len(b) \in Nat /\ DOMAIN b = 1 .. Len(b)
  OBVIOUS
<1>3. \A i \in DOMAIN a : i \in DOMAIN d /\ d[i] = a[i]
  OBVIOUS
<1>4. \A i \in DOMAIN b : Len(a) + i \in DOMAIN d /\ d[Len(a) + i] = b[i]
  OBVIOUS
<1>5. \A i \in DOMAIN d : \/ i \in DOMAIN a
                          \/ i \notin DOMAIN a /\ i - Len(a) \in DOMAIN b /\ d[i] = b[i - Len(a)]
  BY <1>1, <1>2
<1> HIDE DEF d
<1>6. \A i \in DOMAIN a, j \in DOMAIN b : a[i] # b[j]
  BY DEF ToSet
<1>7. IsInjective(d)
  <2> SUFFICES ASSUME NEW i \in DOMAIN d, NEW j \in DOMAIN d, d[i] = d[j] PROVE i = j
    BY DEF IsInjective
  <2>1. CASE i \in DOMAIN a /\ j \in DOMAIN a
    BY <2>1, <1>3 DEF IsInjective
  <2>2. CASE i \notin DOMAIN a /\ j \notin DOMAIN a
    BY <2>2, <1>1, <1>2, <1>5 DEF IsInjective
  <2>3. CASE (i \in DOMAIN a) # (j \in DOMAIN a)
    BY <2>3, <1>3, <1>5, <1>6
  <2> QED BY <2>1, <2>2, <2>3
<1>8. ToSet(d) = ToSet(a) \cup ToSet(b)
  <2>1. ToSet(d) \subseteq ToSet(a) \cup ToSet(b)
    BY <1>3, <1>5 DEF ToSet
  <2>2. ToSet(a) \cup ToSet(b) \subseteq ToSet(d)
    BY <1>3, <1>4 DEF ToSet
  <2> QED BY <2>1, <2>2
<1> QED BY <1>1, <1>7, <1>8 DEF d

\* The rest of a list that is worked off from its head.
LEMMA HeadTaken ==
  ASSUME NEW T, NEW s, IsList(T, s), s # <<>>
  PROVE  /\ IsList(T, Tail(s)) /\ ToSet(Tail(s)) = ToSet(s) \ {Head(s)}
         /\ Head(s) \in ToSet(s) /\ Head(s) \in T
<1> USE DEF IsList
<1> DEFINE d == Tail(s)
<1>1. Len(s) \in Nat \ {0} /\ DOMAIN s = 1 .. Len(s) /\ Head(s) = s[1]
  OBVIOUS
<1>2. d \in Seq(T) /\ DOMAIN d = 1 .. Len(s) - 1 /\ \A i \in DOMAIN d : d[i] = s[i + 1]
  OBVIOUS
<1> HIDE DEF d
<1>3. IsInjective(d)
  BY <1>1, <1>2 DEF IsInjective
<1>4. \A i \in DOMAIN s : i = 1 \/ (i - 1 \in DOMAIN d /\ d[i - 1] = s[i])
  BY <1>1, <1>2
<1>5. \A i \in DOMAIN d : i + 1 \in DOMAIN s /\ s[i + 1] # s[1]
  BY <1>1, <1>2 DEF IsInjective
<1>6. ToSet(d) = ToSet(s) \ {s[1]}
  <2>1. ToSet(d) \subseteq ToSet(s) \ {s[1]}
    BY <1>2, <1>5 DEF ToSet
  <2>2. ToSet(s) \ {s[1]} \subseteq ToSet(d)
    BY <1>4 DEF ToSet
  <2> QED BY <2>1, <2>2
<1>7. s[1] \in ToSet(s) /\ s[1] \in T
  BY <1>1 DEF ToSet
<1> QED BY <1>1, <1>2, <1>3, <1>6, <1>7 DEF d

\* Joined, for lists of the pool's threads.
LEMMA ThreadsJoined ==
  ASSUME NEW a, NEW b, IsList(Threads, a), IsList(Threads, b), ToSet(a) \cap ToSet(b) = {}
  PROVE  IsList(Threads, a \o b) /\ ToSet(a \o b) = ToSet(a) \cup ToSet(b)
BY Joined, ZenonT(90)

-----------------------------------------------------------------------------
(* The inductive invariant. *)

\* The shape of the state; the counts are integers here, and natural because
\* they are exact.
PoolType ==
  /\ thr \in [Threads -> {"none", "born", "proxy", "func", "ended", "exited"}]
  /\ refs \in [Threads -> Int]
  /\ joined \in [Threads -> BOOLEAN]
  /\ waiting \in Threads \cup {NoThread}
  /\ IsList(Threads, active) /\ IsList(Threads, done)
  /\ pc \in [Clients -> {"idle", "start", "join"}]
  /\ cur \in [Clients -> Threads \cup {NoThread}]
  /\ DOMAIN copy = Clients /\ \A c \in Clients : IsList(Threads, copy[c])
  /\ phase \in {"open", "joined", "freed"}

\* A worker is announced until it has entered the pool, active until its
\* function has returned, and in the list of the ended ones from then on.
Placed ==
  \A t \in Threads :
    /\ waiting = t <=> thr[t] \in {"born", "proxy"}
    /\ t \in ToSet(active) <=> thr[t] = "func"
    /\ t \in ToSet(done) <=> (thr[t] \in {"ended", "exited"} /\ phase # "freed")

\* Whoever starts a worker is alone, and waits for the worker announced.
Starting ==
  /\ waiting # NoThread => \E c \in Clients : pc[c] = "start" /\ cur[c] = waiting
  /\ \A c, d \in Clients : pc[c] = "start" /\ d # c => pc[d] = "idle"

\* The copy of a joining client has every worker that is still there; it is
\* empty when no join is in progress.
Joining ==
  /\ \A c \in Clients, t \in Threads : t \in ToSet(copy[c]) => thr[t] \notin {"none", "born", "proxy"}
  /\ \A c \in Clients, t \in Threads :
       pc[c] = "join" /\ thr[t] \notin {"none", "exited"} => t \in ToSet(copy[c])
  /\ \A c \in Clients : pc[c] # "join" => copy[c] = <<>>
  /\ \A t \in Threads : joined[t] => thr[t] = "exited"
  /\ phase = "freed" => AllIdle
  /\ JoinWaitsForAll

\* The references of the pool and of the trampoline to a thread.
Held(t) == (IF t = waiting \/ t \in ToSet(active) \/ t \in ToSet(done) THEN 1 ELSE 0)
           + (IF InTrampoline(t) THEN 1 ELSE 0)
Counted == \A t \in Threads : refs[t] = Cardinality(Copies(t)) + Held(t)

PoolInv == PoolType /\ NoAbort /\ Placed /\ Starting /\ Joining

\* No step breaks it.
LEMMA PoolStep ==
  ASSUME PoolInv, [PoolNext]_poolVars
  PROVE  PoolInv'
<1> USE ThreadPoolAssumption DEF PoolInv, NoAbort
<1>1. ASSUME NEW c \in Clients, NEW t \in Threads, phase = "open", AllIdle,
             r_thread_pool_start_thread_internal(c, t)
      PROVE  PoolInv'
  <2>1. waiting = NoThread
    BY <1>1 DEF Starting, AllIdle, PoolType
  <2>2. /\ thr[t] = "none" /\ thr' = [thr EXCEPT ![t] = "born"] /\ refs' = [refs EXCEPT ![t] = 2]
        /\ waiting' = t /\ pc' = [pc EXCEPT ![c] = "start"] /\ cur' = [cur EXCEPT ![c] = t]
        /\ UNCHANGED <<joined, active, done, copy, phase, aborted>>
    BY <1>1, <2>1 DEF r_thread_pool_start_thread_internal, r_thread_new
  <2>3. PoolType'
    BY <2>2 DEF PoolType
  <2>4. Placed'
    BY <2>1, <2>2 DEF Placed, PoolType
  <2>5. Starting'
    BY <1>1, <2>2 DEF Starting, PoolType, AllIdle
  <2>6. Joining'
    BY <1>1, <2>2 DEF Joining, PoolType, AllIdle, JoinWaitsForAll
  <2> QED BY <2>2, <2>3, <2>4, <2>5, <2>6
<1>2. ASSUME NEW c \in Clients, StartWake(c) PROVE PoolInv'
  <2>1. /\ pc[c] = "start"
        /\ \/ UNCHANGED <<pc, cur>>
           \/ waiting = NoThread /\ pc' = [pc EXCEPT ![c] = "idle"] /\ cur' = [cur EXCEPT ![c] = NoThread]
        /\ UNCHANGED <<thr, refs, joined, waiting, active, done, copy, phase, aborted>>
    BY <1>2 DEF StartWake
  <2>2. PoolType' /\ Placed'
    BY <2>1 DEF PoolType, Placed
  <2>3. Starting'
    BY <2>1 DEF Starting, PoolType
  <2>4. Joining'
    BY <2>1 DEF Joining, PoolType, AllIdle, JoinWaitsForAll
  <2> QED BY <2>1, <2>2, <2>3, <2>4
<1>3. ASSUME NEW c \in Clients, \A d \in Clients : pc[d] # "start", r_thread_pool_join(c) PROVE PoolInv'
  <2> DEFINE new == Reverse(done) \o Reverse(active)
  <2>1. /\ phase # "freed" /\ pc[c] = "idle" /\ copy' = [copy EXCEPT ![c] = new]
        /\ refs' = [t \in Threads |-> refs[t] + IF t \in ToSet(active \o done) THEN 1 ELSE 0]
        /\ pc' = [pc EXCEPT ![c] = "join"]
        /\ UNCHANGED <<thr, joined, waiting, active, done, cur, phase, aborted>>
    BY <1>3 DEF r_thread_pool_join, Live
  <2>2. IsList(Threads, new) /\ ToSet(new) = ToSet(done) \cup ToSet(active)
    <3>1. /\ IsList(Threads, Reverse(done)) /\ ToSet(Reverse(done)) = ToSet(done)
          /\ IsList(Threads, Reverse(active)) /\ ToSet(Reverse(active)) = ToSet(active)
      BY Reversed DEF PoolType
    <3>2. ToSet(done) \cap ToSet(active) = {}
      <4>1. ToSet(done) \subseteq Threads
        BY DEF PoolType, IsList, ToSet
      <4> QED BY <4>1 DEF Placed
    <3> HIDE DEF new
    <3> QED BY <3>1, <3>2, ThreadsJoined DEF new
  <2> HIDE DEF new
  <2>3. waiting = NoThread
    BY <1>3 DEF Starting
  <2>4. PoolType'
    BY <2>1, <2>2 DEF PoolType
  <2>5. Placed' /\ Starting'
    BY <1>3, <2>1, <2>3 DEF Placed, Starting, PoolType
  <2>6. ASSUME NEW t \in Threads PROVE t \in ToSet(new) <=> thr[t] \in {"func", "ended", "exited"}
    BY <2>1, <2>2 DEF Placed
  <2>7. \A t \in Threads : thr[t] \notin {"born", "proxy"}
    BY <2>3 DEF Placed, PoolType
  <2>8. \A d \in Clients : copy'[d] = IF d = c THEN new ELSE copy[d]
    BY <2>1 DEF PoolType
  <2>9. \A d \in Clients : pc'[d] = IF d = c THEN "join" ELSE pc[d]
    BY <2>1 DEF PoolType
  <2>10. Joining'
    <3>1. \A d \in Clients, t \in Threads : t \in ToSet(copy'[d]) => thr[t] \notin {"none", "born", "proxy"}
      BY <2>6, <2>8 DEF Joining
    <3>2. \A d \in Clients, t \in Threads :
            pc'[d] = "join" /\ thr[t] \notin {"none", "exited"} => t \in ToSet(copy'[d])
      BY <2>6, <2>7, <2>8, <2>9 DEF Joining, PoolType
    <3>3. \A d \in Clients : pc'[d] # "join" => copy'[d] = <<>>
      BY <2>8, <2>9 DEF Joining
    <3> QED BY <2>1, <3>1, <3>2, <3>3 DEF Joining, AllIdle, JoinWaitsForAll
  <2> QED BY <2>1, <2>4, <2>5, <2>10
<1>4. ASSUME NEW c \in Clients, r_thread_join_unref(c) PROVE PoolInv'
  <2> DEFINE t == Head(copy[c])
  <2>1. /\ pc[c] = "join" /\ copy[c] # <<>> /\ (joined[t] \/ thr[t] = "exited")
        /\ joined' = [joined EXCEPT ![t] = TRUE] /\ refs' = [refs EXCEPT ![t] = @ - 1]
        /\ copy' = [copy EXCEPT ![c] = Tail(@)]
        /\ UNCHANGED <<thr, waiting, active, done, pc, cur, phase, aborted>>
    BY <1>4 DEF r_thread_join_unref
  <2>2. IsList(Threads, Tail(copy[c])) /\ ToSet(Tail(copy[c])) = ToSet(copy[c]) \ {t} /\ t \in Threads
    BY <2>1, HeadTaken DEF PoolType
  <2> HIDE DEF t
  <2>3. thr[t] = "exited"
    BY <2>1, <2>2 DEF Joining
  <2>4. PoolType'
    BY <2>1, <2>2 DEF PoolType
  <2>5. Placed' /\ Starting'
    BY <2>1 DEF Placed, Starting
  <2>6. \A d \in Clients : copy'[d] = IF d = c THEN Tail(copy[c]) ELSE copy[d]
    BY <2>1 DEF PoolType
  <2>7. \A u \in Threads : joined'[u] => joined[u] \/ u = t
    BY <2>1 DEF PoolType
  <2>8. Joining'
    <3>1. \A d \in Clients, u \in Threads : u \in ToSet(copy'[d]) => thr[u] \notin {"none", "born", "proxy"}
      BY <2>2, <2>6 DEF Joining
    <3>2. \A d \in Clients, u \in Threads :
            pc[d] = "join" /\ thr[u] \notin {"none", "exited"} => u \in ToSet(copy'[d])
      BY <2>2, <2>3, <2>6 DEF Joining
    <3>3. \A d \in Clients : pc[d] # "join" => copy'[d] = <<>>
      BY <2>1, <2>6 DEF Joining
    <3>4. \A u \in Threads : joined'[u] => thr[u] = "exited"
      BY <2>3, <2>7 DEF Joining
    <3> QED BY <2>1, <3>1, <3>2, <3>3, <3>4 DEF Joining, AllIdle, JoinWaitsForAll
  <2> QED BY <2>1, <2>4, <2>5, <2>8
<1>5. ASSUME NEW c \in Clients, JoinReturn(c) PROVE PoolInv'
  <2>1. /\ pc[c] = "join" /\ copy[c] = <<>> /\ pc' = [pc EXCEPT ![c] = "idle"] /\ phase' = "joined"
        /\ UNCHANGED <<thr, refs, joined, waiting, active, done, cur, copy, aborted>>
    BY <1>5 DEF JoinReturn
  <2>2. \A t \in Threads : thr[t] \in {"none", "exited"}
    <3>1. ToSet(copy[c]) = {}
      BY <2>1 DEF ToSet
    <3> QED BY <2>1, <3>1 DEF Joining
  <2>3. PoolType'
    BY <2>1 DEF PoolType
  <2>4. Starting'
    BY <2>1 DEF Starting, PoolType
  <2>5. Joining'
    BY <2>1, <2>2 DEF Joining, PoolType, AllIdle, JoinWaitsForAll
  <2>6. Placed'
    BY <2>1 DEF Placed, Joining, AllIdle
  <2> QED BY <2>1, <2>3, <2>4, <2>5, <2>6
<1>6. ASSUME NEW c \in Clients, SpuriousCond(c) PROVE PoolInv'
  BY Zenon, <1>6 DEF SpuriousCond, PoolType, Placed, Starting, Joining, AllIdle, JoinWaitsForAll
<1>7. ASSUME NEW t \in Threads, ProxyRead(t) PROVE PoolInv'
  <2>1. /\ thr[t] = "born" /\ thr' = [thr EXCEPT ![t] = "proxy"]
        /\ UNCHANGED <<refs, joined, waiting, active, done, pc, cur, copy, phase, aborted>>
    BY <1>7 DEF ProxyRead
  <2>2. \A u \in Threads : thr'[u] = IF u = t THEN "proxy" ELSE thr[u]
    BY <2>1 DEF PoolType
  <2>3. PoolType'
    BY <2>1 DEF PoolType
  <2>4. Placed' /\ Starting'
    BY <2>1, <2>2 DEF Placed, Starting
  <2>5. Joining'
    BY <2>1, <2>2 DEF Joining, AllIdle, JoinWaitsForAll
  <2> QED BY <2>1, <2>3, <2>4, <2>5
<1>8. ASSUME NEW t \in Threads, ProxyEnter(t) PROVE PoolInv'
  <2>1. waiting = t
    BY <1>8 DEF ProxyEnter, Placed
  <2>2. /\ thr[t] = "proxy" /\ thr' = [thr EXCEPT ![t] = "func"]
        /\ active' = <<t>> \o active /\ waiting' = NoThread
        /\ UNCHANGED <<refs, joined, done, pc, cur, copy, phase, aborted>>
    BY <1>8, <2>1 DEF ProxyEnter
  <2>3. IsList(Threads, <<t>> \o active) /\ ToSet(<<t>> \o active) = ToSet(active) \cup {t}
    BY <2>2, Prepended DEF PoolType, Placed
  <2>4. \A u \in Threads : thr'[u] = IF u = t THEN "func" ELSE thr[u]
    BY <2>2 DEF PoolType
  <2>5. PoolType'
    BY <2>2, <2>3 DEF PoolType
  <2>6. Placed' /\ Starting'
    BY <2>1, <2>2, <2>3, <2>4 DEF Placed, Starting
  <2>7. Joining'
    <3>1. \A c \in Clients : pc[c] # "join"
      BY <2>1 DEF Starting
    <3> QED BY <2>2, <2>4, <3>1 DEF Joining, AllIdle, JoinWaitsForAll
  <2> QED BY <2>2, <2>5, <2>6, <2>7
<1>9. ASSUME NEW t \in Threads, ProxyLeave(t) PROVE PoolInv'
  <2>1. /\ thr[t] = "func" /\ thr' = [thr EXCEPT ![t] = "ended"]
        /\ active' = RemoveFirst(active, t) /\ done' = <<t>> \o done
        /\ UNCHANGED <<refs, joined, waiting, pc, cur, copy, phase, aborted>>
    BY <1>9 DEF ProxyLeave
  <2>2. IsList(Threads, active') /\ ToSet(active') = ToSet(active) \ {t}
    BY <2>1, Removed DEF PoolType, Placed
  <2>3. IsList(Threads, done') /\ ToSet(done') = ToSet(done) \cup {t}
    BY <2>1, Prepended DEF PoolType, Placed
  <2>4. \A u \in Threads : thr'[u] = IF u = t THEN "ended" ELSE thr[u]
    BY <2>1 DEF PoolType
  <2>5. PoolType'
    BY <2>1, <2>2, <2>3 DEF PoolType
  <2>6. phase # "freed"
    BY <2>1 DEF Joining, AllIdle, JoinWaitsForAll
  <2>7. Placed' /\ Starting'
    BY <2>1, <2>2, <2>3, <2>4, <2>6 DEF Placed, Starting
  <2>8. Joining'
    BY <2>1, <2>4 DEF Joining, AllIdle, JoinWaitsForAll
  <2> QED BY <2>1, <2>5, <2>7, <2>8
<1>10. ASSUME NEW t \in Threads, TrampolineEnd(t) PROVE PoolInv'
  <2>1. /\ thr[t] = "ended" /\ thr' = [thr EXCEPT ![t] = "exited"] /\ refs' = [refs EXCEPT ![t] = @ - 1]
        /\ UNCHANGED <<joined, waiting, active, done, pc, cur, copy, phase, aborted>>
    BY <1>10 DEF TrampolineEnd
  <2>2. \A u \in Threads : thr'[u] = IF u = t THEN "exited" ELSE thr[u]
    BY <2>1 DEF PoolType
  <2>3. PoolType'
    BY <2>1 DEF PoolType
  <2>4. Placed' /\ Starting'
    BY <2>1, <2>2 DEF Placed, Starting
  <2>5. Joining'
    BY <2>1, <2>2 DEF Joining, AllIdle, JoinWaitsForAll
  <2> QED BY <2>1, <2>3, <2>4, <2>5
<1>11. ASSUME FreePool PROVE PoolInv'
  <2>1. phase = "joined" /\ AllIdle /\ r_thread_pool_free
    BY <1>11 DEF FreePool
  <2>2. waiting = NoThread /\ active = <<>>
    <3>1. \A t \in Threads : thr[t] \in {"none", "exited"}
      BY <2>1 DEF Joining, AllIdle, JoinWaitsForAll
    <3>2. waiting = NoThread
      BY <3>1 DEF Placed, PoolType
    <3>3. \A t \in Threads : t \notin ToSet(active)
      BY <3>1 DEF Placed
    <3>4. ASSUME active # <<>> PROVE FALSE
      <4>1. 1 \in DOMAIN active /\ active[1] \in Threads
        BY <3>4 DEF PoolType, IsList
      <4> QED BY <3>3, <4>1 DEF ToSet
    <3> QED BY <3>2, <3>4
  <2>3. /\ refs' = [t \in Threads |-> refs[t] - IF t \in ToSet(done) THEN 1 ELSE 0]
        /\ done' = <<>> /\ phase' = "freed"
        /\ UNCHANGED <<thr, joined, waiting, active, pc, cur, copy, aborted>>
    BY <2>1, <2>2 DEF r_thread_pool_free
  <2>4. IsList(Threads, <<>>) /\ ToSet(<<>>) = {}
    BY DEF IsList, ToSet, IsInjective
  <2>5. PoolType'
    BY <2>3, <2>4 DEF PoolType
  <2>6. Placed' /\ Starting'
    BY <2>3, <2>4 DEF Placed, Starting
  <2>7. Joining'
    BY <2>1, <2>3 DEF Joining, AllIdle, JoinWaitsForAll
  <2> QED BY <2>3, <2>5, <2>6, <2>7
<1>12. ASSUME UNCHANGED poolVars PROVE PoolInv'
  BY Zenon, <1>12 DEF poolVars, PoolType, Placed, Starting, Joining, AllIdle, JoinWaitsForAll
<1> HIDE DEF PoolInv
<1> QED
  BY <1>1, <1>2, <1>3, <1>4, <1>5, <1>6, <1>7, <1>8, <1>9, <1>10, <1>11, <1>12
     DEF PoolNext, ClientStep, WorkerStep

\* The copies that hold a thread are finitely many.
LEMMA CopiesFinite ==
  ASSUME NEW t \in Threads
  PROVE  IsFiniteSet(Copies(t)) /\ Cardinality(Copies(t)) \in Nat
<1>1. Copies(t) \subseteq Clients
  BY DEF Copies
<1> QED BY <1>1, FS_Subset, FS_CardinalityType, ThreadPoolAssumption

\* Every step that changes the holders of a thread counts the change.
LEMMA CountStep ==
  ASSUME PoolInv, Counted, [PoolNext]_poolVars
  PROVE  Counted'
<1> USE DEF PoolInv, NoAbort
<1>0. \A t \in Threads : Cardinality(Copies(t)) \in Nat
  BY CopiesFinite
<1>a. ASSUME UNCHANGED copy, \A t \in Threads : refs'[t] - Held(t)' = refs[t] - Held(t),
             refs \in [Threads -> Int], refs' \in [Threads -> Int]
      PROVE  Counted'
  <2> SUFFICES ASSUME NEW t \in Threads PROVE refs'[t] = Cardinality(Copies(t))' + Held(t)'
    BY DEF Counted
  <2>1. Copies(t)' = Copies(t)
    BY <1>a DEF Copies
  <2>2. Held(t) \in Int /\ Held(t)' \in Int
    BY DEF Held
  <2>3. refs[t] = Cardinality(Copies(t)) + Held(t)
    BY DEF Counted
  <2> HIDE DEF PoolInv
  <2> QED BY <1>0, <1>a, <2>1, <2>2, <2>3
<1>1. ASSUME NEW c \in Clients, NEW t \in Threads, phase = "open", AllIdle,
             r_thread_pool_start_thread_internal(c, t)
      PROVE  Counted'
  <2>1. waiting = NoThread
    BY <1>1 DEF Starting, AllIdle, PoolType
  <2>2. /\ thr[t] = "none" /\ thr' = [thr EXCEPT ![t] = "born"] /\ refs' = [refs EXCEPT ![t] = 2]
        /\ waiting' = t /\ UNCHANGED <<active, done, copy>>
    BY <1>1, <2>1 DEF r_thread_pool_start_thread_internal, r_thread_new
  <2>3. refs[t] = 0
    <3>1. Copies(t) = {}
      BY <2>2 DEF Copies, Joining
    <3>2. Held(t) = 0
      BY <2>1, <2>2, ThreadPoolAssumption DEF Held, Placed, InTrampoline
    <3> QED BY <3>1, <3>2, FS_EmptySet DEF Counted
  <2>4. Held(t) = 0 /\ Held(t)' = 2
    BY <2>1, <2>2, ThreadPoolAssumption DEF Held, Placed, InTrampoline, PoolType
  <2>5. \A u \in Threads : u # t => Held(u)' = Held(u) /\ refs'[u] = refs[u]
    BY <2>1, <2>2, ThreadPoolAssumption DEF Held, InTrampoline, PoolType
  <2>6. refs'[t] = 2 /\ refs \in [Threads -> Int] /\ refs' \in [Threads -> Int]
    BY <2>2 DEF PoolType
  <2>7. \A u \in Threads : Held(u) \in Int /\ refs[u] \in Int
    BY <2>6 DEF Held
  <2> QED BY <1>a, <2>2, <2>3, <2>4, <2>5, <2>6, <2>7
<1>2. ASSUME NEW c \in Clients, \A d \in Clients : pc[d] # "start", r_thread_pool_join(c)
      PROVE  Counted'
  <2> DEFINE new == Reverse(done) \o Reverse(active)
  <2>1. /\ pc[c] = "idle" /\ copy' = [copy EXCEPT ![c] = new]
        /\ refs' = [t \in Threads |-> refs[t] + IF t \in ToSet(active \o done) THEN 1 ELSE 0]
        /\ UNCHANGED <<thr, waiting, active, done>>
    BY <1>2 DEF r_thread_pool_join
  <2>2. ToSet(new) = ToSet(done) \cup ToSet(active) /\ ToSet(active \o done) = ToSet(active) \cup ToSet(done)
    <3>1. /\ IsList(Threads, Reverse(done)) /\ ToSet(Reverse(done)) = ToSet(done)
          /\ IsList(Threads, Reverse(active)) /\ ToSet(Reverse(active)) = ToSet(active)
      BY Reversed DEF PoolType
    <3>2. ToSet(done) \cap ToSet(active) = {}
      <4>1. ToSet(done) \subseteq Threads
        BY DEF PoolType, IsList, ToSet
      <4> QED BY <4>1 DEF Placed
    <3>3. IsList(Threads, new) /\ ToSet(new) = ToSet(done) \cup ToSet(active)
      <4>1. ToSet(Reverse(done)) \cap ToSet(Reverse(active)) = {}
        BY <3>1, <3>2
      <4> QED BY <3>1, <4>1, ThreadsJoined
    <3>4. IsList(Threads, active \o done) /\ ToSet(active \o done) = ToSet(active) \cup ToSet(done)
      <4>1. IsList(Threads, active) /\ IsList(Threads, done)
        BY DEF PoolType
      <4>2. ToSet(active) \cap ToSet(done) = {}
        BY <3>2
      <4> QED BY <4>1, <4>2, ThreadsJoined
    <3> QED BY <3>3, <3>4
  <2> HIDE DEF new
  <2>3. \A d \in Clients : copy'[d] = IF d = c THEN new ELSE copy[d]
    BY <2>1 DEF PoolType
  <2>4. ToSet(copy[c]) = {}
    BY <2>1 DEF Joining, ToSet
  <2> SUFFICES ASSUME NEW t \in Threads PROVE refs'[t] = Cardinality(Copies(t))' + Held(t)'
    BY DEF Counted
  <2>5. Held(t)' = Held(t) /\ Held(t) \in Int
    BY <2>1 DEF Held, InTrampoline
  <2>6. refs[t] = Cardinality(Copies(t)) + Held(t) /\ c \notin Copies(t)
    BY <2>4 DEF Counted, Copies
  <2>7. CASE t \in ToSet(new)
    <3>1. refs'[t] = refs[t] + 1
      BY <2>1, <2>2, <2>7
    <3>2. Copies(t)' = Copies(t) \cup {c}
      BY <2>3, <2>7 DEF Copies
    <3>3. Cardinality(Copies(t) \cup {c}) = Cardinality(Copies(t)) + 1
      BY <2>6, CopiesFinite, FS_AddElement, ZenonT(30)
    <3> HIDE DEF PoolInv
    <3> QED BY <1>0, <2>5, <2>6, <3>1, <3>2, <3>3
  <2>8. CASE t \notin ToSet(new)
    <3>1. refs'[t] = refs[t]
      BY <2>1, <2>2, <2>8 DEF PoolType
    <3>2. Copies(t)' = Copies(t)
      BY <2>3, <2>4, <2>8 DEF Copies
    <3> QED BY <2>5, <2>6, <3>1, <3>2
  <2> QED BY <2>7, <2>8
<1>3. ASSUME NEW c \in Clients, r_thread_join_unref(c) PROVE Counted'
  <2> DEFINE t == Head(copy[c])
  <2>1. /\ pc[c] = "join" /\ copy[c] # <<>> /\ refs' = [refs EXCEPT ![t] = @ - 1]
        /\ copy' = [copy EXCEPT ![c] = Tail(@)]
        /\ UNCHANGED <<thr, waiting, active, done>>
    BY <1>3 DEF r_thread_join_unref
  <2>2. ToSet(Tail(copy[c])) = ToSet(copy[c]) \ {t} /\ t \in Threads /\ t \in ToSet(copy[c])
    BY <2>1, HeadTaken DEF PoolType
  <2> HIDE DEF t
  <2>3. \A d \in Clients : copy'[d] = IF d = c THEN Tail(copy[c]) ELSE copy[d]
    BY <2>1 DEF PoolType
  <2> SUFFICES ASSUME NEW u \in Threads PROVE refs'[u] = Cardinality(Copies(u))' + Held(u)'
    BY DEF Counted
  <2>4. Held(u)' = Held(u) /\ Held(u) \in Int
    BY <2>1 DEF Held, InTrampoline
  <2>5. refs[u] = Cardinality(Copies(u)) + Held(u)
    BY DEF Counted
  <2>6. CASE u = t
    <3>1. refs'[u] = refs[u] - 1 /\ refs[u] \in Int
      BY <2>1, <2>2, <2>6 DEF PoolType
    <3>2. Copies(u)' = Copies(u) \ {c} /\ c \in Copies(u)
      BY <2>2, <2>3, <2>6 DEF Copies
    <3>3. Cardinality(Copies(u) \ {c}) = Cardinality(Copies(u)) - 1
      BY <3>2, CopiesFinite, FS_RemoveElement, ZenonT(30)
    <3> HIDE DEF PoolInv
    <3> QED BY <1>0, <2>4, <2>5, <3>1, <3>2, <3>3
  <2>7. CASE u # t
    <3>1. refs'[u] = refs[u]
      BY <2>1, <2>7 DEF PoolType
    <3>2. Copies(u)' = Copies(u)
      BY <2>2, <2>3, <2>7 DEF Copies
    <3> QED BY <2>4, <2>5, <3>1, <3>2
  <2> QED BY <2>6, <2>7
<1>4. ASSUME NEW c \in Clients, StartWake(c) \/ JoinReturn(c) \/ SpuriousCond(c) PROVE Counted'
  <2>1. UNCHANGED <<thr, refs, waiting, active, done, copy>>
    BY <1>4 DEF StartWake, JoinReturn, SpuriousCond
  <2> QED BY <2>1 DEF Counted, Copies, Held, InTrampoline
<1>5. ASSUME NEW t \in Threads, ProxyRead(t) PROVE Counted'
  <2>1. /\ thr[t] = "born" /\ thr' = [thr EXCEPT ![t] = "proxy"]
        /\ UNCHANGED <<refs, waiting, active, done, copy>>
    BY <1>5 DEF ProxyRead
  <2>2. \A u \in Threads : Held(u)' = Held(u)
    BY <2>1 DEF Held, InTrampoline, PoolType
  <2> QED BY <1>a, <2>1, <2>2 DEF PoolType
<1>6. ASSUME NEW t \in Threads, ProxyEnter(t) PROVE Counted'
  <2>1. waiting = t
    BY <1>6 DEF ProxyEnter, Placed
  <2>2. /\ thr[t] = "proxy" /\ thr' = [thr EXCEPT ![t] = "func"]
        /\ active' = <<t>> \o active /\ waiting' = NoThread
        /\ UNCHANGED <<refs, done, copy>>
    BY <1>6, <2>1 DEF ProxyEnter
  <2>3. ToSet(active') = ToSet(active) \cup {t}
    BY <2>2, Prepended DEF PoolType, Placed
  <2>4. \A u \in Threads : Held(u)' = Held(u)
    BY <2>1, <2>2, <2>3, ThreadPoolAssumption DEF Held, InTrampoline, PoolType
  <2> QED BY <1>a, <2>2, <2>4 DEF PoolType
<1>7. ASSUME NEW t \in Threads, ProxyLeave(t) PROVE Counted'
  <2>1. /\ thr[t] = "func" /\ thr' = [thr EXCEPT ![t] = "ended"]
        /\ active' = RemoveFirst(active, t) /\ done' = <<t>> \o done
        /\ UNCHANGED <<refs, waiting, copy>>
    BY <1>7 DEF ProxyLeave
  <2>2. ToSet(active') = ToSet(active) \ {t}
    BY <2>1, Removed DEF PoolType, Placed
  <2>3. ToSet(done') = ToSet(done) \cup {t}
    BY <2>1, Prepended DEF PoolType, Placed
  <2>4. t \in ToSet(active)
    BY <2>1 DEF Placed
  <2>5. \A u \in Threads : Held(u)' = Held(u)
    BY <2>1, <2>2, <2>3, <2>4 DEF Held, InTrampoline, PoolType
  <2> QED BY <1>a, <2>1, <2>5 DEF PoolType
<1>8. ASSUME NEW t \in Threads, TrampolineEnd(t) PROVE Counted'
  <2>1. /\ thr[t] = "ended" /\ thr' = [thr EXCEPT ![t] = "exited"] /\ refs' = [refs EXCEPT ![t] = @ - 1]
        /\ UNCHANGED <<waiting, active, done, copy>>
    BY <1>8 DEF TrampolineEnd
  <2>2. \A u \in Threads : u # t => Held(u)' = Held(u) /\ refs'[u] = refs[u]
    BY <2>1 DEF Held, InTrampoline, PoolType
  <2>3. Held(t)' = Held(t) - 1
    BY <2>1 DEF Held, InTrampoline, PoolType
  <2>4. refs'[t] = refs[t] - 1 /\ refs \in [Threads -> Int] /\ refs' \in [Threads -> Int]
    BY <2>1 DEF PoolType
  <2>5. \A u \in Threads : Held(u) \in Int /\ refs[u] \in Int
    BY <2>4 DEF Held
  <2> QED BY <1>a, <2>1, <2>2, <2>3, <2>4, <2>5
<1>9. ASSUME FreePool PROVE Counted'
  <2>1. \/ UNCHANGED <<refs, done>>
        \/ /\ refs' = [t \in Threads |-> refs[t] - IF t \in ToSet(done) THEN 1 ELSE 0]
           /\ done' = <<>>
    BY <1>9 DEF FreePool, r_thread_pool_free
  <2>2. UNCHANGED <<thr, waiting, active, copy>>
    BY <1>9 DEF FreePool, r_thread_pool_free
  <2>3. refs \in [Threads -> Int] /\ refs' \in [Threads -> Int]
    BY <2>1 DEF PoolType
  <2>4. CASE UNCHANGED <<refs, done>>
    BY <2>2, <2>4 DEF Counted, Copies, Held, InTrampoline
  <2>5. CASE /\ refs' = [t \in Threads |-> refs[t] - IF t \in ToSet(done) THEN 1 ELSE 0]
             /\ done' = <<>>
    <3>1. ToSet(done') = {}
      BY <2>5 DEF ToSet
    <3>2. ASSUME NEW t \in Threads PROVE refs'[t] - Held(t)' = refs[t] - Held(t)
      <4>1. CASE t \in ToSet(done)
        <5>1. t # waiting /\ t \notin ToSet(active)
          BY <4>1 DEF Placed
        <5>2. Held(t)' = Held(t) - 1
          BY <2>2, <3>1, <4>1, <5>1 DEF Held, InTrampoline
        <5>3. refs'[t] = refs[t] - 1 /\ refs[t] \in Int /\ Held(t) \in Int
          BY <2>3, <2>5, <4>1 DEF Held
        <5> QED BY <5>2, <5>3
      <4>2. CASE t \notin ToSet(done)
        <5>1. Held(t)' = Held(t)
          BY <2>2, <3>1, <4>2 DEF Held, InTrampoline
        <5>2. refs'[t] = refs[t]
          BY <2>3, <2>5, <4>2
        <5> QED BY <5>1, <5>2
      <4> QED BY <4>1, <4>2
    <3> QED BY <1>a, <2>2, <2>3, <3>2
  <2> QED BY <2>1, <2>4, <2>5
<1>10. ASSUME UNCHANGED poolVars PROVE Counted'
  BY <1>10 DEF poolVars, Counted, Copies, Held, InTrampoline
<1> HIDE DEF PoolInv
<1> QED
  BY <1>1, <1>2, <1>3, <1>4, <1>5, <1>6, <1>7, <1>8, <1>9, <1>10
     DEF PoolNext, ClientStep, WorkerStep

\* Every client, worker and join of a thread pool finds it and its threads alive:
\* r_thread_pool_start_thread, r_thread_pool_proxy, r_thread_pool_join and
\* r_thread_pool_free fail no assertion, the frame with a worker's arguments is
\* there until they are read, the reference counts are exact, and a join that
\* returns leaves no worker.
THEOREM PoolAlwaysAlive == PoolSpec => []PoolAlive
<1> DEFINE Inv == PoolInv /\ Counted
<1>1. PoolInit => Inv
  <2> SUFFICES ASSUME PoolInit PROVE Inv
    OBVIOUS
  <2>1. IsList(Threads, <<>>) /\ ToSet(<<>>) = {}
    BY DEF IsList, ToSet, IsInjective
  <2>2. PoolType
    BY <2>1 DEF PoolInit, PoolType
  <2>3. Placed /\ Starting
    BY <2>1, ThreadPoolAssumption DEF PoolInit, Placed, Starting
  <2>4. Joining
    BY <2>1 DEF PoolInit, Joining, AllIdle, JoinWaitsForAll
  <2>5. Counted
    <3> SUFFICES ASSUME NEW t \in Threads PROVE refs[t] = Cardinality(Copies(t)) + Held(t)
      BY DEF Counted
    <3>1. Copies(t) = {}
      BY <2>1 DEF PoolInit, Copies
    <3>2. Held(t) = 0 /\ refs[t] = 0
      BY <2>1, ThreadPoolAssumption DEF PoolInit, Held, InTrampoline
    <3> QED BY <3>1, <3>2, FS_EmptySet
  <2> QED BY <2>2, <2>3, <2>4, <2>5 DEF PoolInit, PoolInv, NoAbort
<1>2. Inv /\ [PoolNext]_poolVars => Inv'
  BY PoolStep, CountStep
<1>3. Inv => PoolAlive
  <2> SUFFICES ASSUME PoolInv, Counted PROVE PoolAlive
    OBVIOUS
  <2>1. FrameAlive
    BY ThreadPoolAssumption DEF PoolInv, Placed, Starting, FrameAlive
  <2>2. RefsExact
    <3> SUFFICES ASSUME NEW t \in Threads
                 PROVE refs[t] = Cardinality(Copies(t))
                         + (IF t = waiting \/ t \in ToSet(active \o done) THEN 1 ELSE 0)
                         + (IF InTrampoline(t) THEN 1 ELSE 0)
      BY DEF RefsExact
    <3>1. IsList(Threads, active \o done) /\ ToSet(active \o done) = ToSet(active) \cup ToSet(done)
      <4>1. ToSet(active) \cap ToSet(done) = {}
        <5>1. ToSet(done) \subseteq Threads
          BY DEF PoolInv, PoolType, IsList, ToSet
        <5> QED BY <5>1 DEF PoolInv, Placed
      <4>2. IsList(Threads, active) /\ IsList(Threads, done)
        BY DEF PoolInv, PoolType
      <4> QED BY <4>1, <4>2, ThreadsJoined
    <3>2. Cardinality(Copies(t)) \in Nat
      BY CopiesFinite
    <3> QED BY <3>1, <3>2 DEF Counted, Held
  <2> QED BY <2>1, <2>2 DEF PoolInv, Joining, PoolAlive
<1> HIDE DEF Inv
<1> QED BY <1>1, <1>2, <1>3, PTL DEF PoolSpec
=============================================================================
