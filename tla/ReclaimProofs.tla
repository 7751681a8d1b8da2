--------------------------- MODULE ReclaimProofs ----------------------------
(***************************************************************************)
(* However many threads share a reference-counted object and a hazard      *)
(* pointer, and however their accesses interleave: the weak references     *)
(* that stand when the last reference goes are called once, nobody is in   *)
(* the object then, and no two threads own one hazard record.  The lists   *)
(* without duplicates are those of ThreadPoolProofs.                       *)
(***************************************************************************)
EXTENDS Reclaim, ThreadPoolProofs

-----------------------------------------------------------------------------
(* Reference counts and weak references. *)

\* The references that are held.
Refs == {p \in RefThreads \X (1 .. MaxRefs) : p[2] <= held[p[1]]}

RefType ==
  /\ weaklst \in Seq(Weaks) /\ called \in Seq(Weaks) /\ live \subseteq Weaks
  /\ destroyed \in BOOLEAN
  /\ held \in [RefThreads -> 0 .. MaxRefs]
  /\ rpc \in [RefThreads -> {"idle", "exchange", "call", "cas", "load", "store"}]
  /\ arg \in [RefThreads -> Weaks \cup {0}]
  /\ next \in [RefThreads -> Seq(Weaks)]
  /\ lock \in [r : SUBSET RefThreads, w : SUBSET RefThreads]

\* The count is exact, and who is in the middle of a call holds a reference or
\* has dropped the last one.
RefCounted ==
  /\ refcount = Cardinality(Refs)
  /\ \A t \in RefThreads : rpc[t] \in {"cas", "load", "store"} => held[t] > 0
  /\ \A t \in RefThreads : rpc[t] \in {"exchange", "call"} =>
       refcount = 0 /\ ~destroyed /\ \A u \in RefThreads \ {t} : rpc[u] = "idle"
  /\ destroyed => refcount = 0 /\ \A t \in RefThreads : rpc[t] = "idle"

\* A registration is in the lock's protection while it is made or withdrawn.
LockOwners == \A t \in RefThreads : /\ t \in lock.r <=> rpc[t] = "cas"
                                    /\ t \in lock.w <=> rpc[t] \in {"load", "store"}
OneWriter == \A t \in lock.w : lock.w = {t} /\ lock.r = {}
NewWeaks == \A t \in RefThreads : rpc[t] = "cas" =>
  /\ arg[t] \in Weaks \ live
  /\ \A u \in RefThreads \ {t} : rpc[u] = "cas" => arg[u] # arg[t]
ListRead == \A t \in RefThreads : rpc[t] = "store" => next[t] = weaklst
Locked == LockOwners /\ OneWriter /\ NewWeaks /\ ListRead

\* The registrations that stand are the list, until the last r_ref_unref takes
\* it, then what that has in hand, then what was called.
Holds(s) == IsList(Weaks, s) /\ ToSet(s) = live
Standing ==
  /\ destroyed => Holds(called)
  /\ ~destroyed => called = <<>>
  /\ ~destroyed /\ (\A t \in RefThreads : rpc[t] # "call") => Holds(weaklst)
  /\ \A t \in RefThreads : rpc[t] = "call" => Holds(next[t])

RefInv == RefType /\ RefCounted /\ Locked /\ Standing

\* The references are finitely many.
LEMMA RefsFinite == IsFiniteSet(Refs)
<1>1. IsFiniteSet(1 .. MaxRefs)
  BY RefAssumption, FS_Interval
<1>2. IsFiniteSet(RefThreads \X (1 .. MaxRefs))
  BY <1>1, RefAssumption, FS_Product
<1> QED BY <1>2, FS_Subset DEF Refs

\* When none is counted, no thread holds one.
LEMMA NoneHeld ==
  ASSUME RefInv, refcount = 0, NEW t \in RefThreads
  PROVE  held[t] = 0
<1>1. Refs = {}
  BY RefsFinite, FS_EmptySet, Zenon DEF RefInv, RefCounted
<1>2. <<t, 1>> \notin Refs
  BY <1>1
<1>3. 1 \in 1 .. MaxRefs
  BY RefAssumption
<1>4. ~(1 <= held[t])
  BY <1>2, <1>3 DEF Refs
<1> QED BY <1>4 DEF RefInv, RefType

\* r_ref_ref adds one reference to those held.
LEMMA RefCounts ==
  ASSUME RefInv, NEW t \in RefThreads, r_ref_ref(t)
  PROVE  refcount' = Cardinality(Refs')
<1> DEFINE p == <<t, held[t] + 1>>
<1>1. held[t] \in 0 .. MaxRefs /\ held[t] + 1 \in 1 .. MaxRefs /\ MaxRefs \in Nat
  BY RefAssumption DEF RefInv, RefType, r_ref_ref
<1>2. p \in RefThreads \X (1 .. MaxRefs) /\ p \notin Refs
  BY <1>1 DEF Refs
<1>3. held' = [held EXCEPT ![t] = held[t] + 1]
  BY DEF r_ref_ref
<1>4. ASSUME NEW q \in RefThreads \X (1 .. MaxRefs)
      PROVE  q[2] <= held'[q[1]] <=> q[2] <= held[q[1]] \/ q = p
  <2>1. q = <<q[1], q[2]>> /\ q[1] \in RefThreads /\ q[2] \in 1 .. MaxRefs
    OBVIOUS
  <2>2. CASE q[1] = t
    BY <1>1, <1>3, <2>1, <2>2 DEF RefInv, RefType
  <2>3. CASE q[1] # t
    BY <1>3, <2>1, <2>3 DEF RefInv, RefType
  <2> QED BY <2>2, <2>3
<1>5. Refs' = Refs \cup {p}
  BY <1>2, <1>4, Zenon DEF Refs
<1>6. Cardinality(Refs \cup {p}) = Cardinality(Refs) + 1
  BY <1>2, RefsFinite, FS_AddElement, Zenon
<1> QED BY <1>5, <1>6 DEF RefInv, RefCounted, r_ref_ref

\* r_ref_unref takes one from them; the last one is the caller's own.
LEMMA UnrefCounts ==
  ASSUME RefInv, NEW t \in RefThreads, r_ref_unref(t)
  PROVE  /\ refcount' = Cardinality(Refs') /\ refcount \in Nat \ {0}
         /\ refcount = 1 => \A u \in RefThreads \ {t} : held[u] = 0
<1> DEFINE p == <<t, held[t]>>
<1>1. held[t] \in 1 .. MaxRefs /\ MaxRefs \in Nat
  BY RefAssumption DEF RefInv, RefType, r_ref_unref, Idle
<1>2. p \in RefThreads \X (1 .. MaxRefs) /\ p \in Refs
  BY <1>1 DEF Refs
<1>3. held' = [held EXCEPT ![t] = held[t] - 1]
  BY DEF r_ref_unref
<1>4. ASSUME NEW q \in RefThreads \X (1 .. MaxRefs)
      PROVE  q[2] <= held'[q[1]] <=> q[2] <= held[q[1]] /\ q # p
  <2>1. q = <<q[1], q[2]>> /\ q[1] \in RefThreads /\ q[2] \in 1 .. MaxRefs
    OBVIOUS
  <2>2. CASE q[1] = t
    BY <1>1, <1>3, <2>1, <2>2 DEF RefInv, RefType
  <2>3. CASE q[1] # t
    BY <1>3, <2>1, <2>3 DEF RefInv, RefType
  <2> QED BY <2>2, <2>3
<1>5. Refs' = Refs \ {p}
  BY <1>2, <1>4, Zenon DEF Refs
<1>6. Cardinality(Refs \ {p}) = Cardinality(Refs) - 1
  BY <1>2, RefsFinite, FS_RemoveElement, Zenon
<1>7. Cardinality(Refs) \in Nat /\ (Cardinality(Refs) = 0 <=> Refs = {})
  BY RefsFinite, FS_CardinalityType, FS_EmptySet
<1>8. ASSUME refcount = 1, NEW u \in RefThreads \ {t} PROVE held[u] = 0
  <2>0. Cardinality(Refs) = 1
    BY <1>8 DEF RefInv, RefCounted
  <2>1. IsFiniteSet(Refs \ {p}) /\ Cardinality(Refs \ {p}) = 0
    BY <1>2, <1>6, <2>0, RefsFinite, FS_RemoveElement
  <2>2. Refs \ {p} = {}
    BY <2>1, FS_EmptySet
  <2>3. <<u, 1>> \notin Refs
    BY <2>2, <1>8
  <2>4. 1 \in 1 .. MaxRefs
    BY RefAssumption
  <2>5. ~(1 <= held[u])
    BY <2>3, <2>4 DEF Refs
  <2> QED BY <2>5 DEF RefInv, RefType
<1> QED BY <1>2, <1>5, <1>6, <1>7, <1>8 DEF RefInv, RefCounted, r_ref_unref

\* Nothing that does not count references changes the references.
LEMMA SameCount ==
  ASSUME RefCounted, UNCHANGED <<refcount, held>>
  PROVE  refcount' = Cardinality(Refs')
BY DEF RefCounted, Refs

\* Taking and dropping references keeps the invariant.
LEMMA CountsStep ==
  ASSUME RefInv, NEW t \in RefThreads, r_ref_ref(t) \/ r_ref_unref(t)
  PROVE  RefInv'
<1>1. CASE r_ref_ref(t)
  <2>1. refcount > 0 /\ refcount \in Nat
    <3>1. refcount \in Nat
      BY RefsFinite, FS_CardinalityType DEF RefInv, RefCounted
    <3>2. refcount # 0
      BY <1>1, NoneHeld DEF r_ref_ref, Idle
    <3> QED BY <3>1, <3>2
  <2>2. ~destroyed /\ \A u \in RefThreads : rpc[u] \notin {"exchange", "call"}
    BY <2>1 DEF RefInv, RefCounted
  <2>3. RefType'
    BY <1>1, RefAssumption DEF RefInv, RefType, r_ref_ref
  <2>4. \A u \in RefThreads : held'[u] >= held[u] /\ held[u] \in Nat /\ held'[u] \in Nat
    BY <1>1, RefAssumption DEF RefInv, RefType, r_ref_ref
  <2>5. RefCounted'
    <3>1. refcount' = Cardinality(Refs')
      BY <1>1, RefCounts
    <3>2. UNCHANGED <<rpc, destroyed>>
      BY <1>1 DEF r_ref_ref
    <3>3. \A u \in RefThreads : rpc[u] \in {"cas", "load", "store"} => held[u] > 0
      BY DEF RefInv, RefCounted
    <3>4. \A u \in RefThreads : rpc'[u] \in {"cas", "load", "store"} => held'[u] > 0
      BY <2>4, <3>2, <3>3
    <3> QED BY <2>2, <3>1, <3>2, <3>4 DEF RefCounted
  <2>6. Locked' /\ Standing'
    BY <1>1 DEF RefInv, r_ref_ref, Locked, LockOwners, OneWriter, NewWeaks, ListRead, Standing, Holds
  <2> QED BY <2>3, <2>5, <2>6 DEF RefInv
<1>2. CASE r_ref_unref(t)
  <2>1. refcount' = Cardinality(Refs') /\ refcount \in Nat \ {0} /\ refcount' = refcount - 1
        /\ (refcount = 1 => \A u \in RefThreads \ {t} : held[u] = 0)
    BY <1>2, UnrefCounts, Zenon DEF r_ref_unref
  <2>2. ~destroyed /\ \A u \in RefThreads : rpc[u] \notin {"exchange", "call"}
    BY <2>1 DEF RefInv, RefCounted
  <2>3. RefType'
    BY <1>2, RefAssumption DEF RefInv, RefType, r_ref_unref, Idle, Goto
  <2>4. rpc' = [rpc EXCEPT ![t] = IF refcount = 1 THEN "exchange" ELSE "idle"] /\ rpc[t] = "idle"
        /\ held' = [held EXCEPT ![t] = held[t] - 1]
        /\ UNCHANGED <<weaklst, destroyed, arg, next, lock, called, live>>
    BY <1>2 DEF r_ref_unref, Idle, Goto
  <2>5. ASSUME refcount = 1, NEW u \in RefThreads \ {t} PROVE rpc[u] = "idle"
    <3>1. held[u] = 0
      BY <2>1, <2>5
    <3>2. rpc[u] \in {"cas", "load", "store"} => held[u] > 0
      BY DEF RefInv, RefCounted
    <3>3. rpc[u] \in {"idle", "exchange", "call", "cas", "load", "store"}
      BY DEF RefInv, RefType
    <3> QED BY <2>2, <3>1, <3>2, <3>3
  <2>6. RefCounted'
    <3>1. \A u \in RefThreads : rpc'[u] \in {"cas", "load", "store"} => held'[u] > 0
      BY <2>4 DEF RefInv, RefType, RefCounted
    <3>2. \A u \in RefThreads : rpc'[u] \in {"exchange", "call"} =>
            refcount' = 0 /\ ~destroyed' /\ \A v \in RefThreads \ {u} : rpc'[v] = "idle"
      <4>1. CASE refcount = 1
        BY <2>1, <2>2, <2>4, <2>5, <4>1 DEF RefInv, RefType
      <4>2. CASE refcount # 1
        BY <2>1, <2>2, <2>4, <4>2 DEF RefInv, RefType
      <4> QED BY <4>1, <4>2
    <3> QED BY <2>1, <2>2, <2>4, <3>1, <3>2 DEF RefCounted
  <2>7. Locked'
    BY <2>4 DEF RefInv, RefType, Locked, LockOwners, OneWriter, NewWeaks, ListRead
  <2>8. Standing'
    <3>1. \A u \in RefThreads : rpc'[u] # "call"
      BY <2>2, <2>4 DEF RefInv, RefType
    <3> QED BY <2>2, <2>4, <3>1 DEF RefInv, Standing, Holds
  <2> QED BY <2>3, <2>6, <2>7, <2>8 DEF RefInv
<1> QED BY <1>1, <1>2

\* The thread that dropped the last reference takes the list and calls it.
LEMMA LastStep ==
  ASSUME RefInv, NEW t \in RefThreads, r_ref_unref_exchange(t) \/ r_ref_unref_notify(t)
  PROVE  RefInv'
<1>1. refcount = 0 /\ ~destroyed /\ \A u \in RefThreads \ {t} : rpc[u] = "idle"
  BY DEF RefInv, RefCounted, r_ref_unref_exchange, r_ref_unref_notify
<1>2. CASE r_ref_unref_exchange(t)
  <2>1. /\ rpc[t] = "exchange" /\ rpc' = [rpc EXCEPT ![t] = "call"]
        /\ next' = [next EXCEPT ![t] = weaklst] /\ weaklst' = <<>>
        /\ UNCHANGED <<refcount, destroyed, held, arg, lock, called, live>>
    BY <1>2 DEF r_ref_unref_exchange, Goto
  <2>2. RefType'
    BY <2>1 DEF RefInv, RefType
  <2>3. rpc \in [RefThreads -> {"idle", "exchange", "call", "cas", "load", "store"}] /\ next \in [RefThreads -> Seq(Weaks)]
    BY DEF RefInv, RefType
  <2>4. RefCounted'
    <3>1. refcount' = Cardinality(Refs')
      BY <2>1, SameCount DEF RefInv
    <3> QED BY <1>1, <2>1, <2>3, <3>1 DEF RefCounted
  <2>5. Locked'
    BY <1>1, <2>1, <2>3 DEF RefInv, Locked, LockOwners, OneWriter, NewWeaks, ListRead
  <2>6. Standing'
    <3>1. Holds(weaklst)
      BY <1>1, <2>1 DEF RefInv, Standing
    <3> QED BY <1>1, <2>1, <2>3, <3>1 DEF RefInv, Standing, Holds
  <2> QED BY <2>2, <2>4, <2>5, <2>6 DEF RefInv
<1>3. CASE r_ref_unref_notify(t)
  <2>1. /\ rpc[t] = "call" /\ rpc' = [rpc EXCEPT ![t] = "idle"]
        /\ called' = called \o next[t] /\ destroyed' = TRUE
        /\ UNCHANGED <<refcount, weaklst, held, arg, next, lock, live>>
    BY <1>3 DEF r_ref_unref_notify, Goto
  <2>2. called = <<>> /\ Holds(next[t]) /\ next[t] \in Seq(Weaks)
    BY <1>1, <2>1 DEF RefInv, RefType, Standing
  <2>3. called' = next[t]
    BY <2>1, <2>2
  <2>4. RefType'
    BY <2>1, <2>2, <2>3 DEF RefInv, RefType
  <2>5. rpc \in [RefThreads -> {"idle", "exchange", "call", "cas", "load", "store"}]
    BY DEF RefInv, RefType
  <2>6. \A u \in RefThreads : rpc'[u] = "idle"
    BY <1>1, <2>1, <2>5
  <2>7. RefCounted'
    <3>1. refcount' = Cardinality(Refs')
      BY <2>1, SameCount DEF RefInv
    <3> QED BY <1>1, <2>1, <2>6, <3>1 DEF RefCounted
  <2>8. Locked'
    BY <1>1, <2>1, <2>5 DEF RefInv, Locked, LockOwners, OneWriter, NewWeaks, ListRead
  <2>9. Standing'
    BY <2>1, <2>2, <2>3, <2>6 DEF Standing, Holds
  <2> QED BY <2>4, <2>7, <2>8, <2>9 DEF RefInv
<1> QED BY <1>2, <1>3

\* While a thread that holds a reference is at work the object is alive, and
\* nobody has taken the list.
LEMMA Alive ==
  ASSUME RefInv, NEW t \in RefThreads, held[t] > 0
  PROVE  /\ refcount # 0 /\ ~destroyed /\ called = <<>> /\ Holds(weaklst)
         /\ \A u \in RefThreads : rpc[u] \notin {"exchange", "call"}
<1>1. refcount # 0
  BY NoneHeld
<1>2. ~destroyed /\ \A u \in RefThreads : rpc[u] \notin {"exchange", "call"}
  BY <1>1 DEF RefInv, RefCounted
<1> QED BY <1>1, <1>2 DEF RefInv, Standing

\* What the steps of r_ref_weak_ref and r_ref_weak_unref leave as it was: a thread
\* that holds a reference moves between states in which it needs one.
LEMMA WeakKeeps ==
  ASSUME RefInv, NEW t \in RefThreads, held[t] > 0, UNCHANGED <<refcount, destroyed, held, called>>,
         NEW l \in {"idle", "cas", "load", "store"}, rpc' = [rpc EXCEPT ![t] = l],
         IsList(Weaks, weaklst)', ToSet(weaklst') = live'
  PROVE  RefCounted' /\ Standing'
<1>1. /\ refcount # 0 /\ ~destroyed /\ called = <<>>
      /\ \A u \in RefThreads : rpc[u] \notin {"exchange", "call"}
  BY Alive
<1>2. rpc \in [RefThreads -> {"idle", "exchange", "call", "cas", "load", "store"}]
  BY DEF RefInv, RefType
<1>3. \A u \in RefThreads : rpc'[u] \notin {"exchange", "call"}
  BY <1>1, <1>2
<1>4. refcount' = Cardinality(Refs')
  BY SameCount DEF RefInv
<1>5. \A u \in RefThreads : rpc[u] \in {"cas", "load", "store"} => held[u] > 0
  BY DEF RefInv, RefCounted
<1>6. \A u \in RefThreads : rpc'[u] \in {"cas", "load", "store"} => held'[u] > 0
  BY <1>2, <1>5
<1>7. RefCounted'
  BY <1>1, <1>3, <1>4, <1>6 DEF RefCounted
<1>8. Standing'
  BY <1>1, <1>3 DEF Standing, Holds
<1> QED BY <1>7, <1>8

\* A registration is announced: the lock is taken for reading.
LEMMA WeakRefStep ==
  ASSUME RefInv, NEW t \in RefThreads, NEW w \in Weaks, r_ref_weak_ref(t, w)
  PROVE  RefInv'
<1>1. /\ rpc[t] = "idle" /\ held[t] > 0 /\ w \notin live /\ (\A u \in RefThreads : arg[u] # w)
      /\ lock.w = {} /\ lock' = [lock EXCEPT !.r = lock.r \cup {t}]
      /\ rpc' = [rpc EXCEPT ![t] = "cas"] /\ arg' = [arg EXCEPT ![t] = w]
      /\ next' = [next EXCEPT ![t] = <<>>]
      /\ UNCHANGED <<refcount, weaklst, destroyed, held, called, live>>
  BY DEF r_ref_weak_ref, Idle, Goto
<1>2. RefType
  BY DEF RefInv
<1>3. RefType'
  <2>1. lock' \in [r : SUBSET RefThreads, w : SUBSET RefThreads]
    BY <1>1, <1>2, Zenon DEF RefType
  <2>2. next' \in [RefThreads -> Seq(Weaks)]
    BY <1>1, <1>2 DEF RefType
  <2>3. rpc' \in [RefThreads -> {"idle", "exchange", "call", "cas", "load", "store"}]
        /\ arg' \in [RefThreads -> Weaks \cup {0}]
    BY <1>1, <1>2 DEF RefType
  <2> QED BY <1>1, <1>2, <2>1, <2>2, <2>3, Zenon DEF RefType
<1>4. Holds(weaklst)
  BY <1>1, Alive
<1>5. RefCounted' /\ Standing'
  BY <1>1, <1>4, WeakKeeps, Zenon DEF Holds
<1>6. Locked'
  <2>1. lock'.r = lock.r \cup {t} /\ lock'.w = {}
    BY <1>1, <1>2 DEF RefType
  <2>2. \A u \in RefThreads : /\ u \in lock'.r <=> rpc'[u] = "cas"
                              /\ u \in lock'.w <=> rpc'[u] \in {"load", "store"}
    BY <1>1, <1>2, <2>1 DEF RefInv, RefType, Locked, LockOwners, OneWriter, NewWeaks, ListRead
  <2>3. \A u \in RefThreads : rpc'[u] = "cas" =>
          /\ arg'[u] \in Weaks \ live'
          /\ \A v \in RefThreads \ {u} : rpc'[v] = "cas" => arg'[v] # arg'[u]
    BY <1>1, <1>2 DEF RefInv, RefType, Locked, LockOwners, OneWriter, NewWeaks, ListRead
  <2>4. \A u \in RefThreads : rpc'[u] = "store" => next'[u] = weaklst'
    BY <1>1, <1>2 DEF RefInv, RefType, Locked, LockOwners, OneWriter, NewWeaks, ListRead
  <2>5. \A u \in lock'.w : lock'.w = {u} /\ lock'.r = {}
    BY <2>1
  <2>6. LockOwners' /\ OneWriter'
    BY <2>2, <2>5 DEF LockOwners, OneWriter
  <2>7. NewWeaks'
    BY <2>3 DEF NewWeaks
  <2>8. ListRead'
    BY <2>4 DEF ListRead
  <2> QED BY <2>6, <2>7, <2>8 DEF Locked
<1> QED BY <1>3, <1>5, <1>6 DEF RefInv

\* The exchange puts it in front, or reads the list again.
LEMMA WeakCasStep ==
  ASSUME RefInv, NEW t \in RefThreads, r_ref_weak_ref_cas(t)
  PROVE  RefInv'
<1>1. rpc[t] = "cas" /\ held[t] > 0 /\ UNCHANGED <<refcount, destroyed, held, called>>
  BY DEF RefInv, RefCounted, r_ref_weak_ref_cas
<1>2. RefType /\ Locked
  BY DEF RefInv
<1>3. Holds(weaklst)
  BY <1>1, Alive
<1>4. t \in lock.r /\ lock.w = {} /\ arg[t] \in Weaks /\ arg[t] \notin live
  BY <1>1, <1>2 DEF Locked, LockOwners, OneWriter, NewWeaks, ListRead
<1>5. CASE /\ weaklst' = <<arg[t]>> \o weaklst /\ live' = live \cup {arg[t]}
           /\ lock' = [lock EXCEPT !.r = lock.r \ {t}] /\ rpc' = [rpc EXCEPT ![t] = "idle"]
           /\ arg' = [arg EXCEPT ![t] = 0] /\ next' = next
  <2>1. IsList(Weaks, weaklst)' /\ ToSet(weaklst') = live'
    BY <1>3, <1>4, <1>5, Prepended DEF Holds
  <2>2. RefType'
    BY <1>1, <1>2, <1>4, <1>5, <2>1, Zenon DEF RefType, IsList
  <2>3. RefCounted' /\ Standing'
    BY <1>1, <1>5, <2>1, WeakKeeps, Zenon
  <2>4. lock'.r = lock.r \ {t} /\ lock'.w = {}
    BY <1>2, <1>4, <1>5 DEF RefType
  <2>5. \A u \in RefThreads : /\ u \in lock'.r <=> rpc'[u] = "cas"
                              /\ u \in lock'.w <=> rpc'[u] \in {"load", "store"}
    BY <1>1, <1>2, <1>4, <1>5, <2>4 DEF RefType, Locked, LockOwners, OneWriter, NewWeaks, ListRead
  <2>6. \A u \in RefThreads : rpc'[u] = "cas" => u # t /\ rpc[u] = "cas" /\ arg'[u] = arg[u]
    BY <1>2, <1>5 DEF RefType
  <2>7. \A u \in RefThreads : rpc'[u] = "cas" =>
          /\ arg'[u] \in Weaks \ live'
          /\ \A v \in RefThreads \ {u} : rpc'[v] = "cas" => arg'[v] # arg'[u]
    BY <1>1, <1>2, <1>5, <2>6 DEF Locked, LockOwners, OneWriter, NewWeaks, ListRead
  <2>8. \A u \in RefThreads : rpc'[u] # "store"
    BY <1>2, <1>4, <1>5 DEF RefType, Locked, LockOwners, OneWriter, NewWeaks, ListRead
  <2>9. \A u \in lock'.w : lock'.w = {u} /\ lock'.r = {}
    BY <2>4
  <2>10. LockOwners' /\ OneWriter'
    BY <2>5, <2>9 DEF LockOwners, OneWriter
  <2>11. NewWeaks'
    BY <2>7 DEF NewWeaks
  <2>12. ListRead'
    BY <2>8 DEF ListRead
  <2>13. Locked'
    BY <2>10, <2>11, <2>12 DEF Locked
  <2> QED BY <2>2, <2>3, <2>13 DEF RefInv
<1>6. CASE next' = [next EXCEPT ![t] = weaklst] /\ UNCHANGED <<weaklst, live, lock, rpc, arg>>
  <2>1. RefType'
    BY <1>1, <1>2, <1>6 DEF RefType
  <2>2. rpc' = [rpc EXCEPT ![t] = "cas"]
    BY <1>1, <1>2, <1>6 DEF RefType
  <2>3. RefCounted' /\ Standing'
    BY <1>1, <1>3, <1>6, <2>2, WeakKeeps, Zenon DEF Holds
  <2>4. Locked'
    BY <1>1, <1>2, <1>6 DEF RefType, Locked, LockOwners, OneWriter, NewWeaks, ListRead
  <2> QED BY <2>1, <2>3, <2>4 DEF RefInv
<1> QED BY <1>5, <1>6 DEF r_ref_weak_ref_cas, Goto

\* The list is claimed for writing.
LEMMA WeakUnrefStep ==
  ASSUME RefInv, NEW t \in RefThreads, NEW w \in Weaks, r_ref_weak_unref(t, w)
  PROVE  RefInv'
<1>1. /\ rpc[t] = "idle" /\ held[t] > 0 /\ lock.w = {} /\ lock.r = {}
      /\ lock' = [lock EXCEPT !.w = {t}]
      /\ rpc' = [rpc EXCEPT ![t] = "load"] /\ arg' = [arg EXCEPT ![t] = w]
      /\ UNCHANGED <<refcount, weaklst, destroyed, held, next, called, live>>
  BY DEF r_ref_weak_unref, Idle, Goto
<1>2. RefType /\ Locked
  BY DEF RefInv
<1>3. RefType'
  BY <1>1, <1>2, Zenon DEF RefType
<1>4. Holds(weaklst)
  BY <1>1, Alive
<1>5. RefCounted' /\ Standing'
  BY <1>1, <1>4, WeakKeeps, Zenon DEF Holds
<1>6. lock'.r = {} /\ lock'.w = {t}
  BY <1>1, <1>2 DEF RefType
<1>7. \A u \in RefThreads : rpc[u] \notin {"cas", "load", "store"}
  BY <1>1, <1>2 DEF Locked, LockOwners
<1>8. \A u \in RefThreads : rpc'[u] = IF u = t THEN "load" ELSE rpc[u]
  BY <1>1, <1>2 DEF RefType
<1>9. LockOwners' /\ OneWriter'
  BY <1>6, <1>7, <1>8 DEF LockOwners, OneWriter
<1>10. NewWeaks' /\ ListRead'
  BY <1>7, <1>8 DEF NewWeaks, ListRead
<1> QED BY <1>3, <1>5, <1>9, <1>10 DEF RefInv, Locked

\* The one writer reads the list, which stands until it stores.
LEMMA WeakLoadStep ==
  ASSUME RefInv, NEW t \in RefThreads, r_ref_weak_unref_load(t)
  PROVE  RefInv'
<1>1. /\ rpc[t] = "load" /\ rpc' = [rpc EXCEPT ![t] = "store"]
      /\ next' = [next EXCEPT ![t] = weaklst]
      /\ UNCHANGED <<refcount, weaklst, destroyed, held, arg, lock, called, live>>
  BY DEF r_ref_weak_unref_load, Goto
<1>2. RefType /\ Locked /\ held[t] > 0
  BY <1>1 DEF RefInv, RefCounted
<1>3. RefType'
  BY <1>1, <1>2 DEF RefType
<1>4. Holds(weaklst)
  BY <1>2, Alive
<1>5. RefCounted' /\ Standing'
  BY <1>1, <1>2, <1>4, WeakKeeps, Zenon DEF Holds
<1>6. \A u \in RefThreads : rpc'[u] = (IF u = t THEN "store" ELSE rpc[u])
                          /\ next'[u] = (IF u = t THEN weaklst ELSE next[u])
  BY <1>1, <1>2 DEF RefType
<1>7. LockOwners' /\ OneWriter'
  BY <1>1, <1>2, <1>6 DEF Locked, LockOwners, OneWriter
<1>8. NewWeaks' /\ ListRead'
  BY <1>1, <1>2, <1>6 DEF Locked, NewWeaks, ListRead
<1> QED BY <1>3, <1>5, <1>7, <1>8 DEF RefInv, Locked

\* It stores the list without the entry, if that was there, and gives up the lock.
LEMMA WeakStoreStep ==
  ASSUME RefInv, NEW t \in RefThreads, r_ref_weak_unref_store(t)
  PROVE  RefInv'
<1>1. /\ rpc[t] = "store" /\ rpc' = [rpc EXCEPT ![t] = "idle"]
      /\ lock' = [r |-> lock.r \ {t}, w |-> lock.w \ {t}] /\ arg' = [arg EXCEPT ![t] = 0]
      /\ UNCHANGED <<refcount, destroyed, held, next, called>>
  BY DEF r_ref_weak_unref_store, Goto
<1>2. RefType /\ Locked /\ held[t] > 0
  BY <1>1 DEF RefInv, RefCounted
<1>3. Holds(weaklst)
  BY <1>2, Alive
<1>4. next[t] = weaklst /\ lock.w = {t} /\ lock.r = {}
  BY <1>1, <1>2 DEF Locked, LockOwners, OneWriter, ListRead
<1>5. IsList(Weaks, weaklst)' /\ ToSet(weaklst') = live'
  <2>1. CASE arg[t] \in ToSet(weaklst)
    <3>1. weaklst' = RemoveFirst(weaklst, arg[t]) /\ live' = live \ {arg[t]}
      BY <1>4, <2>1 DEF r_ref_weak_unref_store
    <3>2. IsList(Weaks, RemoveFirst(weaklst, arg[t]))
          /\ ToSet(RemoveFirst(weaklst, arg[t])) = ToSet(weaklst) \ {arg[t]}
      BY <1>3, <2>1, Removed DEF Holds
    <3> QED BY <1>3, <3>1, <3>2, SMTT(30) DEF Holds
  <2>2. CASE arg[t] \notin ToSet(weaklst)
    BY <1>3, <1>4, <2>2, SMTT(30) DEF r_ref_weak_unref_store, Holds
  <2> QED BY <2>1, <2>2
<1>6. live' \subseteq live
  BY DEF r_ref_weak_unref_store
<1>7. RefType'
  BY <1>1, <1>2, <1>5, <1>6 DEF RefType, IsList
<1>8. RefCounted' /\ Standing'
  BY <1>1, <1>2, <1>5, WeakKeeps, Zenon
<1>9. lock'.r = {} /\ lock'.w = {}
  BY <1>1, <1>4
<1>10. \A u \in RefThreads : rpc'[u] \notin {"cas", "load", "store"}
  <2>1. \A u \in RefThreads : u # t => rpc[u] \notin {"cas", "load", "store"}
    BY <1>2, <1>4 DEF Locked, LockOwners
  <2> QED BY <1>1, <1>2, <2>1 DEF RefType
<1>11. LockOwners' /\ OneWriter' /\ NewWeaks' /\ ListRead'
  BY <1>9, <1>10 DEF LockOwners, OneWriter, NewWeaks, ListRead
<1> QED BY <1>7, <1>8, <1>11 DEF RefInv, Locked

\* Every thread starts with one reference, and nothing is registered.
LEMMA RefStarts == RefInit => RefInv
<1> SUFFICES ASSUME RefInit PROVE RefInv
  OBVIOUS
<1>1. RefType
  <2>1. weaklst \in Seq(Weaks) /\ called \in Seq(Weaks) /\ next \in [RefThreads -> Seq(Weaks)]
    BY DEF RefInit
  <2>2. held \in [RefThreads -> 0 .. MaxRefs]
    BY RefAssumption DEF RefInit
  <2>3. lock \in [r : SUBSET RefThreads, w : SUBSET RefThreads]
    BY DEF RefInit
  <2>4. /\ live \subseteq Weaks /\ destroyed \in BOOLEAN
        /\ rpc \in [RefThreads -> {"idle", "exchange", "call", "cas", "load", "store"}]
        /\ arg \in [RefThreads -> Weaks \cup {0}]
    BY Zenon DEF RefInit
  <2> QED BY <2>1, <2>2, <2>3, <2>4 DEF RefType
<1>2. refcount = Cardinality(Refs)
  <2> DEFINE f == [t \in RefThreads |-> <<t, 1>>]
  <2>1. \A p \in Refs : p[1] \in RefThreads /\ p = <<p[1], 1>>
    BY RefAssumption DEF Refs, RefInit
  <2>2. \A t \in RefThreads : <<t, 1>> \in Refs
    BY RefAssumption DEF Refs, RefInit
  <2>3. f \in Bijection(RefThreads, Refs)
    <3>1. f \in [RefThreads -> Refs]
      BY <2>2
    <3>2. \A t, u \in RefThreads : f[t] = f[u] => t = u
      OBVIOUS
    <3>3. \A p \in Refs : \E t \in RefThreads : f[t] = p
      BY <2>1
    <3> QED BY <3>1, <3>2, <3>3, Zenon DEF Bijection, Injection, Surjection, IsInjective
  <2> QED BY <2>3, RefAssumption, FS_Bijection DEF ExistsBijection, RefInit
<1>3. RefCounted
  BY <1>2 DEF RefInit, RefCounted
<1>4. LockOwners /\ OneWriter /\ NewWeaks /\ ListRead
  BY DEF RefInit, LockOwners, OneWriter, NewWeaks, ListRead
<1>5. Holds(<<>>) /\ Standing
  BY DEF RefInit, Standing, Holds, IsList, ToSet, IsInjective
<1> QED BY <1>1, <1>3, <1>4, <1>5 DEF RefInv, Locked

\* Every step keeps the references' invariant.
LEMMA RefStep == RefInv /\ (RefNext \/ UNCHANGED refVars) => RefInv'
<1>1. ASSUME RefInv, RefNext PROVE RefInv'
  <2>1. PICK t \in RefThreads :
          \/ r_ref_ref(t) \/ r_ref_unref(t) \/ r_ref_unref_exchange(t) \/ r_ref_unref_notify(t)
          \/ \E w \in Weaks : r_ref_weak_ref(t, w) \/ r_ref_weak_unref(t, w)
          \/ r_ref_weak_ref_cas(t) \/ r_ref_weak_unref_load(t) \/ r_ref_weak_unref_store(t)
    BY <1>1 DEF RefNext
  <2> QED BY <1>1, <2>1, CountsStep, LastStep, WeakRefStep, WeakCasStep, WeakUnrefStep,
             WeakLoadStep, WeakStoreStep
<1>2. ASSUME RefInv, UNCHANGED refVars PROVE RefInv'
  <2>1. RefType' /\ Refs' = Refs
    BY <1>2 DEF RefInv, RefType, refVars, Refs
  <2>2. RefCounted'
    BY <1>2, <2>1 DEF RefInv, RefCounted, refVars
  <2>3. LockOwners' /\ OneWriter' /\ NewWeaks' /\ ListRead'
    BY <1>2 DEF RefInv, Locked, LockOwners, OneWriter, NewWeaks, ListRead, refVars
  <2>4. Standing'
    BY <1>2 DEF RefInv, Standing, Holds, refVars
  <2> QED BY <2>1, <2>2, <2>3, <2>4 DEF RefInv, Locked
<1> QED BY <1>1, <1>2

\* What the invariant says of a destroyed object.
LEMMA RefSound == RefInv => WeakOnce
<1> SUFFICES ASSUME RefInv, destroyed PROVE WeakOnce
  BY DEF WeakOnce
<1>1. refcount = 0 /\ \A t \in RefThreads : rpc[t] = "idle"
  BY DEF RefInv, RefCounted
<1>2. \A t \in RefThreads : held[t] = 0
  BY <1>1, NoneHeld
<1>3. ToSet(called) = live /\ IsInjective(called)
  BY DEF RefInv, Standing, Holds, IsList
<1> QED BY <1>1, <1>2, <1>3 DEF WeakOnce

-----------------------------------------------------------------------------
(* Hazard records. *)

\* A record a thread owns is in use, and those in use, listed or still to be
\* tried are among the records that were pushed.
HzrInv ==
  /\ recs \in Seq(1 .. Len(recs)) /\ inuse \subseteq 1 .. Len(recs)
  /\ mine \in [HzrThreads -> inuse \cup {0}]
  /\ at \in [HzrThreads -> Seq(1 .. Len(recs))]
  /\ RecsExclusive

\* No record is there at first, so none has an owner.
LEMMA HzrStarts == HzrInit => HzrInv
BY DEF HzrInit, HzrInv, RecsExclusive

\* A thread claims a record that nobody uses, or passes on to the next.
LEMMA ClaimStep ==
  ASSUME HzrInv, NEW t \in HzrThreads, r_hzr_ptr_rec_new_claim(t)
  PROVE  HzrInv'
<1> DEFINE h == Head(at[t])
<1>0. \A T : \A s \in Seq(T) : s # <<>> => Head(s) \in T /\ Tail(s) \in Seq(T)
  OBVIOUS
<1>1. at[t] \in Seq(1 .. Len(recs)) /\ at[t] # <<>> /\ recs' = recs
  BY DEF HzrInv, r_hzr_ptr_rec_new_claim
<1>2. h \in 1 .. Len(recs) /\ h # 0
  BY <1>0, <1>1
<1>3. CASE h \in inuse
  <2>1. at' = [at EXCEPT ![t] = Tail(at[t])] /\ inuse' = inuse /\ mine' = mine
    BY <1>3 DEF r_hzr_ptr_rec_new_claim
  <2>2. Tail(at[t]) \in Seq(1 .. Len(recs))
    BY <1>0, <1>1, Zenon
  <2> QED BY <1>1, <2>1, <2>2 DEF HzrInv, RecsExclusive
<1>4. CASE h \notin inuse
  <2> HIDE DEF h
  <2>1. /\ inuse' = inuse \cup {h} /\ mine' = [mine EXCEPT ![t] = h]
        /\ at' = [at EXCEPT ![t] = <<>>]
    BY <1>4 DEF r_hzr_ptr_rec_new_claim, h
  <2>2. \A u \in HzrThreads : mine[u] # h
    BY <1>2, <1>4 DEF HzrInv
  <2>3. RecsExclusive'
    BY <2>1, <2>2 DEF HzrInv, RecsExclusive
  <2>4. mine' \in [HzrThreads -> inuse' \cup {0}]
    BY <2>1 DEF HzrInv
  <2>5. at' \in [HzrThreads -> Seq(1 .. Len(recs))]
    <3> DEFINE T == Seq(1 .. Len(recs))
    <3>1. <<>> \in T /\ at \in [HzrThreads -> T]
      BY DEF HzrInv
    <3> HIDE DEF T
    <3>2. at' \in [HzrThreads -> T]
      BY <2>1, <3>1
    <3> QED BY <3>2 DEF T
  <2>6. inuse' \subseteq 1 .. Len(recs) /\ recs \in Seq(1 .. Len(recs))
    BY <1>2, <2>1 DEF HzrInv
  <2> QED BY <1>1, <2>3, <2>4, <2>5, <2>6, Zenon DEF HzrInv
<1> QED BY <1>3, <1>4

\* A pushed record is new.
LEMMA PushStep ==
  ASSUME HzrInv, NEW t \in HzrThreads, r_hzr_ptr_rec_new_push(t)
  PROVE  HzrInv'
<1> DEFINE n == Len(recs)
<1>1. /\ recs' = <<n + 1>> \o recs /\ inuse' = inuse \cup {n + 1}
      /\ mine' = [mine EXCEPT ![t] = n + 1] /\ at' = at
  BY DEF r_hzr_ptr_rec_new_push
<1>2. n \in Nat /\ recs \in Seq(1 .. n) /\ inuse \subseteq 1 .. n
  BY DEF HzrInv
<1>3. Len(recs') = n + 1
  BY <1>1, <1>2
<1>4. \A s \in Seq(1 .. n) : s \in Seq(1 .. n + 1)
  BY <1>2
<1>5. recs' \in Seq(1 .. n + 1)
  <2>1. <<n + 1>> \in Seq(1 .. n + 1) /\ recs \in Seq(1 .. n + 1)
    BY <1>2, <1>4
  <2> HIDE DEF n
  <2> QED BY <1>1, <2>1
<1>6. at' \in [HzrThreads -> Seq(1 .. n + 1)]
  BY <1>1, <1>4 DEF HzrInv
<1> HIDE DEF n
<1>7. n + 1 \notin inuse /\ n + 1 # 0 /\ inuse' \subseteq 1 .. n + 1
  BY <1>1, <1>2
<1>8. RecsExclusive'
  <2>1. \A u \in HzrThreads : mine[u] # n + 1
    BY <1>7 DEF HzrInv
  <2> QED BY <1>1, <2>1 DEF HzrInv, RecsExclusive
<1>9. mine' \in [HzrThreads -> inuse' \cup {0}]
  BY <1>1 DEF HzrInv
<1> QED BY <1>3, <1>5, <1>6, <1>7, <1>8, <1>9 DEF HzrInv

\* Its owner gives a record back.
LEMMA FreeStep ==
  ASSUME HzrInv, NEW t \in HzrThreads, r_hzr_ptr_rec_free(t)
  PROVE  HzrInv'
<1>1. /\ inuse' = inuse \ {mine[t]} /\ mine' = [mine EXCEPT ![t] = 0]
      /\ recs' = recs /\ at' = at
  BY DEF r_hzr_ptr_rec_free
<1>2. \A u \in HzrThreads : u # t /\ mine[u] # 0 => mine[u] # mine[t]
  BY DEF HzrInv, RecsExclusive
<1>3. mine' \in [HzrThreads -> inuse' \cup {0}]
  BY <1>1, <1>2 DEF HzrInv
<1>4. RecsExclusive'
  BY <1>1 DEF HzrInv, RecsExclusive
<1> QED BY <1>1, <1>3, <1>4, Zenon DEF HzrInv

\* Every step keeps the records' invariant.
LEMMA HzrStep == HzrInv /\ (HzrNext \/ UNCHANGED hzrVars) => HzrInv'
<1>1. ASSUME HzrInv, UNCHANGED <<recs, inuse, mine>>, at' \in [HzrThreads -> Seq(1 .. Len(recs))]
      PROVE  HzrInv'
  BY <1>1 DEF HzrInv, RecsExclusive
<1>2. ASSUME HzrInv, NEW t \in HzrThreads,
             r_hzr_ptr_rec_new_load(t) \/ r_hzr_ptr_replace(t) \/ r_hzr_ptr_rec_scan(t)
      PROVE  HzrInv'
  <2>1. at' = [at EXCEPT ![t] = recs] \/ at' = at \/ at' = [at EXCEPT ![t] = <<>>]
    BY <1>2 DEF r_hzr_ptr_rec_new_load, r_hzr_ptr_replace, r_hzr_ptr_rec_scan
  <2>2. at' \in [HzrThreads -> Seq(1 .. Len(recs))]
    <3> DEFINE T == Seq(1 .. Len(recs))
    <3>1. recs \in T /\ <<>> \in T /\ at \in [HzrThreads -> T]
      BY <1>2 DEF HzrInv
    <3> HIDE DEF T
    <3>2. at' \in [HzrThreads -> T]
      BY <2>1, <3>1
    <3> QED BY <3>2 DEF T
  <2>3. UNCHANGED <<recs, inuse, mine>>
    BY <1>2 DEF r_hzr_ptr_rec_new_load, r_hzr_ptr_replace, r_hzr_ptr_rec_scan
  <2> QED BY <1>1, <1>2, <2>2, <2>3
<1>3. ASSUME HzrInv, UNCHANGED <<recs, inuse, mine, at>> PROVE HzrInv'
  BY <1>3, <1>1 DEF HzrInv
<1>4. ASSUME HzrInv, NEW t \in HzrThreads,
             \/ r_hzr_ptr_acquire(t) \/ r_hzr_ptr_acquire_publish(t)
             \/ r_hzr_ptr_acquire_recheck(t) \/ r_hzr_ptr_release(t)
      PROVE  HzrInv'
  BY Zenon, <1>4, <1>3 DEF r_hzr_ptr_acquire, r_hzr_ptr_acquire_publish, r_hzr_ptr_acquire_recheck,
                    r_hzr_ptr_release
<1>5. ASSUME HzrInv, HzrNext PROVE HzrInv'
  BY <1>5, <1>2, <1>4, ClaimStep, PushStep, FreeStep DEF HzrNext
<1>6. ASSUME HzrInv, UNCHANGED hzrVars PROVE HzrInv'
  BY <1>6, <1>3 DEF hzrVars
<1> QED BY <1>5, <1>6

\* However many threads share the object and the hazard pointer: when the last
\* r_ref_unref has destroyed the object, its registered notifiers were called once
\* each and no thread is still inside it (rref.c:49-62); a hazard record never has
\* two owners (rhzrptr.c:116-139).
THEOREM AlwaysHandedOver == ReclaimSpec => []HandedOver
<1> DEFINE Inv == RefInv /\ HzrInv
           Step == (RefNext /\ UNCHANGED hzrVars) \/ (HzrNext /\ UNCHANGED refVars)
<1>1. RefInit /\ HzrInit => Inv
  BY RefStarts, HzrStarts
<1>2. Inv /\ [Step]_<<refVars, hzrVars>> => Inv'
  BY RefStep, HzrStep
<1>3. Inv => HandedOver
  BY RefSound DEF HzrInv, HandedOver
<1> HIDE DEF Inv
<1> QED BY <1>1, <1>2, <1>3, PTL DEF ReclaimSpec
=============================================================================
