------------------------------ MODULE Reclaim -------------------------------
(***************************************************************************)
(* Reference counts with weak references (rlib/rref.c), one atomic access  *)
(* per step.  RefThreads share one object; held is how many references     *)
(* each has.  weaklst is the list of weak registrations, newest first,     *)
(* next the head a thread in r_ref_weak_ref expects, and called the        *)
(* registrations whose notifier has run.  As the code asks, r_ref_weak_ref *)
(* and r_ref_weak_unref are called by threads that hold a reference.       *)
(***************************************************************************)
EXTENDS Integers, Sequences, SequencesExt

CONSTANTS RefThreads, Weaks, MaxRefs

ASSUME RefAssumption == IsFiniteSet(RefThreads) /\ MaxRefs \in Nat \ {0}

VARIABLES refcount, weaklst, destroyed, held, rpc, arg, next, lock, called, live
refVars == <<refcount, weaklst, destroyed, held, rpc, arg, next, lock, called, live>>

RefInit ==
  /\ refcount = Cardinality(RefThreads) /\ weaklst = << >> /\ destroyed = FALSE
  /\ held = [t \in RefThreads |-> 1] /\ rpc = [t \in RefThreads |-> "idle"] /\ arg = [t \in RefThreads |-> 0]
  /\ next = [t \in RefThreads |-> << >>] /\ lock = [r |-> {}, w |-> {}]
  /\ called = << >> /\ live = {}

Idle(t) == rpc[t] = "idle" /\ held[t] > 0
Goto(t, l) == rpc' = [rpc EXCEPT ![t] = l]

r_ref_ref(t) ==
  /\ Idle(t) /\ held[t] < MaxRefs
  /\ refcount' = refcount + 1 /\ held' = [held EXCEPT ![t] = @ + 1]
  /\ UNCHANGED <<weaklst, destroyed, rpc, arg, next, lock, called, live>>
r_ref_unref(t) ==
  /\ Idle(t)
  /\ refcount' = refcount - 1 /\ held' = [held EXCEPT ![t] = @ - 1]
  /\ Goto(t, IF refcount = 1 THEN "exchange" ELSE "idle")
  /\ UNCHANGED <<weaklst, destroyed, arg, next, lock, called, live>>
r_ref_unref_exchange(t) ==
  /\ rpc[t] = "exchange" /\ Goto(t, "call")
  /\ next' = [next EXCEPT ![t] = weaklst] /\ weaklst' = << >>
  /\ UNCHANGED <<refcount, destroyed, held, arg, lock, called, live>>
r_ref_unref_notify(t) ==
  /\ rpc[t] = "call" /\ Goto(t, "idle")
  /\ called' = called \o next[t] /\ destroyed' = TRUE
  /\ UNCHANGED <<refcount, weaklst, held, arg, next, lock, live>>

(* The new entry's next is NULL at first and what the exchange found after. *)
r_ref_weak_ref(t, w) ==
  /\ Idle(t) /\ w \notin live /\ w \notin ToSet(called)
  /\ \A u \in RefThreads : arg[u] # w
  /\ lock.w = {} /\ lock' = [lock EXCEPT !.r = @ \cup {t}]
  /\ Goto(t, "cas") /\ arg' = [arg EXCEPT ![t] = w] /\ next' = [next EXCEPT ![t] = << >>]
  /\ UNCHANGED <<refcount, weaklst, destroyed, held, called, live>>
r_ref_weak_ref_cas(t) ==
  /\ rpc[t] = "cas"
  /\ \/ /\ weaklst = next[t]
        /\ weaklst' = <<arg[t]>> \o weaklst /\ live' = live \cup {arg[t]}
        /\ lock' = [lock EXCEPT !.r = @ \ {t}] /\ Goto(t, "idle") /\ arg' = [arg EXCEPT ![t] = 0]
        /\ UNCHANGED next
     \/ /\ next' = [next EXCEPT ![t] = weaklst]      \* failed, or failed spuriously
        /\ UNCHANGED <<weaklst, live, lock, rpc, arg>>
  /\ UNCHANGED <<refcount, destroyed, held, called>>

\* mutant: r_ref_weak_unref takes the lock for reading only
weak_unref_shared(t, w) ==
  /\ Idle(t) /\ w \in live
  /\ lock.w = {} /\ lock' = [lock EXCEPT !.r = @ \cup {t}]
  /\ Goto(t, "load") /\ arg' = [arg EXCEPT ![t] = w]
  /\ UNCHANGED <<refcount, weaklst, destroyed, held, next, called, live>>
r_ref_weak_unref(t, w) ==
  /\ Idle(t) /\ w \in live
  /\ lock.w = {} /\ lock.r = {} /\ lock' = [lock EXCEPT !.w = {t}]
  /\ Goto(t, "load") /\ arg' = [arg EXCEPT ![t] = w]
  /\ UNCHANGED <<refcount, weaklst, destroyed, held, next, called, live>>
r_ref_weak_unref_load(t) ==
  /\ rpc[t] = "load" /\ Goto(t, "store")
  /\ next' = [next EXCEPT ![t] = weaklst]
  /\ UNCHANGED <<refcount, weaklst, destroyed, held, arg, lock, called, live>>
r_ref_weak_unref_store(t) ==
  /\ rpc[t] = "store" /\ Goto(t, "idle")
  /\ IF arg[t] \in ToSet(next[t])
     THEN weaklst' = RemoveFirst(next[t], arg[t]) /\ live' = live \ {arg[t]}
     ELSE UNCHANGED <<weaklst, live>>
  /\ lock' = [r |-> lock.r \ {t}, w |-> lock.w \ {t}] /\ arg' = [arg EXCEPT ![t] = 0]
  /\ UNCHANGED <<refcount, destroyed, held, next, called>>

RefNext == \E t \in RefThreads :
  \/ r_ref_ref(t) \/ r_ref_unref(t) \/ r_ref_unref_exchange(t) \/ r_ref_unref_notify(t)
  \/ \E w \in Weaks : r_ref_weak_ref(t, w) \/ r_ref_weak_unref(t, w)
  \/ r_ref_weak_ref_cas(t) \/ r_ref_weak_unref_load(t) \/ r_ref_weak_unref_store(t)

(* r_ref_unref calls the registrations that were not withdrawn, each once, and *)
(* then destroys the object, while no thread is still inside it (rref.c:49-62; *)
(* the lists are changed under a lock that r_ref_unref does not take).     *)
WeakOnce ==
  /\ destroyed => ToSet(called) = live /\ IsInjective(called)
  /\ destroyed => \A t \in RefThreads : held[t] = 0 /\ rpc[t] = "idle"

-----------------------------------------------------------------------------
(***************************************************************************)
(* Hazard pointers (rlib/data/rhzrptr.c), one shared access per step.      *)
(* recs is the global list of records, newest first; inuse and ptr are     *)
(* their fields, rlist what the thread owning a record has retired and     *)
(* not dropped.  Slot is hzrptr->ptr; the values it goes through are 1, 2, *)
(* ...; notified the values hzrptr->notify was called on.                  *)
(***************************************************************************)
CONSTANTS HzrThreads, MaxValue, MaxRecs

VARIABLES slot, recs, inuse, hptr, rlist, mine, at, see, hpc, notified
hzrVars == <<slot, recs, inuse, hptr, rlist, mine, at, see, hpc, notified>>

Recs == 1..MaxRecs
HzrInit ==
  /\ slot = 0 /\ recs = << >> /\ inuse = {} /\ hptr = [r \in Recs |-> 0] /\ rlist = [r \in Recs |-> << >>]
  /\ mine = [t \in HzrThreads |-> 0] /\ at = [t \in HzrThreads |-> << >>] /\ see = [t \in HzrThreads |-> 0]
  /\ hpc = [t \in HzrThreads |-> "new"] /\ notified = {}

HGoto(t, l) == hpc' = [hpc EXCEPT ![t] = l]
(* r_hzr_ptr_rec_new: load the list, try to claim each record, else push one. *)
r_hzr_ptr_rec_new_load(t) ==
  /\ hpc[t] = "new" /\ HGoto(t, "claim") /\ at' = [at EXCEPT ![t] = recs]
  /\ UNCHANGED <<slot, recs, inuse, hptr, rlist, mine, see, notified>>
r_hzr_ptr_rec_new_claim(t) ==
  /\ hpc[t] = "claim" /\ at[t] # << >>
  /\ IF Head(at[t]) \in inuse
     THEN at' = [at EXCEPT ![t] = Tail(@)] /\ UNCHANGED <<hpc, inuse, mine>>
     ELSE /\ HGoto(t, "idle") /\ inuse' = inuse \cup {Head(at[t])}
          /\ mine' = [mine EXCEPT ![t] = Head(at[t])] /\ at' = [at EXCEPT ![t] = << >>]
  /\ UNCHANGED <<slot, recs, hptr, rlist, see, notified>>
r_hzr_ptr_rec_new_push(t) ==
  /\ hpc[t] = "claim" /\ at[t] = << >> /\ Len(recs) < MaxRecs
  /\ HGoto(t, "idle") /\ recs' = <<Len(recs) + 1>> \o recs
  /\ inuse' = inuse \cup {Len(recs) + 1} /\ mine' = [mine EXCEPT ![t] = Len(recs) + 1]
  /\ UNCHANGED <<slot, hptr, rlist, at, see, notified>>
r_hzr_ptr_rec_free(t) ==
  /\ hpc[t] = "idle" /\ HGoto(t, "new")
  /\ inuse' = inuse \ {mine[t]} /\ mine' = [mine EXCEPT ![t] = 0]
  /\ UNCHANGED <<slot, recs, hptr, rlist, at, see, notified>>

r_hzr_ptr_acquire(t) ==
  /\ hpc[t] \in {"idle", "retry"} /\ HGoto(t, "publish") /\ see' = [see EXCEPT ![t] = slot]
  /\ UNCHANGED <<slot, recs, inuse, hptr, rlist, mine, at, notified>>
r_hzr_ptr_acquire_publish(t) ==
  /\ hpc[t] = "publish" /\ HGoto(t, "recheck") /\ hptr' = [hptr EXCEPT ![mine[t]] = see[t]]
  /\ UNCHANGED <<slot, recs, inuse, rlist, mine, at, see, notified>>
r_hzr_ptr_acquire_recheck(t) ==
  /\ hpc[t] = "recheck" /\ HGoto(t, IF slot = see[t] THEN "held" ELSE "retry")
  /\ UNCHANGED <<slot, recs, inuse, hptr, rlist, mine, at, see, notified>>
r_hzr_ptr_release(t) ==
  /\ hpc[t] = "held" /\ HGoto(t, "idle") /\ hptr' = [hptr EXCEPT ![mine[t]] = 0]
  /\ UNCHANGED <<slot, recs, inuse, rlist, mine, at, see, notified>>

(* r_hzr_ptr_replace: the displaced value is retired; the threshold            *)
(* R_HZR_PTR_R is never raised from 0, so every retirement scans.          *)
r_hzr_ptr_replace(t) ==
  /\ hpc[t] = "idle" /\ slot < MaxValue
  /\ slot' = slot + 1
  /\ IF slot = 0 THEN UNCHANGED <<rlist, hpc, at, see>>
     ELSE /\ rlist' = [rlist EXCEPT ![mine[t]] = <<slot>> \o @]
          /\ HGoto(t, "scan") /\ at' = [at EXCEPT ![t] = recs] /\ UNCHANGED see
  /\ UNCHANGED <<recs, inuse, hptr, mine, notified>>
(* plist: the hazards of the records, collected here in one step; a value seen *)
(* in none leaves rlist, whose nodes are freed and no notifier called.     *)
r_hzr_ptr_rec_scan(t) ==
  /\ hpc[t] = "scan" /\ HGoto(t, "idle") /\ at' = [at EXCEPT ![t] = << >>]
  /\ rlist' = [rlist EXCEPT ![mine[t]] = SelectSeq(@, LAMBDA v : \E r \in ToSet(at[t]) : hptr[r] = v)]
  /\ UNCHANGED <<slot, recs, inuse, hptr, mine, see, notified>>

HzrNext == \E t \in HzrThreads :
  \/ r_hzr_ptr_rec_new_load(t) \/ r_hzr_ptr_rec_new_claim(t) \/ r_hzr_ptr_rec_new_push(t) \/ r_hzr_ptr_rec_free(t)
  \/ r_hzr_ptr_acquire(t) \/ r_hzr_ptr_acquire_publish(t) \/ r_hzr_ptr_acquire_recheck(t) \/ r_hzr_ptr_release(t)
  \/ r_hzr_ptr_replace(t) \/ r_hzr_ptr_rec_scan(t)

\* An object and a hazard pointer, which share nothing.
ReclaimSpec ==
  /\ RefInit /\ HzrInit
  /\ [][(RefNext /\ UNCHANGED hzrVars) \/ (HzrNext /\ UNCHANGED refVars)]_<<refVars, hzrVars>>

(* A hazard record belongs to one thread at a time, also when several claim    *)
(* freed records or push new ones at once (rhzrptr.c:116-139).             *)
RecsExclusive == \A t, u \in HzrThreads : t # u /\ mine[t] # 0 => mine[t] # mine[u]
(* No thread touches what another has given up: the weak references of an      *)
(* RRef are notified once (rref.c), and a hazard record has one owner      *)
(* (rhzrptr.c).                                                            *)
HandedOver == WeakOnce /\ RecsExclusive
(* "The previous value is freed via hzrptr->notify once no RHzrPtrRec still    *)
(* holds a hazard on it" (rhzrptr.h): a displaced value is retired or freed.   *)
Reclaimed == \A v \in 1..slot - 1 : v \in notified \/ \E r \in Recs : v \in ToSet(rlist[r])
=============================================================================
