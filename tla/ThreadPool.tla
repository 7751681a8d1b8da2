----------------------------- MODULE ThreadPool ------------------------------
(***************************************************************************)
(* The thread pool of rlib/concurrency/rthreadpool.c, with the life of its *)
(* RThread objects (rlib/concurrency/rthreads.c).                          *)
(*                                                                         *)
(* A client that starts a worker keeps the arguments of the worker in its  *)
(* own stack frame and sleeps on pool->cond until the worker has moved     *)
(* itself from pool->waiting_for_thread to pool->active.  An RThread is    *)
(* reference counted: the pool's lists, the trampoline (through the thread *)
(* specific storage) and each copy made by r_thread_pool_join hold one     *)
(* reference each.                                                         *)
(*                                                                         *)
(* pool->mutex is only released inside a critical section by r_cond_wait,  *)
(* so a critical section is one action, cut at the wait.                   *)
(***************************************************************************)
EXTENDS Integers, SequencesExt

CONSTANTS Threads,   \* the RThread objects r_thread_new may return
          Clients,   \* threads of the program that use the pool
          NoThread       \* NULL

\* What the constants stand for.
ASSUME ThreadPoolAssumption ==
  /\ IsFiniteSet(Threads) /\ IsFiniteSet(Clients)
  /\ NoThread \notin Threads \cup Clients

VARIABLES thr,      \* how far each OS thread is in r_thread_trampoline
          refs,     \* reference count of each RThread; 0: freed, or not allocated
          joined,   \* thread->joined
          waiting,  \* pool->waiting_for_thread
          active,   \* pool->active
          done,     \* pool->done
          running,  \* pool->running
          cond,     \* clients asleep on pool->cond
          pc,       \* the call each client executes
          cur,      \* ret in the frame of r_thread_pool_start_thread_internal
          copy,     \* copy in the frame of r_thread_pool_join
          phase,    \* "open", "joined" or "freed"
          aborted   \* an r_assert failed

poolVars == <<thr, refs, joined, waiting, active, done, running, cond, pc, cur, copy,
          phase, aborted>>

\* r_thread_pool_new
PoolInit ==
  /\ thr = [t \in Threads |-> "none"]
  /\ refs = [t \in Threads |-> 0]
  /\ joined = [t \in Threads |-> FALSE]
  /\ waiting = NoThread
  /\ active = <<>> /\ done = <<>>
  /\ running = 0
  /\ cond = {}
  /\ pc = [c \in Clients |-> "idle"]
  /\ cur = [c \in Clients |-> NoThread]
  /\ copy = [c \in Clients |-> <<>>]
  /\ phase = "open"
  /\ aborted = FALSE

Live == phase # "freed" /\ ~aborted

(***************************************************************************)
(* Starting a worker.                                                      *)
(***************************************************************************)

\* A new RThread: one reference for the caller, one for the trampoline.  When
\* the OS refuses the thread both are dropped again, NULL is returned and the
\* start call returns FALSE: no step.
r_thread_new(t) ==
  /\ thr[t] = "none"
  /\ thr' = [thr EXCEPT ![t] = "born"]
  /\ refs' = [refs EXCEPT ![t] = 2]

\* The start call up to r_cond_wait.
r_thread_pool_start_thread_internal(c, t) ==
  /\ Live /\ pc[c] = "idle"
  /\ IF waiting # NoThread
     THEN /\ thr[t] = "none"
          /\ aborted' = TRUE
          /\ UNCHANGED <<thr, refs, waiting, cond, pc, cur>>
     ELSE /\ r_thread_new(t)
          /\ waiting' = t
          /\ cond' = cond \cup {c}
          /\ pc' = [pc EXCEPT ![c] = "start"]
          /\ cur' = [cur EXCEPT ![c] = t]
          /\ UNCHANGED aborted
  /\ UNCHANGED <<joined, active, done, running, copy, phase>>

\* mutant: the wait is not repeated
StartWakeOnce(c) ==
  /\ ~aborted /\ pc[c] = "start" /\ c \notin cond
  /\ pc' = [pc EXCEPT ![c] = "idle"]
  /\ cur' = [cur EXCEPT ![c] = NoThread]
  /\ UNCHANGED <<cond, thr, refs, joined, waiting, active, done, running, copy, phase, aborted>>

\* The loop around r_cond_wait, and the return.
StartWake(c) ==
  /\ ~aborted /\ pc[c] = "start" /\ c \notin cond
  /\ IF waiting # NoThread
     THEN cond' = cond \cup {c} /\ UNCHANGED <<pc, cur>>
     ELSE /\ pc' = [pc EXCEPT ![c] = "idle"]
          /\ cur' = [cur EXCEPT ![c] = NoThread]
          /\ UNCHANGED cond
  /\ UNCHANGED <<thr, refs, joined, waiting, active, done, running, copy, phase, aborted>>

\* r_cond_wait may return without a signal.
SpuriousCond(c) ==
  /\ ~aborted /\ c \in cond
  /\ cond' = cond \ {c}
  /\ UNCHANGED <<thr, refs, joined, waiting, active, done, running, pc, cur, copy, phase, aborted>>

(***************************************************************************)
(* The worker: r_thread_trampoline calls r_thread_pool_proxy.              *)
(***************************************************************************)

\* The trampoline stores itself in the thread specific storage; the proxy
\* reads its two arguments from the frame of the client that started it.
ProxyRead(t) ==
  /\ ~aborted /\ thr[t] = "born"
  /\ thr' = [thr EXCEPT ![t] = "proxy"]
  /\ UNCHANGED <<refs, joined, waiting, active, done, running, cond, pc, cur, copy, phase, aborted>>

\* First critical section of the proxy.
ProxyEnter(t) ==
  /\ ~aborted /\ thr[t] = "proxy"
  /\ IF waiting # t
     THEN /\ aborted' = TRUE
          /\ UNCHANGED <<active, waiting, cond, running, thr>>
     ELSE /\ active' = <<t>> \o active
          /\ waiting' = NoThread
          /\ IF cond = {} THEN UNCHANGED cond
                          ELSE \E c \in cond : cond' = cond \ {c}
          /\ running' = running + 1
          /\ thr' = [thr EXCEPT ![t] = "func"]
          /\ UNCHANGED aborted
  /\ UNCHANGED <<refs, joined, done, pc, cur, copy, phase>>

\* pool->func has returned: second critical section of the proxy.
ProxyLeave(t) ==
  /\ ~aborted /\ thr[t] = "func"
  /\ running' = running - 1
  /\ active' = RemoveFirst(active, t)
  /\ done' = <<t>> \o done
  /\ thr' = [thr EXCEPT ![t] = "ended"]
  /\ UNCHANGED <<refs, joined, waiting, cond, pc, cur, copy, phase, aborted>>

\* The trampoline returns; the destructor of the thread specific storage
\* drops its reference.
TrampolineEnd(t) ==
  /\ ~aborted /\ thr[t] = "ended"
  /\ thr' = [thr EXCEPT ![t] = "exited"]
  /\ refs' = [refs EXCEPT ![t] = @ - 1]
  /\ UNCHANGED <<joined, waiting, active, done, running, cond, pc, cur, copy, phase, aborted>>

(***************************************************************************)
(* Joining and freeing.                                                    *)
(***************************************************************************)

\* Both lists are copied by prepending, with a reference for every element.
r_thread_pool_join(c) ==
  /\ Live /\ pc[c] = "idle"
  /\ copy' = [copy EXCEPT ![c] = Reverse(done) \o Reverse(active)]
  /\ refs' = [t \in Threads |-> refs[t] + IF t \in ToSet(active \o done) THEN 1 ELSE 0]
  /\ pc' = [pc EXCEPT ![c] = "join"]
  /\ UNCHANGED <<thr, joined, waiting, active, done, running, cond, cur, phase, aborted>>

\* r_thread_join_unref on the next element.  The first joiner blocks in
\* pthread_join until the OS thread has gone, the others on join_mutex.
r_thread_join_unref(c) ==
  /\ ~aborted /\ pc[c] = "join" /\ copy[c] # <<>>
  /\ LET t == Head(copy[c]) IN
       /\ joined[t] \/ thr[t] = "exited"
       /\ joined' = [joined EXCEPT ![t] = TRUE]
       /\ refs' = [refs EXCEPT ![t] = @ - 1]
  /\ copy' = [copy EXCEPT ![c] = Tail(@)]
  /\ UNCHANGED <<thr, waiting, active, done, running, cond, pc, cur, phase, aborted>>

\* The join returns; no worker is started afterwards.
JoinReturn(c) ==
  /\ ~aborted /\ pc[c] = "join" /\ copy[c] = <<>>
  /\ pc' = [pc EXCEPT ![c] = "idle"]
  /\ phase' = "joined"
  /\ UNCHANGED <<thr, refs, joined, waiting, active, done, running, cond, cur, copy, aborted>>

\* The last reference to the pool is dropped.
r_thread_pool_free ==
  /\ Live
  /\ IF waiting # NoThread \/ active # <<>>
     THEN aborted' = TRUE /\ UNCHANGED <<refs, done, phase>>
     ELSE /\ refs' = [t \in Threads |-> refs[t] - IF t \in ToSet(done) THEN 1 ELSE 0]
          /\ done' = <<>>
          /\ phase' = "freed"
          /\ UNCHANGED aborted
  /\ UNCHANGED <<thr, joined, waiting, active, running, cond, pc, cur, copy>>

-----------------------------------------------------------------------------
(***************************************************************************)
(* The program: workers are started by one thread at a time and before the *)
(* join, and the pool is released after the join, by the last client that  *)
(* still uses it.  r_task_queue_free is such a program.                    *)
(***************************************************************************)
AllIdle == \A c \in Clients : pc[c] = "idle"

ClientStep(c) ==
  \/ /\ phase = "open" /\ AllIdle
     /\ \E t \in Threads : r_thread_pool_start_thread_internal(c, t)
  \/ StartWake(c)
  \/ /\ \A d \in Clients : pc[d] # "start"
     /\ r_thread_pool_join(c)
  \/ r_thread_join_unref(c)
  \/ JoinReturn(c)

FreePool == phase = "joined" /\ AllIdle /\ r_thread_pool_free

WorkerStep(t) == ProxyRead(t) \/ ProxyEnter(t) \/ ProxyLeave(t) \/ TrampolineEnd(t)

PoolNext ==
  \/ \E c \in Clients : ClientStep(c) \/ SpuriousCond(c)
  \/ \E t \in Threads : WorkerStep(t)
  \/ FreePool

PoolSpec == PoolInit /\ [][PoolNext]_poolVars

\* A program whose threads start workers without regard to each other aborts.
ConcurrentStart ==
  \E c \in Clients, t \in Threads :
    phase = "open" /\ r_thread_pool_start_thread_internal(c, t)
ConcurrentSpec == PoolInit /\ [][PoolNext \/ ConcurrentStart]_poolVars

-----------------------------------------------------------------------------
(***************************************************************************)
(* Properties.                                                             *)
(***************************************************************************)

\* No r_assert of the pool fails: a starter finds no other start in progress
\* (line 124), a new worker finds itself announced (line 95), and the pool is
\* freed with no start in progress and no active worker (lines 50 and 51).
NoAbort == ~aborted

\* The arguments p of a worker live in the frame of the client that starts it:
\* until the worker has read them, that client has not returned.
FrameAlive ==
  \A t \in Threads : thr[t] = "born" => \E c \in Clients : pc[c] = "start" /\ cur[c] = t

InTrampoline(t) == thr[t] \notin {"none", "exited"}

Copies(t) == {c \in Clients : t \in ToSet(copy[c])}

\* The reference count of every RThread is the number of its holders: the pool
\* (as the announced, an active or an ended worker), the trampoline, and every
\* copy a join has not worked off.  So no holder sees a freed RThread, and one
\* without holders is freed.
RefsExact ==
  ~aborted => \A t \in Threads :
    refs[t] = Cardinality(Copies(t))
              + (IF t = waiting \/ t \in ToSet(active \o done) THEN 1 ELSE 0)
              + (IF InTrampoline(t) THEN 1 ELSE 0)

\* r_thread_pool_join waits for all workers: when it has returned, every thread
\* ever started has left, so nothing can touch the pool that is freed next.
JoinWaitsForAll ==
  phase \in {"joined", "freed"} => \A t \in Threads : thr[t] \in {"none", "exited"}

\* The pool lives as long as anybody uses it.
PoolAlive == NoAbort /\ FrameAlive /\ RefsExact /\ JoinWaitsForAll

=============================================================================
