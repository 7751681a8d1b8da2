------------------------------ MODULE TaskQueue ------------------------------
(***************************************************************************)
(* The task queue of rlib/concurrency/rtaskqueue.c.                        *)
(*                                                                         *)
(* A queue has one context (RTQCtx) per group: a FIFO of tasks, a mutex, a *)
(* condition variable and the flag running.  Every worker thread belongs   *)
(* to one group and executes r_task_queue_loop.  Threads of the program    *)
(* (Clients) allocate tasks, attach dependencies, dispatch, cancel and     *)
(* wait, and finally drop the last reference to the queue.                 *)
(*                                                                         *)
(* A context mutex is the variable mutex[g], whose value is its owner.     *)
(* queue->wait_mutex is only ever held around code that does not block,    *)
(* so each of its critical sections is part of one action.  A condition    *)
(* variable is the set of its sleeping threads.                            *)
(***************************************************************************)
EXTENDS Integers, Sequences, FiniteSets

CONSTANTS Tasks,     \* the RTask objects, allocated by r_task_queue_allocate
          NGroups,   \* queue->ctxcount
          Workers,   \* the threads started by the constructor
          GroupOf,   \* [Workers -> Groups], the context given to each thread
          Clients,   \* threads of the program that are not workers
          Free       \* the owner of an unlocked mutex, and "no task"

Groups == 0 .. NGroups - 1

ASSUME TaskQueueAssumption ==
  /\ NGroups \in Nat \ {0}
  /\ IsFiniteSet(Workers)
  /\ GroupOf \in [Workers -> Groups]
  /\ Workers \cap Clients = {}
  /\ Free \notin Workers \cup Clients \cup Tasks

VARIABLES state,    \* task->state
          group,    \* task->group
          dep,      \* task->dep, as a set
          q,        \* ctx->q
          running,  \* ctx->running
          threads,  \* ctx->threads
          mutex,    \* owner of ctx->mutex
          cond,     \* workers asleep on ctx->cond
          waiters,  \* clients asleep on queue->wait_cond
          pc,       \* where each worker is in r_task_queue_loop
          task,     \* the local variable task of each worker
          call,     \* the call each client is executing
          phase,    \* "live", "stopping" or "freed": r_task_queue_free
          deps,     \* history: the dependencies a task was dispatched with
          runs      \* history: how many times task->func was entered

vars == <<state, group, dep, q, running, threads, mutex, cond, waiters, pc,
          task, call, phase, deps, runs>>

States == {"NONE", "QUEUED", "RUNNING", "DONE", "CANCELED"}

\* state >= R_TASK_DONE: DONE is 0xf0 and CANCELED is 0xf1
Finished == {"DONE", "CANCELED"}

Idle == [op |-> "idle", task |-> Free]

CallOps == {"idle", "wait", "cancel", "relock"}

TypeOK ==
  /\ state \in [Tasks -> States]
  /\ group \in [Tasks -> Groups]
  /\ dep \in [Tasks -> SUBSET Tasks]
  /\ q \in [Groups -> Seq(Tasks)]
  /\ running \in [Groups -> BOOLEAN]
  /\ threads \in [Groups -> Nat]
  /\ mutex \in [Groups -> Workers \cup Clients \cup {Free}]
  /\ cond \in SUBSET Workers
  /\ waiters \in SUBSET Clients
  /\ pc \in [Workers -> {"start", "loop", "asleep", "skip", "func", "finish", "exit"}]
  /\ task \in [Workers -> Tasks \cup {Free}]
  /\ call \in [Clients -> [op : CallOps, task : Tasks \cup {Free}]]
  /\ phase \in {"live", "stopping", "freed"}
  /\ deps \in [Tasks -> SUBSET Tasks]
  /\ runs \in [Tasks -> Nat]

-----------------------------------------------------------------------------
Init ==
  /\ state = [t \in Tasks |-> "NONE"]
  /\ group = [t \in Tasks |-> 0]
  /\ dep = [t \in Tasks |-> {}]
  /\ q = [g \in Groups |-> <<>>]
  /\ running = [g \in Groups |-> TRUE]
  /\ threads = [g \in Groups |-> 0]
  /\ mutex = [g \in Groups |-> Free]
  /\ cond = {}
  /\ waiters = {}
  /\ pc = [w \in Workers |-> "start"]
  /\ task = [w \in Workers |-> Free]
  /\ call = [c \in Clients |-> Idle]
  /\ phase = "live"
  /\ deps = [t \in Tasks |-> {}]
  /\ runs = [t \in Tasks |-> 0]

Members(g) == {w \in Workers : GroupOf[w] = g}

\* A program thread may use the queue while it holds a reference to it; once
\* the last one is dropped, only a callback that is still running can.
Usable == phase = "live" \/ \E w \in Workers : pc[w] = "func"

(***************************************************************************)
(* Calls of the program.                                                   *)
(***************************************************************************)

\* Attach one dependency.  A dependency that was never dispatched makes the
\* call return FALSE and attach nothing, so it is not a step.
r_task_add_dep(t, d) ==
  /\ Usable
  /\ state[d] # "NONE"
  /\ dep' = [dep EXCEPT ![t] = @ \cup {d}]
  /\ UNCHANGED <<state, group, q, running, threads, mutex, cond, waiters, pc,
                 task, call, phase, deps, runs>>

\* mutant: a task is pushed without waking a worker
SignalLost(g) == UNCHANGED cond

\* r_cond_signal: wakes one sleeper, if there is one.
Signal(g) ==
  IF cond \cap Members(g) = {}
  THEN UNCHANGED cond
  ELSE \E w \in cond \cap Members(g) : cond' = cond \ {w}

\* Dispatch a task: it is queued in a group and a worker of the group is woken.
\* r_task_queue_add_full allocates, attaches and dispatches with these actions.
r_task_queue_add_task_with_group(t, g) ==
  /\ Usable
  /\ mutex[g] = Free
  /\ group' = [group EXCEPT ![t] = g]
  /\ state' = [state EXCEPT ![t] = "QUEUED"]
  /\ q' = [q EXCEPT ![g] = Append(@, t)]
  /\ Signal(g)
  /\ deps' = [deps EXCEPT ![t] = dep[t]]
  /\ UNCHANGED <<dep, running, threads, mutex, waiters, pc, task, call, phase, runs>>

\* mutant: the cancelling thread forgets the broadcast
MarkCanceledSilently(t) ==
  /\ state' = IF state[t] \notin Finished THEN [state EXCEPT ![t] = "CANCELED"] ELSE state
  /\ UNCHANGED waiters

\* mutant: a finished task can still be cancelled
MarkCanceledAlways(t) ==
  /\ state' = [state EXCEPT ![t] = "CANCELED"]
  /\ waiters' = {}

\* The store of R_TASK_CANCELED and the broadcast on wait_cond.
MarkCanceled(t) ==
  IF state[t] \notin Finished
  THEN /\ state' = [state EXCEPT ![t] = "CANCELED"]
       /\ waiters' = {}
  ELSE UNCHANGED <<state, waiters>>

\* r_task_cancel up to its return or, for a running task with
\* wait_if_running, up to its call of r_task_wait.  The context mutex is
\* released before that call, so the task may finish in between.
r_task_cancel(c, t, wait_if_running) ==
  /\ call[c] = Idle
  /\ phase = "live"
  /\ mutex[group[t]] = Free
  /\ state[t] # "NONE"
  /\ IF wait_if_running /\ state[t] = "RUNNING"
     THEN /\ call' = [call EXCEPT ![c] = [op |-> "cancel", task |-> t]]
          /\ UNCHANGED <<state, waiters>>
     ELSE /\ MarkCanceled(t)
          /\ UNCHANGED call
  /\ UNCHANGED <<group, dep, q, running, threads, mutex, cond, pc, task, phase,
                 deps, runs>>

\* The same call made from a task callback: r_task_queue_current () is not
\* NULL, so it never waits.
CancelFromCallback(w, t) ==
  /\ pc[w] = "func"
  /\ mutex[group[t]] = Free
  /\ state[t] # "NONE"
  /\ MarkCanceled(t)
  /\ UNCHANGED <<group, dep, q, running, threads, mutex, cond, pc, task, call,
                 phase, deps, runs>>

\* Back from r_task_wait: take the context mutex again and look at the state
\* once more.
r_task_cancel_relock(c) ==
  LET t == call[c].task IN
  /\ call[c].op = "relock"
  /\ mutex[group[t]] = Free
  /\ MarkCanceled(t)
  /\ call' = [call EXCEPT ![c] = Idle]
  /\ UNCHANGED <<group, dep, q, running, threads, mutex, cond, pc, task, phase,
                 deps, runs>>

\* A client calls r_task_wait.
r_task_wait(c, t) ==
  /\ call[c] = Idle
  /\ phase = "live"
  /\ call' = [call EXCEPT ![c] = [op |-> "wait", task |-> t]]
  /\ UNCHANGED <<state, group, dep, q, running, threads, mutex, cond, waiters, pc,
                 task, phase, deps, runs>>

\* The loop of r_task_wait, under wait_mutex: the condition is evaluated on
\* entry and after every wakeup.
r_task_wait_loop(c) ==
  /\ call[c].op \in {"wait", "cancel"}
  /\ c \notin waiters
  /\ IF state[call[c].task] \notin Finished
     THEN /\ waiters' = waiters \cup {c}
          /\ UNCHANGED call
     ELSE /\ call' = [call EXCEPT ![c] =
                        IF @.op = "wait" THEN Idle ELSE [op |-> "relock", task |-> @.task]]
          /\ UNCHANGED waiters
  /\ UNCHANGED <<state, group, dep, q, running, threads, mutex, cond, pc, task,
                 phase, deps, runs>>

\* A client asleep on wait_cond may be woken without a broadcast.
SpuriousWait(c) ==
  /\ c \in waiters
  /\ waiters' = waiters \ {c}
  /\ UNCHANGED <<state, group, dep, q, running, threads, mutex, cond, pc, task,
                 call, phase, deps, runs>>

(***************************************************************************)
(* r_task_queue_free, run by whoever drops the last reference.             *)
(***************************************************************************)

\* The flag of context g is cleared by whoever drops the last reference.
StopCtx(g) ==
  /\ \A c \in Clients : call[c] = Idle
  /\ phase \in {"live", "stopping"}
  /\ running[g]
  /\ \A h \in Groups : h < g => ~running[h]
  /\ mutex[g] = Free
  /\ running' = [running EXCEPT ![g] = FALSE]
  /\ phase' = "stopping"
  /\ UNCHANGED <<state, group, dep, q, threads, mutex, waiters, pc, task, call,
                 deps, runs>>

\* mutant: one worker of the context is woken
FreeStopSignals(g) == StopCtx(g) /\ Signal(g)

\* One iteration of the first loop: stop a context and wake all its workers.
r_task_queue_free_stop(g) ==
  /\ StopCtx(g)
  /\ cond' = cond \ Members(g)

\* r_thread_pool_join returns when every worker has left its loop; then the
\* queues are emptied and the contexts released.
r_task_queue_free_join ==
  /\ phase = "stopping"
  /\ \A g \in Groups : ~running[g]
  /\ \A w \in Workers : pc[w] = "exit"
  /\ q' = [g \in Groups |-> <<>>]
  /\ phase' = "freed"
  /\ UNCHANGED <<state, group, dep, running, threads, mutex, cond, waiters, pc,
                 task, call, deps, runs>>

(***************************************************************************)
(* r_task_queue_loop                                                       *)
(***************************************************************************)

\* Take ctx->mutex for the first time.
LoopEnter(w) ==
  /\ pc[w] = "start"
  /\ mutex[GroupOf[w]] = Free
  /\ mutex' = [mutex EXCEPT ![GroupOf[w]] = w]
  /\ threads' = [threads EXCEPT ![GroupOf[w]] = @ + 1]
  /\ pc' = [pc EXCEPT ![w] = "loop"]
  /\ UNCHANGED <<state, group, dep, q, running, cond, waiters, task, call, phase,
                 deps, runs>>

\* The head of a queue, unless a dependency of it is in one of the states given.
PopUnless(g, blocking) ==
  IF q[g] = <<>> \/ \E d \in dep[Head(q[g])] : state[d] \in blocking
  THEN Free
  ELSE Head(q[g])

\* mutant: dependencies are not looked at
PopIgnoringDeps(g) == PopUnless(g, {})

\* r_task_queue_ctx_pop_locked returns the head of the queue, or NULL when
\* there is none or one of its dependencies is not finished.
r_task_queue_ctx_pop_locked(g) ==
  PopUnless(g, States \ Finished)

\* Worker w holds the mutex of its group g at the top of the while loop.
AtLoop(w, g) ==
  /\ pc[w] = "loop"
  /\ g = GroupOf[w]
  /\ mutex[g] = w

\* A task popped from g is run by w: mark it running, release the mutex, call func.
StartTask(w, g, t) ==
  /\ dep' = [dep EXCEPT ![t] = {}]
  /\ state' = [state EXCEPT ![t] = "RUNNING"]
  /\ mutex' = [mutex EXCEPT ![g] = Free]
  /\ task' = [task EXCEPT ![w] = t]
  /\ runs' = [runs EXCEPT ![t] = @ + 1]
  /\ pc' = [pc EXCEPT ![w] = "func"]
  /\ UNCHANGED <<group, running, threads, cond, waiters, call, phase, deps>>

\* A queued task was popped and is run.
LoopDispatch(w) ==
  \E g \in Groups : LET t == r_task_queue_ctx_pop_locked(g) IN
    /\ AtLoop(w, g)
    /\ running[g]
    /\ t # Free
    /\ state[t] = "QUEUED"
    /\ q' = [q EXCEPT ![g] = Tail(@)]
    /\ StartTask(w, g, t)

\* A task that is no longer queued (it was cancelled) is dropped.  The mutex is
\* released only when there is a dependency list to destroy.
LoopSkip(w) ==
  \E g \in Groups : LET t == r_task_queue_ctx_pop_locked(g) IN
    /\ AtLoop(w, g)
    /\ running[g]
    /\ t # Free
    /\ state[t] # "QUEUED"
    /\ q' = [q EXCEPT ![g] = Tail(@)]
    /\ dep' = [dep EXCEPT ![t] = {}]
    /\ IF dep[t] = {}
       THEN UNCHANGED <<mutex, pc>>
       ELSE /\ mutex' = [mutex EXCEPT ![g] = Free]
            /\ pc' = [pc EXCEPT ![w] = "skip"]
    /\ UNCHANGED <<state, group, running, threads, cond, waiters, task, call,
                   phase, deps, runs>>

\* Nothing to pop: r_cond_wait (&ctx->cond, &ctx->mutex).
LoopSleep(w) ==
  \E g \in Groups :
    /\ AtLoop(w, g)
    /\ running[g]
    /\ r_task_queue_ctx_pop_locked(g) = Free
    /\ cond' = cond \cup {w}
    /\ mutex' = [mutex EXCEPT ![g] = Free]
    /\ pc' = [pc EXCEPT ![w] = "asleep"]
    /\ UNCHANGED <<state, group, dep, q, running, threads, waiters, task, call,
                   phase, deps, runs>>

\* Take the mutex again: after r_cond_wait once woken, or after destroying the
\* dependency list of a dropped task.
LoopRelock(w) ==
  /\ pc[w] \in {"asleep", "skip"}
  /\ w \notin cond
  /\ mutex[GroupOf[w]] = Free
  /\ mutex' = [mutex EXCEPT ![GroupOf[w]] = w]
  /\ pc' = [pc EXCEPT ![w] = "loop"]
  /\ UNCHANGED <<state, group, dep, q, running, threads, cond, waiters, task,
                 call, phase, deps, runs>>

\* r_cond_wait may return without a signal.
SpuriousCond(w) ==
  /\ w \in cond
  /\ cond' = cond \ {w}
  /\ UNCHANGED <<state, group, dep, q, running, threads, mutex, waiters, pc,
                 task, call, phase, deps, runs>>

\* task->func returns.
FuncReturn(w) ==
  /\ pc[w] = "func"
  /\ pc' = [pc EXCEPT ![w] = "finish"]
  /\ UNCHANGED <<state, group, dep, q, running, threads, mutex, cond, waiters,
                 task, call, phase, deps, runs>>

\* mutant: DONE is stored without a broadcast
LoopFinishSilently(w) ==
  /\ pc[w] = "finish"
  /\ mutex[GroupOf[w]] = Free
  /\ mutex' = [mutex EXCEPT ![GroupOf[w]] = w]
  /\ state' = [state EXCEPT ![task[w]] = "DONE"]
  /\ task' = [task EXCEPT ![w] = Free]
  /\ pc' = [pc EXCEPT ![w] = "loop"]
  /\ UNCHANGED <<group, dep, q, running, threads, cond, waiters, call, phase, deps,
                 runs>>

\* Take ctx->mutex, then under wait_mutex store R_TASK_DONE and broadcast; the
\* worker stays in the loop with ctx->mutex held.
LoopFinish(w) ==
  /\ pc[w] = "finish"
  /\ mutex[GroupOf[w]] = Free
  /\ mutex' = [mutex EXCEPT ![GroupOf[w]] = w]
  /\ state' = [state EXCEPT ![task[w]] = "DONE"]
  /\ waiters' = {}
  /\ task' = [task EXCEPT ![w] = Free]
  /\ pc' = [pc EXCEPT ![w] = "loop"]
  /\ UNCHANGED <<group, dep, q, running, threads, cond, call, phase, deps, runs>>

\* The context was stopped: leave the loop and end the thread.
LoopExit(w) ==
  \E g \in Groups :
    /\ AtLoop(w, g)
    /\ ~running[g]
    /\ threads' = [threads EXCEPT ![g] = @ - 1]
    /\ mutex' = [mutex EXCEPT ![g] = Free]
    /\ pc' = [pc EXCEPT ![w] = "exit"]
    /\ UNCHANGED <<state, group, dep, q, running, cond, waiters, task, call, phase,
                   deps, runs>>

-----------------------------------------------------------------------------
\* A task is dispatched once and gets its dependencies before that.
Program ==
  \/ \E t, d \in Tasks : state[t] = "NONE" /\ r_task_add_dep(t, d)
  \/ \E t \in Tasks, g \in Groups :
       state[t] = "NONE" /\ r_task_queue_add_task_with_group(t, g)
  \/ \E c \in Clients, t \in Tasks, b \in BOOLEAN : r_task_cancel(c, t, b)
  \/ \E w \in Workers, t \in Tasks : CancelFromCallback(w, t)
  \/ \E c \in Clients, t \in Tasks : r_task_wait(c, t)
  \/ \E g \in Groups : r_task_queue_free_stop(g)

ClientStep(c) == r_task_wait_loop(c) \/ r_task_cancel_relock(c)

WorkerStep(w) ==
  \/ LoopEnter(w) \/ LoopDispatch(w) \/ LoopSkip(w) \/ LoopSleep(w)
  \/ LoopRelock(w) \/ FuncReturn(w) \/ LoopFinish(w) \/ LoopExit(w)

Spurious ==
  \/ \E c \in Clients : SpuriousWait(c)
  \/ \E w \in Workers : SpuriousCond(w)

Next ==
  \/ Program
  \/ \E c \in Clients : ClientStep(c)
  \/ \E w \in Workers : WorkerStep(w)
  \/ r_task_queue_free_join
  \/ Spurious

\* Threads are scheduled, a thread waiting for a mutex that is released again
\* and again gets it, callbacks return, and a thread that has begun
\* r_task_queue_free goes on with it.  The program owes nothing else.
Fairness ==
  /\ \A w \in Workers : SF_vars(WorkerStep(w))
  /\ \A c \in Clients : SF_vars(ClientStep(c))
  /\ \A g \in Groups : SF_vars(phase = "stopping" /\ r_task_queue_free_stop(g))
  /\ WF_vars(r_task_queue_free_join)

Spec == Init /\ [][Next]_vars /\ Fairness

-----------------------------------------------------------------------------
\* The callbacks that are executing.
InFunc == {w \in Workers : pc[w] = "func"}

\* A callback only runs once every dependency its task was dispatched with is
\* done or cancelled ("the queue only dispatches a task once every dep has
\* finished"), whatever was cancelled meanwhile.
DepsFinished ==
  \A w \in InFunc : \A d \in deps[task[w]] : state[d] \in Finished

\* A dependency still executing next to its dependent was cancelled while it
\* ran, without waiting for it: r_task_cancel (dep, FALSE) is the only way to
\* overlap them.
OverlapOnlyIfCanceled ==
  \A v, w \in InFunc : task[v] \in deps[task[w]] => state[task[v]] = "CANCELED"

\* Tasks are one-shot: no interleaving of pops, cancels and wakeups enters
\* func twice ("Each task is refcounted and one-shot").
OneShot == \A t \in Tasks : runs[t] <= 1

\* A task cancelled while it was queued is never run, though it stays in the
\* queue until a worker pops it.
CanceledNeverStarts ==
  [][\A t \in Tasks : state[t] \in Finished => runs'[t] = runs[t]]_vars

\* r_task_cancel returns TRUE exactly when the task was dispatched, which is the
\* guard of the action.  The header says "TRUE if the task was cancelled before
\* running, FALSE if it had already started".
CancelTrueMeansNotStarted ==
  [][\A c \in Clients, t \in Tasks, b \in BOOLEAN :
       r_task_cancel(c, t, b) => state[t] = "QUEUED"]_vars

\* No client sleeps in r_task_wait on a task that has finished: both places
\* that finish a task broadcast under wait_mutex.
NoMissedCompletion ==
  \A c \in waiters : state[call[c].task] \notin Finished

\* No lost wakeup: a group never has a head task that could be popped while all
\* its workers sleep and none was signalled.
NoLostWakeup ==
  \A g \in Groups :
    running[g] /\ Members(g) # {} /\ r_task_queue_ctx_pop_locked(g) # Free
      => ~(Members(g) \subseteq cond)

\* Finishing is final: no step takes a task out of DONE or CANCELED except the
\* worker that was executing it when it was cancelled.
FinishedStays ==
  [][\A t \in Tasks : state[t] \in Finished =>
       \/ state'[t] = state[t]
       \/ state'[t] = "DONE" /\ \E w \in Workers : task[w] = t]_vars

\* ctx->threads counts the threads of the group that are in the loop.
ThreadsExact ==
  \A g \in Groups :
    threads[g] = Cardinality({w \in Members(g) : pc[w] \notin {"start", "exit"}})

Busy(w) == pc[w] \in {"func", "finish"}

\* A task is running or was cancelled while it ran exactly as long as one worker
\* is busy with it: no two workers share a task, no running task is abandoned.
BusyOwners ==
  /\ \A w \in Workers :
       Busy(w) => task[w] \in Tasks /\ state[task[w]] \in {"RUNNING", "CANCELED"}
  /\ \A v, w \in Workers : Busy(v) /\ Busy(w) /\ task[v] = task[w] => v = w
  /\ \A t \in Tasks : state[t] = "RUNNING" => \E w \in Workers : Busy(w) /\ task[w] = t

\* A queued task is in the queue of its group, and a dependency of the same group
\* that is still queued is ahead of it: a FIFO cannot block on its own tail.
QueueOrder ==
  /\ \A g \in Groups : \A i \in 1 .. Len(q[g]) :
       /\ state[q[g][i]] # "NONE"
       /\ group[q[g][i]] = g
       /\ \A d \in dep[q[g][i]] :
            state[d] = "QUEUED" /\ group[d] = g => \E j \in 1 .. i - 1 : q[g][j] = d
  /\ \A t \in Tasks : state[t] = "QUEUED" /\ phase # "freed" =>
       \E i \in 1 .. Len(q[group[t]]) : q[group[t]][i] = t

\* Every dispatched task is picked up and finishes, unless the queue is freed
\* first ("worker threads owned by the queue pick them up and run them to
\* completion").
PickedUp ==
  \A t \in Tasks :
    state[t] = "QUEUED" ~> (state[t] \in Finished \/ phase # "live")

\* r_task_wait and r_task_cancel return once the task has been dispatched.
CallsReturn ==
  \A c \in Clients :
    (call[c].op # "idle" /\ state[call[c].task] # "NONE") ~> (call[c].op = "idle")

\* Nobody who uses the queue is left behind: a dispatched task runs, and the
\* callers of r_task_wait and r_task_cancel get their answer.
CallersServed == PickedUp /\ CallsReturn

\* r_task_queue_free terminates: no worker sleeps through the stop.
FreeTerminates == (phase = "stopping") ~> (phase = "freed")

-----------------------------------------------------------------------------
(***************************************************************************)
(* Instances: numbered workers, dealt out to the groups in turn, which is  *)
(* what the constructors do up to the numbering.                           *)
(***************************************************************************)
InTurn == [w \in Workers |-> w % NGroups]
=============================================================================
