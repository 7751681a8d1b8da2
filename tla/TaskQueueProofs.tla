-------------------------- MODULE TaskQueueProofs ---------------------------
(***************************************************************************)
(* Theorems about TaskQueue, for any number of tasks, groups, workers and  *)
(* clients.                                                                *)
(***************************************************************************)
EXTENDS TaskQueue, FiniteSetTheorems, TLAPS

-----------------------------------------------------------------------------
\* Type correctness, with ctx->threads as an integer: that it is never negative
\* follows from ThreadsExact, below.
IntTypeOK ==
  /\ state \in [Tasks -> States]
  /\ group \in [Tasks -> Groups]
  /\ dep \in [Tasks -> SUBSET Tasks]
  /\ q \in [Groups -> Seq(Tasks)]
  /\ running \in [Groups -> BOOLEAN]
  /\ threads \in [Groups -> Int]
  /\ mutex \in [Groups -> Workers \cup Clients \cup {Free}]
  /\ cond \in SUBSET Workers
  /\ waiters \in SUBSET Clients
  /\ pc \in [Workers -> {"start", "loop", "asleep", "skip", "func", "finish", "exit"}]
  /\ task \in [Workers -> Tasks \cup {Free}]
  /\ call \in [Clients -> [op : CallOps, task : Tasks \cup {Free}]]
  /\ phase \in {"live", "stopping", "freed"}
  /\ deps \in [Tasks -> SUBSET Tasks]
  /\ runs \in [Tasks -> Nat]

\* What r_task_queue_ctx_pop_locked returns is NULL, or the head of a non-empty
\* queue whose dependencies have all finished.
LEMMA PopFact ==
  ASSUME IntTypeOK, NEW g \in Groups, r_task_queue_ctx_pop_locked(g) # Free
  PROVE  /\ q[g] # <<>>
         /\ r_task_queue_ctx_pop_locked(g) = Head(q[g])
         /\ Head(q[g]) \in Tasks
         /\ \A d \in dep[Head(q[g])] : state[d] \in Finished
<1>1. q[g] \in Seq(Tasks) /\ q[g] # <<>>
  BY DEF IntTypeOK, r_task_queue_ctx_pop_locked, PopUnless
<1>2. Head(q[g]) \in Tasks
  BY <1>1
<1>3. \A d \in dep[Head(q[g])] : d \in Tasks /\ state[d] \in States
  BY SMTT(30), <1>2 DEF IntTypeOK
<1> QED
  BY <1>1, <1>2, <1>3 DEF r_task_queue_ctx_pop_locked, PopUnless

\* The state variables keep their types.
LEMMA IntTypeStep == IntTypeOK /\ [Next]_vars => IntTypeOK'
<1> SUFFICES ASSUME IntTypeOK, [Next]_vars PROVE IntTypeOK'
  OBVIOUS
<1> USE DEF IntTypeOK, States, Finished, Idle, CallOps
<1>1. ASSUME NEW t \in Tasks, NEW d \in Tasks, r_task_add_dep(t, d) PROVE IntTypeOK'
  BY <1>1 DEF r_task_add_dep
<1>2. ASSUME NEW t \in Tasks, NEW g \in Groups, r_task_queue_add_task_with_group(t, g)
      PROVE  IntTypeOK'
  <2>1. cond' \in SUBSET Workers
    BY <1>2 DEF r_task_queue_add_task_with_group, Signal
  <2>2. Append(q[g], t) \in Seq(Tasks)
    OBVIOUS
  <2> QED
    BY <1>2, <2>1, <2>2 DEF r_task_queue_add_task_with_group
<1>3. ASSUME NEW c \in Clients, NEW t \in Tasks, NEW b \in BOOLEAN, r_task_cancel(c, t, b)
      PROVE  IntTypeOK'
  <2>1. CASE b /\ state[t] = "RUNNING"
    <3> DEFINE r == [op |-> "cancel", task |-> t]
    <3>0. r \in [op : CallOps, task : Tasks \cup {Free}]
      OBVIOUS
    <3>a. call' = [call EXCEPT ![c] = r]
      BY <1>3, <2>1 DEF r_task_cancel
    <3>1. call' \in [Clients -> [op : CallOps, task : Tasks \cup {Free}]]
      <4> HIDE DEF r
      <4> QED BY <3>0, <3>a
    <3>2. UNCHANGED <<state, waiters>>
      BY <1>3, <2>1 DEF r_task_cancel
    <3> QED
      BY <1>3, <3>1, <3>2 DEF r_task_cancel
  <2>2. CASE ~(b /\ state[t] = "RUNNING")
    <3>1. MarkCanceled(t) /\ UNCHANGED call
      BY <1>3, <2>2 DEF r_task_cancel
    <3> QED
      BY ZenonT(30), <1>3, <3>1 DEF r_task_cancel, MarkCanceled
  <2> QED
    BY ZenonT(30), <2>1, <2>2
<1>4. ASSUME NEW w \in Workers, NEW t \in Tasks, CancelFromCallback(w, t) PROVE IntTypeOK'
  BY ZenonT(30), <1>4 DEF CancelFromCallback, MarkCanceled
<1>5. ASSUME NEW c \in Clients, NEW t \in Tasks, r_task_wait(c, t) PROVE IntTypeOK'
  BY <1>5 DEF r_task_wait
<1>6. ASSUME NEW g \in Groups, r_task_queue_free_stop(g) PROVE IntTypeOK'
  BY <1>6 DEF r_task_queue_free_stop, StopCtx
<1>7. ASSUME NEW c \in Clients, r_task_wait_loop(c) PROVE IntTypeOK'
  <2>1. CASE state[call[c].task] \notin Finished
    BY <1>7, <2>1 DEF r_task_wait_loop
  <2>2. CASE state[call[c].task] \in Finished
    <3>1. call[c] \in [op : CallOps, task : Tasks \cup {Free}]
      OBVIOUS
    <3> DEFINE r == IF call[c].op = "wait" THEN Idle
                    ELSE [op |-> "relock", task |-> call[c].task]
    <3>a. r \in [op : CallOps, task : Tasks \cup {Free}]
      BY <3>1
    <3>b. call' = [call EXCEPT ![c] = r]
      BY <1>7, <2>2 DEF r_task_wait_loop
    <3>2. call' \in [Clients -> [op : CallOps, task : Tasks \cup {Free}]]
      <4> HIDE DEF r
      <4> QED BY <3>a, <3>b
    <3> QED
      BY <1>7, <2>2, <3>2 DEF r_task_wait_loop
  <2> QED
    BY <2>1, <2>2
<1>8. ASSUME NEW c \in Clients, r_task_cancel_relock(c) PROVE IntTypeOK'
  BY <1>8 DEF r_task_cancel_relock, MarkCanceled
<1>9. ASSUME NEW c \in Clients, SpuriousWait(c) PROVE IntTypeOK'
  BY <1>9 DEF SpuriousWait
<1>10. ASSUME NEW w \in Workers, SpuriousCond(w) PROVE IntTypeOK'
  BY <1>10 DEF SpuriousCond
<1>11. ASSUME r_task_queue_free_join PROVE IntTypeOK'
  BY <1>11 DEF r_task_queue_free_join
<1>12. ASSUME NEW w \in Workers, LoopEnter(w) PROVE IntTypeOK'
  <2>1. GroupOf[w] \in Groups
    BY TaskQueueAssumption
  <2>2. threads' \in [Groups -> Int]
    BY <1>12, <2>1 DEF LoopEnter
  <2>3. mutex' \in [Groups -> Workers \cup Clients \cup {Free}]
    BY <1>12, <2>1 DEF LoopEnter
  <2> QED
    BY <1>12, <2>2, <2>3 DEF LoopEnter
<1>13. ASSUME NEW w \in Workers, LoopDispatch(w) PROVE IntTypeOK'
  <2>1. PICK g \in Groups :
          LET t == r_task_queue_ctx_pop_locked(g) IN
            /\ AtLoop(w, g) /\ running[g] /\ t # Free /\ state[t] = "QUEUED"
            /\ q' = [q EXCEPT ![g] = Tail(@)] /\ StartTask(w, g, t)
    BY ZenonT(30), <1>13 DEF LoopDispatch
  <2>2. q[g] # <<>> /\ Head(q[g]) \in Tasks /\ r_task_queue_ctx_pop_locked(g) = Head(q[g])
    BY <2>1, PopFact
  <2>3. Tail(q[g]) \in Seq(Tasks)
    BY <2>2
  <2>4. q' \in [Groups -> Seq(Tasks)]
    BY <2>1, <2>3
  <2>5. /\ state' \in [Tasks -> States]
        /\ dep' \in [Tasks -> SUBSET Tasks]
        /\ runs' \in [Tasks -> Nat]
    BY SMTT(30), <2>1, <2>2 DEF StartTask
  <2>6. task' \in [Workers -> Tasks \cup {Free}]
    BY <2>1, <2>2 DEF StartTask
  <2>7. /\ mutex' \in [Groups -> Workers \cup Clients \cup {Free}]
        /\ pc' \in [Workers -> {"start", "loop", "asleep", "skip", "func", "finish", "exit"}]
    BY <2>1 DEF StartTask
  <2> QED
    BY SMTT(30), <2>1, <2>4, <2>5, <2>6, <2>7 DEF StartTask
<1>14. ASSUME NEW w \in Workers, LoopSkip(w) PROVE IntTypeOK'
  <2>1. PICK g \in Groups :
          LET t == r_task_queue_ctx_pop_locked(g) IN
            /\ AtLoop(w, g) /\ running[g] /\ t # Free /\ state[t] # "QUEUED"
            /\ q' = [q EXCEPT ![g] = Tail(@)]
            /\ dep' = [dep EXCEPT ![t] = {}]
            /\ IF dep[t] = {}
               THEN UNCHANGED <<mutex, pc>>
               ELSE /\ mutex' = [mutex EXCEPT ![g] = Free]
                    /\ pc' = [pc EXCEPT ![w] = "skip"]
            /\ UNCHANGED <<state, group, running, threads, cond, waiters, task, call,
                           phase, deps, runs>>
    BY ZenonT(30), <1>14 DEF LoopSkip
  <2>2. q[g] # <<>> /\ Head(q[g]) \in Tasks /\ r_task_queue_ctx_pop_locked(g) = Head(q[g])
    BY <2>1, PopFact
  <2>3. Tail(q[g]) \in Seq(Tasks)
    BY <2>2
  <2> QED
    BY ZenonT(30), <2>1, <2>2, <2>3
<1>15. ASSUME NEW w \in Workers, LoopSleep(w) PROVE IntTypeOK'
  BY <1>15 DEF LoopSleep
<1>16. ASSUME NEW w \in Workers, LoopRelock(w) PROVE IntTypeOK'
  BY ZenonT(30), <1>16, TaskQueueAssumption DEF LoopRelock
<1>17. ASSUME NEW w \in Workers, FuncReturn(w) PROVE IntTypeOK'
  BY <1>17 DEF FuncReturn
<1>18. ASSUME NEW w \in Workers, LoopFinish(w) PROVE IntTypeOK'
  BY ZenonT(30), <1>18, TaskQueueAssumption DEF LoopFinish
<1>19. ASSUME NEW w \in Workers, LoopExit(w) PROVE IntTypeOK'
  BY <1>19 DEF LoopExit
<1>20. ASSUME UNCHANGED vars PROVE IntTypeOK'
  BY <1>20 DEF vars
<1> QED
  BY ZenonT(30), <1>1, <1>2, <1>3, <1>4, <1>5, <1>6, <1>7, <1>8, <1>9, <1>10, <1>11, <1>12,
     <1>13, <1>14, <1>15, <1>16, <1>17, <1>18, <1>19, <1>20
     DEF Next, Program, ClientStep, WorkerStep, Spurious

-----------------------------------------------------------------------------
\* Cancelling t, seen from the tasks.
CancelEffect(t) ==
  /\ state' = [state EXCEPT ![t] = "CANCELED"]
  /\ UNCHANGED <<group, dep, q, deps, runs, task, pc, phase>>

\* A step that no task notices.
Quiet ==
  /\ UNCHANGED <<state, group, dep, deps, runs, task>>
  /\ \A w \in Workers : \A p \in {"func", "finish"} : pc'[w] = p <=> pc[w] = p
  /\ \A w \in Workers : pc[w] = "exit" => pc'[w] = "exit"
  /\ \/ UNCHANGED q /\ (phase' = "freed" <=> phase = "freed")
     \/ r_task_queue_free_join

\* The seven ways in which a step can touch the tasks.
LEMMA TaskEffect ==
  ASSUME IntTypeOK, [Next]_vars
  PROVE  \/ \E t, d \in Tasks : state[t] = "NONE" /\ r_task_add_dep(t, d)
         \/ \E t \in Tasks, g \in Groups :
              state[t] = "NONE" /\ r_task_queue_add_task_with_group(t, g)
         \/ \E t \in Tasks : state[t] \notin Finished /\ CancelEffect(t)
         \/ \E w \in Workers :
              LoopDispatch(w) \/ LoopSkip(w) \/ FuncReturn(w) \/ LoopFinish(w)
         \/ Quiet
<1> DEFINE Goal == \/ \E t \in Tasks : state[t] \notin Finished /\ CancelEffect(t)
                   \/ Quiet
<1>1. ASSUME NEW t \in Tasks \cup {Free}, MarkCanceled(t),
             UNCHANGED <<group, dep, q, deps, runs, task, pc, phase>>
      PROVE  Goal
  <2>1. CASE t \in Tasks
    BY <1>1, <2>1 DEF MarkCanceled, CancelEffect, Quiet
  <2>2. CASE t \notin Tasks
    <3>1. UNCHANGED state
      BY <1>1, <2>2 DEF MarkCanceled, IntTypeOK
    <3> QED BY <1>1, <3>1 DEF Quiet
  <2> QED BY <2>1, <2>2
<1>2. ASSUME NEW c \in Clients, NEW t \in Tasks, NEW b \in BOOLEAN, r_task_cancel(c, t, b)
      PROVE  Goal
  <2>1. UNCHANGED <<group, dep, q, deps, runs, task, pc, phase>>
    BY <1>2 DEF r_task_cancel
  <2>2. MarkCanceled(t) \/ UNCHANGED state
    BY <1>2 DEF r_task_cancel
  <2>3. CASE UNCHANGED state
    BY <2>1, <2>3 DEF Quiet
  <2> QED BY <1>1, <2>1, <2>2, <2>3
<1>3. ASSUME NEW w \in Workers, NEW t \in Tasks, CancelFromCallback(w, t) PROVE Goal
  BY <1>1, <1>3 DEF CancelFromCallback
<1>4. ASSUME NEW c \in Clients, r_task_cancel_relock(c) PROVE Goal
  <2>1. call[c].task \in Tasks \cup {Free}
    BY DEF IntTypeOK
  <2> QED BY <1>1, <1>4, <2>1 DEF r_task_cancel_relock
<1>5. ASSUME NEW c \in Clients, NEW t \in Tasks, r_task_wait(c, t) PROVE Quiet
  BY <1>5 DEF r_task_wait, Quiet
<1>6. ASSUME NEW c \in Clients, r_task_wait_loop(c) \/ SpuriousWait(c) PROVE Quiet
  BY <1>6 DEF r_task_wait_loop, SpuriousWait, Quiet
<1>7. ASSUME NEW g \in Groups, r_task_queue_free_stop(g) PROVE Quiet
  BY <1>7 DEF r_task_queue_free_stop, StopCtx, Quiet
<1>8. ASSUME r_task_queue_free_join \/ UNCHANGED vars PROVE Quiet
  BY <1>8 DEF r_task_queue_free_join, vars, Quiet
<1>9. ASSUME NEW w \in Workers,
             LoopEnter(w) \/ LoopSleep(w) \/ LoopRelock(w) \/ LoopExit(w) \/ SpuriousCond(w)
      PROVE  Quiet
  <2>1. UNCHANGED <<state, group, dep, q, deps, runs, task, phase>>
    BY <1>9 DEF LoopEnter, LoopSleep, LoopRelock, LoopExit, SpuriousCond
  <2>2. \/ UNCHANGED pc
        \/ /\ pc[w] \notin {"func", "finish", "exit"}
           /\ \E p \in {"loop", "asleep", "exit"} : pc' = [pc EXCEPT ![w] = p]
    BY <1>9 DEF LoopEnter, LoopSleep, LoopRelock, LoopExit, SpuriousCond, AtLoop
  <2>3. ASSUME NEW v \in Workers, NEW p \in {"func", "finish"} PROVE pc'[v] = p <=> pc[v] = p
    BY <2>2, <2>3 DEF IntTypeOK
  <2>4. ASSUME NEW v \in Workers, pc[v] = "exit" PROVE pc'[v] = "exit"
    BY SMTT(30), <2>2, <2>4 DEF IntTypeOK
  <2> QED BY <2>1, <2>3, <2>4 DEF Quiet
<1> QED
  BY <1>2, <1>3, <1>4, <1>5, <1>6, <1>7, <1>8, <1>9
     DEF Next, Program, ClientStep, WorkerStep, Spurious

-----------------------------------------------------------------------------
\* Until a task is popped its list of dependencies is the one it was dispatched
\* with, and func was not entered: what a pop relies on.
Unstarted ==
  \A t \in Tasks :
    /\ state[t] = "QUEUED" => dep[t] = deps[t]
    /\ state[t] \in {"NONE", "QUEUED"} => runs[t] = 0

TaskInv == Unstarted /\ OneShot /\ BusyOwners /\ DepsFinished

\* What a worker that starts a task does to the tasks.
LEMMA DispatchFact ==
  ASSUME IntTypeOK, NEW w \in Workers, LoopDispatch(w)
  PROVE  \E t \in Tasks :
           /\ state[t] = "QUEUED"
           /\ \A d \in dep[t] : state[d] \in Finished
           /\ pc[w] = "loop"
           /\ dep' = [dep EXCEPT ![t] = {}]
           /\ state' = [state EXCEPT ![t] = "RUNNING"]
           /\ task' = [task EXCEPT ![w] = t]
           /\ runs' = [runs EXCEPT ![t] = @ + 1]
           /\ pc' = [pc EXCEPT ![w] = "func"]
           /\ UNCHANGED deps
<1>1. PICK g \in Groups :
        LET t == r_task_queue_ctx_pop_locked(g) IN
          /\ AtLoop(w, g) /\ running[g] /\ t # Free /\ state[t] = "QUEUED"
          /\ q' = [q EXCEPT ![g] = Tail(@)] /\ StartTask(w, g, t)
  BY ZenonT(30) DEF LoopDispatch
<1>2. /\ Head(q[g]) \in Tasks
      /\ r_task_queue_ctx_pop_locked(g) = Head(q[g])
      /\ \A d \in dep[Head(q[g])] : state[d] \in Finished
  BY <1>1, PopFact
<1> QED
  BY ZenonT(30), <1>1, <1>2 DEF StartTask, AtLoop

\* A dropped task was not queued; only its dependency list changes.
LEMMA SkipFact ==
  ASSUME IntTypeOK, NEW w \in Workers, LoopSkip(w)
  PROVE  \E t \in Tasks :
           /\ state[t] # "QUEUED"
           /\ dep' = [dep EXCEPT ![t] = {}]
           /\ pc[w] = "loop"
           /\ UNCHANGED pc \/ pc' = [pc EXCEPT ![w] = "skip"]
           /\ UNCHANGED <<state, group, task, deps, runs>>
<1>1. PICK g \in Groups :
        LET t == r_task_queue_ctx_pop_locked(g) IN
          /\ AtLoop(w, g) /\ t # Free /\ state[t] # "QUEUED"
          /\ dep' = [dep EXCEPT ![t] = {}]
          /\ UNCHANGED pc \/ pc' = [pc EXCEPT ![w] = "skip"]
          /\ UNCHANGED <<state, group, task, deps, runs>>
  BY ZenonT(30) DEF LoopSkip
<1>2. /\ Head(q[g]) \in Tasks
      /\ r_task_queue_ctx_pop_locked(g) = Head(q[g])
  BY <1>1, PopFact
<1> QED
  BY ZenonT(30), <1>1, <1>2 DEF AtLoop

\* The task invariant is preserved by every way of touching the tasks.
LEMMA TaskInvStep == IntTypeOK /\ TaskInv /\ [Next]_vars => TaskInv'
<1> SUFFICES ASSUME IntTypeOK, TaskInv, [Next]_vars PROVE TaskInv'
  OBVIOUS
<1> USE DEF TaskInv, Unstarted, OneShot, BusyOwners, DepsFinished, InFunc, Busy
<1>0. IntTypeOK'
  BY SMTT(30), IntTypeStep
<1>1. ASSUME NEW t \in Tasks, NEW d \in Tasks, state[t] = "NONE", r_task_add_dep(t, d)
      PROVE  TaskInv'
  BY SMTT(30), <1>1 DEF r_task_add_dep, IntTypeOK
<1>2. ASSUME NEW t \in Tasks, NEW g \in Groups, state[t] = "NONE",
             r_task_queue_add_task_with_group(t, g)
      PROVE  TaskInv'
  <2>1. /\ state' = [state EXCEPT ![t] = "QUEUED"]
        /\ deps' = [deps EXCEPT ![t] = dep[t]]
        /\ UNCHANGED <<dep, runs, task, pc>>
    BY <1>2 DEF r_task_queue_add_task_with_group
  <2>2. \A w \in Workers : Busy(w) => task[w] # t
    BY <1>2
  <2>3. Unstarted' /\ OneShot'
    BY <1>2, <2>1 DEF IntTypeOK
  <2>4. BusyOwners'
    BY <1>2, <2>1, <2>2 DEF IntTypeOK
  <2>5. DepsFinished'
    BY SMTT(30), <1>2, <2>1, <2>2 DEF IntTypeOK, Finished
  <2> QED BY SMTT(30), <2>3, <2>4, <2>5
<1>3. ASSUME NEW t \in Tasks, state[t] \notin Finished, CancelEffect(t) PROVE TaskInv'
  <2>1. Unstarted' /\ OneShot' /\ BusyOwners'
    BY <1>3 DEF CancelEffect, IntTypeOK
  <2>2. DepsFinished'
    BY SMTT(30), <1>3 DEF CancelEffect, IntTypeOK, Finished
  <2> QED BY <2>1, <2>2
<1>4. ASSUME NEW w \in Workers, LoopDispatch(w) PROVE TaskInv'
  <2>1. PICK t \in Tasks :
           /\ state[t] = "QUEUED"
           /\ \A d \in dep[t] : state[d] \in Finished
           /\ pc[w] = "loop"
           /\ dep' = [dep EXCEPT ![t] = {}]
           /\ state' = [state EXCEPT ![t] = "RUNNING"]
           /\ task' = [task EXCEPT ![w] = t]
           /\ runs' = [runs EXCEPT ![t] = @ + 1]
           /\ pc' = [pc EXCEPT ![w] = "func"]
           /\ UNCHANGED deps
    BY SMTT(30), <1>4, DispatchFact
  <2>2. \A v \in Workers : Busy(v) => task[v] # t /\ v # w
    BY <2>1
  <2>3. Unstarted' /\ OneShot'
    BY SMTT(30), <2>1 DEF IntTypeOK
  <2>4. BusyOwners'
    BY SMTT(30), <2>1, <2>2 DEF IntTypeOK
  <2>5. \A d \in Tasks : state[d] \in Finished => state'[d] \in Finished
    BY <2>1 DEF IntTypeOK, Finished
  <2>6. \A d \in deps[t] : state[d] \in Finished
    BY <2>1
  <2>7. ASSUME NEW v \in Workers, pc'[v] = "func", NEW d \in deps'[task'[v]]
        PROVE  state'[d] \in Finished
    <3>1. CASE v = w
      BY SMTT(30), <3>1, <2>1, <2>5, <2>6, <2>7 DEF IntTypeOK
    <3>2. CASE v # w
      BY SMTT(30), <3>2, <2>1, <2>2, <2>5, <2>7 DEF IntTypeOK
    <3> QED BY SMTT(30), <3>1, <3>2
  <2> QED BY <2>3, <2>4, <2>7
<1>5. ASSUME NEW w \in Workers, LoopSkip(w) PROVE TaskInv'
  <2>1. PICK t \in Tasks :
           /\ state[t] # "QUEUED"
           /\ dep' = [dep EXCEPT ![t] = {}]
           /\ pc[w] = "loop"
           /\ UNCHANGED pc \/ pc' = [pc EXCEPT ![w] = "skip"]
           /\ UNCHANGED <<state, group, task, deps, runs>>
    BY ZenonT(30), <1>5, SkipFact
  <2>2. \A v \in Workers : \A p \in {"func", "finish"} : pc'[v] = p <=> pc[v] = p
    BY SMTT(30), <2>1 DEF IntTypeOK
  <2>3. Unstarted' /\ OneShot'
    BY SMTT(30), <2>1 DEF IntTypeOK
  <2>4. BusyOwners' /\ DepsFinished'
    BY SMTT(30), <2>1, <2>2
  <2> QED BY SMTT(30), <2>3, <2>4
<1>6. ASSUME NEW w \in Workers, FuncReturn(w) PROVE TaskInv'
  BY SMTT(30), <1>6 DEF FuncReturn, IntTypeOK
<1>7. ASSUME NEW w \in Workers, LoopFinish(w) PROVE TaskInv'
  <2>1. /\ pc[w] = "finish"
        /\ state' = [state EXCEPT ![task[w]] = "DONE"]
        /\ task' = [task EXCEPT ![w] = Free]
        /\ pc' = [pc EXCEPT ![w] = "loop"]
        /\ UNCHANGED <<dep, deps, runs>>
    BY <1>7 DEF LoopFinish
  <2>2. task[w] \in Tasks
    BY <2>1
  <2>3. \A v \in Workers : Busy(v) /\ v # w => task[v] # task[w]
    BY SMTT(30), <2>1
  <2>4. Unstarted' /\ OneShot'
    BY SMTT(30), <2>1, <2>2 DEF IntTypeOK
  <2>5. BusyOwners'
    BY SMTT(30), <2>1, <2>2, <2>3 DEF IntTypeOK
  <2>6. DepsFinished'
    BY SMTT(30), <2>1, <2>2, <2>3 DEF IntTypeOK, Finished
  <2> QED BY SMTT(30), <2>4, <2>5, <2>6
<1>8. ASSUME Quiet PROVE TaskInv'
  BY <1>8 DEF Quiet
<1> QED
  BY ZenonT(30), <1>1, <1>2, <1>3, <1>4, <1>5, <1>6, <1>7, <1>8, TaskEffect

\* Every invariant holds initially.
LEMMA InitFact == Init => IntTypeOK /\ TaskInv
<1> SUFFICES ASSUME Init PROVE IntTypeOK /\ TaskInv
  OBVIOUS
<1>1. 0 \in Groups
  BY TaskQueueAssumption DEF Groups
<1>2. IntTypeOK
  BY <1>1 DEF Init, IntTypeOK, States, Idle, CallOps
<1>3. TaskInv
  BY DEF Init, TaskInv, Unstarted, OneShot, BusyOwners, DepsFinished, InFunc, Busy
<1> QED BY <1>2, <1>3

\* A task never runs twice, whatever is cancelled and however many workers and
\* groups there are.
THEOREM OneShotCorrect == Spec => []OneShot
<1>1. IntTypeOK /\ TaskInv /\ [Next]_vars => (IntTypeOK /\ TaskInv)'
  BY IntTypeStep, TaskInvStep
<1>2. TaskInv => OneShot
  BY DEF TaskInv
<1> QED BY InitFact, <1>1, <1>2, PTL DEF Spec

\* A callback only runs while every dependency its task was dispatched with is
\* finished.
THEOREM DepsFinishedCorrect == Spec => []DepsFinished
<1>1. IntTypeOK /\ TaskInv /\ [Next]_vars => (IntTypeOK /\ TaskInv)'
  BY IntTypeStep, TaskInvStep
<1>2. TaskInv => DepsFinished
  BY DEF TaskInv
<1> QED BY InitFact, <1>1, <1>2, PTL DEF Spec

\* A dependency overlaps its dependent only when it was cancelled while running.
THEOREM OverlapCorrect == Spec => []OverlapOnlyIfCanceled
<1>1. IntTypeOK /\ TaskInv /\ [Next]_vars => (IntTypeOK /\ TaskInv)'
  BY IntTypeStep, TaskInvStep
<1>2. TaskInv => OverlapOnlyIfCanceled
  BY DEF TaskInv, OverlapOnlyIfCanceled, DepsFinished, BusyOwners, Busy, InFunc, Finished
<1> QED BY InitFact, <1>1, <1>2, PTL DEF Spec

\* A running task always has exactly one worker.
THEOREM BusyOwnersCorrect == Spec => []BusyOwners
<1>1. IntTypeOK /\ TaskInv /\ [Next]_vars => (IntTypeOK /\ TaskInv)'
  BY IntTypeStep, TaskInvStep
<1>2. TaskInv => BusyOwners
  BY DEF TaskInv
<1> QED BY InitFact, <1>1, <1>2, PTL DEF Spec

-----------------------------------------------------------------------------
Inside(g) == {w \in Members(g) : pc[w] \notin {"start", "exit"}}

\* A step either leaves the threads inside the loops alone, or one enters, or
\* one leaves.
LEMMA ThreadsStep == IntTypeOK /\ ThreadsExact /\ [Next]_vars => ThreadsExact'
<1> SUFFICES ASSUME IntTypeOK, ThreadsExact, [Next]_vars PROVE ThreadsExact'
  OBVIOUS
<1>0. \A g \in Groups : IsFiniteSet(Inside(g)) /\ threads[g] = Cardinality(Inside(g))
  <2>1. \A g \in Groups : Inside(g) \subseteq Workers
    BY DEF Inside, Members
  <2> QED BY <2>1, TaskQueueAssumption, FS_Subset DEF ThreadsExact, Inside
<1>1. ASSUME NEW w \in Workers, LoopEnter(w) PROVE ThreadsExact'
  <2> DEFINE h == GroupOf[w]
  <2>1. /\ h \in Groups /\ pc[w] = "start"
        /\ threads' = [threads EXCEPT ![h] = @ + 1]
        /\ pc' = [pc EXCEPT ![w] = "loop"]
    BY <1>1, TaskQueueAssumption DEF LoopEnter
  <2>2. ASSUME NEW g \in Groups PROVE threads'[g] = Cardinality(Inside(g)')
    <3>1. CASE g = h
      <4>1. Inside(g)' = Inside(g) \cup {w} /\ w \notin Inside(g)
        BY <2>1, <3>1 DEF Inside, Members, IntTypeOK
      <4>2. Cardinality(Inside(g)') = Cardinality(Inside(g)) + 1
        BY ZenonT(30), <4>1, <1>0, FS_AddElement
      <4> QED BY SMTT(30), <4>2, <2>1, <3>1, <1>0 DEF IntTypeOK
    <3>2. CASE g # h
      <4>1. Inside(g)' = Inside(g)
        BY <2>1, <3>2 DEF Inside, Members, IntTypeOK
      <4> QED BY <4>1, <2>1, <3>2, <1>0 DEF IntTypeOK
    <3> QED BY SMTT(30), <3>1, <3>2
  <2> QED BY <2>2 DEF ThreadsExact, Inside, Members
<1>2. ASSUME NEW w \in Workers, LoopExit(w) PROVE ThreadsExact'
  <2>1. PICK h \in Groups :
        /\ h = GroupOf[w] /\ pc[w] = "loop"
        /\ threads' = [threads EXCEPT ![h] = @ - 1]
        /\ pc' = [pc EXCEPT ![w] = "exit"]
    BY ZenonT(30), <1>2 DEF LoopExit, AtLoop
  <2>2. ASSUME NEW g \in Groups PROVE threads'[g] = Cardinality(Inside(g)')
    <3>1. CASE g = h
      <4>1. Inside(g)' = Inside(g) \ {w} /\ w \in Inside(g)
        BY <2>1, <3>1 DEF Inside, Members, IntTypeOK
      <4>2. Cardinality(Inside(g)') = Cardinality(Inside(g)) - 1
        BY ZenonT(30), <4>1, <1>0, FS_RemoveElement
      <4> QED BY <4>2, <2>1, <3>1, <1>0 DEF IntTypeOK
    <3>2. CASE g # h
      <4>1. Inside(g)' = Inside(g)
        BY <2>1, <3>2 DEF Inside, Members, IntTypeOK
      <4> QED BY <4>1, <2>1, <3>2, <1>0 DEF IntTypeOK
    <3> QED BY <3>1, <3>2
  <2> QED BY <2>2 DEF ThreadsExact, Inside, Members
<1>3. ASSUME UNCHANGED threads,
             \/ UNCHANGED pc
             \/ \E w \in Workers, p \in {"loop", "asleep", "skip", "func", "finish"} :
                  pc[w] \notin {"start", "exit"} /\ pc' = [pc EXCEPT ![w] = p]
      PROVE  ThreadsExact'
  <2>1. \A w \in Workers : pc'[w] \in {"start", "exit"} <=> pc[w] \in {"start", "exit"}
    BY <1>3 DEF IntTypeOK
  <2>2. \A g \in Groups : Inside(g)' = Inside(g)
    BY <2>1 DEF Inside, Members
  <2> QED BY <1>3, <2>2, <1>0 DEF ThreadsExact, Inside, Members
<1>4. ASSUME NEW w \in Workers, LoopDispatch(w) PROVE ThreadsExact'
  <2>1. pc[w] = "loop" /\ pc' = [pc EXCEPT ![w] = "func"]
    BY <1>4, DispatchFact
  <2>2. UNCHANGED threads
    BY <1>4 DEF LoopDispatch, StartTask
  <2> QED BY ZenonT(30), <1>3, <2>1, <2>2
<1>5. ASSUME NEW w \in Workers, LoopSkip(w) PROVE ThreadsExact'
  <2>1. pc[w] = "loop" /\ (UNCHANGED pc \/ pc' = [pc EXCEPT ![w] = "skip"])
    BY <1>5, SkipFact
  <2>2. UNCHANGED threads
    BY <1>5 DEF LoopSkip
  <2> QED BY <1>3, <2>1, <2>2
<1>6. ASSUME NEW w \in Workers,
             LoopSleep(w) \/ LoopRelock(w) \/ FuncReturn(w) \/ LoopFinish(w) \/ SpuriousCond(w)
      PROVE  ThreadsExact'
  <2>1. /\ UNCHANGED threads
        /\ \/ UNCHANGED pc
           \/ \E p \in {"loop", "asleep", "skip", "func", "finish"} :
                pc[w] \notin {"start", "exit"} /\ pc' = [pc EXCEPT ![w] = p]
    BY <1>6 DEF LoopSleep, LoopRelock, FuncReturn, LoopFinish, SpuriousCond, AtLoop
  <2> QED BY SMTT(30), <1>3, <2>1
<1>7. ASSUME UNCHANGED <<pc, threads>> PROVE ThreadsExact'
  BY <1>3, <1>7
<1>8. ASSUME NEW t \in Tasks, NEW d \in Tasks, r_task_add_dep(t, d)
      PROVE  UNCHANGED <<pc, threads>>
  BY <1>8 DEF r_task_add_dep
<1>9. ASSUME NEW t \in Tasks, NEW g \in Groups, r_task_queue_add_task_with_group(t, g)
      PROVE  UNCHANGED <<pc, threads>>
  BY SMTT(30), <1>9 DEF r_task_queue_add_task_with_group
<1>10. ASSUME NEW c \in Clients, NEW t \in Tasks, NEW b \in BOOLEAN,
              r_task_cancel(c, t, b) \/ r_task_wait(c, t)
       PROVE  UNCHANGED <<pc, threads>>
  BY <1>10 DEF r_task_cancel, r_task_wait
<1>11. ASSUME NEW w \in Workers, NEW t \in Tasks, CancelFromCallback(w, t)
       PROVE  UNCHANGED <<pc, threads>>
  BY SMTT(30), <1>11 DEF CancelFromCallback
<1>12. ASSUME NEW c \in Clients, r_task_wait_loop(c) \/ r_task_cancel_relock(c) \/ SpuriousWait(c)
       PROVE  UNCHANGED <<pc, threads>>
  BY <1>12 DEF r_task_wait_loop, r_task_cancel_relock, SpuriousWait
<1>13. ASSUME NEW g \in Groups, r_task_queue_free_stop(g)
       PROVE  UNCHANGED <<pc, threads>>
  BY <1>13 DEF r_task_queue_free_stop, StopCtx
<1>14. ASSUME r_task_queue_free_join \/ UNCHANGED vars PROVE UNCHANGED <<pc, threads>>
  BY <1>14 DEF r_task_queue_free_join, vars
<1> QED
  BY ZenonT(30), <1>1, <1>2, <1>4, <1>5, <1>6, <1>7, <1>8, <1>9, <1>10, <1>11, <1>12, <1>13, <1>14
     DEF Next, Program, ClientStep, WorkerStep, Spurious

LEMMA ThreadsInit == Init => ThreadsExact
<1> SUFFICES ASSUME Init PROVE ThreadsExact
  OBVIOUS
<1>1. \A g \in Groups : {w \in Members(g) : pc[w] \notin {"start", "exit"}} = {}
  BY DEF Init, Members
<1>2. \A g \in Groups : threads[g] = 0
  BY DEF Init
<1> QED BY <1>1, <1>2, FS_EmptySet DEF ThreadsExact

\* Type correctness; in particular the unsigned ctx->threads never underflows.
THEOREM TypeCorrect == Spec => []TypeOK
<1>1. IntTypeOK /\ ThreadsExact /\ [Next]_vars => (IntTypeOK /\ ThreadsExact)'
  BY SMTT(30), IntTypeStep, ThreadsStep
<1>2. IntTypeOK /\ ThreadsExact => TypeOK
  <2> SUFFICES ASSUME IntTypeOK, ThreadsExact PROVE TypeOK
    OBVIOUS
  <2>1. ASSUME NEW g \in Groups PROVE threads[g] \in Nat
    <3>1. Inside(g) \subseteq Workers
      BY DEF Inside, Members
    <3>2. IsFiniteSet(Inside(g))
      BY <3>1, TaskQueueAssumption, FS_Subset
    <3>3. threads[g] = Cardinality(Inside(g))
      BY DEF ThreadsExact, Inside
    <3> QED BY <3>2, <3>3, FS_CardinalityType
  <2>2. threads \in [Groups -> Nat]
    BY SMTT(30), <2>1 DEF IntTypeOK
  <2> QED BY <2>2 DEF IntTypeOK, TypeOK
<1> QED BY InitFact, ThreadsInit, <1>1, <1>2, PTL DEF Spec

-----------------------------------------------------------------------------
(***************************************************************************)
(* The condition variables of TaskQueue: nobody sleeps on wait_cond for a  *)
(* finished task, and a queue with one group loses no wakeup on ctx->cond, *)
(* which follows from the order of its queue.                              *)
(***************************************************************************)
\* Sleepers on wait_cond are in r_task_wait, for a task that is not finished.
WaitInv ==
  /\ \A c \in Clients : call[c].op # "idle" => call[c].task \in Tasks
  /\ \A c \in waiters : call[c].op \in {"wait", "cancel"} /\ state[call[c].task] \notin Finished

LEMMA WaitInvStep == IntTypeOK /\ TaskInv /\ WaitInv /\ [Next]_vars => WaitInv'
<1> SUFFICES ASSUME IntTypeOK, TaskInv, WaitInv, [Next]_vars PROVE WaitInv'
  OBVIOUS
<1> USE DEF WaitInv
<1>1. ASSUME UNCHANGED call, waiters' = {} PROVE WaitInv'
  BY <1>1
<1>2. ASSUME UNCHANGED <<call, state>>, waiters' \subseteq waiters PROVE WaitInv'
  BY SMTT(30), <1>2
<1>3. ASSUME NEW t \in Tasks, NEW d \in Tasks, r_task_add_dep(t, d) PROVE WaitInv'
  BY <1>2, <1>3 DEF r_task_add_dep
<1>4. ASSUME NEW t \in Tasks, NEW g \in Groups, r_task_queue_add_task_with_group(t, g)
      PROVE  WaitInv'
  BY SMTT(30), <1>4 DEF r_task_queue_add_task_with_group, IntTypeOK, Finished
<1>5. ASSUME NEW c \in Clients, NEW t \in Tasks, NEW b \in BOOLEAN, r_task_cancel(c, t, b)
      PROVE  WaitInv'
  <2>1. c \notin waiters
    BY <1>5 DEF r_task_cancel, Idle
  <2>2. CASE b /\ state[t] = "RUNNING"
    <3>1. /\ call' = [call EXCEPT ![c] = [op |-> "cancel", task |-> t]]
          /\ UNCHANGED <<state, waiters>>
      BY <1>5, <2>2 DEF r_task_cancel
    <3> QED BY <3>1, <2>1 DEF IntTypeOK
  <2>3. CASE ~(b /\ state[t] = "RUNNING")
    <3>1. MarkCanceled(t) /\ UNCHANGED call
      BY <1>5, <2>3 DEF r_task_cancel
    <3> QED BY <3>1, <1>1, <1>2 DEF MarkCanceled
  <2> QED BY Zenon, <2>2, <2>3
<1>6. ASSUME NEW w \in Workers, NEW t \in Tasks, CancelFromCallback(w, t) PROVE WaitInv'
  BY <1>1, <1>2, <1>6 DEF CancelFromCallback, MarkCanceled
<1>7. ASSUME NEW c \in Clients, NEW t \in Tasks, r_task_wait(c, t) PROVE WaitInv'
  <2>1. /\ c \notin waiters
        /\ call' = [call EXCEPT ![c] = [op |-> "wait", task |-> t]]
        /\ UNCHANGED <<state, waiters>>
    BY <1>7 DEF r_task_wait, Idle
  <2> QED BY <2>1 DEF IntTypeOK
<1>8. ASSUME NEW c \in Clients, r_task_wait_loop(c) PROVE WaitInv'
  <2>1. CASE state[call[c].task] \notin Finished
    BY <1>8, <2>1 DEF r_task_wait_loop
  <2>2. CASE state[call[c].task] \in Finished
    <3> DEFINE r == IF call[c].op = "wait" THEN Idle
                    ELSE [op |-> "relock", task |-> call[c].task]
    <3>1. /\ call[c].op # "idle" /\ c \notin waiters
          /\ call' = [call EXCEPT ![c] = r]
          /\ UNCHANGED <<state, waiters>>
      BY Zenon, <1>8, <2>2 DEF r_task_wait_loop
    <3>2. r.op # "idle" => r.task \in Tasks
      BY <3>1 DEF Idle
    <3> HIDE DEF r
    <3> QED BY SMTT(30), <3>1, <3>2 DEF IntTypeOK
  <2> QED BY <2>1, <2>2
<1>9. ASSUME NEW c \in Clients, r_task_cancel_relock(c) PROVE WaitInv'
  <2>1. /\ c \notin waiters
        /\ call' = [call EXCEPT ![c] = Idle]
        /\ waiters' = {} \/ UNCHANGED <<state, waiters>>
    BY <1>9 DEF r_task_cancel_relock, MarkCanceled
  <2> QED BY <2>1 DEF IntTypeOK, Idle
<1>10. ASSUME NEW c \in Clients, SpuriousWait(c) PROVE WaitInv'
  BY <1>2, <1>10 DEF SpuriousWait
<1>11. ASSUME NEW g \in Groups, r_task_queue_free_stop(g) PROVE WaitInv'
  BY <1>2, <1>11 DEF r_task_queue_free_stop, StopCtx
<1>12. ASSUME r_task_queue_free_join \/ UNCHANGED vars PROVE WaitInv'
  BY <1>2, <1>12 DEF r_task_queue_free_join, vars
<1>13. ASSUME NEW w \in Workers,
              \/ LoopEnter(w) \/ LoopSkip(w) \/ LoopSleep(w) \/ LoopRelock(w)
              \/ FuncReturn(w) \/ LoopExit(w) \/ SpuriousCond(w)
       PROVE  WaitInv'
  <2>1. UNCHANGED <<call, state, waiters>>
    BY ZenonT(30), <1>13 DEF LoopEnter, LoopSkip, LoopSleep, LoopRelock, FuncReturn, LoopExit, SpuriousCond
  <2> QED BY SMTT(30), <1>2, <2>1
<1>14. ASSUME NEW w \in Workers, LoopFinish(w) PROVE WaitInv'
  BY <1>1, <1>14 DEF LoopFinish
<1>15. ASSUME NEW w \in Workers, LoopDispatch(w) PROVE WaitInv'
  <2>1. PICK t \in Tasks : state' = [state EXCEPT ![t] = "RUNNING"]
    BY SMTT(30), <1>15, DispatchFact
  <2>2. UNCHANGED <<call, waiters>>
    BY Zenon, <1>15 DEF LoopDispatch, StartTask
  <2> QED BY <2>1, <2>2 DEF IntTypeOK, Finished
<1> QED
  BY ZenonT(30), <1>3, <1>4, <1>5, <1>6, <1>7, <1>8, <1>9, <1>10, <1>11, <1>12, <1>13, <1>14, <1>15
     DEF Next, Program, ClientStep, WorkerStep, Spurious

\* No client sleeps on a finished task: every store of DONE or CANCELED is
\* followed by the broadcast before wait_mutex is released.
THEOREM NoMissedCompletionCorrect == Spec => []NoMissedCompletion
<1>1. Init => WaitInv
  BY DEF Init, WaitInv, Idle
<1>2. IntTypeOK /\ TaskInv /\ WaitInv /\ [Next]_vars => (IntTypeOK /\ TaskInv /\ WaitInv)'
  BY IntTypeStep, TaskInvStep, WaitInvStep
<1>3. WaitInv => NoMissedCompletion
  BY DEF WaitInv, NoMissedCompletion
<1> QED BY InitFact, <1>1, <1>2, <1>3, PTL DEF Spec

\* A finished task stays finished, and a task cancelled in the queue never runs.
THEOREM FinishedStaysCorrect == Spec => FinishedStays /\ CanceledNeverStarts
<1> DEFINE A == \A t \in Tasks : state[t] \in Finished =>
                  \/ state'[t] = state[t]
                  \/ state'[t] = "DONE" /\ \E w \in Workers : task[w] = t
           B == \A t \in Tasks : state[t] \in Finished => runs'[t] = runs[t]
<1>1. ASSUME IntTypeOK, [Next]_vars PROVE A /\ B
  <2>1. ASSUME NEW t \in Tasks, NEW d \in Tasks, r_task_add_dep(t, d) PROVE A /\ B
    BY <2>1 DEF r_task_add_dep
  <2>2. ASSUME NEW t \in Tasks, NEW g \in Groups, state[t] = "NONE",
               r_task_queue_add_task_with_group(t, g)
        PROVE  A /\ B
    BY <2>2 DEF r_task_queue_add_task_with_group, IntTypeOK, Finished
  <2>3. ASSUME NEW t \in Tasks, state[t] \notin Finished, CancelEffect(t) PROVE A /\ B
    BY <1>1, <2>3 DEF CancelEffect, IntTypeOK
  <2>4. ASSUME NEW w \in Workers, LoopDispatch(w) PROVE A /\ B
    <3>1. PICK t \in Tasks : /\ state[t] = "QUEUED"
                             /\ state' = [state EXCEPT ![t] = "RUNNING"]
                             /\ runs' = [runs EXCEPT ![t] = @ + 1]
      BY SMTT(30), <1>1, <2>4, DispatchFact
    <3> QED BY <1>1, <3>1 DEF IntTypeOK, Finished
  <2>5. ASSUME NEW w \in Workers, LoopSkip(w) \/ FuncReturn(w) PROVE A /\ B
    <3>1. state' = state /\ runs' = runs
      BY Zenon, <2>5 DEF LoopSkip, FuncReturn
    <3> QED BY Zenon, <3>1
  <2>6. ASSUME NEW w \in Workers, LoopFinish(w) PROVE A /\ B
    BY <1>1, <2>6 DEF LoopFinish, IntTypeOK
  <2>7. ASSUME Quiet PROVE A /\ B
    BY <2>7 DEF Quiet
  <2> HIDE DEF A, B
  <2> QED BY SMTT(60), <1>1, <2>1, <2>2, <2>3, <2>4, <2>5, <2>6, <2>7, TaskEffect
<1>2. IntTypeOK /\ [Next]_vars => IntTypeOK'
  BY IntTypeStep
<1>3. IntTypeOK /\ [Next]_vars => [A]_vars /\ [B]_vars
  BY SMTT(30), <1>1
<1> QED BY InitFact, <1>2, <1>3, PTL DEF Spec, FinishedStays, CanceledNeverStarts
=============================================================================
