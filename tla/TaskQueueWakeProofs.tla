------------------------ MODULE TaskQueueWakeProofs -------------------------
(***************************************************************************)
(* The order of the FIFOs of a TaskQueue, and that a queue of one group    *)
(* never sleeps on a task it could run.                                    *)
(***************************************************************************)
EXTENDS TaskQueueProofs

\* A dependency was dispatched before it was attached, and once r_task_queue_free
\* has returned no worker is left.
DepsDispatched == \A t \in Tasks : \A d \in dep[t] : state[d] # "NONE"
FreedQuiet == phase = "freed" => \A w \in Workers : pc[w] = "exit"

QueueInv == QueueOrder /\ DepsDispatched /\ FreedQuiet

\* A pop takes a task that is not queued afterwards from the head of one queue.
PopEffect(g, h) ==
  /\ q[g] # <<>> /\ h = Head(q[g]) /\ h \in Tasks
  /\ q' = [q EXCEPT ![g] = Tail(@)]
  /\ dep' = [dep EXCEPT ![h] = {}]
  /\ state'[h] \notin {"NONE", "QUEUED"}
  /\ \A t \in Tasks : t # h => state'[t] = state[t]
  /\ UNCHANGED <<group, phase>>

LEMMA PopStep ==
  ASSUME IntTypeOK, QueueOrder, DepsDispatched, NEW g \in Groups, NEW h, PopEffect(g, h)
  PROVE  QueueOrder' /\ DepsDispatched'
<1> USE DEF PopEffect
<1>1. q[g] \in Seq(Tasks) /\ q[g][1] = h /\ Len(q[g]) >= 1
  BY DEF IntTypeOK
<1>2. /\ q'[g] = Tail(q[g]) /\ Len(q'[g]) = Len(q[g]) - 1
      /\ \A i \in 1 .. Len(q'[g]) : q'[g][i] = q[g][i + 1]
  BY <1>1 DEF IntTypeOK
<1>3. \A f \in Groups : f # g => q'[f] = q[f]
  BY DEF IntTypeOK
<1>4. \A t \in Tasks : dep'[t] \subseteq dep[t]
  BY DEF IntTypeOK
<1>5. DepsDispatched'
  <2>1. \A t \in Tasks : \A d \in dep[t] : d \in Tasks
    BY DEF IntTypeOK
  <2> QED BY <1>4, <2>1 DEF DepsDispatched
<1>6. ASSUME NEW f \in Groups, NEW i \in 1 .. Len(q'[f])
      PROVE  /\ state'[q'[f][i]] # "NONE"
             /\ group'[q'[f][i]] = f
             /\ \A d \in dep'[q'[f][i]] :
                  state'[d] = "QUEUED" /\ group'[d] = f => \E j \in 1 .. i - 1 : q'[f][j] = d
  <2>1. CASE f # g
    <3>1. q'[f] = q[f] /\ q[f] \in Seq(Tasks) /\ q[f][i] \in Tasks
      BY <2>1, <1>3, <1>6 DEF IntTypeOK
    <3>2. \A d \in dep'[q[f][i]] : d \in dep[q[f][i]] /\ d \in Tasks
      BY ZenonT(30), <3>1, <1>4 DEF IntTypeOK
    <3>3. state[q[f][i]] # "NONE" /\ group[q[f][i]] = f
      BY <3>1, <1>6 DEF QueueOrder
    <3>4. state'[q[f][i]] # "NONE"
      BY <3>1, <3>3
    <3>5. ASSUME NEW d \in dep'[q[f][i]], state'[d] = "QUEUED", group'[d] = f
          PROVE  \E j \in 1 .. i - 1 : q[f][j] = d
      <4>1. d \in dep[q[f][i]] /\ state[d] = "QUEUED" /\ group[d] = f
        BY <3>2, <3>5
      <4> QED BY <4>1, <3>1, <1>6 DEF QueueOrder
    <3>6. q'[f] = q[f] /\ group' = group
      BY <3>1
    <3> HIDE DEF PopEffect
    <3> QED BY <3>3, <3>4, <3>5, <3>6
  <2>2. CASE f = g
    <3>1. i + 1 \in 1 .. Len(q[g]) /\ q'[f][i] = q[g][i + 1] /\ q[g][i + 1] \in Tasks
      BY <2>2, <1>1, <1>2, <1>6
    <3>2. state'[q'[f][i]] # "NONE" /\ group'[q'[f][i]] = f
      BY <3>1, <2>2 DEF QueueOrder
    <3>3. ASSUME NEW d \in dep'[q'[f][i]], state'[d] = "QUEUED", group'[d] = f
          PROVE  \E j \in 1 .. i - 1 : q'[f][j] = d
      <4>1. d \in dep[q[g][i + 1]] /\ d \in Tasks /\ d # h
        BY ZenonT(30), <3>1, <3>3, <1>4 DEF IntTypeOK
      <4>2. PICK j \in 1 .. i : q[g][j] = d
        BY <4>1, <3>1, <3>3, <2>2 DEF QueueOrder
      <4>3. j # 1
        BY <4>1, <4>2, <1>1
      <4>4. j - 1 \in 1 .. i - 1 /\ q'[g][j - 1] = q[g][j]
        BY <4>2, <4>3, <1>2, <1>6, <2>2
      <4> QED BY ZenonT(30), <4>2, <4>4, <2>2
    <3> QED BY ZenonT(30), <3>2, <3>3
  <2> QED BY ZenonT(30), <2>1, <2>2
<1>7. ASSUME NEW t \in Tasks, state'[t] = "QUEUED", phase' # "freed"
      PROVE  \E i \in 1 .. Len(q'[group'[t]]) : q'[group'[t]][i] = t
  <2>1. t # h /\ state[t] = "QUEUED" /\ group[t] \in Groups
    BY SMTT(30), <1>7 DEF IntTypeOK
  <2>2. PICK i \in 1 .. Len(q[group[t]]) : q[group[t]][i] = t
    BY <2>1, <1>7 DEF QueueOrder
  <2>3. CASE group[t] # g
    BY <2>1, <2>2, <2>3, <1>3
  <2>4. CASE group[t] = g
    <3>1. i # 1
      BY <2>1, <2>2, <2>4, <1>1
    <3>2. i - 1 \in 1 .. Len(q'[g]) /\ q'[g][i - 1] = t
      BY <3>1, <2>2, <2>4, <1>1, <1>2
    <3> QED BY ZenonT(30), <3>2, <2>4
  <2> QED BY <2>3, <2>4
<1> QED BY ZenonT(30), <1>5, <1>6, <1>7 DEF QueueOrder

\* The order of the queues only speaks of queued and of undispatched tasks.
LEMMA QueueWeaken ==
  ASSUME IntTypeOK, QueueOrder, DepsDispatched, UNCHANGED <<group, dep, q, phase>>,
         \A s \in Tasks : state'[s] = "QUEUED" => state[s] = "QUEUED",
         \A s \in Tasks : state'[s] = "NONE" => state[s] = "NONE"
  PROVE  QueueOrder' /\ DepsDispatched'
<1>1. /\ \A g \in Groups : q[g] \in Seq(Tasks)
      /\ \A s \in Tasks : dep[s] \subseteq Tasks
  BY DEF IntTypeOK
<1>2. ASSUME NEW g \in Groups, NEW i \in 1 .. Len(q[g])
      PROVE  /\ state'[q[g][i]] # "NONE"
             /\ group[q[g][i]] = g
             /\ \A d \in dep[q[g][i]] : state'[d] = "QUEUED" /\ group[d] = g =>
                  \E j \in 1 .. i - 1 : q[g][j] = d
  <2>1. q[g][i] \in Tasks
    BY <1>1, <1>2
  <2>2. state[q[g][i]] # "NONE" /\ group[q[g][i]] = g
    BY <1>2 DEF QueueOrder
  <2>3. ASSUME NEW d \in dep[q[g][i]], state'[d] = "QUEUED", group[d] = g
        PROVE  \E j \in 1 .. i - 1 : q[g][j] = d
    <3>1. state[d] = "QUEUED"
      BY <1>1, <2>1, <2>3
    <3> QED BY <1>2, <2>3, <3>1 DEF QueueOrder
  <2> QED BY <2>1, <2>2, <2>3
<1>3. ASSUME NEW t \in Tasks, state'[t] = "QUEUED", phase # "freed"
      PROVE  \E i \in 1 .. Len(q[group[t]]) : q[group[t]][i] = t
  BY <1>3 DEF QueueOrder
<1>4. QueueOrder'
  BY <1>2, <1>3 DEF QueueOrder
<1> QED BY <1>1, <1>4 DEF DepsDispatched

LEMMA QueueInvStep ==
  IntTypeOK /\ TaskInv /\ QueueInv /\ [Next]_vars => QueueInv'
<1> SUFFICES ASSUME IntTypeOK, TaskInv, QueueInv, [Next]_vars PROVE QueueInv'
  OBVIOUS
<1> USE DEF QueueInv
<1>1. ASSUME NEW t \in Tasks, NEW d \in Tasks, state[t] = "NONE", r_task_add_dep(t, d)
      PROVE  QueueInv'
  <2>1. /\ state[d] # "NONE" /\ dep' = [dep EXCEPT ![t] = @ \cup {d}]
        /\ UNCHANGED <<state, group, q, pc, phase>>
    BY <1>1 DEF r_task_add_dep
  <2>2. \A g \in Groups : \A i \in 1 .. Len(q[g]) : q[g][i] \in Tasks /\ q[g][i] # t
    <3>1. \A g \in Groups : q[g] \in Seq(Tasks)
      BY DEF IntTypeOK
    <3> QED BY <1>1, <3>1 DEF QueueOrder
  <2>3. \A g \in Groups : \A i \in 1 .. Len(q[g]) : dep'[q[g][i]] = dep[q[g][i]]
    BY SMTT(30), <2>1, <2>2 DEF IntTypeOK
  <2>4. QueueOrder'
    BY <2>1, <2>3 DEF QueueOrder
  <2>5. DepsDispatched' /\ FreedQuiet'
    BY <2>1 DEF DepsDispatched, FreedQuiet, IntTypeOK
  <2> QED BY <2>4, <2>5
<1>2. ASSUME NEW t \in Tasks, NEW g \in Groups, state[t] = "NONE",
             r_task_queue_add_task_with_group(t, g)
      PROVE  QueueInv'
  <2>1. /\ group' = [group EXCEPT ![t] = g]
        /\ state' = [state EXCEPT ![t] = "QUEUED"]
        /\ q' = [q EXCEPT ![g] = Append(@, t)]
        /\ UNCHANGED <<dep, pc, phase>>
    BY <1>2 DEF r_task_queue_add_task_with_group
  <2>2. phase # "freed"
    BY <1>2 DEF r_task_queue_add_task_with_group, Usable, FreedQuiet
  <2>3. \A f \in Groups : q[f] \in Seq(Tasks)
    BY DEF IntTypeOK
  <2>4. \A f \in Groups : \A i \in 1 .. Len(q[f]) : q[f][i] \in Tasks /\ q[f][i] # t
    BY <1>2, <2>3 DEF QueueOrder
  <2>5. \A s \in Tasks : \A d \in dep[s] : d \in Tasks /\ d # t
    BY <1>2 DEF DepsDispatched, IntTypeOK
  <2>6. /\ \A s \in Tasks : s # t => state'[s] = state[s] /\ group'[s] = group[s]
        /\ state'[t] = "QUEUED" /\ group'[t] = g
    BY <2>1 DEF IntTypeOK
  <2>7. /\ \A f \in Groups : f # g => q'[f] = q[f]
        /\ q'[g] = Append(q[g], t)
    BY <2>1 DEF IntTypeOK
  <2>8. /\ Len(q'[g]) = Len(q[g]) + 1 /\ q'[g][Len(q[g]) + 1] = t
        /\ \A i \in 1 .. Len(q[g]) : q'[g][i] = q[g][i]
    BY <2>3, <2>7
  <2>9. ASSUME NEW f \in Groups, NEW i \in 1 .. Len(q[f])
        PROVE  /\ q'[f][i] = q[f][i]
               /\ state'[q'[f][i]] # "NONE"
               /\ group'[q'[f][i]] = f
               /\ \A d \in dep[q'[f][i]] : state'[d] = "QUEUED" /\ group'[d] = f =>
                    \E j \in 1 .. i - 1 : q'[f][j] = d
    <3>1. \A j \in 1 .. i : q'[f][j] = q[f][j]
      BY SMTT(30), <2>3, <2>7, <2>8, <2>9
    <3>2. q'[f][i] = q[f][i] /\ q[f][i] \in Tasks /\ q[f][i] # t
      BY <3>1, <2>4, <2>9, <2>3
    <3>3. state'[q[f][i]] # "NONE" /\ group'[q[f][i]] = f
      BY <3>2, <2>6, <2>9 DEF QueueOrder
    <3>4. ASSUME NEW d \in dep[q[f][i]], state'[d] = "QUEUED", group'[d] = f
          PROVE  \E j \in 1 .. i - 1 : q'[f][j] = d
      <4>1. state[d] = "QUEUED" /\ group[d] = f
        BY <3>2, <3>4, <2>5, <2>6
      <4>2. PICK j \in 1 .. i - 1 : q[f][j] = d
        BY <4>1, <3>4, <2>9 DEF QueueOrder
      <4> QED BY <4>2, <3>1
    <3> QED BY <3>2, <3>3, <3>4
  <2>10. ASSUME NEW d \in dep[t], state'[d] = "QUEUED", group'[d] = g
         PROVE  \E j \in 1 .. Len(q[g]) : q'[g][j] = d
    <3>1. d \in Tasks /\ state[d] = "QUEUED" /\ group[d] = g
      BY <2>10, <2>5, <2>6
    <3>2. PICK j \in 1 .. Len(q[g]) : q[g][j] = d
      BY <3>1, <2>2 DEF QueueOrder
    <3> QED BY <3>2, <2>8
  <2>11. ASSUME NEW f \in Groups, NEW i \in 1 .. Len(q'[f])
         PROVE  /\ state'[q'[f][i]] # "NONE"
                /\ group'[q'[f][i]] = f
                /\ \A d \in dep'[q'[f][i]] : state'[d] = "QUEUED" /\ group'[d] = f =>
                     \E j \in 1 .. i - 1 : q'[f][j] = d
    <3>1. CASE i \in 1 .. Len(q[f])
      BY <3>1, <2>1, <2>9
    <3>2. CASE i \notin 1 .. Len(q[f])
      <4>1. f = g /\ i = Len(q[g]) + 1 /\ q'[f][i] = t /\ i - 1 = Len(q[g])
        BY <3>2, <2>3, <2>7, <2>8, <2>11
      <4> QED BY <4>1, <2>1, <2>6, <2>10
    <3> QED BY SMTT(30), <3>1, <3>2
  <2>12. ASSUME NEW s \in Tasks, state'[s] = "QUEUED"
         PROVE  \E i \in 1 .. Len(q'[group'[s]]) : q'[group'[s]][i] = s
    <3>1. CASE s = t
      BY <3>1, <2>3, <2>6, <2>8
    <3>2. CASE s # t
      <4>1. state[s] = "QUEUED" /\ group'[s] = group[s] /\ group[s] \in Groups
        BY <3>2, <2>6, <2>12 DEF IntTypeOK
      <4>2. PICK i \in 1 .. Len(q[group[s]]) : q[group[s]][i] = s
        BY <4>1, <2>2 DEF QueueOrder
      <4>3. i \in 1 .. Len(q'[group[s]]) /\ q'[group[s]][i] = s
        BY SMTT(30), <4>1, <4>2, <2>3, <2>7, <2>8
      <4> QED BY <4>1, <4>3
    <3> QED BY <3>1, <3>2
  <2>13. QueueOrder'
    BY <2>11, <2>12 DEF QueueOrder
  <2>14. DepsDispatched' /\ FreedQuiet'
    BY <2>1, <2>5, <2>6 DEF DepsDispatched, FreedQuiet
  <2> QED BY <2>13, <2>14
<1>3. ASSUME NEW t \in Tasks, state[t] \notin Finished, CancelEffect(t) PROVE QueueInv'
  <2>1. /\ \A s \in Tasks : state'[s] = "QUEUED" => state[s] = "QUEUED"
        /\ \A s \in Tasks : state'[s] = "NONE" => state[s] = "NONE"
    BY <1>3 DEF CancelEffect, IntTypeOK
  <2>2. UNCHANGED <<group, dep, q, phase, pc>>
    BY <1>3 DEF CancelEffect
  <2>3. FreedQuiet'
    BY <2>2 DEF FreedQuiet
  <2> QED BY <2>1, <2>2, <2>3, QueueWeaken
<1>4. ASSUME NEW w \in Workers, LoopDispatch(w) PROVE QueueInv'
  <2>1. PICK g \in Groups :
          LET t == r_task_queue_ctx_pop_locked(g) IN
            /\ AtLoop(w, g) /\ t # Free
            /\ q' = [q EXCEPT ![g] = Tail(@)] /\ StartTask(w, g, t)
    BY ZenonT(30), <1>4 DEF LoopDispatch
  <2>2. /\ q[g] # <<>> /\ Head(q[g]) \in Tasks
        /\ r_task_queue_ctx_pop_locked(g) = Head(q[g])
    BY <2>1, PopFact
  <2>3. PopEffect(g, Head(q[g]))
    BY <2>1, <2>2 DEF PopEffect, StartTask, IntTypeOK
  <2>4. FreedQuiet'
    BY <2>1 DEF FreedQuiet, AtLoop, StartTask
  <2> QED BY <2>3, <2>4, PopStep
<1>5. ASSUME NEW w \in Workers, LoopSkip(w) PROVE QueueInv'
  <2>1. PICK g \in Groups :
          LET t == r_task_queue_ctx_pop_locked(g) IN
            /\ AtLoop(w, g) /\ t # Free /\ state[t] # "QUEUED"
            /\ q' = [q EXCEPT ![g] = Tail(@)]
            /\ dep' = [dep EXCEPT ![t] = {}]
            /\ UNCHANGED <<state, group, phase>>
    BY ZenonT(30), <1>5 DEF LoopSkip
  <2>2. /\ q[g] # <<>> /\ Head(q[g]) \in Tasks
        /\ r_task_queue_ctx_pop_locked(g) = Head(q[g])
    BY <2>1, PopFact
  <2>3. state[Head(q[g])] # "NONE"
    <3>1. 1 \in 1 .. Len(q[g]) /\ q[g][1] = Head(q[g])
      BY <2>2 DEF IntTypeOK
    <3> QED BY <3>1 DEF QueueOrder
  <2>4. PopEffect(g, Head(q[g]))
    BY <2>1, <2>2, <2>3 DEF PopEffect
  <2>5. FreedQuiet'
    BY <2>1 DEF FreedQuiet, AtLoop
  <2> QED BY <2>4, <2>5, PopStep
<1>6. ASSUME NEW w \in Workers, FuncReturn(w) PROVE QueueInv'
  BY <1>6 DEF FuncReturn, QueueOrder, DepsDispatched, FreedQuiet
<1>7. ASSUME NEW w \in Workers, LoopFinish(w) PROVE QueueInv'
  <2>1. /\ pc[w] = "finish" /\ state' = [state EXCEPT ![task[w]] = "DONE"]
        /\ UNCHANGED <<group, dep, q, phase>>
    BY <1>7 DEF LoopFinish
  <2>2. /\ \A s \in Tasks : state'[s] = "QUEUED" => state[s] = "QUEUED"
        /\ \A s \in Tasks : state'[s] = "NONE" => state[s] = "NONE"
    BY <2>1 DEF IntTypeOK
  <2>3. FreedQuiet'
    BY <2>1 DEF FreedQuiet
  <2> QED BY <2>1, <2>2, <2>3, QueueWeaken
<1>8. ASSUME Quiet PROVE QueueInv'
  <2>1. CASE UNCHANGED q /\ (phase' = "freed" <=> phase = "freed")
    <3>1. FreedQuiet' /\ DepsDispatched'
      BY <1>8, <2>1 DEF Quiet, FreedQuiet, DepsDispatched
    <3>2. QueueOrder'
      BY SMTT(30), <1>8, <2>1 DEF Quiet, QueueOrder
    <3> QED BY <3>1, <3>2
  <2>2. CASE r_task_queue_free_join
    BY <1>8, <2>2 DEF Quiet, r_task_queue_free_join, QueueOrder, DepsDispatched, FreedQuiet
  <2> QED BY <1>8, <2>1, <2>2 DEF Quiet
<1> QED
  BY <1>1, <1>2, <1>3, <1>4, <1>5, <1>6, <1>7, <1>8, TaskEffect

-----------------------------------------------------------------------------
\* A worker waiting on ctx->cond is in r_cond_wait, and when a whole group waits
\* its queue is empty.
WakeInv ==
  /\ \A w \in cond : pc[w] = "asleep"
  /\ \A g \in Groups :
       running[g] /\ Members(g) # {} /\ Members(g) \subseteq cond => q[g] = <<>>

\* A worker that finds nothing to pop in the only group of a queue leaves an
\* empty queue, or a colleague busy with the dependency the head waits for.
LEMMA SleepFact ==
  ASSUME NGroups = 1, IntTypeOK, TaskInv, QueueInv, WakeInv,
         NEW w \in Workers, NEW g \in Groups, pc[w] = "loop",
         r_task_queue_ctx_pop_locked(g) = Free, Members(g) \subseteq cond \cup {w}
  PROVE  q[g] = <<>>
<1> SUFFICES ASSUME q[g] # <<>> PROVE FALSE
  OBVIOUS
<1>0. Groups = {0}
  BY DEF Groups
<1>1. /\ 1 \in 1 .. Len(q[g]) /\ q[g][1] = Head(q[g])
      /\ Head(q[g]) \in Tasks
  BY DEF IntTypeOK
<1>2. PICK d \in dep[Head(q[g])] : state[d] \notin Finished
  <2>1. Free # Head(q[g])
    BY <1>1, TaskQueueAssumption
  <2> QED BY <2>1 DEF r_task_queue_ctx_pop_locked, PopUnless
<1>3. d \in Tasks /\ state[d] \in {"QUEUED", "RUNNING"}
  BY SMTT(30), <1>1, <1>2 DEF QueueInv, DepsDispatched, IntTypeOK, States, Finished
<1>4. CASE state[d] = "QUEUED"
  <2>1. group[d] = g
    BY SMTT(30), <1>0, <1>3 DEF IntTypeOK
  <2>2. \E j \in 1 .. 1 - 1 : q[g][j] = d
    BY SMTT(30), <1>1, <1>2, <1>4, <2>1 DEF QueueInv, QueueOrder
  <2>3. 1 .. 1 - 1 = {}
    OBVIOUS
  <2> QED BY <2>2, <2>3, Zenon
<1>5. CASE state[d] = "RUNNING"
  <2>1. PICK v \in Workers : Busy(v) /\ task[v] = d
    BY <1>3, <1>5 DEF TaskInv, BusyOwners
  <2>2. v \in Members(g)
    BY <1>0, TaskQueueAssumption DEF Members
  <2>3. v # w /\ v \notin cond
    BY SMTT(30), <2>1 DEF Busy, WakeInv
  <2> QED BY <2>2, <2>3
<1> QED BY <1>3, <1>4, <1>5

LEMMA WakeInvStep ==
  ASSUME NGroups = 1
  PROVE  IntTypeOK /\ TaskInv /\ QueueInv /\ WakeInv /\ [Next]_vars => WakeInv'
<1> SUFFICES ASSUME IntTypeOK, TaskInv, QueueInv, WakeInv, [Next]_vars PROVE WakeInv'
  BY SMTT(30)
<1> USE DEF WakeInv
<1>1. ASSUME UNCHANGED <<q, pc>>, cond' \subseteq cond,
             \A g \in Groups : running'[g] => running[g]
      PROVE  WakeInv'
  BY <1>1 DEF Members
<1>2. ASSUME NEW w \in Workers, w \notin cond, pc' = [pc EXCEPT ![w] = pc'[w]],
             UNCHANGED <<q, cond, running>>
      PROVE  WakeInv'
  BY ZenonT(30), <1>2 DEF IntTypeOK, Members
<1>3. ASSUME NEW t \in Tasks, NEW d \in Tasks, r_task_add_dep(t, d) PROVE WakeInv'
  BY <1>1, <1>3 DEF r_task_add_dep
<1>4. ASSUME NEW t \in Tasks, NEW g \in Groups, r_task_queue_add_task_with_group(t, g)
      PROVE  WakeInv'
  <2>1. /\ Signal(g) /\ UNCHANGED <<pc, running>>
        /\ q' = [q EXCEPT ![g] = Append(@, t)]
    BY <1>4 DEF r_task_queue_add_task_with_group
  <2>2. cond' \subseteq cond
    BY <2>1 DEF Signal
  <2>3. Members(g) # {} => ~(Members(g) \subseteq cond')
    BY <2>1 DEF Signal
  <2>4. \A f \in Groups : f # g => q'[f] = q[f]
    BY <2>1 DEF IntTypeOK
  <2> QED BY <2>1, <2>2, <2>3, <2>4 DEF Members
<1>5. ASSUME NEW c \in Clients, NEW t \in Tasks, NEW b \in BOOLEAN,
             r_task_cancel(c, t, b) \/ r_task_wait(c, t)
      PROVE  WakeInv'
  <2>1. UNCHANGED <<q, pc, cond, running>>
    BY SMTT(30), <1>5 DEF r_task_cancel, r_task_wait
  <2> QED BY SMTT(30), <1>1, <2>1
<1>6. ASSUME NEW w \in Workers, NEW t \in Tasks, CancelFromCallback(w, t) PROVE WakeInv'
  BY SMTT(30), <1>1, <1>6 DEF CancelFromCallback
<1>7. ASSUME NEW c \in Clients, r_task_wait_loop(c) \/ r_task_cancel_relock(c) \/ SpuriousWait(c)
      PROVE  WakeInv'
  <2>1. UNCHANGED <<q, pc, cond, running>>
    BY SMTT(30), <1>7 DEF r_task_wait_loop, r_task_cancel_relock, SpuriousWait
  <2> QED BY SMTT(30), <1>1, <2>1
<1>8. ASSUME NEW g \in Groups, r_task_queue_free_stop(g) PROVE WakeInv'
  <2>1. /\ UNCHANGED <<q, pc>> /\ cond' \subseteq cond
        /\ running' = [running EXCEPT ![g] = FALSE]
    BY <1>8 DEF r_task_queue_free_stop, StopCtx
  <2>2. \A f \in Groups : running'[f] => running[f]
    BY <2>1 DEF IntTypeOK
  <2> QED BY <1>1, <2>1, <2>2
<1>9. ASSUME r_task_queue_free_join PROVE WakeInv'
  BY SMTT(30), <1>9 DEF r_task_queue_free_join, Members
<1>10. ASSUME UNCHANGED vars PROVE WakeInv'
  BY SMTT(30), <1>1, <1>10 DEF vars
<1>11. ASSUME NEW w \in Workers, SpuriousCond(w) PROVE WakeInv'
  BY <1>1, <1>11 DEF SpuriousCond
<1>12. ASSUME NEW w \in Workers,
              LoopEnter(w) \/ LoopRelock(w) \/ FuncReturn(w) \/ LoopFinish(w) \/ LoopExit(w)
       PROVE  WakeInv'
  <2>1. w \notin cond
    BY SMTT(30), <1>12 DEF LoopEnter, LoopRelock, FuncReturn, LoopFinish, LoopExit, AtLoop
  <2>2. UNCHANGED <<q, cond, running>>
    BY SMTT(30), <1>12 DEF LoopEnter, LoopRelock, FuncReturn, LoopFinish, LoopExit
  <2>3. \E p \in {"loop", "finish", "exit"} : pc' = [pc EXCEPT ![w] = p]
    BY <1>12 DEF LoopEnter, LoopRelock, FuncReturn, LoopFinish, LoopExit
  <2>4. pc' = [pc EXCEPT ![w] = pc'[w]]
    BY <2>3 DEF IntTypeOK
  <2> QED BY SMTT(30), <1>2, <2>1, <2>2, <2>4
<1>13. ASSUME NEW w \in Workers, LoopDispatch(w) \/ LoopSkip(w) PROVE WakeInv'
  <2>1. PICK g \in Groups :
          /\ AtLoop(w, g) /\ UNCHANGED <<cond, running>>
          /\ q' = [q EXCEPT ![g] = Tail(@)]
          /\ UNCHANGED pc \/ \E p \in {"func", "skip"} : pc' = [pc EXCEPT ![w] = p]
    BY SMTT(30), <1>13 DEF LoopDispatch, LoopSkip, StartTask
  <2>2. w \notin cond /\ w \in Members(g)
    BY <2>1 DEF AtLoop, Members
  <2>3. \A f \in Groups : f # g => q'[f] = q[f]
    BY <2>1 DEF IntTypeOK
  <2>4. \A v \in cond' : pc'[v] = "asleep"
    BY SMTT(30), <2>1, <2>2 DEF IntTypeOK
  <2> QED BY SMTT(30), <2>1, <2>2, <2>3, <2>4 DEF Members
<1>14. ASSUME NEW w \in Workers, LoopSleep(w) PROVE WakeInv'
  <2>1. PICK g \in Groups :
          /\ AtLoop(w, g) /\ r_task_queue_ctx_pop_locked(g) = Free
          /\ cond' = cond \cup {w} /\ pc' = [pc EXCEPT ![w] = "asleep"]
          /\ UNCHANGED <<q, running>>
    BY Zenon, <1>14 DEF LoopSleep
  <2>2. \A v \in cond' : pc'[v] = "asleep"
    BY SMTT(30), <2>1 DEF IntTypeOK
  <2>3. Groups = {g}
    BY SMTT(30) DEF Groups
  <2>4. Members(g) \subseteq cond' => q[g] = <<>>
    BY <2>1, SleepFact DEF AtLoop
  <2> QED BY ZenonT(30), <2>1, <2>2, <2>3, <2>4 DEF Members
<1> QED
  BY ZenonT(30), <1>3, <1>4, <1>5, <1>6, <1>7, <1>8, <1>9, <1>10, <1>11, <1>12, <1>13, <1>14
     DEF Next, Program, ClientStep, WorkerStep, Spurious

\* A queue with one group never loses a wakeup: whenever its head can be popped,
\* some worker is awake.  With several groups this is false (the dependency may
\* finish in another group, which does not signal this one).
THEOREM NoLostWakeupCorrect ==
  ASSUME NGroups = 1
  PROVE  Spec => []NoLostWakeup
<1> DEFINE Inv == IntTypeOK /\ TaskInv /\ QueueInv /\ WakeInv
<1>1. Init => Inv
  <2> SUFFICES ASSUME Init PROVE Inv
    OBVIOUS
  <2>1. QueueInv
    BY DEF Init, QueueInv, QueueOrder, DepsDispatched, FreedQuiet
  <2>2. WakeInv
    BY DEF Init, WakeInv
  <2> QED BY <2>1, <2>2, InitFact
<1>2. Inv /\ [Next]_vars => Inv'
  BY IntTypeStep, TaskInvStep, QueueInvStep, WakeInvStep
<1>3. Inv => NoLostWakeup
  <2> SUFFICES ASSUME Inv, NEW g \in Groups, running[g], Members(g) # {},
                      r_task_queue_ctx_pop_locked(g) # Free, Members(g) \subseteq cond
               PROVE  FALSE
    BY DEF NoLostWakeup
  <2>1. q[g] # <<>>
    BY PopFact
  <2> QED BY <2>1 DEF WakeInv
<1> HIDE DEF Inv
<1> QED BY <1>1, <1>2, <1>3, PTL DEF Spec

\* In every queue, of any number of groups, a queued dependency of the same group
\* is ahead of the task that depends on it.
THEOREM QueueOrderCorrect == Spec => []QueueOrder
<1>1. Init => QueueInv
  BY DEF Init, QueueInv, QueueOrder, DepsDispatched, FreedQuiet
<1>2. IntTypeOK /\ TaskInv /\ QueueInv /\ [Next]_vars => (IntTypeOK /\ TaskInv /\ QueueInv)'
  BY IntTypeStep, TaskInvStep, QueueInvStep
<1>3. QueueInv => QueueOrder
  BY DEF QueueInv
<1> QED BY InitFact, <1>1, <1>2, <1>3, PTL DEF Spec
=============================================================================
