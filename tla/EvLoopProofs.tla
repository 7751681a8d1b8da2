---------------------------- MODULE EvLoopProofs ----------------------------
(***************************************************************************)
(* Proofs about the event loop, for any number of tasks, callbacks, timers,*)
(* hooks and watchers: WokenForDone, NoAbort and DrainsSafely hold in      *)
(* every state.  Each has an inductive invariant of its own (Woken,        *)
(* PassInv, DrainInv) over the shape of the state (LoopType), and lemmas   *)
(* with one step per action of the loop, its callers and its workers.      *)
(***************************************************************************)
EXTENDS EvLoop, FiniteSetTheorems, WellFoundedInduction, TLAPS

\* The stages of r_ev_loop_run at which a callback of the program is called.
Where == incb => pc \in {"prepare", "idle", "fire1", "fire2", "bcbs", "acbs", "events"}
\* The shape of the state.  The two list variables hold hooks of the list that is
\* being called, while a callback runs there is an entry it was called for, and
\* a loop that runs is held by the program.
LoopType ==
  /\ Where
  /\ pc \in Stages /\ ret \in Int /\ mode \in {"LOOP", "ONCE", "NOWAIT"} /\ res \in {-1, 0, 1}
  /\ ts \in 0 .. MaxTime /\ clock \in 0 .. MaxTime /\ deadline \in 0 .. Infinite
  /\ due \in [Timers -> Unset .. MaxTime]
  /\ active \subseteq Watchers /\ ready \subseteq Watchers \cup {Wakeup} /\ batch \subseteq Watchers \cup {Wakeup}
  /\ tqitems \in Int /\ refs \in Int /\ held \in BOOLEAN /\ (pc # "out" => held)
  /\ task \in [Tasks -> {"none", "queued", "running", "finished", "canceled"}]
  /\ acbs \in Seq(Tasks \cup Cbs) /\ bcbs \in Seq(Cbs) /\ calling \in Seq(Tasks \cup Cbs)
  /\ dcbs \in Seq(Tasks)
  /\ prepare \in Seq(Prepares) /\ idle \in Seq(Idles) /\ hooked \subseteq Prepares \cup Idles
  /\ pc = "prepare" => lcall \in Seq(Prepares) /\ lkeep \in Seq(Prepares)
  /\ pc = "idle" => lcall \in Seq(Idles) /\ lkeep \in Seq(Idles)
  /\ incb => /\ pc \in {"prepare", "idle"} => lcall # <<>>
             /\ pc \in {"bcbs", "acbs"} => calling # <<>>

\* r_clock_first_timeout answers the deadline of one of the pending timers: a
\* set of naturals that is not empty has a least member.
LEMMA FirstTimeout == LoopType /\ Pending # {} => 
  /\ r_clock_first_timeout \in 0 .. MaxTime
  /\ \E x \in Pending : r_clock_first_timeout = due[x]
<1> SUFFICES ASSUME LoopType, Pending # {} PROVE /\ r_clock_first_timeout \in 0 .. MaxTime
  /\ \E x \in Pending : r_clock_first_timeout = due[x]
  OBVIOUS
<1> DEFINE D == {due[x] : x \in Pending}
<1>1. D # {} /\ D \subseteq 0 .. MaxTime
  <2>1. due \in [Timers -> Unset .. MaxTime]
    BY DEF LoopType
  <2> QED BY <2>1, EvLoopAssumption DEF Pending, Unset
<1>2. D \subseteq Nat
  BY <1>1, EvLoopAssumption
<1>3. PICK d \in D : \A e \in D : ~(<<e, d>> \in OpToRel(<, Nat))
  <2> HIDE DEF D
  <2> QED BY Zenon, <1>1, <1>2, NatLessThanWellFounded, WFMin
<1>4. \A e \in D : d <= e
  <2> HIDE DEF D
  <2> SUFFICES ASSUME NEW e \in D, e < d PROVE FALSE
    BY <1>2
  <2>1. <<e, d>> \in Nat \X Nat /\ <<e, d>>[1] < <<e, d>>[2]
    BY <1>2
  <2>2. <<e, d>> \in OpToRel(<, Nat)
    BY <2>1 DEF OpToRel
  <2> QED BY Zenon, <2>2, <1>3
<1>5. Min(D) \in D
  <2> HIDE DEF D
  <2> QED BY <1>4, SMTT(30) DEF Min
<1> QED
  BY <1>1, <1>5, Zenon DEF r_clock_first_timeout

\* Every step keeps the shape of the state.
LEMMA TypeStep == LoopType /\ [Next]_vars => LoopType'
<1> USE EvLoopAssumption DEF LoopType, Stages, Infinite, Unset, Where, Program, Alive, Inside, run, hooks, queues, timers, io, tasks
<1> SUFFICES ASSUME LoopType, [Next]_vars PROVE LoopType'
  BY Zenon
<1>0. r_ev_loop_outstanding_events \in Int
  <2>1. Cardinality(Pending) \in Nat /\ Cardinality(active) \in Nat
    BY FS_Subset, FS_CardinalityType DEF Pending
  <2> QED BY <2>1 DEF r_ev_loop_outstanding_events
<1>1. ASSUME \E h \in Prepares : AddPrepare(h) PROVE LoopType'
  BY <1>1 DEF AddPrepare
<1>2. ASSUME \E h \in Idles : AddIdle(h) PROVE LoopType'
  BY <1>2 DEF AddIdle
<1>3. ASSUME \E c \in Cbs : AddCallback(c, FALSE) PROVE LoopType'
  <2>1. PICK c \in Cbs, pri \in BOOLEAN : AddCallback(c, pri)
    BY <1>3, Zenon
  <2>2. Append(acbs, c) \in Seq(Tasks \cup Cbs) /\ Append(bcbs, c) \in Seq(Cbs)
    OBVIOUS
  <2> QED BY <2>1, <2>2, ZenonT(30) DEF AddCallback
<1>4. ASSUME \E c \in Cbs : ~Inside("bcbs") /\ AddCallback(c, TRUE) PROVE LoopType'
  <2>1. PICK c \in Cbs, pri \in BOOLEAN : AddCallback(c, pri)
    BY <1>4, Zenon
  <2>2. Append(acbs, c) \in Seq(Tasks \cup Cbs) /\ Append(bcbs, c) \in Seq(Cbs)
    OBVIOUS
  <2> QED BY <2>1, <2>2, ZenonT(30) DEF AddCallback
<1>5. ASSUME \E x \in Timers, delay \in 0 .. MaxTime : AddCallbackLater(x, delay) PROVE LoopType'
  BY <1>5 DEF AddCallbackLater, AddCallbackAt
<1>6. ASSUME \E x \in Timers : CancelTimer(x) PROVE LoopType'
  BY <1>6 DEF CancelTimer
<1>7. ASSUME \E t \in Tasks : AddTask(t) PROVE LoopType'
  BY <1>7 DEF AddTask
<1>8. ASSUME \E w \in Watchers : StartWatcher(w) PROVE LoopType'
  BY <1>8 DEF StartWatcher
<1>9. ASSUME \E w \in Watchers : StopWatcher(w) PROVE LoopType'
  BY <1>9 DEF StopWatcher
<1>10. ASSUME Stop PROVE LoopType'
  BY <1>10 DEF Stop
<1>11. ASSUME Unref PROVE LoopType'
  <2>1. refs' \in Int /\ held' = FALSE /\ pc = "out"
    BY <1>11 DEF Unref
  <2>2. UNCHANGED <<pc, incb, mode, ret, res, deadline, hooks, queues, timers, clock, io, ready, dcbs, task, tqitems>>
    BY <1>11, Zenon DEF Unref
  <2> QED BY <2>1, <2>2, Zenon
<1>12. ASSUME \E m \in Modes : RunBegin(m) PROVE LoopType'
  BY <1>12, <1>0 DEF RunBegin
<1>13. ASSUME RunExit PROVE LoopType'
  BY <1>13 DEF RunExit
<1>14. ASSUME IterationBegin PROVE LoopType'
  BY <1>14 DEF IterationBegin
<1>15. ASSUME HookCall PROVE LoopType'
  BY <1>15 DEF HookCall
<1>16. ASSUME \E keep \in BOOLEAN : HookReturn(keep) PROVE LoopType'
  <2>1. PICK keep \in BOOLEAN : HookReturn(keep)
    BY <1>16, Zenon
  <2>2. /\ pc = "prepare" => lcall' \in Seq(Prepares) /\ lkeep' \in Seq(Prepares)
        /\ pc = "idle" => lcall' \in Seq(Idles) /\ lkeep' \in Seq(Idles)
    BY <2>1 DEF HookReturn
  <2>3. hooked' \subseteq Prepares \cup Idles /\ incb' = FALSE
    BY <2>1 DEF HookReturn
  <2>4. UNCHANGED <<pc, mode, ret, res, deadline, stop, prepare, idle, queues, timers, clock, io, ready, tasks, aborted>>
    BY <2>1 DEF HookReturn
  <2> QED BY <2>2, <2>3, <2>4
<1>17. ASSUME PrepareEnd PROVE LoopType'
  BY <1>17 DEF PrepareEnd
<1>18. ASSUME UpdateTimers PROVE LoopType'
  BY <1>18 DEF UpdateTimers
<1>19. ASSUME \E x \in Timers : FireTimer(x) PROVE LoopType'
  BY <1>19 DEF FireTimer
<1>20. ASSUME TimerReturn PROVE LoopType'
  BY <1>20 DEF TimerReturn
<1>21. ASSUME TimersEnd PROVE LoopType'
  BY <1>21 DEF TimersEnd
<1>22. ASSUME MoveDone PROVE LoopType'
  BY <1>22 DEF MoveDone
<1>23. ASSUME CallbackCall PROVE LoopType'
  BY <1>23 DEF CallbackCall
<1>24. ASSUME CallbackReturn PROVE LoopType'
  <2>1. Tail(calling) \in Seq(Tasks \cup Cbs)
    BY <1>24 DEF CallbackReturn
  <2>2. task' \in [Tasks -> {"none", "queued", "running", "finished", "canceled"}] /\ tqitems' \in Int
    <3>1. CASE Head(calling) \in Tasks
      <4>1. task' = [task EXCEPT ![Head(calling)] = "none"] /\ tqitems' = tqitems - 1
        BY <1>24, <3>1 DEF CallbackReturn, r_ev_loop_task_done
      <4> HIDE DEF LoopType
      <4>2. task \in [Tasks -> {"none", "queued", "running", "finished", "canceled"}] /\ tqitems \in Int
        BY DEF LoopType
      <4> QED BY <4>1, <4>2, <3>1
    <3>2. CASE Head(calling) \notin Tasks
      BY <1>24, <3>2 DEF CallbackReturn
    <3> QED BY <3>1, <3>2
  <2> QED BY <1>24, <2>1, <2>2 DEF CallbackReturn
<1>25. ASSUME WaitBegin PROVE LoopType'
  BY <1>25, FirstTimeout DEF WaitBegin, r_ev_loop_next_deadline, r_clock_first_timeout
<1>26. ASSUME WaitEvents PROVE LoopType'
  BY <1>26 DEF WaitEvents
<1>27. ASSUME \E w \in Watchers : EventCall(w) PROVE LoopType'
  BY <1>27 DEF EventCall
<1>28. ASSUME EventReturn PROVE LoopType'
  BY <1>28 DEF EventReturn
<1>29. ASSUME WakeupRead PROVE LoopType'
  BY <1>29 DEF WakeupRead
<1>30. ASSUME WakeupMove PROVE LoopType'
  BY <1>30 DEF WakeupMove
<1>31. ASSUME EventsEnd PROVE LoopType'
  BY <1>31 DEF EventsEnd
<1>32. ASSUME WaitTimeout PROVE LoopType'
  BY <1>32 DEF WaitTimeout
<1>33. ASSUME WaitFail PROVE LoopType'
  BY <1>33 DEF WaitFail
<1>34. ASSUME IdleEnd PROVE LoopType'
  BY <1>34 DEF IdleEnd
<1>35. ASSUME AcbsEnd PROVE LoopType'
  BY <1>35 DEF AcbsEnd
<1>36. ASSUME IterationEnd PROVE LoopType'
  BY <1>36, <1>0 DEF IterationEnd
<1>37. ASSUME \E t \in Tasks : TaskStart(t) PROVE LoopType'
  BY <1>37 DEF TaskStart
<1>38. ASSUME \E t \in Tasks : r_ev_loop_task_proxy(t) PROVE LoopType'
  BY <1>38 DEF r_ev_loop_task_proxy
<1>39. ASSUME \E w \in Watchers : KernelEvent(w) PROVE LoopType'
  BY <1>39 DEF KernelEvent
<1>40. ASSUME Tick PROVE LoopType'
  BY <1>40 DEF Tick
<1>41. ASSUME UNCHANGED vars PROVE LoopType'
  BY <1>41 DEF vars
<1> QED
  BY <1>1, <1>2, <1>3, <1>4, <1>5, <1>6, <1>7, <1>8, <1>9, <1>10, <1>11, <1>12, <1>13,
     <1>14, <1>15, <1>16, <1>17, <1>18, <1>19, <1>20, <1>21, <1>22, <1>23, <1>24, <1>25,
     <1>26, <1>27, <1>28, <1>29, <1>30, <1>31, <1>32, <1>33, <1>34, <1>35, <1>36, <1>37,
     <1>38, <1>39, <1>40, <1>41, ZenonT(30) DEF Next, Calls, LoopStep, Return

-----------------------------------------------------------------------------
(* The loop is woken for every completion. *)

\* A completion that was not moved yet has its wakeup under way: the eventfd is
\* readable, or r_ev_loop_wakeup_cb has read it and moves the completions next.
Woken == dcbs # <<>> => Wakeup \in ready \/ pc = "wakeup"
\* No step of the loop, of a caller or of a worker breaks it.
LEMMA WokenStep == LoopType /\ Woken /\ [Next]_vars => Woken'
<1> USE EvLoopAssumption DEF Woken, run, hooks, queues, timers, io, tasks, Program, Alive, Inside
<1> SUFFICES ASSUME LoopType, Woken, [Next]_vars PROVE Woken'
  OBVIOUS
<1> /\ pc \in Stages /\ Where /\ dcbs \in Seq(Tasks) /\ acbs \in Seq(Tasks \cup Cbs) /\ bcbs \in Seq(Cbs)
    /\ ret \in Int /\ ts \in 0 .. MaxTime /\ deadline \in 0 .. Infinite
    /\ ready \subseteq Watchers \cup {Wakeup} /\ batch \subseteq Watchers \cup {Wakeup}
  BY DEF LoopType
<1> USE DEF Where
<1>1. ASSUME \E h \in Prepares : AddPrepare(h) PROVE Woken'
  BY <1>1 DEF AddPrepare
<1>2. ASSUME \E h \in Idles : AddIdle(h) PROVE Woken'
  BY <1>2 DEF AddIdle
<1>3. ASSUME \E c \in Cbs : AddCallback(c, FALSE) PROVE Woken'
  BY <1>3 DEF AddCallback
<1>4. ASSUME \E c \in Cbs : ~Inside("bcbs") /\ AddCallback(c, TRUE) PROVE Woken'
  BY <1>4 DEF AddCallback
<1>5. ASSUME \E x \in Timers, delay \in 0 .. MaxTime : AddCallbackLater(x, delay) PROVE Woken'
  BY <1>5 DEF AddCallbackLater, AddCallbackAt
<1>6. ASSUME \E x \in Timers : CancelTimer(x) PROVE Woken'
  BY <1>6 DEF CancelTimer
<1>7. ASSUME \E t \in Tasks : AddTask(t) PROVE Woken'
  BY <1>7 DEF AddTask
<1>8. ASSUME \E w \in Watchers : StartWatcher(w) PROVE Woken'
  BY <1>8 DEF StartWatcher
<1>9. ASSUME \E w \in Watchers : StopWatcher(w) PROVE Woken'
  BY <1>9 DEF StopWatcher
<1>10. ASSUME Stop PROVE Woken'
  BY <1>10 DEF Stop
<1>11. ASSUME Unref PROVE Woken'
  BY <1>11 DEF Unref
<1>12. ASSUME \E m \in Modes : RunBegin(m) PROVE Woken'
  BY <1>12 DEF RunBegin
<1>13. ASSUME RunExit PROVE Woken'
  BY <1>13 DEF RunExit
<1>14. ASSUME IterationBegin PROVE Woken'
  BY <1>14 DEF IterationBegin
<1>15. ASSUME HookCall PROVE Woken'
  BY <1>15 DEF HookCall
<1>16. ASSUME \E keep \in BOOLEAN : HookReturn(keep) PROVE Woken'
  BY <1>16 DEF HookReturn
<1>17. ASSUME PrepareEnd PROVE Woken'
  BY <1>17 DEF PrepareEnd
<1>18. ASSUME UpdateTimers PROVE Woken'
  BY <1>18 DEF UpdateTimers
<1>19. ASSUME \E x \in Timers : FireTimer(x) PROVE Woken'
  BY <1>19 DEF FireTimer
<1>20. ASSUME TimerReturn PROVE Woken'
  BY <1>20 DEF TimerReturn
<1>21. ASSUME TimersEnd PROVE Woken'
  BY <1>21 DEF TimersEnd
<1>22. ASSUME MoveDone PROVE Woken'
  BY <1>22 DEF MoveDone
<1>23. ASSUME CallbackCall PROVE Woken'
  BY <1>23 DEF CallbackCall
<1>24. ASSUME CallbackReturn PROVE Woken'
  BY <1>24 DEF CallbackReturn
<1>25. ASSUME WaitBegin PROVE Woken'
  BY <1>25 DEF WaitBegin, r_ev_loop_next_deadline, LoopType
<1>26. ASSUME WaitEvents PROVE Woken'
  BY <1>26 DEF WaitEvents
<1>27. ASSUME \E w \in Watchers : EventCall(w) PROVE Woken'
  BY <1>27 DEF EventCall
<1>28. ASSUME EventReturn PROVE Woken'
  BY <1>28 DEF EventReturn
<1>29. ASSUME WakeupRead PROVE Woken'
  BY <1>29 DEF WakeupRead
<1>30. ASSUME WakeupMove PROVE Woken'
  BY <1>30 DEF WakeupMove
<1>31. ASSUME EventsEnd PROVE Woken'
  BY <1>31 DEF EventsEnd
<1>32. ASSUME WaitTimeout PROVE Woken'
  BY <1>32 DEF WaitTimeout
<1>33. ASSUME WaitFail PROVE Woken'
  BY <1>33 DEF WaitFail
<1>34. ASSUME IdleEnd PROVE Woken'
  BY <1>34 DEF IdleEnd
<1>35. ASSUME AcbsEnd PROVE Woken'
  BY <1>35 DEF AcbsEnd
<1>36. ASSUME IterationEnd PROVE Woken'
  BY <1>36 DEF IterationEnd
<1>37. ASSUME \E t \in Tasks : TaskStart(t) PROVE Woken'
  BY <1>37 DEF TaskStart
<1>38. ASSUME \E t \in Tasks : r_ev_loop_task_proxy(t) PROVE Woken'
  BY <1>38 DEF r_ev_loop_task_proxy
<1>39. ASSUME \E w \in Watchers : KernelEvent(w) PROVE Woken'
  BY <1>39 DEF KernelEvent
<1>40. ASSUME Tick PROVE Woken'
  BY <1>40 DEF Tick
<1>41. ASSUME UNCHANGED vars PROVE Woken'
  BY <1>41 DEF vars
<1> QED
  BY <1>1, <1>2, <1>3, <1>4, <1>5, <1>6, <1>7, <1>8, <1>9, <1>10, <1>11, <1>12, <1>13,
     <1>14, <1>15, <1>16, <1>17, <1>18, <1>19, <1>20, <1>21, <1>22, <1>23, <1>24, <1>25,
     <1>26, <1>27, <1>28, <1>29, <1>30, <1>31, <1>32, <1>33, <1>34, <1>35, <1>36, <1>37,
     <1>38, <1>39, <1>40, <1>41, ZenonT(30) DEF Next, Calls, LoopStep, Return

-----------------------------------------------------------------------------
(* The deadline of a wait does not lie in the past. *)

\* Between the timers of a pass and its wait nothing is due before loop->ts: what
\* was due has fired, and a delay is counted from loop->ts.
DueAhead == pc \in {"move", "bcbs"} => \A x \in Pending : due[x] >= ts
PassInv == NoAbort /\ DueAhead

\* No step breaks it.
LEMMA PassStep == LoopType /\ PassInv /\ [Next]_vars => PassInv'
<1> USE EvLoopAssumption DEF PassInv, DueAhead, NoAbort, Pending, run, hooks, queues, timers, io, tasks, Program, Alive, Inside
<1> SUFFICES ASSUME LoopType, PassInv, [Next]_vars PROVE PassInv'
  OBVIOUS
<1> /\ pc \in Stages /\ Where
    /\ ts \in 0 .. MaxTime /\ clock \in 0 .. MaxTime /\ deadline \in 0 .. Infinite
    /\ due \in [Timers -> Unset .. MaxTime]
  BY DEF LoopType
<1> USE DEF Where
<1>1. ASSUME \E h \in Prepares : AddPrepare(h) PROVE PassInv'
  BY <1>1 DEF AddPrepare
<1>2. ASSUME \E h \in Idles : AddIdle(h) PROVE PassInv'
  BY <1>2 DEF AddIdle
<1>3. ASSUME \E c \in Cbs : AddCallback(c, FALSE) PROVE PassInv'
  BY <1>3 DEF AddCallback
<1>4. ASSUME \E c \in Cbs : ~Inside("bcbs") /\ AddCallback(c, TRUE) PROVE PassInv'
  BY <1>4 DEF AddCallback
<1>5. ASSUME \E x \in Timers, delay \in 0 .. MaxTime : AddCallbackLater(x, delay) PROVE PassInv'
  BY <1>5 DEF AddCallbackLater, AddCallbackAt
<1>6. ASSUME \E x \in Timers : CancelTimer(x) PROVE PassInv'
  BY <1>6 DEF CancelTimer
<1>7. ASSUME \E t \in Tasks : AddTask(t) PROVE PassInv'
  BY <1>7 DEF AddTask
<1>8. ASSUME \E w \in Watchers : StartWatcher(w) PROVE PassInv'
  BY <1>8 DEF StartWatcher
<1>9. ASSUME \E w \in Watchers : StopWatcher(w) PROVE PassInv'
  BY <1>9 DEF StopWatcher
<1>10. ASSUME Stop PROVE PassInv'
  BY <1>10 DEF Stop
<1>11. ASSUME Unref PROVE PassInv'
  BY <1>11 DEF Unref
<1>12. ASSUME \E m \in Modes : RunBegin(m) PROVE PassInv'
  BY <1>12 DEF RunBegin
<1>13. ASSUME RunExit PROVE PassInv'
  BY <1>13 DEF RunExit
<1>14. ASSUME IterationBegin PROVE PassInv'
  BY <1>14 DEF IterationBegin
<1>15. ASSUME HookCall PROVE PassInv'
  BY <1>15 DEF HookCall
<1>16. ASSUME \E keep \in BOOLEAN : HookReturn(keep) PROVE PassInv'
  BY <1>16 DEF HookReturn
<1>17. ASSUME PrepareEnd PROVE PassInv'
  BY <1>17 DEF PrepareEnd
<1>18. ASSUME UpdateTimers PROVE PassInv'
  BY <1>18 DEF UpdateTimers
<1>19. ASSUME \E x \in Timers : FireTimer(x) PROVE PassInv'
  BY <1>19 DEF FireTimer
<1>20. ASSUME TimerReturn PROVE PassInv'
  BY <1>20 DEF TimerReturn
<1>21. ASSUME TimersEnd PROVE PassInv'
  BY <1>21 DEF TimersEnd
<1>22. ASSUME MoveDone PROVE PassInv'
  BY <1>22 DEF MoveDone
<1>23. ASSUME CallbackCall PROVE PassInv'
  BY <1>23 DEF CallbackCall
<1>24. ASSUME CallbackReturn PROVE PassInv'
  BY <1>24 DEF CallbackReturn
<1>25. ASSUME WaitBegin PROVE PassInv'
  <2>1. r_ev_loop_next_deadline >= ts
    <3> HIDE DEF PassInv, DueAhead, Pending, LoopType
    <3>1. ts \in 0 .. MaxTime /\ MaxTime \in Nat
      BY DEF LoopType
    <3>2. Pending = {} => r_clock_first_timeout >= ts
      BY <3>1 DEF r_clock_first_timeout, Infinite
    <3>3. \A x \in Pending : due[x] >= ts
      BY <1>25 DEF WaitBegin, PassInv, DueAhead
    <3>4. ~(Pending = {}) => r_clock_first_timeout >= ts
      BY <3>3, FirstTimeout
    <3> QED BY <3>1, <3>2, <3>4 DEF r_ev_loop_next_deadline
  <2>2. ~(r_ev_loop_next_deadline < ts)
    <3>1. ts \in Int /\ r_ev_loop_next_deadline \in Int
      BY FirstTimeout DEF r_ev_loop_next_deadline, r_clock_first_timeout, Infinite
    <3> HIDE DEF r_ev_loop_next_deadline
    <3> QED BY <2>1, <3>1
  <2>3. ~aborted'
    BY <1>25, <2>2, Zenon DEF WaitBegin
  <2> QED BY <1>25, <2>3 DEF WaitBegin
<1>26. ASSUME WaitEvents PROVE PassInv'
  BY <1>26 DEF WaitEvents
<1>27. ASSUME \E w \in Watchers : EventCall(w) PROVE PassInv'
  BY <1>27 DEF EventCall
<1>28. ASSUME EventReturn PROVE PassInv'
  BY <1>28 DEF EventReturn
<1>29. ASSUME WakeupRead PROVE PassInv'
  BY <1>29 DEF WakeupRead
<1>30. ASSUME WakeupMove PROVE PassInv'
  BY <1>30 DEF WakeupMove
<1>31. ASSUME EventsEnd PROVE PassInv'
  BY <1>31 DEF EventsEnd
<1>32. ASSUME WaitTimeout PROVE PassInv'
  BY <1>32 DEF WaitTimeout
<1>33. ASSUME WaitFail PROVE PassInv'
  BY <1>33 DEF WaitFail
<1>34. ASSUME IdleEnd PROVE PassInv'
  BY <1>34 DEF IdleEnd
<1>35. ASSUME AcbsEnd PROVE PassInv'
  BY <1>35 DEF AcbsEnd
<1>36. ASSUME IterationEnd PROVE PassInv'
  BY <1>36 DEF IterationEnd
<1>37. ASSUME \E t \in Tasks : TaskStart(t) PROVE PassInv'
  BY <1>37 DEF TaskStart
<1>38. ASSUME \E t \in Tasks : r_ev_loop_task_proxy(t) PROVE PassInv'
  BY <1>38 DEF r_ev_loop_task_proxy
<1>39. ASSUME \E w \in Watchers : KernelEvent(w) PROVE PassInv'
  BY <1>39 DEF KernelEvent
<1>40. ASSUME Tick PROVE PassInv'
  BY <1>40 DEF Tick
<1>41. ASSUME UNCHANGED vars PROVE PassInv'
  BY <1>41 DEF vars
<1> QED
  BY <1>1, <1>2, <1>3, <1>4, <1>5, <1>6, <1>7, <1>8, <1>9, <1>10, <1>11, <1>12, <1>13,
     <1>14, <1>15, <1>16, <1>17, <1>18, <1>19, <1>20, <1>21, <1>22, <1>23, <1>24, <1>25,
     <1>26, <1>27, <1>28, <1>29, <1>30, <1>31, <1>32, <1>33, <1>34, <1>35, <1>36, <1>37,
     <1>38, <1>39, <1>40, <1>41, ZenonT(30) DEF Next, Calls, LoopStep, Return

-----------------------------------------------------------------------------
(* The theorems. *)

\* r_ev_loop_setup establishes all of it.
LEMMA InitInv == Init => LoopType /\ Woken /\ PassInv
<1> SUFFICES ASSUME Init PROVE LoopType /\ Woken /\ PassInv
  OBVIOUS
<1> USE EvLoopAssumption DEF Init
<1>1. LoopType
  BY DEF LoopType, Where, Stages, Infinite, Unset, Wakeup
<1>2. Woken
  BY DEF Woken
<1>3. PassInv
  BY DEF PassInv, NoAbort, DueAhead
<1> QED BY <1>1, <1>2, <1>3

\* The shape of the state holds throughout.
THEOREM LoopTyped == Spec => []LoopType
<1> QED BY InitInv, TypeStep, PTL DEF Spec

\* In a loop blocked in r_ev_loop_io_wait every completion r_ev_loop_task_proxy
\* has put in dcbs has its wakeup pending, however many workers finish and in
\* whatever order.
THEOREM LoopWokenForDone == Spec => []WokenForDone
<1>1. Woken => WokenForDone
  BY DEF Woken, WokenForDone
<1> QED BY <1>1, InitInv, WokenStep, LoopTyped, PTL DEF Spec

\* r_assert_cmpuint (deadline, >=, loop->ts) holds before every wait of
\* r_ev_loop_run, for any timers that are scheduled relative to loop->ts.
THEOREM LoopNeverAborts == Spec => []NoAbort
<1>1. PassInv => NoAbort
  BY DEF PassInv
<1> QED BY <1>1, InitInv, PassStep, LoopTyped, PTL DEF Spec

-----------------------------------------------------------------------------
(***************************************************************************)
(* DrainsSafely: the inductive invariant, DrainInv, counts the references  *)
(* workers hold and places every finished task in one queue of done        *)
(* callbacks.                                                              *)
(***************************************************************************)

\* The tasks the loop counts, and those a worker has or will have.
Busy == {t \in Tasks : task[t] # "none"}
Working == {t \in Tasks : task[t] \in {"queued", "running"}}
\* The tasks of a callback queue, and that each is in it once.
TasksIn(s) == Range(s) \cap Tasks
Once(s) == \A i, j \in DOMAIN s : s[i] = s[j] /\ s[i] \in Tasks => i = j

\* The members of a concatenation are those of its parts.
LEMMA SetOfConcat ==
  ASSUME NEW S, NEW a \in Seq(S), NEW b \in Seq(S)
  PROVE  Range(a \o b) = Range(a) \cup Range(b)
<1>1. Range(a \o b) \subseteq Range(a) \cup Range(b)
  BY DEF Range
<1>2. ASSUME NEW i \in DOMAIN a PROVE a[i] \in Range(a \o b)
  <2>1. i \in DOMAIN (a \o b) /\ (a \o b)[i] = a[i]
    OBVIOUS
  <2> QED BY <2>1 DEF Range
<1>3. ASSUME NEW i \in DOMAIN b PROVE b[i] \in Range(a \o b)
  <2>1. Len(a) + i \in DOMAIN (a \o b) /\ (a \o b)[Len(a) + i] = b[i]
    OBVIOUS
  <2> QED BY <2>1 DEF Range
<1> QED BY <1>1, <1>2, <1>3, Zenon DEF Range

LEMMA OnceEmpty == Once(<<>>) /\ TasksIn(<<>>) = {}
BY DEF Once, TasksIn, Range

\* Queues with different tasks may be appended, as the moves to acbs do.
LEMMA OnceConcat ==
  ASSUME NEW S, NEW a \in Seq(S), NEW b \in Seq(S), Once(a), Once(b), TasksIn(a) \cap TasksIn(b) = {}
  PROVE  Once(a \o b) /\ TasksIn(a \o b) = TasksIn(a) \cup TasksIn(b)
<1>1. TasksIn(a \o b) = TasksIn(a) \cup TasksIn(b)
  BY SetOfConcat DEF TasksIn
<1>2. ASSUME NEW i \in DOMAIN a, NEW j \in DOMAIN b, a[i] = b[j] PROVE a[i] \notin Tasks
  BY <1>2 DEF TasksIn, Range
<1>3. /\ DOMAIN (a \o b) = 1 .. Len(a) + Len(b) /\ DOMAIN a = 1 .. Len(a) /\ DOMAIN b = 1 .. Len(b)
      /\ Len(a) \in Nat /\ Len(b) \in Nat
      /\ \A i \in 1 .. Len(a) : (a \o b)[i] = a[i]
      /\ \A i \in Len(a) + 1 .. Len(a) + Len(b) : (a \o b)[i] = b[i - Len(a)]
  OBVIOUS
<1>4. Once(a \o b)
  <2> SUFFICES ASSUME NEW i \in 1 .. Len(a) + Len(b), NEW j \in 1 .. Len(a) + Len(b),
                      (a \o b)[i] = (a \o b)[j], (a \o b)[i] \in Tasks
               PROVE  i = j
    BY <1>3 DEF Once
  <2>1. CASE i <= Len(a) /\ j <= Len(a)
    BY <2>1, <1>3 DEF Once
  <2>2. CASE i > Len(a) /\ j > Len(a)
    <3>1. i - Len(a) \in DOMAIN b /\ j - Len(a) \in DOMAIN b /\ b[i - Len(a)] = b[j - Len(a)]
      BY <2>2, <1>3
    <3>2. i - Len(a) = j - Len(a)
      BY <3>1, <2>2, <1>3 DEF Once
    <3> QED BY <3>2, <1>3
  <2>3. CASE i <= Len(a) /\ j > Len(a)
    <3>1. i \in DOMAIN a /\ j - Len(a) \in DOMAIN b
      BY <2>3, <1>3
    <3>2. (a \o b)[i] = a[i] /\ (a \o b)[j] = b[j - Len(a)]
      BY <2>3, <1>3
    <3> QED BY Zenon, <3>1, <3>2, <1>2
  <2>4. CASE i > Len(a) /\ j <= Len(a)
    <3>1. j \in DOMAIN a /\ i - Len(a) \in DOMAIN b
      BY <2>4, <1>3
    <3>2. (a \o b)[j] = a[j] /\ (a \o b)[i] = b[i - Len(a)]
      BY <2>4, <1>3
    <3> QED BY Zenon, <3>1, <3>2, <1>2
  <2> QED BY <2>1, <2>2, <2>3, <2>4, <1>3
<1> QED BY <1>1, <1>4

\* The callback that was called leaves the queue.
LEMMA OnceTail ==
  ASSUME NEW S, NEW s \in Seq(S), s # <<>>, Once(s)
  PROVE  Once(Tail(s)) /\ TasksIn(Tail(s)) = TasksIn(s) \ {Head(s)}
<1>1. /\ DOMAIN Tail(s) = 1 .. Len(s) - 1 /\ DOMAIN s = 1 .. Len(s) /\ Len(s) \in Nat \ {0}
      /\ \A i \in 1 .. Len(s) - 1 : Tail(s)[i] = s[i + 1]
      /\ Head(s) = s[1]
  OBVIOUS
<1>2. Once(Tail(s))
  BY <1>1 DEF Once
<1>3. \A i \in 2 .. Len(s) : i - 1 \in DOMAIN Tail(s) /\ Tail(s)[i - 1] = s[i]
  BY <1>1
<1>4. \A i \in 2 .. Len(s) : s[i] \in Tasks => s[i] # s[1]
  BY <1>1 DEF Once
<1>5. TasksIn(Tail(s)) \subseteq TasksIn(s) \ {Head(s)}
  BY <1>1, <1>4 DEF TasksIn, Range
<1>6. TasksIn(s) \ {Head(s)} \subseteq TasksIn(Tail(s))
  <2> SUFFICES ASSUME NEW i \in 1 .. Len(s), s[i] \in Tasks, s[i] # s[1] PROVE s[i] \in TasksIn(Tail(s))
    BY <1>1 DEF TasksIn, Range
  <2>1. i \in 2 .. Len(s)
    BY <1>1
  <2>2. i - 1 \in DOMAIN Tail(s) /\ Tail(s)[i - 1] = s[i]
    BY <1>3, <2>1
  <2> QED BY <2>2, Zenon DEF TasksIn, Range
<1> QED BY <1>2, <1>5, <1>6

\* The reference of the program, while it has one.
Held == IF held THEN 1 ELSE 0
\* tqitems counts the tasks that are not done, and each task with a worker holds
\* one reference beside the program's.
Counted ==
  /\ tqitems = Cardinality(Busy)
  /\ refs = Cardinality(Working) + Held
\* A task whose done callback is queued is finished, and it is queued once, in one
\* of acbs, dcbs and the list being called: it is counted down exactly once.
Returning ==
  /\ \A t \in TasksIn(calling) \cup TasksIn(acbs) \cup TasksIn(dcbs) : task[t] = "finished"
  /\ Once(calling) /\ Once(acbs) /\ Once(dcbs)
  /\ TasksIn(calling) \cap TasksIn(acbs) = {}
  /\ TasksIn(calling) \cap TasksIn(dcbs) = {}
  /\ TasksIn(acbs) \cap TasksIn(dcbs) = {}
\* Only r_cbqueue_call_pop leaves callbacks detached.
InCalls == calling # <<>> => pc \in {"bcbs", "acbs"}
DrainInv == Counted /\ Returning /\ InCalls /\ DrainedMeansQuiet

\* A reference given back, and one taken.
LEMMA OneLess == \A c \in Nat, k \in {0, 1} : \A r : r = c + k => r - 1 = (c - 1) + k
OBVIOUS
LEMMA OneMore == \A c \in Nat, k \in {0, 1} : \A r : r = c + k => r + 1 = (c + 1) + k
OBVIOUS

\* The counts are numbers, and 0 for the empty set only.
LEMMA BusyFinite ==
  /\ IsFiniteSet(Busy) /\ Cardinality(Busy) \in Nat /\ (Cardinality(Busy) = 0 <=> Busy = {})
  /\ IsFiniteSet(Working) /\ Cardinality(Working) \in Nat /\ Working \subseteq Busy
<1>1. Busy \subseteq Tasks /\ Working \subseteq Busy
  BY DEF Busy, Working
<1> HIDE DEF Busy, Working
<1>2. IsFiniteSet(Busy) /\ IsFiniteSet(Working)
  BY <1>1, EvLoopAssumption, FS_Subset
<1> QED BY <1>1, <1>2, FS_CardinalityType, FS_EmptySet

\* When r_ev_loop_outstanding_events answers 0 for a loop the program holds, no task
\* is anywhere, dcbs included, though dcbs is not counted.
LEMMA OutstandingZero ==
  LoopType /\ Counted /\ Returning /\ held /\ r_ev_loop_outstanding_events = 0 =>
    /\ \A t \in Tasks : task[t] = "none"
    /\ dcbs = <<>> /\ acbs = <<>> /\ bcbs = <<>> /\ Pending = {} /\ refs = 1
<1> SUFFICES ASSUME LoopType, Counted, Returning, held, r_ev_loop_outstanding_events = 0
             PROVE  /\ \A t \in Tasks : task[t] = "none"
                    /\ dcbs = <<>> /\ acbs = <<>> /\ bcbs = <<>> /\ Pending = {} /\ refs = 1
  OBVIOUS
<1>1. Cardinality(Pending) \in Nat /\ Cardinality(active) \in Nat /\ (Cardinality(Pending) = 0 <=> Pending = {})
  <2>1. Pending \subseteq Timers /\ active \subseteq Watchers
    BY DEF Pending, LoopType
  <2> HIDE DEF Pending
  <2>2. IsFiniteSet(Pending) /\ IsFiniteSet(active)
    BY <2>1, EvLoopAssumption, FS_Subset
  <2> QED BY <2>2, FS_CardinalityType, FS_EmptySet
<1>2. /\ Len(idle) \in Nat /\ Len(acbs) \in Nat /\ Len(bcbs) \in Nat
      /\ (Len(acbs) = 0 => acbs = <<>>) /\ (Len(bcbs) = 0 => bcbs = <<>>)
  BY DEF LoopType
<1>3. tqitems = 0 /\ Pending = {} /\ acbs = <<>> /\ bcbs = <<>>
  <2>1. tqitems \in Nat
    BY BusyFinite DEF Counted
  <2> QED BY <1>1, <1>2, <2>1 DEF r_ev_loop_outstanding_events
<1>4. Busy = {} /\ refs = 1
  <2>1. Busy = {}
    BY <1>3, BusyFinite DEF Counted
  <2>2. Working = {} /\ Cardinality(Working) = 0
    BY <2>1, BusyFinite, FS_EmptySet
  <2> QED BY <2>1, <2>2 DEF Counted, Held
<1>5. \A t \in Tasks : task[t] = "none"
  BY <1>4 DEF Busy
<1>6. dcbs = <<>>
  <2> SUFFICES ASSUME dcbs # <<>> PROVE FALSE
    OBVIOUS
  <2>1. dcbs \in Seq(Tasks) /\ 1 \in DOMAIN dcbs /\ dcbs[1] \in Tasks
    BY DEF LoopType
  <2>2. dcbs[1] \in TasksIn(dcbs)
    BY <2>1 DEF TasksIn, Range
  <2>3. task[dcbs[1]] = "finished"
    BY <2>2 DEF Returning
  <2> QED BY <2>1, <2>3, <1>5
<1> QED BY <1>3, <1>4, <1>5, <1>6

\* As r_ev_loop_move_done_callbacks appends dcbs to acbs.
LEMMA OnceMoved ==
  ASSUME NEW a \in Seq(Tasks \cup Cbs), NEW b \in Seq(Tasks), Once(a), Once(b), TasksIn(a) \cap TasksIn(b) = {}
  PROVE  Once(a \o b) /\ TasksIn(a \o b) = TasksIn(a) \cup TasksIn(b)
<1>1. b \in Seq(Tasks \cup Cbs)
  OBVIOUS
<1> QED BY <1>1, OnceConcat

\* A completion is appended to a queue that does not hold its task.
LEMMA OnceAppend ==
  ASSUME NEW S, NEW s \in Seq(S), NEW t \in S, Once(s), t \notin TasksIn(s)
  PROVE  Once(Append(s, t)) /\ TasksIn(Append(s, t)) = TasksIn(s) \cup ({t} \cap Tasks)
<1>1. <<t>> \in Seq(S) /\ Append(s, t) = s \o <<t>>
  OBVIOUS
<1>2. Once(<<t>>) /\ TasksIn(<<t>>) = {t} \cap Tasks
  BY DEF Once, TasksIn, Range
<1> DEFINE one == <<t>>
<1>3. one \in Seq(S) /\ Once(one) /\ TasksIn(one) = {t} \cap Tasks /\ Append(s, t) = s \o one
  BY <1>1, <1>2
<1> HIDE DEF one
<1>4. Once(s \o one) /\ TasksIn(s \o one) = TasksIn(s) \cup TasksIn(one)
  BY <1>3, OnceConcat
<1> QED BY <1>3, <1>4

LEMMA OnceAppendTask ==
  ASSUME NEW s \in Seq(Tasks), NEW t \in Tasks, Once(s), t \notin TasksIn(s)
  PROVE  Once(Append(s, t)) /\ TasksIn(Append(s, t)) = TasksIn(s) \cup {t}
<1>1. Once(Append(s, t)) /\ TasksIn(Append(s, t)) = TasksIn(s) \cup ({t} \cap Tasks)
  BY OnceAppend
<1>2. {t} \cap Tasks = {t}
  BY Zenon
<1> QED BY Zenon, <1>1, <1>2

\* A callback that is no task changes none of this.
LEMMA NoTask ==
  ASSUME LoopType, NEW c \in Cbs, Once(acbs)
  PROVE  Once(Append(acbs, c)) /\ TasksIn(Append(acbs, c)) = TasksIn(acbs)
<1>1. c \notin Tasks /\ acbs \in Seq(Tasks \cup Cbs)
  BY EvLoopAssumption DEF LoopType
<1>2. c \notin TasksIn(acbs)
  BY <1>1 DEF TasksIn
<1>3. Once(Append(acbs, c)) /\ TasksIn(Append(acbs, c)) = TasksIn(acbs) \cup ({c} \cap Tasks)
  BY <1>1, <1>2, OnceAppend
<1> QED BY <1>1, <1>3

\* No step breaks it.
LEMMA DrainStep == LoopType /\ DrainInv /\ [Next]_vars => DrainInv'
<1> USE EvLoopAssumption DEF DrainInv, InCalls, DrainedMeansQuiet, Pending, run, hooks, queues, timers, io, tasks, Program, Alive, Inside
<1> SUFFICES ASSUME LoopType, DrainInv, [Next]_vars PROVE DrainInv'
  OBVIOUS
<1> /\ pc \in Stages /\ Where /\ tqitems \in Int /\ refs \in Int /\ held \in BOOLEAN /\ (pc # "out" => held)
    /\ task \in [Tasks -> {"none", "queued", "running", "finished", "canceled"}]
    /\ acbs \in Seq(Tasks \cup Cbs) /\ bcbs \in Seq(Cbs) /\ calling \in Seq(Tasks \cup Cbs)
    /\ dcbs \in Seq(Tasks)
  BY DEF LoopType
<1> USE DEF Where
<1>a. UNCHANGED <<calling, acbs, dcbs, task, tqitems, refs, held>> => Counted' /\ Returning'
  <2> SUFFICES ASSUME UNCHANGED <<calling, acbs, dcbs, task, tqitems, refs, held>> PROVE Counted' /\ Returning'
    BY Zenon
  <2>1. Busy' = Busy /\ Working' = Working /\ Held' = Held
    BY Zenon DEF Busy, Working, Held
  <2>2. Counted'
    BY Zenon, <2>1 DEF Counted
  <2> QED BY Zenon, <2>2 DEF Returning
<1>b. calling' = acbs /\ acbs' = <<>> /\ UNCHANGED <<dcbs, task, tqitems, refs, held>> => Counted' /\ Returning'
  <2> SUFFICES ASSUME calling' = acbs, acbs' = <<>>, UNCHANGED <<dcbs, task, tqitems, refs, held>> PROVE Counted' /\ Returning'
    BY Zenon
  <2>1. Busy' = Busy /\ Working' = Working /\ Held' = Held
    BY Zenon DEF Busy, Working, Held
  <2>2. Counted'
    BY Zenon, <2>1 DEF Counted
  <2> QED BY Zenon, <2>2, OnceEmpty DEF Returning
<1>c. Once(acbs \o dcbs) /\ TasksIn(acbs \o dcbs) = TasksIn(acbs) \cup TasksIn(dcbs) /\ Once(<<>>) /\ TasksIn(<<>>) = {}
  <2>1. Once(acbs) /\ Once(dcbs) /\ TasksIn(acbs) \cap TasksIn(dcbs) = {}
    BY Zenon DEF Returning
  <2> QED BY Zenon, <2>1, OnceEmpty, OnceMoved
<1>1. ASSUME \E h \in Prepares : AddPrepare(h) PROVE DrainInv'
  BY Zenon, <1>1, <1>a DEF AddPrepare
<1>2. ASSUME \E h \in Idles : AddIdle(h) PROVE DrainInv'
  BY <1>2, <1>a DEF AddIdle
<1>3. ASSUME \E c \in Cbs : AddCallback(c, FALSE) PROVE DrainInv'
  <2>1. PICK c \in Cbs, pri \in BOOLEAN : AddCallback(c, pri)
    BY <1>3, Zenon
  <2>2. UNCHANGED <<pc, calling, dcbs, task, tqitems, refs, held>> /\ (acbs' = acbs \/ acbs' = Append(acbs, c)) /\ pc # "check"
    BY Zenon, <2>1 DEF AddCallback
  <2>3. Once(Append(acbs, c)) /\ TasksIn(Append(acbs, c)) = TasksIn(acbs)
    BY NoTask DEF Returning
  <2>4. Counted' /\ Returning'
    BY <2>2, <2>3, Zenon DEF Counted, Held, Returning, Busy, Working
  <2> QED BY Zenon, <2>2, <2>4
<1>4. ASSUME \E c \in Cbs : ~Inside("bcbs") /\ AddCallback(c, TRUE) PROVE DrainInv'
  <2>1. PICK c \in Cbs, pri \in BOOLEAN : AddCallback(c, pri)
    BY <1>4, Zenon
  <2>2. UNCHANGED <<pc, calling, dcbs, task, tqitems, refs, held>> /\ (acbs' = acbs \/ acbs' = Append(acbs, c)) /\ pc # "check"
    BY Zenon, <2>1 DEF AddCallback
  <2>3. Once(Append(acbs, c)) /\ TasksIn(Append(acbs, c)) = TasksIn(acbs)
    BY NoTask DEF Returning
  <2>4. Counted' /\ Returning'
    BY Zenon, <2>2, <2>3 DEF Counted, Held, Returning, Busy, Working
  <2> QED BY Zenon, <2>2, <2>4
<1>5. ASSUME \E x \in Timers, delay \in 0 .. MaxTime : AddCallbackLater(x, delay) PROVE DrainInv'
  BY Zenon, <1>5, <1>a DEF AddCallbackLater, AddCallbackAt
<1>6. ASSUME \E x \in Timers : CancelTimer(x) PROVE DrainInv'
  BY Zenon, <1>6, <1>a DEF CancelTimer
<1>7. ASSUME \E t \in Tasks : AddTask(t) PROVE DrainInv'
  <2>1. PICK t \in Tasks : AddTask(t)
    BY <1>7
  <2>2. task[t] = "none" /\ task' = [task EXCEPT ![t] = "queued"] /\ tqitems' = tqitems + 1 /\ refs' = refs + 1
        /\ UNCHANGED <<pc, calling, acbs, dcbs, held>> /\ pc # "check"
    BY Zenon, <2>1 DEF AddTask
  <2>3. Busy' = Busy \cup {t} /\ t \notin Busy /\ Working' = Working \cup {t} /\ t \notin Working
    BY <2>2 DEF Busy, Working
  <2>4. Cardinality(Busy') = Cardinality(Busy) + 1 /\ Cardinality(Working') = Cardinality(Working) + 1
    BY <2>3, BusyFinite, FS_AddElement, Zenon
  <2>5. Counted'
    <3>1. tqitems = Cardinality(Busy) /\ refs = Cardinality(Working) + Held /\ Held \in {0, 1}
      BY DEF Counted, Held
    <3>2. refs + 1 = (Cardinality(Working) + 1) + Held
      BY Zenon, <3>1, BusyFinite, OneMore
    <3>3. Held' = Held
      BY Zenon, <2>2 DEF Held
    <3> QED BY Zenon, <3>1, <3>2, <3>3, <2>2, <2>4 DEF Counted
  <2>6. Returning'
    BY Zenon, <2>2 DEF Returning, TasksIn
  <2> QED BY Zenon, <2>2, <2>5, <2>6
<1>8. ASSUME \E w \in Watchers : StartWatcher(w) PROVE DrainInv'
  BY Zenon, <1>8, <1>a DEF StartWatcher
<1>9. ASSUME \E w \in Watchers : StopWatcher(w) PROVE DrainInv'
  BY <1>9, <1>a DEF StopWatcher
<1>10. ASSUME Stop PROVE DrainInv'
  BY Zenon, <1>10, <1>a DEF Stop
<1>11. ASSUME Unref PROVE DrainInv'
  <2>1. refs' = refs - 1 /\ held /\ ~held' /\ UNCHANGED <<pc, calling, acbs, dcbs, task, tqitems>> /\ pc = "out"
    BY <1>11, Zenon DEF Unref
  <2>2. Busy' = Busy /\ Working' = Working
    BY Zenon, <2>1 DEF Busy, Working
  <2>3. refs = Cardinality(Working) + 1 /\ Held' = 0
    BY <2>1 DEF Counted, Held
  <2>4. refs' = Cardinality(Working') + Held'
    BY <2>1, <2>2, <2>3, BusyFinite
  <2>5. Counted' /\ Returning'
    BY Zenon, <2>1, <2>2, <2>4 DEF Counted, Returning
  <2> QED BY Zenon, <2>1, <2>5
<1>12. ASSUME \E m \in Modes : RunBegin(m) PROVE DrainInv'
  <2>1. PICK m \in Modes : RunBegin(m)
    BY <1>12
  <2>2. UNCHANGED <<calling, acbs, bcbs, dcbs, task, tqitems, refs, held, due>> /\ ret' = r_ev_loop_outstanding_events /\ held /\ pc = "out"
    BY <2>1 DEF RunBegin
  <2>3. DrainedMeansQuiet'
    BY <2>2, OutstandingZero DEF DrainedMeansQuiet, Pending
  <2> QED BY <2>2, <2>3, <1>a
<1>13. ASSUME RunExit PROVE DrainInv'
  BY <1>13, <1>a DEF RunExit
<1>14. ASSUME IterationBegin PROVE DrainInv'
  BY <1>14, <1>a DEF IterationBegin
<1>15. ASSUME HookCall PROVE DrainInv'
  BY Zenon, <1>15, <1>a DEF HookCall
<1>16. ASSUME \E keep \in BOOLEAN : HookReturn(keep) PROVE DrainInv'
  BY <1>16, <1>a DEF HookReturn
<1>17. ASSUME PrepareEnd PROVE DrainInv'
  BY <1>17, <1>a DEF PrepareEnd
<1>18. ASSUME UpdateTimers PROVE DrainInv'
  BY <1>18, <1>a DEF UpdateTimers
<1>19. ASSUME \E x \in Timers : FireTimer(x) PROVE DrainInv'
  BY Zenon, <1>19, <1>a DEF FireTimer
<1>20. ASSUME TimerReturn PROVE DrainInv'
  BY <1>20, <1>a DEF TimerReturn
<1>21. ASSUME TimersEnd PROVE DrainInv'
  BY <1>21, <1>a DEF TimersEnd
<1>22. ASSUME MoveDone PROVE DrainInv'
  <2>1. acbs' = acbs \o dcbs /\ dcbs' = <<>> /\ calling' = bcbs /\ pc' = "bcbs" /\ UNCHANGED <<task, tqitems, refs, held>>
    BY <1>22 DEF MoveDone
  <2>2. Once(bcbs) /\ TasksIn(bcbs) = {}
    BY EvLoopAssumption DEF Once, TasksIn, Range
  <2>3. Counted' /\ Returning'
    BY Zenon, <2>1, <2>2, <1>c DEF Counted, Held, Busy, Working, Returning
  <2> QED BY Zenon, <2>1, <2>3
<1>23. ASSUME CallbackCall PROVE DrainInv'
  BY Zenon, <1>23, <1>a DEF CallbackCall
<1>24. ASSUME CallbackReturn PROVE DrainInv'
  <2> DEFINE h == Head(calling)
  <2>1. calling # <<>> /\ calling' = Tail(calling) /\ UNCHANGED <<pc, acbs, dcbs, refs, held>> /\ pc \in {"bcbs", "acbs"}
    BY Zenon, <1>24 DEF CallbackReturn, LoopType
  <2>2. Once(calling') /\ TasksIn(calling') = TasksIn(calling) \ {h}
    BY Zenon, <2>1, OnceTail DEF Returning
  <2>3. CASE h \in Tasks
    <3>1. task' = [task EXCEPT ![h] = "none"] /\ tqitems' = tqitems - 1
      BY <1>24, <2>3 DEF CallbackReturn, r_ev_loop_task_done
    <3>2. h \in TasksIn(calling)
      <4>1. 1 \in DOMAIN calling /\ h = calling[1]
        BY <2>1
      <4> QED BY <4>1, <2>3 DEF TasksIn, Range
    <3>3. task[h] = "finished"
      BY Zenon, <3>2 DEF Returning
    <3>4. Busy' = Busy \ {h} /\ h \in Busy /\ Working' = Working
      BY Zenon, <3>1, <3>3, <2>3 DEF Busy, Working
    <3>5. Cardinality(Busy') = Cardinality(Busy) - 1
      BY <3>4, BusyFinite, FS_RemoveElement, Zenon
    <3>6. Counted'
      BY Zenon, <3>1, <3>4, <3>5, <2>1, BusyFinite DEF Counted, Held
    <3>7. Returning'
      <4>1. h \notin TasksIn(acbs) /\ h \notin TasksIn(dcbs)
        BY Zenon, <3>2 DEF Returning
      <4>2. \A t \in Tasks : t # h => task'[t] = task[t]
        BY Zenon, <3>1 DEF LoopType
      <4>3. \A t \in TasksIn(calling') \cup TasksIn(acbs) \cup TasksIn(dcbs) :
               t \in Tasks /\ t # h /\ t \in TasksIn(calling) \cup TasksIn(acbs) \cup TasksIn(dcbs)
        BY Zenon, <2>2, <4>1 DEF TasksIn
      <4>4. \A t \in TasksIn(calling') \cup TasksIn(acbs) \cup TasksIn(dcbs) : task'[t] = "finished"
        BY Zenon, <4>2, <4>3 DEF Returning
      <4>5. TasksIn(calling') \cap TasksIn(acbs) = {} /\ TasksIn(calling') \cap TasksIn(dcbs) = {}
        BY Zenon, <2>2 DEF Returning
      <4> QED BY Zenon, <2>1, <2>2, <4>4, <4>5 DEF Returning
    <3> QED BY Zenon, <3>6, <3>7, <2>1
  <2>4. CASE h \notin Tasks
    <3>1. UNCHANGED <<task, tqitems>>
      BY <1>24, <2>4 DEF CallbackReturn
    <3>2. Counted' /\ Returning'
      BY Zenon, <3>1, <2>1, <2>2 DEF Counted, Held, Busy, Working, Returning
    <3> QED BY Zenon, <3>2, <2>1
  <2> QED BY Zenon, <2>3, <2>4
<1>25. ASSUME WaitBegin PROVE DrainInv'
  BY Zenon, <1>25, <1>a DEF WaitBegin
<1>26. ASSUME WaitEvents PROVE DrainInv'
  BY Zenon, <1>26, <1>a DEF WaitEvents
<1>27. ASSUME \E w \in Watchers : EventCall(w) PROVE DrainInv'
  BY Zenon, <1>27, <1>a DEF EventCall
<1>28. ASSUME EventReturn PROVE DrainInv'
  BY Zenon, <1>28, <1>a DEF EventReturn
<1>29. ASSUME WakeupRead PROVE DrainInv'
  BY Zenon, <1>29, <1>a DEF WakeupRead
<1>30. ASSUME WakeupMove PROVE DrainInv'
  <2>1. acbs' = acbs \o dcbs /\ dcbs' = <<>> /\ pc = "wakeup" /\ pc' = "events" /\ UNCHANGED <<calling, task, tqitems, refs, held>>
    BY Zenon, <1>30 DEF WakeupMove
  <2>2. Counted' /\ Returning'
    BY Zenon, <2>1, <1>c DEF Counted, Held, Busy, Working, Returning
  <2> QED BY Zenon, <2>1, <2>2
<1>31. ASSUME EventsEnd PROVE DrainInv'
  <2>1. calling' = acbs /\ acbs' = <<>> /\ pc' = "acbs" /\ UNCHANGED <<dcbs, task, tqitems, refs, held>>
    BY Zenon, <1>31 DEF EventsEnd
  <2> QED BY Zenon, <2>1, <1>b
<1>32. ASSUME WaitTimeout PROVE DrainInv'
  BY Zenon, <1>32, <1>a DEF WaitTimeout
<1>33. ASSUME WaitFail PROVE DrainInv'
  <2>1. calling' = acbs /\ acbs' = <<>> /\ pc' = "acbs" /\ UNCHANGED <<dcbs, task, tqitems, refs, held>>
    BY Zenon, <1>33 DEF WaitFail
  <2> QED BY Zenon, <2>1, <1>b
<1>34. ASSUME IdleEnd PROVE DrainInv'
  <2>1. calling' = acbs /\ acbs' = <<>> /\ pc' = "acbs" /\ UNCHANGED <<dcbs, task, tqitems, refs, held>>
    BY Zenon, <1>34 DEF IdleEnd
  <2> QED BY Zenon, <2>1, <1>b
<1>35. ASSUME AcbsEnd PROVE DrainInv'
  BY Zenon, <1>35, <1>a DEF AcbsEnd
<1>36. ASSUME IterationEnd PROVE DrainInv'
  <2>1. UNCHANGED <<calling, acbs, bcbs, dcbs, task, tqitems, refs, held, due>> /\ ret' = r_ev_loop_outstanding_events /\ held /\ pc = "end"
    BY Zenon, <1>36 DEF IterationEnd
  <2>2. DrainedMeansQuiet'
    BY <2>1, OutstandingZero DEF DrainedMeansQuiet, Pending
  <2> QED BY <2>1, <2>2, <1>a
<1>37. ASSUME \E t \in Tasks : TaskStart(t) PROVE DrainInv'
  <2>1. PICK t \in Tasks : TaskStart(t)
    BY <1>37
  <2>2. task[t] = "queued" /\ task' = [task EXCEPT ![t] = "running"] /\ UNCHANGED <<pc, calling, acbs, bcbs, dcbs, tqitems, refs, held, ret, due>>
    BY Zenon, <2>1 DEF TaskStart
  <2>3. Busy' = Busy /\ Working' = Working
    BY <2>2 DEF Busy, Working
  <2>4. Counted' /\ Returning'
    BY Zenon, <2>2, <2>3 DEF Counted, Held, Returning, TasksIn
  <2> QED BY <2>2, <2>4
<1>38. ASSUME \E t \in Tasks : r_ev_loop_task_proxy(t) PROVE DrainInv'
  <2>1. PICK t \in Tasks : r_ev_loop_task_proxy(t)
    BY <1>38
  <2>2. task[t] = "running" /\ task' = [task EXCEPT ![t] = "finished"] /\ refs' = refs - 1 /\ dcbs' = Append(dcbs, t)
        /\ UNCHANGED <<pc, calling, acbs, bcbs, tqitems, held, ret, due>>
    BY Zenon, <2>1 DEF r_ev_loop_task_proxy
  <2>3. Busy' = Busy /\ Working' = Working \ {t} /\ t \in Working /\ t \in Busy
    BY <2>2 DEF Busy, Working
  <2>4. Cardinality(Working') = Cardinality(Working) - 1
    BY <2>3, BusyFinite, FS_RemoveElement, Zenon
  <2>5. Counted'
    <3>1. tqitems = Cardinality(Busy) /\ refs = Cardinality(Working) + Held /\ Held \in {0, 1}
      BY DEF Counted, Held
    <3>2. tqitems' = tqitems /\ refs' = refs - 1 /\ Held' = Held
      BY Zenon, <2>2 DEF Held
    <3>3. refs' = Cardinality(Working') + Held'
      <4>1. refs - 1 = (Cardinality(Working) - 1) + Held
        BY Zenon, <3>1, BusyFinite, OneLess
      <4> QED BY Zenon, <3>2, <2>4, <4>1
    <3> QED BY <3>1, <3>2, <3>3, <2>3 DEF Counted
  <2>6. t \notin TasksIn(calling) \cup TasksIn(acbs) \cup TasksIn(dcbs)
    BY Zenon, <2>2 DEF Returning
  <2>7. Once(dcbs') /\ TasksIn(dcbs') = TasksIn(dcbs) \cup {t}
    <3>1. dcbs \in Seq(Tasks) /\ t \in Tasks /\ Once(dcbs) /\ t \notin TasksIn(dcbs)
      BY Zenon, <2>6 DEF Returning
    <3>2. Once(Append(dcbs, t)) /\ TasksIn(Append(dcbs, t)) = TasksIn(dcbs) \cup {t}
      BY Zenon, <3>1, OnceAppendTask
    <3> QED BY Zenon, <2>2, <3>2
  <2>8. Returning'
    BY Zenon, <2>2, <2>6, <2>7 DEF Returning, TasksIn
  <2> QED BY <2>2, <2>5, <2>8, <2>3
<1>39. ASSUME \E w \in Watchers : KernelEvent(w) PROVE DrainInv'
  BY Zenon, <1>39, <1>a DEF KernelEvent
<1>40. ASSUME Tick PROVE DrainInv'
  BY Zenon, <1>40, <1>a DEF Tick
<1>41. ASSUME UNCHANGED vars PROVE DrainInv'
  BY Zenon, <1>41, <1>a DEF vars
<1> QED
  BY <1>1, <1>2, <1>3, <1>4, <1>5, <1>6, <1>7, <1>8, <1>9, <1>10, <1>11, <1>12, <1>13,
     <1>14, <1>15, <1>16, <1>17, <1>18, <1>19, <1>20, <1>21, <1>22, <1>23, <1>24, <1>25,
     <1>26, <1>27, <1>28, <1>29, <1>30, <1>31, <1>32, <1>33, <1>34, <1>35, <1>36, <1>37,
     <1>38, <1>39, <1>40, <1>41, ZenonT(30) DEF Next, Calls, LoopStep, Return

\* r_ev_loop_run finds the loop drained only when no task is queued, running or
\* waiting for its done callback, and the loop is not freed while a worker has
\* r_ev_loop_task_proxy still to finish, even after the program has given it up.
THEOREM LoopDrainsSafely == Spec => []DrainsSafely
<1>1. LoopType /\ DrainInv => DrainsSafely
  <2> SUFFICES ASSUME LoopType, DrainInv PROVE DrainsSafely
    OBVIOUS
  <2>1. ASSUME NEW t \in Tasks, task[t] \in {"queued", "running"} PROVE refs > 0
    <3>1. t \in Working
      BY <2>1 DEF Working
    <3>2. Cardinality(Working) \in Nat /\ Cardinality(Working) # 0
      BY <3>1, BusyFinite, FS_EmptySet, Zenon
    <3>3. refs = Cardinality(Working) + Held /\ Held \in {0, 1}
      BY DEF DrainInv, Counted, Held
    <3> QED BY <3>2, <3>3
  <2> QED BY <2>1 DEF DrainsSafely, AliveForWorkers, DrainInv
<1>2. Init => DrainInv
  <2> SUFFICES ASSUME Init PROVE DrainInv
    OBVIOUS
  <2> USE EvLoopAssumption DEF Init
  <2>1. Busy = {} /\ Working = {}
    BY DEF Busy, Working
  <2>2. Counted
    BY <2>1, FS_EmptySet DEF Counted, Held
  <2>3. Returning
    <3>1. calling = <<>> /\ acbs = <<>> /\ dcbs = <<>>
      BY Zenon
    <3> QED BY Zenon, <3>1, OnceEmpty DEF Returning
  <2> QED BY <2>2, <2>3 DEF DrainInv, InCalls, DrainedMeansQuiet
<1> QED BY <1>1, <1>2, DrainStep, LoopTyped, PTL DEF Spec
=============================================================================
