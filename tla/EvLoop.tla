------------------------------- MODULE EvLoop -------------------------------
(***************************************************************************)
(* The event loop of rlib/ev/revloop.c: r_ev_loop_run with its hooks,      *)
(* timers, callback queues and the blocking wait, and the tasks that       *)
(* worker threads run and whose done callback comes back to the loop.      *)
(*                                                                         *)
(* The loop thread is the program: outside r_ev_loop_run, and inside every *)
(* callback the loop makes, it may call the functions of revloop.h.        *)
(***************************************************************************)
EXTENDS Integers, Sequences, FiniteSetsExt

CONSTANTS Tasks,      \* tasks added with a done callback; reused once done
          Cbs,        \* one-shot callbacks; reused once called
          Timers,     \* timer entries; reused once fired
          Prepares,   \* prepare callbacks
          Idles,      \* idle callbacks
          Watchers,   \* I/O sources
          Modes,      \* the run modes the program uses
          MinDelay,   \* the shortest delay the callback of a timer asks for
          MaxTime     \* bound on the clock and on deadlines

Infinite == MaxTime + 1   \* R_CLOCK_TIME_INFINITE
Unset == -1               \* a timer that is not scheduled
Wakeup == "wakeup"        \* the event source of loop->evio_wakeup

ASSUME EvLoopAssumption ==
  /\ IsFiniteSet(Tasks) /\ IsFiniteSet(Timers) /\ IsFiniteSet(Watchers)
  /\ MaxTime \in Nat /\ MinDelay \in Nat
  /\ Modes \subseteq {"LOOP", "ONCE", "NOWAIT"}
  /\ Tasks \cap Cbs = {} /\ Prepares \cap Idles = {} /\ Wakeup \notin Watchers

VARIABLES pc,        \* where the loop thread is in r_ev_loop_run
          incb,      \* it is inside a callback made at pc
          mode, ret, res, deadline,  \* the locals of r_ev_loop_run
          stop,      \* stop_request
          prepare, idle,  \* the hook lists, head first
          lcall, lkeep,   \* r_cbrlist_call: hooks to call, hooks that stay
          hooked,    \* history: hooks that wish to be called
          acbs, bcbs,     \* the callback queues
          calling,   \* r_cbqueue_call_pop: the detached list still to call
          due, ts, clock, \* deadlines, loop->ts, the time
          active,    \* the started watchers
          ready,     \* sources the kernel has an event for
          batch,     \* events returned by the wait and not yet dispatched
          dcbs,      \* finished tasks, guarded by done_mutex
          task,      \* "none", "queued", "running", "finished", "canceled"
          tqitems, refs,
          held,      \* one of the references is the program's
          aborted    \* an assertion failed

run == <<pc, incb, mode, ret, res, deadline>>
hooks == <<prepare, idle, lcall, lkeep, hooked>>
queues == <<acbs, bcbs, calling>>
timers == <<due, ts>>
io == <<active, batch>>
tasks == <<dcbs, task, tqitems, refs, held>>
vars == <<run, stop, hooks, queues, timers, clock, io, ready, tasks, aborted>>

Stages == {"out", "check", "prepare", "update1", "fire1", "move", "bcbs", "wait",
           "events", "wakeup", "idle", "acbs", "update2", "fire2", "end"}

TypeOK ==
  /\ pc \in Stages /\ incb \in BOOLEAN
  /\ mode \in {"LOOP", "ONCE", "NOWAIT"} /\ ret \in Nat /\ res \in {-1, 0, 1}
  /\ deadline \in 0 .. Infinite /\ ts \in 0 .. MaxTime /\ clock \in 0 .. MaxTime
  /\ stop \in BOOLEAN /\ aborted \in BOOLEAN
  /\ prepare \in Seq(Prepares) /\ idle \in Seq(Idles) /\ hooked \subseteq Prepares \cup Idles
  /\ lcall \in Seq(Prepares \cup Idles) /\ lkeep \in Seq(Prepares \cup Idles)
  /\ acbs \in Seq(Tasks \cup Cbs) /\ bcbs \in Seq(Cbs) /\ calling \in Seq(Tasks \cup Cbs)
  /\ due \in [Timers -> Unset .. MaxTime]
  /\ active \subseteq Watchers /\ ready \subseteq Watchers \cup {Wakeup}
  /\ batch \subseteq Watchers \cup {Wakeup}
  /\ dcbs \in Seq(Tasks)
  /\ task \in [Tasks -> {"none", "queued", "running", "finished", "canceled"}]
  /\ tqitems \in 0 .. Cardinality(Tasks)
  /\ refs \in 0 .. Cardinality(Tasks) + 1 /\ held \in BOOLEAN

\* r_ev_loop_setup; the program holds the only reference.
Init ==
  /\ pc = "out" /\ incb = FALSE /\ mode = "LOOP" /\ ret = 0 /\ res = 0
  /\ deadline = 0 /\ stop = FALSE
  /\ prepare = <<>> /\ idle = <<>> /\ lcall = <<>> /\ lkeep = <<>> /\ hooked = {}
  /\ acbs = <<>> /\ bcbs = <<>> /\ calling = <<>>
  /\ due = [x \in Timers |-> Unset] /\ ts = 0 /\ clock = 0
  /\ active = {} /\ ready = {} /\ batch = {}
  /\ dcbs = <<>> /\ task = [t \in Tasks |-> "none"] /\ tqitems = 0
  /\ refs = 1 /\ held = TRUE /\ aborted = FALSE

Pending == {x \in Timers : due[x] # Unset}

r_ev_loop_outstanding_events ==
  Len(idle) + Len(acbs) + Len(bcbs) + tqitems + Cardinality(Pending)
    + Cardinality(active)

(***************************************************************************)
(* What the program calls, outside the loop or from a callback.            *)
(***************************************************************************)
Alive == ~aborted /\ refs > 0
Program == Alive /\ held /\ (pc = "out" \/ incb)

\* The callback is called at pc.
Inside(place) == incb /\ pc = place

\* A hook is listed once.  One that a hook of the same list adds is lost when
\* the pass is over: PrepareEnd and IdleEnd store the list that was called.
AddPrepare(h) ==
  /\ Program /\ h \notin Range(prepare)
  /\ prepare' = <<h>> \o prepare
  /\ hooked' = IF Inside("prepare") THEN hooked ELSE hooked \cup {h}
  /\ UNCHANGED <<run, stop, idle, lcall, lkeep, queues, timers, clock, io, ready, tasks, aborted>>

AddIdle(h) ==
  /\ Program /\ h \notin Range(idle)
  /\ idle' = <<h>> \o idle
  /\ hooked' = IF Inside("idle") THEN hooked ELSE hooked \cup {h}
  /\ UNCHANGED <<run, stop, prepare, lcall, lkeep, queues, timers, clock, io, ready, tasks, aborted>>

AddCallback(c, pri) ==
  /\ Program /\ c \notin Range(acbs) \cup Range(bcbs) \cup Range(calling)
  /\ IF pri THEN bcbs' = Append(bcbs, c) /\ UNCHANGED acbs
            ELSE acbs' = Append(acbs, c) /\ UNCHANGED bcbs
  /\ UNCHANGED <<run, stop, hooks, calling, timers, clock, io, ready, tasks, aborted>>

AddCallbackAt(x, d) ==
  /\ Program /\ due[x] = Unset
  /\ due' = [due EXCEPT ![x] = d]
  /\ UNCHANGED <<run, stop, hooks, queues, ts, clock, io, ready, tasks, aborted>>

AddCallbackLater(x, delay) == ts + delay <= MaxTime /\ AddCallbackAt(x, ts + delay)

CancelTimer(x) ==
  /\ Program /\ due[x] # Unset
  /\ due' = [due EXCEPT ![x] = Unset]
  /\ UNCHANGED <<run, stop, hooks, queues, ts, clock, io, ready, tasks, aborted>>

\* mutant: the task borrows the loop
AddTaskBorrows(t) ==
  /\ Program /\ task[t] = "none"
  /\ task' = [task EXCEPT ![t] = "queued"]
  /\ tqitems' = tqitems + 1
  /\ UNCHANGED <<run, stop, hooks, queues, timers, clock, io, ready, dcbs, refs, held, aborted>>

\* A task with a done callback that r_task_queue_add_full_v accepts.  One that it
\* refuses gives its reference back, and one without a done callback takes none:
\* neither leaves a trace in the loop.
AddTask(t) ==
  /\ Program /\ task[t] = "none"
  /\ task' = [task EXCEPT ![t] = "queued"]
  /\ refs' = refs + 1
  /\ tqitems' = tqitems + 1
  /\ UNCHANGED <<run, stop, hooks, queues, timers, clock, io, ready, dcbs, held, aborted>>

Stop ==
  /\ Program /\ stop' = TRUE
  /\ UNCHANGED <<run, hooks, queues, timers, clock, io, ready, tasks, aborted>>

\* A watcher is started or stopped; see EvIO for its event subscriptions.
StartWatcher(w) ==
  /\ Program /\ active' = active \cup {w}
  /\ UNCHANGED <<run, stop, hooks, queues, timers, clock, batch, ready, tasks, aborted>>

StopWatcher(w) ==
  /\ Program /\ w \in active
  /\ active' = active \ {w} /\ batch' = batch \ {w} /\ ready' = ready \ {w}
  /\ UNCHANGED <<run, stop, hooks, queues, timers, clock, tasks, aborted>>

\* The program gives up its reference, with tasks under way or not; a loop that
\* runs is one its caller holds.  The last reference frees the loop.
Unref ==
  /\ Alive /\ held /\ pc = "out"
  /\ held' = FALSE /\ refs' = refs - 1
  /\ UNCHANGED <<run, stop, hooks, queues, timers, clock, io, ready, dcbs, task, tqitems, aborted>>

(***************************************************************************)
(* r_ev_loop_run.  The program runs no loop inside the loop.               *)
(***************************************************************************)
RunBegin(m) ==
  /\ Alive /\ held /\ pc = "out"
  /\ mode' = m /\ ret' = r_ev_loop_outstanding_events /\ res' = 0 /\ pc' = "check"
  /\ UNCHANGED <<incb, deadline, stop, hooks, queues, timers, clock, io, ready, tasks, aborted>>

RunExit ==
  /\ Alive /\ pc = "check" /\ (stop \/ ret = 0 \/ res < 0)
  /\ pc' = "out"
  /\ UNCHANGED <<incb, mode, ret, res, deadline, stop, hooks, queues, timers, clock, io, ready, tasks, aborted>>

IterationBegin ==
  /\ Alive /\ pc = "check" /\ ~stop /\ ret # 0 /\ res >= 0
  /\ pc' = "prepare" /\ lcall' = prepare /\ lkeep' = <<>>
  /\ UNCHANGED <<incb, mode, ret, res, deadline, stop, prepare, idle, hooked, queues, timers, clock, io, ready, tasks, aborted>>

\* r_cbrlist_call: one hook after the other; one that returns FALSE is removed.
HookCall ==
  /\ Alive /\ pc \in {"prepare", "idle"} /\ ~incb /\ lcall # <<>>
  /\ incb' = TRUE
  /\ UNCHANGED <<pc, mode, ret, res, deadline, stop, hooks, queues, timers, clock, io, ready, tasks, aborted>>

HookReturn(keep) ==
  /\ Alive /\ pc \in {"prepare", "idle"} /\ incb
  /\ incb' = FALSE /\ lcall' = Tail(lcall)
  /\ lkeep' = IF keep THEN Append(lkeep, Head(lcall)) ELSE lkeep
  /\ hooked' = IF keep THEN hooked ELSE hooked \ {Head(lcall)}
  /\ UNCHANGED <<pc, mode, ret, res, deadline, stop, prepare, idle, queues, timers, clock, io, ready, tasks, aborted>>

\* loop->prepare = r_cbrlist_call (loop->prepare)
PrepareEnd ==
  /\ Alive /\ pc = "prepare" /\ ~incb /\ lcall = <<>>
  /\ prepare' = lkeep /\ lkeep' = <<>> /\ pc' = "update1"
  /\ UNCHANGED <<incb, mode, ret, res, deadline, stop, idle, lcall, hooked, queues, timers, clock, io, ready, tasks, aborted>>

\* mutant: the time of the loop is the one it had when it was made
UpdateTimersStale ==
  /\ Alive /\ pc \in {"update1", "update2"}
  /\ pc' = IF pc = "update1" THEN "fire1" ELSE "fire2"
  /\ UNCHANGED <<incb, mode, ret, res, deadline, stop, hooks, queues, timers, clock, io, ready, tasks, aborted>>

\* r_clock_process_entries reads the time once, then fires what is due.
UpdateTimers ==
  /\ Alive /\ pc \in {"update1", "update2"}
  /\ ts' = clock
  /\ pc' = IF pc = "update1" THEN "fire1" ELSE "fire2"
  /\ UNCHANGED <<incb, mode, ret, res, deadline, stop, hooks, queues, due, clock, io, ready, tasks, aborted>>

\* Which of the entries due at the same time is first is left open.  An entry
\* that fires is not cancelled by its own callback: see TimeoutCBList.
FireTimer(x) ==
  /\ Alive /\ pc \in {"fire1", "fire2"} /\ ~incb
  /\ x \in Pending /\ due[x] <= ts /\ \A y \in Pending : due[x] <= due[y]
  /\ due' = [due EXCEPT ![x] = Unset] /\ incb' = TRUE
  /\ UNCHANGED <<pc, mode, ret, res, deadline, stop, hooks, queues, ts, clock, io, ready, tasks, aborted>>

TimerReturn ==
  /\ Alive /\ pc \in {"fire1", "fire2"} /\ incb
  /\ incb' = FALSE
  /\ UNCHANGED <<pc, mode, ret, res, deadline, stop, hooks, queues, timers, clock, io, ready, tasks, aborted>>

\* mutant: one timer is left for the next update
TimersEndEarly ==
  /\ Alive /\ pc \in {"fire1", "fire2"} /\ ~incb
  /\ Cardinality({x \in Pending : due[x] <= ts}) <= 1
  /\ pc' = IF pc = "fire1" THEN "move" ELSE "end"
  /\ UNCHANGED <<incb, mode, ret, res, deadline, stop, hooks, queues, timers, clock, io, ready, tasks, aborted>>

TimersEnd ==
  /\ Alive /\ pc \in {"fire1", "fire2"} /\ ~incb
  /\ \A x \in Pending : due[x] > ts
  /\ pc' = IF pc = "fire1" THEN "move" ELSE "end"
  /\ UNCHANGED <<incb, mode, ret, res, deadline, stop, hooks, queues, timers, clock, io, ready, tasks, aborted>>

\* r_ev_loop_move_done_callbacks, then r_cbqueue_call_pop detaches bcbs.
MoveDone ==
  /\ Alive /\ pc = "move"
  /\ acbs' = acbs \o dcbs /\ dcbs' = <<>>
  /\ calling' = bcbs /\ bcbs' = <<>> /\ pc' = "bcbs"
  /\ UNCHANGED <<incb, mode, ret, res, deadline, stop, hooks, timers, clock, io, ready, task, tqitems, refs, held, aborted>>

CallbackCall ==
  /\ Alive /\ pc \in {"bcbs", "acbs"} /\ ~incb /\ calling # <<>>
  /\ incb' = TRUE
  /\ UNCHANGED <<pc, mode, ret, res, deadline, stop, hooks, queues, timers, clock, io, ready, tasks, aborted>>

\* r_ev_loop_task_done after the done callback.  Its lock of done_mutex never
\* waits for the worker of this task: MoveDone has taken the mutex since.
r_ev_loop_task_done(t) ==
  task' = [task EXCEPT ![t] = "none"] /\ tqitems' = tqitems - 1

CallbackReturn ==
  /\ Alive /\ pc \in {"bcbs", "acbs"} /\ incb
  /\ incb' = FALSE /\ calling' = Tail(calling)
  /\ IF Head(calling) \in Tasks THEN r_ev_loop_task_done(Head(calling))
                                ELSE UNCHANGED <<task, tqitems>>
  /\ UNCHANGED <<pc, mode, ret, res, deadline, stop, hooks, acbs, bcbs, timers, clock, io, ready, dcbs, refs, held, aborted>>

r_clock_first_timeout ==
  IF Pending = {} THEN Infinite ELSE Min({due[x] : x \in Pending})

\* mutant: the callbacks to call after the wait are not looked at
NextDeadlineBlind ==
  IF \/ mode = "NOWAIT" \/ stop \/ idle # <<>>
     \/ Pending = {} /\ active = {} /\ tqitems = 0
  THEN ts ELSE r_clock_first_timeout

\* mutant: a loop that is asked to stop sleeps
NextDeadlineIgnoresStop ==
  IF \/ mode = "NOWAIT" \/ idle # <<>> \/ acbs # <<>>
     \/ Pending = {} /\ active = {} /\ tqitems = 0
  THEN ts ELSE r_clock_first_timeout

r_ev_loop_next_deadline ==
  IF \/ mode = "NOWAIT" \/ stop \/ idle # <<>> \/ acbs # <<>>
     \/ Pending = {} /\ active = {} /\ tqitems = 0
  THEN ts ELSE r_clock_first_timeout

\* The end of bcbs, and r_assert_cmpuint (deadline, >=, loop->ts).
WaitBegin ==
  /\ Alive /\ pc = "bcbs" /\ ~incb /\ calling = <<>>
  /\ deadline' = r_ev_loop_next_deadline
  /\ aborted' = (r_ev_loop_next_deadline < ts)
  /\ pc' = "wait"
  /\ UNCHANGED <<incb, mode, ret, res, stop, hooks, queues, timers, clock, io, ready, tasks>>

(***************************************************************************)
(* r_ev_loop_io_wait (epoll).  It returns events, or times out, or fails.  *)
(***************************************************************************)
WaitEvents ==
  /\ Alive /\ pc = "wait" /\ ready # {}
  /\ batch' = ready /\ ready' = ready \cap {Wakeup} /\ res' = 1 /\ pc' = "events"
  /\ UNCHANGED <<incb, mode, ret, deadline, stop, hooks, queues, timers, clock, active, tasks, aborted>>

\* The callback of a watcher runs; with no callback left the event is dropped.
EventCall(w) ==
  /\ Alive /\ pc = "events" /\ ~incb /\ w \in batch \cap active
  /\ batch' = batch \ {w} /\ incb' = TRUE
  /\ UNCHANGED <<pc, mode, ret, res, deadline, stop, hooks, queues, timers, clock, active, ready, tasks, aborted>>

EventReturn ==
  /\ Alive /\ pc = "events" /\ incb
  /\ incb' = FALSE
  /\ UNCHANGED <<pc, mode, ret, res, deadline, stop, hooks, queues, timers, clock, io, ready, tasks, aborted>>

\* r_ev_loop_wakeup_cb: r_ev_wakeup_read empties the eventfd ...
WakeupRead ==
  /\ Alive /\ pc = "events" /\ ~incb /\ Wakeup \in batch
  /\ batch' = batch \ {Wakeup} /\ ready' = ready \ {Wakeup} /\ pc' = "wakeup"
  /\ UNCHANGED <<incb, mode, ret, res, deadline, stop, hooks, queues, timers, clock, active, tasks, aborted>>

\* ... and then the finished tasks are moved.
WakeupMove ==
  /\ Alive /\ pc = "wakeup"
  /\ acbs' = acbs \o dcbs /\ dcbs' = <<>> /\ pc' = "events"
  /\ UNCHANGED <<incb, mode, ret, res, deadline, stop, hooks, bcbs, calling, timers, clock, io, ready, task, tqitems, refs, held, aborted>>

\* The end of the batch; r_cbqueue_call_pop detaches acbs.
EventsEnd ==
  /\ Alive /\ pc = "events" /\ ~incb /\ batch = {}
  /\ calling' = acbs /\ acbs' = <<>> /\ pc' = "acbs"
  /\ UNCHANGED <<incb, mode, ret, res, deadline, stop, hooks, bcbs, timers, clock, io, ready, tasks, aborted>>

\* A wait that returned nothing is repeated until the deadline has passed.
WaitTimeout ==
  /\ Alive /\ pc = "wait" /\ ready = {} /\ deadline <= clock
  /\ res' = 0 /\ lcall' = idle /\ lkeep' = <<>> /\ pc' = "idle"
  /\ UNCHANGED <<incb, mode, ret, deadline, stop, prepare, idle, hooked, queues, timers, clock, io, ready, tasks, aborted>>

\* epoll_wait fails
WaitFail ==
  /\ Alive /\ pc = "wait"
  /\ res' = -1 /\ calling' = acbs /\ acbs' = <<>> /\ pc' = "acbs"
  /\ UNCHANGED <<incb, mode, ret, deadline, stop, hooks, bcbs, timers, clock, io, ready, tasks, aborted>>

\* loop->idle = r_cbrlist_call (loop->idle); r_cbqueue_call_pop detaches acbs.
IdleEnd ==
  /\ Alive /\ pc = "idle" /\ ~incb /\ lcall = <<>>
  /\ idle' = lkeep /\ lkeep' = <<>>
  /\ calling' = acbs /\ acbs' = <<>> /\ pc' = "acbs"
  /\ UNCHANGED <<incb, mode, ret, res, deadline, stop, prepare, lcall, hooked, bcbs, timers, clock, io, ready, tasks, aborted>>

AcbsEnd ==
  /\ Alive /\ pc = "acbs" /\ ~incb /\ calling = <<>>
  /\ pc' = "update2"
  /\ UNCHANGED <<incb, mode, ret, res, deadline, stop, hooks, queues, timers, clock, io, ready, tasks, aborted>>

IterationEnd ==
  /\ Alive /\ pc = "end"
  /\ ret' = r_ev_loop_outstanding_events
  /\ pc' = IF mode = "LOOP" THEN "check" ELSE "out"
  /\ UNCHANGED <<incb, mode, res, deadline, stop, hooks, queues, timers, clock, io, ready, tasks, aborted>>

(***************************************************************************)
(* The worker threads, the kernel and the time.                            *)
(***************************************************************************)
\* A worker takes the task (module TaskQueue says which and when).
TaskStart(t) ==
  /\ ~aborted /\ task[t] = "queued"
  /\ task' = [task EXCEPT ![t] = "running"]
  /\ UNCHANGED <<run, stop, hooks, queues, timers, clock, io, ready, dcbs, tqitems, refs, held, aborted>>

\* mutant: the loop is woken for the second completion
ProxyWakesLate(t) ==
  /\ ~aborted /\ task[t] = "running"
  /\ task' = [task EXCEPT ![t] = "finished"]
  /\ ready' = IF dcbs # <<>> THEN ready \cup {Wakeup} ELSE ready
  /\ dcbs' = Append(dcbs, t)
  /\ refs' = refs - 1
  /\ UNCHANGED <<run, stop, hooks, queues, timers, clock, io, tqitems, held, aborted>>

\* r_ev_loop_task_proxy after the task's function, under done_mutex.  When the
\* program has given up the loop, the last reference is dropped here: then
\* r_ev_loop_free runs in the worker, which holds done_mutex and locks it again,
\* and the worker does not come back.
r_ev_loop_task_proxy(t) ==
  /\ ~aborted /\ task[t] = "running"
  /\ task' = [task EXCEPT ![t] = "finished"]
  /\ ready' = IF dcbs = <<>> THEN ready \cup {Wakeup} ELSE ready
  /\ dcbs' = Append(dcbs, t)
  /\ refs' = refs - 1
  /\ UNCHANGED <<run, stop, hooks, queues, timers, clock, io, tqitems, held, aborted>>

KernelEvent(w) ==
  /\ Alive /\ w \in active
  /\ ready' = ready \cup {w}
  /\ UNCHANGED <<run, stop, hooks, queues, timers, clock, io, tasks, aborted>>

Tick ==
  /\ clock < MaxTime /\ clock' = clock + 1
  /\ UNCHANGED <<run, stop, hooks, queues, timers, io, ready, tasks, aborted>>

(***************************************************************************)
(* The specification.  The program runs no loop inside the loop and gives  *)
(* none up that runs, adds no priority callback from a priority callback,  *)
(* schedules no timer for a time before loop->ts, and none less than       *)
(* MinDelay ahead from the callback of a timer (a delay of 0 there makes   *)
(* r_clock_process_entries fire for ever), stops the loop from its own     *)
(* thread and cancels no task: see the end of the module.                  *)
(***************************************************************************)
Calls ==
  \/ \E h \in Prepares : AddPrepare(h)
  \/ \E h \in Idles : AddIdle(h)
  \/ \E c \in Cbs : AddCallback(c, FALSE)
  \/ \E c \in Cbs : ~Inside("bcbs") /\ AddCallback(c, TRUE)
  \/ \E x \in Timers, delay \in 0 .. MaxTime :
       (pc \in {"fire1", "fire2"} => delay >= MinDelay) /\ AddCallbackLater(x, delay)
  \/ \E x \in Timers : CancelTimer(x)
  \/ \E t \in Tasks : AddTask(t)
  \/ \E w \in Watchers : StartWatcher(w) \/ StopWatcher(w)
  \/ Stop \/ Unref
  \/ \E m \in Modes : RunBegin(m)

Return ==
  \/ \E keep \in BOOLEAN : HookReturn(keep)
  \/ TimerReturn \/ CallbackReturn \/ EventReturn

LoopStep ==
  \/ RunExit \/ IterationBegin \/ HookCall \/ PrepareEnd \/ UpdateTimers
  \/ \E x \in Timers : FireTimer(x)
  \/ TimersEnd \/ MoveDone \/ CallbackCall \/ WaitBegin \/ WaitEvents
  \/ \E w \in Watchers : EventCall(w)
  \/ WakeupRead \/ WakeupMove \/ EventsEnd \/ WaitTimeout \/ IdleEnd \/ AcbsEnd
  \/ IterationEnd \/ Return

Next ==
  \/ Calls \/ LoopStep \/ WaitFail \/ Tick
  \/ \E t \in Tasks : TaskStart(t) \/ r_ev_loop_task_proxy(t)
  \/ \E w \in Watchers : KernelEvent(w)

\* Callbacks return, tasks are run and return, the loop thread is scheduled
\* and time passes.  Nothing makes the program call anything.
Fairness ==
  /\ WF_vars(LoopStep) /\ WF_vars(Tick)
  /\ \A t \in Tasks : WF_vars(TaskStart(t)) /\ WF_vars(r_ev_loop_task_proxy(t))

Spec == Init /\ [][Next]_vars
FairSpec == Spec /\ Fairness

(***************************************************************************)
(* Properties.                                                             *)
(***************************************************************************)
\* r_assert_cmpuint (deadline, >=, loop->ts) in r_ev_loop_run never fails.
NoAbort == ~aborted

\* r_ev_loop_task_proxy wakes the loop only for the first completion in dcbs, and
\* r_ev_loop_wakeup_cb reads the eventfd before it takes them: a loop that sleeps
\* in the wait never has completions it was not woken for, however the steps of
\* the workers fall between those of the loop.
WokenForDone == pc = "wait" /\ dcbs # <<>> => Wakeup \in ready

\* dcbs is not part of r_ev_loop_outstanding_events: when the loop finds
\* itself drained no task is queued, running or waiting for its done callback,
\* and no worker holds a reference to the loop any more.
DrainedMeansQuiet ==
  pc = "check" /\ ret = 0 =>
    /\ \A t \in Tasks : task[t] = "none"
    /\ dcbs = <<>> /\ acbs = <<>> /\ bcbs = <<>> /\ Pending = {} /\ refs = 1

\* The reference taken by r_ev_loop_add_task_full keeps the loop alive until
\* r_ev_loop_task_proxy is done with it, even when the program gives up its own
\* in the meantime: a worker never uses a freed loop.
AliveForWorkers == (\E t \in Tasks : task[t] \in {"queued", "running"}) => refs > 0

\* r_ev_loop_run and the workers agree on the end: the loop returns drained
\* only when no task is left, and is not freed while a worker still needs it.
DrainsSafely == DrainedMeansQuiet /\ AliveForWorkers

Running == pc # "out" /\ mode = "LOOP" /\ ~stop /\ res >= 0 /\ ~aborted

\* A task added to a running loop has its done callback called, unless the
\* loop is stopped or the wait fails.
DoneRuns == \A t \in Tasks : (Running /\ task[t] # "none") ~> (task[t] = "none" \/ stop \/ res < 0)

\* A queued callback of a running loop is called.
CallbackRuns ==
  \A c \in Cbs : (Running /\ c \in Range(acbs) \cup Range(bcbs)) ~>
                 (c \notin Range(acbs) \cup Range(bcbs) \/ stop \/ res < 0)

\* A running loop calls whatever was queued for it, done callbacks of tasks and
\* callbacks of either priority, before it sleeps on a source that may stay silent:
\* r_ev_loop_next_deadline sees acbs and the tasks, and bcbs is empty by then as
\* long as no priority callback queues another one.
QueuedRuns == DoneRuns /\ CallbackRuns

\* A timer of a running loop fires or is cancelled.
TimerFires ==
  \A x \in Timers : (Running /\ due[x] # Unset) ~> (due[x] = Unset \/ stop \/ res < 0)

\* The hook is being called.
Called(h) == incb /\ pc \in {"prepare", "idle"} /\ h = Head(lcall)

\* A hook added outside the pass over its list is called again and again until it
\* returns FALSE, whatever the hooks return and whatever they add to the list that
\* r_cbrlist_call is walking, as long as the loop runs and no watcher keeps it
\* busy or waiting.
HooksRun ==
  \A h \in Prepares \cup Idles :
    (Running /\ h \in hooked /\ ~Called(h)) ~>
    (Called(h) \/ h \notin hooked \/ pc = "out" \/ stop \/ res < 0 \/ active # {})

\* A pass of r_ev_loop_run serves every timer and every hook it should.
PassServes == TimerFires /\ HooksRun

\* r_ev_loop_stop makes a running loop return.
StopReturns == (stop /\ pc # "out") ~> (pc = "out")

-----------------------------------------------------------------------------
(***************************************************************************)
(* Programs that do what Spec keeps them from doing.                       *)
(***************************************************************************)
\* r_ev_loop_stop is called by another thread.
StopOutside ==
  /\ Alive /\ stop' = TRUE
  /\ UNCHANGED <<run, hooks, queues, timers, clock, io, ready, tasks, aborted>>

StopOutsideSpec == Init /\ [][Next \/ StopOutside]_vars /\ Fairness

\* A priority callback queues another priority callback.
NestedPriority == \E c \in Cbs : AddCallback(c, TRUE)

NestedPrioritySpec == Init /\ [][Next \/ NestedPriority]_vars /\ Fairness

\* A timer is scheduled for any absolute time.
AnyDeadline == \E x \in Timers, d \in 0 .. MaxTime : AddCallbackAt(x, d)

AnyDeadlineSpec == Init /\ [][Next \/ AnyDeadline]_vars

\* The program cancels a task before a worker has taken it: r_task_cancel
\* removes it from the task queue and r_ev_loop_task_proxy never runs.
CancelTask ==
  /\ Program
  /\ \E t \in Tasks : task[t] = "queued" /\ task' = [task EXCEPT ![t] = "canceled"]
  /\ UNCHANGED <<run, stop, hooks, queues, timers, clock, io, ready, dcbs, tqitems, refs, held, aborted>>

CancelTaskSpec == Init /\ [][Next \/ CancelTask]_vars /\ Fairness
=============================================================================
