------------------------------ MODULE EvResolve ------------------------------
(***************************************************************************)
(* An asynchronous lookup, rlib/ev/revresolve.c: the thread that creates   *)
(* it, the worker that calls r_resolve_sync, and the loop thread that      *)
(* delivers the result and drops the loop's reference.  Each side may be   *)
(* between any two of its steps while the others move.                     *)
(***************************************************************************)
EXTENDS Integers

CONSTANT Results   \* what r_resolve_sync may answer

VARIABLES r,       \* struct REvResolve: refs, task, func (still set), result
          thread,  \* the creating thread: "loop" or "other"
          creator, \* where r_ev_resolve_addr_new is
          task,    \* the task: where the worker and then the loop have got to
          h        \* history

resolvevars == <<r, thread, creator, task, h>>

Gone == r.refs = 0

Init ==
  /\ r = [refs |-> 1, task |-> FALSE, func |-> TRUE, result |-> "IN_PROGRESS"]
  /\ thread \in {"loop", "other"}
  /\ creator = "new" /\ task = "none"
  /\ h = [calls |-> 0, answer |-> "IN_PROGRESS", notified |-> 0, bad |-> FALSE, held |-> FALSE]

\* Memory of the object used after it was freed, or a task reference that is not there.
Use(ok) == [h EXCEPT !.bad = @ \/ Gone \/ ~ok]

\* r_ev_resolve_free, when the last reference goes: a task that is still set is
\* waited for, datanotify is called unless done has called it.
r_ev_resolve_free(r1, h1) ==
  IF r1.refs > 0 THEN r' = r1 /\ h' = h1
  ELSE /\ r1.task => task = "finished"
       /\ r' = r1
       /\ h' = [h1 EXCEPT !.notified = @ + IF r1.func THEN 1 ELSE 0]

Unref(h1) == r_ev_resolve_free([r EXCEPT !.refs = @ - 1], h1)

\* r_ev_resolve_addr_new: the task is queued, or there is no memory for it;
\* its reference is stored; the caller's reference is taken.
r_ev_resolve_addr_new ==
  \/ creator = "new" /\ task = "none" /\ task' = "queued" /\ creator' = "added" /\ UNCHANGED <<r, h>>
  \/ creator = "new" /\ task = "none" /\ creator' = "failed" /\ Unref(h) /\ UNCHANGED task
  \/ creator = "added" /\ h' = Use(TRUE) /\ r' = [r EXCEPT !.task = TRUE] /\ creator' = "stored" /\ UNCHANGED task
  \/ creator = "stored" /\ h' = [Use(TRUE) EXCEPT !.held = TRUE] /\ r' = [r EXCEPT !.refs = @ + 1] /\ creator' = "done" /\ UNCHANGED task

\* The worker: r_ev_resolve_addr, then the loop is told.
r_ev_resolve_addr ==
  \/ /\ task = "queued" /\ task' = "resolved"
     /\ \E res \in Results : r' = [r EXCEPT !.result = res]
     /\ h' = Use(TRUE)
  \/ task = "resolved" /\ task' = "reported" /\ UNCHANGED <<r, h>>

LoopFree == thread = "other" \/ creator \in {"done", "failed"}

\* The loop thread: the task is released, the result delivered, datanotify called.
r_ev_resolve_done ==
  /\ task = "reported" /\ LoopFree
  /\ task' = "delivered"
  /\ r' = [r EXCEPT !.task = FALSE, !.func = FALSE]
  /\ h' = [Use(r.task) EXCEPT !.calls = @ + 1, !.answer = r.result, !.notified = @ + 1]

\* r_ev_loop_task_done drops the reference the task was queued with.
TaskDone ==
  /\ task = "delivered" /\ task' = "finished" /\ Unref(h)

\* The program drops its reference.
Release ==
  /\ h.held /\ Unref([h EXCEPT !.held = FALSE]) /\ UNCHANGED task

Next ==
  /\ \/ r_ev_resolve_addr_new
     \/ (r_ev_resolve_addr \/ r_ev_resolve_done \/ TaskDone \/ Release) /\ UNCHANGED creator
  /\ UNCHANGED thread

Spec == Init /\ [][Next]_resolvevars

\* However the program's release, the worker and the loop interleave, the object
\* is not used once freed, the callback is called once with the worker's result,
\* the program's datanotify once, and the last reference goes in the end -- for
\* a lookup created on the loop's own thread.
ResolvedOnce ==
  /\ ~h.bad /\ h.calls <= 1 /\ h.notified <= 1
  /\ h.calls = 1 => h.answer \in Results
  /\ Gone => h.notified = 1
  /\ task = "finished" /\ creator = "done" /\ ~h.held => Gone
=============================================================================
