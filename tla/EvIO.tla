-------------------------------- MODULE EvIO --------------------------------
(***************************************************************************)
(* One watcher (struct REvIO) of the event loop and its subscription with  *)
(* an edge-triggered epoll: the r_ev_io functions of rlib/ev/revloop.c     *)
(* that the socket sources are built from.  A module for a source extends  *)
(* this one and says which nodes it registers and what their callback does.*)
(***************************************************************************)
EXTENDS Integers, Sequences, FiniteSets, Functions

CONSTANTS NodeIds   \* the memory for REvIOCBNode objects; 0 is NULL

VARIABLES iocbq,     \* the registered nodes, records with id and events
          events,    \* the events epoll watches
          active,    \* the watcher is in loop->active
          changing,  \* the watcher is in loop->chg
          closed,    \* R_EV_IO_CLOSED
          handle,    \* the handle is not R_IO_HANDLE_INVALID
          edge       \* the handle is in epoll's ready list

evio == <<iocbq, events, active, changing, closed, handle, edge>>

Readable == "READABLE"
Writable == "WRITABLE"
Error == "ERROR"
REvIOEvents == {Readable, Writable, Error}

ASSUME EvIOAssumption == NodeIds \subseteq Nat \ {0}

EvIOTypeOK ==
  /\ iocbq \in Seq([id : NodeIds, events : SUBSET REvIOEvents])
  /\ events \subseteq REvIOEvents
  /\ edge \in BOOLEAN /\ active \in BOOLEAN /\ changing \in BOOLEAN /\ closed \in BOOLEAN /\ handle \in BOOLEAN

r_ev_io_init ==
  /\ iocbq = <<>> /\ events = {} /\ edge = FALSE
  /\ active = FALSE /\ changing = FALSE /\ closed = FALSE /\ handle = TRUE

Ids(q) == {q[i].id : i \in DOMAIN q}

r_ev_io_get_iocbq_events(q) == UNION {q[i].events : i \in DOMAIN q}

\* The node after id in the queue, or 0.
NextNode(id) ==
  LET i == CHOOSE i \in DOMAIN iocbq : iocbq[i].id = id
  IN  IF i < Len(iocbq) THEN iocbq[i + 1].id ELSE 0

FirstNode == IF iocbq = <<>> THEN 0 ELSE iocbq[1].id

\* r_ev_io_start with the conditions that make it return NULL met by the caller.
r_ev_io_start(id, ev) ==
  /\ iocbq' = Append(iocbq, [id |-> id, events |-> ev])
  /\ changing' = (changing \/ ~(ev \subseteq events))
  /\ active' = TRUE
  /\ UNCHANGED <<events, closed, handle, edge>>

\* r_ev_iocb_queue_remove: the queue without the node id, or as it is.
Without(q, id) ==
  IF id \notin Ids(q) THEN q
  ELSE LET k == CHOOSE i \in DOMAIN q : q[i].id = id
       IN  SubSeq(q, 1, k - 1) \o SubSeq(q, k + 1, Len(q))

r_ev_io_stop(id) ==
  LET left == r_ev_io_get_iocbq_events(Without(iocbq, id)) IN
  /\ iocbq' = Without(iocbq, id)
  /\ active' = (active /\ left # {})
  /\ changing' = (changing \/ (active /\ left # events))
  /\ UNCHANGED <<events, closed, handle, edge>>

\* The nodes r and s are stopped one after the other, then r_ev_io_close is called
\* with R_EV_IO_CLOSED already set: the handle stays open and no change is queued.
StopAndClose(r, s) ==
  LET left == Without(Without(iocbq, r), s) IN
  /\ iocbq' = left
  /\ active' = FALSE /\ closed' = TRUE
  /\ changing' = (changing \/ (active /\ left # iocbq /\ r_ev_io_get_iocbq_events(left) # events))
  /\ UNCHANGED <<events, handle, edge>>

\* The head of r_ev_loop_io_wait: the change is passed to epoll_ctl.  Events
\* are only ever added; EPOLL_CTL_ADD and EPOLL_CTL_MOD report what is ready.
\* The call succeeds: it fails with EPERM only for handles that cannot be polled,
\* which a socket can, and every other failure aborts the program.
ApplyChanges(ready) ==
  LET pending == events \cup r_ev_io_get_iocbq_events(iocbq) IN
  /\ changing' = FALSE
  /\ IF ~changing \/ ~handle THEN UNCHANGED <<events, handle, edge>>
     ELSE IF closed THEN handle' = FALSE /\ UNCHANGED <<events, edge>>
     ELSE IF pending = events THEN UNCHANGED <<events, handle, edge>>
     ELSE events' = pending /\ edge' = (edge \/ ready \cap pending # {}) /\ UNCHANGED handle
  /\ UNCHANGED <<iocbq, active, closed>>

\* The events the kernel reports for a handle that is ready for these.  Errors
\* are reported unasked; nothing is before EPOLL_CTL_ADD.
Reported(ready) == IF events = {} THEN {} ELSE ready \cap (events \cup {Error})

\* The kernel sees ev become ready.
Edge(ev) == edge' = (edge \/ Reported(ev) # {})
=============================================================================
