----------------------------- MODULE TimerQueue ------------------------------
(***************************************************************************)
(* What a timeout list promises to its users: entries leave in the order   *)
(* of their deadlines, entries of equal deadline in the order of their     *)
(* insertion, each one either by being fired or by being cancelled, and an *)
(* update fires an entry only when its deadline has passed and returns     *)
(* only when no such entry is left.                                        *)
(***************************************************************************)
EXTENDS Integers, SequencesExt

CONSTANTS Entries, Times

VARIABLES queue,    \* the pending entries with their deadlines, soonest first
          now,      \* the time given to the update
          busy      \* an update is in progress

tqvars == <<queue, now, busy>>

Pending == {queue[i].entry : i \in DOMAIN queue}

TQInit ==
  /\ queue = <<>>
  /\ now \in Times
  /\ busy = FALSE

\* An entry goes behind all entries whose deadline is not later.
Insert(e, t) ==
  /\ e \notin Pending
  /\ LET n == Cardinality({i \in DOMAIN queue : queue[i].due <= t}) IN
       queue' = SubSeq(queue, 1, n) \o <<[entry |-> e, due |-> t]>>
                \o SubSeq(queue, n + 1, Len(queue))
  /\ UNCHANGED <<now, busy>>

Cancel(e) ==
  /\ e \in Pending
  /\ queue' = SelectSeq(queue, LAMBDA x : x.entry # e)
  /\ UNCHANGED <<now, busy>>

Clear ==
  /\ ~busy
  /\ queue' = <<>>
  /\ UNCHANGED <<now, busy>>

Begin(t) ==
  /\ ~busy
  /\ now' = t
  /\ busy' = TRUE
  /\ UNCHANGED queue

Fire ==
  /\ busy /\ queue # <<>> /\ Head(queue).due <= now
  /\ queue' = Tail(queue)
  /\ UNCHANGED <<now, busy>>

End ==
  /\ busy /\ (queue # <<>> => Head(queue).due > now)
  /\ busy' = FALSE
  /\ UNCHANGED <<queue, now>>

TQNext ==
  \/ \E e \in Entries, t \in Times : Insert(e, t)
  \/ \E e \in Entries : Cancel(e)
  \/ Clear
  \/ \E t \in Times : Begin(t)
  \/ Fire
  \/ End

TQSpec == TQInit /\ [][TQNext]_tqvars
=============================================================================
