---------------------------- MODULE TimeoutCBList ----------------------------
(***************************************************************************)
(* The timeout list of rlib/data/rtimeoutcblist.c, at the level of its     *)
(* pointers.  r_timeout_cblist_update keeps the entry it fires at the head *)
(* of the list while the callback of the entry runs, and the callback may  *)
(* insert and cancel entries of the same list.                             *)
(***************************************************************************)
EXTENDS Integers, SequencesExt

CONSTANTS Entries,   \* the memory for RToCB objects; a freed one is reused
          MaxTime,   \* bound on deadlines and times
          MaxFired,  \* bound on ret: callbacks insert nothing beyond it
          Null       \* no member of Entries

Times == 0 .. MaxTime

VARIABLES head, tail, size,  \* the list
          nxt, prv,          \* next and prev of every entry
          ts,                \* ts of every entry
          lst,               \* the entries with lst set: those in the list
          now,               \* the argument ts of r_timeout_cblist_update
          pc,                \* "idle", "scan" or "cb": where the update is
          cur,               \* its local variable cur
          ret,               \* its local variable ret
          crashed            \* NULL was dereferenced

list == <<head, tail, size, nxt, prv, ts, lst>>

vars == <<list, now, pc, cur, ret, crashed>>

Ptr == Entries \cup {Null}

TypeOK ==
  /\ head \in Ptr /\ tail \in Ptr /\ cur \in Ptr
  /\ size \in Nat /\ ret \in Nat
  /\ nxt \in [Entries -> Ptr] /\ prv \in [Entries -> Ptr]
  /\ ts \in [Entries -> Times]
  /\ lst \in SUBSET Entries
  /\ now \in Times
  /\ pc \in {"idle", "scan", "cb"}
  /\ crashed \in BOOLEAN

Init ==
  /\ head = Null /\ tail = Null /\ size = 0
  /\ nxt = [e \in Entries |-> Null] /\ prv = [e \in Entries |-> Null]
  /\ ts = [e \in Entries |-> 0]
  /\ lst = {}
  /\ now = 0
  /\ pc = "idle" /\ cur = Null /\ ret = 0
  /\ crashed = FALSE

\* The program may use the list between updates and inside a callback.
Ready == ~crashed /\ pc \in {"idle", "cb"}

Allocatable(e) == e \notin lst /\ e # cur

\* r_to_cb_internal_free; the contents of a freed entry do not matter.
Freed(e) == lst' = lst \ {e} /\ ts' = [ts EXCEPT ![e] = 0]

(***************************************************************************)
(* Insertion.                                                              *)
(***************************************************************************)
\* mutant: among equal deadlines the new entry goes first
WalkForwardStrict(t) ==
  LET walk[e \in Entries] == IF t > ts[e] THEN walk[nxt[e]] ELSE e
  IN  walk[nxt[head]]

\* for (it = lst->head->next; tocb->ts >= it->ts; it = it->next)
WalkForward(t) ==
  LET walk[e \in Entries] == IF t >= ts[e] THEN walk[nxt[e]] ELSE e
  IN  walk[nxt[head]]

\* for (it = lst->tail->prev; tocb->ts < it->ts; it = it->prev)
WalkBack(t) ==
  LET walk[e \in Entries] == IF t < ts[e] THEN walk[prv[e]] ELSE e
  IN  walk[prv[tail]]

\* e is linked between its neighbours p and n.
Link(e, p, n) ==
  /\ nxt' = [x \in Entries |-> IF x = e THEN n ELSE IF x = p THEN e ELSE nxt[x]]
  /\ prv' = [x \in Entries |-> IF x = e THEN p ELSE IF x = n THEN e ELSE prv[x]]

r_timeout_cblist_internal_insert(e, t) ==
  /\ lst' = lst \cup {e}
  /\ ts' = [ts EXCEPT ![e] = t]
  /\ size' = size + 1
  /\ IF head = Null THEN
       head' = e /\ tail' = e /\ Link(e, Null, Null)
     ELSE IF t >= ts[tail] THEN
       tail' = e /\ Link(e, tail, Null) /\ UNCHANGED head
     ELSE IF t < ts[head] THEN
       head' = e /\ Link(e, Null, head) /\ UNCHANGED tail
     ELSE IF t - ts[head] > ts[tail] - t THEN
       Link(e, WalkBack(t), nxt[WalkBack(t)]) /\ UNCHANGED <<head, tail>>
     ELSE
       Link(e, prv[WalkForward(t)], WalkForward(t)) /\ UNCHANGED <<head, tail>>

r_timeout_cblist_insert(e, t) ==
  /\ Ready /\ Allocatable(e)
  /\ r_timeout_cblist_internal_insert(e, t)
  /\ UNCHANGED <<now, pc, cur, ret, crashed>>

(***************************************************************************)
(* Cancelling.  An entry that is not in the list (lst # the list) makes    *)
(* the call return FALSE without effect.                                   *)
(***************************************************************************)
r_timeout_cblist_cancel(e) ==
  /\ Ready /\ e \in lst
  /\ head' = IF e = head THEN nxt[e] ELSE head
  /\ tail' = IF e = tail THEN prv[e] ELSE tail
  /\ nxt' = [x \in Entries |-> IF x = e THEN Null ELSE IF x = prv[e] THEN nxt[e] ELSE nxt[x]]
  /\ prv' = [x \in Entries |-> IF x = e THEN Null ELSE IF x = nxt[e] THEN prv[e] ELSE prv[x]]
  /\ Freed(e)
  /\ size' = size - 1
  /\ UNCHANGED <<now, pc, cur, ret, crashed>>

(***************************************************************************)
(* r_timeout_cblist_update: the loop stops in front of every callback.     *)
(***************************************************************************)
UpdateBegin(t) ==
  /\ ~crashed /\ pc = "idle"
  /\ now' = t /\ ret' = 0 /\ pc' = "scan"
  /\ UNCHANGED <<list, cur, crashed>>

\* The head is due: its callback is called.
UpdateCall ==
  /\ ~crashed /\ pc = "scan" /\ head # Null /\ now >= ts[head]
  /\ cur' = head /\ pc' = "cb"
  /\ UNCHANGED <<list, now, ret, crashed>>

\* The callback has returned: lst->head = lst->head->next, and cur is freed.
UpdatePop ==
  /\ ~crashed /\ pc = "cb"
  /\ IF head = Null
     THEN crashed' = TRUE /\ UNCHANGED <<list, pc, cur, ret>>
     ELSE /\ head' = nxt[head]
          /\ nxt' = [nxt EXCEPT ![cur] = Null]
          /\ prv' = [prv EXCEPT ![cur] = Null]
          /\ Freed(cur)
          /\ ret' = ret + 1
          /\ pc' = "scan" /\ cur' = Null
          /\ UNCHANGED <<tail, size, crashed>>
  /\ UNCHANGED now

UpdateEnd ==
  /\ ~crashed /\ pc = "scan" /\ (head # Null => now < ts[head])
  /\ IF head = Null THEN tail' = Null /\ UNCHANGED prv
                    ELSE prv' = [prv EXCEPT ![head] = Null] /\ UNCHANGED tail
  /\ size' = size - ret
  /\ pc' = "idle"
  /\ UNCHANGED <<head, nxt, ts, lst, now, cur, ret, crashed>>

\* r_timeout_cblist_clear, between updates.
r_timeout_cblist_clear ==
  /\ ~crashed /\ pc = "idle" /\ head # Null
  /\ head' = Null /\ tail' = Null /\ size' = 0
  /\ nxt' = [e \in Entries |-> Null] /\ prv' = [e \in Entries |-> Null]
  /\ lst' = {} /\ ts' = [e \in Entries |-> 0]
  /\ UNCHANGED <<now, pc, cur, ret, crashed>>

-----------------------------------------------------------------------------
(***************************************************************************)
(* The program: time does not run backwards, a callback does not cancel    *)
(* its own entry and schedules no entry before its own deadline, as a      *)
(* callback does that uses r_ev_loop_add_callback_later.                   *)
(***************************************************************************)
Update == UpdateCall \/ UpdatePop \/ UpdateEnd

Program ==
  \/ \E e \in Entries, t \in Times :
       (pc = "cb" => t >= ts[cur] /\ ret < MaxFired) /\ r_timeout_cblist_insert(e, t)
  \/ \E e \in Entries : e # cur /\ r_timeout_cblist_cancel(e)
  \/ \E t \in Times : t >= now /\ UpdateBegin(t)
  \/ r_timeout_cblist_clear

Next == Program \/ Update

Spec == Init /\ [][Next]_vars

\* A program whose callbacks may cancel the entry that is being fired.
SelfCancel == pc = "cb" /\ r_timeout_cblist_cancel(cur)
SelfCancelSpec == Init /\ [][Next \/ SelfCancel]_vars

\* A program whose callbacks may schedule an entry at any time.
EarlyInsert ==
  \E e \in Entries, t \in Times :
    pc = "cb" /\ ret < MaxFired /\ r_timeout_cblist_insert(e, t)
EarlyInsertSpec == Init /\ [][Next \/ EarlyInsert]_vars

-----------------------------------------------------------------------------
(***************************************************************************)
(* Properties.                                                             *)
(***************************************************************************)

\* The list read forwards from an entry, for at most n entries.
Forward(n, e) ==
  LET walk[k \in 0 .. n, x \in Ptr] ==
        IF k = 0 \/ x = Null THEN <<>> ELSE <<x>> \o walk[k - 1, nxt[x]]
  IN  walk[n, e]

\* The list read backwards from an entry.
Backward(n, e) ==
  LET walk[k \in 0 .. n, x \in Ptr] ==
        IF k = 0 \/ x = Null THEN <<>> ELSE <<x>> \o walk[k - 1, prv[x]]
  IN  walk[n, e]

Chain == Forward(Cardinality(Entries) + 1, head)

\* Between updates (inside one the head still points back to a fired entry and
\* size counts it) the list is well linked: read backwards from the tail it is
\* the reverse of what it is forwards from the head, it holds each inserted
\* entry once, and size counts them.
WellLinked ==
  pc = "idle" =>
    /\ Reverse(Chain) = Backward(Cardinality(Entries) + 1, tail)
    /\ ToSet(Chain) = lst
    /\ size = Len(Chain)
    /\ Cardinality(lst) = Len(Chain)

\* No freed entry is reachable from the list, and no step of the update
\* dereferences NULL, when callbacks cancel other entries than their own and
\* insert entries that are not due before their own: the list does not survive
\* the others, see SelfCancelSpec and EarlyInsertSpec.
NoStalePointer ==
  /\ ~crashed
  /\ head # Null => head \in lst
  /\ pc = "cb" => cur \in lst

\* An entry that is being fired cannot be cancelled by its own callback.  Spec has
\* no such callback; under SelfCancelSpec this is violated, since the entry is still
\* in the list when r_timeout_cblist_update calls it.
FiredNotCancellable ==
  [][pc = "cb" /\ pc' = "cb" /\ cur \in lst => cur \in lst']_vars

\* The queue of timers the list stands for: an entry leaves it when its
\* callback is called.
Timers ==
  LET c == IF pc = "cb" THEN Tail(Chain) ELSE Chain
  IN  [i \in DOMAIN c |-> [entry |-> c[i], due |-> ts[c[i]]]]

=============================================================================
