---------------------------- MODULE EvTCPProofs -----------------------------
(***************************************************************************)
(* Theorems about EvTCP, for any nodes, any amount of data in both         *)
(* directions and any room in the kernel.                                  *)
(***************************************************************************)
EXTENDS EvTCP, FiniteSetTheorems, TLAPS

-----------------------------------------------------------------------------
(***************************************************************************)
(* The inductive invariant.                                                *)
(***************************************************************************)
Nodes == [id : NodeIds, events : SUBSET REvIOEvents]
Bcbs == [queued : Nat, called : Nat]

TcpType ==
  /\ iocbq \in Seq(Nodes)
  /\ closed \in BOOLEAN /\ shut \in BOOLEAN /\ broken \in BOOLEAN /\ sockclosed \in BOOLEAN
  /\ closing \in BOOLEAN /\ close_cb \in BOOLEAN /\ sendfailed \in BOOLEAN
  /\ recv_iocb_ctx \in NodeIds \cup {0} /\ send_iocb_ctx \in NodeIds \cup {0}
  /\ qsend \in Seq(1 .. MaxSend) /\ room \in Nat
  /\ pc \in Places /\ from \in {"bcbs", "node"} /\ itnext \in NodeIds \cup {0}
  /\ bcbs \in Bcbs /\ acbs \in Seq(Items) /\ calling \in Seq(Items)
  /\ nsend \in Nat /\ requests \in Nat /\ closecbs \in Nat /\ superseded \in Nat

Has(q, op) == \E i \in DOMAIN q : q[i].op = op

\* What follows an accepted close: no buffer is accepted any more.
Requested ==
  /\ shut \/ closing \/ closed \/ close_cb \/ sockclosed => requests > 0
  /\ sockclosed => qsend = <<>>

\* The queue is empty when the FIN is sent, and a close that is not draining any
\* more with buffers left has failed.
Flushed ==
  /\ shut /\ ~broken /\ ~sockclosed => qsend = <<>>
  /\ pc = "senderrcb" => sockclosed \/ (broken /\ sendfailed)
  /\ close_cb /\ ~closing /\ qsend # <<>> => sendfailed
  /\ closing => close_cb
  /\ Has(Queued, "finalize") => shut /\ ~closing /\ (qsend = <<>> \/ sendfailed)

\* A node is only to be called inside the dispatch, and is then registered.
InNode == {"node", "recv", "send", "error", "recvcb", "eoscb", "donecb", "senderrcb", "errcb"}
NextAlive ==
  itnext # 0 => itnext \in Ids(iocbq) /\ pc \in InNode /\ (pc = "node" \/ from = "node")

\* Nothing is in bcbs, or all of it is called before the wait: it is not detached
\* yet, or it is detached and nothing was queued since.
NoBcbs == bcbs.queued = 0 /\ bcbs.called = 0
InBcbs ==
  \/ pc \in {"acbs", "closecb", "user"}
  \/ bcbs.queued = 0 /\ (pc = "bcbs" \/ (pc \in {"send", "donecb", "senderrcb"} /\ from = "bcbs"))

\* Before a close callback is called bcbs has run, or found nothing to send.
Quiet ==
  /\ calling # <<>> => pc \in {"acbs", "closecb"}
  /\ Has(acbs, "close") => closed /\ (NoBcbs \/ qsend = <<>> \/ InBcbs)
  /\ Has(calling, "close") => closed /\ (NoBcbs \/ qsend = <<>>)
  /\ closecbs > 0 =>
       /\ closed /\ itnext = 0 /\ (NoBcbs \/ qsend = <<>>)
       /\ pc \in {"closecb", "acbs", "user", "bcbs", "wait", "poll", "node", "send"}
       /\ pc = "send" => from = "bcbs" /\ qsend = <<>>

CloseInv == TcpType /\ Requested /\ Flushed /\ NextAlive /\ Quiet /\ CloseCbAccounted /\ NoStaleNode

-----------------------------------------------------------------------------
(***************************************************************************)
(* The queue of callbacks.                                                 *)
(***************************************************************************)
LEMMA ItemFacts ==
  /\ \A x \in Items :
       /\ x.op \in {"stop", "finalize", "close"}
       /\ x.op = "stop" => x.node \in NodeIds
       /\ x.op = "close" => x.call \in BOOLEAN
  /\ \A n \in NodeIds : [op |-> "stop", node |-> n] \in Items
  /\ [op |-> "finalize"] \in Items
  /\ \A b \in BOOLEAN : [op |-> "close", call |-> b] \in Items
BY DEF Items

LEMMA BcbsFacts ==
  ASSUME NEW b \in Bcbs
  PROVE  /\ \A n \in {0, 1} : [b EXCEPT !.queued = @ + n] \in Bcbs
         /\ b.called > 0 => [b EXCEPT !.called = @ - 1] \in Bcbs /\ [b EXCEPT !.called = @ - 1].queued = b.queued
         /\ [queued |-> 0, called |-> b.queued] \in Bcbs
BY DEF Bcbs

\* calling \o acbs when one of the two changes at an end.
LEMMA QueueFacts ==
  ASSUME NEW c \in Seq(Items), NEW a \in Seq(Items)
  PROVE  /\ c \o a \in Seq(Items)
         /\ \A x \in Items : c \o Append(a, x) = Append(c \o a, x)
         /\ c # <<>> => c \o a # <<>> /\ (c \o a)[1] = c[1] /\ c[1] \in Items /\ Tail(c) \in Seq(Items) /\ Tail(c) \o a = Tail(c \o a)
         /\ c = <<>> => c \o a = a
         /\ a \o <<>> = a
<1>1. c \o a \in Seq(Items) /\ Len(c \o a) = Len(c) + Len(a)
  OBVIOUS
<1>2. ASSUME NEW x \in Items PROVE c \o Append(a, x) = Append(c \o a, x)
  OBVIOUS
<1>3. ASSUME c # <<>> PROVE c \o a # <<>> /\ (c \o a)[1] = c[1] /\ c[1] \in Items /\ Tail(c) \in Seq(Items)
  BY <1>3
<1>4. ASSUME c # <<>> PROVE Tail(c) \o a = Tail(c \o a)
  BY <1>3, <1>4
<1>5. (c = <<>> => c \o a = a) /\ a \o <<>> = a
  OBVIOUS
<1> QED BY Zenon, <1>1, <1>2, <1>3, <1>4, <1>5

LEMMA QueuedFacts ==
  ASSUME TcpType
  PROVE  /\ Queued \in Seq(Items)
         /\ acbs' = acbs /\ calling' = calling => Queued' = Queued
         /\ \A x \in Items : acbs' = Append(acbs, x) /\ calling' = calling => Queued' = Append(Queued, x)
         /\ calling # <<>> => Queued # <<>> /\ Queued[1] = calling[1] /\ calling[1] \in Items
         /\ calling # <<>> /\ calling' = Tail(calling) /\ acbs' = acbs => Queued' = Tail(Queued) /\ Tail(Queued) \in Seq(Items)
         /\ \A x \in Items : calling # <<>> /\ calling' = Tail(calling) /\ acbs' = Append(acbs, x) =>
              Queued' = Append(Tail(Queued), x) /\ Tail(Queued) \in Seq(Items)
         /\ calling = <<>> /\ calling' = acbs /\ acbs' = <<>> => Queued' = Queued
<1>1. acbs \in Seq(Items) /\ calling \in Seq(Items)
  BY DEF TcpType
<1>2. /\ Queued \in Seq(Items)
      /\ \A x \in Items : calling \o Append(acbs, x) = Append(Queued, x)
      /\ calling # <<>> => Queued # <<>> /\ Queued[1] = calling[1] /\ calling[1] \in Items /\ Tail(calling) \in Seq(Items) /\ Tail(calling) \o acbs = Tail(Queued)
      /\ calling = <<>> => Queued = acbs
      /\ acbs \o <<>> = acbs
  BY Zenon, <1>1, QueueFacts DEF Queued
<1>3. calling # <<>> => \A x \in Items : Tail(calling) \o Append(acbs, x) = Append(Tail(calling) \o acbs, x)
  BY Zenon, <1>1, <1>2, QueueFacts
<1>4. calling # <<>> => Tail(calling) \o acbs \in Seq(Items)
  BY <1>1, <1>2, QueueFacts
<1> QED BY Zenon, <1>2, <1>3, <1>4 DEF Queued

LEMMA HasFacts ==
  ASSUME NEW q \in Seq(Items), NEW op
  PROVE  /\ \A x \in Items : Has(Append(q, x), op) <=> Has(q, op) \/ x.op = op
         /\ q # <<>> => (Has(q, op) <=> Has(Tail(q), op) \/ q[1].op = op)
         /\ ~Has(<<>>, op)
<1>1. ASSUME NEW x \in Items PROVE Has(Append(q, x), op) <=> Has(q, op) \/ x.op = op
  <2>1. /\ DOMAIN Append(q, x) = DOMAIN q \cup {Len(q) + 1} /\ Append(q, x)[Len(q) + 1] = x
        /\ \A i \in DOMAIN q : Append(q, x)[i] = q[i]
    OBVIOUS
  <2> QED BY <2>1 DEF Has
<1>2. ASSUME q # <<>> PROVE Has(q, op) <=> Has(Tail(q), op) \/ q[1].op = op
  <2>1. /\ 1 \in DOMAIN q
        /\ \A i \in DOMAIN Tail(q) : i + 1 \in DOMAIN q /\ Tail(q)[i] = q[i + 1]
        /\ \A i \in DOMAIN q : i # 1 => i - 1 \in DOMAIN Tail(q) /\ Tail(q)[i - 1] = q[i]
    BY <1>2
  <2> QED BY Zenon, <2>1 DEF Has
<1>3. ~Has(<<>>, op)
  BY DEF Has
<1> QED BY <1>1, <1>2, <1>3

CallAt(q) == {i \in DOMAIN q : q[i].op = "close" /\ q[i].call}

LEMMA CallsFinite ==
  ASSUME NEW q \in Seq(Items)
  PROVE  IsFiniteSet(CallAt(q)) /\ CloseCalls(q) = Cardinality(CallAt(q)) /\ CloseCalls(q) \in Nat
<1>1. CallAt(q) \subseteq 1 .. Len(q)
  BY DEF CallAt
<1>2. IsFiniteSet(1 .. Len(q))
  BY FS_Interval
<1>3. IsFiniteSet(CallAt(q))
  BY <1>1, <1>2, FS_Subset
<1> QED BY <1>3, FS_CardinalityType DEF CloseCalls, CallAt

LEMMA CallsAppend ==
  ASSUME NEW q \in Seq(Items), NEW x \in Items
  PROVE  CloseCalls(Append(q, x)) = CloseCalls(q) + (IF x.op = "close" /\ x.call THEN 1 ELSE 0)
<1>1. Append(q, x) \in Seq(Items)
  OBVIOUS
<1>2. CASE x.op = "close" /\ x.call
  <2>1. CallAt(Append(q, x)) = CallAt(q) \cup {Len(q) + 1} /\ Len(q) + 1 \notin CallAt(q)
    BY <1>2 DEF CallAt
  <2>2. Cardinality(CallAt(q) \cup {Len(q) + 1}) = Cardinality(CallAt(q)) + 1
    BY Zenon, <2>1, CallsFinite, FS_AddElement
  <2> QED BY Zenon, <1>1, <1>2, <2>1, <2>2, CallsFinite
<1>3. CASE ~(x.op = "close" /\ x.call)
  <2>1. CallAt(Append(q, x)) = CallAt(q)
    BY <1>3 DEF CallAt
  <2>2. (IF x.op = "close" /\ x.call THEN 1 ELSE 0) = 0
    BY Zenon, <1>3
  <2>3. CloseCalls(q) \in Nat /\ CloseCalls(q) = CloseCalls(Append(q, x))
    BY Zenon, <1>1, <2>1, CallsFinite
  <2> QED BY <2>2, <2>3
<1> QED BY <1>2, <1>3

LEMMA CallsTail ==
  ASSUME NEW q \in Seq(Items), q # <<>>
  PROVE  CloseCalls(q) = CloseCalls(Tail(q)) + (IF q[1].op = "close" /\ q[1].call THEN 1 ELSE 0)
<1> DEFINE f == [i \in CallAt(Tail(q)) |-> i + 1]
           rest == CallAt(q) \ {1}
<1>1. Tail(q) \in Seq(Items) /\ Len(Tail(q)) = Len(q) - 1 /\ Len(q) >= 1
      /\ \A i \in 1 .. Len(Tail(q)) : Tail(q)[i] = q[i + 1]
  OBVIOUS
<1>2. \A i \in CallAt(Tail(q)) : i \in Nat /\ i + 1 \in rest
  BY <1>1 DEF CallAt
<1>3. \A k \in rest : k - 1 \in CallAt(Tail(q)) /\ k = (k - 1) + 1
  BY <1>1 DEF CallAt
<1>4. f \in Bijection(CallAt(Tail(q)), rest)
  BY <1>2, <1>3 DEF Bijection, Injection, Surjection, IsInjective
<1>5. IsFiniteSet(rest) /\ Cardinality(rest) = Cardinality(CallAt(Tail(q)))
  <2>1. ExistsBijection(CallAt(Tail(q)), rest)
    BY Zenon, <1>4 DEF ExistsBijection
  <2> QED BY Zenon, <1>1, <2>1, CallsFinite, FS_Bijection
<1>6. CASE q[1].op = "close" /\ q[1].call
  <2>1. CallAt(q) = rest \cup {1} /\ 1 \notin rest
    BY <1>1, <1>6 DEF CallAt
  <2>2. Cardinality(rest \cup {1}) = Cardinality(rest) + 1
    BY Zenon, <1>5, <2>1, FS_AddElement
  <2> QED BY Zenon, <1>1, <1>5, <1>6, <2>1, <2>2, CallsFinite
<1>7. CASE ~(q[1].op = "close" /\ q[1].call)
  <2>1. CallAt(q) = rest
    BY <1>7 DEF CallAt
  <2>2. (IF q[1].op = "close" /\ q[1].call THEN 1 ELSE 0) = 0
    BY Zenon, <1>7
  <2>3. CloseCalls(q) \in Nat /\ CloseCalls(q) = CloseCalls(Tail(q))
    BY Zenon, <1>1, <1>5, <2>1, CallsFinite
  <2> QED BY <2>2, <2>3
<1> QED BY <1>6, <1>7

-----------------------------------------------------------------------------
(***************************************************************************)
(* The nodes of the watcher.                                               *)
(***************************************************************************)
\* r_ev_io_stop removes at most the node it is given.
LEMMA WithoutFacts ==
  ASSUME NEW q \in Seq(Nodes), NEW id
  PROVE  Without(q, id) \in Seq(Nodes) /\ Ids(q) \ {id} \subseteq Ids(Without(q, id))
<1>1. CASE id \notin Ids(q)
  BY <1>1 DEF Without
<1>2. CASE id \in Ids(q)
  <2> DEFINE k == CHOOSE i \in DOMAIN q : q[i].id = id
             a == SubSeq(q, 1, k - 1)
             b == SubSeq(q, k + 1, Len(q))
             r == a \o b
  <2>1. k \in DOMAIN q /\ q[k].id = id
    <3>1. \E i \in DOMAIN q : q[i].id = id
      BY <1>2 DEF Ids
    <3> QED BY Zenon, <3>1
  <2>2. Without(q, id) = r
    BY Zenon, <1>2 DEF Without
  <2> HIDE DEF k
  <2>3. k \in 1 .. Len(q) /\ Len(q) \in Nat
    BY <2>1
  <2>4. /\ a \in Seq(Nodes) /\ Len(a) = k - 1 /\ \A i \in 1 .. (k - 1) : a[i] = q[i]
        /\ b \in Seq(Nodes) /\ Len(b) = Len(q) - k /\ \A i \in 1 .. (Len(q) - k) : b[i] = q[k + i]
    BY <2>3
  <2>5. r = a \o b
    OBVIOUS
  <2> HIDE DEF a, b, r
  <2>6. /\ r \in Seq(Nodes)
        /\ \A i \in 1 .. (k - 1) : i \in DOMAIN r /\ r[i] = q[i]
        /\ \A i \in (k + 1) .. Len(q) : (i - 1) \in DOMAIN r /\ r[i - 1] = q[i]
    <3>1. r \in Seq(Nodes) /\ Len(r) = Len(q) - 1
      BY <2>3, <2>4, <2>5
    <3>2. ASSUME NEW i \in 1 .. (k - 1) PROVE i \in DOMAIN r /\ r[i] = q[i]
      BY <2>3, <2>4, <2>5, <3>1
    <3>3. ASSUME NEW i \in (k + 1) .. Len(q) PROVE (i - 1) \in DOMAIN r /\ r[i - 1] = q[i]
      <4>0. Len(a) = k - 1 /\ Len(b) = Len(q) - k
        BY <2>4
      <4>1. i - k \in 1 .. (Len(q) - k) /\ i - 1 = Len(a) + (i - k) /\ i - 1 \in 1 .. Len(r) /\ k + (i - k) = i
        BY <2>3, <3>1, <4>0
      <4>2. r[i - 1] = b[i - k]
        BY <2>3, <2>4, <2>5, <4>1
      <4>3. b[i - k] = q[i]
        BY <2>4, <4>1
      <4> QED BY <3>1, <4>1, <4>2, <4>3
    <3> QED BY <3>1, <3>2, <3>3
  <2>7. ASSUME NEW x \in Ids(q) \ {id} PROVE x \in Ids(r)
    <3>1. PICK i \in DOMAIN q : q[i].id = x
      BY <2>7 DEF Ids
    <3>2. i \in 1 .. (k - 1) \/ i \in (k + 1) .. Len(q)
      BY <2>1, <2>3, <2>7, <3>1
    <3>3. \E j \in DOMAIN r : r[j] = q[i]
      BY <2>6, <3>2
    <3> QED BY <3>1, <3>3 DEF Ids
  <2> QED BY <2>2, <2>6, <2>7
<1> QED BY <1>1, <1>2

LEMMA StartFacts ==
  ASSUME NEW q \in Seq(Nodes), NEW id \in NodeIds, NEW ev \in SUBSET REvIOEvents
  PROVE  /\ Append(q, [id |-> id, events |-> ev]) \in Seq(Nodes)
         /\ Ids(Append(q, [id |-> id, events |-> ev])) = Ids(q) \cup {id}
<1> DEFINE n == [id |-> id, events |-> ev]
           a == Append(q, n)
<1>1. n \in Nodes /\ n.id = id
  BY DEF Nodes
<1> HIDE DEF n
<1>2. a \in Seq(Nodes) /\ DOMAIN a = DOMAIN q \cup {Len(q) + 1} /\ a[Len(q) + 1] = n
      /\ \A i \in DOMAIN q : a[i] = q[i]
  BY <1>1
<1> HIDE DEF a
<1>3. Ids(a) = Ids(q) \cup {id}
  BY <1>1, <1>2 DEF Ids
<1> QED BY <1>2, <1>3 DEF a, n

\* The node behind a registered node is registered, or there is none.
LEMMA NextNodeType ==
  ASSUME TcpType, itnext \in Ids(iocbq)
  PROVE  NextNode(itnext) \in NodeIds \cup {0} /\ (NextNode(itnext) # 0 => NextNode(itnext) \in Ids(iocbq))
<1> DEFINE k == CHOOSE i \in DOMAIN iocbq : iocbq[i].id = itnext
<1>1. k \in DOMAIN iocbq
  <2>1. \E i \in DOMAIN iocbq : iocbq[i].id = itnext
    BY DEF Ids
  <2> QED BY Zenon, <2>1
<1>2. NextNode(itnext) = IF k < Len(iocbq) THEN iocbq[k + 1].id ELSE 0
  BY DEF NextNode
<1> HIDE DEF k
<1>3. iocbq \in Seq(Nodes) /\ k \in 1 .. Len(iocbq) /\ Len(iocbq) \in Nat
  BY <1>1 DEF TcpType
<1>4. CASE k < Len(iocbq)
  <2>1. k + 1 \in DOMAIN iocbq /\ iocbq[k + 1] \in Nodes
    BY <1>3, <1>4
  <2> QED BY <1>2, <1>4, <2>1 DEF Nodes, Ids
<1>5. CASE ~(k < Len(iocbq))
  BY <1>2, <1>5
<1> QED BY <1>4, <1>5

\* The nodes r and s of the connection and those of the deferred stops in q are
\* all registered, and each is named once.
Named(ids, r, s, q) ==
  /\ r # 0 => r \in ids
  /\ s # 0 => s \in ids
  /\ r = s => r = 0
  /\ \A i \in DOMAIN q : q[i].op = "stop" =>
       /\ q[i].node \in ids /\ q[i].node # r /\ q[i].node # s
       /\ \A j \in DOMAIN q : q[j].op = "stop" /\ q[i].node = q[j].node => i = j

LEMMA NamedFacts ==
  ASSUME recv_iocb_ctx \in NodeIds \cup {0}, send_iocb_ctx \in NodeIds \cup {0}
  PROVE  NoStaleNode <=> ~stale /\ Named(Ids(iocbq), recv_iocb_ctx, send_iocb_ctx, Queued)
<1>1. \A i : i \in Stops <=> i \in DOMAIN Queued /\ Queued[i].op = "stop"
  BY DEF Stops
<1>2. \A n : n \in Deferred <=> \E i \in Stops : Queued[i].node = n
  BY DEF Deferred
<1> QED BY <1>1, <1>2 DEF NoStaleNode, Named

\* The deferred stops of q, where they are and their nodes.
StopsIn(q, stops, nodes) ==
  /\ \A i : i \in stops <=> i \in DOMAIN q /\ q[i].op = "stop"
  /\ \A n : n \in nodes <=> \E i \in stops : q[i].node = n
\* NoStaleNode without the flag.
Apart(ids, r, s, q, stops, nodes) ==
  /\ nodes \cup ({r, s} \ {0}) \subseteq ids
  /\ r = s => r = 0
  /\ {r, s} \cap nodes = {}
  /\ \A i, j \in stops : q[i].node = q[j].node => i = j
LEMMA NamedMeans ==
  ASSUME NEW ids, NEW r, NEW s, NEW q, NEW stops, NEW nodes, Named(ids, r, s, q), StopsIn(q, stops, nodes)
  PROVE  Apart(ids, r, s, q, stops, nodes)
BY DEF Named, StopsIn, Apart

LEMMA NamedEmpty == \A ids : Named(ids, 0, 0, <<>>)
BY DEF Named

LEMMA NamedSwap ==
  ASSUME NEW ids, NEW r, NEW s, NEW q
  PROVE  Named(ids, r, s, q) <=> Named(ids, s, r, q)
BY DEF Named

LEMMA NamedStart ==
  ASSUME NEW ids, NEW r, NEW s, NEW q, Named(ids, r, s, q), NEW n \in NodeIds \ ids
  PROVE  Named(ids \cup {n}, n, s, q)
BY EvIOAssumption DEF Named

LEMMA NamedStop ==
  ASSUME NEW ids, NEW r, NEW s, NEW q, Named(ids, r, s, q), NEW left, ids \ {r} \subseteq left,
         q \in Seq(Items)
  PROVE  Named(left, 0, s, q)
<1>1. \A i \in DOMAIN q : q[i].op = "stop" => q[i].node # 0
  BY ItemFacts, EvIOAssumption
<1> QED BY <1>1 DEF Named

LEMMA NamedTail ==
  ASSUME NEW ids, NEW r, NEW s, NEW q \in Seq(Items), q # <<>>, Named(ids, r, s, q)
  PROVE  /\ Named(ids, r, s, Tail(q))
         /\ \A left : q[1].op = "stop" /\ ids \ {q[1].node} \subseteq left => Named(left, r, s, Tail(q))
<1>1. /\ Len(q) >= 1 /\ 1 \in DOMAIN q
      /\ \A i \in DOMAIN Tail(q) : i \in Nat /\ i + 1 \in DOMAIN q /\ i + 1 # 1 /\ Tail(q)[i] = q[i + 1]
      /\ \A i, j \in DOMAIN Tail(q) : i + 1 = j + 1 => i = j
  OBVIOUS
<1> QED BY <1>1 DEF Named

LEMMA NamedPush ==
  ASSUME NEW ids, NEW r, NEW s, NEW q \in Seq(Items), NEW x \in Items, Named(ids, r, s, q)
  PROVE  /\ x.op # "stop" => Named(ids, r, s, Append(q, x))
         /\ x.op = "stop" /\ x.node = r => Named(ids, 0, s, Append(q, x))
<1> DEFINE a == Append(q, x)
<1>1. /\ DOMAIN a = DOMAIN q \cup {Len(q) + 1} /\ a[Len(q) + 1] = x /\ Len(q) + 1 \notin DOMAIN q
      /\ \A i \in DOMAIN q : a[i] = q[i]
  OBVIOUS
<1> HIDE DEF a
<1>2. \A i \in DOMAIN a : a[i].op = "stop" => a[i].node # 0
  BY <1>1, ItemFacts, EvIOAssumption
<1>3. ASSUME x.op # "stop" PROVE Named(ids, r, s, a)
  BY <1>1, <1>3 DEF Named
<1>4. ASSUME x.op = "stop", x.node = r PROVE Named(ids, 0, s, a)
  BY <1>1, <1>2, <1>4 DEF Named
<1> QED BY <1>3, <1>4 DEF a

-----------------------------------------------------------------------------
(***************************************************************************)
(* Type correctness.                                                       *)
(***************************************************************************)
LEMMA TypeStep ==
  ASSUME TcpType, [Next]_vars
  PROVE  TcpType'
<1> USE DEF evio, kernel, tcp, loop, hist, Places, Callbacks
<1>1. ASSUME NEW id, iocbq' = Without(iocbq, id) PROVE iocbq' \in Seq(Nodes)
  BY <1>1, WithoutFacts DEF TcpType
<1>2. ASSUME NEW r, NEW t, iocbq' = Without(Without(iocbq, r), t) PROVE iocbq' \in Seq(Nodes)
  <2>1. Without(iocbq, r) \in Seq(Nodes)
    BY WithoutFacts DEF TcpType
  <2> QED BY <1>2, <2>1, WithoutFacts
<1>3. ASSUME NEW id \in NodeIds, NEW ev \in SUBSET REvIOEvents, iocbq' = Append(iocbq, [id |-> id, events |-> ev])
      PROVE  iocbq' \in Seq(Nodes)
  BY <1>3, StartFacts DEF TcpType
<1>4. ASSUME NEW q \in Seq(Items), NEW b \in BOOLEAN, r_ev_tcp_teardown(q, b)
      PROVE  /\ iocbq' \in Seq(Nodes) /\ closed' \in BOOLEAN /\ acbs' \in Seq(Items)
             /\ recv_iocb_ctx' = 0 /\ send_iocb_ctx' = 0
  <2>1. [op |-> "close", call |-> b] \in Items
    BY ItemFacts
  <2> QED BY <1>2, <1>4, <2>1 DEF r_ev_tcp_teardown, StopAndClose
<1>5. CASE r_ev_tcp_recv_start
  <2>1. PICK id \in NodeIds : r_ev_io_start(id, {Readable}) /\ recv_iocb_ctx' = id
    BY <1>5 DEF r_ev_tcp_recv_start
  <2>2. {Readable} \in SUBSET REvIOEvents
    BY DEF REvIOEvents
  <2>3. iocbq' \in Seq(Nodes) /\ closed' = closed
    BY Zenon, <1>3, <2>1, <2>2 DEF r_ev_io_start
  <2> QED BY <1>5, <2>1, <2>3 DEF r_ev_tcp_recv_start, TcpType
<1>6. CASE r_ev_tcp_recv_stop
  <2>1. iocbq' \in Seq(Nodes) /\ closed' = closed
    BY <1>1, <1>6 DEF r_ev_tcp_recv_stop, r_ev_io_stop
  <2> QED BY <1>6, <2>1 DEF r_ev_tcp_recv_stop, TcpType
<1>7. CASE r_ev_tcp_send
  <2>1. qsend' \in Seq(1 .. MaxSend) /\ nsend' \in Nat
    <3>1. nsend < MaxSend /\ nsend' = nsend + 1 /\ qsend' = Append(qsend, nsend + 1)
      BY Zenon, <1>7 DEF r_ev_tcp_send
    <3>2. nsend \in Nat /\ MaxSend \in Nat /\ qsend \in Seq(1 .. MaxSend)
      BY Zenon, EvTCPAssumption DEF TcpType
    <3>3. nsend + 1 \in Nat /\ nsend + 1 \in 1 .. MaxSend
      BY <3>1, <3>2
    <3> QED BY <3>1, <3>2, <3>3
  <2>2. bcbs' \in Bcbs
    <3>1. bcbs \in Bcbs /\ (IF qsend = <<>> THEN 1 ELSE 0) \in {0, 1}
      BY Zenon DEF TcpType
    <3>2. bcbs' = [bcbs EXCEPT !.queued = @ + (IF qsend = <<>> THEN 1 ELSE 0)]
      BY Zenon, <1>7 DEF r_ev_tcp_send
    <3> QED BY Zenon, <3>1, <3>2, BcbsFacts
  <2> QED BY <1>7, <2>1, <2>2 DEF r_ev_tcp_send, TcpType
<1>8. CASE r_ev_tcp_close
  <2>1. CASE qsend = <<>>
    <3>1. r_ev_tcp_teardown(acbs, TRUE) /\ acbs \in Seq(Items)
      BY Zenon, <1>8, <2>1 DEF r_ev_tcp_close, TcpType
    <3>2. /\ iocbq' \in Seq(Nodes) /\ closed' \in BOOLEAN /\ acbs' \in Seq(Items)
          /\ recv_iocb_ctx' = 0 /\ send_iocb_ctx' = 0
      BY Zenon, <1>4, <3>1
    <3> QED BY <1>8, <2>1, <3>2 DEF r_ev_tcp_close, TcpType
  <2>2. CASE qsend # <<>>
    <3>1. iocbq' \in Seq(Nodes) /\ closed' = closed
      BY <1>1, <1>8, <2>2 DEF r_ev_tcp_close, r_ev_io_stop, TcpType
    <3> QED BY <1>8, <2>2, <3>1 DEF r_ev_tcp_close, TcpType
  <2> QED BY <2>1, <2>2
<1>9. CASE r_ev_tcp_abort
  <2>1. <<>> \in Seq(1 .. MaxSend) /\ superseded' \in Nat
    BY <1>9 DEF r_ev_tcp_abort, TcpType
  <2>2. r_ev_tcp_teardown(acbs, TRUE) /\ acbs \in Seq(Items)
    BY Zenon, <1>9 DEF r_ev_tcp_abort, TcpType
  <2>3. /\ iocbq' \in Seq(Nodes) /\ closed' \in BOOLEAN /\ acbs' \in Seq(Items)
        /\ recv_iocb_ctx' = 0 /\ send_iocb_ctx' = 0
    BY Zenon, <1>4, <2>2
  <2>4. /\ closing' = FALSE /\ close_cb' = FALSE /\ qsend' = <<>> /\ sockclosed' = TRUE /\ sendfailed' = FALSE
        /\ requests' = requests + 1
        /\ UNCHANGED <<shut, broken, room, pc, from, itnext, bcbs, calling, nsend, closecbs>>
    BY <1>9 DEF r_ev_tcp_abort
  <2>5. closing' \in BOOLEAN /\ close_cb' \in BOOLEAN /\ sockclosed' \in BOOLEAN /\ sendfailed' \in BOOLEAN
    BY Zenon, <2>4
  <2>6. qsend' \in Seq(1 .. MaxSend) /\ requests' \in Nat
    BY <2>1, <2>4 DEF TcpType
  <2>7. UNCHANGED <<shut, broken, room, pc, from, itnext, bcbs, calling, nsend, closecbs>>
    BY <2>4
  <2> QED BY <2>1, <2>3, <2>5, <2>6, <2>7 DEF TcpType
<1>10. CASE UserEnd \/ SendEv \/ BcbsEnd
  <2>1. pc' \in Places /\ from' \in {"bcbs", "node"}
    BY <1>10 DEF UserEnd, SendEv, BcbsEnd, TcpType
  <2>3. bcbs' \in Bcbs
    BY Zenon, <1>10, BcbsFacts DEF UserEnd, SendEv, BcbsEnd, TcpType
  <2>2. UNCHANGED <<evio, kernel, tcp, itnext, acbs, calling, hist>>
    BY Zenon, <1>10 DEF UserEnd, SendEv, BcbsEnd
  <2> QED BY <2>1, <2>2, <2>3 DEF TcpType
<1>11. CASE WaitBegin
  BY <1>11 DEF WaitBegin, ApplyChanges, At, TcpType
<1>12. CASE PollEvents \/ PollOther
  <2>1. FirstNode \in NodeIds \cup {0}
    <3>1. iocbq # <<>> => iocbq[1] \in Nodes
      BY DEF TcpType
    <3> QED BY <3>1 DEF FirstNode, Nodes
  <2> QED BY <1>12, <2>1 DEF PollEvents, PollOther, At, TcpType
<1>13. CASE InvokeIocb
  <2>1. itnext \in Ids(iocbq) => NextNode(itnext) \in NodeIds \cup {0}
    BY NextNodeType
  <2> QED BY <1>13, <2>1 DEF InvokeIocb, At, AfterRecv, TcpType
<1>14. CASE InvokeEnd
  BY <1>14 DEF InvokeEnd, At, TcpType
<1>15. CASE RecvClosed \/ RecvData \/ RecvEnd \/ RecvBlocks
  <2>1. ASSUME r_ev_tcp_recv_teardown PROVE acbs' \in Seq(Items) /\ recv_iocb_ctx' = 0 /\ pc' = "eoscb"
    <3>1. recv_iocb_ctx # 0 => [op |-> "stop", node |-> recv_iocb_ctx] \in Items
      BY ItemFacts DEF TcpType
    <3> QED BY <2>1, <3>1 DEF r_ev_tcp_recv_teardown, TcpType
  <2>2. CASE RecvClosed
    BY <2>1, <2>2 DEF RecvClosed, RecvLeave, AfterRecv, TcpType
  <2>3. CASE RecvData
    BY <2>3 DEF RecvData, TcpType
  <2>4. CASE RecvEnd
    BY <2>1, <2>4 DEF RecvEnd, TcpType
  <2>5. CASE RecvBlocks
    BY <2>5 DEF RecvBlocks, RecvLeave, AfterRecv, TcpType
  <2> QED BY <1>15, <2>2, <2>3, <2>4, <2>5
<1>16. CASE SendOk
  <2>1. Tail(qsend) \in Seq(1 .. MaxSend) /\ room' \in Nat
    BY <1>16, EvTCPAssumption DEF SendOk, TcpType
  <2> QED BY <1>16, <2>1 DEF SendOk, At, TcpType
<1>17. ASSUME NEW r, SendLeave(r, acbs) PROVE acbs' \in Seq(Items) /\ closing' \in BOOLEAN /\ shut' \in BOOLEAN
  <2>1. [op |-> "finalize"] \in Items /\ acbs \in Seq(Items)
    BY ItemFacts DEF TcpType
  <2>2. Append(acbs, [op |-> "finalize"]) \in Seq(Items)
    BY <2>1
  <2> QED BY Zenon, <1>17, <2>1, <2>2 DEF SendLeave, TcpType
<1>18. CASE SendDrained
  BY <1>17, <1>18 DEF SendDrained, AfterSend, At, TcpType
<1>19. CASE SendBlocks
  <2>1. {Writable} \in SUBSET REvIOEvents
    BY DEF REvIOEvents
  <2>2. iocbq' \in Seq(Nodes) /\ closed' = closed /\ send_iocb_ctx' \in NodeIds \cup {0}
    BY Zenon, <1>3, <1>19, <2>1 DEF SendBlocks, r_ev_io_start, TcpType
  <2> QED BY <1>19, <2>2 DEF SendBlocks, AfterSend, At, TcpType
<1>20. CASE SendFails
  <2>1. send_iocb_ctx # 0 => [op |-> "stop", node |-> send_iocb_ctx] \in Items
    BY ItemFacts DEF TcpType
  <2> QED BY <1>20, <2>1 DEF SendFails, At, TcpType
<1>21. CASE ErrorIocb
  BY <1>21 DEF ErrorIocb, At, TcpType
<1>22. CASE Return
  BY <1>17, <1>22 DEF Return, RecvLeave, AfterRecv, AfterSend, TcpType
<1>23. CASE AcbStop
  <2>1. /\ calling # <<>> /\ calling' = Tail(calling) /\ iocbq' = Without(iocbq, calling[1].node) /\ closed' = closed
        /\ UNCHANGED <<kernel, tcp, pc, from, itnext, bcbs, acbs, hist>>
    BY Zenon, <1>23 DEF AcbStop, r_ev_io_stop
  <2>2. calling \in Seq(Items)
    BY Zenon DEF TcpType
  <2>3. calling' \in Seq(Items)
    BY <2>1, <2>2
  <2>4. iocbq' \in Seq(Nodes)
    BY Zenon, <1>1, <2>1
  <2> QED BY <2>1, <2>3, <2>4 DEF TcpType
<1>24. CASE r_ev_tcp_finalize_teardown
  <2>1. r_ev_tcp_teardown(acbs, close_cb) /\ acbs \in Seq(Items) /\ close_cb \in BOOLEAN
    BY <1>24 DEF r_ev_tcp_finalize_teardown, TcpType
  <2>2. /\ iocbq' \in Seq(Nodes) /\ closed' \in BOOLEAN /\ acbs' \in Seq(Items)
        /\ recv_iocb_ctx' = 0 /\ send_iocb_ctx' = 0
    BY <1>4, <2>1
  <2>3. Tail(calling) \in Seq(Items)
    BY <1>24 DEF r_ev_tcp_finalize_teardown, TcpType
  <2>4. /\ close_cb' = FALSE /\ calling' = Tail(calling)
        /\ UNCHANGED <<kernel, qsend, closing, pc, from, itnext, bcbs, hist>>
    BY <1>24 DEF r_ev_tcp_finalize_teardown
  <2>5. close_cb' \in BOOLEAN
    BY Zenon, <2>4
  <2>6. UNCHANGED <<kernel, qsend, closing, pc, from, itnext, bcbs, hist>>
    BY <2>4
  <2> QED BY <2>2, <2>3, <2>4, <2>5, <2>6 DEF TcpType
<1>25. CASE AcbClose \/ AcbsEnd
  <2>1. CASE AcbClose
    <3>1. Tail(calling) \in Seq(Items) /\ closecbs' \in Nat /\ pc' \in Places
      BY <2>1 DEF AcbClose, At, TcpType
    <3> QED BY <2>1, <3>1 DEF AcbClose, TcpType
  <2>2. CASE AcbsEnd
    BY <2>2 DEF AcbsEnd, TcpType
  <2> QED BY <1>25, <2>1, <2>2
<1>26. CASE Kernel
  <2>1. CASE Arrive
    BY <2>1 DEF Arrive, TcpType
  <2>2. CASE PeerEof
    BY <2>2 DEF PeerEof, TcpType
  <2>3. CASE Reset
    BY <2>3 DEF Reset, TcpType
  <2>4. CASE Drain
    BY <2>4 DEF Drain, TcpType
  <2> QED BY <1>26, <2>1, <2>2, <2>3, <2>4 DEF Kernel
<1>27. CASE UNCHANGED vars
  BY <1>27 DEF vars, TcpType
<1> QED BY <1>5, <1>6, <1>7, <1>8, <1>9, <1>10, <1>11, <1>12, <1>13, <1>14, <1>15, <1>16, <1>18, <1>19, <1>20,
          <1>21, <1>22, <1>23, <1>24, <1>25, <1>26, <1>27 DEF Next, Dispatch, Operation

-----------------------------------------------------------------------------
(***************************************************************************)
(* A close is accepted before anything that follows from it, and what was  *)
(* queued before it is sent or has failed.                                 *)
(***************************************************************************)
LEMMA FlushedStep ==
  ASSUME TcpType, Requested, Flushed, Quiet, [Next]_vars
  PROVE  Requested' /\ Flushed'
<1> DEFINE Fin == Has(Queued, "finalize")
           Goal == Requested' /\ Flushed'
<1> USE DEF evio, kernel, tcp, loop, hist
<1>1. requests \in Nat /\ Queued \in Seq(Items) /\ qsend \in Seq(1 .. MaxSend)
  BY QueuedFacts DEF TcpType
<1>2. ASSUME acbs' = acbs, calling' = calling PROVE Fin' = Fin
  BY <1>2 DEF Queued
<1>3. ASSUME NEW x \in Items, x.op # "finalize", acbs' = Append(acbs, x), calling' = calling
      PROVE  Fin' => Fin
  <2>1. Queued' = Append(Queued, x)
    BY Zenon, <1>3, QueuedFacts
  <2> QED BY Zenon, <1>1, <1>3, <2>1, HasFacts
<1>4. ASSUME calling # <<>>, calling' = Tail(calling), acbs' = acbs
      PROVE  Fin' => Fin
  <2>1. Queued # <<>> /\ Queued' = Tail(Queued)
    BY Zenon, <1>4, QueuedFacts
  <2> QED BY Zenon, <1>1, <2>1, HasFacts
<1> HIDE DEF Fin
<1>5. ASSUME UNCHANGED <<shut, sockclosed, qsend, requests, closing, close_cb, closed, sendfailed>>, broken => broken',
             Fin' => Fin, pc' = "senderrcb" => pc = "senderrcb"
      PROVE  Goal
  BY <1>5 DEF Requested, Flushed, Fin
<1>6. ASSUME UNCHANGED <<shut, sockclosed, qsend, requests, closing, close_cb, closed, sendfailed, broken, acbs, calling>>,
             pc' = "senderrcb" => pc = "senderrcb"
      PROVE  Goal
  BY <1>2, <1>5, <1>6
<1>7. ASSUME NEW n \in NodeIds \cup {0}, calling' = calling,
             acbs' = IF n # 0 THEN Append(acbs, [op |-> "stop", node |-> n]) ELSE acbs
      PROVE  Fin' => Fin
  <2>1. n # 0 => [op |-> "stop", node |-> n] \in Items
    BY Zenon, ItemFacts
  <2>2. [op |-> "stop", node |-> n].op # "finalize"
    OBVIOUS
  <2> QED BY Zenon, <1>2, <1>3, <1>7, <2>1, <2>2
<1>8. ASSUME NEW b \in BOOLEAN, acbs' = Append(acbs, [op |-> "close", call |-> b]), calling' = calling
      PROVE  Fin' => Fin
  <2>1. [op |-> "close", call |-> b] \in Items /\ [op |-> "close", call |-> b].op # "finalize"
    BY ItemFacts
  <2> QED BY Zenon, <1>3, <1>8, <2>1
<1>9. CASE r_ev_tcp_recv_start \/ r_ev_tcp_recv_stop
  <2>1. UNCHANGED <<shut, sockclosed, qsend, requests, closing, close_cb, closed, sendfailed, broken, acbs, calling, pc>>
    BY Zenon, <1>9 DEF r_ev_tcp_recv_start, r_ev_tcp_recv_stop, r_ev_io_start, r_ev_io_stop
  <2> QED BY Zenon, <1>6, <2>1
<1>10. CASE requests = 0 /\ r_ev_tcp_send
  <2>1. UNCHANGED <<shut, sockclosed, requests, closing, close_cb, closed, sendfailed, broken, acbs, calling, pc>>
    BY <1>10 DEF r_ev_tcp_send
  <2>2. ~shut /\ ~closing /\ ~close_cb /\ ~sockclosed
    BY <1>10 DEF Requested
  <2> QED BY Zenon, <1>2, <2>1, <2>2 DEF Requested, Flushed, Fin
<1>11. CASE ~sendfailed /\ r_ev_tcp_close
  <2>1. requests' = requests + 1 /\ UNCHANGED <<qsend, sockclosed, calling, pc, broken, sendfailed>> /\ ~closing
    BY <1>11 DEF r_ev_tcp_close
  <2>2. requests' > 0
    BY <1>1, <2>1
  <2>3. CASE qsend = <<>>
    <3>1. acbs' = Append(acbs, [op |-> "close", call |-> TRUE]) /\ shut' = TRUE /\ UNCHANGED <<closing, close_cb>>
      BY <1>11, <2>3 DEF r_ev_tcp_close, r_ev_tcp_teardown
    <3> QED BY <1>8, <2>1, <2>2, <2>3, <3>1 DEF Requested, Flushed, Fin
  <2>4. CASE qsend # <<>>
    <3>1. UNCHANGED <<acbs, shut>> /\ closing' = TRUE /\ close_cb' = TRUE
      BY Zenon, <1>11, <2>4 DEF r_ev_tcp_close
    <3>2. ~Fin
      BY Zenon, <1>11, <2>4 DEF Flushed, Fin
    <3> QED BY Zenon, <1>2, <2>1, <2>2, <3>1, <3>2 DEF Requested, Flushed, Fin
  <2> QED BY <2>3, <2>4
<1>12. CASE r_ev_tcp_abort
  <2>1. /\ requests' = requests + 1 /\ UNCHANGED <<shut, calling>> /\ qsend' = <<>> /\ sockclosed' = TRUE /\ closing' = FALSE /\ close_cb' = FALSE
        /\ acbs' = Append(acbs, [op |-> "close", call |-> TRUE])
    BY <1>12 DEF r_ev_tcp_abort, r_ev_tcp_teardown
  <2>2. requests' > 0
    BY <1>1, <2>1
  <2> QED BY Zenon, <1>8, <2>1, <2>2 DEF Requested, Flushed, Fin
<1>13. CASE UserEnd \/ SendEv \/ BcbsEnd \/ PollEvents \/ PollOther \/ AcbsEnd
  <2>1. UNCHANGED <<shut, sockclosed, qsend, requests, closing, close_cb, closed, sendfailed, broken, acbs, calling>> /\ pc' # "senderrcb"
    BY Zenon, <1>13 DEF UserEnd, SendEv, BcbsEnd, PollEvents, PollOther, AcbsEnd
  <2> QED BY Zenon, <1>6, <2>1
<1>14. CASE WaitBegin \/ ErrorIocb
  <2>1. UNCHANGED <<shut, sockclosed, qsend, requests, closing, close_cb, closed, sendfailed, broken, acbs, calling>> /\ pc' # "senderrcb"
    BY <1>14 DEF WaitBegin, ApplyChanges, ErrorIocb
  <2> QED BY Zenon, <1>6, <2>1
<1>15. CASE InvokeIocb
  <2>1. UNCHANGED <<shut, sockclosed, qsend, requests, closing, close_cb, closed, sendfailed, broken, acbs, calling>> /\ pc' # "senderrcb"
    BY <1>15 DEF InvokeIocb, At, AfterRecv
  <2> QED BY Zenon, <1>6, <2>1
<1>16. CASE InvokeEnd
  <2>1. UNCHANGED <<shut, sockclosed, qsend, requests, closing, close_cb, closed, sendfailed, broken>> /\ pc' # "senderrcb"
    BY <1>16 DEF InvokeEnd
  <2>2. calling = <<>>
    BY <1>16 DEF InvokeEnd, At, Quiet
  <2>3. Queued' = Queued
    BY <1>16, <2>2, QueuedFacts DEF InvokeEnd
  <2> QED BY Zenon, <1>5, <2>1, <2>3 DEF Fin
<1>17. CASE RecvData \/ RecvBlocks
  <2>1. UNCHANGED <<shut, sockclosed, qsend, requests, closing, close_cb, closed, sendfailed, broken, acbs, calling>> /\ pc' # "senderrcb"
    BY <1>17 DEF RecvData, RecvBlocks, RecvLeave, AfterRecv
  <2> QED BY Zenon, <1>6, <2>1
<1>18. CASE RecvClosed \/ RecvEnd
  <2>1. UNCHANGED <<shut, sockclosed, qsend, requests, closing, close_cb, closed, sendfailed, broken, calling>> /\ pc' # "senderrcb"
    BY <1>18 DEF RecvClosed, RecvEnd, RecvLeave, AfterRecv, r_ev_tcp_recv_teardown
  <2>2. acbs' = acbs \/ acbs' = IF recv_iocb_ctx # 0 THEN Append(acbs, [op |-> "stop", node |-> recv_iocb_ctx]) ELSE acbs
    BY Zenon, <1>18 DEF RecvClosed, RecvEnd, r_ev_tcp_recv_teardown
  <2>3. Fin' => Fin
    BY Zenon, <1>2, <1>7, <2>1, <2>2 DEF TcpType
  <2> QED BY Zenon, <1>5, <2>1, <2>3
<1>19. CASE SendOk
  <2>1. /\ UNCHANGED <<acbs, calling, shut, sockclosed, requests, closing, close_cb, closed, sendfailed, broken>>
        /\ ~sockclosed /\ ~shut /\ pc' # "senderrcb" /\ qsend # <<>>
    BY <1>19 DEF SendOk
  <2> QED BY Zenon, <1>2, <2>1 DEF Requested, Flushed, Fin
<1>20. ASSUME NEW r, SendLeave(r, acbs), UNCHANGED <<calling, requests, sockclosed, qsend, close_cb, closed, sendfailed, broken>>,
              qsend = <<>> \/ pc = "senderrcb", pc' # "senderrcb"
       PROVE  Goal
  <2>1. CASE closing /\ r # "WOULD_BLOCK"
    <3>1. shut' = TRUE /\ closing' = FALSE
      BY Zenon, <1>20, <2>1 DEF SendLeave
    <3>2. (qsend = <<>> \/ sendfailed) /\ (broken \/ sockclosed \/ qsend = <<>>)
      BY Zenon, <1>20 DEF Flushed, Requested
    <3> QED BY Zenon, <1>20, <2>1, <3>1, <3>2 DEF Requested, Flushed, Fin
  <2>2. CASE ~(closing /\ r # "WOULD_BLOCK")
    <3>1. UNCHANGED <<acbs, closing, shut>>
      BY Zenon, <1>20, <2>2 DEF SendLeave
    <3> QED BY Zenon, <1>6, <1>20, <3>1
  <2> QED BY <2>1, <2>2
<1>21. CASE SendDrained
  <2>1. UNCHANGED <<calling, requests, sockclosed, qsend, close_cb, closed, sendfailed, broken>> /\ qsend = <<>> /\ pc' # "senderrcb"
    BY <1>21 DEF SendDrained, AfterSend
  <2>2. SendLeave(res, acbs)
    BY <1>21 DEF SendDrained
  <2> QED BY Zenon, <1>20, <2>1, <2>2
<1>22. CASE SendBlocks
  <2>1. UNCHANGED <<shut, sockclosed, qsend, requests, closing, close_cb, closed, sendfailed, broken, acbs, calling>>
    BY Zenon, <1>22 DEF SendBlocks, r_ev_io_start
  <2>2. pc' # "senderrcb"
    BY <1>22 DEF SendBlocks, AfterSend
  <2> QED BY Zenon, <1>6, <2>1, <2>2
<1>23. CASE SendFails
  <2>1. /\ UNCHANGED <<shut, sockclosed, qsend, requests, closing, close_cb, closed, broken, calling>> /\ sendfailed' = TRUE
        /\ qsend # <<>> /\ (broken \/ shut \/ sockclosed)
    BY <1>23 DEF SendFails
  <2>2. acbs' = IF send_iocb_ctx # 0 THEN Append(acbs, [op |-> "stop", node |-> send_iocb_ctx]) ELSE acbs
    BY <1>23 DEF SendFails
  <2>3. Fin' => Fin
    BY Zenon, <1>7, <2>1, <2>2 DEF TcpType
  <2> QED BY Zenon, <2>1, <2>3 DEF Requested, Flushed, Fin
<1>24. CASE Return
  <2>1. UNCHANGED <<calling, requests, sockclosed, qsend, close_cb, closed, sendfailed, broken>> /\ pc' # "senderrcb"
    BY <1>24 DEF Return, RecvLeave, AfterRecv, AfterSend
  <2>2. CASE pc = "senderrcb"
    <3>1. SendLeave(res, acbs)
      BY <1>24, <2>2 DEF Return
    <3> QED BY Zenon, <1>20, <2>1, <2>2, <3>1
  <2>3. CASE pc # "senderrcb"
    <3>1. UNCHANGED <<acbs, closing, shut>>
      BY <1>24, <2>3 DEF Return
    <3> QED BY Zenon, <1>6, <2>1, <3>1
  <2> QED BY <2>2, <2>3
<1>25. CASE AcbStop \/ AcbClose
  <2>1. UNCHANGED <<shut, sockclosed, qsend, requests, closing, close_cb, closed, sendfailed, broken, acbs>> /\ pc' # "senderrcb"
    BY Zenon, <1>25 DEF AcbStop, r_ev_io_stop, AcbClose, At
  <2>2. calling # <<>> /\ calling' = Tail(calling)
    BY Zenon, <1>25 DEF AcbStop, AcbClose
  <2> QED BY Zenon, <1>4, <1>5, <2>1, <2>2
<1>26. CASE r_ev_tcp_finalize_teardown
  <2>1. /\ UNCHANGED <<shut, sockclosed, qsend, requests, closing, sendfailed, broken, pc>> /\ close_cb' = FALSE
        /\ calling # <<>> /\ calling[1].op = "finalize" /\ calling' = Tail(calling)
        /\ acbs' = Append(acbs, [op |-> "close", call |-> close_cb])
    BY Zenon, <1>26 DEF r_ev_tcp_finalize_teardown, r_ev_tcp_teardown
  <2>2. Fin
    <3>1. Queued # <<>> /\ Queued[1].op = "finalize"
      BY Zenon, <2>1, QueuedFacts
    <3> QED BY Zenon, <1>1, <3>1, HasFacts DEF Fin
  <2>3. shut /\ ~closing /\ (qsend = <<>> \/ sendfailed)
    BY Zenon, <2>2 DEF Flushed, Fin
  <2> QED BY Zenon, <2>1, <2>3 DEF Requested, Flushed, Fin
<1>27. CASE Kernel
  <2>1. UNCHANGED <<shut, sockclosed, qsend, requests, closing, close_cb, closed, sendfailed, acbs, calling, pc>> /\ (broken => broken')
    BY Zenon, <1>27 DEF Kernel, Arrive, PeerEof, Reset, Drain
  <2> QED BY <1>2, <1>5, <2>1
<1>28. CASE UNCHANGED vars
  BY Zenon, <1>6, <1>28 DEF vars
<1> QED BY <1>9, <1>10, <1>11, <1>12, <1>13, <1>14, <1>15, <1>16, <1>17, <1>18, <1>19, <1>21, <1>22, <1>23, <1>24,
          <1>25, <1>26, <1>27, <1>28 DEF Next, Dispatch, Operation

-----------------------------------------------------------------------------
(***************************************************************************)
(* The node that is to be called next stays registered: nodes are stopped  *)
(* where none is to be called.                                             *)
(***************************************************************************)
LEMMA AliveStep ==
  ASSUME TcpType, NextAlive, [Next]_vars
  PROVE  NextAlive'
<1> USE DEF evio, kernel, tcp, loop, hist, InNode
<1>1. ASSUME itnext' = 0 PROVE NextAlive'
  BY <1>1 DEF NextAlive
<1>2. ASSUME itnext' = itnext, itnext # 0 => Ids(iocbq) \subseteq Ids(iocbq'),
             UNCHANGED <<pc, from>> \/ pc' = "node" \/ (pc' \in InNode /\ from' = from /\ pc \in InNode \ {"node"})
      PROVE  NextAlive'
  BY <1>2 DEF NextAlive
<1>3. pc \notin InNode => itnext = 0
  BY DEF NextAlive
<1>4. ASSUME itnext # 0, from = "bcbs" PROVE pc = "node"
  BY <1>4 DEF NextAlive
<1>5. ASSUME NEW id \in NodeIds, NEW ev \in SUBSET REvIOEvents, r_ev_io_start(id, ev) PROVE Ids(iocbq) \subseteq Ids(iocbq')
  BY <1>5, StartFacts DEF r_ev_io_start, TcpType
<1>6. CASE r_ev_tcp_recv_start
  <2>1. PICK id \in NodeIds : r_ev_io_start(id, {Readable})
    BY <1>6 DEF r_ev_tcp_recv_start
  <2>2. {Readable} \in SUBSET REvIOEvents
    BY DEF REvIOEvents
  <2>3. Ids(iocbq) \subseteq Ids(iocbq')
    BY Zenon, <1>5, <2>1, <2>2
  <2> QED BY <1>2, <1>6, <2>3 DEF r_ev_tcp_recv_start
<1>7. CASE LastNode /\ (r_ev_tcp_recv_stop \/ r_ev_tcp_close \/ r_ev_tcp_abort)
  <2>1. itnext = 0
    BY <1>3, <1>7 DEF LastNode
  <2>2. itnext' = itnext
    BY Zenon, <1>7 DEF r_ev_tcp_recv_stop, r_ev_tcp_close, r_ev_tcp_abort
  <2> QED BY <1>1, <2>1, <2>2
<1>8. CASE r_ev_tcp_send
  BY <1>2, <1>8 DEF r_ev_tcp_send
<1>9. CASE UserEnd \/ SendEv \/ BcbsEnd \/ WaitBegin
  BY Zenon, <1>1, <1>3, <1>9 DEF UserEnd, SendEv, BcbsEnd, WaitBegin, At
<1>10. CASE AcbClose \/ AcbsEnd \/ AcbStop \/ r_ev_tcp_finalize_teardown
  BY Zenon, <1>1, <1>3, <1>10 DEF AcbClose, AcbsEnd, AcbStop, r_ev_tcp_finalize_teardown, At
<1>11. CASE PollEvents
  <2>1. itnext' = (IF closed THEN 0 ELSE FirstNode) /\ pc' = "node" /\ iocbq' = iocbq
    BY <1>11 DEF PollEvents
  <2>2. iocbq # <<>> => iocbq[1].id \in Ids(iocbq)
    BY DEF Ids, TcpType
  <2>3. FirstNode # 0 => FirstNode \in Ids(iocbq)
    BY <2>2 DEF FirstNode
  <2>4. Ids(iocbq') = Ids(iocbq)
    BY <2>1
  <2> QED BY Zenon, <2>1, <2>3, <2>4 DEF NextAlive
<1>12. CASE PollOther
  BY <1>1, <1>12 DEF PollOther
<1>13. CASE InvokeIocb
  <2>1. itnext \in Ids(iocbq)
    BY <1>13 DEF InvokeIocb, NextAlive
  <2>2. itnext' = NextNode(itnext) /\ from' = "node" /\ pc' \in InNode /\ iocbq' = iocbq
    BY <1>13, <2>1 DEF InvokeIocb, AfterRecv
  <2>3. Ids(iocbq') = Ids(iocbq)
    BY <2>2
  <2> QED BY Zenon, <2>1, <2>2, <2>3, NextNodeType DEF NextAlive
<1>14. CASE InvokeEnd
  BY <1>1, <1>14 DEF InvokeEnd
<1>15. CASE RecvClosed \/ RecvEnd
  <2>1. itnext' = itnext /\ from' = from /\ iocbq' = iocbq /\ pc = "recv"
    BY <1>15 DEF RecvClosed, RecvEnd, At
  <2>2. pc' \in InNode
    BY Zenon, <1>15 DEF RecvClosed, RecvEnd, RecvLeave, AfterRecv, r_ev_tcp_recv_teardown
  <2> QED BY <1>2, <2>1, <2>2
<1>16. CASE RecvData \/ RecvBlocks
  BY Zenon, <1>2, <1>16 DEF RecvData, RecvBlocks, RecvLeave, AfterRecv, At
<1>17. CASE SendOk \/ SendFails
  <2>1. itnext' = itnext /\ from' = from /\ iocbq' = iocbq /\ pc = "send" /\ pc' \in InNode
    BY <1>17 DEF SendOk, SendFails, At
  <2> QED BY <1>2, <2>1
<1>18. CASE SendDrained
  <2>1. itnext' = itnext /\ from' = from /\ iocbq' = iocbq /\ pc = "send" /\ pc' = AfterSend
    BY <1>18 DEF SendDrained, At
  <2>2. from # "bcbs" => pc' \in InNode
    BY <2>1 DEF AfterSend
  <2> QED BY <1>1, <1>2, <1>4, <2>1, <2>2
<1>19. CASE SendBlocks
  <2>1. itnext' = itnext /\ from' = from /\ pc = "send" /\ pc' = AfterSend
    BY <1>19 DEF SendBlocks, At
  <2>2. from # "bcbs" => pc' \in InNode
    BY <2>1 DEF AfterSend
  <2>3. {Writable} \in SUBSET REvIOEvents
    BY DEF REvIOEvents
  <2>4. iocbq' = iocbq \/ \E id \in NodeIds : r_ev_io_start(id, {Writable})
    BY Zenon, <1>19 DEF SendBlocks
  <2>5. Ids(iocbq) \subseteq Ids(iocbq')
    BY Zenon, <1>5, <2>3, <2>4
  <2> QED BY <1>1, <1>2, <1>4, <2>1, <2>2, <2>5
<1>20. CASE ErrorIocb
  BY <1>2, <1>20 DEF ErrorIocb, At
<1>21. CASE Return
  <2>1. itnext' = itnext /\ from' = from /\ iocbq' = iocbq
    BY <1>21 DEF Return
  <2>2. CASE pc = "senderrcb"
    <3>1. pc' = AfterSend
      BY <1>21, <2>2 DEF Return
    <3>2. from # "bcbs" => pc' \in InNode
      BY <3>1 DEF AfterSend
    <3> QED BY <1>1, <1>2, <1>4, <2>1, <2>2, <3>2
  <2>3. CASE pc = "closecb"
    BY <1>1, <1>3, <2>1, <2>3
  <2>4. CASE pc \notin {"senderrcb", "closecb"}
    <3>1. pc \in InNode \ {"node"} /\ pc' \in InNode
      BY <1>21, <2>4 DEF Return, RecvLeave, AfterRecv
    <3> QED BY <1>2, <2>1, <3>1
  <2> QED BY <2>2, <2>3, <2>4
<1>22. CASE Kernel
  <2>1. UNCHANGED <<itnext, from, pc, iocbq>>
    BY Zenon, <1>22 DEF Kernel, Arrive, PeerEof, Reset, Drain
  <2> QED BY <1>2, <2>1
<1>23. CASE UNCHANGED vars
  BY <1>2, <1>23 DEF vars
<1> QED BY <1>6, <1>7, <1>8, <1>9, <1>10, <1>11, <1>12, <1>13, <1>14, <1>15, <1>16, <1>17, <1>18, <1>19, <1>20,
          <1>21, <1>22, <1>23 DEF Next, Dispatch, Operation

-----------------------------------------------------------------------------
(***************************************************************************)
(* Nothing of the connection is left to run once a close callback was      *)
(* called.                                                                 *)
(***************************************************************************)
LEMMA QuietStep ==
  ASSUME TcpType, Requested, NextAlive, Quiet, [Next]_vars
  PROVE  Quiet'
<1> DEFINE A == Has(acbs, "close")
           C == Has(calling, "close")
           E == NoBcbs \/ qsend = <<>>
           Late == {"closecb", "acbs", "user", "bcbs", "wait", "poll", "node", "send"}
<1> USE DEF evio, kernel, tcp, loop, hist
<1>1. bcbs \in Bcbs /\ acbs \in Seq(Items) /\ calling \in Seq(Items) /\ closecbs \in Nat /\ qsend \in Seq(1 .. MaxSend)
  BY DEF TcpType
<1>2. /\ calling # <<>> => pc \in {"acbs", "closecb"}
      /\ A => closed /\ (E \/ InBcbs)
      /\ C => closed /\ E
      /\ closecbs > 0 => closed /\ itnext = 0 /\ E /\ pc \in Late /\ (pc = "send" => from = "bcbs" /\ qsend = <<>>)
  BY DEF Quiet
<1>3. ASSUME calling' # <<>> => pc' \in {"acbs", "closecb"},
             A' => closed' /\ (E' \/ InBcbs'),
             C' => closed' /\ E',
             closecbs' > 0 => closed' /\ itnext' = 0 /\ E' /\ pc' \in Late /\ (pc' = "send" => from' = "bcbs" /\ qsend' = <<>>)
      PROVE  Quiet'
  BY <1>3 DEF Quiet
<1>3a. /\ bcbs' = bcbs => NoBcbs' = NoBcbs
       /\ bcbs' = bcbs /\ qsend' = qsend => E' = E
  BY DEF NoBcbs
<1>4. ASSUME NEW x \in Items, acbs' = Append(acbs, x), x.op # "close" PROVE A' => A
  BY Zenon, <1>1, <1>4, HasFacts
<1>5. ASSUME calling # <<>>, calling' = Tail(calling) PROVE C' => C
  BY Zenon, <1>1, <1>5, HasFacts
<1>6. ASSUME NEW n \in NodeIds \cup {0}, acbs' = IF n # 0 THEN Append(acbs, [op |-> "stop", node |-> n]) ELSE acbs
      PROVE  A' => A
  <2>1. n # 0 => [op |-> "stop", node |-> n] \in Items
    BY Zenon, ItemFacts
  <2>2. [op |-> "stop", node |-> n].op # "close"
    OBVIOUS
  <2> QED BY Zenon, <1>4, <1>6, <2>1, <2>2
<1>7. ASSUME NEW r, SendLeave(r, acbs) PROVE A' => A
  <2>1. [op |-> "finalize"] \in Items /\ [op |-> "finalize"].op # "close"
    BY Zenon, ItemFacts
  <2> QED BY Zenon, <1>4, <1>7, <2>1 DEF SendLeave
<1> HIDE DEF A, C
<1>8. ASSUME UNCHANGED <<calling, closed, closecbs>>, A' => A, E => E', InBcbs => InBcbs' \/ E',
             calling # <<>> => pc' \in {"acbs", "closecb"},
             closecbs > 0 => itnext' = 0 /\ pc' \in Late /\ (pc' = "send" => from' = "bcbs" /\ qsend' = <<>>)
      PROVE  Quiet'
  <2>1. C' = C
    BY <1>8 DEF C
  <2> QED BY Zenon, <1>2, <1>3, <1>8, <2>1
<1>9. ASSUME UNCHANGED <<calling, acbs, closed, closecbs, bcbs, qsend>>, InBcbs => InBcbs' \/ E,
              calling # <<>> => pc' \in {"acbs", "closecb"},
              closecbs > 0 => itnext' = 0 /\ pc' \in Late /\ (pc' = "send" => from' = "bcbs" /\ qsend = <<>>)
       PROVE  Quiet'
  <2>1. A' = A
    BY <1>9 DEF A
  <2>2. E' = E
    BY <1>3a, <1>9
  <2> QED BY Zenon, <1>8, <1>9, <2>1, <2>2
<1>10. ASSUME UNCHANGED <<calling, acbs, closed, closecbs, bcbs, qsend, pc, from, itnext>> PROVE Quiet'
  BY <1>2, <1>9, <1>10 DEF InBcbs
<1>11. CASE r_ev_tcp_recv_start \/ r_ev_tcp_recv_stop
  <2>1. UNCHANGED <<calling, acbs, closed, closecbs, bcbs, qsend, pc, from, itnext>>
    BY Zenon, <1>11 DEF r_ev_tcp_recv_start, r_ev_tcp_recv_stop, r_ev_io_start, r_ev_io_stop
  <2> QED BY Zenon, <1>10, <2>1
<1>12. ASSUME ~closed PROVE ~A /\ ~C /\ ~(closecbs > 0)
  BY Zenon, <1>2, <1>12
<1>13. CASE requests = 0 /\ r_ev_tcp_send
  <2>1. ~closed
    BY <1>13 DEF r_ev_tcp_send
  <2>2. UNCHANGED <<calling, acbs, closecbs, pc>>
    BY <1>13 DEF r_ev_tcp_send
  <2>3. A' = A /\ C' = C
    BY <2>2 DEF A, C
  <2> QED BY Zenon, <1>2, <1>3, <1>12, <2>1, <2>2, <2>3
<1>14. CASE r_ev_tcp_close \/ r_ev_tcp_abort
  <2>1. ~closed /\ UNCHANGED <<calling, closecbs, pc>>
    BY Zenon, <1>14 DEF r_ev_tcp_close, r_ev_tcp_abort
  <2>2. C' = C
    BY <2>1 DEF C
  <2>3. (closed' = TRUE /\ qsend' = <<>>) \/ acbs' = acbs
    BY Zenon, <1>14 DEF r_ev_tcp_close, r_ev_tcp_abort, r_ev_tcp_teardown, StopAndClose
  <2>4. acbs' = acbs => A' = A
    BY DEF A
  <2> QED BY Zenon, <1>2, <1>3, <1>12, <2>1, <2>2, <2>3, <2>4
<1>15. CASE AcbsEnd
  <2>1. UNCHANGED <<calling, acbs, closed, closecbs, bcbs, qsend, itnext>> /\ calling = <<>> /\ pc' = "user"
    BY Zenon, <1>2, <1>15 DEF AcbsEnd, At
  <2> QED BY <1>2, <1>9, <2>1 DEF InBcbs
<1>16. CASE UserEnd \/ SendEv
  <2>1. /\ UNCHANGED <<calling, acbs, closed, closecbs, qsend, itnext>> /\ pc \in {"user", "bcbs"}
        /\ pc' = "bcbs" \/ (pc' = "send" /\ from' = "bcbs")
    BY Zenon, <1>16 DEF UserEnd, SendEv, At
  <2>2. calling = <<>> /\ A' = A
    BY <1>2, <2>1 DEF A
  <2>3. CASE UserEnd
    <3>1. pc' = "bcbs" /\ bcbs'.queued = 0 /\ bcbs'.called = bcbs.queued
      BY <2>3 DEF UserEnd
    <3>2. InBcbs' /\ (E => E')
      BY <2>1, <3>1 DEF InBcbs, NoBcbs
    <3> QED BY <1>2, <1>8, <2>1, <2>2, <3>1, <3>2
  <2>4. CASE SendEv
    <3>1. bcbs'.queued = bcbs.queued /\ bcbs.called > 0 /\ pc = "bcbs" /\ pc' = "send" /\ from' = "bcbs"
      BY <1>1, <2>4 DEF SendEv, At
    <3>2. (InBcbs => InBcbs') /\ (E => E' /\ qsend' = <<>>)
      BY <2>1, <3>1 DEF InBcbs, NoBcbs
    <3> QED BY <1>2, <1>8, <2>1, <2>2, <3>1, <3>2
  <2> QED BY <1>16, <2>3, <2>4
<1>17. CASE BcbsEnd \/ WaitBegin
  <2>1. UNCHANGED <<calling, acbs, closed, closecbs, bcbs, qsend, itnext>> /\ (NoBcbs \/ ~InBcbs) /\ pc' \in {"wait", "poll"}
    BY Zenon, <1>17 DEF BcbsEnd, WaitBegin, ApplyChanges, At, InBcbs, NoBcbs
  <2>2. calling = <<>>
    BY Zenon, <1>2, <1>17 DEF BcbsEnd, WaitBegin, At
  <2> QED BY <1>2, <1>9, <2>1, <2>2
<1>18. CASE PollEvents \/ PollOther
  <2>1. UNCHANGED <<calling, acbs, closed, closecbs, bcbs, qsend>> /\ pc = "poll" /\ pc' = "node" /\ (closed => itnext' = 0)
    BY <1>18 DEF PollEvents, PollOther, At
  <2> QED BY <1>2, <1>9, <2>1 DEF InBcbs
<1>19. CASE InvokeIocb
  <2>1. UNCHANGED <<calling, acbs, closed, closecbs, bcbs, qsend>> /\ pc = "node" /\ itnext # 0
    BY <1>19 DEF InvokeIocb, At
  <2> QED BY <1>2, <1>9, <2>1 DEF InBcbs
<1>20. CASE InvokeEnd
  <2>1. UNCHANGED <<closed, closecbs, bcbs, qsend, itnext>> /\ pc = "node" /\ pc' = "acbs" /\ calling' = acbs /\ acbs' = <<>>
    BY <1>20 DEF InvokeEnd, At
  <2>2. ~A'
    BY Zenon, <1>1, <2>1, HasFacts DEF A
  <2>3. C' = A
    BY <2>1 DEF A, C
  <2>4. ~InBcbs /\ E' = E
    BY <1>3a, <2>1 DEF InBcbs
  <2> QED BY <1>2, <1>3, <2>1, <2>2, <2>3, <2>4
<1>21. CASE RecvClosed \/ RecvEnd \/ RecvData \/ RecvBlocks
  <2>1. pc = "recv" /\ UNCHANGED <<calling, closed, closecbs, bcbs, qsend>>
    BY Zenon, <1>21 DEF RecvClosed, RecvEnd, RecvData, RecvBlocks, At
  <2>2. acbs' = acbs \/ acbs' = IF recv_iocb_ctx # 0 THEN Append(acbs, [op |-> "stop", node |-> recv_iocb_ctx]) ELSE acbs
    BY Zenon, <1>21 DEF RecvClosed, RecvEnd, RecvData, RecvBlocks, r_ev_tcp_recv_teardown
  <2>3. A' => A
    BY Zenon, <1>6, <2>2 DEF TcpType, A
  <2>4. E' = E /\ calling = <<>> /\ ~(closecbs > 0) /\ ~InBcbs
    BY <1>3a, <1>2, <2>1 DEF InBcbs
  <2> QED BY Zenon, <1>8, <2>1, <2>3, <2>4
<1>22. CASE SendOk \/ SendFails
  <2>1. /\ pc = "send" /\ qsend # <<>> /\ UNCHANGED <<calling, closed, closecbs, bcbs, from>> /\ pc' \in {"donecb", "senderrcb"}
    BY Zenon, <1>22 DEF SendOk, SendFails, At
  <2>2. acbs' = acbs \/ acbs' = IF send_iocb_ctx # 0 THEN Append(acbs, [op |-> "stop", node |-> send_iocb_ctx]) ELSE acbs
    BY Zenon, <1>22 DEF SendOk, SendFails
  <2>3. A' => A
    BY Zenon, <1>6, <2>2 DEF TcpType, A
  <2>4. calling = <<>> /\ ~(closecbs > 0) /\ (E => E') /\ (InBcbs => InBcbs')
    BY <1>3a, <1>2, <2>1 DEF InBcbs
  <2> QED BY Zenon, <1>8, <2>1, <2>3, <2>4
<1>23. CASE SendDrained
  <2>1. /\ pc = "send" /\ UNCHANGED <<calling, closed, closecbs, bcbs, from, qsend, itnext>> /\ pc' = AfterSend /\ SendLeave(res, acbs)
    BY <1>23 DEF SendDrained, At
  <2>2. A' => A
    BY Zenon, <1>7, <2>1
  <2>3. from = "bcbs" => pc' = "bcbs"
    BY <2>1 DEF AfterSend
  <2>4. calling = <<>> /\ E' = E /\ (InBcbs => InBcbs')
    BY <1>3a, <1>2, <2>1, <2>3 DEF InBcbs
  <2>5. closecbs > 0 => itnext' = 0 /\ pc' = "bcbs"
    BY <1>2, <2>1, <2>3
  <2> QED BY <1>8, <2>1, <2>2, <2>4, <2>5
<1>24. CASE SendBlocks
  <2>1. pc = "send" /\ qsend # <<>> /\ UNCHANGED <<calling, acbs, closed, closecbs, bcbs, from, qsend>> /\ pc' = AfterSend
    BY Zenon, <1>24 DEF SendBlocks, At, r_ev_io_start
  <2>2. from = "bcbs" => pc' = "bcbs"
    BY <2>1 DEF AfterSend
  <2> QED BY <1>2, <1>9, <2>1, <2>2 DEF InBcbs
<1>25. CASE ErrorIocb
  <2>1. pc = "error" /\ UNCHANGED <<calling, acbs, closed, closecbs, bcbs, qsend>>
    BY <1>25 DEF ErrorIocb, At
  <2> QED BY <1>2, <1>9, <2>1 DEF InBcbs
<1>26. CASE Return
  <2>1. UNCHANGED <<calling, closed, closecbs, bcbs, qsend, from, itnext>>
    BY <1>26 DEF Return
  <2>2. CASE pc = "senderrcb"
    <3>1. pc' = AfterSend /\ SendLeave(res, acbs)
      BY Zenon, <1>26, <2>2 DEF Return
    <3>2. A' => A
      BY Zenon, <1>7, <3>1
    <3>3. from = "bcbs" => pc' = "bcbs"
      BY <3>1 DEF AfterSend
    <3>4. calling = <<>> /\ E' = E /\ ~(closecbs > 0) /\ (InBcbs => InBcbs')
      BY <1>3a, <1>2, <2>1, <2>2, <3>3 DEF InBcbs
    <3> QED BY Zenon, <1>8, <2>1, <3>2, <3>4
  <2>3. CASE pc = "closecb"
    <3>1. pc' = "acbs" /\ acbs' = acbs
      BY <1>26, <2>3 DEF Return
    <3> QED BY <1>2, <1>9, <2>1, <2>3, <3>1 DEF InBcbs
  <2>4. CASE pc = "donecb"
    <3>1. pc' = "send" /\ acbs' = acbs
      BY <1>26, <2>4 DEF Return
    <3> QED BY <1>2, <1>9, <2>1, <2>4, <3>1 DEF InBcbs
  <2>5. CASE pc \in {"recvcb", "eoscb", "errcb"}
    <3>1. acbs' = acbs
      BY <1>26, <2>5 DEF Return
    <3> QED BY <1>2, <1>9, <2>1, <2>5, <3>1 DEF InBcbs
  <2> QED BY Zenon, <1>26, <2>2, <2>3, <2>4, <2>5 DEF Return
<1>27. CASE AcbStop \/ AcbClose
  <2>1. pc = "acbs" /\ calling # <<>> /\ calling' = Tail(calling) /\ UNCHANGED <<acbs, closed, bcbs, qsend, itnext>> /\ pc' \in {"acbs", "closecb"}
    BY Zenon, <1>27 DEF AcbStop, AcbClose, r_ev_io_stop, At
  <2>2. A' = A /\ E' = E /\ InBcbs' /\ (C' => C)
    BY <1>3a, <1>5, <2>1 DEF A, InBcbs
  <2>3. closecbs' = closecbs \/ C
    <3>1. closecbs' = closecbs \/ calling[1].op = "close"
      BY Zenon, <1>27 DEF AcbStop, AcbClose
    <3> QED BY Zenon, <1>1, <2>1, <3>1, HasFacts DEF C
  <2>4. itnext = 0
    BY <2>1 DEF NextAlive, InNode
  <2> QED BY <1>2, <1>3, <2>1, <2>2, <2>3, <2>4
<1>28. CASE r_ev_tcp_finalize_teardown
  <2>1. pc = "acbs" /\ calling # <<>> /\ calling' = Tail(calling) /\ closed' = TRUE /\ UNCHANGED <<bcbs, qsend, itnext, pc, closecbs>>
    BY Zenon, <1>28 DEF r_ev_tcp_finalize_teardown, r_ev_tcp_teardown, StopAndClose, At
  <2>2. E' = E /\ InBcbs' /\ (C' => C)
    BY <1>3a, <1>5, <2>1 DEF InBcbs
  <2> QED BY <1>2, <1>3, <2>1, <2>2
<1>29. CASE Kernel
  <2>1. UNCHANGED <<calling, acbs, closed, closecbs, bcbs, qsend, pc, from, itnext>>
    BY Zenon, <1>29 DEF Kernel, Arrive, PeerEof, Reset, Drain
  <2> QED BY Zenon, <1>10, <2>1
<1>30. CASE UNCHANGED vars
  BY <1>10, <1>30 DEF vars
<1> QED BY <1>11, <1>13, <1>14, <1>15, <1>16, <1>17, <1>18, <1>19, <1>20, <1>21, <1>22, <1>23, <1>24, <1>25, <1>26,
          <1>27, <1>28, <1>29, <1>30 DEF Next, Dispatch, Operation

-----------------------------------------------------------------------------
(***************************************************************************)
(* Close callbacks and nodes are accounted for.                            *)
(***************************************************************************)
Count(b) == IF b THEN 1 ELSE 0

LEMMA CountFacts == Count(TRUE) = 1 /\ Count(FALSE) = 0 /\ \A b \in BOOLEAN : Count(b) \in Nat
BY DEF Count

\* What CloseCbAccounted says of requests, closecbs, superseded, Count(close_cb) and
\* CloseCalls(Queued); it stays true when a request is superseded by the next, and
\* when one is passed on from close_cb to the queue.
Balance(r, c, s, b, n) == r = c + s + b + n

LEMMA Superseded ==
  ASSUME NEW r \in Nat, NEW c \in Nat, NEW s \in Nat, NEW b \in Nat, NEW n \in Nat, Balance(r, c, s, b, n)
  PROVE  Balance(r + 1, c, s + b, 0, n + 1)
BY DEF Balance
LEMMA PassedOn ==
  ASSUME NEW r \in Nat, NEW c \in Nat, NEW s \in Nat, NEW b \in Nat, NEW n \in Nat, Balance(r, c, s, b, n)
  PROVE  Balance(r, c, s, 0, n + b)
BY DEF Balance
LEMMA PlusZero == \A n \in Nat : n + 0 = n
OBVIOUS

LEMMA CallsPush ==
  ASSUME NEW q \in Seq(Items)
  PROVE  /\ \A n \in NodeIds : CloseCalls(Append(q, [op |-> "stop", node |-> n])) = CloseCalls(q)
         /\ CloseCalls(Append(q, [op |-> "finalize"])) = CloseCalls(q)
         /\ \A b \in BOOLEAN : CloseCalls(Append(q, [op |-> "close", call |-> b])) = CloseCalls(q) + Count(b)
         /\ CloseCalls(q) \in Nat
<1>1. CloseCalls(q) \in Nat
  BY CallsFinite
<1>2. ASSUME NEW x \in Items, x.op # "close" PROVE CloseCalls(Append(q, x)) = CloseCalls(q)
  <2>1. ~(x.op = "close" /\ x.call)
    BY <1>2
  <2>2. CloseCalls(Append(q, x)) = CloseCalls(q) + (IF x.op = "close" /\ x.call THEN 1 ELSE 0)
    BY Zenon, CallsAppend
  <2>3. CloseCalls(Append(q, x)) = CloseCalls(q) + 0
    BY Zenon, <2>1, <2>2
  <2> QED BY <1>1, <2>3
<1>3. ASSUME NEW n \in NodeIds PROVE CloseCalls(Append(q, [op |-> "stop", node |-> n])) = CloseCalls(q)
  <2>1. [op |-> "stop", node |-> n] \in Items /\ [op |-> "stop", node |-> n].op # "close"
    BY Zenon, ItemFacts
  <2> QED BY Zenon, <1>2, <2>1
<1>4. CloseCalls(Append(q, [op |-> "finalize"])) = CloseCalls(q)
  <2>1. [op |-> "finalize"] \in Items /\ [op |-> "finalize"].op # "close"
    BY Zenon, ItemFacts
  <2> QED BY Zenon, <1>2, <2>1
<1>5. ASSUME NEW b \in BOOLEAN PROVE CloseCalls(Append(q, [op |-> "close", call |-> b])) = CloseCalls(q) + Count(b)
  <2> DEFINE x == [op |-> "close", call |-> b]
  <2>1. x \in Items /\ x.op = "close" /\ x.call = b
    BY Zenon, ItemFacts
  <2> HIDE DEF x
  <2>2. CloseCalls(Append(q, x)) = CloseCalls(q) + (IF x.op = "close" /\ x.call THEN 1 ELSE 0)
    BY Zenon, <2>1, CallsAppend
  <2>3. CloseCalls(Append(q, x)) = CloseCalls(q) + Count(b)
    BY Zenon, <2>1, <2>2 DEF Count
  <2> QED BY <2>3 DEF x
<1> QED BY <1>1, <1>3, <1>4, <1>5

LEMMA TeardownNamed ==
  ASSUME TcpType, NEW q \in Seq(Items), Named(Ids(iocbq), recv_iocb_ctx, send_iocb_ctx, q),
         StopAndClose(recv_iocb_ctx, send_iocb_ctx)
  PROVE  Named(Ids(iocbq'), 0, 0, q)
<1> DEFINE left == Without(iocbq, recv_iocb_ctx)
<1>1. left \in Seq(Nodes) /\ Ids(iocbq) \ {recv_iocb_ctx} \subseteq Ids(left)
  BY WithoutFacts DEF TcpType
<1>2. iocbq' = Without(left, send_iocb_ctx)
  BY DEF StopAndClose
<1> HIDE DEF left
<1>3. Ids(left) \ {send_iocb_ctx} \subseteq Ids(iocbq')
  BY <1>1, <1>2, WithoutFacts
<1>4. Named(Ids(left), 0, send_iocb_ctx, q)
  BY Zenon, <1>1, NamedStop
<1>5. Named(Ids(left), send_iocb_ctx, 0, q)
  BY Zenon, <1>4, NamedSwap
<1> QED BY Zenon, <1>3, <1>5, NamedStop

LEMMA AccountedStep ==
  ASSUME TcpType, Flushed, NextAlive, Quiet, CloseCbAccounted, NoStaleNode, TcpType', [Next]_vars
  PROVE  CloseCbAccounted' /\ NoStaleNode'
<1> DEFINE Total(q, b) == closecbs + superseded + Count(b) + CloseCalls(q)
           Free(q) == Named(Ids(iocbq), recv_iocb_ctx, send_iocb_ctx, q)
           Goal == CloseCbAccounted' /\ NoStaleNode'
<1> USE DEF evio, kernel, tcp, loop, hist
<1>1. /\ Queued \in Seq(Items) /\ CloseCalls(Queued) \in Nat /\ close_cb \in BOOLEAN
      /\ requests \in Nat /\ closecbs \in Nat /\ superseded \in Nat /\ iocbq \in Seq(Nodes)
      /\ recv_iocb_ctx \in NodeIds \cup {0} /\ send_iocb_ctx \in NodeIds \cup {0}
  BY Zenon, QueuedFacts, CallsPush DEF TcpType
<1>2. ~stale /\ Free(Queued)
  BY Zenon, <1>1, NamedFacts
<1>3. requests = Total(Queued, close_cb)
  BY DEF CloseCbAccounted, Count
<1>4. ASSUME ~stale', Free(Queued)', requests' = closecbs' + superseded' + Count(close_cb') + CloseCalls(Queued')
      PROVE  Goal
  <2>1. CloseCbAccounted'
    BY <1>4 DEF CloseCbAccounted, Count
  <2>2. /\ \A i : i \in Stops' <=> i \in DOMAIN Queued' /\ Queued'[i].op = "stop"
        /\ \A n : n \in Deferred' <=> \E i \in Stops' : Queued'[i].node = n
    BY DEF Stops, Deferred
  <2>3. StopsIn(Queued', Stops', Deferred')
    BY Zenon, <2>2 DEF StopsIn
  <2>4. NoStaleNode'
    <3>1. Apart(Ids(iocbq'), recv_iocb_ctx', send_iocb_ctx', Queued', Stops', Deferred')
      BY Zenon, <1>4, <2>3, NamedMeans
    <3> QED BY Zenon, <1>4, <3>1 DEF NoStaleNode, Apart
  <2> QED BY <2>1, <2>4
\* The callbacks and the nodes stay as they are.
<1>5. ASSUME UNCHANGED <<iocbq, recv_iocb_ctx, send_iocb_ctx, stale, requests, closecbs, superseded, close_cb>>, Queued' = Queued
      PROVE  Goal
  BY <1>2, <1>3, <1>4, <1>5
<1>6. ASSUME UNCHANGED <<iocbq, recv_iocb_ctx, send_iocb_ctx, stale, requests, closecbs, superseded, close_cb, acbs, calling>>
      PROVE  Goal
  <2>1. Queued' = Queued
    BY <1>6 DEF Queued
  <2> QED BY Zenon, <1>5, <1>6, <2>1
\* Only the nodes change.
<1>7. ASSUME UNCHANGED <<stale, requests, closecbs, superseded, close_cb, acbs, calling>>,
             Named(Ids(iocbq'), recv_iocb_ctx', send_iocb_ctx', Queued)
      PROVE  Goal
  <2>1. Queued' = Queued
    BY <1>7 DEF Queued
  <2> QED BY <1>2, <1>3, <1>4, <1>7, <2>1
<1>8. ASSUME NEW id \in NodeIds, FreeId(id), NEW ev \in SUBSET REvIOEvents, r_ev_io_start(id, ev)
      PROVE  Named(Ids(iocbq'), id, send_iocb_ctx, Queued) /\ Named(Ids(iocbq'), recv_iocb_ctx, id, Queued)
  <2>1. id \in NodeIds \ Ids(iocbq)
    BY <1>8 DEF FreeId
  <2>2. Ids(iocbq') = Ids(iocbq) \cup {id}
    BY Zenon, <1>1, <1>8, StartFacts DEF r_ev_io_start
  <2>3. Named(Ids(iocbq) \cup {id}, id, send_iocb_ctx, Queued)
    BY Zenon, <1>2, <2>1, NamedStart
  <2>4. Named(Ids(iocbq), send_iocb_ctx, recv_iocb_ctx, Queued)
    BY Zenon, <1>2, NamedSwap
  <2>5. Named(Ids(iocbq) \cup {id}, id, recv_iocb_ctx, Queued)
    BY Zenon, <2>1, <2>4, NamedStart
  <2>6. Named(Ids(iocbq) \cup {id}, recv_iocb_ctx, id, Queued)
    BY Zenon, <2>5, NamedSwap
  <2> QED BY <2>2, <2>3, <2>6
<1>9. ASSUME r_ev_io_stop(recv_iocb_ctx) PROVE Named(Ids(iocbq'), 0, send_iocb_ctx, Queued)
  <2>1. Ids(iocbq) \ {recv_iocb_ctx} \subseteq Ids(iocbq')
    BY Zenon, <1>1, <1>9, WithoutFacts DEF r_ev_io_stop
  <2> QED BY Zenon, <1>1, <1>2, <2>1, NamedStop
\* A stop is queued for a node of the connection, or there is none.
<1>10. ASSUME NEW n \in NodeIds \cup {0}, calling' = calling, NEW t, Named(Ids(iocbq), n, t, Queued),
              acbs' = IF n # 0 THEN Append(acbs, [op |-> "stop", node |-> n]) ELSE acbs
       PROVE  Named(Ids(iocbq), 0, t, Queued') /\ CloseCalls(Queued') = CloseCalls(Queued)
  <2>1. CASE n = 0
    <3>1. Queued' = Queued
      BY <1>10, <2>1 DEF Queued
    <3> QED BY <1>10, <2>1, <3>1
  <2>2. CASE n # 0
    <3> DEFINE x == [op |-> "stop", node |-> n]
    <3>1. n \in NodeIds /\ x \in Items /\ x.op = "stop" /\ x.node = n
      BY Zenon, <2>2, ItemFacts
    <3>2. Queued' = Append(Queued, x)
      BY Zenon, <1>10, <2>2, <3>1, QueuedFacts
    <3>3. CloseCalls(Queued') = CloseCalls(Queued)
      BY Zenon, <1>1, <3>1, <3>2, CallsPush
    <3> HIDE DEF x
    <3>4. Named(Ids(iocbq), 0, t, Queued')
      BY Zenon, <1>1, <1>10, <3>1, <3>2, NamedPush
    <3> QED BY <3>3, <3>4
  <2> QED BY <2>1, <2>2
\* The tail of the send path.
<1>11. ASSUME NEW r, SendLeave(r, acbs), calling' = calling,
              UNCHANGED <<iocbq, recv_iocb_ctx, send_iocb_ctx, stale, requests, closecbs, superseded, close_cb>>
       PROVE  Goal
  <2>1. CASE acbs' = acbs
    BY Zenon, <1>6, <1>11, <2>1
  <2>2. CASE acbs' = Append(acbs, [op |-> "finalize"])
    <3> DEFINE x == [op |-> "finalize"]
    <3>1. x \in Items /\ x.op # "stop"
      BY Zenon, ItemFacts
    <3>2. Queued' = Append(Queued, x)
      BY Zenon, <1>11, <2>2, <3>1, QueuedFacts
    <3>3. CloseCalls(Queued') = CloseCalls(Queued)
      BY Zenon, <1>1, <3>2, CallsPush
    <3> HIDE DEF x
    <3>4. Free(Queued')
      BY Zenon, <1>1, <1>2, <3>1, <3>2, NamedPush
    <3> QED BY <1>2, <1>3, <1>4, <1>11, <3>3, <3>4
  <2> QED BY Zenon, <1>11, <2>1, <2>2 DEF SendLeave
\* The end of a connection: q is what is left of the callbacks.
<1>12. ASSUME NEW q \in Seq(Items), Free(q), NEW b \in BOOLEAN, StopAndClose(recv_iocb_ctx, send_iocb_ctx),
              recv_iocb_ctx' = 0, send_iocb_ctx' = 0, Queued' = Append(q, [op |-> "close", call |-> b])
       PROVE  Free(Queued)' /\ CloseCalls(Queued') = CloseCalls(q) + Count(b)
  <2> DEFINE x == [op |-> "close", call |-> b]
  <2>1. x \in Items /\ x.op # "stop"
    BY Zenon, ItemFacts
  <2>2. Named(Ids(iocbq'), 0, 0, q)
    BY Zenon, <1>12, TeardownNamed
  <2>3. CloseCalls(Queued') = CloseCalls(q) + Count(b)
    BY Zenon, <1>12, CallsPush
  <2> HIDE DEF x
  <2>4. Queued' = Append(q, x)
    BY <1>12 DEF x
  <2>5. Named(Ids(iocbq'), 0, 0, Queued')
    BY Zenon, <1>12, <2>1, <2>2, <2>4, NamedPush
  <2> QED BY <1>12, <2>3, <2>5
<1>13. CASE r_ev_tcp_recv_start
  <2>1. PICK id \in NodeIds : FreeId(id) /\ r_ev_io_start(id, {Readable}) /\ recv_iocb_ctx' = id
    BY Zenon, <1>13 DEF r_ev_tcp_recv_start
  <2>2. {Readable} \in SUBSET REvIOEvents
    BY DEF REvIOEvents
  <2>3. Named(Ids(iocbq'), id, send_iocb_ctx, Queued)
    BY Zenon, <1>8, <2>1, <2>2
  <2>4. UNCHANGED <<stale, requests, closecbs, superseded, close_cb, acbs, calling, send_iocb_ctx>>
    BY Zenon, <1>13 DEF r_ev_tcp_recv_start
  <2> QED BY <1>7, <2>1, <2>3, <2>4
<1>14. CASE r_ev_tcp_recv_stop
  <2>1. Named(Ids(iocbq'), 0, send_iocb_ctx, Queued)
    BY Zenon, <1>9, <1>14 DEF r_ev_tcp_recv_stop
  <2>2. UNCHANGED <<stale, requests, closecbs, superseded, close_cb, acbs, calling, send_iocb_ctx>> /\ recv_iocb_ctx' = 0
    BY Zenon, <1>14 DEF r_ev_tcp_recv_stop
  <2> QED BY <1>7, <2>1, <2>2
<1>15. CASE r_ev_tcp_send
  <2>1. UNCHANGED <<iocbq, recv_iocb_ctx, send_iocb_ctx, stale, requests, closecbs, superseded, close_cb, acbs, calling>>
    BY Zenon, <1>15 DEF r_ev_tcp_send
  <2> QED BY Zenon, <1>6, <2>1
<1>16. CASE ~sendfailed /\ r_ev_tcp_close
  <2>1. requests' = requests + 1 /\ UNCHANGED <<calling, stale, closecbs, superseded>> /\ ~closing
    BY Zenon, <1>16 DEF r_ev_tcp_close
  <2>2. CASE qsend = <<>>
    <3>1. r_ev_tcp_teardown(acbs, TRUE) /\ close_cb' = close_cb
      BY Zenon, <1>16, <2>2 DEF r_ev_tcp_close
    <3>2. [op |-> "close", call |-> TRUE] \in Items
      BY Zenon, ItemFacts
    <3>3. Queued' = Append(Queued, [op |-> "close", call |-> TRUE])
      BY Zenon, <2>1, <3>1, <3>2, QueuedFacts DEF r_ev_tcp_teardown
    <3>4. Free(Queued)' /\ CloseCalls(Queued') = CloseCalls(Queued) + Count(TRUE)
      BY Zenon, <1>1, <1>2, <1>12, <3>1, <3>3 DEF r_ev_tcp_teardown
    <3>5. CloseCalls(Queued') = CloseCalls(Queued) + 1
      BY <3>4 DEF Count
    <3>6. requests' = closecbs' + superseded' + Count(close_cb') + CloseCalls(Queued')
      BY <1>1, <1>3, <2>1, <3>1, <3>5 DEF Count
    <3>7. ~stale'
      BY <1>2, <2>1
    <3> QED BY Zenon, <1>4, <3>4, <3>6, <3>7
  <2>3. CASE qsend # <<>>
    <3>1. close_cb' = TRUE /\ recv_iocb_ctx' = 0 /\ UNCHANGED <<send_iocb_ctx, acbs>>
      BY Zenon, <1>16, <2>3 DEF r_ev_tcp_close
    <3>2. r_ev_io_stop(recv_iocb_ctx) \/ (recv_iocb_ctx = 0 /\ iocbq' = iocbq)
      BY Zenon, <1>16, <2>3 DEF r_ev_tcp_close
    <3>3. Named(Ids(iocbq'), 0, send_iocb_ctx, Queued)
      BY <1>2, <1>9, <3>2
    <3>4. Queued' = Queued
      BY <2>1, <3>1 DEF Queued
    <3>5. close_cb = FALSE
      BY Zenon, <1>1, <1>16, <2>1, <2>3 DEF Flushed
    <3>6. Count(close_cb') = 1 /\ Count(close_cb) = 0
      BY Zenon, <3>1, <3>5 DEF Count
    <3>7. requests' = closecbs' + superseded' + Count(close_cb') + CloseCalls(Queued')
      BY <1>1, <1>3, <2>1, <3>4, <3>6
    <3> QED BY Zenon, <1>2, <1>4, <2>1, <3>1, <3>3, <3>4, <3>7
  <2> QED BY <2>2, <2>3
<1>17. CASE r_ev_tcp_abort
  <2>1. /\ requests' = requests + 1 /\ superseded' = superseded + Count(close_cb) /\ UNCHANGED <<calling, stale, closecbs>>
        /\ close_cb' = FALSE /\ r_ev_tcp_teardown(acbs, TRUE)
    BY Zenon, <1>17 DEF r_ev_tcp_abort, Count
  <2>2. [op |-> "close", call |-> TRUE] \in Items
    BY Zenon, ItemFacts
  <2>3. Queued' = Append(Queued, [op |-> "close", call |-> TRUE])
    BY Zenon, <2>1, <2>2, QueuedFacts DEF r_ev_tcp_teardown
  <2>4. Free(Queued)' /\ CloseCalls(Queued') = CloseCalls(Queued) + Count(TRUE)
    BY Zenon, <1>1, <1>2, <1>12, <2>1, <2>3 DEF r_ev_tcp_teardown
  <2>5. CloseCalls(Queued') = CloseCalls(Queued) + 1 /\ Count(close_cb') = 0 /\ Count(close_cb) \in Nat
    BY Zenon, <1>1, <2>1, <2>4, CountFacts
  <2>6. requests' = closecbs' + superseded' + Count(close_cb') + CloseCalls(Queued')
    <3>1. Balance(requests, closecbs, superseded, Count(close_cb), CloseCalls(Queued))
      BY Zenon, <1>3 DEF Balance
    <3>2. Balance(requests + 1, closecbs, superseded + Count(close_cb), 0, CloseCalls(Queued) + 1)
      BY Zenon, <1>1, <2>5, <3>1, Superseded
    <3>3. Balance(requests', closecbs', superseded', Count(close_cb'), CloseCalls(Queued'))
      BY Zenon, <2>1, <2>5, <3>2
    <3> QED BY Zenon, <3>3 DEF Balance
  <2>7. ~stale'
    BY <1>2, <2>1
  <2> QED BY Zenon, <1>4, <2>4, <2>6, <2>7
<1>18. CASE UserEnd \/ SendEv \/ BcbsEnd \/ PollEvents \/ PollOther \/ AcbsEnd
  <2>1. UNCHANGED <<iocbq, recv_iocb_ctx, send_iocb_ctx, stale, requests, closecbs, superseded, close_cb, acbs, calling>>
    BY Zenon, <1>18 DEF UserEnd, SendEv, BcbsEnd, PollEvents, PollOther, AcbsEnd
  <2> QED BY Zenon, <1>6, <2>1
<1>19. CASE WaitBegin \/ ErrorIocb \/ RecvData \/ RecvBlocks \/ SendOk
  <2>1. UNCHANGED <<iocbq, recv_iocb_ctx, send_iocb_ctx, stale, requests, closecbs, superseded, close_cb, acbs, calling>>
    BY Zenon, <1>19 DEF WaitBegin, ApplyChanges, ErrorIocb, RecvData, RecvBlocks, SendOk
  <2> QED BY Zenon, <1>6, <2>1
<1>20. CASE InvokeIocb
  <2>1. stale' = stale
    BY Zenon, <1>20 DEF InvokeIocb, NextAlive
  <2>2. UNCHANGED <<iocbq, recv_iocb_ctx, send_iocb_ctx, requests, closecbs, superseded, close_cb, acbs, calling>>
    BY Zenon, <1>20 DEF InvokeIocb
  <2> QED BY Zenon, <1>6, <2>1, <2>2
<1>21. CASE InvokeEnd
  <2>1. UNCHANGED <<iocbq, recv_iocb_ctx, send_iocb_ctx, stale, requests, closecbs, superseded, close_cb>> /\ pc = "node"
        /\ calling' = acbs /\ acbs' = <<>>
    BY <1>21 DEF InvokeEnd, At
  <2>2. calling = <<>>
    BY <2>1 DEF Quiet
  <2>3. Queued' = Queued
    BY Zenon, <2>1, <2>2, QueuedFacts
  <2> QED BY Zenon, <1>5, <2>1, <2>3
<1>22. CASE RecvClosed \/ RecvEnd
  <2>1. UNCHANGED <<iocbq, send_iocb_ctx, stale, requests, closecbs, superseded, close_cb, calling>>
    BY Zenon, <1>22 DEF RecvClosed, RecvEnd
  <2>2. CASE UNCHANGED <<acbs, recv_iocb_ctx>>
    BY Zenon, <1>6, <2>1, <2>2
  <2>3. CASE r_ev_tcp_recv_teardown
    <3>1. recv_iocb_ctx' = 0 /\ acbs' = IF recv_iocb_ctx # 0 THEN Append(acbs, [op |-> "stop", node |-> recv_iocb_ctx]) ELSE acbs
      BY <2>3 DEF r_ev_tcp_recv_teardown
    <3>2. Named(Ids(iocbq), 0, send_iocb_ctx, Queued') /\ CloseCalls(Queued') = CloseCalls(Queued)
      BY Zenon, <1>1, <1>2, <1>10, <2>1, <3>1
    <3> QED BY Zenon, <1>2, <1>3, <1>4, <2>1, <3>1, <3>2
  <2> QED BY Zenon, <1>22, <2>2, <2>3 DEF RecvClosed, RecvEnd
<1>23. CASE SendDrained \/ Return
  <2>1. UNCHANGED <<iocbq, recv_iocb_ctx, send_iocb_ctx, stale, requests, closecbs, superseded, close_cb, calling>>
    BY Zenon, <1>23 DEF SendDrained, Return
  <2>2. SendLeave(res, acbs) \/ acbs' = acbs
    BY Zenon, <1>23 DEF SendDrained, Return
  <2> QED BY Zenon, <1>6, <1>11, <2>1, <2>2
<1>24. CASE SendBlocks
  <2>1. UNCHANGED <<stale, requests, closecbs, superseded, close_cb, acbs, calling, recv_iocb_ctx>>
    BY Zenon, <1>24 DEF SendBlocks
  <2>2. CASE UNCHANGED <<iocbq, send_iocb_ctx>>
    BY Zenon, <1>6, <2>1, <2>2
  <2>3. CASE \E id \in NodeIds : FreeId(id) /\ r_ev_io_start(id, {Writable}) /\ send_iocb_ctx' = id
    <3>1. PICK id \in NodeIds : FreeId(id) /\ r_ev_io_start(id, {Writable}) /\ send_iocb_ctx' = id
      BY Zenon, <2>3
    <3>2. {Writable} \in SUBSET REvIOEvents
      BY DEF REvIOEvents
    <3>3. Named(Ids(iocbq'), recv_iocb_ctx, id, Queued)
      BY Zenon, <1>8, <3>1, <3>2
    <3> QED BY <1>7, <2>1, <3>1, <3>3
  <2> QED BY Zenon, <1>24, <2>2, <2>3 DEF SendBlocks
<1>25. CASE SendFails
  <2>1. /\ UNCHANGED <<iocbq, recv_iocb_ctx, stale, requests, closecbs, superseded, close_cb, calling>> /\ send_iocb_ctx' = 0
        /\ acbs' = IF send_iocb_ctx # 0 THEN Append(acbs, [op |-> "stop", node |-> send_iocb_ctx]) ELSE acbs
    BY Zenon, <1>25 DEF SendFails
  <2>2. Named(Ids(iocbq), send_iocb_ctx, recv_iocb_ctx, Queued)
    BY Zenon, <1>2, NamedSwap
  <2>3. Named(Ids(iocbq), 0, recv_iocb_ctx, Queued') /\ CloseCalls(Queued') = CloseCalls(Queued)
    BY Zenon, <1>1, <1>10, <2>1, <2>2
  <2>4. Named(Ids(iocbq), recv_iocb_ctx, 0, Queued')
    BY Zenon, <2>3, NamedSwap
  <2> QED BY Zenon, <1>2, <1>3, <1>4, <2>1, <2>3, <2>4
<1>26. ASSUME calling # <<>> PROVE CloseCalls(Queued) = CloseCalls(Tail(Queued)) + Count(calling[1].op = "close" /\ calling[1].call)
  <2>1. Queued # <<>> /\ Queued[1] = calling[1]
    BY Zenon, <1>26, QueuedFacts
  <2> QED BY Zenon, <1>1, <2>1, CallsTail DEF Count
<1>27. CASE AcbStop
  <2>1. /\ UNCHANGED <<recv_iocb_ctx, send_iocb_ctx, stale, requests, closecbs, superseded, close_cb, acbs>>
        /\ calling # <<>> /\ calling[1].op = "stop" /\ calling' = Tail(calling) /\ iocbq' = Without(iocbq, calling[1].node)
    BY Zenon, <1>27 DEF AcbStop, r_ev_io_stop
  <2>2. Queued # <<>> /\ Queued[1] = calling[1] /\ Queued' = Tail(Queued) /\ Tail(Queued) \in Seq(Items)
    BY Zenon, <2>1, QueuedFacts
  <2>3. Ids(iocbq) \ {Queued[1].node} \subseteq Ids(iocbq')
    <3>1. Ids(iocbq) \ {calling[1].node} \subseteq Ids(Without(iocbq, calling[1].node))
      BY Zenon, <1>1, WithoutFacts
    <3> QED BY Zenon, <2>1, <2>2, <3>1
  <2>4. Named(Ids(iocbq'), recv_iocb_ctx, send_iocb_ctx, Queued')
    BY Zenon, <1>1, <1>2, <2>1, <2>2, <2>3, NamedTail
  <2>5. Count(calling[1].op = "close" /\ calling[1].call) = 0
    BY Zenon, <2>1 DEF Count
  <2>6. CloseCalls(Tail(Queued)) \in Nat
    BY Zenon, <2>2, CallsPush
  <2>7. CloseCalls(Queued') = CloseCalls(Queued)
    <3>1. CloseCalls(Queued) = CloseCalls(Tail(Queued)) + 0
      BY Zenon, <1>26, <2>1, <2>5
    <3> QED BY Zenon, <2>2, <2>6, <3>1, PlusZero
  <2> QED BY Zenon, <1>2, <1>3, <1>4, <2>1, <2>4, <2>7
<1>28. CASE AcbClose
  <2>1. /\ UNCHANGED <<iocbq, recv_iocb_ctx, send_iocb_ctx, stale, requests, superseded, close_cb, acbs>>
        /\ calling # <<>> /\ calling[1].op = "close" /\ calling' = Tail(calling)
    BY Zenon, <1>28 DEF AcbClose
  <2>2. Queued # <<>> /\ Queued[1] = calling[1] /\ Queued' = Tail(Queued) /\ Tail(Queued) \in Seq(Items)
    BY Zenon, <2>1, QueuedFacts
  <2>3. Named(Ids(iocbq), recv_iocb_ctx, send_iocb_ctx, Queued')
    BY Zenon, <1>1, <1>2, <2>2, NamedTail
  <2>4. CloseCalls(Queued') \in Nat
    BY Zenon, <2>2, CallsPush
  <2>5. closecbs' = closecbs + Count(calling[1].call)
    <3>1. calling[1].call => closecbs' = closecbs + 1
      BY Zenon, <1>28 DEF AcbClose
    <3>2. ~calling[1].call => closecbs' = closecbs
      BY Zenon, <1>28 DEF AcbClose
    <3> QED BY <1>1, <3>1, <3>2 DEF Count
  <2>6. Count(calling[1].op = "close" /\ calling[1].call) = Count(calling[1].call) /\ Count(calling[1].call) \in Nat
    BY Zenon, <2>1 DEF Count
  <2>7. requests' = closecbs' + superseded' + Count(close_cb') + CloseCalls(Queued')
    <3>1. CloseCalls(Queued) = CloseCalls(Queued') + Count(calling[1].call)
      BY Zenon, <1>26, <2>1, <2>2, <2>6
    <3>2. Count(close_cb) \in Nat
      BY DEF Count
    <3>3. requests' = requests /\ superseded' = superseded /\ Count(close_cb') = Count(close_cb)
      BY Zenon, <2>1
    <3> DEFINE k == Count(calling[1].call)
               c == Count(close_cb)
               n == CloseCalls(Queued')
               m == CloseCalls(Queued)
    <3>4. k \in Nat /\ c \in Nat /\ n \in Nat /\ m = n + k /\ closecbs' = closecbs + k
      BY Zenon, <2>4, <2>5, <2>6, <3>1, <3>2
    <3>5. requests = closecbs + superseded + c + m
      BY <1>3
    <3> HIDE DEF k, c, n, m
    <3>6. requests = (closecbs + k) + superseded + c + n
      BY <1>1, <3>4, <3>5
    <3> QED BY <3>3, <3>4, <3>6 DEF c, n
  <2> QED BY Zenon, <1>2, <1>4, <2>1, <2>3, <2>7
<1>29. CASE r_ev_tcp_finalize_teardown
  <2>1. /\ UNCHANGED <<stale, requests, superseded, closecbs>> /\ close_cb' = FALSE /\ r_ev_tcp_teardown(acbs, close_cb)
        /\ calling # <<>> /\ calling[1].op = "finalize" /\ calling' = Tail(calling)
    BY Zenon, <1>29 DEF r_ev_tcp_finalize_teardown
  <2>2. [op |-> "close", call |-> close_cb] \in Items
    BY Zenon, <1>1, ItemFacts
  <2>3. Queued # <<>> /\ Queued[1] = calling[1] /\ Tail(Queued) \in Seq(Items) /\ Queued' = Append(Tail(Queued), [op |-> "close", call |-> close_cb])
    BY Zenon, <2>1, <2>2, QueuedFacts DEF r_ev_tcp_teardown
  <2>4. Free(Tail(Queued))
    BY Zenon, <1>1, <1>2, <2>3, NamedTail
  <2>5. Free(Queued)' /\ CloseCalls(Queued') = CloseCalls(Tail(Queued)) + Count(close_cb)
    BY Zenon, <1>1, <1>12, <2>1, <2>3, <2>4 DEF r_ev_tcp_teardown
  <2>6. Count(calling[1].op = "close" /\ calling[1].call) = 0 /\ Count(close_cb') = 0 /\ Count(close_cb) \in Nat
    BY Zenon, <2>1 DEF Count
  <2>7. CloseCalls(Tail(Queued)) \in Nat
    BY Zenon, <2>3, CallsPush
  <2>8. CloseCalls(Queued) = CloseCalls(Tail(Queued))
    <3>1. CloseCalls(Queued) = CloseCalls(Tail(Queued)) + 0
      BY Zenon, <1>26, <2>1, <2>6
    <3> QED BY Zenon, <2>7, <3>1, PlusZero
  <2>9. requests' = closecbs' + superseded' + Count(close_cb') + CloseCalls(Queued')
    <3>1. CloseCalls(Queued') = CloseCalls(Queued) + Count(close_cb)
      BY Zenon, <2>5, <2>8
    <3>2. Balance(requests, closecbs, superseded, Count(close_cb), CloseCalls(Queued))
      BY Zenon, <1>3 DEF Balance
    <3>3. Balance(requests, closecbs, superseded, 0, CloseCalls(Queued) + Count(close_cb))
      BY Zenon, <1>1, <2>6, <3>2, PassedOn
    <3>4. Balance(requests', closecbs', superseded', Count(close_cb'), CloseCalls(Queued'))
      BY Zenon, <2>1, <2>6, <3>1, <3>3
    <3> QED BY Zenon, <3>4 DEF Balance
  <2>10. ~stale'
    BY Zenon, <1>2, <2>1
  <2> QED BY Zenon, <1>4, <2>5, <2>9, <2>10
<1>30. CASE Kernel
  <2>1. UNCHANGED <<iocbq, recv_iocb_ctx, send_iocb_ctx, stale, requests, closecbs, superseded, close_cb, acbs, calling>>
    BY Zenon, <1>30 DEF Kernel, Arrive, PeerEof, Reset, Drain
  <2> QED BY Zenon, <1>6, <2>1
<1>31. CASE UNCHANGED vars
  BY Zenon, <1>6, <1>31 DEF vars
<1> QED BY Zenon, <1>13, <1>14, <1>15, <1>16, <1>17, <1>18, <1>19, <1>20, <1>21, <1>22, <1>23, <1>24, <1>25, <1>27, <1>28,
          <1>29, <1>30, <1>31 DEF Next, Dispatch, Operation

-----------------------------------------------------------------------------
(***************************************************************************)
(* The theorems about the end of a connection.                             *)
(***************************************************************************)
LEMMA CloseInit == Init => CloseInv
<1> SUFFICES ASSUME Init PROVE CloseInv
  OBVIOUS
<1>1. Queued = <<>>
  BY DEF Init, Queued
<1>2. TcpType
  <2>1. closed = FALSE /\ shut = FALSE /\ broken = FALSE /\ sockclosed = FALSE /\ closing = FALSE /\ close_cb = FALSE /\ sendfailed = FALSE
    BY DEF Init, r_ev_io_init
  <2>2. /\ closed \in BOOLEAN /\ shut \in BOOLEAN /\ broken \in BOOLEAN /\ sockclosed \in BOOLEAN
        /\ closing \in BOOLEAN /\ close_cb \in BOOLEAN /\ sendfailed \in BOOLEAN
    BY Zenon, <2>1
  <2>3. iocbq = <<>> /\ qsend = <<>> /\ acbs = <<>> /\ calling = <<>>
    BY DEF Init, r_ev_io_init
  <2>4. iocbq \in Seq(Nodes) /\ qsend \in Seq(1 .. MaxSend) /\ acbs \in Seq(Items) /\ calling \in Seq(Items)
    BY <2>3
  <2>5. /\ recv_iocb_ctx = 0 /\ send_iocb_ctx = 0 /\ pc \in Places /\ from \in {"bcbs", "node"} /\ itnext = 0
        /\ nsend \in Nat /\ requests \in Nat /\ closecbs \in Nat /\ superseded \in Nat /\ room \in Nat
    BY EvTCPAssumption DEF Init, Places, Callbacks
  <2>6. bcbs \in Bcbs
    BY DEF Init, Bcbs
  <2> QED BY <2>2, <2>4, <2>5, <2>6 DEF TcpType
<1>3. ~Has(<<>>, "close") /\ ~Has(<<>>, "finalize")
  BY DEF Has
<1>4. Requested /\ Flushed /\ NextAlive /\ Quiet
  <2>1. /\ shut = FALSE /\ closing = FALSE /\ closed = FALSE /\ close_cb = FALSE /\ sockclosed = FALSE
        /\ qsend = <<>> /\ acbs = <<>> /\ calling = <<>> /\ itnext = 0 /\ pc = "user"
    BY Zenon DEF Init, r_ev_io_init
  <2>2. ~(closecbs > 0)
    BY DEF Init
  <2>3. Requested /\ NextAlive
    BY Zenon, <2>1 DEF Requested, NextAlive
  <2>4. Flushed
    BY Zenon, <1>1, <1>3, <2>1 DEF Flushed
  <2>5. Quiet
    BY Zenon, <1>3, <2>1, <2>2 DEF Quiet
  <2> QED BY <2>3, <2>4, <2>5
<1>5. CloseCbAccounted
  <2>1. CloseCalls(<<>>) = 0
    <3>1. CallAt(<<>>) = {}
      BY DEF CallAt
    <3> QED BY <3>1, FS_EmptySet DEF CloseCalls, CallAt
  <2> QED BY <1>1, <2>1 DEF Init, CloseCbAccounted
<1>6. NoStaleNode
  <2>1. recv_iocb_ctx = 0 /\ send_iocb_ctx = 0
    BY Zenon DEF Init
  <2>2. Named(Ids(iocbq), recv_iocb_ctx, send_iocb_ctx, Queued)
    BY Zenon, <1>1, <2>1, NamedEmpty
  <2> QED BY Zenon, <1>2, <2>2, NamedFacts DEF Init, TcpType
<1> QED BY <1>2, <1>4, <1>5, <1>6 DEF CloseInv

LEMMA CloseStep == CloseInv /\ [Next]_vars => CloseInv'
<1> SUFFICES ASSUME CloseInv, [Next]_vars PROVE CloseInv'
  OBVIOUS
<1>1. TcpType /\ Requested /\ Flushed /\ NextAlive /\ Quiet /\ CloseCbAccounted /\ NoStaleNode
  BY DEF CloseInv
<1>2. TcpType'
  BY <1>1, TypeStep
<1>3. Requested' /\ Flushed'
  BY <1>1, FlushedStep
<1>4. NextAlive'
  BY <1>1, AliveStep
<1>5. Quiet'
  BY <1>1, QuietStep
<1>6. CloseCbAccounted' /\ NoStaleNode'
  BY <1>1, <1>2, AccountedStep
<1> QED BY <1>2, <1>3, <1>4, <1>5, <1>6 DEF CloseInv

LEMMA AlwaysCloseInv == Spec => []CloseInv
BY CloseInit, CloseStep, PTL DEF Spec

LEMMA QuietMeans == CloseInv => CloseCbAccounted /\ QuietAfterClose /\ NoStaleNode
BY DEF CloseInv, Quiet, QuietAfterClose

\* Whatever the program sends, receives, stops, closes and aborts in its
\* callbacks, and whatever the peer and the kernel do: every r_ev_tcp_close and
\* r_ev_tcp_abort that was accepted has its callback called once or is superseded
\* by an abort, no other callback of the connection follows it, and a node that
\* r_ev_io_stop has freed is not used again.
THEOREM ClosesOnce == Spec => [](CloseCbAccounted /\ QuietAfterClose /\ NoStaleNode)
BY AlwaysCloseInv, QuietMeans, PTL

-----------------------------------------------------------------------------
(***************************************************************************)
(* The theorems about the data, for buffers that the kernel takes whole.   *)
(* With a larger BufSize the send path loses the rest of a short write.    *)
(***************************************************************************)
DataInv == DataInOrder /\ (~sockclosed => Len(qsend) <= nsend)

LEMMA WholeChunks ==
  ASSUME BufSize = 1, NEW n \in Nat
  PROVE  AllChunks(n) = [k \in 1 .. n |-> <<k, 1>>] /\ Len(AllChunks(n)) = n
<1>1. n * BufSize = n
  OBVIOUS
<1>2. \A k \in 1 .. n : 1 + ((k - 1) \div BufSize) = k /\ 1 + ((k - 1) % BufSize) = 1
  OBVIOUS
<1>3. AllChunks(n) = [k \in 1 .. n |-> <<k, 1>>]
  BY <1>1, <1>2 DEF AllChunks
<1> QED BY <1>3

LEMMA Extended ==
  ASSUME NEW n \in Nat, NEW c
  PROVE  [k \in 1 .. n |-> c[k]] \o <<c[n + 1]>> = [k \in 1 .. n + 1 |-> c[k]]
OBVIOUS

LEMMA DataStep ==
  ASSUME BufSize = 1, TcpType, DataInv, [Next]_vars
  PROVE  DataInv'
<1> DEFINE taken == nsend - Len(qsend)
<1> USE DEF evio, kernel, tcp, loop, hist
<1>1. nsend \in Nat /\ qsend \in Seq(1 .. MaxSend) /\ Len(qsend) \in Nat /\ room \in Nat
  BY DEF TcpType
<1>2. ASSUME UNCHANGED <<sockclosed, wire, qsend, nsend>> PROVE DataInv'
  BY <1>2 DEF DataInv, DataInOrder, AllChunks
<1>3. ASSUME sockclosed' PROVE DataInv'
  BY <1>3 DEF DataInv, DataInOrder
<1>4. ASSUME ~sockclosed
      PROVE  taken \in Nat /\ wire = AllChunks(taken) /\ \A i \in 1 .. Len(qsend) : qsend[i] = taken + i
  <2>1. Len(qsend) <= nsend
    BY <1>4 DEF DataInv
  <2>2. wire = AllChunks(taken) /\ qsend = [i \in 1 .. Len(qsend) |-> taken + i]
    BY <1>4 DEF DataInv, DataInOrder
  <2> QED BY <1>1, <2>1, <2>2
<1> HIDE DEF taken
<1>5. CASE r_ev_tcp_send
  <2>1. CASE sockclosed
    BY Zenon, <1>3, <1>5, <2>1 DEF r_ev_tcp_send
  <2>2. CASE ~sockclosed
    <3>1. nsend' = nsend + 1 /\ qsend' = Append(qsend, nsend + 1) /\ wire' = wire
      BY <1>5 DEF r_ev_tcp_send
    <3>2. Len(qsend') = Len(qsend) + 1 /\ nsend' - Len(qsend') = taken /\ Len(qsend') <= nsend' /\ qsend' \in Seq(Nat)
      BY <1>1, <1>4, <2>2, <3>1 DEF taken
    <3>3. ASSUME NEW i \in 1 .. Len(qsend') PROVE qsend'[i] = taken + i
      <4>1. CASE i \in 1 .. Len(qsend)
        BY <1>1, <1>4, <2>2, <3>1, <4>1
      <4>2. CASE i = Len(qsend) + 1
        <5>1. qsend'[i] = nsend + 1
          BY <1>1, <3>1, <4>2
        <5> QED BY <1>1, <4>2, <5>1 DEF taken
      <4> QED BY <1>1, <3>2, <4>1, <4>2
    <3>4. qsend' = [i \in 1 .. Len(qsend') |-> taken + i]
      BY <3>2, <3>3
    <3>5. wire' = AllChunks(taken)
      BY <1>4, <2>2, <3>1
    <3> QED BY <3>2, <3>4, <3>5 DEF DataInv, DataInOrder, AllChunks
  <2> QED BY <2>1, <2>2
<1>6. CASE SendOk
  <2>1. qsend # <<>> /\ ~sockclosed /\ room > 0 /\ qsend' = Tail(qsend) /\ nsend' = nsend
    BY Zenon, <1>6 DEF SendOk
  <2>2. wire' = wire \o Chunks(Head(qsend), IF room < BufSize THEN room ELSE BufSize)
    BY Zenon, <1>6 DEF SendOk
  <2>3. (IF room < BufSize THEN room ELSE BufSize) = 1
    BY <1>1, <2>1
  <2>4. Head(qsend) = taken + 1 /\ taken \in Nat
    BY <1>1, <1>4, <2>1
  <2>5. wire' = wire \o <<<<taken + 1, 1>>>>
    <3>1. Chunks(taken + 1, 1) = <<<<taken + 1, 1>>>>
      BY DEF Chunks
    <3> QED BY Zenon, <2>2, <2>3, <2>4, <3>1
  <2>6. wire = [k \in 1 .. taken |-> <<k, 1>>]
    BY Zenon, <1>4, <2>1, <2>4, WholeChunks
  <2>7. wire' = AllChunks(taken + 1)
    <3> DEFINE c == [k \in Nat |-> <<k, 1>>]
               n == taken + 1
    <3>1. n \in Nat
      BY <2>4
    <3>2. AllChunks(n) = [k \in 1 .. n |-> <<k, 1>>]
      BY Zenon, <3>1, WholeChunks
    <3>3. [k \in 1 .. n |-> <<k, 1>>] = [k \in 1 .. n |-> c[k]] /\ [k \in 1 .. taken |-> <<k, 1>>] = [k \in 1 .. taken |-> c[k]]
      BY <2>4, <3>1
    <3>4. <<taken + 1, 1>> = c[taken + 1]
      BY <3>1
    <3> HIDE DEF c
    <3>5. [k \in 1 .. taken |-> c[k]] \o <<c[taken + 1]>> = [k \in 1 .. taken + 1 |-> c[k]]
      BY Zenon, <2>4, Extended
    <3> QED BY Zenon, <2>5, <2>6, <3>2, <3>3, <3>4, <3>5
  <2>8. Len(qsend') = Len(qsend) - 1 /\ nsend' - Len(qsend') = taken + 1 /\ Len(qsend') <= nsend' /\ qsend' \in Seq(1 .. MaxSend)
    <3>1. Len(qsend') = Len(qsend) - 1 /\ qsend' \in Seq(1 .. MaxSend)
      BY <1>1, <2>1
    <3>2. taken = nsend - Len(qsend)
      BY DEF taken
    <3> QED BY <1>1, <2>1, <2>4, <3>1, <3>2
  <2>9. \A i \in 1 .. Len(qsend') : qsend'[i] = (taken + 1) + i
    BY <1>1, <1>4, <2>1, <2>4, <2>8
  <2>10. qsend' = [i \in 1 .. Len(qsend') |-> (taken + 1) + i]
    BY <2>8, <2>9
  <2> QED BY <2>7, <2>8, <2>10 DEF DataInv, DataInOrder, AllChunks
<1>7. CASE r_ev_tcp_abort
  BY <1>3, <1>7 DEF r_ev_tcp_abort
<1>8. CASE r_ev_tcp_recv_start \/ r_ev_tcp_recv_stop \/ r_ev_tcp_close
  BY Zenon, <1>2, <1>8 DEF r_ev_tcp_recv_start, r_ev_tcp_recv_stop, r_ev_tcp_close
<1>9. CASE UserEnd \/ SendEv \/ BcbsEnd \/ WaitBegin \/ PollEvents \/ PollOther \/ InvokeIocb \/ InvokeEnd
  BY Zenon, <1>2, <1>9 DEF UserEnd, SendEv, BcbsEnd, WaitBegin, PollEvents, PollOther, InvokeIocb, InvokeEnd
<1>10. CASE RecvClosed \/ RecvData \/ RecvEnd \/ RecvBlocks
  BY Zenon, <1>2, <1>10 DEF RecvClosed, RecvData, RecvEnd, RecvBlocks
<1>11. CASE SendDrained \/ SendBlocks \/ SendFails \/ ErrorIocb \/ Return
  BY Zenon, <1>2, <1>11 DEF SendDrained, SendBlocks, SendFails, ErrorIocb, Return
<1>12. CASE AcbStop \/ r_ev_tcp_finalize_teardown \/ AcbClose \/ AcbsEnd
  BY Zenon, <1>2, <1>12 DEF AcbStop, r_ev_tcp_finalize_teardown, AcbClose, AcbsEnd
<1>13. CASE Kernel
  BY Zenon, <1>2, <1>13 DEF Kernel, Arrive, PeerEof, Reset, Drain
<1>14. CASE UNCHANGED vars
  BY Zenon, <1>2, <1>14 DEF vars
<1> QED BY <1>5, <1>6, <1>7, <1>8, <1>9, <1>10, <1>11, <1>12, <1>13, <1>14 DEF Next, Dispatch, Operation

LEMMA AlwaysDataInv ==
  ASSUME BufSize = 1
  PROVE  Spec => []DataInv
<1>1. Init => DataInv
  <2> SUFFICES ASSUME Init PROVE DataInv
    OBVIOUS
  <2>1. nsend = 0 /\ qsend = <<>> /\ wire = <<>>
    BY DEF Init
  <2>2. AllChunks(0) = <<>>
    BY WholeChunks
  <2> QED BY <2>1, <2>2 DEF DataInv, DataInOrder
<1>2. CloseInv /\ DataInv /\ [Next]_vars => DataInv'
  BY DataStep DEF CloseInv
<1> QED BY <1>1, <1>2, AlwaysCloseInv, PTL DEF Spec

\* Until the connection is aborted the kernel has taken the first buffers that
\* r_ev_tcp_send accepted, in their order, and the others are queued, for any
\* number of buffers and any room, when each send takes the buffer whole.
THEOREM TcpDataInOrder == BufSize = 1 => (Spec => []DataInOrder)
<1> SUFFICES ASSUME BufSize = 1 PROVE Spec => []DataInOrder
  OBVIOUS
<1>1. DataInv => DataInOrder
  BY DEF DataInv
<1> QED BY <1>1, AlwaysDataInv, PTL

\* A connection whose buffers are taken whole ends in order: what was queued
\* before r_ev_tcp_close is given to the kernel before the FIN, every close has
\* its callback, nothing of the connection runs after it and no freed node is used.
THEOREM TcpClosesCleanly == BufSize = 1 => (Spec => []ClosesCleanly)
<1> SUFFICES ASSUME BufSize = 1 PROVE Spec => []ClosesCleanly
  OBVIOUS
<1>1. CloseInv /\ DataInv => FlushBeforeFin
  <2> SUFFICES ASSUME CloseInv, DataInv, shut, ~broken, ~sockclosed PROVE Len(wire) = nsend * BufSize
    BY DEF FlushBeforeFin
  <2>1. qsend = <<>> /\ nsend \in Nat
    BY DEF CloseInv, Flushed, TcpType
  <2>2. wire = AllChunks(nsend)
    BY <2>1 DEF DataInv, DataInOrder
  <2> QED BY <2>1, <2>2, WholeChunks
<1>2. CloseInv /\ DataInv => ClosesCleanly
  BY <1>1, QuietMeans DEF ClosesCleanly
<1> QED BY <1>2, AlwaysCloseInv, AlwaysDataInv, PTL
=============================================================================
