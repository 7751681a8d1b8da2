---------------------------- MODULE EvUDPProofs -----------------------------
(***************************************************************************)
(* Theorems about EvUDP, on both backends, for any number of datagrams in  *)
(* both directions, any room in the kernel and any number of failures.     *)
(***************************************************************************)
EXTENDS EvUDP, TLAPS

\* The instances considered: a node for the watcher, and bounds that are numbers.
UdpAssumption == NodeIds # {} /\ MaxFail \in Nat /\ Room \in Nat

-----------------------------------------------------------------------------
(***************************************************************************)
(* The inductive invariant.                                                *)
(***************************************************************************)
Ops == {"none", "armed", "ok", "failed", "aborted"}
Results == {"flight", "ok", "failed"}

Source ==
  [backend : Backends, qsend : Seq(Nat), bcbs : Nat, refs : Int, recv_iocb_ctx : {0, Node},
   recv_data : {"none", "set", "released"}, iocp_recv_active : BOOLEAN, iocp_associated : BOOLEAN,
   ctx : Nat, ret : {"user", "recv", "send", "post", "rearm"}]

KernelState == [inq : Nat, room : Int, soerr : BOOLEAN, rop : Ops, sops : Seq(Results)]

History ==
  [nsend : Nat, nrecv : Nat, held : BOOLEAN, sent : Seq(Nat), done : Seq(Nat), dropped : Seq(Nat),
   notified : Seq(Nat), blocked : BOOLEAN, undrained : BOOLEAN, late : BOOLEAN]

UdpType ==
  /\ s \in Source /\ k \in KernelState /\ h \in History
  /\ pc \in {"user", "bcbs", "poll", "recv", "recvcb", "error", "send", "donecb"}

\* Where a callback returns to, and what is known there.
Returns ==
  /\ pc = "recvcb" => s.ret \in {"recv", "rearm"}
  /\ pc = "donecb" => s.ret \in {"send", "post"}
  /\ pc \notin {"recvcb", "donecb"} => s.ret = "user"
  /\ s.ret \in {"post", "rearm"} => Iocp
  /\ s.ret = "recv" => ~Iocp
  /\ s.ret = "rearm" => k.rop = "none"
  /\ s.ctx # 0 <=> pc = "donecb"

\* The receive side: the watcher's node is registered exactly while the program
\* receives, and an overlapped receive belongs to the completion backend.
Watched ==
  /\ iocbq = IF s.recv_iocb_ctx = 0 THEN <<>> ELSE <<[id |-> Node, events |-> {Readable}]>>
  /\ events \subseteq {Readable} /\ ~closed /\ handle
  /\ edge \in BOOLEAN /\ changing \in BOOLEAN
  /\ Iocp => events = {} /\ s.recv_iocb_ctx = 0
  /\ s.recv_iocb_ctx # 0 => h.held /\ s.recv_data = "set" /\ (changing \/ Readable \in events)
  /\ pc \in {"recv", "error"} \/ (pc = "recvcb" /\ ~Iocp) => s.recv_iocb_ctx # 0
  /\ k.inq > 0 /\ Readable \in events => h.undrained \/ edge \/ pc \in {"recv", "recvcb"}
  /\ k.rop # "none" \/ s.iocp_associated \/ s.iocp_recv_active => Iocp
  /\ s.iocp_recv_active => h.held /\ k.rop # "aborted" /\ (k.rop # "none" \/ pc = "recvcb")
  /\ ~h.late

\* The send side of the completion backend has one of: its callback queued or
\* running, one operation for the datagram at the head of the queue, neither.
OneSender ==
  /\ k.sops # <<>> => Iocp /\ Len(k.sops) = 1 /\ s.qsend # <<>>
  /\ Iocp /\ (s.qsend = <<>> \/ k.sops # <<>> \/ pc \in {"send", "donecb"}) => s.bcbs = 0
  /\ Iocp => s.bcbs <= 1
  /\ pc \in {"send", "donecb"} => k.sops = <<>>
  /\ s.qsend # <<>> => h.blocked \/ s.bcbs > 0 \/ pc \in {"send", "donecb"} \/ k.sops # <<>>
  /\ s.refs = 0 => s.qsend = <<>>

\* The numbers that follow t.
After(q, t) == \A i \in DOMAIN q : q[i] = t + i

\* The datagrams: the last ones are queued; those before them are done or
\* dropped, and reported, but for the one whose callback runs.
Accounted(q, c, live, m, n, sent, done, dropped, notified) ==
  LET taken == n - Len(q) IN
  /\ taken \in Nat /\ c \in 0 .. taken
  /\ After(q, taken)
  /\ Increasing(sent) /\ \A i \in DOMAIN sent : sent[i] <= taken + m
  /\ IsInjective(done) /\ IsInjective(dropped) /\ Range(done) \cap Range(dropped) = {}
  /\ Range(done) \cup Range(dropped) \subseteq 1 .. taken
  /\ live => Range(done) \cup Range(dropped) = 1 .. taken
  /\ IsInjective(notified) /\ Range(notified) = (1 .. taken) \ {c}

Datagrams ==
  Accounted(s.qsend, s.ctx, s.refs > 0, Len(k.sops), h.nsend, h.sent, h.done, h.dropped, h.notified)

UdpInv == UdpType /\ Returns /\ Watched /\ OneSender /\ RefsExact /\ Datagrams

-----------------------------------------------------------------------------
(***************************************************************************)
(* What the steps of the send path do to the account.                      *)
(***************************************************************************)
\* What a concatenation holds, and when it repeats nothing.
LEMMA Joined ==
  ASSUME NEW a \in Seq(Nat), NEW b \in Seq(Nat)
  PROVE  /\ a \o b \in Seq(Nat)
         /\ Range(a \o b) = Range(a) \cup Range(b)
         /\ IsInjective(a) /\ IsInjective(b) /\ Range(a) \cap Range(b) = {} => IsInjective(a \o b)
<1>1. /\ a \o b \in Seq(Nat) /\ Len(a \o b) = Len(a) + Len(b)
      /\ DOMAIN (a \o b) = 1 .. Len(a) + Len(b) /\ DOMAIN a = 1 .. Len(a) /\ DOMAIN b = 1 .. Len(b)
      /\ Len(a) \in Nat /\ Len(b) \in Nat
  OBVIOUS
<1>2. \A i \in 1 .. Len(a) + Len(b) : (a \o b)[i] = IF i <= Len(a) THEN a[i] ELSE b[i - Len(a)]
  OBVIOUS
<1>3. Range(a \o b) \subseteq Range(a) \cup Range(b)
  BY <1>1, <1>2 DEF Range
<1>4. Range(a) \subseteq Range(a \o b)
  BY <1>1, <1>2 DEF Range
<1>5. Range(b) \subseteq Range(a \o b)
  <2> SUFFICES ASSUME NEW i \in 1 .. Len(b) PROVE \E j \in 1 .. Len(a) + Len(b) : (a \o b)[j] = b[i]
    BY Zenon, <1>1 DEF Range
  <2>1. (a \o b)[Len(a) + i] = b[i] /\ Len(a) + i \in 1 .. Len(a) + Len(b)
    BY <1>1, <1>2
  <2> QED BY <2>1
<1>6. ASSUME IsInjective(a), IsInjective(b), Range(a) \cap Range(b) = {} PROVE IsInjective(a \o b)
  <2> SUFFICES ASSUME NEW i \in 1 .. Len(a) + Len(b), NEW j \in 1 .. Len(a) + Len(b), (a \o b)[i] = (a \o b)[j]
               PROVE  i = j
    BY Zenon, <1>1 DEF IsInjective
  <2>1. \A x \in 1 .. Len(a), y \in 1 .. Len(b) : a[x] # b[y]
    BY Zenon, <1>1, <1>6 DEF Range
  <2>2. \A x, y \in 1 .. Len(a) : a[x] = a[y] => x = y
    BY Zenon, <1>1, <1>6 DEF IsInjective
  <2>3. \A x, y \in 1 .. Len(b) : b[x] = b[y] => x = y
    BY Zenon, <1>1, <1>6 DEF IsInjective
  <2>4. CASE i <= Len(a) /\ j <= Len(a)
    BY <1>1, <1>2, <2>2, <2>4
  <2>5. CASE i > Len(a) /\ j > Len(a)
    <3>1. i - Len(a) \in 1 .. Len(b) /\ j - Len(a) \in 1 .. Len(b)
      BY <1>1, <2>5
    <3>2. b[i - Len(a)] = b[j - Len(a)]
      BY <1>1, <1>2, <2>5
    <3>3. i - Len(a) = j - Len(a)
      BY Zenon, <2>3, <3>1, <3>2
    <3> QED BY <1>1, <3>3
  <2>6. CASE i <= Len(a) /\ j > Len(a)
    <3>1. a[i] = b[j - Len(a)] /\ i \in 1 .. Len(a) /\ j - Len(a) \in 1 .. Len(b)
      BY <1>1, <1>2, <2>6
    <3> QED BY <2>1, <3>1
  <2>7. CASE i > Len(a) /\ j <= Len(a)
    <3>1. a[j] = b[i - Len(a)] /\ j \in 1 .. Len(a) /\ i - Len(a) \in 1 .. Len(b)
      BY <1>1, <1>2, <2>7
    <3> QED BY <2>1, <3>1
  <2> QED BY <1>1, <2>4, <2>5, <2>6, <2>7
<1> QED BY <1>1, <1>3, <1>4, <1>5, <1>6

\* The first j of consecutive numbers, and the others.
LEMMA Split ==
  ASSUME NEW q \in Seq(Nat), NEW t \in Nat, After(q, t), NEW j \in 0 .. Len(q)
  PROVE  LET lost == SubSeq(q, 1, j)
             rest == SubSeq(q, j + 1, Len(q))
         IN  /\ lost \in Seq(Nat) /\ IsInjective(lost) /\ Range(lost) = t + 1 .. t + j
             /\ rest \in Seq(Nat) /\ Len(rest) = Len(q) - j /\ After(rest, t + j)
<1> DEFINE lost == SubSeq(q, 1, j)
           rest == SubSeq(q, j + 1, Len(q))
<1>0. Len(q) \in Nat /\ j \in Nat /\ j <= Len(q) /\ \A i \in 1 .. Len(q) : q[i] = t + i
  BY DEF After
<1>1. lost \in Seq(Nat) /\ Len(lost) = j /\ DOMAIN lost = 1 .. j /\ \A i \in 1 .. j : lost[i] = t + i
  <2>1. lost \in Seq(Nat) /\ Len(lost) = j /\ \A i \in 1 .. j : lost[i] = q[i]
    BY <1>0
  <2> QED BY <1>0, <2>1
<1>2. rest \in Seq(Nat) /\ Len(rest) = Len(q) - j /\ DOMAIN rest = 1 .. Len(q) - j
  BY <1>0
<1>3. \A i \in 1 .. Len(q) - j : rest[i] = t + j + i
  <2>1. \A i \in 1 .. Len(q) - j : rest[i] = q[j + i] /\ j + i \in 1 .. Len(q)
    BY <1>0
  <2> QED BY <1>0, <2>1
<1> HIDE DEF lost, rest
<1>4. IsInjective(lost)
  BY <1>1 DEF IsInjective
<1>5. Range(lost) \subseteq t + 1 .. t + j
  <2> SUFFICES ASSUME NEW i \in 1 .. j PROVE lost[i] \in t + 1 .. t + j
    BY <1>1 DEF Range
  <2> QED BY <1>0, <1>1
<1>6. t + 1 .. t + j \subseteq Range(lost)
  <2> SUFFICES ASSUME NEW x \in t + 1 .. t + j PROVE \E i \in 1 .. j : lost[i] = x
    BY Zenon, <1>1 DEF Range
  <2>1. x - t \in 1 .. j /\ lost[x - t] = x
    BY <1>1
  <2> QED BY <2>1
<1>7. After(rest, t + j)
  BY <1>2, <1>3 DEF After
<1> QED BY Zenon, <1>1, <1>2, <1>4, <1>5, <1>6, <1>7 DEF lost, rest

\* r_ev_udp_send queues one more.
LEMMA Queued ==
  ASSUME NEW q \in Seq(Nat), NEW c \in Nat, NEW live \in BOOLEAN, NEW m \in Nat, NEW n \in Nat, NEW sent \in Seq(Nat),
         NEW done, NEW dropped, NEW notified,
         Accounted(q, c, live, m, n, sent, done, dropped, notified)
  PROVE  Accounted(Append(q, n + 1), c, live, m, n + 1, sent, done, dropped, notified)
<1>1. Len(Append(q, n + 1)) = Len(q) + 1 /\ Len(q) \in Nat
  OBVIOUS
<1>2. n + 1 - Len(Append(q, n + 1)) = n - Len(q)
  BY <1>1
<1>3. After(q, n - Len(q)) => After(Append(q, n + 1), n - Len(q))
  BY <1>1 DEF After
<1> QED BY <1>2, <1>3 DEF Accounted

\* The first j of the queue are dropped and reported, the one in flight first.
LEMMA Dropped ==
  ASSUME NEW q \in Seq(Nat), NEW c \in Nat, NEW live \in BOOLEAN, NEW m \in Nat, NEW n \in Nat, NEW sent \in Seq(Nat),
         NEW done, NEW dropped \in Seq(Nat), NEW notified \in Seq(Nat), NEW j \in 0 .. Len(q), m <= j,
         Accounted(q, c, live, m, n, sent, done, dropped, notified)
  PROVE  LET lost == SubSeq(q, 1, j)
         IN  Accounted(SubSeq(q, j + 1, Len(q)), c, live, 0, n, sent, done, dropped \o lost, notified \o lost)
<1> DEFINE lost == SubSeq(q, 1, j)
           rest == SubSeq(q, j + 1, Len(q))
           t == n - Len(q)
<1>1. /\ t \in Nat /\ c \in 0 .. t /\ After(q, t) /\ Len(q) \in Nat /\ n = t + Len(q)
      /\ Increasing(sent) /\ \A i \in DOMAIN sent : sent[i] <= t + m
      /\ IsInjective(done) /\ IsInjective(dropped) /\ Range(done) \cap Range(dropped) = {}
      /\ Range(done) \cup Range(dropped) \subseteq 1 .. t
      /\ live => Range(done) \cup Range(dropped) = 1 .. t
      /\ IsInjective(notified) /\ Range(notified) = (1 .. t) \ {c}
  BY DEF Accounted
<1> HIDE DEF t
<1>2. /\ lost \in Seq(Nat) /\ IsInjective(lost) /\ Range(lost) = t + 1 .. t + j
      /\ rest \in Seq(Nat) /\ Len(rest) = Len(q) - j /\ After(rest, t + j)
  BY <1>1, Split
<1> HIDE DEF lost, rest
<1>3. n - Len(rest) = t + j /\ t + j \in Nat /\ c \in 0 .. t + j
  BY <1>1, <1>2
<1>4. (1 .. t) \cup (t + 1 .. t + j) = 1 .. t + j /\ (1 .. t) \cap (t + 1 .. t + j) = {} /\ c \notin t + 1 .. t + j
  BY <1>1
<1>5. /\ IsInjective(dropped \o lost) /\ Range(dropped \o lost) = Range(dropped) \cup (t + 1 .. t + j)
      /\ IsInjective(notified \o lost) /\ Range(notified \o lost) = Range(notified) \cup (t + 1 .. t + j)
  <2>1. Range(dropped) \cap Range(lost) = {} /\ Range(notified) \cap Range(lost) = {}
    BY Zenon, <1>1, <1>2, <1>4
  <2>2. /\ Range(dropped \o lost) = Range(dropped) \cup Range(lost)
        /\ IsInjective(dropped) /\ IsInjective(lost) /\ Range(dropped) \cap Range(lost) = {} => IsInjective(dropped \o lost)
    BY Zenon, <1>2, Joined
  <2>3. /\ Range(notified \o lost) = Range(notified) \cup Range(lost)
        /\ IsInjective(notified) /\ IsInjective(lost) /\ Range(notified) \cap Range(lost) = {} => IsInjective(notified \o lost)
    BY Zenon, <1>2, Joined
  <2> QED BY Zenon, <1>1, <1>2, <2>1, <2>2, <2>3
<1>6. Range(done) \cap Range(dropped \o lost) = {}
  BY <1>1, <1>4, <1>5
<1>7. /\ Range(done) \cup Range(dropped \o lost) \subseteq 1 .. t + j
      /\ live => Range(done) \cup Range(dropped \o lost) = 1 .. t + j
      /\ Range(notified \o lost) = (1 .. t + j) \ {c}
  BY <1>1, <1>4, <1>5
<1>8. \A i \in DOMAIN sent : sent[i] <= t + j + 0
  <2>1. \A i \in DOMAIN sent : sent[i] \in Nat
    OBVIOUS
  <2> QED BY <1>1, <2>1
<1>9. Accounted(rest, c, live, 0, n, sent, done, dropped \o lost, notified \o lost)
  BY <1>1, <1>2, <1>3, <1>5, <1>6, <1>7, <1>8 DEF Accounted
<1> QED BY <1>9 DEF lost, rest

\* A larger number behind increasing ones.
LEMMA Later ==
  ASSUME NEW sent \in Seq(Nat), NEW t \in Nat, Increasing(sent), \A i \in DOMAIN sent : sent[i] <= t
  PROVE  LET p == sent \o <<t + 1>> IN Increasing(p) /\ \A i \in DOMAIN p : p[i] <= t + 1
<1> DEFINE p == sent \o <<t + 1>>
           l == Len(sent)
<1>1. l \in Nat /\ DOMAIN sent = 1 .. l /\ DOMAIN p = 1 .. l + 1 /\ p[l + 1] = t + 1
  OBVIOUS
<1>2. \A i \in 1 .. l : p[i] = sent[i]
  OBVIOUS
<1>3. \A i \in 1 .. l : sent[i] \in Nat /\ sent[i] <= t
  OBVIOUS
<1> HIDE DEF p, l
<1>4. \A i \in 1 .. l : p[i] \in Nat /\ p[i] <= t
  BY <1>2, <1>3
<1>5. \A i \in 1 .. l + 1 : p[i] <= t + 1
  <2> SUFFICES ASSUME NEW i \in 1 .. l + 1 PROVE p[i] <= t + 1
    OBVIOUS
  <2>1. CASE i = l + 1
    BY <1>1, <2>1
  <2>2. CASE i # l + 1
    BY <1>1, <1>4, <2>2
  <2> QED BY <2>1, <2>2
<1>6. ASSUME NEW i \in 1 .. l + 1, NEW j \in 1 .. l + 1, i < j PROVE p[i] < p[j]
  <2>1. i \in 1 .. l
    BY <1>1, <1>6
  <2>2. CASE j = l + 1
    BY <1>1, <1>4, <2>1, <2>2
  <2>3. CASE j # l + 1
    <3>1. j \in 1 .. l
      BY <1>1, <2>3
    <3>2. sent[i] < sent[j]
      BY Zenon, <1>1, <1>6, <2>1, <3>1 DEF Increasing
    <3> QED BY <1>2, <2>1, <3>1, <3>2
  <2> QED BY <2>2, <2>3
<1> QED BY Zenon, <1>1, <1>5, <1>6 DEF Increasing, p

\* The head of the queue is given to the kernel and stays queued, if there is one.
LEMMA Posted ==
  ASSUME NEW q \in Seq(Nat), NEW c \in Nat, NEW live \in BOOLEAN, NEW n \in Nat, NEW sent \in Seq(Nat),
         NEW done, NEW dropped, NEW notified,
         Accounted(q, c, live, 0, n, sent, done, dropped, notified)
  PROVE  Accounted(q, c, live, Len(First(q)), n, sent \o First(q), done, dropped, notified)
<1>1. CASE q = <<>>
  BY <1>1 DEF First
<1>2. CASE q # <<>>
  <2> DEFINE t == n - Len(q)
  <2>1. First(q) = <<Head(q)>> /\ Len(First(q)) = 1
    BY <1>2 DEF First
  <2>2. Head(q) = t + 1 /\ t \in Nat /\ Increasing(sent) /\ \A i \in DOMAIN sent : sent[i] <= t
    BY <1>2 DEF Accounted, After
  <2>3. /\ Increasing(sent \o <<t + 1>>)
        /\ \A i \in DOMAIN (sent \o <<t + 1>>) : (sent \o <<t + 1>>)[i] <= t + 1
    <3> HIDE DEF t
    <3> QED BY Zenon, <2>2, Later
  <2> QED BY Zenon, <2>1, <2>2, <2>3 DEF Accounted
<1> QED BY <1>1, <1>2

LEMMA Longer == \A q \in Seq(Nat), x \in Nat : Append(q, x) \in Seq(Nat) /\ Append(q, x) # <<>> /\ (Len(Append(q, x)) = 1 <=> q = <<>>)
OBVIOUS

LEMMA SameSeq == \A x, y \in Seq(Nat) : Len(x) = Len(y) /\ (\A i \in 1 .. Len(x) : x[i] = y[i]) => x = y
OBVIOUS

LEMMA HeadTail ==
  ASSUME NEW q \in Seq(Nat), q # <<>>
  PROVE  /\ 1 \in 0 .. Len(q) /\ SubSeq(q, 1, 1) = <<Head(q)>> /\ SubSeq(q, 1 + 1, Len(q)) = Tail(q)
         /\ Head(q) \in Nat /\ Tail(q) \in Seq(Nat)
<1> DEFINE a == SubSeq(q, 1 + 1, Len(q))
           b == Tail(q)
<1>1. Len(q) \in Nat \ {0} /\ b \in Seq(Nat) /\ Len(b) = Len(q) - 1 /\ \A i \in 1 .. Len(q) - 1 : b[i] = q[i + 1]
  OBVIOUS
<1>2. a \in Seq(Nat) /\ Len(a) = Len(q) - 1 /\ \A i \in 1 .. Len(q) - 1 : a[i] = q[i + 1]
  BY <1>1
<1>3. SubSeq(q, 1, 1) = <<Head(q)>> /\ Head(q) \in Nat /\ 1 \in 0 .. Len(q)
  <2>1. Len(SubSeq(q, 1, 1)) = 1 /\ SubSeq(q, 1, 1) \in Seq(Nat) /\ SubSeq(q, 1, 1)[1] = q[1]
    BY <1>1
  <2>2. <<Head(q)>> \in Seq(Nat) /\ Len(<<Head(q)>>) = 1 /\ <<Head(q)>>[1] = q[1]
    BY <1>1
  <2>3. \A i \in 1 .. 1 : SubSeq(q, 1, 1)[i] = <<Head(q)>>[i]
    BY <2>1, <2>2
  <2>4. SubSeq(q, 1, 1) = <<Head(q)>>
    BY Zenon, <2>1, <2>2, <2>3, SameSeq
  <2> QED BY <1>1, <2>4
<1> HIDE DEF a, b
<1>4. \A i \in 1 .. Len(a) : a[i] = b[i]
  BY <1>1, <1>2
<1>5. a = b
  BY Zenon, <1>1, <1>2, <1>4, SameSeq
<1> QED BY <1>1, <1>3, <1>5 DEF a, b

LEMMA Appended == \A a \in Seq(Nat), x \in Nat : Append(a, x) \in Seq(Nat) /\ Append(a, x) = a \o <<x>>
OBVIOUS

\* The head alone is dropped; its number is not 0.
LEMMA HeadDropped ==
  ASSUME NEW q \in Seq(Nat), q # <<>>, NEW c \in Nat, NEW live \in BOOLEAN, NEW m \in Nat, m <= 1, NEW n \in Nat,
         NEW sent \in Seq(Nat), NEW done, NEW dropped \in Seq(Nat), NEW notified \in Seq(Nat),
         Accounted(q, c, live, m, n, sent, done, dropped, notified)
  PROVE  Accounted(Tail(q), c, live, 0, n, sent, done, Append(dropped, Head(q)), Append(notified, Head(q)))
<1>1. 1 \in 0 .. Len(q) /\ SubSeq(q, 1, 1) = <<Head(q)>> /\ SubSeq(q, 1 + 1, Len(q)) = Tail(q) /\ Head(q) \in Nat
  BY Zenon, HeadTail
<1>2. Append(dropped, Head(q)) = dropped \o <<Head(q)>> /\ Append(notified, Head(q)) = notified \o <<Head(q)>>
  BY Zenon, <1>1, Appended
<1>3. Accounted(SubSeq(q, 1 + 1, Len(q)), c, live, 0, n, sent, done, dropped \o SubSeq(q, 1, 1), notified \o SubSeq(q, 1, 1))
  BY Zenon, <1>1, Dropped
<1> QED BY Zenon, <1>1, <1>2, <1>3

LEMMA Ahead ==
  ASSUME NEW q \in Seq(Nat), q # <<>>, NEW c \in Nat, NEW live, NEW m, NEW n \in Nat, NEW sent, NEW done, NEW dropped, NEW notified,
         Accounted(q, c, live, m, n, sent, done, dropped, notified)
  PROVE  Head(q) # 0
BY DEF Accounted, After

\* The done callback is called for the head, which leaves the queue.
LEMMA Completed ==
  ASSUME NEW q \in Seq(Nat), q # <<>>, NEW live \in BOOLEAN, NEW m \in 0 .. 1, NEW n \in Nat, NEW sent \in Seq(Nat),
         NEW done \in Seq(Nat), NEW dropped, NEW notified,
         Accounted(q, 0, live, m, n, sent, done, dropped, notified)
  PROVE  Accounted(Tail(q), Head(q), live, 0, n, sent, Append(done, Head(q)), dropped, notified)
<1> DEFINE t == n - Len(q)
           d == Append(done, Head(q))
<1>1. /\ t \in Nat /\ After(q, t) /\ Len(q) \in Nat
      /\ Increasing(sent) /\ \A i \in DOMAIN sent : sent[i] <= t + m
      /\ IsInjective(done) /\ IsInjective(dropped) /\ Range(done) \cap Range(dropped) = {}
      /\ Range(done) \cup Range(dropped) \subseteq 1 .. t
      /\ live => Range(done) \cup Range(dropped) = 1 .. t
      /\ IsInjective(notified) /\ Range(notified) = (1 .. t) \ {0}
  BY DEF Accounted
<1>2. Head(q) = t + 1 /\ Len(Tail(q)) = Len(q) - 1 /\ n - Len(Tail(q)) = t + 1
  BY <1>1 DEF After
<1> HIDE DEF t
<1>3. After(Tail(q), t + 1)
  <2> SUFFICES ASSUME NEW i \in DOMAIN Tail(q) PROVE Tail(q)[i] = t + 1 + i
    BY DEF After
  <2>1. i \in Nat /\ i + 1 \in DOMAIN q /\ Tail(q)[i] = q[i + 1]
    OBVIOUS
  <2> QED BY <1>1, <2>1 DEF After
<1>4. IsInjective(d) /\ Range(d) = Range(done) \cup {t + 1}
  <2>1. d = done \o <<t + 1>>
    BY <1>1, <1>2
  <2>2. <<t + 1>> \in Seq(Nat) /\ IsInjective(<<t + 1>>) /\ Range(<<t + 1>>) = {t + 1}
    BY <1>1 DEF IsInjective, Range
  <2>3. Range(done) \cap {t + 1} = {}
    BY <1>1
  <2>4. /\ Range(done \o <<t + 1>>) = Range(done) \cup Range(<<t + 1>>)
        /\ IsInjective(done) /\ IsInjective(<<t + 1>>) /\ Range(done) \cap Range(<<t + 1>>) = {} => IsInjective(done \o <<t + 1>>)
    BY Zenon, <2>2, Joined
  <2> QED BY Zenon, <1>1, <2>1, <2>2, <2>3, <2>4
<1> HIDE DEF d
<1>5. /\ Range(d) \cap Range(dropped) = {} /\ Range(d) \cup Range(dropped) \subseteq 1 .. t + 1
      /\ live => Range(d) \cup Range(dropped) = 1 .. t + 1
      /\ Range(notified) = (1 .. t + 1) \ {t + 1}
  <2>1. (1 .. t) \cup {t + 1} = 1 .. t + 1 /\ t + 1 \notin 1 .. t /\ 0 \notin 1 .. t
    BY <1>1
  <2> QED BY <1>1, <1>4, <2>1
<1>6. \A i \in DOMAIN sent : sent[i] <= t + 1 + 0
  BY <1>1
<1>7. t + 1 \in Nat /\ t + 1 \in 0 .. t + 1
  BY <1>1
<1> QED BY Zenon, <1>1, <1>2, <1>3, <1>4, <1>5, <1>6, <1>7 DEF Accounted, d

\* Its datanotify is called when the callback has returned.
LEMMA Notified ==
  ASSUME NEW q \in Seq(Nat), NEW c \in Nat \ {0}, NEW live \in BOOLEAN, NEW m \in Nat, NEW n \in Nat, NEW sent \in Seq(Nat),
         NEW done, NEW dropped, NEW notified \in Seq(Nat),
         Accounted(q, c, live, m, n, sent, done, dropped, notified)
  PROVE  Accounted(q, 0, live, m, n, sent, done, dropped, Append(notified, c))
<1> DEFINE t == n - Len(q)
<1>1. t \in Nat /\ c \in 1 .. t /\ IsInjective(notified) /\ Range(notified) = (1 .. t) \ {c}
  BY DEF Accounted
<1>2. IsInjective(Append(notified, c)) /\ Range(Append(notified, c)) = (1 .. t) \ {0}
  <2>1. Append(notified, c) = notified \o <<c>>
    OBVIOUS
  <2>2. <<c>> \in Seq(Nat) /\ IsInjective(<<c>>) /\ Range(<<c>>) = {c}
    BY DEF IsInjective, Range
  <2>3. Range(notified) \cap {c} = {} /\ Range(notified) \cup {c} = (1 .. t) \ {0}
    BY <1>1
  <2> QED BY Zenon, <1>1, <2>1, <2>2, <2>3, Joined
<1> QED BY <1>1, <1>2 DEF Accounted

\* The last reference goes: what is still queued is cleared and reported.
LEMMA Cleared ==
  ASSUME NEW q \in Seq(Nat), NEW live \in BOOLEAN, NEW n \in Nat, NEW sent \in Seq(Nat),
         NEW done, NEW dropped, NEW notified \in Seq(Nat),
         Accounted(q, 0, live, 0, n, sent, done, dropped, notified)
  PROVE  Accounted(<<>>, 0, FALSE, 0, n, sent, done, dropped, notified \o q)
<1> DEFINE t == n - Len(q)
<1>1. /\ t \in Nat /\ After(q, t) /\ Len(q) \in Nat /\ n = t + Len(q)
      /\ Increasing(sent) /\ \A i \in DOMAIN sent : sent[i] <= t
      /\ IsInjective(done) /\ IsInjective(dropped) /\ Range(done) \cap Range(dropped) = {}
      /\ Range(done) \cup Range(dropped) \subseteq 1 .. t
      /\ IsInjective(notified) /\ Range(notified) = (1 .. t) \ {0}
  BY DEF Accounted
<1> HIDE DEF t
<1>2. SubSeq(q, 1, Len(q)) = q /\ Len(q) \in 0 .. Len(q)
  OBVIOUS
<1>3. IsInjective(q) /\ Range(q) = t + 1 .. t + Len(q)
  <2>1. LET lost == SubSeq(q, 1, Len(q)) IN IsInjective(lost) /\ Range(lost) = t + 1 .. t + Len(q)
    BY <1>1, <1>2, Split
  <2> QED BY Zenon, <1>2, <2>1
<1>4. IsInjective(notified \o q) /\ Range(notified \o q) = (1 .. n) \ {0}
  <2>1. Range(notified) \cap Range(q) = {} /\ Range(notified) \cup Range(q) = (1 .. n) \ {0}
    BY <1>1, <1>3
  <2> QED BY <1>1, <1>3, <2>1, Joined
<1>5. /\ Range(done) \cup Range(dropped) \subseteq 1 .. n /\ \A i \in DOMAIN sent : sent[i] <= n + 0
      /\ n - Len(<<>>) = n /\ After(<<>>, n)
  BY <1>1 DEF After
<1> QED BY <1>1, <1>4, <1>5 DEF Accounted

-----------------------------------------------------------------------------
(***************************************************************************)
(* What the shared steps of the actions do to the state.                   *)
(***************************************************************************)
\* Nothing but the queue and the references, or nothing but the account, differs.
SameSource(a, b) ==
  /\ a.backend = b.backend /\ a.bcbs = b.bcbs /\ a.recv_iocb_ctx = b.recv_iocb_ctx /\ a.recv_data = b.recv_data
  /\ a.iocp_recv_active = b.iocp_recv_active /\ a.iocp_associated = b.iocp_associated
  /\ a.ctx = b.ctx /\ a.ret = b.ret

SameHistory(a, b) ==
  /\ a.nsend = b.nsend /\ a.nrecv = b.nrecv /\ a.held = b.held /\ a.done = b.done
  /\ a.blocked = b.blocked /\ a.undrained = b.undrained /\ a.late = b.late

LEMMA UnrefEffect ==
  ASSUME NEW s0 \in Source, NEW h0 \in History, Unref(s0, h0)
  PROVE  /\ s' \in Source /\ SameSource(s', s0) /\ s'.refs = s0.refs - 1
         /\ h' \in History /\ SameHistory(h', h0) /\ h'.sent = h0.sent /\ h'.dropped = h0.dropped
         /\ s0.refs > 1 => s'.qsend = s0.qsend /\ h'.notified = h0.notified
         /\ s0.refs <= 1 => s'.qsend = <<>> /\ h'.notified = h0.notified \o s0.qsend
<1> DEFINE s1 == [s0 EXCEPT !.refs = @ - 1]
<1>0. s0.refs \in Int /\ s0.refs - 1 \in Int /\ s0.qsend \in Seq(Nat) /\ h0.notified \o s0.qsend \in Seq(Nat)
  BY DEF Source, History
<1>1. SameSource(s1, s0) /\ s1.refs = s0.refs - 1 /\ s1.qsend = s0.qsend
  BY DEF Source, SameSource
<1>5. s1 \in Source
  BY Zenon, <1>0 DEF Source
<1>2. r_ev_udp_free(s1, h0)
  BY DEF Unref
<1>6. s1.refs > 0 <=> s0.refs > 1
  BY <1>0, <1>1
<1> HIDE DEF s1
<1>3. CASE s0.refs > 1
  <2>1. s' = s1 /\ h' = h0
    BY Zenon, <1>2, <1>3, <1>6 DEF r_ev_udp_free
  <2>2. SameHistory(h', h0) /\ h'.sent = h0.sent /\ h'.dropped = h0.dropped /\ h'.notified = h0.notified
    BY Zenon, <2>1 DEF SameHistory
  <2>3. ~(s0.refs <= 1)
    BY <1>0, <1>3
  <2> QED BY Zenon, <1>1, <1>3, <1>5, <2>1, <2>2, <2>3
<1>4. CASE ~(s0.refs > 1)
  <2>1. s' = [s1 EXCEPT !.qsend = <<>>] /\ h' = [h0 EXCEPT !.notified = @ \o s0.qsend]
    BY Zenon, <1>1, <1>2, <1>4, <1>6 DEF r_ev_udp_free
  <2>2. SameSource(s', s1) /\ s'.refs = s1.refs /\ s'.qsend = <<>>
    BY <1>5, <2>1 DEF Source, SameSource
  <2>3. /\ SameHistory(h', h0) /\ h'.sent = h0.sent /\ h'.dropped = h0.dropped
        /\ h'.notified = h0.notified \o s0.qsend
    BY Zenon, <2>1 DEF History, SameHistory
  <2>4. <<>> \in Seq(Nat)
    OBVIOUS
  <2>5. s' \in Source
    BY Zenon, <1>5, <2>1, <2>4 DEF Source
  <2>6. h' \in History
    BY Zenon, <1>0, <2>1 DEF History
  <2> QED BY Zenon, <1>0, <1>1, <1>4, <2>2, <2>3, <2>5, <2>6 DEF SameSource
<1> QED BY Zenon, <1>3, <1>4

LEMMA PostEffect ==
  ASSUME NEW s0 \in Source, NEW h0 \in History, k \in KernelState, NEW n \in Nat, r_ev_udp_iocp_post_send(s0, h0, n)
  PROVE  LET lost == SubSeq(s0.qsend, 1, n)
             first == First(s'.qsend)
         IN  /\ n \in 0 .. Len(s0.qsend)
             /\ s' \in Source /\ SameSource(s', s0) /\ s'.qsend = SubSeq(s0.qsend, n + 1, Len(s0.qsend))
             /\ s'.refs = s0.refs + Len(first)
             /\ k' \in KernelState /\ k'.rop = k.rop /\ k'.inq = k.inq /\ Len(k'.sops) = Len(k.sops) + Len(first)
             /\ h' \in History /\ SameHistory(h', h0) /\ h'.sent = h0.sent \o first
             /\ h'.dropped = h0.dropped \o lost /\ h'.notified = h0.notified \o lost
<1> DEFINE q == s0.qsend
           rest == SubSeq(q, n + 1, Len(q))
           lost == SubSeq(q, 1, n)
           first == First(rest)
           ops == [i \in 1 .. Len(first) |-> "flight"]
<1>1. q \in Seq(Nat) /\ s0.refs \in Int
  BY DEF Source
<1>2. n \in 0 .. Len(q)
  BY <1>1 DEF r_ev_udp_iocp_post_send
<1>3. rest \in Seq(Nat) /\ lost \in Seq(Nat)
  BY <1>1, <1>2
<1>4. first \in Seq(Nat) /\ Len(first) \in Nat
  <2> HIDE DEF rest
  <2> QED BY <1>3 DEF First
<1>5. ops \in Seq(Results) /\ Len(ops) = Len(first)
  <2> HIDE DEF first
  <2> QED BY <1>4 DEF Results
<1>6. /\ s' = [s0 EXCEPT !.qsend = rest, !.refs = @ + Len(first)]
      /\ k' = [k EXCEPT !.sops = @ \o ops]
      /\ h' = [h0 EXCEPT !.sent = @ \o first, !.dropped = @ \o lost, !.notified = @ \o lost]
  BY DEF r_ev_udp_iocp_post_send
<1> HIDE DEF rest, lost, first, ops
<1>7. SameSource(s', s0) /\ s'.qsend = rest /\ s'.refs = s0.refs + Len(first)
  BY <1>6 DEF Source, SameSource
<1>8. k'.rop = k.rop /\ k'.inq = k.inq /\ Len(k'.sops) = Len(k.sops) + Len(first)
  <2>1. k'.rop = k.rop /\ k'.inq = k.inq /\ k'.sops = k.sops \o ops /\ k.sops \in Seq(Results)
    BY <1>6 DEF KernelState
  <2>2. \A a, b \in Seq(Results) : Len(a \o b) = Len(a) + Len(b)
    OBVIOUS
  <2> QED BY Zenon, <1>5, <2>1, <2>2
<1>9. /\ SameHistory(h', h0) /\ h'.sent = h0.sent \o first
      /\ h'.dropped = h0.dropped \o lost /\ h'.notified = h0.notified \o lost
  BY Zenon, <1>6 DEF History, SameHistory
<1>10. s' \in Source
  <2>1. s0.refs + Len(first) \in Int
    BY <1>1, <1>4
  <2> QED BY Zenon, <1>3, <1>6, <2>1 DEF Source
<1>11. k' \in KernelState
  <2>1. k.sops \o ops \in Seq(Results)
    BY <1>5 DEF KernelState
  <2> QED BY Zenon, <1>6, <2>1 DEF KernelState
<1>12. h' \in History
  <2>1. h0.sent \o first \in Seq(Nat) /\ h0.dropped \o lost \in Seq(Nat) /\ h0.notified \o lost \in Seq(Nat)
    BY <1>3, <1>4 DEF History
  <2> QED BY Zenon, <1>6, <2>1 DEF History
<1> QED BY Zenon, <1>2, <1>7, <1>8, <1>9, <1>10, <1>11, <1>12 DEF first, rest, lost

LEMMA RearmEffect ==
  ASSUME NEW s0 \in Source, k \in KernelState, r_ev_udp_iocp_post_recv(s0)
  PROVE  /\ s' \in Source /\ s'.backend = s0.backend /\ s'.bcbs = s0.bcbs /\ s'.recv_iocb_ctx = s0.recv_iocb_ctx
         /\ s'.recv_data = s0.recv_data /\ s'.iocp_recv_active = s0.iocp_recv_active /\ s'.iocp_associated
         /\ s'.ctx = s0.ctx /\ s'.ret = s0.ret /\ s'.qsend = s0.qsend /\ s'.refs = s0.refs + 1
         /\ k' \in KernelState /\ k'.rop = "armed" /\ k'.inq = k.inq /\ k'.sops = k.sops
<1>1. s' = [s0 EXCEPT !.iocp_associated = TRUE, !.refs = @ + 1] /\ k' = [k EXCEPT !.rop = "armed"]
  BY DEF r_ev_udp_iocp_post_recv
<1>2. k'.rop = "armed" /\ k'.inq = k.inq /\ k'.sops = k.sops
  BY <1>1 DEF KernelState
<1>3. k' \in KernelState
  BY Zenon, <1>1 DEF KernelState, Ops
<1>4. s0.refs + 1 \in Int
  BY DEF Source
<1>5. s' \in Source
  BY Zenon, <1>1, <1>4 DEF Source
<1> QED BY <1>1, <1>2, <1>3, <1>5 DEF Source

\* What the account and the others read is left alone.
SameSends ==
  /\ s'.qsend = s.qsend /\ s'.ctx = s.ctx /\ s'.refs = s.refs /\ Len(k'.sops) = Len(k.sops)
  /\ h'.nsend = h.nsend /\ h'.sent = h.sent /\ h'.done = h.done /\ h'.dropped = h.dropped /\ h'.notified = h.notified

LEMMA SameDatagrams == Datagrams /\ SameSends => Datagrams'
BY DEF Datagrams, SameSends

LEMMA UdpFacts ==
  ASSUME UdpType
  PROVE  /\ s.qsend \in Seq(Nat) /\ s.bcbs \in Nat /\ s.refs \in Int /\ s.ctx \in Nat
         /\ k.inq \in Nat /\ k.room \in Int /\ k.sops \in Seq(Results) /\ Len(k.sops) \in Nat
         /\ h.nsend \in Nat /\ h.nrecv \in Nat /\ h.sent \in Seq(Nat) /\ h.done \in Seq(Nat)
         /\ h.dropped \in Seq(Nat) /\ h.notified \in Seq(Nat) /\ h.held \in BOOLEAN
<1>1. k.sops \in Seq(Results)
  BY DEF UdpType, KernelState
<1>2. Len(k.sops) \in Nat
  BY <1>1
<1> QED BY <1>1, <1>2 DEF UdpType, Source, KernelState, History

\* The references: the program's, that of the overlapped receive, and that of a
\* callback of the send path or of one that is armed again.
Running == pc = "send" \/ (pc \in {"donecb", "recvcb"} /\ s.ret \in {"send", "post", "rearm"})
Own == Bool(h.held)
Recv == Bool(k.rop # "none")
Run == Bool(Running)
Waiting == s.bcbs
Flights == Len(k.sops)
Refs == s.refs

LEMMA RefsSum ==
  /\ RefsExact <=> Refs = Own + Waiting + Flights + Recv + Run
  /\ RefsExact' <=> Refs' = Own' + Waiting' + Flights' + Recv' + Run'
BY DEF RefsExact, Running, Own, Recv, Run, Waiting, Flights, Refs

LEMMA Terms ==
  /\ Own = (IF h.held THEN 1 ELSE 0) /\ Own' = (IF h'.held THEN 1 ELSE 0)
  /\ Recv = (IF k.rop # "none" THEN 1 ELSE 0) /\ Recv' = (IF k'.rop # "none" THEN 1 ELSE 0)
  /\ Run = (IF Running THEN 1 ELSE 0) /\ Run' = (IF Running' THEN 1 ELSE 0)
  /\ Waiting = s.bcbs /\ Waiting' = s'.bcbs /\ Flights = Len(k.sops) /\ Flights' = Len(k'.sops)
  /\ Refs = s.refs /\ Refs' = s'.refs
BY DEF Own, Recv, Run, Bool, Waiting, Flights, Refs

LEMMA TermTypes ==
  ASSUME UdpType
  PROVE  Own \in Nat /\ Recv \in Nat /\ Run \in Nat /\ Waiting \in Nat /\ Flights \in Nat /\ Refs \in Int
BY Terms, UdpFacts

LEMMA Lengths == \A q \in Seq(Results) : Len(q) \in Nat /\ (q = <<>> <=> Len(q) = 0)
OBVIOUS

LEMMA StaysPositive == \A m, n \in Nat : m > 0 => m + n > 0
OBVIOUS

\* Who holds a reference, when there is one and when there is none.
LEMMA RefsFacts ==
  ASSUME UdpType, RefsExact
  PROVE  /\ s.refs \in Nat
         /\ h.held \/ k.rop # "none" \/ Running => s.refs > 0
         /\ s.refs = 0 => s.bcbs = 0 /\ k.sops = <<>>
         /\ s.refs = 1 /\ (h.held \/ k.rop # "none" \/ Running) => s.bcbs = 0 /\ k.sops = <<>>
<1>1. (h.held => Own = 1) /\ (k.rop # "none" => Recv = 1) /\ (Running => Run = 1)
  BY Terms
<1>2. Own \in Nat /\ Recv \in Nat /\ Run \in Nat /\ Waiting \in Nat /\ Flights \in Nat /\ Refs \in Int
  BY TermTypes
<1>3. Refs = Own + Waiting + Flights + Recv + Run
  BY RefsSum
<1>4. k.sops = <<>> <=> Flights = 0
  BY UdpFacts, Lengths DEF Flights
<1>5. Refs >= Own /\ Refs >= Waiting /\ Refs >= Flights /\ Refs >= Recv /\ Refs >= Run /\ Refs \in Nat
  BY <1>2, <1>3
<1>6. Refs <= 1 /\ (Own = 1 \/ Recv = 1 \/ Run = 1) => Waiting = 0 /\ Flights = 0
  BY <1>2, <1>3
<1>7. /\ Refs \in Nat /\ (h.held \/ k.rop # "none" \/ Running => Refs > 0) /\ (Refs = 0 => Waiting = 0 /\ Flights = 0)
      /\ Refs = 1 /\ (h.held \/ k.rop # "none" \/ Running) => Waiting = 0 /\ Flights = 0
  BY <1>1, <1>2, <1>5, <1>6
<1> QED BY Zenon, <1>4, <1>7 DEF Waiting, Refs

LEMMA OnlyOne == (\A q \in Seq(Results) : Len(q) = 1 => Tail(q) = <<>>) /\ <<>> \in Seq(Results)
<1>1. ASSUME NEW q \in Seq(Results), Len(q) = 1 PROVE Tail(q) = <<>>
  <2>1. Tail(q) \in Seq(Results) /\ Len(Tail(q)) = 0
    BY <1>1
  <2> QED BY Zenon, <2>1, Lengths
<1> QED BY <1>1

LEMMA FirstFacts ==
  ASSUME NEW q \in Seq(Nat)
  PROVE  /\ First(q) \in Seq(Nat) /\ Len(First(q)) = IF q = <<>> THEN 0 ELSE 1
         /\ q # <<>> => Head(q) \in Nat /\ Tail(q) \in Seq(Nat) /\ First(q) = <<Head(q)>>
BY DEF First

\* The events of the registered nodes.
LEMMA Wanted ==
  ASSUME Watched
  PROVE  r_ev_io_get_iocbq_events(iocbq) = IF s.recv_iocb_ctx = 0 THEN {} ELSE {Readable}
<1> DEFINE q == <<[id |-> Node, events |-> {Readable}]>>
<1>1. r_ev_io_get_iocbq_events(<<>>) = {}
  BY DEF r_ev_io_get_iocbq_events
<1>2. DOMAIN q = {1} /\ q[1].events = {Readable}
  OBVIOUS
<1>3. {q[i].events : i \in DOMAIN q} = {{Readable}}
  <2> HIDE DEF q
  <2> QED BY <1>2
<1>4. r_ev_io_get_iocbq_events(q) = {Readable}
  <2> HIDE DEF q
  <2> QED BY Zenon, <1>3 DEF r_ev_io_get_iocbq_events
<1> QED BY Zenon, <1>1, <1>4 DEF Watched

\* Datagrams fail, the next one is posted.
LEMMA PostAccounted ==
  ASSUME NEW s0 \in Source, NEW h0 \in History, k \in KernelState, Len(k.sops) = 0, NEW live \in BOOLEAN, NEW n \in Nat,
         r_ev_udp_iocp_post_send(s0, h0, n),
         Accounted(s0.qsend, s0.ctx, live, 0, h0.nsend, h0.sent, h0.done, h0.dropped, h0.notified)
  PROVE  Accounted(s'.qsend, s'.ctx, live, Len(k'.sops), h'.nsend, h'.sent, h'.done, h'.dropped, h'.notified)
<1> DEFINE q == s0.qsend
           lost == SubSeq(q, 1, n)
           rest == SubSeq(q, n + 1, Len(q))
<1>1. /\ n \in 0 .. Len(q) /\ s'.qsend = rest /\ s'.ctx = s0.ctx /\ Len(k'.sops) = 0 + Len(First(rest))
      /\ h'.nsend = h0.nsend /\ h'.sent = h0.sent \o First(rest) /\ h'.done = h0.done
      /\ h'.dropped = h0.dropped \o lost /\ h'.notified = h0.notified \o lost
  BY Zenon, PostEffect DEF SameSource, SameHistory
<1>2. /\ q \in Seq(Nat) /\ s0.ctx \in Nat /\ h0.nsend \in Nat /\ h0.sent \in Seq(Nat)
      /\ h0.dropped \in Seq(Nat) /\ h0.notified \in Seq(Nat) /\ 0 <= n
  BY DEF Source, History
<1>0. Accounted(q, s0.ctx, live, 0, h0.nsend, h0.sent, h0.done, h0.dropped, h0.notified)
  OBVIOUS
<1>3. rest \in Seq(Nat)
  <2>1. q \in Seq(Nat) /\ n \in 0 .. Len(q)
    BY <1>1, <1>2
  <2> HIDE DEF q
  <2> QED BY <2>1
<1>4. Accounted(rest, s0.ctx, live, 0, h0.nsend, h0.sent, h0.done, h0.dropped \o lost, h0.notified \o lost)
  <2>1. n \in 0 .. Len(q) /\ 0 \in Nat
    BY <1>1
  <2> HIDE DEF q
  <2> QED BY SMTT(40), <1>0, <1>2, <2>1, Dropped
<1> HIDE DEF rest, lost
<1>5. Accounted(rest, s0.ctx, live, Len(First(rest)), h0.nsend, h0.sent \o First(rest), h0.done, h0.dropped \o lost, h0.notified \o lost)
  BY <1>2, <1>3, <1>4, Posted
<1>6. Len(k'.sops) = Len(First(rest))
  BY <1>1, <1>3, FirstFacts
<1> QED BY Zenon, <1>1, <1>5, <1>6

\* A reference is dropped, the last one when nothing is in flight.
LEMMA UnrefAccounted ==
  ASSUME NEW s0 \in Source, NEW h0 \in History, NEW m \in Nat, Unref(s0, h0), s0.refs >= 1,
         s0.refs = 1 => m = 0 /\ s0.ctx = 0,
         Accounted(s0.qsend, s0.ctx, TRUE, m, h0.nsend, h0.sent, h0.done, h0.dropped, h0.notified)
  PROVE  Accounted(s'.qsend, s'.ctx, s'.refs > 0, m, h'.nsend, h'.sent, h'.done, h'.dropped, h'.notified)
<1>1. /\ s0.qsend \in Seq(Nat) /\ h0.nsend \in Nat /\ h0.sent \in Seq(Nat) /\ h0.notified \in Seq(Nat) /\ s0.refs \in Int
  BY DEF Source, History
<1>2. /\ s'.ctx = s0.ctx /\ s'.refs = s0.refs - 1 /\ h'.nsend = h0.nsend /\ h'.sent = h0.sent /\ h'.done = h0.done /\ h'.dropped = h0.dropped
      /\ s0.refs > 1 => s'.qsend = s0.qsend /\ h'.notified = h0.notified
      /\ s0.refs <= 1 => s'.qsend = <<>> /\ h'.notified = h0.notified \o s0.qsend
  BY Zenon, UnrefEffect DEF SameSource, SameHistory
<1>3. CASE s0.refs > 1
  <2>1. (s'.refs > 0) = TRUE
    BY <1>1, <1>2, <1>3
  <2> QED BY Zenon, <1>2, <1>3, <2>1
<1>4. CASE s0.refs <= 1
  <2>1. (s'.refs > 0) = FALSE /\ m = 0 /\ s0.ctx = 0
    BY <1>1, <1>2, <1>4
  <2>2. Accounted(<<>>, 0, FALSE, 0, h0.nsend, h0.sent, h0.done, h0.dropped, h0.notified \o s0.qsend)
    BY Zenon, <1>1, <2>1, Cleared
  <2> QED BY Zenon, <1>2, <1>4, <2>1, <2>2
<1> QED BY <1>1, <1>3, <1>4

-----------------------------------------------------------------------------
(***************************************************************************)
(* Every action keeps the invariant.                                       *)
(***************************************************************************)
LEMMA LoopStep ==
  ASSUME UdpAssumption, UdpInv, UserEnd \/ r_ev_udp_send_iocb_ev \/ BcbsEnd \/ r_ev_udp_iocb \/ PollOther
  PROVE  UdpInv'
<1> USE DEF UdpInv, evio
<1>1. CASE UserEnd
  <2>1. UdpType' /\ Returns' /\ SameSends
    BY <1>1 DEF UdpType, Returns, SameSends, Iocp, UserEnd
  <2>2. Watched' /\ OneSender'
    BY <1>1 DEF Watched, OneSender, Iocp, UserEnd
  <2>3. RefsExact'
    BY <1>1 DEF RefsExact, UserEnd
  <2> QED BY <2>1, <2>2, <2>3, SameDatagrams
<1>2. CASE r_ev_udp_send_iocb_ev
  <2>1. /\ s'.bcbs = s.bcbs - 1 /\ s'.refs = s.refs /\ h' = h /\ k' = k /\ SameSends
        /\ s.bcbs - 1 \in Nat /\ pc = "bcbs" /\ pc' = "send"
    <3>1. s.bcbs > 0 /\ s' = [s EXCEPT !.bcbs = @ - 1] /\ h' = h /\ k' = k /\ pc = "bcbs" /\ pc' = "send"
      BY Zenon, <1>2 DEF r_ev_udp_send_iocb_ev
    <3>2. s \in Source /\ s.bcbs \in Nat
      BY Zenon, UdpFacts DEF UdpType
    <3>3. s'.bcbs = s.bcbs - 1 /\ s'.refs = s.refs /\ s'.qsend = s.qsend /\ s'.ctx = s.ctx
      BY <3>1, <3>2 DEF Source
    <3>4. s.bcbs - 1 \in Nat
      BY <3>1, <3>2
    <3> QED BY Zenon, <3>1, <3>3, <3>4 DEF SameSends
  <2>2. s' \in Source
    BY Zenon, <1>2, <2>1 DEF r_ev_udp_send_iocb_ev, UdpType, Source
  <2>3. UdpType'
    BY <2>1, <2>2 DEF UdpType
  <2>4. Returns' /\ Watched'
    BY <1>2 DEF r_ev_udp_send_iocb_ev, UdpType, Returns, Watched, Iocp, Source
  <2>5. OneSender'
    BY <1>2 DEF r_ev_udp_send_iocb_ev, UdpType, OneSender, Iocp, Source
  <2>6. RefsExact'
    <3>1. ~Running /\ Running'
      BY <2>1 DEF Running
    <3>2. /\ Own' = Own /\ Waiting' = Waiting - 1 /\ Flights' = Flights /\ Recv' = Recv /\ Run = 0 /\ Run' = 1 /\ Refs' = Refs
      BY <2>1, <3>1, Terms
    <3> QED BY <3>2, RefsSum, TermTypes
  <2> QED BY <2>1, <2>3, <2>4, <2>5, <2>6, SameDatagrams
<1>3. CASE BcbsEnd
  <2>1. UdpType' /\ Returns' /\ SameSends
    BY <1>3 DEF UdpType, Returns, SameSends, Iocp, BcbsEnd
  <2>2. Watched'
    BY Zenon, <1>3, Wanted DEF Watched, UdpType, Iocp, BcbsEnd, ApplyChanges, Ready
  <2>3. OneSender' /\ RefsExact'
    BY <1>3 DEF OneSender, RefsExact, Iocp, BcbsEnd
  <2> QED BY <2>1, <2>2, <2>3, SameDatagrams
<1>4. CASE r_ev_udp_iocb
  <2>1. h' \in History
    BY Zenon, <1>4 DEF r_ev_udp_iocb, UdpType, History
  <2>2. UdpType' /\ SameSends
    BY <1>4, <2>1 DEF r_ev_udp_iocb, UdpType, SameSends, History
  <2>3. Returns'
    BY <1>4 DEF r_ev_udp_iocb, Returns, Iocp
  <2>4. Watched'
    BY Zenon, <1>4 DEF r_ev_udp_iocb, Returns, Watched, UdpType, Iocp, History
  <2>5. OneSender' /\ RefsExact'
    BY <1>4 DEF r_ev_udp_iocb, Returns, OneSender, RefsExact, UdpType, Iocp, History
  <2> QED BY <2>2, <2>3, <2>4, <2>5, SameDatagrams
<1>5. CASE PollOther
  <2>1. h' \in History
    BY Zenon, <1>5 DEF PollOther, UdpType, History
  <2>2. UdpType' /\ SameSends
    BY <1>5, <2>1 DEF PollOther, UdpType, SameSends, History
  <2>3. Returns'
    BY <1>5 DEF PollOther, Returns, Iocp
  <2>4. Watched'
    BY Zenon, <1>5 DEF PollOther, Returns, Watched, UdpType, Iocp, Reported, Ready, History
  <2>5. OneSender' /\ RefsExact'
    BY <1>5 DEF PollOther, Returns, OneSender, RefsExact, UdpType, Iocp, History
  <2> QED BY <2>2, <2>3, <2>4, <2>5, SameDatagrams
<1> QED BY <1>1, <1>2, <1>3, <1>4, <1>5

LEMMA RecvStep ==
  ASSUME UdpAssumption, UdpInv, RecvOk \/ RecvBlocks \/ RecvFails \/ r_ev_udp_error_iocb \/ r_ev_udp_iocp_recv_complete
  PROVE  UdpInv'
<1> USE DEF UdpInv, evio
<1>1. /\ Late \in History /\ Late.nrecv + 1 \in Nat /\ h.nrecv + 1 \in Nat
      /\ pc = "recv" => ~Late.late /\ Late.nsend = h.nsend /\ Late.held = h.held /\ Late.sent = h.sent /\ Late.done = h.done
                        /\ Late.dropped = h.dropped /\ Late.notified = h.notified /\ Late.blocked = h.blocked
                        /\ Late.undrained = h.undrained
  <2>1. Late \in History
    BY Zenon DEF Late, UdpType, History
  <2>2. Late.nrecv + 1 \in Nat /\ h.nrecv + 1 \in Nat
    <3>1. Late.nrecv \in Nat
      BY Zenon, <2>1 DEF History
    <3>2. h.nrecv \in Nat
      BY Zenon DEF UdpType, History
    <3> QED BY <3>1, <3>2
  <2>3. pc = "recv" => ~Late.late
    BY DEF Late, UdpType, Watched, History
  <2> QED BY <2>1, <2>2, <2>3 DEF Late, UdpType, History
<1>2. CASE RecvOk
  <2>1. k.inq - 1 \in Nat
    <3>1. k.inq > 0 /\ k.inq \in Nat
      BY <1>2, UdpFacts DEF RecvOk
    <3> QED BY <3>1
  <2>2. k' \in KernelState
    BY Zenon, <1>2, <2>1 DEF RecvOk, UdpType, KernelState
  <2>3. s' \in Source
    BY Zenon, <1>2 DEF RecvOk, UdpType, Source
  <2>4. h' \in History
    BY Zenon, <1>1, <1>2 DEF RecvOk, History
  <2>5. SameSends /\ h'.held = h.held /\ h'.late = Late.late /\ h'.blocked = h.blocked
    BY <1>1, <1>2 DEF RecvOk, UdpType, SameSends, Source, KernelState, History
  <2>6. UdpType'
    BY <1>2, <2>2, <2>3, <2>4 DEF RecvOk, UdpType
  <2>7. Returns'
    BY <1>2 DEF RecvOk, Returns, Watched, UdpType, Iocp, Source, KernelState
  <2>8. Watched'
    BY Zenon, <1>1, <1>2, <2>5 DEF RecvOk, Returns, Watched, UdpType, Iocp, Source, KernelState
  <2>9. OneSender'
    BY <1>2, <2>5 DEF RecvOk, OneSender, UdpType, Iocp, Source, KernelState
  <2>10. RefsExact'
    BY <1>2, <2>5 DEF RecvOk, RefsExact, UdpType, Source, KernelState
  <2> QED BY <2>5, <2>6, <2>7, <2>8, <2>9, <2>10, SameDatagrams
<1>3. CASE RecvBlocks
  <2>1. UdpType' /\ SameSends
    BY <1>1, <1>3 DEF RecvBlocks, UdpType, SameSends
  <2>2. Returns' /\ OneSender' /\ RefsExact'
    BY <1>1, <1>3 DEF RecvBlocks, Returns, OneSender, RefsExact, Iocp
  <2>3. Watched'
    BY <1>1, <1>3 DEF RecvBlocks, Watched, Iocp
  <2> QED BY <2>1, <2>2, <2>3, SameDatagrams
<1>4. CASE RecvFails
  <2>1. k' \in KernelState
    BY Zenon, <1>4 DEF RecvFails, UdpType, KernelState
  <2>2. h' \in History
    BY Zenon, <1>1, <1>4 DEF RecvFails, History
  <2>3. UdpType'
    BY <1>4, <2>1, <2>2 DEF RecvFails, UdpType
  <2>4. SameSends /\ h'.held = h.held /\ h'.late = Late.late /\ h'.blocked = h.blocked /\ h'.undrained
    BY <1>1, <1>4 DEF RecvFails, UdpType, SameSends, KernelState, History
  <2>5. Returns' /\ OneSender' /\ RefsExact'
    BY <1>4, <2>4 DEF RecvFails, Returns, OneSender, RefsExact, Iocp, UdpType, KernelState
  <2>6. Watched'
    BY <1>1, <1>4, <2>4 DEF RecvFails, Watched, Iocp, UdpType, KernelState
  <2> QED BY <2>3, <2>4, <2>5, <2>6, SameDatagrams
<1>5. CASE r_ev_udp_error_iocb
  <2>1. k' \in KernelState
    BY Zenon, <1>5 DEF r_ev_udp_error_iocb, UdpType, KernelState
  <2>2. UdpType' /\ SameSends
    BY <1>5, <2>1 DEF r_ev_udp_error_iocb, UdpType, SameSends, KernelState
  <2>3. Returns' /\ OneSender' /\ RefsExact' /\ Watched'
    BY <1>5 DEF r_ev_udp_error_iocb, Returns, OneSender, RefsExact, Watched, Iocp, UdpType, KernelState
  <2> QED BY <2>2, <2>3, SameDatagrams
<1>6. CASE r_ev_udp_iocp_recv_complete
  <2>1. k' \in KernelState
    BY Zenon, <1>6 DEF r_ev_udp_iocp_recv_complete, UdpType, KernelState, Ops
  <2>2. s' \in Source
    BY Zenon, <1>6 DEF r_ev_udp_iocp_recv_complete, UdpType, Source
  <2>3. h' \in History
    BY Zenon, <1>1, <1>6 DEF r_ev_udp_iocp_recv_complete, UdpType, History
  <2>4. UdpType'
    BY <1>6, <2>1, <2>2, <2>3 DEF r_ev_udp_iocp_recv_complete, UdpType
  <2>5. SameSends /\ h'.held = h.held /\ h'.late = h.late /\ h'.blocked = h.blocked /\ h'.undrained = h.undrained
    BY <1>6 DEF r_ev_udp_iocp_recv_complete, UdpType, SameSends, Source, KernelState, History
  <2>6. Returns'
    BY <1>6 DEF r_ev_udp_iocp_recv_complete, Returns, Watched, Iocp, UdpType, Source, KernelState
  <2>7. OneSender'
    BY <1>6, <2>5 DEF r_ev_udp_iocp_recv_complete, OneSender, Iocp, UdpType, Source, KernelState
  <2>8. Watched'
    BY <1>6, <2>5 DEF r_ev_udp_iocp_recv_complete, Watched, Iocp, UdpType, Source, KernelState
  <2>9. RefsExact'
    <3>1. /\ s'.bcbs = s.bcbs /\ s'.refs = s.refs /\ h'.held = h.held /\ Len(k'.sops) = Len(k.sops)
          /\ k.rop # "none" /\ k'.rop = "none" /\ ~Running /\ Running'
      BY <1>6, <2>5 DEF r_ev_udp_iocp_recv_complete, Running, UdpType, Source, KernelState, SameSends
    <3>2. /\ Own' = Own /\ Waiting' = Waiting /\ Flights' = Flights /\ Recv = 1 /\ Recv' = 0 /\ Run = 0 /\ Run' = 1
          /\ Refs' = Refs
      BY <3>1, Terms
    <3> QED BY <3>2, RefsSum, TermTypes
  <2> QED BY <2>4, <2>5, <2>6, <2>7, <2>8, <2>9, SameDatagrams
<1> QED BY <1>2, <1>3, <1>4, <1>5, <1>6

LEMMA KernelStep ==
  ASSUME UdpAssumption, UdpInv, Kernel
  PROVE  UdpInv'
<1> USE DEF UdpInv, evio
<1>0. k.inq \in Nat /\ k.room \in Int
  BY UdpFacts
<1>1. CASE Arrives
  <2>1. k.inq + 1 \in Nat
    BY <1>0
  <2>2. k' \in KernelState
    BY Zenon, <1>1, <2>1 DEF Arrives, UdpType, KernelState
  <2>3. UdpType' /\ SameSends
    BY <1>1, <2>2 DEF Arrives, UdpType, SameSends, KernelState
  <2>4. Returns' /\ OneSender' /\ RefsExact'
    BY <1>1 DEF Arrives, Returns, OneSender, RefsExact, Iocp, UdpType, KernelState
  <2>5. Watched'
    BY Zenon, <1>1 DEF Arrives, Edge, Reported, Watched, Iocp, UdpType, KernelState
  <2> QED BY <2>3, <2>4, <2>5, SameDatagrams
<1>2. CASE SocketError
  <2>1. k' \in KernelState
    BY Zenon, <1>2 DEF SocketError, UdpType, KernelState
  <2>2. UdpType' /\ SameSends
    BY <1>2, <2>1 DEF SocketError, UdpType, SameSends, KernelState
  <2>3. Returns' /\ OneSender' /\ RefsExact'
    BY <1>2 DEF SocketError, Returns, OneSender, RefsExact, Iocp, UdpType, KernelState
  <2>4. Watched'
    BY <1>2 DEF SocketError, Edge, Reported, Watched, Iocp, UdpType, KernelState
  <2> QED BY <2>2, <2>3, <2>4, SameDatagrams
<1>3. CASE Drains
  <2>1. k.room + 1 \in Int
    BY <1>0
  <2>2. k' \in KernelState
    BY Zenon, <1>3, <2>1 DEF Drains, UdpType, KernelState
  <2>3. UdpType' /\ SameSends
    BY <1>3, <2>2 DEF Drains, UdpType, SameSends, KernelState
  <2>4. Returns' /\ OneSender' /\ RefsExact' /\ Watched'
    BY <1>3 DEF Drains, Returns, OneSender, RefsExact, Watched, Iocp, UdpType, KernelState
  <2> QED BY <2>3, <2>4, SameDatagrams
<1>4. CASE Completes
  <2>1. /\ k' \in KernelState /\ k'.inq \in Nat /\ k'.inq <= k.inq /\ Len(k'.sops) = Len(k.sops)
        /\ k'.rop # k.rop => k.rop = "armed" /\ k'.rop \in {"ok", "failed"}
    <3>1. CASE k.rop = "armed" /\ k.inq > 0 /\ k' = [k EXCEPT !.rop = "ok", !.inq = @ - 1]
      <4>1. k.inq - 1 \in Nat
        BY <1>0, <3>1
      <4>2. k' \in KernelState
        BY Zenon, <3>1, <4>1 DEF UdpType, KernelState, Ops
      <4> QED BY <3>1, <4>1, <4>2 DEF UdpType, KernelState
    <3>2. CASE k.rop = "armed" /\ k' = [k EXCEPT !.rop = "failed"]
      <4>1. k' \in KernelState
        BY Zenon, <3>2 DEF UdpType, KernelState, Ops
      <4> QED BY <3>2, <4>1 DEF UdpType, KernelState
    <3>3. ASSUME NEW i \in DOMAIN k.sops, NEW r \in {"ok", "failed"}, k' = [k EXCEPT !.sops[i] = r]
          PROVE  k' \in KernelState /\ k'.inq = k.inq /\ Len(k'.sops) = Len(k.sops) /\ k'.rop = k.rop
      <4>1. k.sops \in Seq(Results) /\ r \in Results
        BY UdpFacts DEF Results
      <4>2. [k.sops EXCEPT ![i] = r] \in Seq(Results) /\ Len([k.sops EXCEPT ![i] = r]) = Len(k.sops)
        BY <4>1
      <4>3. k' \in KernelState
        BY Zenon, <3>3, <4>2 DEF UdpType, KernelState
      <4> QED BY <3>3, <4>2, <4>3 DEF UdpType, KernelState
    <3> QED BY <1>0, <1>4, <3>1, <3>2, <3>3 DEF Completes
  <2>2. s' = s /\ h' = h /\ pc' = pc /\ UNCHANGED evio
    BY <1>4 DEF Completes
  <2>3. UdpType' /\ SameSends
    BY <2>1, <2>2 DEF UdpType, SameSends
  <2>4. k'.sops = <<>> <=> k.sops = <<>>
    <3>1. k.sops \in Seq(Results) /\ k'.sops \in Seq(Results)
      BY <2>1, UdpFacts DEF KernelState
    <3> QED BY Zenon, <2>1, <3>1, Lengths
  <2>5. Returns' /\ OneSender'
    BY <2>1, <2>2, <2>4 DEF Returns, OneSender, Iocp
  <2>6. RefsExact'
    <3>1. k'.rop # "none" <=> k.rop # "none"
      BY <2>1
    <3> QED BY <2>1, <2>2, <3>1 DEF RefsExact
  <2>7. Watched'
    <3>1. k'.inq > 0 => k.inq > 0
      BY <1>0, <2>1
    <3> QED BY <2>1, <2>2, <3>1 DEF Watched, Iocp
  <2> QED BY <2>3, <2>5, <2>6, <2>7, SameDatagrams
<1> QED BY <1>1, <1>2, <1>3, <1>4 DEF Kernel

LEMMA StartStep ==
  ASSUME UdpAssumption, UdpInv, r_ev_udp_recv_start, k.rop = "none", ~(Iocp /\ pc = "recvcb")
  PROVE  UdpInv'
<1> USE DEF UdpInv, evio
<1>0. pc' = pc /\ h' = h /\ h.held /\ pc \in {"user", "recvcb", "donecb"} /\ s.recv_iocb_ctx = 0 /\ ~s.iocp_recv_active
  BY DEF r_ev_udp_recv_start, Program
<1>1. CASE Iocp
  <2> DEFINE s0 == [s EXCEPT !.recv_data = "set", !.iocp_recv_active = TRUE]
  <2>1. r_ev_udp_iocp_post_recv(s0) /\ UNCHANGED evio
    BY Zenon, <1>1 DEF r_ev_udp_recv_start
  <2>2. s0 \in Source
    BY Zenon DEF UdpType, Source
  <2>3. /\ s0.backend = s.backend /\ s0.bcbs = s.bcbs /\ s0.recv_iocb_ctx = s.recv_iocb_ctx /\ s0.ctx = s.ctx /\ s0.ret = s.ret
        /\ s0.qsend = s.qsend /\ s0.refs = s.refs
    BY DEF UdpType, Source
  <2> HIDE DEF s0
  <2>4. /\ s' \in Source /\ s'.backend = s.backend /\ s'.bcbs = s.bcbs /\ s'.recv_iocb_ctx = s.recv_iocb_ctx /\ s'.ctx = s.ctx
        /\ s'.ret = s.ret /\ s'.qsend = s.qsend /\ s'.refs = s.refs + 1
        /\ k' \in KernelState /\ k'.rop = "armed" /\ k'.inq = k.inq /\ k'.sops = k.sops
    BY <2>1, <2>2, <2>3, RearmEffect DEF UdpType
  <2>5. UdpType'
    BY <1>0, <2>4 DEF UdpType
  <2>6. Returns'
    BY <1>0, <1>1, <2>4 DEF Returns, Iocp
  <2>7. Watched'
    BY <1>0, <1>1, <2>1, <2>4 DEF Watched, Iocp
  <2>8. RefsExact'
    <3>1. /\ Own' = Own /\ Waiting' = Waiting /\ Flights' = Flights /\ Recv = 0 /\ Recv' = 1 /\ Run' = Run
          /\ Refs' = Refs + 1
      BY <1>0, <2>4, Terms DEF Running
    <3> QED BY <3>1, RefsSum, TermTypes
  <2>9. s.refs > 0 /\ s'.refs > 0
    <3>1. s.refs \in Nat /\ s.refs > 0
      BY <1>0, RefsFacts
    <3> QED BY <2>4, <3>1
  <2>10. OneSender' /\ Datagrams'
    BY <1>0, <2>4, <2>9 DEF OneSender, Iocp, Datagrams
  <2> QED BY <2>5, <2>6, <2>7, <2>8, <2>10
<1>2. CASE ~Iocp
  <2>1. /\ r_ev_io_start(Node, {Readable}) /\ k' = k
        /\ s' = [s EXCEPT !.recv_iocb_ctx = Node, !.recv_data = "set"]
    BY Zenon, <1>2 DEF r_ev_udp_recv_start
  <2>2. s' \in Source
    BY Zenon, <2>1 DEF UdpType, Source
  <2>3. Node # 0
    BY EvIOAssumption DEF UdpAssumption, Node
  <2>4. UdpType' /\ SameSends
    BY <1>0, <2>1, <2>2 DEF UdpType, SameSends, Source
  <2>5. Returns' /\ OneSender' /\ RefsExact'
    BY Zenon, <1>0, <2>1 DEF Returns, OneSender, RefsExact, Iocp, UdpType, Source
  <2>6. Watched'
    <3>1. iocbq' = <<[id |-> Node, events |-> {Readable}]>>
      <4>1. iocbq = <<>>
        BY <1>0 DEF Watched
      <4>2. iocbq' = Append(iocbq, [id |-> Node, events |-> {Readable}])
        BY <2>1 DEF r_ev_io_start
      <4> QED BY <4>1, <4>2
    <3>2. /\ s'.recv_iocb_ctx = Node /\ s'.recv_data = "set" /\ s'.backend = s.backend
          /\ s'.iocp_associated = s.iocp_associated /\ s'.iocp_recv_active = s.iocp_recv_active
      BY <2>1 DEF UdpType, Source
    <3> QED BY Zenon, <1>0, <1>2, <2>1, <2>3, <3>1, <3>2 DEF Watched, Iocp, r_ev_io_start
  <2> QED BY <2>4, <2>5, <2>6, SameDatagrams
<1> QED BY <1>1, <1>2

\* The one node is taken off the queue.
LEMMA Removed == Without(<<[id |-> Node, events |-> {Readable}]>>, Node) = <<>>
<1> DEFINE q == <<[id |-> Node, events |-> {Readable}]>>
<1>1. DOMAIN q = {1} /\ q[1].id = Node /\ Len(q) = 1 /\ q \in Seq({q[1]})
  OBVIOUS
<1> HIDE DEF q
<1>2. Node \in Ids(q)
  BY <1>1 DEF Ids
<1>3. (CHOOSE i \in DOMAIN q : q[i].id = Node) = 1
  BY <1>1
<1>4. SubSeq(q, 1, 0) \o SubSeq(q, 2, Len(q)) = <<>>
  BY <1>1
<1>5. 1 - 1 = 0 /\ 1 + 1 = 2
  OBVIOUS
<1> QED BY <1>2, <1>3, <1>4, <1>5 DEF Without, q

LEMMA StopStep ==
  ASSUME UdpAssumption, UdpInv, r_ev_udp_recv_stop, Iocp \/ pc # "recvcb"
  PROVE  UdpInv'
<1> USE DEF UdpInv, evio
<1>0. pc' = pc /\ h' = h /\ h.held /\ pc \in {"user", "recvcb", "donecb"}
  BY DEF r_ev_udp_recv_stop, Program
<1>1. CASE Iocp
  <2>1. /\ s' = [s EXCEPT !.iocp_recv_active = FALSE] /\ UNCHANGED evio
        /\ k' = [k EXCEPT !.rop = IF @ = "armed" THEN "aborted" ELSE @]
    BY Zenon, <1>1 DEF r_ev_udp_recv_stop
  <2>2. s' \in Source
    BY Zenon, <2>1 DEF UdpType, Source
  <2>3. k' \in KernelState
    BY Zenon, <2>1 DEF UdpType, KernelState, Ops
  <2>4. UdpType'
    BY <1>0, <2>2, <2>3 DEF UdpType
  <2>5. /\ SameSends /\ s'.backend = s.backend /\ s'.bcbs = s.bcbs /\ s'.recv_iocb_ctx = s.recv_iocb_ctx
        /\ s'.iocp_recv_active = FALSE /\ s'.iocp_associated = s.iocp_associated /\ s'.ret = s.ret
        /\ k'.inq = k.inq /\ k'.sops = k.sops /\ (k'.rop = "none" <=> k.rop = "none")
    BY <1>0, <2>1 DEF UdpType, SameSends, Source, KernelState
  <2>6. Returns' /\ OneSender' /\ RefsExact'
    <3>1. Returns'
      BY <1>0, <2>5 DEF Returns, Iocp, SameSends
    <3>2. OneSender'
      BY <1>0, <2>5 DEF OneSender, Iocp, SameSends
    <3>3. RefsExact'
      BY <1>0, <2>5 DEF RefsExact, SameSends
    <3> QED BY <3>1, <3>2, <3>3
  <2>7. Watched'
    BY <1>0, <1>1, <2>1, <2>5 DEF Watched, Iocp
  <2> QED BY <2>4, <2>5, <2>6, <2>7, SameDatagrams
<1>2. CASE ~Iocp
  <2>1. /\ s.recv_iocb_ctx # 0 /\ r_ev_io_stop(Node) /\ k' = k
        /\ s' = [s EXCEPT !.recv_iocb_ctx = 0, !.recv_data = "released"]
    BY Zenon, <1>2 DEF r_ev_udp_recv_stop
  <2>2. s' \in Source
    BY Zenon, <2>1 DEF UdpType, Source
  <2>3. UdpType' /\ SameSends
    BY <1>0, <2>1, <2>2 DEF UdpType, SameSends, Source
  <2>4. Returns' /\ OneSender' /\ RefsExact'
    BY Zenon, <1>0, <2>1 DEF Returns, OneSender, RefsExact, Iocp, UdpType, Source
  <2>5. Watched'
    <3>1. iocbq = <<[id |-> Node, events |-> {Readable}]>>
      BY <2>1 DEF Watched
    <3>2. iocbq' = <<>>
      BY <2>1, <3>1, Removed DEF r_ev_io_stop
    <3>3. /\ s'.recv_iocb_ctx = 0 /\ s'.backend = s.backend
          /\ s'.iocp_associated = s.iocp_associated /\ s'.iocp_recv_active = s.iocp_recv_active
      BY <2>1 DEF UdpType, Source
    <3> QED BY <1>0, <1>2, <2>1, <3>2, <3>3 DEF Watched, Iocp, r_ev_io_stop
  <2> QED BY <2>3, <2>4, <2>5, SameDatagrams
<1> QED BY <1>1, <1>2

\* A reference is dropped by its holder.
Dropping(h0) ==
  /\ Unref(s, h0) /\ Len(k'.sops) = Len(k.sops) /\ h0 \in History /\ SameHistory(h0, [h EXCEPT !.held = h0.held, !.blocked = h0.blocked])
  /\ h0.sent = h.sent /\ h0.dropped = h.dropped /\ h0.notified = h.notified

LEMMA DropEffect ==
  ASSUME UdpType, RefsExact, Datagrams, OneSender, NEW h0, Dropping(h0), s.ctx = 0, h.held \/ k.rop # "none" \/ Running
  PROVE  /\ s' \in Source /\ SameSource(s', s) /\ s'.refs = s.refs - 1 /\ s'.refs \in Nat
         /\ s'.qsend # <<>> => s'.qsend = s.qsend
         /\ s'.refs = 0 => s'.qsend = <<>> /\ s.bcbs = 0 /\ k.sops = <<>>
         /\ s'.refs # 0 => s'.qsend = s.qsend
         /\ h' \in History /\ SameHistory(h', h0)
         /\ Datagrams'
<1> USE DEF Dropping
<1>1. s \in Source /\ h0 \in History /\ Unref(s, h0)
  BY DEF UdpType
<1>2. s.refs \in Nat /\ s.refs > 0 /\ (s.refs = 1 => s.bcbs = 0 /\ k.sops = <<>>)
  BY RefsFacts
<1>3. /\ s' \in Source /\ SameSource(s', s) /\ s'.refs = s.refs - 1
      /\ h' \in History /\ SameHistory(h', h0)
      /\ s.refs > 1 => s'.qsend = s.qsend
      /\ s.refs <= 1 => s'.qsend = <<>>
  BY Zenon, <1>1, UnrefEffect
<1>4. s'.refs \in Nat /\ (s'.refs = 0 <=> s.refs <= 1) /\ (s'.refs # 0 <=> s.refs > 1) /\ (s'.refs = 0 => s.refs = 1)
  BY <1>2, <1>3
<1>5. Len(k.sops) \in Nat /\ (s.refs = 1 => Len(k.sops) = 0)
  BY <1>2, UdpFacts, Lengths
<1>6. /\ h0.nsend = h.nsend /\ h0.done = h.done /\ h0.sent = h.sent /\ h0.dropped = h.dropped /\ h0.notified = h.notified
  BY DEF SameHistory, UdpType, History
<1>7. Accounted(s.qsend, s.ctx, TRUE, Len(k.sops), h0.nsend, h0.sent, h0.done, h0.dropped, h0.notified)
  <2>1. (s.refs > 0) = TRUE
    BY <1>2
  <2> QED BY Zenon, <1>6, <2>1 DEF Datagrams
<1>8. Accounted(s'.qsend, s'.ctx, s'.refs > 0, Len(k.sops), h'.nsend, h'.sent, h'.done, h'.dropped, h'.notified)
  <2>1. s.refs >= 1 /\ (s.refs = 1 => Len(k.sops) = 0 /\ s.ctx = 0)
    BY <1>2, <1>5
  <2>2. Len(k.sops) \in Nat
    BY <1>5
  <2> QED BY ZenonT(40), <1>1, <1>7, <2>1, <2>2, UnrefAccounted
<1>9. Datagrams'
  BY <1>8 DEF Datagrams
<1> QED BY Zenon, <1>2, <1>3, <1>4, <1>9

LEMMA ReleaseStep ==
  ASSUME UdpAssumption, UdpInv, Release
  PROVE  UdpInv'
<1> USE DEF UdpInv, evio
<1> DEFINE h0 == [h EXCEPT !.held = FALSE]
<1>1. /\ h.held /\ pc = "user" /\ s.recv_iocb_ctx = 0 /\ ~s.iocp_recv_active
      /\ Unref(s, h0) /\ UNCHANGED <<evio, k, pc>>
  BY DEF Release
<1>2. h0 \in History
  BY Zenon DEF UdpType, History
<1>3. h0.held = FALSE /\ h0.blocked = h.blocked /\ h0.undrained = h.undrained /\ h0.late = h.late /\ Dropping(h0)
  BY <1>1, <1>2 DEF Dropping, SameHistory, UdpType, History
<1>4. s.ctx = 0
  BY <1>1 DEF Returns
<1> HIDE DEF h0
<1>5. /\ s' \in Source /\ SameSource(s', s) /\ s'.refs = s.refs - 1 /\ s'.refs \in Nat
      /\ s'.qsend # <<>> => s'.qsend = s.qsend
      /\ s'.refs = 0 => s'.qsend = <<>> /\ s.bcbs = 0 /\ k.sops = <<>>
      /\ s'.refs # 0 => s'.qsend = s.qsend
      /\ h' \in History /\ SameHistory(h', h0)
      /\ Datagrams'
  BY Zenon, <1>1, <1>3, <1>4, DropEffect
<1>6. UdpType'
  BY <1>1, <1>5 DEF UdpType
<1>7. Returns'
  BY <1>1, <1>5 DEF Returns, Iocp, SameSource
<1>8. Watched'
  BY Zenon, <1>1, <1>3, <1>5 DEF Watched, Iocp, SameSource, SameHistory
<1>9. OneSender'
  BY Zenon, <1>1, <1>3, <1>5 DEF OneSender, Iocp, SameSource, SameHistory
<1>10. RefsExact'
  <2>1. /\ Own = 1 /\ Own' = 0 /\ Waiting' = Waiting /\ Flights' = Flights /\ Recv' = Recv /\ Run' = Run
        /\ Refs' = Refs - 1
    BY Zenon, <1>1, <1>3, <1>5, Terms DEF Running, SameSource, SameHistory
  <2> QED BY <2>1, RefsSum, TermTypes
<1> QED BY <1>5, <1>6, <1>7, <1>8, <1>9, <1>10

LEMMA SendPathStep ==
  ASSUME UdpAssumption, UdpInv, SendDrained \/ SendOk \/ SendBlocks \/ SendFails
  PROVE  UdpInv'
<1> USE DEF UdpInv, evio
<1>0. /\ pc = "send" /\ s.ctx = 0 /\ k.sops = <<>> /\ Len(k.sops) = 0 /\ Running /\ s.ret = "user"
      /\ s.refs \in Nat /\ s.refs > 0 /\ (s.refs > 0) = TRUE
  <2>1. pc = "send"
    BY DEF SendDrained, SendOk, SendBlocks, SendFails
  <2>2. s.ctx = 0 /\ k.sops = <<>> /\ Running /\ s.ret = "user"
    BY <2>1 DEF Returns, OneSender, Running
  <2>3. s.refs \in Nat /\ s.refs > 0
    BY <2>2, RefsFacts
  <2> QED BY <2>1, <2>2, <2>3
<1>1. ASSUME NEW h0, Dropping(h0), pc' = "bcbs", k' = k, h0.held = h.held, h0.late = h.late, h0.undrained = h.undrained,
             UNCHANGED evio, s.qsend # <<>> => h0.blocked
      PROVE  UdpInv'
  <2>1. /\ s' \in Source /\ SameSource(s', s) /\ s'.refs = s.refs - 1 /\ s'.refs \in Nat
        /\ s'.qsend # <<>> => s'.qsend = s.qsend
        /\ s'.refs = 0 => s'.qsend = <<>> /\ s.bcbs = 0 /\ k.sops = <<>>
        /\ s'.refs # 0 => s'.qsend = s.qsend
        /\ h' \in History /\ SameHistory(h', h0)
        /\ Datagrams'
    BY Zenon, <1>0, <1>1, DropEffect
  <2>2. UdpType'
    BY <1>1, <2>1 DEF UdpType
  <2>3. Returns'
    BY <1>0, <1>1, <2>1 DEF Returns, Iocp, SameSource
  <2>4. Watched'
    BY Zenon, <1>0, <1>1, <2>1 DEF Watched, Iocp, SameSource, SameHistory
  <2>5. OneSender'
    BY Zenon, <1>0, <1>1, <2>1 DEF OneSender, Iocp, SameSource, SameHistory
  <2>6. RefsExact'
    <3>1. ~Running'
      BY <1>1 DEF Running
    <3>2. /\ Own' = Own /\ Waiting' = Waiting /\ Flights' = Flights /\ Recv' = Recv /\ Run = 1 /\ Run' = 0
          /\ Refs' = Refs - 1
      BY <1>0, <1>1, <2>1, <3>1, Terms DEF SameSource, SameHistory
    <3> QED BY <3>2, RefsSum, TermTypes
  <2> QED BY <2>1, <2>2, <2>3, <2>4, <2>5, <2>6
<1>2. CASE SendDrained
  <2>1. Dropping(h)
    BY <1>2 DEF SendDrained, Dropping, SameHistory, UdpType, History
  <2> QED BY Zenon, <1>1, <1>2, <2>1 DEF SendDrained
<1>3. CASE SendBlocks
  <2> DEFINE h0 == [h EXCEPT !.blocked = TRUE]
  <2>1. h0 \in History
    BY Zenon DEF UdpType, History
  <2>2. Dropping(h0)
    BY <1>3, <2>1 DEF SendBlocks, Dropping, SameHistory, UdpType, History
  <2>3. h0.held = h.held /\ h0.late = h.late /\ h0.undrained = h.undrained /\ h0.blocked
    BY DEF UdpType, History
  <2> HIDE DEF h0
  <2> QED BY <1>1, <1>3, <2>2, <2>3 DEF SendBlocks
<1>4. CASE SendOk
  <2> DEFINE q == s.qsend
  <2>1. /\ q # <<>> /\ q \in Seq(Nat) /\ Head(q) \in Nat /\ Tail(q) \in Seq(Nat) /\ First(q) = <<Head(q)>> /\ Len(First(q)) = 1
    BY Zenon, <1>4, UdpFacts, FirstFacts DEF SendOk
  <2>2. /\ k' = [k EXCEPT !.room = @ - 1] /\ pc' = "donecb" /\ UNCHANGED evio
        /\ s' = [s EXCEPT !.qsend = Tail(q), !.ctx = Head(q), !.ret = "send"]
        /\ h' = [h EXCEPT !.sent = Append(@, Head(q)), !.done = Append(@, Head(q))]
    BY <1>4 DEF SendOk
  <2>3. k.room - 1 \in Int /\ h.sent \in Seq(Nat) /\ h.done \in Seq(Nat) /\ h.nsend \in Nat
    BY UdpFacts
  <2>4. Append(h.sent, Head(q)) \in Seq(Nat) /\ Append(h.done, Head(q)) \in Seq(Nat) /\ Append(h.sent, Head(q)) = h.sent \o <<Head(q)>>
    BY Zenon, <2>1, <2>3, Appended
  <2> HIDE DEF q
  <2>5. s' \in Source
    BY Zenon, <2>1, <2>2 DEF UdpType, Source
  <2>6. k' \in KernelState
    BY Zenon, <2>2, <2>3 DEF UdpType, KernelState
  <2>7. h' \in History
    BY Zenon, <2>2, <2>4 DEF UdpType, History
  <2>8. UdpType'
    BY <2>2, <2>5, <2>6, <2>7 DEF UdpType
  <2>9. /\ s'.backend = s.backend /\ s'.bcbs = s.bcbs /\ s'.recv_iocb_ctx = s.recv_iocb_ctx /\ s'.recv_data = s.recv_data
        /\ s'.iocp_recv_active = s.iocp_recv_active /\ s'.iocp_associated = s.iocp_associated /\ s'.refs = s.refs
        /\ s'.ctx = Head(q) /\ s'.ret = "send" /\ s'.qsend = Tail(q)
    BY <2>2 DEF UdpType, Source
  <2>10. k'.sops = k.sops /\ k'.rop = k.rop /\ k'.inq = k.inq
    BY <2>2 DEF UdpType, KernelState
  <2>11. /\ h'.nsend = h.nsend /\ h'.held = h.held /\ h'.late = h.late /\ h'.undrained = h.undrained /\ h'.blocked = h.blocked
         /\ h'.sent = Append(h.sent, Head(q)) /\ h'.done = Append(h.done, Head(q)) /\ h'.dropped = h.dropped /\ h'.notified = h.notified
    BY <2>2 DEF UdpType, History
  <2>12. Accounted(Tail(q), Head(q), TRUE, 0, h.nsend, Append(h.sent, Head(q)), Append(h.done, Head(q)), h.dropped, h.notified)
    <3>1. Accounted(q, 0, TRUE, 0, h.nsend, h.sent, h.done, h.dropped, h.notified)
      BY Zenon, <1>0 DEF Datagrams, q
    <3>2. Accounted(q, 0, TRUE, 1, h.nsend, Append(h.sent, Head(q)), h.done, h.dropped, h.notified)
      <4>1. Accounted(q, 0, TRUE, Len(First(q)), h.nsend, h.sent \o First(q), h.done, h.dropped, h.notified)
        BY Zenon, <2>1, <2>3, <3>1, Posted
      <4> QED BY Zenon, <2>1, <2>4, <4>1
    <3>3. 1 \in 0 .. 1
      OBVIOUS
    <3> QED BY Zenon, <2>1, <2>3, <2>4, <3>2, <3>3, Completed
  <2>13. Head(q) # 0
    <3>1. Accounted(q, 0, TRUE, 0, h.nsend, h.sent, h.done, h.dropped, h.notified)
      BY Zenon, <1>0 DEF Datagrams, q
    <3> QED BY Zenon, <2>1, <2>3, <3>1, Ahead
  <2>14. Returns'
    BY <1>0, <2>2, <2>9, <2>10, <2>13 DEF Returns, Iocp
  <2>15. Watched'
    BY <1>0, <2>2, <2>9, <2>10, <2>11 DEF Watched, Iocp
  <2>16. OneSender'
    BY <1>0, <2>2, <2>9, <2>10, <2>11 DEF OneSender, Iocp
  <2>17. RefsExact'
    <3>1. Running'
      BY <2>2, <2>9 DEF Running
    <3>2. /\ Own' = Own /\ Waiting' = Waiting /\ Flights' = Flights /\ Recv' = Recv /\ Run = 1 /\ Run' = 1
          /\ Refs' = Refs
      BY Zenon, <1>0, <2>9, <2>10, <2>11, <3>1, Terms
    <3> QED BY <3>2, RefsSum, TermTypes
  <2>18. Datagrams'
    BY Zenon, <1>0, <2>9, <2>10, <2>11, <2>12 DEF Datagrams
  <2> QED BY <2>8, <2>14, <2>15, <2>16, <2>17, <2>18
<1>5. CASE SendFails
  <2> DEFINE q == s.qsend
  <2>1. /\ q # <<>> /\ q \in Seq(Nat) /\ Head(q) \in Nat /\ Tail(q) \in Seq(Nat)
    BY Zenon, <1>5, UdpFacts, FirstFacts DEF SendFails
  <2>2. /\ k' = k /\ pc' = pc /\ UNCHANGED evio
        /\ s' = [s EXCEPT !.qsend = Tail(q)]
        /\ h' = [h EXCEPT !.dropped = Append(@, Head(q)), !.notified = Append(@, Head(q))]
    BY <1>5 DEF SendFails
  <2>3. h.dropped \in Seq(Nat) /\ h.notified \in Seq(Nat) /\ h.sent \in Seq(Nat) /\ h.nsend \in Nat
    BY UdpFacts
  <2>4. Append(h.dropped, Head(q)) \in Seq(Nat) /\ Append(h.notified, Head(q)) \in Seq(Nat)
    BY Zenon, <2>1, <2>3, Appended
  <2> HIDE DEF q
  <2>5. s' \in Source
    BY Zenon, <2>1, <2>2 DEF UdpType, Source
  <2>6. h' \in History
    BY Zenon, <2>2, <2>4 DEF UdpType, History
  <2>7. UdpType'
    BY <2>2, <2>5, <2>6 DEF UdpType
  <2>8. SameSource(s', s) /\ s'.refs = s.refs /\ s'.qsend = Tail(q)
    BY <2>2 DEF UdpType, Source, SameSource
  <2>9. /\ SameHistory(h', h) /\ h'.sent = h.sent
        /\ h'.dropped = Append(h.dropped, Head(q)) /\ h'.notified = Append(h.notified, Head(q))
    BY <2>2 DEF UdpType, History, SameHistory
  <2>10. Returns'
    BY <2>2, <2>8 DEF Returns, Iocp, SameSource
  <2>11. Watched'
    BY <1>0, <2>2, <2>8, <2>9 DEF Watched, Iocp, SameSource, SameHistory
  <2>12. OneSender'
    BY <1>0, <2>2, <2>8, <2>9 DEF OneSender, Iocp, SameSource, SameHistory
  <2>13. RefsExact'
    BY <2>2, <2>8, <2>9 DEF RefsExact, SameSource, SameHistory
  <2>14. Accounted(Tail(q), 0, TRUE, 0, h.nsend, h.sent, h.done, Append(h.dropped, Head(q)), Append(h.notified, Head(q)))
    <3>1. Accounted(q, 0, TRUE, 0, h.nsend, h.sent, h.done, h.dropped, h.notified)
      BY Zenon, <1>0 DEF Datagrams, q
    <3>2. 0 \in Nat /\ 0 <= 1
      OBVIOUS
    <3> QED BY Zenon, <2>1, <2>3, <3>1, <3>2, HeadDropped
  <2>15. Datagrams'
    BY Zenon, <1>0, <2>2, <2>8, <2>9, <2>14 DEF Datagrams, SameSource, SameHistory
  <2> QED BY <2>7, <2>10, <2>11, <2>12, <2>13, <2>15
<1> QED BY <1>2, <1>3, <1>4, <1>5

LEMMA RecvFailedStep ==
  ASSUME UdpAssumption, UdpInv, RecvCompleteFailed
  PROVE  UdpInv'
<1> USE DEF UdpInv, evio
<1>0. pc = "poll" /\ pc' = pc /\ UNCHANGED evio /\ k.rop \in {"aborted", "failed"} /\ s.ctx = 0 /\ s.ret = "user"
  BY DEF RecvCompleteFailed, Returns
<1>1. CASE k.rop = "failed" /\ s.iocp_recv_active
  <2> DEFINE s0 == [s EXCEPT !.refs = @ - 1]
  <2>1. r_ev_udp_iocp_post_recv(s0) /\ h' = h
    BY Zenon, <1>1 DEF RecvCompleteFailed
  <2>2. s.refs - 1 \in Int
    BY <1>0, RefsFacts
  <2>3. s0 \in Source
    BY Zenon, <2>2 DEF UdpType, Source
  <2>4. /\ s0.backend = s.backend /\ s0.bcbs = s.bcbs /\ s0.recv_iocb_ctx = s.recv_iocb_ctx /\ s0.recv_data = s.recv_data
        /\ s0.iocp_recv_active = s.iocp_recv_active /\ s0.ctx = s.ctx /\ s0.ret = s.ret
        /\ s0.qsend = s.qsend /\ s0.refs = s.refs - 1
    BY DEF UdpType, Source
  <2> HIDE DEF s0
  <2>5. /\ s' \in Source /\ s'.backend = s.backend /\ s'.bcbs = s.bcbs /\ s'.recv_iocb_ctx = s.recv_iocb_ctx
        /\ s'.recv_data = s.recv_data /\ s'.iocp_recv_active = s.iocp_recv_active /\ s'.ctx = s.ctx /\ s'.ret = s.ret
        /\ s'.qsend = s.qsend /\ s'.refs = s.refs - 1 + 1
        /\ k' \in KernelState /\ k'.rop = "armed" /\ k'.inq = k.inq /\ k'.sops = k.sops
    BY <2>1, <2>3, <2>4, RearmEffect DEF UdpType
  <2>6. s'.refs = s.refs
    <3>1. s.refs \in Int
      BY UdpFacts
    <3> QED BY <2>5, <3>1
  <2>7. UdpType' /\ SameSends
    BY <1>0, <2>1, <2>5, <2>6 DEF UdpType, SameSends
  <2>8. Returns'
    BY <1>0, <2>5 DEF Returns, Iocp
  <2>9. Watched'
    BY Zenon, <1>0, <1>1, <2>1, <2>5 DEF Watched, Iocp
  <2>10. OneSender'
    BY Zenon, <1>0, <2>1, <2>5, <2>6 DEF OneSender, Iocp
  <2>11. RefsExact'
    BY <1>0, <1>1, <2>1, <2>5, <2>6 DEF RefsExact
  <2> QED BY <2>7, <2>8, <2>9, <2>10, <2>11, SameDatagrams
<1>2. CASE ~(k.rop = "failed" /\ s.iocp_recv_active)
  <2>1. Unref(s, h) /\ k' = [k EXCEPT !.rop = "none"] /\ ~s.iocp_recv_active
    BY <1>0, <1>2 DEF RecvCompleteFailed, Watched
  <2>2. k' \in KernelState
    BY Zenon, <2>1 DEF UdpType, KernelState, Ops
  <2>3. k'.rop = "none" /\ k'.inq = k.inq /\ k'.sops = k.sops
    BY <2>1 DEF UdpType, KernelState
  <2>4. Dropping(h)
    BY <2>1, <2>3 DEF Dropping, SameHistory, UdpType, History
  <2>5. /\ s' \in Source /\ SameSource(s', s) /\ s'.refs = s.refs - 1 /\ s'.refs \in Nat
        /\ s'.qsend # <<>> => s'.qsend = s.qsend
        /\ s'.refs = 0 => s'.qsend = <<>> /\ s.bcbs = 0 /\ k.sops = <<>>
        /\ s'.refs # 0 => s'.qsend = s.qsend
        /\ h' \in History /\ SameHistory(h', h)
        /\ Datagrams'
    BY Zenon, <1>0, <2>4, DropEffect
  <2>6. UdpType'
    BY <1>0, <2>2, <2>5 DEF UdpType
  <2>7. Returns'
    BY <1>0, <2>3, <2>5 DEF Returns, Iocp, SameSource
  <2>8. Watched'
    BY <1>0, <2>1, <2>3, <2>5 DEF Watched, Iocp, SameSource, SameHistory
  <2>9. OneSender'
    BY <1>0, <2>3, <2>5 DEF OneSender, Iocp, SameSource, SameHistory
  <2>10. RefsExact'
    <3>1. /\ Own' = Own /\ Waiting' = Waiting /\ Flights' = Flights /\ Recv = 1 /\ Recv' = 0 /\ Run' = Run
          /\ Refs' = Refs - 1
      BY <1>0, <2>3, <2>5, Terms DEF Running, SameSource, SameHistory
    <3> QED BY <3>1, RefsSum, TermTypes
  <2> QED BY <2>5, <2>6, <2>7, <2>8, <2>9, <2>10
<1> QED BY <1>1, <1>2

LEMMA SendStep ==
  ASSUME UdpAssumption, UdpInv, r_ev_udp_send, ~(Iocp /\ pc = "donecb")
  PROVE  UdpInv'
<1> USE DEF UdpInv, evio
<1> DEFINE s1 == [s EXCEPT !.qsend = Append(@, h.nsend + 1)]
           h1 == [h EXCEPT !.nsend = @ + 1]
<1>0. pc' = pc /\ UNCHANGED evio /\ h.held /\ pc \in {"user", "recvcb", "donecb"}
  BY DEF r_ev_udp_send, Program
<1>1. /\ s.qsend \in Seq(Nat) /\ h.nsend \in Nat /\ h.nsend + 1 \in Nat /\ s.refs \in Nat /\ s.refs > 0
      /\ h.sent \in Seq(Nat) /\ s.ctx \in Nat /\ Len(k.sops) \in Nat /\ k.sops \in Seq(Results)
  <2>1. s.refs \in Nat /\ s.refs > 0
    BY <1>0, RefsFacts
  <2>2. h.nsend \in Nat
    BY UdpFacts
  <2>3. h.nsend + 1 \in Nat
    BY <2>2
  <2> QED BY <2>1, <2>2, <2>3, UdpFacts
<1>2. Append(s.qsend, h.nsend + 1) \in Seq(Nat) /\ Append(s.qsend, h.nsend + 1) # <<>>
      /\ (Len(Append(s.qsend, h.nsend + 1)) = 1 <=> s.qsend = <<>>)
  BY Zenon, <1>1, Longer
<1>3. s1 \in Source
  BY Zenon, <1>2 DEF UdpType, Source
<1>4. SameSource(s1, s) /\ s1.refs = s.refs /\ s1.qsend = Append(s.qsend, h.nsend + 1)
  BY DEF UdpType, Source, SameSource
<1>5. h1 \in History
  BY Zenon, <1>1 DEF UdpType, History
<1>6. /\ h1.nsend = h.nsend + 1 /\ h1.held = h.held /\ h1.sent = h.sent /\ h1.done = h.done /\ h1.dropped = h.dropped
      /\ h1.notified = h.notified /\ h1.blocked = h.blocked /\ h1.undrained = h.undrained /\ h1.late = h.late
  BY DEF UdpType, History
<1>7. Accounted(s1.qsend, s.ctx, TRUE, Len(k.sops), h1.nsend, h1.sent, h1.done, h1.dropped, h1.notified)
  <2>1. Accounted(s.qsend, s.ctx, TRUE, Len(k.sops), h.nsend, h.sent, h.done, h.dropped, h.notified)
    <3>1. (s.refs > 0) = TRUE
      BY <1>1
    <3> QED BY Zenon, <3>1 DEF Datagrams
  <2>2. Accounted(Append(s.qsend, h.nsend + 1), s.ctx, TRUE, Len(k.sops), h.nsend + 1, h.sent, h.done, h.dropped, h.notified)
    BY ZenonT(40), <1>1, <2>1, Queued
  <2> QED BY Zenon, <1>4, <1>6, <2>2
<1>8. IF s.qsend = <<>> /\ s.iocp_associated THEN \E n \in 0 .. MaxFail : r_ev_udp_iocp_post_send(s1, h1, n)
      ELSE /\ s' = [s1 EXCEPT !.bcbs = @ + Bool(s.qsend = <<>>), !.refs = @ + Bool(s.qsend = <<>>)] /\ h' = h1 /\ k' = k
  <2>1. Len(s1.qsend) = 1 <=> s.qsend = <<>>
    BY <1>2, <1>4
  <2> QED BY Zenon, <2>1 DEF r_ev_udp_send
<1>9. CASE s.qsend = <<>> /\ s.iocp_associated
  <2>1. PICK n \in 0 .. MaxFail : r_ev_udp_iocp_post_send(s1, h1, n)
    BY Zenon, <1>8, <1>9
  <2>2. n \in Nat
    BY DEF UdpAssumption
  <2>3. Iocp /\ k.sops = <<>> /\ Len(k.sops) = 0 /\ s.bcbs = 0 /\ pc # "donecb"
    BY <1>9 DEF Watched, OneSender
  <2> HIDE DEF s1, h1
  <2>4. /\ s' \in Source /\ SameSource(s', s1) /\ s'.refs = s1.refs + Len(First(s'.qsend))
        /\ k' \in KernelState /\ k'.rop = k.rop /\ k'.inq = k.inq /\ Len(k'.sops) = Len(k.sops) + Len(First(s'.qsend))
        /\ h' \in History /\ SameHistory(h', h1)
    BY Zenon, <1>3, <1>5, <2>1, <2>2, PostEffect DEF UdpType
  <2>5. UdpType'
    BY <1>0, <2>4 DEF UdpType
  <2>6. s'.qsend \in Seq(Nat) /\ k'.sops \in Seq(Results)
    BY <2>4 DEF Source, KernelState
  <2>4a. /\ s'.backend = s.backend /\ s'.bcbs = s.bcbs /\ s'.recv_iocb_ctx = s.recv_iocb_ctx /\ s'.recv_data = s.recv_data
        /\ s'.iocp_recv_active = s.iocp_recv_active /\ s'.iocp_associated = s.iocp_associated
        /\ h'.held = h.held /\ h'.late = h.late /\ h'.undrained = h.undrained /\ h'.blocked = h.blocked
    BY Zenon, <1>4, <1>6, <2>4 DEF SameSource, SameHistory
  <2>7. Len(First(s'.qsend)) = (IF s'.qsend = <<>> THEN 0 ELSE 1) /\ Len(k'.sops) = Len(First(s'.qsend))
    <3>1. Len(First(s'.qsend)) = (IF s'.qsend = <<>> THEN 0 ELSE 1)
      BY Zenon, <2>6, FirstFacts
    <3> QED BY <2>3, <2>4, <3>1
  <2>8. (k'.sops = <<>> <=> s'.qsend = <<>>) /\ Len(k'.sops) <= 1
    BY <2>6, <2>7, Lengths
  <2>9. Returns'
    BY Zenon, <1>0, <1>4, <2>4 DEF Returns, Iocp, SameSource
  <2>10. Watched'
    BY Zenon, <1>0, <2>4, <2>4a DEF Watched, Iocp
  <2>11. s'.refs > 0 /\ (s'.refs > 0) = TRUE
    <3>1. s'.refs = s.refs + Len(k'.sops)
      BY Zenon, <1>4, <2>4, <2>7
    <3>2. Len(k'.sops) \in Nat
      BY Zenon, <2>6, Lengths
    <3> QED BY Zenon, <1>1, <3>1, <3>2, StaysPositive
  <2>12. OneSender'
    <3>1. k'.sops # <<>> => Len(k'.sops) = 1
      BY <2>7, <2>8
    <3>2. s'.bcbs = 0 /\ s'.bcbs <= 1 /\ s'.refs # 0 /\ pc' # "donecb"
      BY <1>0, <2>3, <2>4a, <2>11
    <3>3. pc' = pc /\ pc # "send"
      BY Zenon, <1>0, <2>3
    <3>4. Iocp'
      BY Zenon, <2>3, <2>4a DEF Iocp
    <3> QED BY Zenon, <2>8, <3>1, <3>2, <3>3, <3>4 DEF OneSender
  <2>13. RefsExact'
    <3> DEFINE l == Len(First(s'.qsend))
    <3>1. l \in Nat
      BY <2>7
    <3>2. Flights' = Flights + l /\ Refs' = Refs + l
      BY <1>4, <2>4, Terms
    <3>3. Own' = Own /\ Waiting' = Waiting /\ Recv' = Recv /\ Run' = Run
      BY Zenon, <1>0, <1>4, <1>6, <2>4, Terms DEF Running, SameSource, SameHistory
    <3> HIDE DEF l
    <3> QED BY <3>1, <3>2, <3>3, RefsSum, TermTypes
  <2>14. Datagrams'
    <3>1. Accounted(s1.qsend, s1.ctx, TRUE, 0, h1.nsend, h1.sent, h1.done, h1.dropped, h1.notified)
      BY Zenon, <1>4, <1>7, <2>3 DEF SameSource
    <3>2. Accounted(s'.qsend, s'.ctx, TRUE, Len(k'.sops), h'.nsend, h'.sent, h'.done, h'.dropped, h'.notified)
      <4>1. k \in KernelState
        BY DEF UdpType
      <4> QED BY ZenonT(40), <1>3, <1>5, <2>1, <2>2, <2>3, <3>1, <4>1, PostAccounted
    <3> QED BY Zenon, <2>11, <3>2 DEF Datagrams
  <2> QED BY <2>5, <2>9, <2>10, <2>12, <2>13, <2>14
<1>10. CASE ~(s.qsend = <<>> /\ s.iocp_associated)
  <2> DEFINE b == Bool(s.qsend = <<>>)
  <2>1. s' = [s1 EXCEPT !.bcbs = @ + b, !.refs = @ + b] /\ h' = h1 /\ k' = k
    BY Zenon, <1>8, <1>10
  <2>2. b = IF s.qsend = <<>> THEN 1 ELSE 0
    BY DEF Bool
  <2> HIDE DEF b, s1, h1
  <2>3. s1.bcbs + b \in Nat /\ s1.refs + b \in Int /\ s1.bcbs = s.bcbs /\ s.bcbs \in Nat
    <3>1. s.bcbs \in Nat
      BY UdpFacts
    <3> QED BY <1>1, <1>4, <2>2, <3>1 DEF SameSource
  <2>4. s' \in Source
    BY Zenon, <1>3, <2>1, <2>3 DEF Source
  <2>5. /\ s'.backend = s.backend /\ s'.bcbs = s.bcbs + b /\ s'.recv_iocb_ctx = s.recv_iocb_ctx /\ s'.recv_data = s.recv_data
        /\ s'.iocp_recv_active = s.iocp_recv_active /\ s'.iocp_associated = s.iocp_associated /\ s'.refs = s.refs + b
        /\ s'.ctx = s.ctx /\ s'.ret = s.ret /\ s'.qsend = s1.qsend /\ s'.qsend # <<>>
    BY <1>2, <1>3, <1>4, <2>1 DEF Source, SameSource
  <2>6. UdpType'
    BY <1>0, <1>5, <2>1, <2>4 DEF UdpType
  <2>7. Returns'
    BY <1>0, <2>1, <2>5 DEF Returns, Iocp
  <2>8. Watched'
    BY Zenon, <1>0, <1>6, <2>1, <2>5 DEF Watched, Iocp
  <2>9. s'.refs > 0 /\ (s'.refs > 0) = TRUE
    BY <1>1, <2>2, <2>5
  <2>10. OneSender'
    BY <1>0, <1>6, <2>1, <2>2, <2>3, <2>5, <2>9 DEF OneSender, Iocp
  <2>11. RefsExact'
    <3>1. /\ Own' = Own /\ Waiting' = Waiting + b /\ Flights' = Flights /\ Recv' = Recv /\ Run' = Run /\ Refs' = Refs + b
      BY <1>0, <1>6, <2>1, <2>5, Terms DEF Running
    <3>2. b \in Nat
      BY <2>2
    <3> QED BY <3>1, <3>2, RefsSum, TermTypes
  <2>12. Datagrams'
    BY Zenon, <1>7, <2>1, <2>5, <2>9 DEF Datagrams
  <2> QED BY <2>6, <2>7, <2>8, <2>10, <2>11, <2>12
<1> QED BY <1>9, <1>10

LEMMA SendCompleteStep ==
  ASSUME UdpAssumption, UdpInv, r_ev_udp_iocp_send_complete
  PROVE  UdpInv'
<1> USE DEF UdpInv, evio
<1> DEFINE q == s.qsend
           d == Head(q)
           s1 == [s EXCEPT !.qsend = Tail(@)]
<1>0. pc = "poll" /\ UNCHANGED evio /\ k.sops # <<>> /\ Head(k.sops) # "flight" /\ s.ctx = 0 /\ s.ret = "user"
  BY DEF r_ev_udp_iocp_send_complete, Returns
<1>1. Iocp /\ Len(k.sops) = 1 /\ q # <<>> /\ s.bcbs = 0
  BY <1>0 DEF OneSender
<1>2. /\ q \in Seq(Nat) /\ d \in Nat /\ Tail(q) \in Seq(Nat) /\ k.sops \in Seq(Results) /\ k \in KernelState
      /\ h.done \in Seq(Nat) /\ h.dropped \in Seq(Nat) /\ h.notified \in Seq(Nat) /\ h.sent \in Seq(Nat) /\ h.nsend \in Nat
  BY Zenon, <1>1, UdpFacts, FirstFacts DEF UdpType
<1>3. Tail(k.sops) = <<>> /\ <<>> \in Seq(Results)
  BY <1>1, <1>2, OnlyOne
<1>4. s.refs \in Nat /\ s.refs >= 1 /\ (s.refs > 0) = TRUE
  <2>1. s.refs \in Nat /\ s.refs # 0
    BY <1>0, RefsFacts
  <2> QED BY <2>1
<1>5. Accounted(q, 0, TRUE, 1, h.nsend, h.sent, h.done, h.dropped, h.notified)
  BY Zenon, <1>0, <1>1, <1>4 DEF Datagrams
<1>6. CASE Head(k.sops) = "ok"
  <2>1. /\ k' = [k EXCEPT !.sops = Tail(@)] /\ pc' = "donecb"
        /\ s' = [s1 EXCEPT !.ctx = d, !.ret = "post"]
        /\ h' = [h EXCEPT !.done = Append(@, d)]
    BY Zenon, <1>1, <1>6 DEF r_ev_udp_iocp_send_complete
  <2>2. s' = [s EXCEPT !.qsend = Tail(q), !.ctx = d, !.ret = "post"]
    BY <2>1 DEF UdpType, Source
  <2>3. Append(h.done, d) \in Seq(Nat)
    BY Zenon, <1>2, Appended
  <2> HIDE DEF q, d, s1
  <2>4. s' \in Source
    BY Zenon, <1>2, <2>2 DEF UdpType, Source
  <2>5. k' \in KernelState
    BY Zenon, <1>3, <2>1 DEF UdpType, KernelState
  <2>6. h' \in History
    BY Zenon, <2>1, <2>3 DEF UdpType, History
  <2>7. UdpType'
    BY <2>1, <2>4, <2>5, <2>6 DEF UdpType
  <2>8. /\ s'.backend = s.backend /\ s'.bcbs = s.bcbs /\ s'.recv_iocb_ctx = s.recv_iocb_ctx /\ s'.recv_data = s.recv_data
        /\ s'.iocp_recv_active = s.iocp_recv_active /\ s'.iocp_associated = s.iocp_associated /\ s'.refs = s.refs
        /\ s'.ctx = d /\ s'.ret = "post" /\ s'.qsend = Tail(q)
    BY <2>2 DEF UdpType, Source
  <2>9. k'.sops = <<>> /\ k'.rop = k.rop /\ k'.inq = k.inq
    BY <1>3, <2>1 DEF UdpType, KernelState
  <2>10. /\ h'.nsend = h.nsend /\ h'.held = h.held /\ h'.late = h.late /\ h'.undrained = h.undrained /\ h'.blocked = h.blocked
         /\ h'.sent = h.sent /\ h'.done = Append(h.done, d) /\ h'.dropped = h.dropped /\ h'.notified = h.notified
    BY <2>1 DEF UdpType, History
  <2>11. Accounted(Tail(q), d, TRUE, 0, h.nsend, h.sent, Append(h.done, d), h.dropped, h.notified) /\ d # 0
    <3>1. 1 \in 0 .. 1 /\ 0 \in Nat
      OBVIOUS
    <3> QED BY ZenonT(40), <1>1, <1>2, <1>5, <3>1, Completed, Ahead DEF d
  <2>12. Returns'
    BY <1>0, <1>1, <2>1, <2>8, <2>9, <2>11 DEF Returns, Iocp
  <2>13. Watched'
    BY <1>0, <1>1, <2>1, <2>8, <2>9, <2>10 DEF Watched, Iocp
  <2>14. OneSender'
    BY <1>0, <1>1, <1>4, <2>1, <2>8, <2>9, <2>10 DEF OneSender, Iocp
  <2>15. RefsExact'
    <3>1. ~Running /\ Running'
      BY <1>0, <2>1, <2>8 DEF Running
    <3>2. /\ Own' = Own /\ Waiting' = Waiting /\ Flights = 1 /\ Flights' = 0 /\ Recv' = Recv /\ Run = 0 /\ Run' = 1
          /\ Refs' = Refs
      BY <1>1, <2>8, <2>9, <2>10, <3>1, Terms
    <3> QED BY <3>2, RefsSum, TermTypes
  <2>16. Len(k'.sops) = 0
    BY <2>9
  <2>17. Datagrams'
    BY Zenon, <1>4, <2>8, <2>10, <2>11, <2>16 DEF Datagrams
  <2> QED BY <2>7, <2>12, <2>13, <2>14, <2>15, <2>17
<1>7. CASE Head(k.sops) # "ok"
  <2> DEFINE first == First(Tail(q))
             ops == [i \in 1 .. Len(first) |-> "flight"]
             s0 == [s EXCEPT !.qsend = Tail(q), !.refs = @ + Len(first)]
             h0 == [h EXCEPT !.dropped = Append(@, d), !.notified = Append(@, d), !.sent = @ \o first]
  <2>0. s1.qsend = Tail(q)
    BY DEF UdpType, Source
  <2>1. /\ k' = [k EXCEPT !.sops = Tail(@) \o ops] /\ pc' = pc
        /\ Unref([s1 EXCEPT !.refs = @ + Len(first)], h0)
    BY Zenon, <1>1, <1>7, <2>0 DEF r_ev_udp_iocp_send_complete
  <2>2. [s1 EXCEPT !.refs = @ + Len(first)] = s0
    BY DEF UdpType, Source
  <2>3. first \in Seq(Nat) /\ Len(first) = (IF Tail(q) = <<>> THEN 0 ELSE 1)
    BY Zenon, <1>2, FirstFacts
  <2>4. Len(first) \in Nat /\ s.refs + Len(first) \in Int /\ s.refs + Len(first) >= 1
    BY <1>4, <2>3
  <2>5. ops \in Seq(Results) /\ Len(ops) = Len(first)
    <3> HIDE DEF first
    <3> QED BY <2>4 DEF Results
  <2>6. Append(h.dropped, d) \in Seq(Nat) /\ Append(h.notified, d) \in Seq(Nat) /\ h.sent \o first \in Seq(Nat)
    <3>1. h.sent \o first \in Seq(Nat)
      BY <1>2, <2>3, Joined
    <3> QED BY Zenon, <1>2, <3>1, Appended
  <2> HIDE DEF q, d, s1, first, ops
  <2>7. s0 \in Source
    BY Zenon, <1>2, <2>4 DEF UdpType, Source
  <2>8. SameSource(s0, s) /\ s0.refs = s.refs + Len(first) /\ s0.qsend = Tail(q)
    BY DEF UdpType, Source, SameSource
  <2>9. h0 \in History
    BY Zenon, <2>6 DEF UdpType, History
  <2>10. /\ SameHistory(h0, h) /\ h0.sent = h.sent \o first
         /\ h0.dropped = Append(h.dropped, d) /\ h0.notified = Append(h.notified, d)
    BY DEF UdpType, History, SameHistory
  <2>11. <<>> \o ops = ops
    BY <2>5
  <2>12. k' \in KernelState
    BY Zenon, <1>3, <2>1, <2>5, <2>11 DEF UdpType, KernelState
  <2>13. Len(k'.sops) = Len(first) /\ k'.rop = k.rop /\ k'.inq = k.inq
    BY Zenon, <1>3, <2>1, <2>5, <2>11 DEF UdpType, KernelState
  <2>14. Unref(s0, h0)
    BY Zenon, <2>1, <2>2
  <2> HIDE DEF s0, h0
  <2>15. /\ s' \in Source /\ SameSource(s', s0) /\ s'.refs = s0.refs - 1
         /\ h' \in History /\ SameHistory(h', h0)
         /\ s0.refs > 1 => s'.qsend = s0.qsend
         /\ s0.refs <= 1 => s'.qsend = <<>>
    BY Zenon, <2>7, <2>9, <2>14, UnrefEffect
  <2>16. UdpType'
    BY <1>0, <2>1, <2>12, <2>15 DEF UdpType
  <2>17. s0.refs = 1 => Len(first) = 0
    BY <1>4, <2>4, <2>8
  <2>18. /\ s'.qsend # <<>> <=> Len(first) = 1
         /\ s'.refs = 0 => s'.qsend = <<>>
    <3>1. s0.refs \in Int /\ s0.refs >= 1
      BY <2>4, <2>8
    <3>2. CASE s0.refs > 1
      <4>1. s'.qsend = Tail(q) /\ s'.refs # 0
        BY <2>8, <2>15, <3>1, <3>2
      <4> QED BY <2>3, <4>1
    <3>3. CASE s0.refs = 1
      BY <2>15, <2>17, <3>1, <3>3
    <3> QED BY <3>1, <3>2, <3>3
  <2>19. (k'.sops # <<>> <=> Len(first) = 1) /\ (k'.sops # <<>> => Len(k'.sops) = 1)
    <3>1. k'.sops \in Seq(Results)
      BY <2>12 DEF KernelState
    <3> QED BY <2>3, <2>13, <3>1, Lengths
  <2>20. Returns'
    BY <1>0, <2>1, <2>8, <2>13, <2>15 DEF Returns, Iocp, SameSource
  <2>21. Watched'
    BY <1>0, <2>1, <2>8, <2>10, <2>13, <2>15 DEF Watched, Iocp, SameSource, SameHistory
  <2>22. OneSender'
    BY <1>0, <1>1, <2>1, <2>8, <2>15, <2>18, <2>19 DEF OneSender, Iocp, SameSource
  <2>23. RefsExact'
    <3> DEFINE l == Len(first)
    <3>1. Flights = 1 /\ Flights' = l /\ Refs' = Refs + l - 1 /\ l \in Nat
      <4>1. Flights = 1 /\ Flights' = l
        BY <1>1, <2>13, Terms
      <4>2. Refs = s.refs /\ Refs' = s'.refs
        BY Terms
      <4>3. s0.refs = s.refs + l
        BY Zenon, <2>8
      <4>4. s'.refs = s0.refs - 1
        BY Zenon, <2>15
      <4> QED BY <1>4, <2>4, <4>1, <4>2, <4>3, <4>4
    <3>2. Own' = Own /\ Waiting' = Waiting /\ Recv' = Recv /\ Run' = Run
      BY <1>0, <2>1, <2>8, <2>10, <2>13, <2>15, Terms DEF Running, SameSource, SameHistory
    <3> HIDE DEF l
    <3> QED BY <3>1, <3>2, RefsSum, TermTypes
  <2>24. Accounted(Tail(q), 0, TRUE, Len(first), h0.nsend, h0.sent, h0.done, h0.dropped, h0.notified)
    <3>1. Accounted(Tail(q), 0, TRUE, 0, h.nsend, h.sent, h.done, Append(h.dropped, d), Append(h.notified, d))
      <4>1. 0 \in Nat /\ 1 \in Nat /\ 1 <= 1
        OBVIOUS
      <4> QED BY ZenonT(40), <1>1, <1>2, <1>5, <4>1, HeadDropped DEF d
    <3>2. Accounted(Tail(q), 0, TRUE, Len(first), h.nsend, h.sent \o first, h.done, Append(h.dropped, d), Append(h.notified, d))
      <4>1. 0 \in Nat
        OBVIOUS
      <4> QED BY ZenonT(40), <1>2, <3>1, <4>1, Posted DEF first
    <3> QED BY Zenon, <2>10, <3>2 DEF SameHistory
  <2>25. Datagrams'
    <3>1. s0.refs >= 1 /\ (s0.refs = 1 => Len(first) = 0 /\ s0.ctx = 0)
      BY <1>0, <2>4, <2>8, <2>17 DEF SameSource
    <3>2. Accounted(s0.qsend, s0.ctx, TRUE, Len(first), h0.nsend, h0.sent, h0.done, h0.dropped, h0.notified)
      BY Zenon, <1>0, <2>8, <2>24 DEF SameSource
    <3>3. Accounted(s'.qsend, s'.ctx, s'.refs > 0, Len(first), h'.nsend, h'.sent, h'.done, h'.dropped, h'.notified)
      <4>1. Len(first) \in Nat
        BY <2>4
      <4> QED BY ZenonT(40), <2>7, <2>9, <2>14, <3>1, <3>2, <4>1, UnrefAccounted
    <3> QED BY Zenon, <2>13, <3>3 DEF Datagrams
  <2> QED BY <2>16, <2>20, <2>21, <2>22, <2>23, <2>25
<1> QED BY <1>6, <1>7

\* Giving back one of a positive number of references.
LEMMA OneLess ==
  ASSUME NEW n \in Nat, n > 0, NEW m, m = n - 1
  PROVE  m \in Nat /\ (m = 0 <=> n = 1) /\ (m # 0 => n > 1) /\ (m = 0 => n <= 1)
OBVIOUS

LEMMA CallbackStep ==
  ASSUME UdpAssumption, UdpInv, CallbackEnd
  PROVE  UdpInv'
<1> USE DEF UdpInv, evio
<1> DEFINE h1 == IF pc = "donecb" THEN [h EXCEPT !.notified = Append(@, s.ctx)] ELSE h
           s1 == [s EXCEPT !.ctx = 0, !.ret = "user"]
           s2 == [s1 EXCEPT !.refs = @ - 1]
<1>0. UNCHANGED evio /\ pc \in {"recvcb", "donecb"} /\ s.ret \in {"recv", "send", "post", "rearm"}
  BY DEF CallbackEnd, Returns
<1>1. /\ s.ctx \in Nat /\ h.notified \in Seq(Nat) /\ s.qsend \in Seq(Nat) /\ h.nsend \in Nat /\ h.sent \in Seq(Nat)
      /\ Len(k.sops) \in Nat /\ k.sops \in Seq(Results)
  BY UdpFacts
<1>2. s.refs \in Nat /\ s.refs > 0 /\ (s.refs > 0) = TRUE
  <2>1. s.refs \in Nat /\ s.refs > 0
    <3>1. Running \/ h.held
      BY <1>0 DEF Running, Watched, Returns, Iocp
    <3> QED BY <3>1, RefsFacts
  <2> QED BY <2>1
<1>3. s1 \in Source
  BY Zenon, <1>1 DEF UdpType, Source
<1>4. /\ s1.backend = s.backend /\ s1.bcbs = s.bcbs /\ s1.recv_iocb_ctx = s.recv_iocb_ctx /\ s1.recv_data = s.recv_data
      /\ s1.iocp_recv_active = s.iocp_recv_active /\ s1.iocp_associated = s.iocp_associated /\ s1.refs = s.refs
      /\ s1.ctx = 0 /\ s1.ret = "user" /\ s1.qsend = s.qsend
  BY DEF UdpType, Source
<1>5. h1 \in History
  <2>1. Append(h.notified, s.ctx) \in Seq(Nat)
    BY Zenon, <1>1, Appended
  <2> QED BY Zenon, <2>1 DEF UdpType, History
<1>6. /\ h1.nsend = h.nsend /\ h1.held = h.held /\ h1.late = h.late /\ h1.undrained = h.undrained /\ h1.blocked = h.blocked
      /\ h1.sent = h.sent /\ h1.done = h.done /\ h1.dropped = h.dropped
      /\ h1.notified = IF pc = "donecb" THEN Append(h.notified, s.ctx) ELSE h.notified
  BY DEF UdpType, History
<1>7. Accounted(s1.qsend, s1.ctx, TRUE, Len(k.sops), h1.nsend, h1.sent, h1.done, h1.dropped, h1.notified)
  <2>1. Accounted(s.qsend, s.ctx, TRUE, Len(k.sops), h.nsend, h.sent, h.done, h.dropped, h.notified)
    BY Zenon, <1>2 DEF Datagrams
  <2> HIDE DEF h1, s1
  <2>2. CASE pc = "donecb"
    <3>1. s.ctx \in Nat \ {0}
      BY <1>1, <2>2 DEF Returns
    <3>2. Accounted(s.qsend, 0, TRUE, Len(k.sops), h.nsend, h.sent, h.done, h.dropped, Append(h.notified, s.ctx))
      BY ZenonT(40), <1>1, <2>1, <3>1, Notified
    <3> QED BY Zenon, <1>4, <1>6, <2>2, <3>2
  <2>3. CASE pc # "donecb"
    <3>1. s.ctx = 0
      BY <2>3 DEF Returns
    <3> QED BY Zenon, <1>4, <1>6, <2>1, <2>3, <3>1
  <2> QED BY Zenon, <2>2, <2>3
<1>8. s2 \in Source
  <2>1. s1.refs - 1 \in Int
    BY <1>2, <1>4
  <2> HIDE DEF s1
  <2> QED BY Zenon, <1>3, <2>1 DEF Source
<1>9. SameSource(s2, s1) /\ s2.refs = s1.refs - 1 /\ s2.qsend = s1.qsend
  <2> HIDE DEF s1
  <2> QED BY <1>3 DEF Source, SameSource
<1>10. /\ s.ret \in {"recv", "send"} => pc' = s.ret /\ s' = s1 /\ h' = h1 /\ k' = k
       /\ s.ret = "post" => pc' = "poll" /\ \E n \in 0 .. MaxFail : r_ev_udp_iocp_post_send(s2, h1, n)
       /\ s.ret = "rearm" =>
            /\ pc' = "poll"
            /\ IF s.iocp_recv_active THEN r_ev_udp_iocp_post_recv(s2) /\ h' = h1
                                     ELSE Unref(s1, h1) /\ k' = k
  <2> HIDE DEF s1, s2, h1
  <2> QED BY Zenon DEF CallbackEnd, s1, s2, h1
<1> HIDE DEF s1, s2, h1
<1>11. CASE s.ret \in {"recv", "send"}
  <2>1. pc' = s.ret /\ s' = s1 /\ h' = h1 /\ k' = k
    BY <1>10, <1>11
  <2>2. UdpType'
    BY <1>3, <1>5, <1>11, <2>1 DEF UdpType
  <2>3. Returns'
    BY <1>4, <1>11, <2>1 DEF Returns, Iocp
  <2>4. Watched'
    BY Zenon, <1>0, <1>4, <1>6, <1>11, <2>1 DEF Watched, Returns, Iocp
  <2>5. OneSender'
    BY Zenon, <1>0, <1>4, <1>6, <1>11, <2>1 DEF OneSender, Returns, Iocp
  <2>6. RefsExact'
    <3>1. Running' <=> Running
      BY Zenon, <1>0, <1>4, <1>11, <2>1 DEF Running, Returns
    <3>2. /\ Own' = Own /\ Waiting' = Waiting /\ Flights' = Flights /\ Recv' = Recv /\ Run' = Run /\ Refs' = Refs
      BY <1>4, <1>6, <2>1, <3>1, Terms
    <3> QED BY <3>2, RefsSum, TermTypes
  <2>7. Datagrams'
    BY Zenon, <1>2, <1>4, <1>7, <2>1 DEF Datagrams
  <2> QED BY <2>2, <2>3, <2>4, <2>5, <2>6, <2>7
<1>12. CASE s.ret = "post"
  <2>1. PICK n \in 0 .. MaxFail : r_ev_udp_iocp_post_send(s2, h1, n)
    BY Zenon, <1>10, <1>12
  <2>2. n \in Nat
    BY DEF UdpAssumption
  <2>3. pc' = "poll" /\ pc = "donecb" /\ Iocp /\ k.sops = <<>> /\ Len(k.sops) = 0 /\ s.bcbs = 0
    BY <1>0, <1>10, <1>12 DEF Returns, OneSender
  <2>4. /\ s' \in Source /\ SameSource(s', s2) /\ s'.refs = s2.refs + Len(First(s'.qsend))
        /\ k' \in KernelState /\ k'.rop = k.rop /\ k'.inq = k.inq /\ Len(k'.sops) = Len(k.sops) + Len(First(s'.qsend))
        /\ h' \in History /\ SameHistory(h', h1)
    BY Zenon, <1>5, <1>8, <2>1, <2>2, PostEffect DEF UdpType
  <2>5. UdpType'
    BY Zenon, <2>3, <2>4 DEF UdpType
  <2>6. s'.qsend \in Seq(Nat) /\ k'.sops \in Seq(Results)
    BY <2>4 DEF Source, KernelState
  <2>4a. /\ s'.backend = s.backend /\ s'.bcbs = s.bcbs /\ s'.recv_iocb_ctx = s.recv_iocb_ctx /\ s'.recv_data = s.recv_data
        /\ s'.iocp_recv_active = s.iocp_recv_active /\ s'.iocp_associated = s.iocp_associated
        /\ h'.held = h.held /\ h'.late = h.late /\ h'.undrained = h.undrained /\ h'.blocked = h.blocked
    BY Zenon, <1>4, <1>6, <1>9, <2>4 DEF SameSource, SameHistory
  <2>7. Len(First(s'.qsend)) = (IF s'.qsend = <<>> THEN 0 ELSE 1) /\ Len(k'.sops) = Len(First(s'.qsend))
    <3>1. Len(First(s'.qsend)) = (IF s'.qsend = <<>> THEN 0 ELSE 1)
      BY Zenon, <2>6, FirstFacts
    <3> QED BY <2>3, <2>4, <3>1
  <2>8. (k'.sops = <<>> <=> s'.qsend = <<>>) /\ Len(k'.sops) <= 1
    BY <2>6, <2>7, Lengths
  <2>9. Returns'
    BY Zenon, <1>4, <1>9, <2>3, <2>4 DEF Returns, Iocp, SameSource
  <2>10. Watched'
    BY Zenon, <1>0, <2>3, <2>4, <2>4a DEF Watched, Iocp
  <2>11. s'.refs \in Nat /\ (s'.refs = 0 => s'.qsend = <<>>)
    <3>1. s'.refs = s.refs - 1 + Len(First(s'.qsend))
      BY Zenon, <1>4, <1>9, <2>4
    <3> QED BY <1>2, <2>7, <3>1
  <2>12. OneSender'
    <3>1. k'.sops # <<>> => Len(k'.sops) = 1
      BY <2>7, <2>8
    <3> QED BY Zenon, <2>3, <2>8, <2>11, <2>4a, <3>1 DEF OneSender, Iocp
  <2>13. RefsExact'
    <3> DEFINE l == Len(First(s'.qsend))
    <3>1. l \in Nat
      BY <2>7
    <3>2. Flights' = Flights + l /\ Refs' = Refs - 1 + l
      BY Zenon, <1>4, <1>9, <2>4, Terms
    <3>3. Running /\ ~Running'
      BY Zenon, <1>4, <1>9, <1>12, <2>3, <2>4 DEF Running, SameSource
    <3>4. Own' = Own /\ Waiting' = Waiting /\ Recv' = Recv /\ Run = 1 /\ Run' = 0
      BY Zenon, <1>4, <1>6, <1>9, <2>4, <3>3, Terms DEF SameSource, SameHistory
    <3> HIDE DEF l
    <3> QED BY <3>1, <3>2, <3>4, RefsSum, TermTypes
  <2>14. Datagrams'
    <3>1. Accounted(s2.qsend, s2.ctx, TRUE, 0, h1.nsend, h1.sent, h1.done, h1.dropped, h1.notified)
      BY Zenon, <1>7, <1>9, <2>3 DEF SameSource
    <3>2. Accounted(s'.qsend, s'.ctx, TRUE, Len(k'.sops), h'.nsend, h'.sent, h'.done, h'.dropped, h'.notified)
      <4>1. k \in KernelState
        BY DEF UdpType
      <4> QED BY ZenonT(40), <1>5, <1>8, <2>1, <2>2, <2>3, <3>1, <4>1, PostAccounted
    <3>3. (s'.refs > 0) \in BOOLEAN
      BY <2>11
    <3>4. Accounted(s'.qsend, s'.ctx, s'.refs > 0, Len(k'.sops), h'.nsend, h'.sent, h'.done, h'.dropped, h'.notified)
      BY Zenon, <3>2, <3>3 DEF Accounted
    <3> QED BY Zenon, <3>4 DEF Datagrams
  <2> QED BY <2>5, <2>9, <2>10, <2>12, <2>13, <2>14
<1>13. CASE s.ret = "rearm" /\ s.iocp_recv_active
  <2>1. pc' = "poll" /\ r_ev_udp_iocp_post_recv(s2) /\ h' = h1 /\ pc = "recvcb" /\ k.rop = "none" /\ Iocp
    BY <1>0, <1>10, <1>13 DEF Returns
  <2>2. k \in KernelState
    BY DEF UdpType
  <2>3. /\ s' \in Source /\ s'.backend = s.backend /\ s'.bcbs = s.bcbs /\ s'.recv_iocb_ctx = s.recv_iocb_ctx
        /\ s'.recv_data = s.recv_data /\ s'.iocp_recv_active = s.iocp_recv_active /\ s'.ctx = 0 /\ s'.ret = "user"
        /\ s'.qsend = s.qsend /\ s'.refs = s.refs - 1 + 1
        /\ k' \in KernelState /\ k'.rop = "armed" /\ k'.inq = k.inq /\ k'.sops = k.sops
    <3>1. /\ s' \in Source /\ s'.backend = s2.backend /\ s'.bcbs = s2.bcbs /\ s'.recv_iocb_ctx = s2.recv_iocb_ctx
          /\ s'.recv_data = s2.recv_data /\ s'.iocp_recv_active = s2.iocp_recv_active
          /\ s'.ctx = s2.ctx /\ s'.ret = s2.ret /\ s'.qsend = s2.qsend /\ s'.refs = s2.refs + 1
          /\ k' \in KernelState /\ k'.rop = "armed" /\ k'.inq = k.inq /\ k'.sops = k.sops
      BY ZenonT(40), <1>8, <2>1, <2>2, RearmEffect
    <3>2. /\ s2.backend = s.backend /\ s2.bcbs = s.bcbs /\ s2.recv_iocb_ctx = s.recv_iocb_ctx /\ s2.recv_data = s.recv_data
          /\ s2.iocp_recv_active = s.iocp_recv_active /\ s2.ctx = 0 /\ s2.ret = "user" /\ s2.qsend = s.qsend
          /\ s2.refs = s.refs - 1
      BY Zenon, <1>4, <1>9 DEF SameSource
    <3> QED BY Zenon, <3>1, <3>2
  <2>4. s'.refs = s.refs
    BY <1>2, <2>3
  <2>5. UdpType'
    BY <1>5, <2>1, <2>3 DEF UdpType
  <2>6. Returns'
    BY <2>1, <2>3 DEF Returns, Iocp
  <2>7. Watched'
    BY Zenon, <1>0, <1>6, <1>13, <2>1, <2>3 DEF Watched, Iocp
  <2>8. OneSender'
    BY Zenon, <1>6, <2>1, <2>3, <2>4 DEF OneSender, Iocp
  <2>9. RefsExact'
    <3>1. Running /\ ~Running'
      BY <1>13, <2>1, <2>3 DEF Running
    <3>2. /\ Own' = Own /\ Waiting' = Waiting /\ Flights' = Flights /\ Recv = 0 /\ Recv' = 1 /\ Run = 1 /\ Run' = 0
          /\ Refs' = Refs
      BY <1>6, <2>1, <2>3, <2>4, <3>1, Terms
    <3> QED BY <3>2, RefsSum, TermTypes
  <2>10. Datagrams'
    BY Zenon, <1>2, <1>4, <1>7, <2>1, <2>3, <2>4 DEF Datagrams
  <2> QED BY <2>5, <2>6, <2>7, <2>8, <2>9, <2>10
<1>14. CASE s.ret = "rearm" /\ ~s.iocp_recv_active
  <2>1. pc' = "poll" /\ Unref(s1, h1) /\ k' = k /\ pc = "recvcb" /\ k.rop = "none" /\ Iocp
    BY <1>0, <1>10, <1>14 DEF Returns
  <2>2. /\ s' \in Source /\ SameSource(s', s1) /\ s'.refs = s1.refs - 1
        /\ h' \in History /\ SameHistory(h', h1)
        /\ s1.refs > 1 => s'.qsend = s1.qsend
        /\ s1.refs <= 1 => s'.qsend = <<>>
    BY Zenon, <1>3, <1>5, <2>1, UnrefEffect
  <2>3. Running /\ ~Running'
    BY Zenon, <1>4, <1>14, <2>1, <2>2 DEF Running, SameSource
  <2>4. s.refs = 1 => s.bcbs = 0 /\ k.sops = <<>> /\ Len(k.sops) = 0
    BY <2>3, RefsFacts
  <2>5. /\ s'.refs \in Nat /\ (s'.refs = 0 <=> s.refs = 1)
        /\ s'.refs # 0 => s'.qsend = s.qsend
        /\ s'.refs = 0 => s'.qsend = <<>>
    <3>1. s1.refs \in Nat /\ s1.refs > 0 /\ s1.refs = s.refs /\ s1.qsend = s.qsend
      BY Zenon, <1>2, <1>4
    <3>2. s'.refs \in Nat /\ (s'.refs = 0 <=> s1.refs = 1) /\ (s'.refs # 0 => s1.refs > 1) /\ (s'.refs = 0 => s1.refs <= 1)
      <4> HIDE DEF s1
      <4> QED BY <2>2, <3>1, OneLess
    <3> QED BY Zenon, <2>2, <3>1, <3>2
  <2>6. UdpType'
    BY Zenon, <2>1, <2>2 DEF UdpType
  <2>7. Returns'
    BY Zenon, <1>4, <2>1, <2>2 DEF Returns, Iocp, SameSource
  <2>8. Watched'
    BY Zenon, <1>0, <1>4, <1>6, <1>14, <2>1, <2>2 DEF Watched, Iocp, SameSource, SameHistory
  <2>9. OneSender'
    BY Zenon, <1>4, <1>6, <2>1, <2>2, <2>4, <2>5 DEF OneSender, Iocp, SameSource, SameHistory
  <2>10. RefsExact'
    <3>1. /\ Own' = Own /\ Waiting' = Waiting /\ Flights' = Flights /\ Recv' = Recv /\ Run = 1 /\ Run' = 0
          /\ Refs' = Refs - 1
      BY Zenon, <1>4, <1>6, <2>1, <2>2, <2>3, Terms DEF SameSource, SameHistory
    <3> QED BY <3>1, RefsSum, TermTypes
  <2>11. Datagrams'
    <3>1. s1.refs >= 1 /\ (s1.refs = 1 => Len(k.sops) = 0 /\ s1.ctx = 0)
      BY <1>2, <1>4, <2>4
    <3>2. Accounted(s'.qsend, s'.ctx, s'.refs > 0, Len(k.sops), h'.nsend, h'.sent, h'.done, h'.dropped, h'.notified)
      BY ZenonT(40), <1>1, <1>3, <1>5, <1>7, <2>1, <3>1, UnrefAccounted
    <3> QED BY Zenon, <2>1, <3>2 DEF Datagrams
  <2> QED BY <2>6, <2>7, <2>8, <2>9, <2>10, <2>11
<1> QED BY <1>0, <1>11, <1>12, <1>13, <1>14

LEMMA UdpStarts ==
  ASSUME UdpAssumption, Init
  PROVE  UdpInv
<1>0. pc = "user" /\ iocbq = <<>> /\ events = {} /\ edge = FALSE /\ changing = FALSE /\ closed = FALSE /\ handle = TRUE
  BY Zenon DEF Init, r_ev_io_init
<1>1. PICK b \in Backends : s = r_ev_udp_new(b)
  BY Zenon DEF Init
<1>2. /\ k = [inq |-> 0, room |-> Room, soerr |-> FALSE, rop |-> "none", sops |-> <<>>]
      /\ h = [nsend |-> 0, nrecv |-> 0, held |-> TRUE, sent |-> <<>>, done |-> <<>>, dropped |-> <<>>,
              notified |-> <<>>, blocked |-> FALSE, undrained |-> FALSE, late |-> FALSE]
  BY Zenon DEF Init
<1>3. /\ s.qsend = <<>> /\ s.bcbs = 0 /\ s.refs = 1 /\ s.recv_iocb_ctx = 0 /\ ~s.iocp_recv_active /\ ~s.iocp_associated
      /\ s.ctx = 0 /\ s.ret = "user" /\ s.backend = b
  BY <1>1 DEF r_ev_udp_new
<1>4. k.inq = 0 /\ k.rop = "none" /\ k.sops = <<>> /\ Len(k.sops) = 0
  BY Zenon, <1>2
<1>5. /\ h.nsend = 0 /\ h.held /\ h.sent = <<>> /\ h.done = <<>> /\ h.dropped = <<>> /\ h.notified = <<>> /\ ~h.late
  BY Zenon, <1>2
<1>6. UdpType
  <2>0. <<>> \in Seq(Nat) /\ <<>> \in Seq(Results) /\ 0 \in Nat /\ 1 \in Int /\ Room \in Int
    BY DEF UdpAssumption
  <2>1. s \in Source
    BY Zenon, <1>1, <2>0 DEF r_ev_udp_new, Source
  <2>2. k \in KernelState
    BY Zenon, <1>2, <2>0 DEF KernelState, Ops
  <2>3. h \in History
    BY Zenon, <1>2, <2>0 DEF History
  <2> QED BY <1>0, <2>1, <2>2, <2>3 DEF UdpType
<1>7. Returns
  BY <1>0, <1>3 DEF Returns
<1>8. Watched
  BY Zenon, <1>0, <1>3, <1>4, <1>5 DEF Watched
<1>9. OneSender
  <2>1. s.bcbs <= 1
    BY <1>3
  <2> QED BY Zenon, <1>0, <1>3, <1>4, <2>1 DEF OneSender
<1>10. RefsExact
  BY <1>0, <1>3, <1>4, <1>5 DEF RefsExact, Bool
<1>11. Datagrams
  <2>1. Accounted(<<>>, 0, TRUE, 0, 0, <<>>, <<>>, <<>>, <<>>)
    BY DEF Accounted, After, Increasing, IsInjective, Range
  <2>2. (s.refs > 0) = TRUE
    BY <1>3
  <2> QED BY Zenon, <1>3, <1>4, <1>5, <2>1, <2>2 DEF Datagrams
<1> QED BY <1>6, <1>7, <1>8, <1>9, <1>10, <1>11 DEF UdpInv

\* Every step, and a stuttering one, keeps the invariant.
LEMMA UdpKept ==
  ASSUME UdpAssumption, UdpInv, [Next]_udpvars
  PROVE  UdpInv'
<1>1. CASE Operation
  BY Zenon, <1>1, SendStep, StartStep, StopStep, ReleaseStep DEF Operation
<1>2. CASE Loop
  BY Zenon, <1>2, LoopStep, RecvStep, SendPathStep, RecvFailedStep, SendCompleteStep, CallbackStep DEF Loop
<1>3. CASE Kernel
  BY Zenon, <1>3, KernelStep
<1>4. CASE UNCHANGED udpvars
  <2> USE DEF udpvars, evio
  <2>1. UdpType' /\ Returns'
    BY <1>4 DEF UdpInv, UdpType, Returns, Iocp
  <2>2. Watched'
    BY Zenon, <1>4 DEF UdpInv, Watched, Iocp
  <2>3. OneSender' /\ RefsExact'
    BY Zenon, <1>4 DEF UdpInv, OneSender, RefsExact, Iocp
  <2>4. Datagrams'
    BY Zenon, <1>4 DEF UdpInv, Datagrams
  <2> QED BY <2>1, <2>2, <2>3, <2>4 DEF UdpInv
<1> QED BY Zenon, <1>1, <1>2, <1>3, <1>4 DEF Next

LEMMA UdpInvariant == UdpAssumption => (Spec => []UdpInv)
<1> SUFFICES ASSUME UdpAssumption PROVE Spec => []UdpInv
  OBVIOUS
<1>1. Init => UdpInv
  BY UdpStarts
<1>2. UdpInv /\ [Next]_udpvars => UdpInv'
  BY UdpKept
<1> QED BY <1>1, <1>2, PTL DEF Spec

\* The queued datagrams are the last ones, each once.
LEMMA Ordered ==
  ASSUME NEW q \in Seq(Nat), NEW t \in Nat, After(q, t)
  PROVE  IsInjective(q) /\ Range(q) = t + 1 .. t + Len(q)
<1>1. DOMAIN q = 1 .. Len(q) /\ Len(q) \in Nat /\ \A i \in 1 .. Len(q) : q[i] = t + i
  BY DEF After
<1>2. IsInjective(q)
  BY <1>1 DEF IsInjective
<1>3. Range(q) \subseteq t + 1 .. t + Len(q)
  BY <1>1 DEF Range
<1>4. t + 1 .. t + Len(q) \subseteq Range(q)
  <2> SUFFICES ASSUME NEW n \in t + 1 .. t + Len(q) PROVE \E i \in 1 .. Len(q) : q[i] = n
    BY Zenon, <1>1 DEF Range
  <2>1. n - t \in 1 .. Len(q) /\ q[n - t] = n
    BY <1>1
  <2> QED BY <2>1
<1> QED BY Zenon, <1>2, <1>3, <1>4

\* What SendAccounted says, of the fields it is about.
AddsUp(q, c, live, n, sent, done, dropped, notified) ==
  /\ Increasing(sent)
  /\ IsInjective(done \o dropped \o q)
  /\ live => Range(done \o dropped \o q) = 1 .. n
  /\ IsInjective(notified)
  /\ Range(notified) = (1 .. n) \ (Range(q) \cup {c})

LEMMA AccountAdds ==
  ASSUME NEW q \in Seq(Nat), NEW c \in Nat, NEW live \in BOOLEAN, NEW m \in Nat, NEW n \in Nat, NEW sent,
         NEW done \in Seq(Nat), NEW dropped \in Seq(Nat), NEW notified,
         Accounted(q, c, live, m, n, sent, done, dropped, notified)
  PROVE  AddsUp(q, c, live, n, sent, done, dropped, notified)
<1> DEFINE t == n - Len(q)
<1>1. /\ t \in Nat /\ Len(q) \in Nat /\ t + Len(q) = n
      /\ After(q, t) /\ Increasing(sent)
      /\ IsInjective(done) /\ IsInjective(dropped) /\ Range(done) \cap Range(dropped) = {}
      /\ Range(done) \cup Range(dropped) \subseteq 1 .. t
      /\ live => Range(done) \cup Range(dropped) = 1 .. t
      /\ IsInjective(notified) /\ Range(notified) = (1 .. t) \ {c}
  BY DEF Accounted
<1> HIDE DEF t
<1>2. IsInjective(q) /\ Range(q) = t + 1 .. n
  BY <1>1, Ordered
<1>3. (1 .. t) \cap (t + 1 .. n) = {} /\ (1 .. t) \cup (t + 1 .. n) = 1 .. n
  BY <1>1
<1>4. /\ done \o dropped \in Seq(Nat) /\ IsInjective(done \o dropped)
      /\ Range(done \o dropped) = Range(done) \cup Range(dropped)
  BY Zenon, <1>1, Joined
<1>5. /\ Range(done \o dropped \o q) = Range(done) \cup Range(dropped) \cup Range(q)
      /\ IsInjective(done \o dropped \o q)
  <2>1. Range(done \o dropped) \cap Range(q) = {}
    BY <1>1, <1>2, <1>3, <1>4
  <2> QED BY Zenon, <1>2, <1>4, <2>1, Joined
<1>6. live => Range(done \o dropped \o q) = 1 .. n
  BY <1>1, <1>2, <1>3, <1>5
<1>7. Range(notified) = (1 .. n) \ (Range(q) \cup {c})
  BY <1>1, <1>2, <1>3
<1> QED BY <1>1, <1>5, <1>6, <1>7 DEF AddsUp

-----------------------------------------------------------------------------
(***************************************************************************)
(* The theorems.                                                           *)
(***************************************************************************)
\* On both backends, whatever the kernel refuses and whenever it does: while
\* datagrams are queued the send path of revudp.c is on its way, unless the
\* kernel's buffer was full once; while the program receives a waiting datagram
\* is noticed, after an error with the next event; the references are those of
\* the program, the queued callbacks, the operations in flight and the callback
\* that runs; and the receive data is not used once it was released.
THEOREM UdpServed == UdpAssumption => (Spec => [](Served /\ RefsExact /\ QuietAfterStop))
<1> SUFFICES ASSUME UdpAssumption PROVE Spec => [](Served /\ RefsExact /\ QuietAfterStop)
  OBVIOUS
<1>1. UdpInv => Served /\ RefsExact /\ QuietAfterStop
  <2> SUFFICES ASSUME UdpInv PROVE Served /\ RefsExact /\ QuietAfterStop
    OBVIOUS
  <2>1. Served
    BY Zenon DEF UdpInv, OneSender, Watched, Served
  <2> QED BY <2>1 DEF UdpInv, Watched, QuietAfterStop
<1>2. Spec => []UdpInv
  BY UdpInvariant
<1> QED BY <1>1, <1>2, PTL

\* Every datagram r_ev_udp_send accepted is handed to the kernel at most once, in
\* the order of the calls, ends in one of done, dropped and the queue, and is
\* notified exactly once, at the latest when r_ev_udp_free clears the queue.
THEOREM UdpSendAccounted == UdpAssumption => (Spec => []SendAccounted)
<1> SUFFICES ASSUME UdpAssumption PROVE Spec => []SendAccounted
  OBVIOUS
<1>1. UdpInv => SendAccounted
  <2> SUFFICES ASSUME UdpInv PROVE SendAccounted
    OBVIOUS
  <2>1. /\ s.qsend \in Seq(Nat) /\ s.ctx \in Nat /\ Len(k.sops) \in Nat /\ h.nsend \in Nat
        /\ h.done \in Seq(Nat) /\ h.dropped \in Seq(Nat) /\ (s.refs > 0) \in BOOLEAN
    BY DEF UdpInv, UdpType, Source, KernelState, History
  <2>2. Accounted(s.qsend, s.ctx, s.refs > 0, Len(k.sops), h.nsend, h.sent, h.done, h.dropped, h.notified)
    BY Zenon DEF UdpInv, Datagrams
  <2>3. AddsUp(s.qsend, s.ctx, s.refs > 0, h.nsend, h.sent, h.done, h.dropped, h.notified)
    BY ZenonT(40), <2>1, <2>2, AccountAdds
  <2> QED BY Zenon, <2>3 DEF SendAccounted, AddsUp
<1>2. Spec => []UdpInv
  BY UdpInvariant
<1> QED BY <1>1, <1>2, PTL

\* A freed source is left alone: with the last reference gone nothing is queued or
\* in flight, no handler of the source runs, its watcher holds no node and every
\* datagram was notified.
Freed ==
  s.refs = 0 =>
    /\ ~h.held /\ s.qsend = <<>> /\ s.bcbs = 0 /\ k.sops = <<>> /\ k.rop = "none" /\ iocbq = <<>>
    /\ pc \in {"user", "bcbs", "poll"}
    /\ Range(h.notified) = 1 .. h.nsend

\* r_ev_udp_free runs only when neither the loop nor the kernel can call back
\* into the source: the reference each of them holds is dropped last.
THEOREM UdpFreedLast == UdpAssumption => (Spec => []Freed)
<1> SUFFICES ASSUME UdpAssumption PROVE Spec => []Freed
  OBVIOUS
<1>1. UdpInv /\ SendAccounted => Freed
  <2> SUFFICES ASSUME UdpInv, SendAccounted, s.refs = 0 PROVE Freed
    BY DEF Freed
  <2>1. ~h.held /\ k.rop = "none" /\ ~Running /\ s.bcbs = 0 /\ k.sops = <<>>
    BY RefsFacts DEF UdpInv
  <2>2. s.qsend = <<>> /\ s.recv_iocb_ctx = 0 /\ iocbq = <<>>
    BY Zenon, <2>1 DEF UdpInv, OneSender, Watched
  <2>3. pc \in {"user", "bcbs", "poll"} /\ s.ctx = 0
    BY Zenon, <2>1, <2>2 DEF UdpInv, UdpType, Returns, Watched, Running, Iocp
  <2>4. Range(h.notified) = 1 .. h.nsend
    <3>1. Range(<<>>) = {} /\ 0 \notin 1 .. h.nsend
      BY DEF Range
    <3> QED BY <2>2, <2>3, <3>1 DEF SendAccounted
  <2> QED BY <2>1, <2>2, <2>3, <2>4 DEF Freed
<1>2. Spec => []UdpInv
  BY UdpInvariant
<1>3. Spec => []SendAccounted
  BY UdpSendAccounted
<1> QED BY <1>1, <1>2, <1>3, PTL
=============================================================================
