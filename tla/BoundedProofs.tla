--------------------------- MODULE BoundedProofs ----------------------------
(***************************************************************************)
(* Memories of a fixed size serve for any size: what rlib remembers in     *)
(* order to refuse a replay is enough (the sliding window of DTLS 1.3, the *)
(* strike register for 0-RTT hellos, the session ticket keys), and the     *)
(* ring queue is a FIFO.                                                   *)
(***************************************************************************)
EXTENDS ReplayWindow, SessionTickets, RingQueue, FiniteSetTheorems, WellFoundedInduction, TLAPS

-----------------------------------------------------------------------------
(* The replay window. *)

\* A window that has been updated with the numbers of S: the highest one, or 0, and
\* which of the last WINDOW numbers are in S.
Remembers(w, S) ==
  /\ w \in [max : Nat, bits : SUBSET (0 .. WINDOW - 1)]
  /\ S \subseteq 0 .. w.max
  /\ w.bits = {d \in 0 .. WINDOW - 1 : w.max - d \in S}

\* A window that remembers S finds a number fresh exactly when it is not in S and
\* not too old to tell (r_dtls13_replay_check), and after accepting it remembers it
\* too.  So, from window_init on, no record number is accepted twice, and none that
\* the window still covers is refused without having been accepted.
THEOREM WindowExact ==
  /\ Remembers(window_init, {})
  /\ \A w, S : \A seq \in Nat : Remembers(w, S) =>
       /\ replay_fresh(w, seq) <=> seq \notin S /\ seq > w.max - WINDOW
       /\ replay_fresh(w, seq) => Remembers(replay_update(w, seq), S \cup {seq})
<1>1. Remembers(window_init, {})
  BY WindowAssumption DEF Remembers, window_init
<1>2. ASSUME NEW w, NEW S, NEW seq \in Nat, Remembers(w, S)
      PROVE  /\ replay_fresh(w, seq) <=> seq \notin S /\ seq > w.max - WINDOW
             /\ replay_fresh(w, seq) => Remembers(replay_update(w, seq), S \cup {seq})
  <2> DEFINE max == w.max
             bits == w.bits
  <2>1. max \in Nat /\ S \subseteq 0 .. max /\ bits = {d \in 0 .. WINDOW - 1 : max - d \in S}
    BY <1>2 DEF Remembers
  <2>2. w = [max |-> max, bits |-> bits]
    BY <1>2 DEF Remembers
  <2> HIDE DEF max, bits
  <2>3. replay_fresh(w, seq) <=> seq > max \/ (max - seq < WINDOW /\ max - seq \notin bits)
    BY DEF replay_fresh, max, bits
  <2>4. seq <= max => (max - seq \in bits <=> max - seq < WINDOW /\ seq \in S)
    <3> SUFFICES ASSUME seq <= max PROVE max - seq \in bits <=> max - seq < WINDOW /\ seq \in S
      OBVIOUS
    <3>1. max - (max - seq) = seq /\ max - seq \in Nat
      BY <2>1
    <3> QED BY <2>1, <3>1, WindowAssumption
  <2>5. seq > max => seq \notin S
    BY <2>1
  <2>6. replay_fresh(w, seq) <=> seq \notin S /\ seq > max - WINDOW
    BY <2>1, <2>3, <2>4, <2>5, WindowAssumption
  <2>7. ASSUME seq > max PROVE Remembers(replay_update(w, seq), S \cup {seq})
    <3> DEFINE b == shift(bits, seq - max) \cup {0}
    <3>1. replay_update(w, seq) = [max |-> seq, bits |-> b]
      BY <2>7, <2>2 DEF replay_update, max, bits
    <3>2. b \subseteq 0 .. WINDOW - 1
      BY WindowAssumption DEF shift
    <3>3. ASSUME NEW d \in 0 .. WINDOW - 1 PROVE d \in b <=> seq - d \in S \cup {seq}
      <4>1. d \in shift(bits, seq - max) <=> d - (seq - max) \in bits
        BY DEF shift
      <4>2. max - (d - (seq - max)) = seq - d
        BY <2>1
      <4>3. d - (seq - max) \in bits <=> d - (seq - max) \in 0 .. WINDOW - 1 /\ seq - d \in S
        BY <2>1, <4>2
      <4>4. seq - d \in S => d - (seq - max) \in 0 .. WINDOW - 1
        BY <2>1, <2>7, WindowAssumption
      <4>5. seq - d = seq <=> d = 0
        OBVIOUS
      <4> QED BY <4>1, <4>3, <4>4, <4>5
    <3>4. b = {d \in 0 .. WINDOW - 1 : seq - d \in S \cup {seq}}
      BY <3>2, <3>3
    <3>5. S \cup {seq} \subseteq 0 .. seq
      BY <2>1, <2>7
    <3> HIDE DEF b
    <3> QED BY <3>1, <3>2, <3>4, <3>5 DEF Remembers
  <2>8. ASSUME seq <= max, replay_fresh(w, seq) PROVE Remembers(replay_update(w, seq), S \cup {seq})
    <3> DEFINE b == bits \cup {max - seq}
    <3>1. replay_update(w, seq) = [max |-> max, bits |-> b]
      <4>1. ~(seq > max)
        BY <2>1, <2>8
      <4> QED BY Zenon, <4>1, <2>2 DEF replay_update, max, bits
    <3>2. max - seq \in 0 .. WINDOW - 1
      BY <2>1, <2>3, <2>8, WindowAssumption
    <3>3. ASSUME NEW d \in 0 .. WINDOW - 1 PROVE d \in b <=> max - d \in S \cup {seq}
      BY <2>1, <2>8
    <3>4. b = {d \in 0 .. WINDOW - 1 : max - d \in S \cup {seq}} /\ b \subseteq 0 .. WINDOW - 1
      BY <2>1, <3>2, <3>3
    <3>5. S \cup {seq} \subseteq 0 .. max
      BY <2>1, <2>8
    <3> HIDE DEF b
    <3> QED BY <2>1, <3>1, <3>4, <3>5 DEF Remembers
  <2>9. replay_fresh(w, seq) => Remembers(replay_update(w, seq), S \cup {seq})
    BY <2>1, <2>7, <2>8
  <2> QED BY <2>6, <2>9 DEF max
<1> QED BY <1>1, <1>2

-----------------------------------------------------------------------------
(* The keys of the session tickets. *)

\* The store holds the newest keys, newest first, KEYS_MAX of them if there have
\* been that many, and tickets are sealed under keys that exist.
KeysInv ==
  /\ fresh \in Nat \ {0} /\ keys \in Seq(Nat) /\ tickets \subseteq 1 .. fresh
  /\ Len(keys) = IF fresh < KEYS_MAX THEN fresh ELSE KEYS_MAX
  /\ \A i \in 1 .. Len(keys) : keys[i] = fresh + 1 - i

\* The first m entries of a sequence.
LEMMA Prefix ==
  ASSUME NEW S, NEW q \in Seq(S), NEW m \in Nat, m <= Len(q)
  PROVE  /\ SubSeq(q, 1, m) \in Seq(S) /\ Len(SubSeq(q, 1, m)) = m
         /\ \A i \in 1 .. m : SubSeq(q, 1, m)[i] = q[i]
<1>1. \A i \in 1 .. m : q[i] \in S
  OBVIOUS
<1>2. SubSeq(q, 1, m) = [i \in 1 .. m |-> q[i]]
  OBVIOUS
<1> QED BY <1>1, <1>2

\* No step breaks it: rotate shifts the keys by one and drops the oldest.
LEMMA KeysStep ==
  ASSUME KeysInv, [TicketNext]_ticketVars
  PROVE  KeysInv'
<1> USE TicketAssumption
<1>1. ASSUME rotate PROVE KeysInv'
  <2> DEFINE shifted == <<fresh + 1>> \o keys
             n == IF Len(shifted) > KEYS_MAX THEN KEYS_MAX ELSE Len(shifted)
  <2>1. fresh' = fresh + 1 /\ keys' = SubSeq(shifted, 1, n) /\ tickets' = tickets
    BY <1>1 DEF rotate
  <2>2. fresh \in Nat \ {0} /\ keys \in Seq(Nat) /\ Len(keys) \in Nat
    BY DEF KeysInv
  <2>3. shifted \in Seq(Nat) /\ Len(shifted) = Len(keys) + 1
    BY <2>2
  <2>4. \A i \in 1 .. Len(shifted) : shifted[i] = IF i = 1 THEN fresh + 1 ELSE keys[i - 1]
    BY <2>2
  <2>5. ASSUME NEW i \in 1 .. Len(shifted) PROVE shifted[i] = fresh + 2 - i
    <3>1. CASE i = 1
      BY <2>2, <2>4, <3>1
    <3>2. CASE i # 1
      <4>1. i - 1 \in 1 .. Len(keys)
        BY <2>2, <2>3, <3>2
      <4>2. keys[i - 1] = fresh + 1 - (i - 1)
        BY <4>1 DEF KeysInv
      <4> QED BY <2>2, <2>3, <2>4, <3>2, <4>2
    <3> QED BY <3>1, <3>2
  <2> HIDE DEF shifted
  <2>6. n \in Nat /\ 1 <= n /\ n <= Len(shifted) /\ n = IF fresh + 1 < KEYS_MAX THEN fresh + 1 ELSE KEYS_MAX
    BY <2>2, <2>3 DEF KeysInv
  <2> HIDE DEF n
  <2>7. keys' \in Seq(Nat) /\ Len(keys') = n /\ \A i \in 1 .. n : keys'[i] = shifted[i]
    <3>1. shifted \in Seq(Nat) /\ n \in Nat /\ n <= Len(shifted)
      BY Zenon, <2>3, <2>6
    <3>2. /\ SubSeq(shifted, 1, n) \in Seq(Nat) /\ Len(SubSeq(shifted, 1, n)) = n
          /\ \A i \in 1 .. n : SubSeq(shifted, 1, n)[i] = shifted[i]
      BY ZenonT(40), <3>1, Prefix
    <3> QED BY Zenon, <2>1, <3>2
  <2>8. \A i \in 1 .. n : keys'[i] = fresh' + 1 - i
    <3> SUFFICES ASSUME NEW i \in 1 .. n PROVE keys'[i] = fresh' + 1 - i
      OBVIOUS
    <3>1. i \in 1 .. Len(shifted) /\ i \in Int
      BY <2>2, <2>3, <2>6
    <3>2. keys'[i] = fresh + 2 - i
      BY <2>5, <2>7, <3>1
    <3>3. fresh' = fresh + 1 /\ fresh \in Int
      BY <2>1, <2>2
    <3>4. fresh' + 1 - i = fresh + 2 - i
      BY <3>1, <3>3
    <3> QED BY <3>2, <3>4
  <2>9. tickets' \subseteq 1 .. fresh'
    BY <2>1, <2>2 DEF KeysInv
  <2> QED BY <2>1, <2>2, <2>6, <2>7, <2>8, <2>9 DEF KeysInv
<1>2. ASSUME seal PROVE KeysInv'
  <2>1. keys[1] = fresh
    BY DEF KeysInv
  <2> QED BY <1>2, <2>1 DEF seal, KeysInv
<1>3. ASSUME UNCHANGED <<keys, fresh, tickets>> PROVE KeysInv'
  BY <1>3 DEF KeysInv
<1> QED BY Zenon, <1>1, <1>2, <1>3 DEF TicketNext, Tick, strike, ticketVars

\* The keys that are there are the KEYS_MAX newest.
LEMMA KeysOpen == KeysInv => TicketsOpen
<1> USE TicketAssumption
<1> SUFFICES ASSUME KeysInv, NEW t \in tickets PROVE open(t) <=> fresh - t < KEYS_MAX
  BY DEF TicketsOpen
<1>1. fresh \in Nat /\ t \in 1 .. fresh /\ Len(keys) \in Nat /\ DOMAIN keys = 1 .. Len(keys)
  BY DEF KeysInv
<1>2. ASSUME fresh - t < KEYS_MAX PROVE open(t)
  <2>1. fresh + 1 - t \in 1 .. Len(keys)
    BY <1>1, <1>2 DEF KeysInv
  <2>2. keys[fresh + 1 - t] = fresh + 1 - (fresh + 1 - t)
    BY <2>1 DEF KeysInv
  <2> QED BY <1>1, <2>1, <2>2 DEF open
<1>3. ASSUME open(t) PROVE fresh - t < KEYS_MAX
  <2>1. PICK i \in DOMAIN keys : keys[i] = t
    BY <1>3 DEF open
  <2>2. keys[i] = fresh + 1 - i
    BY <1>1, <2>1 DEF KeysInv
  <2>3. i \in 1 .. KEYS_MAX
    BY <1>1, <2>1 DEF KeysInv
  <2> QED BY <1>1, <2>1, <2>2, <2>3
<1> QED BY <1>2, <1>3

-----------------------------------------------------------------------------
(* The strike register. *)

\* A set of numbers that is not empty has a first one.
LEMMA FirstIsLeast ==
  ASSUME NEW S, S \subseteq Nat, S # {}
  PROVE  First(S) \in S /\ \A j \in S : First(S) <= j
<1>1. PICK d \in S : \A e \in S : ~(<<e, d>> \in OpToRel(<, Nat))
  BY Zenon, NatLessThanWellFounded, WFMin
<1>2. \A e \in S : d <= e
  <2> SUFFICES ASSUME NEW e \in S, e < d PROVE FALSE
    OBVIOUS
  <2>1. <<e, d>> \in Nat \X Nat /\ <<e, d>>[1] < <<e, d>>[2]
    OBVIOUS
  <2>2. <<e, d>> \in OpToRel(<, Nat)
    BY <2>1 DEF OpToRel
  <2> QED BY Zenon, <2>2, <1>1
<1> QED BY Zenon, <1>2 DEF First

Slots == [id : HelloIds \cup {0}, expiry : Nat]
Hellos == [id : HelloIds, expiry : Nat, at : Nat]

\* A register with slots has one that expires first.
LEMMA OldestIsSlot ==
  ASSUME NEW s \in Seq(Slots), s # <<>>
  PROVE  Oldest(s) \in DOMAIN s
<1> DEFINE T == {s[i].expiry : i \in DOMAIN s}
           O == {i \in DOMAIN s : \A j \in DOMAIN s : s[i].expiry <= s[j].expiry}
<1>1. 1 \in DOMAIN s /\ DOMAIN s \subseteq Nat /\ \A i \in DOMAIN s : s[i].expiry \in Nat
  <2>1. \A i \in DOMAIN s : s[i] \in Slots
    OBVIOUS
  <2> QED BY <2>1 DEF Slots
<1>2. T \subseteq Nat /\ T # {}
  BY <1>1
<1>3. PICK i \in DOMAIN s : s[i].expiry = First(T)
  <2> HIDE DEF T
  <2>1. First(T) \in T
    BY Zenon, <1>2, FirstIsLeast
  <2> QED BY Zenon, <2>1 DEF T
<1>4. \A j \in DOMAIN s : First(T) <= s[j].expiry
  <2>1. \A e \in T : First(T) <= e
    <3> HIDE DEF T
    <3> QED BY Zenon, <1>2, FirstIsLeast
  <2> QED BY <2>1
<1>5. O # {} /\ O \subseteq Nat
  BY Zenon, <1>1, <1>3, <1>4
<1>6. First(O) \in O
  <2> HIDE DEF O
  <2> QED BY Zenon, <1>5, FirstIsLeast
<1> QED BY <1>6 DEF Oldest

\* Accepting hello k found STRIKE_MAX accepted hellos beside i unexpired.
Overflow(i, k) == Cardinality({m \in (1..k) \ {i} : struck[m].expiry > struck[k].at}) >= STRIKE_MAX
\* Hello i is in a slot, or it was pushed out of a full register.
Kept(i) == \E p \in DOMAIN strikes : strikes[p].id = struck[i].id /\ strikes[p].expiry = struck[i].expiry
Evicted(i) == \E k \in (i + 1) .. Len(struck) : Overflow(i, k)
\* Slots that are taken hold different identifiers, each of an accepted hello, and
\* an accepted hello is not forgotten before it expires unless it was evicted.
StrikeInv ==
  /\ now \in Nat /\ strikes \in Seq(Slots) /\ Len(strikes) <= STRIKE_MAX /\ struck \in Seq(Hellos)
  /\ \A p, q \in DOMAIN strikes : p # q /\ strikes[p].id # 0 => strikes[p].id # strikes[q].id
  /\ \A p \in DOMAIN strikes : strikes[p].id # 0 =>
       \E m \in DOMAIN struck : struck[m].id = strikes[p].id /\ struck[m].expiry = strikes[p].expiry
  /\ \A i \in DOMAIN struck : struck[i].expiry > now => Kept(i) \/ Evicted(i)
  /\ StruckOnce

\* What the scan reclaims are expired slots.
LEMMA Reclaimed ==
  ASSUME StrikeInv, NEW n \in Nat
  PROVE  /\ Reclaim(strikes, n) \in Seq(Slots) /\ Len(Reclaim(strikes, n)) = Len(strikes)
         /\ DOMAIN Reclaim(strikes, n) = DOMAIN strikes
         /\ \A p \in DOMAIN strikes :
              /\ Reclaim(strikes, n)[p].expiry = strikes[p].expiry
              /\ Reclaim(strikes, n)[p].id \in {0, strikes[p].id}
              /\ Live(strikes[p]) => Reclaim(strikes, n)[p] = strikes[p]
              /\ p < n /\ ~Live(strikes[p]) => Reclaim(strikes, n)[p].id = 0
<1> DEFINE s == Reclaim(strikes, n)
<1>1. strikes \in Seq(Slots) /\ Len(strikes) \in Nat /\ DOMAIN strikes = 1 .. Len(strikes)
  BY DEF StrikeInv
<1>2. \A p \in DOMAIN strikes : strikes[p] \in Slots
  BY <1>1
<1>3. s = [p \in DOMAIN strikes |-> IF p < n /\ ~Live(strikes[p]) THEN [strikes[p] EXCEPT !.id = 0] ELSE strikes[p]]
  BY DEF Reclaim
<1> HIDE DEF s
<1>4. \A p \in DOMAIN strikes : s[p] \in Slots
  BY <1>2, <1>3 DEF Slots
<1>5. s \in Seq(Slots) /\ Len(s) = Len(strikes) /\ DOMAIN s = DOMAIN strikes
  BY <1>1, <1>3, <1>4
<1>6. \A p \in DOMAIN strikes :
        /\ s[p].expiry = strikes[p].expiry /\ s[p].id \in {0, strikes[p].id}
        /\ Live(strikes[p]) => s[p] = strikes[p]
        /\ p < n /\ ~Live(strikes[p]) => s[p].id = 0
  BY <1>2, <1>3 DEF Slots
<1> QED BY <1>5, <1>6 DEF s

\* The owners of the slots of a full register, but p, and the new hello are
\* STRIKE_MAX different ones, none of them i, the owner of slot p.
LEMMA FullMeansOverflow ==
  ASSUME StrikeInv, NEW p \in 1 .. STRIKE_MAX, Len(strikes) = STRIKE_MAX,
         \A q \in DOMAIN strikes : Live(strikes[q]),
         NEW i \in DOMAIN struck, strikes[p].id = struck[i].id,
         NEW h \in Hellos, h.at = now, h.expiry > now, struck' = Append(struck, h),
         NEW N, N = Len(struck) + 1
  PROVE  Overflow(i, N)'
<1> DEFINE M == {m \in (1 .. N) \ {i} : struck'[m].expiry > struck'[N].at}
           Own(q, m) == struck[m].id = strikes[q].id /\ struck[m].expiry = strikes[q].expiry
           f == [q \in 1 .. STRIKE_MAX |-> IF q = p THEN N ELSE CHOOSE m \in DOMAIN struck : Own(q, m)]
<1> USE TicketAssumption
<1>1. /\ struck \in Seq(Hellos) /\ Len(struck) \in Nat /\ DOMAIN struck = 1 .. Len(struck)
      /\ DOMAIN strikes = 1 .. STRIKE_MAX /\ now \in Nat
  BY DEF StrikeInv
<1>2. struck'[N] = h /\ \A m \in DOMAIN struck : struck'[m] = struck[m]
  BY <1>1
<1>3. ASSUME NEW q \in 1 .. STRIKE_MAX, q # p
      PROVE  f[q] \in DOMAIN struck /\ Own(q, f[q])
  <2>1. strikes[q].id # 0
    BY <1>1 DEF Live
  <2>2. \E m \in DOMAIN struck : Own(q, m)
    BY Zenon, <1>1, <2>1 DEF StrikeInv
  <2> HIDE DEF Own
  <2> QED BY <1>3, <2>2
<1>4. ASSUME NEW q \in 1 .. STRIKE_MAX PROVE f[q] \in M
  <2>1. CASE q = p
    <3>1. f[q] = N
      BY <2>1
    <3>2. N \in (1 .. N) \ {i}
      BY <1>1
    <3> QED BY Zenon, <1>2, <3>1, <3>2
  <2>2. CASE q # p
    <3>1. f[q] \in DOMAIN struck /\ struck[f[q]].id = strikes[q].id /\ struck[f[q]].expiry = strikes[q].expiry
      BY <1>3, <2>2
    <3>2. f[q] # i
      <4>1. strikes[p].id # 0
        BY <1>1 DEF Live
      <4>2. strikes[p].id # strikes[q].id
        BY Zenon, <1>1, <2>2, <4>1 DEF StrikeInv
      <4> HIDE DEF f
      <4> QED BY <3>1, <4>2
    <3>3. struck'[f[q]].expiry > now
      BY Zenon, <1>1, <1>2, <3>1 DEF Live
    <3> HIDE DEF f
    <3>4. f[q] \in 1 .. N
      BY <1>1, <3>1
    <3> QED BY <1>2, <3>2, <3>3, <3>4
  <2> QED BY Zenon, <2>1, <2>2
<1>5. ASSUME NEW q \in 1 .. STRIKE_MAX, NEW r \in 1 .. STRIKE_MAX, f[q] = f[r] PROVE q = r
  <2>1. CASE q = p \/ r = p
    <3>1. \A x \in 1 .. STRIKE_MAX : x # p => f[x] # N
      <4> SUFFICES ASSUME NEW x \in 1 .. STRIKE_MAX, x # p PROVE f[x] # N
        OBVIOUS
      <4>1. f[x] \in DOMAIN struck
        BY <1>3
      <4> HIDE DEF f
      <4> QED BY <1>1, <4>1
    <3>2. f[p] = N
      OBVIOUS
    <3> HIDE DEF f
    <3> QED BY <1>5, <2>1, <3>1, <3>2
  <2>2. CASE q # p /\ r # p
    <3>1. strikes[q].id = strikes[r].id
      <4>1. Own(q, f[q]) /\ Own(r, f[r])
        BY <1>3, <2>2
      <4> HIDE DEF f
      <4> QED BY <1>5, <4>1
    <3>2. strikes[q].id # 0
      BY <1>1 DEF Live
    <3> HIDE DEF f
    <3> QED BY Zenon, <1>1, <3>1, <3>2 DEF StrikeInv
  <2> QED BY <2>1, <2>2
<1>6. f \in Injection(1 .. STRIKE_MAX, M)
  <2>1. f \in [1 .. STRIKE_MAX -> M]
    BY Zenon, <1>4
  <2> HIDE DEF f, M
  <2> QED BY <1>5, <2>1 DEF Injection, IsInjective
<1>7. IsFiniteSet(M)
  <2>1. IsFiniteSet(1 .. N)
    BY <1>1, FS_Interval
  <2> QED BY <2>1, FS_Subset
<1>8. Cardinality(1 .. STRIKE_MAX) = STRIKE_MAX
  BY FS_Interval
<1> HIDE DEF f, M
<1>9. Cardinality(1 .. STRIKE_MAX) <= Cardinality(M)
  BY <1>6, <1>7, FS_Injection
<1>10. Cardinality(M) >= STRIKE_MAX
  BY <1>7, <1>8, <1>9, FS_CardinalityType
<1> QED BY Zenon, <1>10 DEF Overflow, M

\* What was accepted stays accepted.
LEMMA OnceKept ==
  ASSUME StruckOnce, struck' = struck
  PROVE  StruckOnce'
<1>1. \A i, k : Overflow(i, k)' <=> Overflow(i, k)
  BY DEF Overflow
<1>2. ASSUME NEW i \in DOMAIN struck', NEW j \in DOMAIN struck',
             i < j, struck'[i].id = struck'[j].id, struck'[j].at < struck'[i].expiry
      PROVE  \E k \in (i + 1) .. (j - 1) : Overflow(i, k)'
  <2>1. i \in DOMAIN struck /\ j \in DOMAIN struck /\ struck[i].id = struck[j].id /\ struck[j].at < struck[i].expiry
    BY <1>2
  <2>2. PICK k \in (i + 1) .. (j - 1) : Overflow(i, k)
    BY <1>2, <2>1, Zenon DEF StruckOnce, Overflow
  <2> QED BY <1>1, <2>2
<1> QED BY <1>2 DEF StruckOnce, Overflow

\* A strike keeps all of it: r_tls_session_ticket_keys_strike.
LEMMA StrikeStep ==
  ASSUME StrikeInv, NEW id \in HelloIds, NEW l \in Lifetimes, strike(id, now + l)
  PROVE  StrikeInv'
<1> DEFINE hits == Hit(strikes, id)
           n == IF hits = {} THEN Len(strikes) + 1 ELSE First(hits)
           s == Reclaim(strikes, n)
<1> USE TicketAssumption
<1>1. /\ now \in Nat /\ strikes \in Seq(Slots) /\ Len(strikes) \in Nat /\ DOMAIN strikes = 1 .. Len(strikes)
      /\ struck \in Seq(Hellos) /\ Len(struck) \in Nat /\ DOMAIN struck = 1 .. Len(struck)
      /\ Len(strikes) <= STRIKE_MAX /\ STRIKE_MAX \in Nat \ {0}
  BY DEF StrikeInv
<1>2. n \in Nat
  <2>1. hits # {} => First(hits) \in hits
    <3>1. hits \subseteq Nat
      BY <1>1 DEF Hit
    <3> HIDE DEF hits
    <3> QED BY Zenon, <3>1, FirstIsLeast
  <2>2. hits \subseteq Nat
    BY <1>1 DEF Hit
  <2>3. CASE hits = {}
    BY <1>1, <2>3
  <2>4. CASE hits # {}
    <3>1. n = First(hits)
      BY <2>4
    <3> HIDE DEF n, hits
    <3> QED BY Zenon, <2>1, <2>2, <2>4, <3>1
  <2> QED BY <2>3, <2>4
<1> HIDE DEF n
<1>3. /\ s \in Seq(Slots) /\ Len(s) = Len(strikes) /\ DOMAIN s = DOMAIN strikes
      /\ \A p \in DOMAIN strikes :
           /\ s[p].expiry = strikes[p].expiry /\ s[p].id \in {0, strikes[p].id}
           /\ Live(strikes[p]) => s[p] = strikes[p]
           /\ p < n /\ ~Live(strikes[p]) => s[p].id = 0
  BY <1>2, Reclaimed
<1>4. now' = now
  BY DEF strike
<1>5. ASSUME NEW i \in DOMAIN struck, struck[i].expiry > now, NEW p \in DOMAIN strikes,
             strikes[p].id = struck[i].id, strikes[p].expiry = struck[i].expiry
      PROVE  Live(strikes[p]) /\ s[p].id = struck[i].id /\ s[p].expiry = struck[i].expiry
  <2>1. struck[i].id # 0
    <3>1. struck[i] \in Hellos
      BY <1>1
    <3> QED BY <3>1 DEF Hellos
  <2>2. Live(strikes[p])
    BY <1>5, <2>1 DEF Live
  <2> HIDE DEF s
  <2> QED BY <1>3, <1>5, <2>2
<1>6. CASE hits # {}
  <2>1. strikes' = s /\ struck' = struck
    BY <1>6 DEF strike, n
  <2> HIDE DEF s, hits
  <2>2. ASSUME NEW p \in DOMAIN s, NEW q \in DOMAIN s, p # q, s[p].id # 0 PROVE s[p].id # s[q].id
    <3>1. p \in DOMAIN strikes /\ q \in DOMAIN strikes
      BY Zenon, <1>3
    <3>2. s[p].id = strikes[p].id /\ strikes[p].id # 0 /\ s[q].id \in {0, strikes[q].id}
      BY Zenon, <1>3, <2>2, <3>1
    <3>3. strikes[p].id # strikes[q].id
      BY Zenon, <2>2, <3>1, <3>2 DEF StrikeInv
    <3> QED BY Zenon, <2>2, <3>2, <3>3
  <2>3. ASSUME NEW p \in DOMAIN s, s[p].id # 0
        PROVE  \E m \in DOMAIN struck : struck[m].id = s[p].id /\ struck[m].expiry = s[p].expiry
    BY <1>3, <2>3 DEF StrikeInv
  <2>4. ASSUME NEW i \in DOMAIN struck, struck[i].expiry > now PROVE Kept(i)' \/ Evicted(i)'
    <3>1. CASE Kept(i)
      BY <1>3, <1>5, <2>1, <2>4, <3>1 DEF Kept
    <3>2. CASE Evicted(i)
      BY Zenon, <2>1, <3>2 DEF Evicted, Overflow
    <3> QED BY <2>4, <3>1, <3>2 DEF StrikeInv
  <2>5. StruckOnce'
    <3>1. StruckOnce
      BY DEF StrikeInv
    <3> QED BY <2>1, <3>1, OnceKept
  <2> QED BY <1>1, <1>3, <1>4, <2>1, <2>2, <2>3, <2>4, <2>5 DEF StrikeInv
<1>7. CASE hits = {}
  <2> DEFINE free == {i \in DOMAIN s : s[i].id = 0}
             slot == IF free # {} THEN First(free)
                     ELSE IF Len(s) < STRIKE_MAX THEN Len(s) + 1 ELSE Oldest(s)
             entry == [id |-> id, expiry |-> now + l]
             h == [id |-> id, expiry |-> now + l, at |-> now]
             top == IF slot > Len(s) THEN slot ELSE Len(s)
  <2>0. PICK N : N = Len(struck) + 1
    OBVIOUS
  <2>1. n = Len(strikes) + 1
    BY <1>7 DEF n
  <2>2. strikes' = [i \in 1 .. top |-> IF i = slot THEN entry ELSE s[i]] /\ struck' = Append(struck, h)
    BY Zenon, <1>7 DEF strike, n
  <2> HIDE DEF s, hits
  <2>3. /\ slot \in Nat /\ 1 <= slot /\ slot <= Len(s) + 1 /\ slot <= STRIKE_MAX
        /\ slot <= Len(s) => s[slot].id = 0 \/ (Len(s) = STRIKE_MAX /\ \A q \in DOMAIN s : s[q].id # 0)
    <3>1. CASE free # {}
      <4>1. free \subseteq Nat
        BY <1>1, <1>3
      <4>2. First(free) \in free
        <5> HIDE DEF free
        <5> QED BY Zenon, <3>1, <4>1, FirstIsLeast
      <4>3. slot \in DOMAIN s /\ s[slot].id = 0
        BY <3>1, <4>2
      <4>4. Len(s) \in Nat /\ Len(s) <= STRIKE_MAX /\ DOMAIN s = 1 .. Len(s) /\ STRIKE_MAX \in Nat
        BY <1>1, <1>3
      <4> HIDE DEF slot, free
      <4> QED BY <4>3, <4>4
    <3>2. CASE free = {} /\ Len(s) < STRIKE_MAX
      <4>1. slot = Len(s) + 1
        BY <3>2
      <4>2. Len(s) \in Nat
        BY <1>3
      <4> HIDE DEF slot, free
      <4> QED BY <3>2, <4>1, <4>2
    <3>3. CASE free = {} /\ ~(Len(s) < STRIKE_MAX)
      <4>1. Len(s) = STRIKE_MAX /\ s # <<>>
        BY <1>1, <1>3, <3>3
      <4>2. Oldest(s) \in DOMAIN s
        BY <1>3, <4>1, OldestIsSlot
      <4>3. slot = Oldest(s)
        BY <3>3
      <4>4. \A q \in DOMAIN s : s[q].id # 0
        BY <3>3
      <4> HIDE DEF free, slot
      <4> QED BY <1>1, <1>3, <4>1, <4>2, <4>3, <4>4
    <3> QED BY Zenon, <3>1, <3>2, <3>3
  <2> HIDE DEF slot, free
  <2>4. now + l \in Nat /\ now + l > now /\ entry \in Slots /\ h \in Hellos
    BY <1>1 DEF Slots, Hellos
  <2>5. top \in Nat /\ top <= STRIKE_MAX /\ 1 .. top = DOMAIN s \cup {slot}
    BY <1>1, <1>3, <2>3
  <2> HIDE DEF top
  <2>6. /\ strikes' \in Seq(Slots) /\ Len(strikes') <= STRIKE_MAX /\ DOMAIN strikes' = DOMAIN s \cup {slot}
        /\ strikes'[slot] = entry /\ \A p \in DOMAIN s : p # slot => strikes'[p] = s[p]
    <3>1. \A i \in 1 .. top : (IF i = slot THEN entry ELSE s[i]) \in Slots
      <4>1. \A i \in DOMAIN s : s[i] \in Slots
        BY <1>3
      <4> HIDE DEF entry
      <4> QED BY <2>4, <2>5, <4>1
    <3> HIDE DEF entry
    <3>2. DOMAIN strikes' = 1 .. top /\ \A i \in 1 .. top : strikes'[i] = IF i = slot THEN entry ELSE s[i]
      BY <2>2
    <3>3. strikes' \in Seq(Slots) /\ Len(strikes') = top
      BY <2>2, <2>5, <3>1
    <3> QED BY <2>5, <3>2, <3>3
  <2> HIDE DEF h
  <2>7. /\ struck' \in Seq(Hellos) /\ Len(struck') = N /\ struck'[N] = h /\ DOMAIN struck' = DOMAIN struck \cup {N}
        /\ \A m \in DOMAIN struck : struck'[m] = struck[m]
    BY <1>1, <2>0, <2>2, <2>4
  <2>8. \A p \in DOMAIN s : s[p].id # 0 => Live(strikes[p]) /\ s[p] = strikes[p] /\ s[p].id # id
    <3> SUFFICES ASSUME NEW p \in DOMAIN s, s[p].id # 0 PROVE Live(strikes[p]) /\ s[p] = strikes[p] /\ s[p].id # id
      OBVIOUS
    <3>1. p < n
      BY <1>1, <1>3, <2>1
    <3>2. Live(strikes[p]) /\ s[p] = strikes[p]
      BY <1>3, <3>1
    <3>3. p \notin hits
      BY <1>7
    <3> QED BY <1>3, <3>2, <3>3 DEF Hit, hits
  <2>9. ASSUME NEW p \in DOMAIN strikes', NEW q \in DOMAIN strikes', p # q, strikes'[p].id # 0
        PROVE  strikes'[p].id # strikes'[q].id
    <3>1. id # 0 /\ entry.id = id
      BY TicketAssumption
    <3> HIDE DEF entry
    <3>2. CASE p = slot
      <4>1. q \in DOMAIN s /\ strikes'[q] = s[q]
        BY <2>6, <2>9, <3>2
      <4> QED BY <2>6, <2>8, <3>1, <3>2, <4>1
    <3>3. CASE q = slot
      <4>1. p \in DOMAIN s /\ strikes'[p] = s[p]
        BY <2>6, <2>9, <3>3
      <4> QED BY <2>6, <2>8, <2>9, <3>1, <3>3, <4>1
    <3>4. CASE p # slot /\ q # slot
      <4>1. p \in DOMAIN s /\ strikes'[p] = s[p] /\ q \in DOMAIN s /\ strikes'[q] = s[q]
        BY <2>6, <2>9, <3>4
      <4>2. s[p] = strikes[p] /\ s[q].id \in {0, strikes[q].id} /\ strikes[p].id # 0
        BY <1>3, <2>8, <2>9, <4>1
      <4> QED BY <1>3, <2>9, <4>1, <4>2 DEF StrikeInv
    <3> QED BY <3>2, <3>3, <3>4
  <2>10. ASSUME NEW p \in DOMAIN strikes', strikes'[p].id # 0
         PROVE  \E m \in DOMAIN struck' : struck'[m].id = strikes'[p].id /\ struck'[m].expiry = strikes'[p].expiry
    <3>1. CASE p = slot
      <4>1. N \in DOMAIN struck' /\ struck'[N].id = id /\ struck'[N].expiry = now + l
        BY <2>7 DEF h
      <4> QED BY <2>6, <3>1, <4>1
    <3>2. CASE p # slot
      <4>1. p \in DOMAIN s /\ strikes'[p] = s[p]
        BY <2>6, <2>10, <3>2
      <4>2. p \in DOMAIN strikes /\ s[p] = strikes[p] /\ strikes[p].id # 0
        BY <1>3, <2>8, <2>10, <4>1
      <4>3. PICK m \in DOMAIN struck : struck[m].id = strikes[p].id /\ struck[m].expiry = strikes[p].expiry
        BY <4>2 DEF StrikeInv
      <4> QED BY <2>7, <4>1, <4>2, <4>3
    <3> QED BY <3>1, <3>2
  <2>11. ASSUME NEW i \in DOMAIN struck, NEW k \in 1 .. Len(struck) PROVE Overflow(i, k)' <=> Overflow(i, k)
    <3>1. \A m \in 1 .. k : m \in DOMAIN struck
      BY <1>1
    <3>2. \A m \in 1 .. k : struck'[m] = struck[m]
      BY <2>7, <3>1
    <3>3. struck'[k] = struck[k]
      BY <3>2
    <3>4. {m \in (1..k) \ {i} : struck'[m].expiry > struck'[k].at} = {m \in (1..k) \ {i} : struck[m].expiry > struck[k].at}
      BY <3>2, <3>3
    <3> QED BY Zenon, <3>4 DEF Overflow
  <2>12. ASSUME NEW i \in DOMAIN struck', struck'[i].expiry > now PROVE Kept(i)' \/ Evicted(i)'
    <3>1. CASE i = N
      <4>1. struck'[i].id = id /\ struck'[i].expiry = now + l
        BY <2>7, <3>1 DEF h
      <4> QED BY <2>6, <4>1 DEF Kept
    <3>2. CASE i # N
      <4>1. i \in DOMAIN struck /\ struck'[i] = struck[i]
        BY <2>7, <3>2
      <4>2. CASE Evicted(i)
        <5>1. PICK k \in (i + 1) .. Len(struck) : Overflow(i, k)
          BY <4>2 DEF Evicted
        <5>2. k \in 1 .. Len(struck) /\ k \in (i + 1) .. Len(struck')
          BY <1>1, <2>0, <2>7, <4>1, <5>1
        <5> QED BY <2>11, <4>1, <5>1, <5>2 DEF Evicted
      <4>3. CASE Kept(i)
        <5>1. PICK p \in DOMAIN strikes : strikes[p].id = struck[i].id /\ strikes[p].expiry = struck[i].expiry
          BY <4>3 DEF Kept
        <5>2. Live(strikes[p]) /\ s[p].id = struck[i].id /\ s[p].expiry = struck[i].expiry
          BY <1>5, <2>12, <4>1, <5>1
        <5>3. CASE p # slot
          <6>1. p \in DOMAIN strikes' /\ strikes'[p] = s[p]
            BY <1>3, <2>6, <5>3
          <6> QED BY <4>1, <5>2, <6>1 DEF Kept
        <5>4. CASE p = slot
          <6>1. s[p].id # 0 /\ slot <= Len(s)
            BY <1>1, <1>3, <5>2, <5>4 DEF Live
          <6>2. Len(strikes) = STRIKE_MAX /\ \A q \in DOMAIN strikes : Live(strikes[q])
            BY Zenon, <1>3, <2>3, <2>8, <5>4, <6>1
          <6>3. p \in 1 .. STRIKE_MAX
            BY <1>1, <6>2
          <6>4. h.at = now /\ h.expiry > now
            BY <2>4 DEF h
          <6>5. Overflow(i, N)'
            BY Zenon, <2>0, <2>2, <2>4, <4>1, <5>1, <6>2, <6>3, <6>4, FullMeansOverflow
          <6>6. N \in (i + 1) .. Len(struck')
            BY <1>1, <2>0, <2>7, <4>1
          <6> QED BY <6>5, <6>6 DEF Evicted
        <5> QED BY <5>3, <5>4
      <4> QED BY <2>12, <4>1, <4>2, <4>3 DEF StrikeInv
    <3> QED BY <3>1, <3>2
  <2>13. ASSUME NEW i \in DOMAIN struck', NEW j \in DOMAIN struck',
                i < j, struck'[i].id = struck'[j].id, struck'[j].at < struck'[i].expiry
         PROVE  \E k \in (i + 1) .. (j - 1) : Overflow(i, k)'
    <3>1. i \in DOMAIN struck /\ struck'[i] = struck[i]
      BY <1>1, <2>0, <2>7, <2>13
    <3>2. CASE j # N
      <4>1. j \in DOMAIN struck /\ struck'[j] = struck[j]
        BY <2>7, <3>2
      <4>2. PICK k \in (i + 1) .. (j - 1) : Overflow(i, k)
        <5>1. StruckOnce
          BY DEF StrikeInv
        <5> QED BY <2>13, <3>1, <4>1, <5>1, Zenon DEF StruckOnce, Overflow
      <4>3. k \in 1 .. Len(struck)
        BY <1>1, <3>1, <4>1, <4>2
      <4> QED BY <2>11, <3>1, <4>2, <4>3
    <3>3. CASE j = N
      <4>1. struck[i].id = id /\ now < struck[i].expiry
        BY <2>7, <2>13, <3>1, <3>3 DEF h
      <4>2. struck[i].expiry > now
        BY <1>1, <3>1, <4>1 DEF Hellos
      <4>3. ~Kept(i)
        <5> SUFFICES ASSUME Kept(i) PROVE FALSE
          OBVIOUS
        <5>1. PICK p \in DOMAIN strikes : strikes[p].id = struck[i].id /\ strikes[p].expiry = struck[i].expiry
          BY DEF Kept
        <5>2. Live(strikes[p]) /\ strikes[p].id = id
          BY <1>5, <3>1, <4>1, <4>2, <5>1
        <5> QED BY <1>7, <5>2 DEF Hit, hits
      <4>4. PICK k \in (i + 1) .. Len(struck) : Overflow(i, k)
        BY <3>1, <4>2, <4>3 DEF StrikeInv, Evicted
      <4>5. k \in 1 .. Len(struck) /\ k \in (i + 1) .. (j - 1)
        BY <1>1, <2>0, <3>1, <3>3, <4>4
      <4> QED BY <2>11, <3>1, <4>4, <4>5
    <3> QED BY <3>2, <3>3
  <2>14. StruckOnce'
    BY Zenon, <2>13 DEF StruckOnce, Overflow
  <2> QED BY <1>1, <1>4, <2>6, <2>7, <2>9, <2>10, <2>12, <2>14 DEF StrikeInv
<1> QED BY <1>6, <1>7

\* Two acceptances of the same 0-RTT hello while it has not expired have an
\* overflow of the register between them, and a ticket opens exactly while its key
\* is among the KEYS_MAX newest, whatever the order of rotations, seals, strikes
\* and expiries.
THEOREM ReplaysRefused == TicketSpec => []ReplayRefused
<1> DEFINE Inv == KeysInv /\ StrikeInv
<1>1. TicketInit => Inv
  <2> SUFFICES ASSUME TicketInit PROVE Inv
    OBVIOUS
  <2>1. KeysInv
    BY TicketAssumption DEF TicketInit, KeysInv
  <2>2. DOMAIN strikes = {} /\ DOMAIN struck = {} /\ Len(strikes) = 0
    BY DEF TicketInit
  <2>3. StrikeInv
    <3>1. strikes \in Seq(Slots) /\ struck \in Seq(Hellos) /\ now \in Nat /\ Len(strikes) <= STRIKE_MAX
      BY <2>2, TicketAssumption DEF TicketInit
    <3>2. StruckOnce
      BY <2>2 DEF StruckOnce
    <3> QED BY <2>2, <3>1, <3>2 DEF StrikeInv
  <2> QED BY <2>1, <2>3
<1>2. StrikeInv /\ [TicketNext]_ticketVars => StrikeInv'
  <2> SUFFICES ASSUME StrikeInv, [TicketNext]_ticketVars PROVE StrikeInv'
    OBVIOUS
  <2>1. ASSUME Tick PROVE StrikeInv'
    <3>1. now' = now + 1 /\ UNCHANGED <<strikes, struck>> /\ now \in Nat
      BY <2>1 DEF Tick, StrikeInv
    <3>2. ASSUME NEW i \in DOMAIN struck, struck[i].expiry > now + 1 PROVE Kept(i) \/ Evicted(i)
      <4>1. struck[i].expiry \in Nat
        <5>1. struck[i] \in Hellos
          BY DEF StrikeInv
        <5> QED BY <5>1 DEF Hellos
      <4>2. struck[i].expiry > now
        BY <3>1, <3>2, <4>1
      <4> QED BY <4>2 DEF StrikeInv
    <3>3. \A i \in DOMAIN struck : (Kept(i)' <=> Kept(i)) /\ (Evicted(i)' <=> Evicted(i))
      BY <3>1 DEF Kept, Evicted, Overflow
    <3>4. StruckOnce'
      <4>1. StruckOnce
        BY DEF StrikeInv
      <4> QED BY <3>1, <4>1, OnceKept
    <3> QED BY <3>1, <3>2, <3>3, <3>4 DEF StrikeInv
  <2>2. ASSUME UNCHANGED <<strikes, struck, now>> PROVE StrikeInv'
    <3>1. \A i \in DOMAIN struck : (Kept(i)' <=> Kept(i)) /\ (Evicted(i)' <=> Evicted(i))
      BY <2>2 DEF Kept, Evicted, Overflow
    <3>2. StruckOnce'
      <4>1. StruckOnce
        BY DEF StrikeInv
      <4> QED BY <2>2, <4>1, OnceKept
    <3> QED BY <2>2, <3>1, <3>2 DEF StrikeInv
  <2> QED BY <2>1, <2>2, StrikeStep DEF TicketNext, rotate, seal, ticketVars
<1>3. Inv => ReplayRefused
  BY KeysOpen DEF StrikeInv, ReplayRefused
<1>4. Inv /\ [TicketNext]_ticketVars => Inv'
  BY <1>2, KeysStep
<1> HIDE DEF Inv
<1> QED BY <1>1, <1>3, <1>4, PTL DEF TicketSpec

-----------------------------------------------------------------------------
(***************************************************************************)
(* The ring queue implements the bounded FIFO for every size: a push or    *)
(* pop of the ring, seen through Contents, is a push or pop of the         *)
(* sequence, and a refused push is a stutter.                              *)
(***************************************************************************)
AnyItem == Items \cup {NullItem}

(* The indices stay in 0..sizep1, and one slot stays free: without that the *)
(* two equal indices of a full ring could not be told from an empty one.   *)
(* tail is 0 only in a ring that was never pushed to or was reset, where   *)
(* head is 0 as well: with head at sizep1 the ring would be empty by       *)
(* r_queue_ring_size and not empty by r_queue_ring_is_empty.               *)
RingInv ==
  /\ buffer \in [0..Size -> AnyItem]
  /\ head \in 0..sizep1 /\ tail \in 0..sizep1
  /\ tail = 0 => head = 0
  /\ r_queue_ring_size \in 0..Size

LEMMA SeqEqualItems ==
  ASSUME NEW s \in Seq(AnyItem), NEW t \in Seq(AnyItem), Len(s) = Len(t), \A i \in 1..Len(s) : s[i] = t[i]
  PROVE  s = t
OBVIOUS

(* The slot i places behind head: rqueuering.c reduces an index only when   *)
(* it uses it, so the sum is below twice the number of slots.              *)
LEMMA Slot ==
  ASSUME NEW S \in Nat \ {0}, NEW h \in 0..S, NEW i \in 0..(S - 1)
  PROVE  (h + i) % S = IF h + i < S THEN h + i ELSE h + i - S
<1>. DEFINE x == h + i
<1>1. x \in 0..(2 * S - 1)
  OBVIOUS
<1>2. x % S = IF x < S THEN x ELSE x - S
  <2>. HIDE DEF x
  <2>. QED
    BY <1>1
<1>. QED
  BY <1>2

(* Two intervals from 1 with the same members have the same length.         *)
LEMMA SameLength ==
  ASSUME NEW m \in Nat, NEW n \in Nat, 1..m = 1..n
  PROVE  m = n
<1>1. CASE m < n
  <2>1. n \in 1..n /\ n \notin 1..m
    BY <1>1
  <2>. QED
    BY <2>1
<1>2. CASE n < m
  <2>1. m \in 1..m /\ m \notin 1..n
    BY <1>2
  <2>. QED
    BY <2>1
<1>. QED
  BY <1>1, <1>2

(* Contents is a sequence of r_queue_ring_size items, the i-th i places     *)
(* behind head, which is a slot of the buffer.                             *)
ContentsRead ==
  /\ Contents \in Seq(AnyItem) /\ Len(Contents) = r_queue_ring_size
  /\ \A i \in 1..r_queue_ring_size : Contents[i] = buffer[(head + i - 1) % sizep1]
(* Reading the ring through Contents is sound in every state of RingInv.    *)
LEMMA ContentsSeq == RingInv => ContentsRead
<1>. SUFFICES ASSUME RingInv PROVE ContentsRead
  OBVIOUS
<1>. DEFINE n == r_queue_ring_size
<1>0. n \in Nat /\ n <= Size /\ sizep1 \in Nat \ {0} /\ head \in 0..sizep1
  BY SizeAssumption DEF RingInv, sizep1
<1>1. \A i \in 1..n : (head + i - 1) % sizep1 \in 0..Size
  BY <1>0, SizeAssumption DEF sizep1
<1>2. Contents \in [1..n -> AnyItem]
  BY Zenon, <1>1 DEF Contents, RingInv
<1>3. Contents \in Seq(AnyItem)
  BY <1>2, <1>0
<1>4. DOMAIN Contents = 1..Len(Contents) /\ Len(Contents) \in Nat
  BY <1>3
<1>5. Len(Contents) = n
  <2>1. 1..n = 1..Len(Contents)
    BY <1>2, <1>4
  <2>. QED
    BY Zenon, <2>1, <1>0, <1>4, SameLength
<1>. QED
  BY Zenon, <1>3, <1>5 DEF Contents, ContentsRead

(* An empty ring has the empty sequence.                                    *)
LEMMA ContentsEmpty ==
  ASSUME RingInv, tail = head
  PROVE  Contents = << >>
<1>1. r_queue_ring_size = 0
  BY DEF RingInv, r_queue_ring_size, sizep1
<1>. QED
  BY <1>1, ContentsSeq DEF ContentsRead

(* r_queue_ring_push keeps the indices in range, and appends: the slot it   *)
(* writes is the one behind the last item and none of the others.          *)
LEMMA PushAppends ==
  ASSUME RingInv, NEW item \in Items, r_queue_ring_push(item)
  PROVE  RingInv' /\ Contents' = Append(Contents, item) /\ Len(Contents) < Size
<1>. DEFINE n == r_queue_ring_size
            S == sizep1
<1>0. /\ n \in Nat /\ n < Size /\ S = Size + 1 /\ Size \in Nat /\ Size > 0
      /\ head \in 0..S /\ tail \in 0..S /\ head' = head /\ tail' = (tail % S) + 1
      /\ buffer' = [buffer EXCEPT ![tail % S] = item] /\ buffer \in [0..Size -> AnyItem]
  BY SizeAssumption DEF RingInv, r_queue_ring_push, sizep1
<1>1. tail % S = (IF tail < S THEN tail ELSE 0) /\ tail % S \in 0..Size
  BY <1>0
<1>2. n' = n + 1
  BY <1>0, <1>1 DEF r_queue_ring_size, sizep1
<1>3. buffer' \in [0..Size -> AnyItem]
  BY <1>0, <1>1 DEF AnyItem
<1>4. RingInv'
  BY <1>0, <1>1, <1>2, <1>3 DEF RingInv, sizep1
<1>5. n = IF tail >= head THEN tail - head ELSE S - (head - tail)
  BY DEF r_queue_ring_size
<1>6. \A k \in 0..n : (head + k) % S = IF head + k < S THEN head + k ELSE head + k - S
  <2>1. ASSUME NEW k \in 0..n PROVE (head + k) % S = IF head + k < S THEN head + k ELSE head + k - S
    <3>1. S \in Nat \ {0} /\ head \in 0..S /\ k \in 0..(S - 1)
      BY <1>0
    <3>. QED
      BY Zenon, <3>1, Slot
  <2>. QED
    BY <2>1
<1>a. (head + n) % S = tail % S
  BY <1>0, <1>1, <1>5, <1>6
<1>b. \A k \in 0..(n - 1) : (head + k) % S # tail % S /\ (head + k) % S \in 0..Size
  BY <1>0, <1>1, <1>5, <1>6
<1>c. ASSUME NEW i \in 1..n PROVE (head + i - 1) % S # tail % S /\ (head + i - 1) % S \in 0..Size
  <2>1. i - 1 \in 0..(n - 1) /\ head + i - 1 = head + (i - 1)
    BY <1>0
  <2>. QED
    BY <2>1, <1>b
<1>7. ContentsRead /\ ContentsRead'
  BY <1>4, ContentsSeq, PTL
<1>8. \A i \in 1..n : Contents'[i] = Contents[i]
  BY <1>7, <1>0, <1>2, <1>c DEF ContentsRead, sizep1
<1>9. Contents'[n + 1] = item
  BY <1>7, <1>0, <1>1, <1>2, <1>a DEF ContentsRead, sizep1
<1>10. Append(Contents, item) \in Seq(AnyItem) /\ Len(Append(Contents, item)) = n + 1
  BY <1>7 DEF ContentsRead, AnyItem
<1>11. \A i \in 1..(n + 1) : Append(Contents, item)[i] = IF i <= n THEN Contents[i] ELSE item
  <2>1. Contents \in Seq(AnyItem) /\ Len(Contents) = n
    BY <1>7 DEF ContentsRead
  <2>. HIDE DEF n
  <2>. QED
    BY <1>0, <2>1
<1>12. Contents' = Append(Contents, item)
  <2>1. Contents' \in Seq(AnyItem) /\ Len(Contents') = n + 1
    BY <1>7, <1>2 DEF ContentsRead, AnyItem
  <2>2. \A i \in 1..(n + 1) : Contents'[i] = Append(Contents, item)[i]
    <3>1. ASSUME NEW i \in 1..(n + 1) PROVE Contents'[i] = Append(Contents, item)[i]
      <4>1. CASE i \in 1..n
        <5>1. i <= n
          BY <4>1, <1>0
        <5>. QED
          BY Zenon, <4>1, <5>1, <1>8, <1>11
      <4>2. CASE i = n + 1
        <5>1. ~(i <= n)
          BY <4>2, <1>0
        <5>. QED
          BY Zenon, <4>2, <5>1, <1>9, <1>11
      <4>3. i \in 1..n \/ i = n + 1
        BY <1>0
      <4>. QED
        BY Zenon, <4>1, <4>2, <4>3
    <3>. QED
      BY Zenon, <3>1
  <2>. QED
    BY <2>1, <2>2, <1>10, SeqEqualItems
<1>. QED
  BY <1>4, <1>12, <1>7, <1>0 DEF ContentsRead

(* r_queue_ring_pop of a ring that is not empty keeps the indices in range, *)
(* returns the oldest item and leaves the others as they are.              *)
LEMMA PopTakesHead ==
  ASSUME RingInv, tail # head, r_queue_ring_pop
  PROVE  RingInv' /\ Contents # << >> /\ popped' = Head(Contents) /\ Contents' = Tail(Contents)
<1>. DEFINE n == r_queue_ring_size
            S == sizep1
<1>0. /\ n \in Nat /\ n <= Size /\ S = Size + 1 /\ Size \in Nat /\ Size > 0
      /\ head \in 0..S /\ tail \in 0..S /\ tail' = tail /\ head' = (head % S) + 1
      /\ buffer' = buffer /\ popped' = buffer[head % S] /\ tail # head
      /\ (tail = 0 => head = 0)
  BY SizeAssumption DEF RingInv, r_queue_ring_pop, sizep1
<1>1. head % S = (IF head < S THEN head ELSE 0)
  BY <1>0
<1>2. n = IF tail >= head THEN tail - head ELSE S - (head - tail)
  BY DEF r_queue_ring_size
<1>3. n' = IF tail' >= head' THEN tail' - head' ELSE S - (head' - tail')
  BY DEF r_queue_ring_size, sizep1
<1>4. n > 0 /\ n' = n - 1 /\ head' \in 0..S
  BY <1>0, <1>1, <1>2, <1>3
<1>5. RingInv'
  BY <1>0, <1>4 DEF RingInv, sizep1
<1>6. ContentsRead /\ ContentsRead'
  BY <1>5, ContentsSeq, PTL
<1>7. Contents # << >> /\ Contents \in Seq(AnyItem) /\ Len(Contents) = n
  BY <1>6, <1>4 DEF ContentsRead
<1>8. popped' = Head(Contents)
  <2>1. Contents[1] = buffer[(head + 1 - 1) % S]
    <3>1. \A i \in 1..n : Contents[i] = buffer[(head + i - 1) % S]
      BY <1>6 DEF ContentsRead
    <3>. QED
      BY <1>0, <1>4, <3>1
  <2>2. head + 1 - 1 = head
    BY <1>0
  <2>3. Head(Contents) = Contents[1]
    BY <1>7
  <2>. QED
    BY <2>1, <2>2, <2>3, <1>0
<1>9. Tail(Contents) \in Seq(AnyItem) /\ Len(Tail(Contents)) = n - 1
      /\ \A i \in 1..(n - 1) : Tail(Contents)[i] = Contents[i + 1]
  BY <1>7
<1>10. ASSUME NEW i \in 1..(n - 1) PROVE Contents'[i] = Tail(Contents)[i]
  <2>1. i + 1 \in 1..n /\ Contents[i + 1] = buffer[(head + (i + 1) - 1) % S]
    BY <1>6, <1>0 DEF ContentsRead
  <2>2. Contents'[i] = buffer[(head' + i - 1) % S]
    BY <1>6, <1>4, <1>0 DEF ContentsRead, sizep1
  <2>3. /\ head + (i + 1) - 1 = head + i /\ S \in Nat \ {0} /\ i \in 0..(S - 1)
        /\ head' + i - 1 = (head % S) + i /\ head % S \in 0..S
    BY <1>0, <1>1
  <2>4. (head + i) % S = IF head + i < S THEN head + i ELSE head + i - S
    BY Zenon, <2>3, <1>0, Slot
  <2>5. ((head % S) + i) % S = IF (head % S) + i < S THEN (head % S) + i ELSE (head % S) + i - S
    BY Zenon, <2>3, <1>0, Slot
  <2>6. (head + i) % S = ((head % S) + i) % S
    BY <2>4, <2>5, <1>1, <1>0, <2>3
  <2>. QED
    BY <2>1, <2>2, <2>3, <2>6, <1>9
<1>11. Contents' = Tail(Contents)
  <2>1. Contents' \in Seq(AnyItem) /\ Len(Contents') = n - 1
    BY <1>6, <1>4 DEF ContentsRead, AnyItem
  <2>. QED
    BY <2>1, <1>9, <1>10, SeqEqualItems
<1>. QED
  BY <1>5, <1>7, <1>8, <1>11

(* r_queue_ring_clear leaves an empty ring, both indices in range.          *)
LEMMA ClearEmpties ==
  ASSUME RingInv, NEW notify \in BOOLEAN, r_queue_ring_clear(notify)
  PROVE  RingInv' /\ Contents' = << >> /\ popped' = NullItem
<1>1. /\ tail' = head' /\ head' \in 0..sizep1 /\ buffer' \in [0..Size -> AnyItem] /\ popped' = NullItem
  BY SizeAssumption DEF RingInv, r_queue_ring_clear, sizep1
<1>2. r_queue_ring_size' = 0
  <2>1. PICK k \in Int : tail' = k /\ head' = k
    BY <1>1, SizeAssumption DEF sizep1
  <2>2. k >= k /\ k - k = 0
    OBVIOUS
  <2>. QED
    BY <2>1, <2>2 DEF r_queue_ring_size
<1>3. RingInv'
  BY <1>1, <1>2, SizeAssumption DEF RingInv, AnyItem
<1>4. ContentsRead'
  BY <1>3, ContentsSeq, PTL
<1>5. Contents' = << >>
  BY <1>4, <1>2 DEF ContentsRead
<1>. QED
  BY <1>1, <1>3, <1>5

(* Every operation on the ring is the operation of the same name on the     *)
(* FIFO of its contents, or nothing.                                       *)
LEMMA StepSimulates ==
  RingInv /\ [RingNext]_ringVars
    => RingInv' /\ [FifoPush \/ FifoPop \/ FifoClear]_<<Contents, popped>>
<1>. SUFFICES ASSUME RingInv, [RingNext]_ringVars
              PROVE  RingInv' /\ [FifoPush \/ FifoPop \/ FifoClear]_<<Contents, popped>>
  OBVIOUS
<1>1. ASSUME NEW item \in Items, r_queue_ring_push(item)
      PROVE  RingInv' /\ FifoPush
  <2>1. popped' = popped
    BY <1>1 DEF r_queue_ring_push
  <2>. QED
    BY <1>1, <2>1, PushAppends DEF FifoPush
<1>2. CASE UNCHANGED ringVars
  BY <1>2 DEF ringVars, RingInv, Contents, r_queue_ring_size, sizep1, AnyItem
<1>3. ASSUME NEW item \in Items, r_queue_ring_push_full(item)
      PROVE  UNCHANGED ringVars
  BY <1>3 DEF r_queue_ring_push_full
<1>4. CASE r_queue_ring_pop
  <2>1. CASE tail = head
    <3>1. Contents = << >> /\ popped' = NullItem /\ UNCHANGED <<buffer, head, tail>>
      BY <1>4, <2>1, ContentsEmpty DEF r_queue_ring_pop
    <3>2. RingInv' /\ Contents' = Contents
      BY <3>1 DEF RingInv, Contents, r_queue_ring_size, sizep1, AnyItem
    <3>. QED
      BY <3>1, <3>2 DEF FifoPop
  <2>2. CASE tail # head
    BY <1>4, <2>2, PopTakesHead DEF FifoPop
  <2>. QED
    BY <2>1, <2>2
<1>5. ASSUME NEW notify \in BOOLEAN, r_queue_ring_clear(notify)
      PROVE  RingInv' /\ FifoClear
  BY <1>5, ClearEmpties DEF FifoClear
<1>. QED
  BY <1>1, <1>2, <1>3, <1>4, <1>5 DEF RingNext

(* A new ring, whatever its uncleared buffer holds, is the empty FIFO.      *)
LEMMA InitSimulates == RingInit => RingInv /\ FifoInit
<1>. SUFFICES ASSUME RingInit PROVE RingInv /\ FifoInit
  OBVIOUS
<1>1. RingInv /\ tail = head /\ popped = NullItem
  BY SizeAssumption DEF RingInit, r_queue_ring_new, RingInv, r_queue_ring_size, sizep1, AnyItem
<1>. QED
  BY <1>1, ContentsEmpty DEF FifoInit

(* The ring queue of rqueuering.c is a bounded FIFO for every size and set  *)
(* of items: no item is lost, repeated, reordered or overwritten, and a    *)
(* push is refused exactly when Size items are queued.                     *)
THEOREM RingImplementsFifo == RingSpec => ImplementsFifo
  BY InitSimulates, StepSimulates, PTL DEF RingSpec, ImplementsFifo
=============================================================================
