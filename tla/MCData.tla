------------------------------- MODULE MCData -------------------------------
(***************************************************************************)
(* The containers, one per behaviour ("which"), driven by bounded          *)
(* sequences of operations.  c is the container, g a ghost: what a plain   *)
(* function, sequence or set would hold after the same operations and what *)
(* would have been handed to the destroy notifiers.  The ring queue, the   *)
(* timeout list, the reference counts, the hazard records and the thread   *)
(* pool have variables of their own.                                       *)
(***************************************************************************)
EXTENDS RingQueue, ThreadPool, Reclaim, FiniteSets, TLC

CONSTANTS Which,             \* the containers of this run
          MaxOps             \* operations per behaviour

VARIABLES which, c, g, ops
VARIABLES first, last, length, nxt, prv, ts, lst, now, tpc, tcur, ret, crashed

Keys == 0..3
HASH(k) == k % 3             \* 0 and 3 collide in full
HOME(h, cap) == h % 2        \* and all of them in their home buckets
C == INSTANCE Containers WITH ALLOC_SHIFT <- 2, MIN_SIZE <- 2, INVALID_IDX <- 99, R_BSWORD_BITS <- 64, Addresses <- 1..6, ALLOC_MASK <- 3
M == INSTANCE Buffer WITH Descriptor <- 100, R_BUFFER_MAX_MEM <- 4
Y == INSTANCE TimeoutCBList WITH Entries <- 1..4, MaxTime <- 2, MaxFired <- 2, Null <- 0, head <- first, tail <- last, size <- length, pc <- tpc, cur <- tcur
Q == INSTANCE TimerQueue WITH Entries <- 1..4, Times <- 0..2, queue <- IF which = "timeout" THEN Y!Timers ELSE << >>,
       now <- IF which = "timeout" THEN now ELSE 0, busy <- IF which = "timeout" THEN tpc # "idle" ELSE FALSE

dataVars == <<which, c, g, ops>>
timeVars == <<first, last, length, nxt, prv, ts, lst, now, tpc, tcur, ret, crashed>>
ownVars == <<ringVars, refVars, hzrVars, timeVars, poolVars>>
vars == <<dataVars, ownVars>>

-----------------------------------------------------------------------------
(* Hash table and set; val is the number of the operation that stored it. *)
HashStart(n) == IF n = 0 THEN [c |-> C!r_hash_table_new_full, g |-> [m |-> << >>, out |-> {}]]
                ELSE [c |-> C!r_hash_table_insert(C!r_hash_table_insert(C!r_hash_table_new_full, 0, -1), 3, -2),
                      g |-> [m |-> (0 :> -1) @@ (3 :> -2), out |-> {}]]
Entry(k) == C!Bucket(k, g.m[k])
Without(ks) == [k \in DOMAIN g.m \ ks |-> g.m[k]]
HashInsert(k) ==
  /\ c' = C!r_hash_table_insert(c, k, ops)
  /\ g' = [m |-> (k :> ops) @@ g.m, out |-> g.out \cup (IF k \in DOMAIN g.m THEN {Entry(k)} ELSE {})]
HashSetInsert(k) ==
  /\ c' = C!r_hash_set_insert(c, [key |-> k, val |-> ops])
  /\ g' = [m |-> (k :> ops) @@ g.m, out |-> g.out \cup (IF k \in DOMAIN g.m THEN {Entry(k)} ELSE {})]
HashRemove(k) ==
  /\ k \in DOMAIN g.m
  /\ c' = C!r_hash_table_remove_full(c, k).ht
  /\ g' = [m |-> Without({k}), out |-> g.out \cup {Entry(k)}]
HashSteal(k) ==
  /\ c' = C!r_hash_table_steal(c, k).ht /\ g' = [g EXCEPT !.m = Without({k})]
HashRemoveOdd ==
  LET odd == {k \in DOMAIN g.m : k % 2 = 1}
  IN /\ c' = C!r_hash_table_remove_with_func(c, LAMBDA k, v : k % 2 = 1)
     /\ g' = [m |-> Without(odd), out |-> g.out \cup {Entry(k) : k \in odd}]
HashRemoveAll ==
  /\ c' = C!r_hash_table_remove_all(c)
  /\ g' = [m |-> << >>, out |-> g.out \cup {Entry(k) : k \in DOMAIN g.m}]
HashStep ==
  \/ \E k \in Keys : HashInsert(k) \/ HashRemove(k) \/ HashSteal(k)
  \/ \E k \in {0, 2} : HashSetInsert(k)
  \/ HashRemoveOdd \/ HashRemoveAll
HashAgrees ==
  /\ \A k \in Keys : /\ C!r_hash_table_lookup(c, k) = IF k \in DOMAIN g.m THEN <<g.m[k]>> ELSE << >>
                     /\ C!r_hash_set_contains(c, [key |-> k]) = (k \in DOMAIN g.m)
  /\ C!r_hash_table_foreach(c) = {<<k, g.m[k]>> : k \in DOMAIN g.m}
  /\ C!r_hash_table_size(c) = Cardinality(DOMAIN g.m)
  /\ c.notified = g.out
  /\ C!r_hash_table_max_probe(c) <= C!Capacity(c.allocidx)

-----------------------------------------------------------------------------
(* Pointer array: entries are the numbers 1, 2, ... of the adding operations. *)
Cut(s, i, n) == SubSeq(s, 1, i) \o SubSeq(s, i + n + 1, Len(s))
Nulls(n) == [i \in 1..n |-> 0]
Notes(s) == g.out \o SelectSeq(s, LAMBDA e : e # 0)
Grown(s, x) == [v |-> s, out |-> x]
ArrayAdd == c' = C!r_ptr_array_add(c, ops).a /\ g' = [g EXCEPT !.v = Append(@, ops)]
ArrayInsert(i) == /\ i <= Len(g.v) /\ c' = C!r_ptr_array_insert(c, i, ops).a
                  /\ g' = [g EXCEPT !.v = SubSeq(@, 1, i) \o <<ops>> \o SubSeq(@, i + 1, Len(@))]
ArrayUpdate(i) == /\ i < Len(g.v) /\ c' = C!r_ptr_array_update_idx(c, i, ops).a
                  /\ g' = Grown([g.v EXCEPT ![i + 1] = ops], Notes(<<g.v[i + 1]>>))
ArrayRemove(i) == /\ i < Len(g.v) /\ c' = C!r_ptr_array_remove_idx_full(c, i).a
                  /\ g' = Grown(Cut(g.v, i, 1), Notes(<<g.v[i + 1]>>))
ArrayRemoveFast(i) ==
  /\ i < Len(g.v) /\ c' = C!r_ptr_array_remove_idx_fast_full(c, i).a
  /\ g' = Grown(Front([g.v EXCEPT ![i + 1] = Last(g.v)]), Notes(<<g.v[i + 1]>>))
ArrayRemoveClear(i) ==
  /\ i < Len(g.v) /\ c' = C!r_ptr_array_remove_idx_clear_full(c, i).a
  /\ g' = Grown(IF i + 1 = Len(g.v) THEN Front(g.v) ELSE [g.v EXCEPT ![i + 1] = 0], Notes(<<g.v[i + 1]>>))
ArrayRange(i, n) ==
  LET size == IF n < 0 THEN Len(g.v) - i ELSE n
      good == i < Len(g.v) /\ i + size <= Len(g.v)
      mid == SubSeq(g.v, i + 1, i + size)
  IN \/ /\ c' = C!r_ptr_array_remove_range_full(c, i, n).a
        /\ g' = IF good THEN Grown(Cut(g.v, i, size), Notes(mid)) ELSE g
     \/ /\ c' = C!r_ptr_array_clear_range(c, i, n).a
        /\ g' = IF good THEN Grown(SubSeq(g.v, 1, i) \o Nulls(size) \o SubSeq(g.v, i + size + 1, Len(g.v)), Notes(mid)) ELSE g
     \/ /\ c' = C!r_ptr_array_remove_range_clear_full(c, i, n).a
        /\ g' = IF ~good THEN g
                ELSE Grown(IF i + size = Len(g.v) THEN SubSeq(g.v, 1, i)
                           ELSE SubSeq(g.v, 1, i) \o Nulls(size) \o SubSeq(g.v, i + size + 1, Len(g.v)), Notes(mid))
     \/ /\ good /\ i + 2 * size <= Len(g.v)        \* as many entries follow the range as it has
        /\ c' = C!r_ptr_array_remove_range_fast_full(c, i, n).a
        /\ g' = Grown([j \in 1..Len(g.v) - size |-> IF j \in i + 1..i + size THEN g.v[j + Len(g.v) - size - i] ELSE g.v[j]],
                      Notes(mid))
ArraySort == /\ \A i \in DOMAIN g.v : g.v[i] # 0
             /\ c' = C!r_ptr_array_sort(c, LAMBDA x, y : x - y) /\ g' = [g EXCEPT !.v = SortSeq(@, LAMBDA x, y : x < y)]
ArrayStep ==
  \/ ArrayAdd \/ ArraySort
  \/ \E i \in 0..3 : ArrayInsert(i) \/ ArrayUpdate(i) \/ ArrayRemove(i) \/ ArrayRemoveFast(i) \/ ArrayRemoveClear(i)
  \/ \E i \in 0..2, n \in {-1, 1, 2} : ArrayRange(i, n)
ArrayAgrees ==
  /\ c.v = g.v /\ c.notified = g.out /\ c.nalloc >= Len(c.v)
  /\ \A e \in 1..MaxOps : C!r_ptr_array_find_range(c, e, 0, -1)
       = IF \E i \in DOMAIN g.v : g.v[i] = e THEN (CHOOSE i \in DOMAIN g.v : g.v[i] = e) - 1 ELSE 99
  /\ C!r_ptr_array_clear(c).notified = g.out \o SelectSeq(g.v, LAMBDA e : e # 0)

(* Key-value array: keys may repeat. *)
KVAdd(k) == LET e == [key |-> k, val |-> ops] IN c' = C!r_kv_ptr_array_add(c, e) /\ g' = [g EXCEPT !.v = Append(@, e)]
KVUpdate(i, k) ==
  LET e == [key |-> k, val |-> ops]
  IN /\ i < Len(g.v) /\ c' = C!r_kv_ptr_array_update_idx(c, i, e)
     /\ g' = Grown([g.v EXCEPT ![i + 1] = e], Append(g.out, g.v[i + 1]))
KVRemoveFirst(k) ==
  LET hit == {i \in DOMAIN g.v : g.v[i].key = k}
      i == CHOOSE x \in hit : \A y \in hit : x <= y
  IN /\ c' = C!r_kv_ptr_array_remove_key_first(c, k).a
     /\ g' = IF hit = {} THEN g ELSE Grown(Cut(g.v, i - 1, 1), Append(g.out, g.v[i]))
KVRemoveAll(k) ==
  /\ c' = C!r_kv_ptr_array_remove_key_all(c, k).a
  /\ g' = Grown(SelectSeq(g.v, LAMBDA e : e.key # k), g.out \o SelectSeq(g.v, LAMBDA e : e.key = k))
KVClear == c' = C!r_kv_ptr_array_clear(c) /\ g' = Grown(<< >>, g.out \o g.v)
KVStep == \/ \E k \in 1..2 : KVAdd(k) \/ KVRemoveFirst(k) \/ KVRemoveAll(k) \/ \E i \in 0..1 : KVUpdate(i, k)
          \/ KVClear
KVAgrees == /\ c.v = g.v /\ c.notified = g.out
            /\ \A i \in 0..Len(g.v) : C!r_kv_ptr_array_get(c, i) = IF i < Len(g.v) THEN <<g.v[i + 1]>> ELSE << >>

-----------------------------------------------------------------------------
(* Bit sets of 70 bits, which span two words; positions around the boundary. *)
Positions == {0, 7, 60, 63, 64, 69}
Bits == 0..69
Val8 == {0, 1, 7}
BitOne(b, set) == c' = C!r_bitset_set_bit(c, b, set).bs /\ g' = IF set THEN g \cup {b} ELSE g \ {b}
BitAll(set) == c' = C!r_bitset_set_all(c, set).bs /\ g' = IF set THEN Bits ELSE {}
BitRun(b, n, set) ==
  /\ b + n <= 70 /\ (set \/ n <= 8)                \* a longer run is never cleared
  /\ c' = C!r_bitset_set_n_bits_at(c, n, b, set).bs
  /\ g' = IF set THEN g \cup b..b + n - 1 ELSE g \ (b..b + n - 1)
BitU8(b) == /\ c' = C!r_bitset_set_u8_at(c, Val8, b).bs
            /\ g' = IF b + 8 <= 70 THEN g \cup {b + x : x \in Val8} ELSE g
BitShift(n) == \/ /\ c' = C!r_bitset_shl(c, n).bs /\ g' = {b + n : b \in g} \cap Bits
               \/ /\ c' = C!r_bitset_shr(c, n).bs /\ g' = {b - n : b \in g} \cap Bits
BitNot == c' = C!r_bitset_not(c, c).bs /\ g' = Bits \ g
Other == [bits |-> 70, on |-> {0, 63, 64}]
BitWise(same) ==
  \/ c' = C!r_bitset_or(c, c, Other, "a").bs /\ g' = g \cup Other.on
  \/ c' = C!r_bitset_and(c, Other, c, "b").bs /\ g' = g \cap Other.on
  \/ c' = C!r_bitset_xor(c, c, Other, same).bs /\ g' = (g \ Other.on) \cup (Other.on \ g)
BitStep ==
  \/ \E b \in Positions, set \in BOOLEAN : BitOne(b, set) \/ \E n \in {7, 8, 10, 66} : BitRun(b, n, set)
  \/ \E set \in BOOLEAN : BitAll(set)
  \/ \E b \in Positions : BitU8(b) \/ BitShift(b)
  \/ BitNot \/ BitWise("a") \/ BitWise("neither")
BitsAgree ==
  /\ c.on = g /\ g \subseteq Bits
  /\ \A b \in Positions : /\ C!r_bitset_is_bit_set(c, b) = (b \in g)
                          /\ C!r_bitset_get_u16_at(c, b) = {x \in 0..15 : b + x \in g}
                          /\ C!r_bitset_get_u64_at(c, b) = {x \in 0..63 : b + x \in g}
  /\ C!r_bitset_set_from_human_readable(C!r_bitset_init(70), C!r_bitset_to_human_readable(c)).bs = c
  /\ C!r_bitset_popcount(c) = Cardinality(C!r_bitset_foreach(c, TRUE))
  /\ g # {} => C!r_bitset_clz(c) + C!r_bitset_ctz(c) <= 70 - C!r_bitset_popcount(c)

-----------------------------------------------------------------------------
(* Lists: g.v is the sequence of data, g.out what was freed, in order. *)
Nth(k) == C!r_list_nth(c.h, c.head, k)
PutAt(i) == [g EXCEPT !.v = SubSeq(@, 1, i) \o <<ops>> \o SubSeq(@, i + 1, Len(@))]
OutAt(i) == Grown(Cut(g.v, i, 1), Append(g.out, g.v[i + 1]))
Room == C!Free(c) # {}
ListPut ==
  \/ c' = C!r_list_prepend_copy(c, ops) /\ g' = PutAt(0)
  \/ c' = C!r_list_append_copy(c, ops) /\ g' = PutAt(Len(g.v))
  \/ c' = C!r_cblist_prepend_full(c, ops) /\ g' = PutAt(0)
  \/ \E i \in 0..2 : /\ i < Len(g.v)
                     /\ \/ c' = C!r_list_insert_after(c, Nth(i), ops) /\ g' = PutAt(i + 1)
                        \/ c' = C!r_list_insert_before(c, Nth(i), ops) /\ g' = PutAt(i)
ListTake ==
  \/ \E i \in 0..3 : i < Len(g.v) /\ c' = C!r_list_destroy_link(c, Nth(i)) /\ g' = OutAt(i)
  \/ \E i \in 0..3 : i < Len(g.v) /\ c' = C!r_list_remove(c, g.v[i + 1]) /\ g' = OutAt(i)
  \/ c' = C!r_list_destroy(c) /\ g' = Grown(<< >>, IF g.v = << >> THEN g.out ELSE g.out \o Tail(g.v) \o <<Head(g.v)>>)
  \/ c' = C!r_cbrlist_call(c, LAMBDA d : d % 2 = 0)
     /\ g' = Grown(SelectSeq(g.v, LAMBDA d : d % 2 = 0), g.out \o SelectSeq(g.v, LAMBDA d : d % 2 # 0))
ListStep == (Room /\ ListPut) \/ ListTake
ListAgrees ==
  /\ C!r_list_foreach(c.h, c.head) = g.v /\ c.gone = g.out
  /\ Reverse(C!Data(c.h, C!Prevs(c.h, C!r_list_last(c.h, c.head)))) = g.v
  /\ \A a \in DOMAIN c.h : C!r_list_len(c.h, a) = Len(g.v) /\ C!r_list_first(c.h, a) = c.head
  /\ Cardinality(DOMAIN c.h) = Len(g.v)

SListStep ==
  \/ Room /\ c' = C!r_slist_prepend_copy(c, ops) /\ g' = PutAt(0)
  \/ Room /\ c' = C!r_slist_append_copy(c, ops) /\ g' = PutAt(Len(g.v))
  \/ \E i \in 0..2 : /\ i < Len(g.v)
                     /\ \/ Room /\ c' = C!r_slist_insert_after(c, Nth(i), ops) /\ g' = PutAt(i + 1)
                        \/ c' = C!r_slist_destroy_link(c, Nth(i)) /\ g' = OutAt(i)
                        \/ (\A j \in 1..i : g.v[j] # g.v[i + 1]) /\ c' = C!r_slist_remove(c, g.v[i + 1]) /\ g' = OutAt(i)
  \/ c' = C!r_slist_destroy(c) /\ g' = Grown(<< >>, g.out \o g.v)
  \/ /\ Len(g.v) <= 3                              \* merged with its own copy
     /\ c' = C!r_slist_merge(C!r_slist_copy(c).l, C!r_slist_copy(c).copy) /\ g' = [g EXCEPT !.v = @ \o @]
SListAgrees == /\ C!r_slist_foreach(c.h, c.head) = g.v /\ c.gone = g.out
               /\ C!r_slist_len(c.h, c.head) = Len(g.v) /\ Cardinality(DOMAIN c.h) = Len(g.v)

(* Queues: a second queue of two callbacks is merged in. *)
Two == LET q == C!r_cbqueue_push(C!r_cbqueue_push([c EXCEPT !.head = 0, !.tail = 0, !.size = 0], ops), ops)
       IN [all |-> [c EXCEPT !.h = q.h], src |-> q]
QueueStep ==
  \/ Room /\ c' = C!r_queue_list_push(c, ops) /\ g' = PutAt(Len(g.v))
  \/ c' = C!r_queue_list_pop(c).q /\ g' = IF g.v = << >> THEN g ELSE OutAt(0)
  \/ /\ g.v # << >> /\ g' = OutAt(0)
     /\ c' = C!r_list_free1(C!r_cbqueue_pop(c).q, C!r_cbqueue_pop(c).link)
  \/ \E i \in 0..3 : i < Len(g.v) /\ c' = C!r_queue_list_remove_link(c, Nth(i)) /\ g' = OutAt(i)
  \/ c' = C!r_cbqueue_call_pop(c).q /\ g' = Grown(<< >>, IF g.v = << >> THEN g.out ELSE g.out \o Tail(g.v) \o <<Head(g.v)>>)
  \/ Len(g.v) <= 4 /\ c' = C!r_cbqueue_merge(Two.all, Two.src) /\ g' = [g EXCEPT !.v = @ \o <<ops, ops>>]
QueueAgrees ==
  /\ ListAgrees /\ c.size = Len(g.v) /\ c.tail = C!r_list_last(c.h, c.head)
  /\ C!r_queue_list_peek(c) = IF g.v = << >> THEN 0 ELSE g.v[1]
  /\ C!r_queue_list_pop(c).item = C!r_queue_list_peek(c)

-----------------------------------------------------------------------------
(* Strings: g is the text. *)
Texts == {<<"a">>, <<"b", "c">>}
StrStep ==
  \/ \E t \in Texts : \/ c' = C!r_string_append(c, t).s /\ g' = g \o t
                      \/ c' = C!r_string_prepend_vprintf(c, t).s /\ g' = t \o g
  \/ \E t \in Texts, i \in 0..3 :
       /\ i <= Len(g)
       /\ \/ c' = C!r_string_insert(c, i, t).s /\ g' = SubSeq(g, 1, i) \o t \o SubSeq(g, i + 1, Len(g))
          \/ c' = C!r_string_overwrite(c, i, t).s /\ g' = SubSeq(g, 1, i) \o t \o SubSeq(g, i + Len(t) + 1, Len(g))
  \/ \E i \in 0..2 : \/ c' = C!r_string_truncate(c, i).s /\ g' = IF i <= Len(g) THEN SubSeq(g, 1, i) ELSE g
                     \/ \E n \in 0..2 : c' = C!r_string_erase(c, i, n).s /\ g' = IF i <= Len(g) THEN Cut(g, i, n) ELSE g
  \/ c' = C!r_string_append_c(c, "d").s /\ g' = Append(g, "d")
StrAgrees == /\ C!CStr(c) = g /\ c.len = Len(g) /\ c.len + 1 <= c.size
             /\ C!CStr(C!r_string_reset(c, <<"e">>).s) = <<"e">>

(* Directory trees.  g is the sequence of data handed to set. *)
Paths == {<<"/">>, <<"/", "a">>, <<"/", "a", "/", "b">>, <<"/", "b">>, <<"/", "a", "b", "/", "a">>}
TreeStep ==
  \/ \E p \in Paths : /\ c' = C!r_dir_tree_set_full(c, p, ops).t /\ g' = g \cup {ops}
  \/ \E n \in DOMAIN c.node : c' = C!r_dir_tree_remove_node_full(c, n) /\ UNCHANGED g
  \/ \E p \in Paths : c' = C!r_dir_tree_create(c, p).t /\ UNCHANGED g
TreeAgrees ==
  LET kept == {c.node[n].data : n \in DOMAIN c.node} \ {0}
  IN /\ c.nodes = Cardinality(DOMAIN c.node) /\ ToSet(C!Below(c, C!Root)) = DOMAIN c.node
     /\ \A n \in DOMAIN c.node : \A k \in ToSet(c.node[n].children) : c.node[k].parent = n
     /\ kept \cup ToSet(c.gone) = g /\ kept \cap ToSet(c.gone) = {} /\ IsInjective(c.gone)
     /\ \A p \in Paths : C!r_dir_tree_get_or_any_parent(c, p) \in DOMAIN c.node
(* "Look up the node at path; NULL if the path doesn't exist yet" (rdirtree.h): *)
(* r_dir_tree_get finds every node by the path r_dir_tree_node_path gives it.   *)
GetFindsNode == which = "tree" => \A n \in DOMAIN c.node : C!r_dir_tree_get(c, C!r_dir_tree_node_path(c, n)) = n
-----------------------------------------------------------------------------
EmptySeqs == [v |-> << >>, out |-> << >>]
BufferStep == \E r \in M!BufSteps(c) : c' = r.s /\ g' = r.good

Starts(w) == CASE w = "hash" -> {HashStart(0), HashStart(1)}
               [] w \in {"array", "kv"} -> {[c |-> C!r_ptr_array_new_sized(1), g |-> EmptySeqs]}
               [] w = "bits" -> {[c |-> C!r_bitset_init(70), g |-> {}]}
               [] w \in {"list", "slist"} -> {[c |-> C!NoList, g |-> EmptySeqs]}
               [] w = "queue" -> {[c |-> C!NoQueue, g |-> EmptySeqs]}
               [] w = "str" -> {[c |-> C!r_string_new(<<"x", "y">>), g |-> <<"x", "y">>]}
               [] w = "buffer" -> {[c |-> M!BufStart, g |-> TRUE]}
               [] w = "tree" -> {[c |-> C!r_dir_tree_new, g |-> {}]}
               [] OTHER -> {[c |-> 0, g |-> 0]}
ZeroRing == buffer = 0 /\ head = 0 /\ tail = 0 /\ popped = NullItem
ZeroTime == /\ first = 0 /\ last = 0 /\ length = 0 /\ nxt = 0 /\ prv = 0 /\ ts = 0 /\ lst = 0 /\ now = 0 /\ tpc = 0
            /\ tcur = 0 /\ ret = 0 /\ crashed = 0
Init ==
  /\ which \in Which /\ ops = 1
  /\ \E s \in Starts(which) : c = s.c /\ g = s.g
  /\ IF which = "ring" THEN RingInit ELSE ZeroRing
  /\ RefInit /\ HzrInit /\ PoolInit
  /\ IF which = "timeout" THEN Y!Init ELSE ZeroTime

DataStep ==
  /\ ops <= MaxOps /\ ops' = ops + 1
  /\ \/ which = "hash" /\ HashStep
     \/ which = "array" /\ ArrayStep
     \/ which = "kv" /\ KVStep
     \/ which = "bits" /\ ops <= MaxOps - 1 /\ BitStep
     \/ which = "list" /\ ListStep
     \/ which = "slist" /\ SListStep
     \/ which = "queue" /\ QueueStep
     \/ which = "str" /\ ops <= MaxOps - 1 /\ StrStep
     \/ which = "tree" /\ TreeStep
     \/ which = "buffer" /\ ops <= MaxOps - 2 /\ BufferStep
  /\ UNCHANGED <<which, ownVars>>
RingStep == which = "ring" /\ RingNext /\ UNCHANGED <<dataVars, refVars, hzrVars, timeVars, poolVars>>
RefStep == which = "ref" /\ RefNext /\ UNCHANGED <<dataVars, ringVars, hzrVars, timeVars, poolVars>>
HzrStep == which = "hzr" /\ HzrNext /\ UNCHANGED <<dataVars, ringVars, refVars, timeVars, poolVars>>
TimeoutStep == which = "timeout" /\ Y!Next /\ UNCHANGED <<dataVars, ringVars, refVars, hzrVars, poolVars>>
PoolStep == which = "pool" /\ PoolNext /\ UNCHANGED <<dataVars, ringVars, refVars, hzrVars, timeVars>>
Next == DataStep \/ RingStep \/ RefStep \/ HzrStep \/ TimeoutStep \/ PoolStep
Spec == Init /\ [][Next]_vars

-----------------------------------------------------------------------------
(* Every container holds, finds, counts and lists what the plain function,  *)
(* sequence or set it stands for would after the same operations, and the  *)
(* destroy notifiers have run on exactly what left it, once each: through  *)
(* growth, tombstones and collisions of the hash table, relinking of the   *)
(* lists and their tails, ranges of the arrays, words of the bit set.      *)
ContainersAgree ==
  CASE which = "hash" -> HashAgrees
    [] which = "array" -> ArrayAgrees
    [] which = "kv" -> KVAgrees
    [] which = "bits" -> BitsAgree
    [] which = "list" -> ListAgrees
    [] which = "slist" -> SListAgrees
    [] which = "queue" -> QueueAgrees
    [] which = "str" -> StrAgrees
    [] which = "tree" -> TreeAgrees
    [] which = "buffer" -> g /\ M!Reads(c)
    [] OTHER -> TRUE
(* A memory chunk has a reference for every buffer position, view, mapping  *)
(* and hand it is in, no more, and none is touched after its last one      *)
(* (rbuffer.c, rmemallocator.c).                                           *)
ChunksAlive == which = "buffer" => M!RefsSound(c)
(* The timeout list fires and cancels its entries as a queue of timers      *)
(* does, equal deadlines in the order they were inserted, whatever a       *)
(* callback inserts and cancels (rtimeoutcblist.c).                        *)
ImplementsTimerQueue == Q!TQSpec
=============================================================================
