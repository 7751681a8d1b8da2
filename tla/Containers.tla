----------------------------- MODULE Containers -----------------------------
(***************************************************************************)
(* The open-addressing hash table and hash set (rlib/data/rhashtable.c,    *)
(* rhashset.c): triangular probing over a power-of-two array, tombstones,  *)
(* growth and rehashing at three quarters of the capacity.                 *)
(*                                                                         *)
(* A table is [allocidx, buckets, size, tombs, notified]; buckets is a     *)
(* function on 0..capacity-1 and notified the entries whose destroy        *)
(* notifiers have run.  HASH and HOME stand for the hash function and the  *)
(* multiplicative home bucket, any functions.                              *)
(***************************************************************************)
EXTENDS Integers, Sequences, SequencesExt

CONSTANTS ALLOC_SHIFT,       \* the smallest capacity is 2^ALLOC_SHIFT
          HASH(_),           \* hashfunc, clear of the two reserved values
          HOME(_, _)         \* R_HASH_HOME_BUCKET of a hash for a capacity

EMPTY == [t |-> "EMPTY"]
DELETED == [t |-> "DELETED"]
Bucket(key, val) == [t |-> "LIVE", key |-> key, val |-> val]
Live(ht) == {i \in DOMAIN ht.buckets : ht.buckets[i].t = "LIVE"}
Capacity(allocidx) == 2 ^ (allocidx + ALLOC_SHIFT)
Blank(cap) == [i \in 0..cap - 1 |-> EMPTY]
Probe(home, j, cap) == (home + (j * (j + 1)) \div 2) % cap
FirstProbe(buckets, home, Stop(_)) ==
  LET cap == Cardinality(DOMAIN buckets)
      hit == {j \in 0..cap - 1 : Stop(buckets[Probe(home, j, cap)])}
  IN Probe(home, CHOOSE j \in hit : \A k \in hit : j <= k, cap)

r_hash_table_new_full == [allocidx |-> 0, buckets |-> Blank(Capacity(0)), size |-> 0, tombs |-> 0, notified |-> {}]

r_hash_table_resize(ht, allocidx) ==
  LET cap == Capacity(allocidx)
      rehash[i \in -1..Capacity(ht.allocidx) - 1] ==
        IF i = -1 THEN Blank(cap)
        ELSE LET b == ht.buckets[i]
                 at == FirstProbe(rehash[i - 1], HOME(HASH(b.key), cap), LAMBDA e : e = EMPTY)
             IN IF b.t = "LIVE" THEN [rehash[i - 1] EXCEPT ![at] = b] ELSE rehash[i - 1]
  IN [ht EXCEPT !.allocidx = allocidx, !.tombs = 0, !.buckets = rehash[Capacity(ht.allocidx) - 1]]

r_hash_table_lookup_bucket(ht, key) ==
  FirstProbe(ht.buckets, HOME(HASH(key), Capacity(ht.allocidx)),
             LAMBDA e : e = EMPTY \/ (e.t = "LIVE" /\ HASH(e.key) = HASH(key) /\ e.key = key))

r_hash_table_insert(ht0, key, val) ==
  LET cap == Capacity(ht0.allocidx)
      full == cap - cap \div 4
      ht == IF ht0.size + ht0.tombs < full THEN ht0
            ELSE r_hash_table_resize(ht0, IF ht0.size >= full THEN ht0.allocidx + 1 ELSE ht0.allocidx)
      i == r_hash_table_lookup_bucket(ht, key)
      old == ht.buckets[i]
  IN [ht EXCEPT !.buckets[i] = Bucket(key, val),
                !.size = IF old = EMPTY THEN @ + 1 ELSE @,
                !.notified = IF old = EMPTY THEN @ ELSE @ \cup {old}]

r_hash_table_contains(ht, key) == ht.buckets[r_hash_table_lookup_bucket(ht, key)] # EMPTY
r_hash_table_lookup(ht, key) ==
  IF r_hash_table_contains(ht, key) THEN <<ht.buckets[r_hash_table_lookup_bucket(ht, key)].val>> ELSE << >>
r_hash_table_lookup_full(ht, key) ==
  IF r_hash_table_contains(ht, key) THEN <<ht.buckets[r_hash_table_lookup_bucket(ht, key)]>> ELSE << >>

r_hash_table_remove_all(ht) ==
  IF ht.size = 0 /\ ht.tombs = 0 THEN ht
  ELSE [ht EXCEPT !.buckets = Blank(Capacity(ht.allocidx)), !.size = 0, !.tombs = 0,
                  !.notified = @ \cup {ht.buckets[i] : i \in Live(ht)}]
r_hash_table_free(ht) == ht.notified \cup {ht.buckets[i] : i \in Live(ht)}

r_hash_table_internal_remove(ht, i) ==
  [ht EXCEPT !.buckets[i] = DELETED, !.size = @ - 1, !.tombs = @ + 1, !.notified = @ \cup {ht.buckets[i]}]
r_hash_table_remove(ht, key) ==
  IF r_hash_table_contains(ht, key) THEN r_hash_table_internal_remove(ht, r_hash_table_lookup_bucket(ht, key)) ELSE ht
r_hash_table_remove_full(ht, key) == [ht |-> r_hash_table_remove(ht, key), out |-> r_hash_table_lookup_full(ht, key)]
r_hash_table_steal(ht, key) ==
  [ht |-> IF r_hash_table_contains(ht, key)
          THEN [ht EXCEPT !.buckets[r_hash_table_lookup_bucket(ht, key)] = DELETED, !.size = @ - 1, !.tombs = @ + 1]
          ELSE ht,
   out |-> r_hash_table_lookup_full(ht, key)]
r_hash_table_remove_with_func(ht, func(_, _)) ==
  LET gone == {i \in Live(ht) : func(ht.buckets[i].key, ht.buckets[i].val)}
  IN [ht EXCEPT !.buckets = [i \in DOMAIN @ |-> IF i \in gone THEN DELETED ELSE @[i]],
                !.size = @ - Cardinality(gone), !.tombs = @ + Cardinality(gone),
                !.notified = @ \cup {ht.buckets[i] : i \in gone}]
r_hash_table_foreach(ht) == {<<ht.buckets[i].key, ht.buckets[i].val>> : i \in Live(ht)}
r_hash_table_size(ht) == ht.size
r_hash_table_max_probe(ht) ==
  LET cap == Capacity(ht.allocidx)
      len(h) == IF \A i \in DOMAIN ht.buckets : ht.buckets[i] # EMPTY THEN cap + 1
                ELSE CHOOSE j \in 0..cap - 1 : /\ ht.buckets[Probe(h, j, cap)] = EMPTY
                                               /\ \A k \in 0..j - 1 : ht.buckets[Probe(h, k, cap)] # EMPTY
  IN CHOOSE n \in {len(h) : h \in 0..cap - 1} : \A h \in 0..cap - 1 : len(h) <= n

-----------------------------------------------------------------------------
(* The hash set repeats the table's code on items: the item is the key and   *)
(* val marks which of several equal items is stored.                       *)
r_hash_set_new_full == r_hash_table_new_full
r_hash_set_resize(hs, allocidx) == r_hash_table_resize(hs, allocidx)
r_hash_set_lookup_bucket(hs, item) == r_hash_table_lookup_bucket(hs, item.key)
r_hash_set_insert(hs, item) == r_hash_table_insert(hs, item.key, item.val)
r_hash_set_contains(hs, item) == hs.buckets[r_hash_set_lookup_bucket(hs, item)] # EMPTY
r_hash_set_contains_full(hs, item) == r_hash_table_lookup_full(hs, item.key)
r_hash_set_remove_all(hs) == r_hash_table_remove_all(hs)
r_hash_set_remove(hs, item) == r_hash_table_remove(hs, item.key)
r_hash_set_steal(hs, item) == r_hash_table_steal(hs, item.key)
r_hash_set_foreach(hs) == r_hash_table_foreach(hs)
r_hash_set_free(hs) == r_hash_table_free(hs)

-----------------------------------------------------------------------------
(***************************************************************************)
(* The growable pointer arrays (rlib/data/rptrarray.c, rkvptrarray.c).  An *)
(* array is [v, nalloc, notified]: the slots in use, the allocated size,   *)
(* and the entries whose destroy notifier has run, in order.  A slot is    *)
(* NULL or an entry; every entry has a notifier.  Indices are 0-based as   *)
(* in the code, and a size of -1 means up to the end.  Operations that     *)
(* also report give [a, ret].                                              *)
(***************************************************************************)
CONSTANTS MIN_SIZE,          \* R_PTR_ARRAY_MIN_SIZE, a power of two
          INVALID_IDX        \* R_PTR_ARRAY_INVALID_IDX

NULL == 0
nsize(a) == Len(a.v)
Slot(a, idx) == a.v[idx + 1]
Slots(a, idx, until) == SubSeq(a.v, idx + 1, until)
NonNull(s) == SelectSeq(s, LAMBDA e : e # NULL)

r_ptr_array_notify_range(a, idx, until) == [a EXCEPT !.notified = @ \o NonNull(Slots(a, idx, until))]
r_ptr_array_init == [v |-> << >>, nalloc |-> 0, notified |-> << >>]
r_ptr_array_clear(a) == [r_ptr_array_notify_range(a, 0, nsize(a)) EXCEPT !.v = << >>, !.nalloc = 0]

PowersOfTwo(n) == {2 ^ k : k \in 0..n}
r_ptr_array_ensure_size(a, size) ==
  LET want == IF size < MIN_SIZE THEN MIN_SIZE ELSE size
      fits == {p \in PowersOfTwo(want) : p >= want}
  IN IF want <= a.nalloc THEN a
     ELSE [a EXCEPT !.nalloc = CHOOSE p \in fits : \A q \in fits : p <= q]
r_ptr_array_new_sized(size) == r_ptr_array_ensure_size(r_ptr_array_init, size)

r_ptr_array_get(a, idx) == IF idx >= nsize(a) THEN NULL ELSE Slot(a, idx)
r_ptr_array_add(a, e) ==
  [a |-> [r_ptr_array_ensure_size(a, nsize(a) + 1) EXCEPT !.v = Append(@, e)], ret |-> nsize(a)]
r_ptr_array_insert(a, idx, e) ==
  IF idx > nsize(a) THEN [a |-> a, ret |-> INVALID_IDX]
  ELSE [a |-> [r_ptr_array_ensure_size(a, nsize(a) + 1) EXCEPT !.v = InsertAt(@, idx + 1, e)], ret |-> idx]
r_ptr_array_update_idx(a, idx, e) ==
  IF idx >= nsize(a) THEN [a |-> a, ret |-> INVALID_IDX]
  ELSE [a |-> [r_ptr_array_notify_range(a, idx, idx + 1) EXCEPT !.v[idx + 1] = e], ret |-> idx]

(* Insertion sort: entry i sinks to the left of the larger ones before it.  *)
r_ptr_array_sort(a, cmp(_, _)) ==
  LET sink(s, e) ==
        LET j == CHOOSE k \in 0..Len(s) : /\ k > 0 => cmp(s[k], e) <= 0
                                          /\ \A l \in k + 1..Len(s) : cmp(s[l], e) > 0
        IN InsertAt(s, j + 1, e)
  IN [a EXCEPT !.v = FoldLeft(sink, << >>, @)]

(* A range is good when it starts inside the array and does not pass its end. *)
End(a, idx, size) == IF size < 0 THEN nsize(a) ELSE idx + size
InRange(a, idx, size) == idx < nsize(a) /\ End(a, idx, size) <= nsize(a)
Cleared(a, idx, end) == [i \in DOMAIN a.v |-> IF i \in idx + 1..end THEN NULL ELSE a.v[i]]

r_ptr_array_clear_range(a, idx, size) ==
  LET end == End(a, idx, size)
  IN IF ~InRange(a, idx, size) THEN [a |-> a, ret |-> 0]
     ELSE [a |-> [r_ptr_array_notify_range(a, idx, end) EXCEPT !.v = Cleared(a, idx, end)], ret |-> end - idx]

r_ptr_array_remove_idx_full(a, idx) ==
  IF idx >= nsize(a) THEN [a |-> a, ret |-> INVALID_IDX]
  ELSE [a |-> [r_ptr_array_notify_range(a, idx, idx + 1) EXCEPT !.v = RemoveAt(@, idx + 1)], ret |-> idx]
r_ptr_array_remove_idx_fast_full(a, idx) ==
  IF idx >= nsize(a) THEN [a |-> a, ret |-> INVALID_IDX]
  ELSE [a |-> [r_ptr_array_notify_range(a, idx, idx + 1) EXCEPT !.v = Front([@ EXCEPT ![idx + 1] = Last(a.v)])],
        ret |-> idx]
r_ptr_array_remove_idx_clear_full(a, idx) ==
  IF idx >= nsize(a) THEN [a |-> a, ret |-> INVALID_IDX]
  ELSE LET u == r_ptr_array_update_idx(a, idx, NULL).a
       IN [a |-> IF idx = nsize(a) - 1 THEN [u EXCEPT !.v = Front(@)] ELSE u, ret |-> idx]

r_ptr_array_remove_range_full(a, idx, size) ==
  LET end == End(a, idx, size)
  IN IF ~InRange(a, idx, size) THEN [a |-> a, ret |-> 0]
     ELSE [a |-> [r_ptr_array_notify_range(a, idx, end) EXCEPT !.v = Slots(a, 0, idx) \o Slots(a, end, nsize(a))],
           ret |-> end - idx]

(* The slots from the new end on are moved into the gap, as many as removed:  *)
(* when fewer entries follow the range, some of the removed ones come back.*)
r_ptr_array_remove_range_fast_full(a, idx, size) ==
  LET end == End(a, idx, size)
      n == nsize(a) - (end - idx)
      moved == [i \in DOMAIN a.v |-> IF i \in idx + 1..end THEN a.v[n + i - idx] ELSE a.v[i]]
  IN IF ~InRange(a, idx, size) THEN [a |-> a, ret |-> 0]
     ELSE [a |-> [r_ptr_array_notify_range(a, idx, end) EXCEPT !.v = SubSeq(moved, 1, n)], ret |-> end - idx]

r_ptr_array_remove_range_clear_full(a, idx, size) ==
  LET end == End(a, idx, size)
      u == r_ptr_array_notify_range(a, idx, end)
  IN IF ~InRange(a, idx, size) THEN [a |-> a, ret |-> 0]
     ELSE [a |-> [u EXCEPT !.v = IF end < nsize(a) THEN Cleared(a, idx, end) ELSE Slots(a, 0, idx)], ret |-> end - idx]

r_ptr_array_find_range(a, e, idx, size) ==
  LET hit == {i \in idx..End(a, idx, size) - 1 : Slot(a, i) = e}
  IN IF ~InRange(a, idx, size) \/ hit = {} THEN INVALID_IDX ELSE CHOOSE i \in hit : \A j \in hit : i <= j
r_ptr_array_foreach_range(a, idx, size) ==
  IF InRange(a, idx, size) THEN Slots(a, idx, End(a, idx, size)) ELSE << >>

-----------------------------------------------------------------------------
(* Key-value arrays: an entry is [key, val], notified as a pair. *)
KVFind(a, key, from, until) ==
  LET hit == {i \in from..until - 1 : Slot(a, i).key = key}
  IN IF hit = {} THEN INVALID_IDX ELSE CHOOSE i \in hit : \A j \in hit : i <= j
r_kv_ptr_array_get(a, idx) == IF idx >= nsize(a) THEN << >> ELSE <<Slot(a, idx)>>
r_kv_ptr_array_find_range(a, key, idx, size) ==
  IF InRange(a, idx, size) THEN KVFind(a, key, idx, End(a, idx, size)) ELSE INVALID_IDX
r_kv_ptr_array_clear(a) == [a EXCEPT !.v = << >>, !.nalloc = 0, !.notified = @ \o a.v]
r_kv_ptr_array_ensure_size(a, size) == r_ptr_array_ensure_size(a, size)
r_kv_ptr_array_add(a, e) == [r_kv_ptr_array_ensure_size(a, nsize(a) + 1) EXCEPT !.v = Append(@, e)]
r_kv_ptr_array_update_idx(a, idx, e) ==
  IF idx >= nsize(a) THEN a ELSE [a EXCEPT !.notified = Append(@, Slot(a, idx)), !.v[idx + 1] = e]
r_kv_ptr_array_remove_range(a, idx, size) ==
  LET end == End(a, idx, size)
  IN IF ~InRange(a, idx, size) THEN [a |-> a, ret |-> 0]
     ELSE [a |-> [a EXCEPT !.notified = @ \o Slots(a, idx, end), !.v = Slots(a, 0, idx) \o Slots(a, end, nsize(a))],
           ret |-> end - idx]
r_kv_ptr_array_remove_key_first(a, key) ==
  LET idx == KVFind(a, key, 0, nsize(a))
  IN IF idx = INVALID_IDX THEN [a |-> a, ret |-> 0] ELSE r_kv_ptr_array_remove_range(a, idx, 1)
r_kv_ptr_array_remove_key_all(a, key) ==
  LET gone == SelectSeq(a.v, LAMBDA e : e.key = key)
  IN [a |-> [a EXCEPT !.v = SelectSeq(@, LAMBDA e : e.key # key), !.notified = @ \o gone], ret |-> Len(gone)]
r_kv_ptr_array_foreach_range(a, idx, size) ==
  IF InRange(a, idx, size) THEN Slots(a, idx, End(a, idx, size)) ELSE << >>

-----------------------------------------------------------------------------
(***************************************************************************)
(* Fixed-size bit sets over machine words (rlib/data/rbitset.c).  A bit    *)
(* set is [bits, on]: its size and the set bits of its words, among which  *)
(* positions past the size may be set where the code does not clamp.       *)
(* Operations give [bs, ok].                                               *)
(***************************************************************************)
CONSTANT R_BSWORD_BITS       \* bits of a word, a multiple of 8

Words(bs) == (bs.bits + R_BSWORD_BITS - 1) \div R_BSWORD_BITS
Room(bs) == 0..Words(bs) * R_BSWORD_BITS - 1
Word(i) == i * R_BSWORD_BITS..(i + 1) * R_BSWORD_BITS - 1
R_BITSET_CLAMP(bs) == [bs EXCEPT !.on = @ \cap 0..bs.bits - 1]
Yes(bs) == [bs |-> bs, ok |-> TRUE]
No(bs) == [bs |-> bs, ok |-> FALSE]
Shifted(S, n) == {b + n : b \in S}

r_bitset_init(bits) == [bits |-> bits, on |-> {}]
(* data: the octets, most significant first, as sets of the bits 0..7. *)
r_bitset_new_from_binary(data) ==
  LET n == Len(data)
  IN [bits |-> 8 * n, on |-> UNION {Shifted(data[i], 8 * (n - i)) : i \in 1..n}]

r_bitset_copy(dest, src) == IF dest.bits < src.bits THEN No(dest) ELSE Yes([dest EXCEPT !.on = src.on])
r_bitset_set_bit(bs, bit, set) ==
  IF bit >= bs.bits THEN No(bs) ELSE Yes([bs EXCEPT !.on = IF set THEN @ \cup {bit} ELSE @ \ {bit}])
r_bitset_set_bits(bs, data, set) ==
  FoldLeft(LAMBDA r, b : LET s == r_bitset_set_bit(r.bs, b, set) IN [s EXCEPT !.ok = @ /\ r.ok], Yes(bs), data)
r_bitset_set_all(bs, set) == Yes(R_BITSET_CLAMP([bs EXCEPT !.on = IF set THEN Room(bs) ELSE {}]))

(* The value, as a set of its bits, is or-ed in: bits are never cleared. *)
SetAt(bs, width, value, bit) ==
  IF bit + width > bs.bits THEN No(bs) ELSE Yes([bs EXCEPT !.on = @ \cup Shifted(value, bit)])
r_bitset_set_u8_at(bs, value, bit) == SetAt(bs, 8, value, bit)
r_bitset_set_u16_at(bs, value, bit) == SetAt(bs, 16, value, bit)
r_bitset_set_u32_at(bs, value, bit) == SetAt(bs, 32, value, bit)
r_bitset_set_u64_at(bs, value, bit) == SetAt(bs, 64, value, bit)

(* Runs of all ones while more than a chunk is left, then single bits. *)
r_bitset_set_n_bits_at(bs, n, bit, set) ==
  LET chunk(r, w) ==                         \* r: [bs, n, bit]
        LET k == IF r.n = 0 THEN 0 ELSE (r.n - 1) \div w
        IN [bs |-> [r.bs EXCEPT !.on = @ \cup r.bit..r.bit + k * w - 1], n |-> r.n - k * w, bit |-> r.bit + k * w]
      r == FoldLeft(chunk, [bs |-> bs, n |-> n, bit |-> bit], <<64, 32, 16, 8>>)
      rest == r.bit..r.bit + r.n - 1
  IN IF bit + n > bs.bits THEN No(bs)
     ELSE Yes([r.bs EXCEPT !.on = IF set THEN @ \cup rest ELSE @ \ rest])

(* str: a sequence of <<v>> and <<v1, v2>>, the numbers and ranges between commas. *)
r_bitset_set_from_human_readable(bs, str) ==
  LET item(r, x) ==
        LET one == r_bitset_set_bit(r.bs, x[1], TRUE)
            more == r_bitset_set_n_bits_at(one.bs, x[2] - x[1], x[1] + 1, TRUE)
        IN CASE ~r.ok -> r
             [] r.ok /\ ~one.ok -> [r EXCEPT !.ok = FALSE]
             [] r.ok /\ one.ok /\ Len(x) = 1 -> [r EXCEPT !.bs = one.bs, !.count = @ + 1]
             [] r.ok /\ one.ok /\ Len(x) = 2 /\ (x[1] > x[2] \/ ~more.ok) ->
                  [r EXCEPT !.bs = one.bs, !.count = @ + 1, !.ok = FALSE]
             [] OTHER -> [r EXCEPT !.bs = more.bs, !.count = @ + 1 + (x[2] - x[1])]
  IN FoldLeft(item, [bs |-> bs, ok |-> TRUE, count |-> 0], str)
r_bitset_set_from_human_readable_file(bs, str) == r_bitset_set_from_human_readable(bs, str)

r_bitset_shr(bs, count) ==
  IF count >= bs.bits THEN r_bitset_set_all(bs, FALSE)
  ELSE Yes([bs EXCEPT !.on = Shifted({b \in @ : b >= count}, -count)])
r_bitset_shl(bs, count) ==
  IF count >= bs.bits THEN r_bitset_set_all(bs, FALSE)
  ELSE Yes(R_BITSET_CLAMP([bs EXCEPT !.on = Shifted(@, count) \cap Room(bs)]))

(* The bits of a value read at a position: from that word and, when the     *)
(* value reaches past it, the next.                                        *)
GetAt(bs, width, bit) ==
  LET i == bit \div R_BSWORD_BITS
      from == bs.on \cap (Word(i) \cup (IF (bit % R_BSWORD_BITS) + width > R_BSWORD_BITS /\ i + 1 < Words(bs)
                                         THEN Word(i + 1) ELSE {}))
  IN IF bit >= bs.bits THEN {} ELSE Shifted(from, -bit) \cap 0..width - 1
r_bitset_get_u8_at(bs, bit) == GetAt(bs, 8, bit)
r_bitset_get_u16_at(bs, bit) == GetAt(bs, 16, bit)
r_bitset_get_u32_at(bs, bit) == GetAt(bs, 32, bit)
r_bitset_get_u64_at(bs, bit) == GetAt(bs, 64, bit)

r_bitset_is_bit_set(bs, bit) == bit \in bs.on
r_bitset_popcount(bs) == Cardinality(bs.on)
Highest(S) == CHOOSE b \in S : \A c \in S : c <= b
Lowest(S) == CHOOSE b \in S : \A c \in S : b <= c
r_bitset_clz(bs) == IF bs.on = {} THEN bs.bits ELSE bs.bits - 1 - Highest(bs.on)
r_bitset_ctz(bs) == IF bs.on = {} \/ Lowest(bs.on) > bs.bits THEN bs.bits ELSE Lowest(bs.on)
r_bitset_foreach(bs, set) == IF set THEN bs.on \cap 0..bs.bits - 1 ELSE 0..bs.bits - 1 \ bs.on

-----------------------------------------------------------------------------
(* Word-wise operations into dest; same says whether dest is a, b or neither. *)
Fits(dest, a, b) == dest.bits >= a.bits /\ dest.bits >= b.bits
Base(dest, a, b, same) == IF same = "b" THEN b ELSE IF same = "a" THEN a ELSE r_bitset_copy(dest, a).bs
Operand(a, b, same) == IF same = "b" THEN a ELSE b
r_bitset_or(dest, a, b, same) ==
  IF ~Fits(dest, a, b) THEN No(dest) ELSE Yes([dest EXCEPT !.on = Base(dest, a, b, same).on \cup Operand(a, b, same).on])
r_bitset_xor(dest, a, b, same) ==
  LET x == Base(dest, a, b, same).on
      c == Operand(a, b, same)
  IN IF ~Fits(dest, a, b) THEN No(dest)
     ELSE IF same = "both" THEN Yes(dest)   \* dest is both operands
     ELSE Yes([dest EXCEPT !.on = ((x \ c.on) \cup (c.on \ x)) \cap Room(c)])
r_bitset_and(dest, a, b, same) ==
  IF ~Fits(dest, a, b) THEN No(dest) ELSE Yes([dest EXCEPT !.on = Base(dest, a, b, same).on \cap Operand(a, b, same).on])
(* The last word is masked by a shift of the unused bits; a size that is a   *)
(* multiple of the word shifts by the word's width, which the build takes  *)
(* modulo that width: the word is kept whole.                              *)
r_bitset_not(dest, src) ==
  IF dest.bits < src.bits THEN No(dest) ELSE Yes([dest EXCEPT !.on = (0..src.bits - 1) \ src.on])

(* The maximal runs of set bits, in order, as <<v>> or <<v1, v2>>. *)
r_bitset_to_human_readable(bs) ==
  LET starts == {b \in bs.on \cap 0..bs.bits - 1 : b - 1 \notin bs.on}
      stop(b) == CHOOSE e \in b..bs.bits - 1 : b..e \subseteq bs.on /\ (e + 1 \notin bs.on \/ e + 1 >= bs.bits)
      s == SetToSortSeq(starts, LAMBDA x, y : x < y)
  IN [i \in DOMAIN s |-> IF stop(s[i]) = s[i] THEN <<s[i]>> ELSE <<s[i], stop(s[i])>>]

-----------------------------------------------------------------------------
(***************************************************************************)
(* The linked lists and list-backed queues (rlib/data/rlist-internal.h,    *)
(* rlist.h, rlist.c, rqueue.h), pointer by pointer.  A heap h maps every   *)
(* address in use to its node [data, prev, next]; freed addresses leave    *)
(* its domain and their data goes to the sequence "gone".  0 is NULL.      *)
(* Operations take and give [h, gone, head]; a queue also has tail and     *)
(* size.  cb and cbr lists are the same macros over callback contexts,     *)
(* whose clear runs the notifiers of the node's data.                      *)
(***************************************************************************)
CONSTANT Addresses           \* what the allocator hands out: positive integers

NoList == [h |-> << >>, gone |-> << >>, head |-> 0]
Free(l) == Addresses \ DOMAIN l.h
(* A fresh node, the lowest free address. *)
New(l) == CHOOSE a \in Free(l) : \A b \in Free(l) : a <= b
Link(h, a, f, v) == IF a = 0 THEN h ELSE IF f = "next" THEN [h EXCEPT ![a].next = v] ELSE [h EXCEPT ![a].prev = v]

RECURSIVE Nexts(_, _)
Nexts(h, a) == IF a = 0 THEN << >> ELSE <<a>> \o Nexts(h, h[a].next)
RECURSIVE Prevs(_, _)
Prevs(h, a) == IF a = 0 THEN << >> ELSE <<a>> \o Prevs(h, h[a].prev)
Data(h, s) == [i \in DOMAIN s |-> h[s[i]].data]

r_list_first(h, a) == IF a = 0 THEN 0 ELSE Last(Prevs(h, a))
r_list_last(h, a) == IF a = 0 THEN 0 ELSE Last(Nexts(h, a))
r_list_nth(h, a, n) == LET s == Nexts(h, a) IN IF n < Len(s) THEN s[n + 1] ELSE 0
r_list_len(h, a) == IF a = 0 THEN 0 ELSE Len(Nexts(h, h[a].next)) + Len(Prevs(h, h[a].prev)) + 1
r_list_contains_full(h, a, data) == a # 0 /\ \E i \in ToSet(Nexts(h, a)) \cup ToSet(Prevs(h, h[a].prev)) : h[i].data = data
r_list_foreach(h, a) == Data(h, Nexts(h, a))
Alloc(l, data) == [l EXCEPT !.h = [x \in DOMAIN @ \cup {New(l)} |-> IF x = New(l) THEN [data |-> data, prev |-> 0, next |-> 0]
                                                                   ELSE l.h[x]]]

r_list_prepend_link(l, e) ==
  LET f == r_list_first(l.h, l.head)
  IN [l EXCEPT !.h = Link(Link(@, e, "next", f), f, "prev", e), !.head = e]
r_list_append_link(l, e) ==
  LET last == r_list_last(l.h, l.head)
  IN IF l.head = 0 THEN [l EXCEPT !.head = e]
     ELSE [l EXCEPT !.h = Link(Link(@, last, "next", e), e, "prev", last)]
r_list_prepend_copy(l, data) == r_list_prepend_link(Alloc(l, data), New(l))
r_list_append_copy(l, data) == r_list_append_link(Alloc(l, data), New(l))
r_list_insert_after(l, entry, data) ==
  LET e == New(l)
      m == Alloc(l, data)
      at == IF entry = 0 THEN l.head ELSE entry
      nx == m.h[at].next
  IN IF l.head = 0 THEN [m EXCEPT !.head = e]
     ELSE [m EXCEPT !.h = Link(Link(Link(Link(@, e, "next", nx), e, "prev", at), nx, "prev", e), at, "next", e)]
r_list_insert_before(l, entry, data) ==
  LET e == New(l)
      m == Alloc(l, data)
      pv == m.h[entry].prev
  IN IF l.head = 0 \/ entry = 0 \/ entry = l.head THEN r_list_prepend_link(m, e)
     ELSE [m EXCEPT !.h = Link(Link(Link(Link(@, e, "prev", pv), e, "next", entry), pv, "next", e), entry, "prev", e)]
r_list_free1(l, e) ==
  [l EXCEPT !.gone = Append(@, l.h[e].data), !.h = [x \in DOMAIN @ \ {e} |-> l.h[x]]]
r_list_remove_link(l, e) ==
  IF e = 0 THEN l
  ELSE LET pv == l.h[e].prev
           nx == l.h[e].next
       IN [l EXCEPT !.head = IF @ = e THEN nx ELSE @, !.h = Link(Link(@, pv, "next", nx), nx, "prev", pv)]
r_list_destroy_link(l, e) == r_list_free1(r_list_remove_link(l, e), e)
r_list_remove(l, data) ==
  LET s == SelectSeq(Nexts(l.h, l.head), LAMBDA a : l.h[a].data = data)
  IN IF s = << >> THEN l ELSE r_list_destroy_link(l, s[1])
r_list_destroy(l) ==
  LET s == Tail(Nexts(l.h, l.head)) \o Tail(Prevs(l.h, l.head)) \o <<l.head>>
  IN IF l.head = 0 THEN l ELSE [FoldLeft(r_list_free1, l, s) EXCEPT !.head = 0]
r_list_destroy_full(l) == r_list_destroy(l)

-----------------------------------------------------------------------------
(* Callback lists: calling goes through next; a cbr callback that answers    *)
(* FALSE is taken out and freed, its context cleared.                      *)
r_cblist_prepend_full(l, data) ==
  LET e == New(l) IN [Alloc(l, data) EXCEPT !.h = Link(Link(@, e, "next", l.head), l.head, "prev", e), !.head = e]
r_cblist_append_full(l, data) == r_list_append_copy(l, data)
r_cblist_contains(h, a, data) == r_list_contains_full(h, a, data)
r_cblist_call(h, a) == Data(h, Nexts(h, a))
r_cbrlist_prepend_full(l, data) == r_cblist_prepend_full(l, data)
r_cbrlist_append_full(l, data) == r_list_append_copy(l, data)
r_cbrlist_contains(h, a, data) == r_list_contains_full(h, a, data)
r_cbrlist_call(l, stay(_)) ==
  FoldLeft(LAMBDA m, a : IF stay(m.h[a].data) THEN m ELSE r_list_free1(r_list_remove_link(m, a), a), l, Nexts(l.h, l.head))

-----------------------------------------------------------------------------
(* Singly linked lists; their nodes have no prev and it stays 0. *)
r_slist_last(h, a) == r_list_last(h, a)
r_slist_nth(h, a, n) == r_list_nth(h, a, n)
r_slist_len(h, a) == Len(Nexts(h, a))
r_slist_contains_full(h, a, data) == \E i \in ToSet(Nexts(h, a)) : h[i].data = data
r_slist_foreach(h, a) == Data(h, Nexts(h, a))
r_slist_prepend_link(l, e) == [l EXCEPT !.h = Link(@, e, "next", l.head), !.head = e]
r_slist_append_link(l, e) ==
  IF l.head = 0 THEN [l EXCEPT !.head = e] ELSE [l EXCEPT !.h = Link(@, r_slist_last(l.h, l.head), "next", e)]
r_slist_prepend_copy(l, data) == r_slist_prepend_link(Alloc(l, data), New(l))
r_slist_append_copy(l, data) == r_slist_append_link(Alloc(l, data), New(l))
(* The copy is a second list in the same heap. *)
r_slist_copy(l) ==
  LET c == FoldLeft(LAMBDA m, a : r_slist_append_copy(m, l.h[a].data), [l EXCEPT !.head = 0], Nexts(l.h, l.head))
  IN [l |-> [c EXCEPT !.head = l.head], copy |-> c.head]
r_slist_merge(l, b) ==
  IF l.head = 0 THEN [l EXCEPT !.head = b] ELSE [l EXCEPT !.h = Link(@, r_slist_last(l.h, l.head), "next", b)]
r_slist_insert_after(l, entry, data) ==
  LET e == New(l)
      m == Alloc(l, data)
      at == IF entry = 0 THEN l.head ELSE entry
  IN IF l.head = 0 THEN [m EXCEPT !.head = e] ELSE [m EXCEPT !.h = Link(Link(@, e, "next", m.h[at].next), at, "next", e)]
r_slist_remove_link(l, e) ==
  LET before == SelectSeq(Nexts(l.h, l.head), LAMBDA a : l.h[a].next = e)
  IN CASE l.head = 0 \/ e = 0 -> l
       [] l.head = e /\ e # 0 -> [l EXCEPT !.head = l.h[e].next]
       [] OTHER -> IF before = << >> THEN l ELSE [l EXCEPT !.h = Link(@, before[1], "next", l.h[e].next)]
r_slist_destroy_link(l, e) == r_list_free1(r_slist_remove_link(l, e), e)
r_slist_remove(l, data) ==
  LET s == SelectSeq(Nexts(l.h, l.head), LAMBDA a : l.h[a].data = data)
  IN IF s = << >> THEN l ELSE r_slist_destroy_link(l, s[1])
r_slist_destroy(l) == [FoldLeft(r_list_free1, l, Nexts(l.h, l.head)) EXCEPT !.head = 0]
r_slist_destroy_full(l) == r_slist_destroy(l)
r_cbslist_call(h, a) == Data(h, Nexts(h, a))

-----------------------------------------------------------------------------
(* Queues: a list with its tail and size.  pop gives the item (0: empty). *)
NoQueue == [h |-> << >>, gone |-> << >>, head |-> 0, tail |-> 0, size |-> 0]
r_queue_list_push(q, item) ==
  LET e == New(q)
      m == [Alloc(q, item) EXCEPT !.size = @ + 1, !.tail = e]
  IN IF q.size > 0 THEN [m EXCEPT !.h = Link(Link(@, e, "prev", q.tail), q.tail, "next", e)] ELSE [m EXCEPT !.head = e]
r_queue_list_pop(q) ==
  LET it == q.head
      nx == q.h[it].next
      m == [q EXCEPT !.head = nx, !.h = Link(@, nx, "prev", 0), !.tail = IF nx = 0 THEN 0 ELSE @, !.size = @ - 1]
  IN IF it = 0 THEN [q |-> q, item |-> 0] ELSE [q |-> r_list_free1(m, it), item |-> q.h[it].data]
r_queue_list_peek(q) == IF q.head = 0 THEN 0 ELSE q.h[q.head].data
\* mutant: removing the last link leaves the tail on it
queue_remove_keeps_tail(q, link) == [r_list_destroy_link(q, link) EXCEPT !.size = @ - 1]
r_queue_list_remove_link(q, link) ==
  LET m == IF link = q.tail THEN [q EXCEPT !.tail = q.h[q.tail].prev] ELSE q
  IN [r_list_destroy_link(m, link) EXCEPT !.size = @ - 1]
r_queue_list_clear(q) == [r_list_destroy(q) EXCEPT !.tail = 0, !.size = 0]

r_cbqueue_push(q, cb) == r_queue_list_push(q, cb)
(* The link is unlinked, not freed: that is the caller's. *)
r_cbqueue_pop(q) ==
  LET nx == q.h[q.head].next
  IN IF q.head = 0 THEN [q |-> q, link |-> 0]
     ELSE [q |-> [q EXCEPT !.head = nx, !.h = Link(@, nx, "prev", 0), !.tail = IF nx = 0 THEN 0 ELSE @, !.size = @ - 1],
           link |-> q.head]
r_cbqueue_remove_link(q, link) == r_queue_list_remove_link(q, link)
r_cbqueue_clear(q) == r_queue_list_clear(q)
r_cbqueue_call(q) == r_cblist_call(q.h, q.head)
r_cbqueue_call_pop(q) == [q |-> r_queue_list_clear(q), called |-> r_cblist_call(q.h, q.head)]
(* Both queues in one heap: src gives [head, tail, size]. *)
r_cbqueue_merge(dst, src) ==
  IF dst.size > 0 /\ src.size > 0
  THEN [dst EXCEPT !.size = @ + src.size, !.tail = src.tail,
                   !.h = Link(Link(@, dst.tail, "next", src.head), src.head, "prev", dst.tail)]
  ELSE IF dst.size = 0 THEN [dst EXCEPT !.head = src.head, !.tail = src.tail, !.size = src.size] ELSE dst

-----------------------------------------------------------------------------
(***************************************************************************)
(* The directory tree of paths (rlib/data/rdirtree.c).  A path is a        *)
(* sequence of one-character strings, "/" the separator, NUL-terminated    *)
(* after its last one.  A tree is [node, nodes, gone]: node maps addresses *)
(* to [parent, children, name, data] (Root is 0, data 0 none), nodes is    *)
(* the count the code keeps, and gone the data whose notifier has run.     *)
(***************************************************************************)
Root == 0
None == -1                   \* a NULL node pointer
SEP == "/"
Node(parent, name) == [parent |-> parent, children |-> << >>, name |-> name, data |-> 0]
r_dir_tree_new == [node |-> Root :> Node(None, << >>), nodes |-> 1, gone |-> << >>]

NewNode(t) == CHOOSE n \in 1..Cardinality(DOMAIN t.node) : n \notin DOMAIN t.node
r_dir_tree_add_node(t, name, parent) ==
  LET n == NewNode(t)
  IN [t EXCEPT !.node = (n :> Node(parent, name)) @@ [@ EXCEPT ![parent].children = Append(@, n)], !.nodes = @ + 1]

LastOther(p) == CHOOSE n \in 0..Len(p) : /\ n > 0 => p[n] # SEP
                                         /\ \A i \in n + 1..Len(p) : p[i] = SEP
SkipSeps(p, off, size) == CHOOSE o \in off..size : /\ o < size => p[o + 1] # SEP
                                                   /\ \A i \in off + 1..o : p[i] = SEP
ToSep(p, off, size) == CHOOSE o \in off..size : /\ o < size => p[o + 1] = SEP
                                                /\ \A i \in off + 1..o : p[i] # SEP
Bytes(p, off, n) == SubSeq(p, off + 1, IF off + n > Len(p) THEN Len(p) ELSE off + n)

(* One turn of the loop at (n, poff).  After a child matched, the test that   *)
(* the scan stopped early compares the child's index with the child's own  *)
(* number of children, so that a matched child may be taken for a miss.    *)
RECURSIVE Find(_, _, _, _, _, _)
Find(t, n, poff, path, create, exact) ==
  LET psize == LastOther(path)
      off == SkipSeps(path, poff, psize)
      len == ToSep(path, off, psize) - off
      kids == t.node[n].children
      hit == {i \in DOMAIN kids : Bytes(t.node[kids[i]].name, 0, len) = Bytes(path, off, len)}
      i == CHOOSE x \in hit : \A y \in hit : x <= y
      m == IF hit = {} THEN n ELSE kids[i]
      at == IF hit = {} THEN off ELSE off + len
      found == hit # {} /\ i - 1 < Len(t.node[m].children)
      t2 == r_dir_tree_add_node(t, Bytes(path, at, len), m)
  IN CASE psize <= poff \/ t.node[n].name = path -> [t |-> t, n |-> n]
       [] psize > poff /\ t.node[n].name # path /\ found -> Find(t, m, at, path, create, exact)
       [] psize > poff /\ t.node[n].name # path /\ ~found /\ create -> Find(t2, NewNode(t), at + len, path, create, exact)
       [] OTHER -> [t |-> t, n |-> IF exact THEN None ELSE m]
r_dir_tree_node_find_node(t, path, create, exact) == Find(t, Root, 0, path, create, exact)

r_dir_tree_get(t, path) == r_dir_tree_node_find_node(t, path, FALSE, TRUE).n
r_dir_tree_get_or_any_parent(t, path) == r_dir_tree_node_find_node(t, path, FALSE, FALSE).n
r_dir_tree_create(t, path) == r_dir_tree_node_find_node(t, path, TRUE, TRUE)
Notify(data) == IF data = 0 THEN << >> ELSE <<data>>
r_dir_tree_node_set_full(t, n, data) ==
  [t EXCEPT !.gone = @ \o Notify(t.node[n].data), !.node[n].data = data]
r_dir_tree_set_full(t, path, data) ==
  LET r == r_dir_tree_create(t, path) IN [t |-> r_dir_tree_node_set_full(r.t, r.n, data), n |-> r.n]

(* Children before their parent, in order. *)
RECURSIVE Below(_, _)
Below(t, n) == FoldLeft(LAMBDA s, c : s \o Below(t, c), << >>, t.node[n].children) \o <<n>>
Drop(t, s) == [t EXCEPT !.nodes = @ - Len(s),
                        !.gone = FoldLeft(LAMBDA g, n : g \o Notify(t.node[n].data), @, s),
                        !.node = [n \in DOMAIN @ \ ToSet(s) |-> t.node[n]]]
r_dir_tree_destroy_node(t, n) == Drop(t, Below(t, n))
r_dir_tree_remove_node_full(t, n) ==
  LET u == Drop(t, Front(Below(t, n)))
  IN IF n = None THEN t
     ELSE IF n # Root THEN Drop([u EXCEPT !.node[t.node[n].parent].children = SelectSeq(@, LAMBDA c : c # n)], <<n>>)
     ELSE [u EXCEPT !.gone = @ \o Notify(t.node[Root].data), !.node[Root].data = 0, !.node[Root].children = << >>]

RECURSIVE r_dir_tree_node_build_path(_, _)
r_dir_tree_node_build_path(t, n) ==
  IF t.node[n].parent = None THEN << >>
  ELSE r_dir_tree_node_build_path(t, t.node[n].parent) \o <<SEP>> \o t.node[n].name
r_dir_tree_node_path(t, n) == IF n = Root THEN <<SEP>> ELSE r_dir_tree_node_build_path(t, n)

-----------------------------------------------------------------------------
(***************************************************************************)
(* The growable string (rlib/data/rstring.c): [buf, len, size], buf the    *)
(* characters of the allocation that have been written; len the length the *)
(* code tracks and size the allocation.  Operations give                   *)
(* [s, ret].  A C string is a sequence of characters without its NUL.      *)
(***************************************************************************)
CONSTANT ALLOC_MASK          \* R_STRING_ALLOC_MASK, 2^k - 1

NUL == "NUL"
OrMask(n) == (n \div (ALLOC_MASK + 1)) * (ALLOC_MASK + 1) + ALLOC_MASK
CStr(s) == SubSeq(s.buf, 1, (CHOOSE i \in DOMAIN s.buf : s.buf[i] = NUL /\ \A j \in 1..i - 1 : s.buf[j] # NUL) - 1)
(* Bytes written over buf from the 0-based position pos. *)
Copy(buf, pos, bytes) ==
  SubSeq(buf, 1, pos) \o bytes \o SubSeq(buf, pos + Len(bytes) + 1, Len(buf))
Terminated(s) == [s EXCEPT !.buf = Copy(@, s.len, <<NUL>>)]

r_string_new_sized(size) == [buf |-> <<NUL>>, len |-> 0, size |-> OrMask(size)]
r_string_new(cstr) == [buf |-> Append(cstr, NUL), len |-> Len(cstr), size |-> OrMask(Len(cstr) + 1)]
r_string_ensure_size(s, size) == IF size > s.size THEN [s EXCEPT !.size = @ + OrMask(size - s.size)] ELSE s
Grow(s, n) == r_string_ensure_size(s, s.len + 1 + n)

(* Only the characters are replaced: the tracked length stays. *)
r_string_reset(s, cstr) ==
  [s |-> [r_string_ensure_size(s, Len(cstr)) EXCEPT !.buf = Copy(@, 0, Append(cstr, NUL))], ret |-> Len(cstr)]
r_string_append_c(s, c) ==
  [s |-> Terminated([Grow(s, 1) EXCEPT !.buf = Copy(@, s.len, <<c>>), !.len = @ + 1]), ret |-> 1]
r_string_append_len(s, cstr, n) ==
  IF n = 0 THEN [s |-> s, ret |-> 0]
  ELSE [s |-> Terminated([Grow(s, n) EXCEPT !.buf = Copy(@, s.len, SubSeq(cstr, 1, n)), !.len = @ + n]), ret |-> n]
r_string_append(s, cstr) == r_string_append_len(s, cstr, Len(cstr))
r_string_append_vprintf(s, text) == r_string_append(s, text)
r_string_prepend_len(s, cstr, n) ==
  IF n = 0 THEN [s |-> s, ret |-> 0]
  ELSE [s |-> [Grow(s, n) EXCEPT !.buf = SubSeq(cstr, 1, n) \o SubSeq(@, 1, s.len + 1), !.len = @ + n], ret |-> n]
r_string_prepend(s, cstr) == r_string_prepend_len(s, cstr, Len(cstr))
r_string_prepend_vprintf(s, text) ==
  LET r == r_string_prepend(s, text) IN [r EXCEPT !.ret = IF @ = Len(text) THEN @ + 1 ELSE @]
(* At or past the end the whole C string is appended, whatever n says. *)
r_string_insert_len(s, pos, cstr, n) ==
  IF pos >= s.len THEN r_string_append(s, cstr)
  ELSE [s |-> [Grow(s, n) EXCEPT !.buf = SubSeq(@, 1, pos) \o SubSeq(cstr, 1, n) \o SubSeq(@, pos + 1, s.len + 1),
                                 !.len = @ + n],
        ret |-> n]
r_string_insert(s, pos, cstr) == r_string_insert_len(s, pos, cstr, Len(cstr))
r_string_overwrite_len(s, pos, cstr, n) ==
  LET over == Copy(s.buf, pos, SubSeq(cstr, 1, n))
  IN CASE pos >= s.len -> r_string_append(s, cstr)
       [] pos < s.len /\ pos + n > s.len ->
            [s |-> Terminated([Grow(s, pos + n - s.len) EXCEPT !.buf = over, !.len = pos + n]), ret |-> n]
       [] OTHER -> [s |-> [s EXCEPT !.buf = over], ret |-> n]
r_string_overwrite(s, pos, cstr) == r_string_overwrite_len(s, pos, cstr, Len(cstr))
r_string_truncate(s, n) ==
  IF n > s.len THEN [s |-> s, ret |-> 0] ELSE [s |-> Terminated([s EXCEPT !.len = n]), ret |-> s.len - n]
r_string_erase(s, pos, n) ==
  CASE pos > s.len -> [s |-> s, ret |-> 0]
    [] pos <= s.len /\ pos + n >= s.len -> [s |-> r_string_truncate(s, pos).s, ret |-> pos]
    [] OTHER -> [s |-> [s EXCEPT !.len = @ - n, !.buf = Copy(@, pos, SubSeq(@, pos + n + 1, s.len + 1))], ret |-> s.len - n]
r_string_cmp_cstr(s, cstr) == CStr(s) = cstr
=============================================================================
