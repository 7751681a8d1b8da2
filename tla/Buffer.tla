------------------------------- MODULE Buffer -------------------------------
(***************************************************************************)
(* Memory chunks, rlib/rmemallocator.c: reference-counted windows on a     *)
(* block of bytes, views that keep the chunk they look into alive, copies  *)
(* and merges with the system allocator.  A heap H holds the chunks (0 is  *)
(* NULL) and the blocks; operations map a heap to the heap after them.     *)
(***************************************************************************)
EXTENDS Integers, SequencesExt

CONSTANT Descriptor   \* sizeof (RSystemMem)

EmptyHeap == [mem |-> <<>>, block |-> <<>>, notified |-> 0, bad |-> FALSE]

Done(H, id) == [h |-> H, mem |-> id]
NULL == 0

\* mutant: the parent is not referenced
InitNoParentRef(H, m) ==
  Done([H EXCEPT !.mem = Append(@, m @@ [refs |-> 1])], Len(H.mem) + 1)

\* A chunk with one reference, which holds a reference to its parent.
r_system_mem_init(H, m) ==
  LET H1 == [H EXCEPT !.mem = Append(@, m @@ [refs |-> 1])]
  IN  Done(IF m.parent = NULL THEN H1 ELSE [H1 EXCEPT !.mem[m.parent].refs = @ + 1], Len(H1.mem))

r_mem_ref(H, id) == [H EXCEPT !.mem[id].refs = @ + 1, !.bad = @ \/ H.mem[id].refs = 0]

\* The last reference notifies the owner of the bytes and releases the parent.
RECURSIVE r_mem_unref(_, _)
r_mem_unref(H, id) ==
  LET m == H.mem[id]
      H1 == [H EXCEPT !.mem[id].refs = @ - 1, !.bad = @ \/ m.refs <= 0]
  IN  IF m.refs # 1 THEN H1
      ELSE LET H2 == [H1 EXCEPT !.notified = @ + IF m.usernotify THEN 1 ELSE 0]
           IN  IF m.parent = NULL THEN H2 ELSE r_mem_unref(H2, m.parent)

UnrefAll(H, ids) == FoldLeft(r_mem_unref, H, ids)
\* The visible bytes, and the cells of the blocks they are in.
MemCells(H, id) == LET m == H.mem[id] IN [i \in 1 .. m.size |-> <<m.data, m.offset + i>>]
Read(H, cells) == [i \in 1 .. Len(cells) |-> H.block[cells[i][1]][cells[i][2]]]
WriteCells(H, cells, bytes) ==
  FoldLeftDomain(LAMBDA G, i : [G EXCEPT !.block[cells[i][1]][cells[i][2]] = bytes[i]], H, bytes)

NoFlags == [readonly |-> FALSE, no_views |-> FALSE, prefix |-> 0, padding |-> 0]

\* Prefix and padding are zeros with their flags; fresh bytes are what they are.
r_system_mem_allocator_alloc(H, bytes, params) ==
  LET Zeros(n) == [i \in 1 .. n |-> 0]
      block == Zeros(params.prefix) \o bytes \o Zeros(params.padding)
      H1 == [H EXCEPT !.block = Append(@, block)]
  IN  r_system_mem_init(H1, [readonly |-> params.readonly, no_views |-> params.no_views, parent |-> NULL,
        allocsize |-> Len(block), size |-> Len(bytes), offset |-> params.prefix, data |-> Len(H1.block), usernotify |-> FALSE])

\* The size asked for, or the rest of the window; -1 when it does not fit (the
\* difference is unsigned).
Extent(m, allocsize, offset, size) ==
  LET n == IF size < 0 THEN m.size - offset ELSE size
  IN  IF (offset < 0 /\ -offset > m.offset) \/ n < 0 \/ (m.offset <= allocsize /\ offset + n > allocsize - m.offset)
      THEN -1 ELSE n

r_system_mem_allocator_copy(H, id, offset, size) ==
  LET m == H.mem[id]
      n == Extent(m, m.allocsize, offset, size)
  IN  IF n < 0 THEN Done(H, NULL)
      ELSE r_system_mem_allocator_alloc(H, SubSeq(H.block[m.data], m.offset + offset + 1, m.offset + offset + n), NoFlags)

\* A read-only window on the bytes of the chunk at the root; its own allocsize
\* is the size of its descriptor.
r_system_mem_allocator_view(H, id, offset, size) ==
  LET m == H.mem[id]
      parent == IF m.parent = NULL THEN id ELSE m.parent
      n == Extent(m, H.mem[parent].allocsize, offset, size)
  IN  IF n < 0 THEN Done(H, NULL)
      ELSE r_system_mem_init(H, [readonly |-> TRUE, no_views |-> H.mem[parent].no_views, parent |-> parent,
             allocsize |-> Descriptor, size |-> n, offset |-> m.offset + offset, data |-> m.data, usernotify |-> FALSE])

r_system_mem_allocator_merge(H, ids) ==
  r_system_mem_allocator_alloc(H, FlattenSeq([i \in DOMAIN ids |-> Read(H, MemCells(H, ids[i]))]), NoFlags)

r_mem_allocator_alloc_full(H, bytes, params) == r_system_mem_allocator_alloc(H, bytes, params)

r_mem_resize(H, id, offset, size) ==
  LET m == H.mem[id]
  IN  IF m.readonly \/ offset + size > m.allocsize THEN [h |-> H, ok |-> FALSE]
      ELSE [h |-> [H EXCEPT !.mem[id].offset = offset, !.mem[id].size = size], ok |-> TRUE]

\* The mapping holds a reference; a read-only chunk is not mapped for writing.
r_mem_map(H, id, write) ==
  IF H.mem[id].readonly /\ write THEN [h |-> H, ok |-> FALSE]
  ELSE [h |-> r_mem_ref(H, id), ok |-> TRUE]
r_mem_unmap(H, id) == r_mem_unref(H, id)

r_mem_copy(H, id, offset, size) == r_system_mem_allocator_copy(H, id, offset, size)
r_mem_view(H, id, offset, size) ==
  IF H.mem[id].no_views THEN Done(H, NULL) ELSE r_system_mem_allocator_view(H, id, offset, size)

\* The owner is notified when the wrapper cannot be created, too.
r_mem_new_wrapped(H, readonly, bytes, size, offset) ==
  IF bytes = <<>> \/ size + offset > Len(bytes) THEN Done([H EXCEPT !.notified = @ + 1], NULL)
  ELSE LET H1 == [H EXCEPT !.block = Append(@, bytes)]
       IN  r_system_mem_init(H1, [readonly |-> readonly, no_views |-> FALSE, parent |-> NULL, allocsize |-> Len(bytes),
             size |-> size, offset |-> offset, data |-> Len(H1.block), usernotify |-> TRUE])

r_mem_mergev(H, ids) == IF ids = <<>> THEN Done(H, NULL) ELSE r_system_mem_allocator_merge(H, ids)
r_mem_merge_array(H, ids) == IF ids = <<>> THEN Done(H, NULL) ELSE r_system_mem_allocator_merge(H, ids)

r_mem_takev(H, ids) ==
  LET r == r_mem_mergev(H, ids) IN IF r.mem = NULL THEN r ELSE Done(UnrefAll(r.h, ids), r.mem)
r_mem_take_array(H, ids) ==
  LET r == r_mem_merge_array(H, ids) IN IF r.mem = NULL THEN r ELSE Done(UnrefAll(r.h, ids), r.mem)

-----------------------------------------------------------------------------
(***************************************************************************)
(* Byte buffers made of memory chunks, rlib/rbuffer.c.  A buffer is the    *)
(* sequence of its chunks; an operation maps a heap and a buffer to        *)
(* [h, buf, ret]: the heap and the buffer after it, and what it returns.   *)
(***************************************************************************)
CONSTANT R_BUFFER_MAX_MEM

Sz(H, id) == H.mem[id].size
BufCells(H, b) == FlattenSeq([i \in DOMAIN b |-> MemCells(H, b[i])])
r_buffer_get_size(H, b) == FoldLeft(LAMBDA n, id : n + Sz(H, id), 0, b)
r_buffer_get_allocsize(H, b) == FoldLeft(LAMBDA n, id : n + H.mem[id].allocsize, 0, b)
\* The offsets up to and including the first chunk that is not empty.
r_buffer_get_offset(H, b) ==
  LET full == {i \in DOMAIN b : Sz(H, b[i]) > 0}
      last == IF full = {} THEN Len(b) ELSE CHOOSE i \in full : \A j \in full : i <= j
  IN  FoldLeft(LAMBDA n, id : n + H.mem[id].offset, 0, SubSeq(b, 1, last))

Result(H, b, ret) == [h |-> H, buf |-> b, ret |-> ret]

r_buffer_free(H, b) == UnrefAll(H, b)

r_buffer_new_alloc(H, bytes, params) ==
  LET r == r_mem_allocator_alloc_full(H, bytes, params) IN Result(r.h, <<r.mem>>, TRUE)
r_buffer_new_wrapped(H, readonly, bytes, size, offset) ==
  LET r == r_mem_new_wrapped(H, readonly, bytes, size, offset)
  IN  IF r.mem = NULL THEN Result(r.h, <<>>, FALSE) ELSE Result(r.h, <<r.mem>>, TRUE)

r_buffer_is_all_writable(H, b) == b # <<>> /\ \A i \in DOMAIN b : ~H.mem[b[i]].readonly

\* A full buffer is merged into one chunk first.
r_buffer_mem_append(H, b, id) ==
  IF Len(b) < R_BUFFER_MAX_MEM THEN Result(r_mem_ref(H, id), Append(b, id), TRUE)
  ELSE LET r == r_mem_merge_array(H, b)
       IN  Result(r_mem_ref(UnrefAll(r.h, b), id), <<r.mem, id>>, TRUE)

\* A full buffer: the longer side of the position is merged.
r_buffer_mem_insert(H, b, id, idx) ==
  IF idx >= Len(b) THEN r_buffer_mem_append(H, b, id)
  ELSE IF Len(b) < R_BUFFER_MAX_MEM THEN Result(r_mem_ref(H, id), InsertAt(b, idx + 1, id), TRUE)
  ELSE LET low == SubSeq(b, 1, idx)
           high == SubSeq(b, idx + 1, Len(b))
           side == IF Len(low) > Len(high) THEN low ELSE high
           r == r_mem_merge_array(H, side)
       IN  Result(r_mem_ref(UnrefAll(r.h, side), id),
                  IF side = low THEN <<r.mem, id>> \o high ELSE low \o <<id, r.mem>>, TRUE)
r_buffer_mem_prepend(H, b, id) == r_buffer_mem_insert(H, b, id, 0)

\* Nothing is taken out for mem_count = 0, the chunk at idx is replaced all the same.
r_buffer_mem_replace_range(H, b, idx, mem_count, id) ==
  LET n == IF mem_count < 0 THEN Len(b) - idx ELSE mem_count
      m == IF n < 1 THEN 1 ELSE n
  IN  IF idx >= Len(b) \/ (mem_count >= 0 /\ idx + mem_count > Len(b)) THEN Result(H, b, FALSE)
      ELSE Result(UnrefAll(r_mem_ref(r_mem_unref(H, b[idx + 1]), id), SubSeq(b, idx + 2, idx + m)),
                  SubSeq(b, 1, idx) \o <<id>> \o SubSeq(b, idx + m + 1, Len(b)), TRUE)

r_buffer_mem_peek(H, b, idx) ==
  IF idx >= Len(b) THEN Result(H, b, NULL) ELSE Result(r_mem_ref(H, b[idx + 1]), b, b[idx + 1])
r_buffer_mem_remove(H, b, idx) ==
  IF idx >= Len(b) THEN Result(H, b, NULL) ELSE Result(H, RemoveAt(b, idx + 1), b[idx + 1])
r_buffer_mem_clear(H, b) == Result(UnrefAll(H, b), <<>>, TRUE)

\* The chunks that hold size bytes at offset; positions count from 1.
r_buffer_mem_find(H, b, offset, size) ==
  LET Upto(i) == r_buffer_get_size(H, SubSeq(b, 1, i))
      s == IF size >= 0 THEN size ELSE Upto(Len(b)) - offset
      starts == {i \in DOMAIN b : offset < Upto(i)}
      ix == CHOOSE i \in starts : \A j \in starts : i <= j
      ends == {i \in DOMAIN b : i >= ix /\ offset + s <= Upto(i)}
      cn == CHOOSE i \in ends : \A j \in ends : i <= j
  IN  IF starts = {} \/ ends = {} THEN [ok |-> FALSE]
      ELSE [ok |-> TRUE, idx |-> ix, count |-> cn - ix + 1, first_offset |-> offset - Upto(ix - 1),
            last_size |-> IF cn = ix THEN s ELSE offset + s - Upto(cn - 1)]

\* A chunk made by Piece is appended and the maker's reference dropped; after
\* the first that cannot be made nothing more happens.
AddPiece(r, made) ==
  IF made.mem = NULL THEN [r EXCEPT !.h = made.h, !.ret = FALSE]
  ELSE LET a == r_buffer_mem_append(made.h, r.buf, made.mem)
       IN  [a EXCEPT !.h = r_mem_unref(a.h, made.mem)]

\* The pieces of the chunks of from that a range covers, made by Make.
Pieces(H, from, f, Make(_, _, _, _)) ==
  FoldLeft(LAMBDA r, j : IF ~r.ret THEN r
             ELSE AddPiece(r, Make(r.h, from[f.idx + j], IF j = 0 THEN f.first_offset ELSE 0,
                                   IF j = f.count - 1 THEN f.last_size ELSE -1)),
           Result(H, <<>>, TRUE), [j \in 1 .. f.count |-> j - 1])

OrNothing(r) == IF r.ret THEN r ELSE Result(UnrefAll(r.h, r.buf), <<>>, FALSE)

r_buffer_view(H, from, offset, size) ==
  LET f == r_buffer_mem_find(H, from, offset, size)
  IN  IF ~f.ok THEN Result(H, <<>>, FALSE) ELSE OrNothing(Pieces(H, from, f, r_mem_view))
r_buffer_copy(H, from, offset, size) ==
  LET f == r_buffer_mem_find(H, from, offset, size)
  IN  IF ~f.ok THEN Result(H, <<>>, FALSE) ELSE OrNothing(Pieces(H, from, f, r_mem_copy))

r_buffer_append_mem_from_buffer(H, b, from) ==
  FoldLeft(LAMBDA r, id : r_buffer_mem_append(r.h, r.buf, id), Result(H, b, TRUE), from)

ViewOrCopy(H, id, offset, size) ==
  LET v == r_mem_view(H, id, offset, size) IN IF v.mem # NULL THEN v ELSE r_mem_copy(H, id, offset, size)

Least(a, c) == IF a < c THEN a ELSE c
\* Views, or copies, of the range; the offset in the first chunk is used in the
\* later ones too.
RECURSIVE AppendRest(_, _, _, _, _)
AppendRest(r, from, i, offset, size) ==
  LET msize == Least(size, Sz(r.h, from[i]) - offset)
  IN  IF i > Len(from) \/ size <= 0 \/ ~r.ret THEN r
      ELSE AppendRest(AddPiece(r, ViewOrCopy(r.h, from[i], offset, msize)), from, i + 1, offset, size - msize)
r_buffer_append_view(H, b, from, offset, size) ==
  LET Upto(i) == r_buffer_get_size(H, SubSeq(from, 1, i))
      starts == {i \in DOMAIN from : offset < Upto(i)}
      ix == CHOOSE i \in starts : \A j \in starts : i <= j
      o == offset - Upto(ix - 1)
      one == AddPiece(Result(H, b, TRUE), ViewOrCopy(H, from[ix], o, Least(size, Sz(H, from[ix]) - o)))
  IN  IF size = 0 \/ from = <<>> THEN Result(H, b, TRUE)
      ELSE IF starts = {} THEN Result(H, b, FALSE)
      ELSE IF size < 0 THEN
        FoldLeft(LAMBDA r, id : IF r.ret THEN AddPiece(r, ViewOrCopy(r.h, id, 0, -1)) ELSE r,
                 one, SubSeq(from, ix + 1, Len(from)))
      ELSE AppendRest(one, from, ix + 1, o, size - Least(size, Sz(H, from[ix]) - o))

\* from's chunks are moved; when they do not fit, all are merged, which takes
\* the references the buffers still hold.
r_buffer_merge_takev(H, a, from) ==
  IF Len(a) + Len(from) <= R_BUFFER_MAX_MEM THEN Result(H, a \o from, TRUE)
  ELSE LET m == r_mem_take_array(H, a \o from)
           r == r_buffer_mem_replace_range(m.h, a, 0, -1, m.mem)
       IN  Result(r_buffer_free(r.h, from), r.buf, TRUE)

\* The merged chunk keeps the reference of its maker.
r_buffer_merge_take_array(H, bufs) ==
  LET mems == FlattenSeq(bufs)
      m == r_mem_take_array(H, mems)
  IN  IF 2 * Len(mems) < 2 * (R_BUFFER_MAX_MEM \div 2) THEN Result(H, mems, TRUE)
      ELSE IF m.mem = NULL THEN Result(m.h, <<>>, FALSE)
      ELSE r_buffer_mem_append(m.h, <<>>, m.mem)

\* What follows skip bytes from chunk i on: the tail of a chunk and whole chunks.
RECURSIVE Suffix(_, _, _, _)
Suffix(r, b, i, skip) ==
  IF i > Len(b) \/ ~r.ret THEN r
  ELSE IF skip > Sz(r.h, b[i]) THEN Suffix(r, b, i + 1, skip - Sz(r.h, b[i]))
  ELSE IF skip > 0 THEN Suffix(AddPiece(r, r_mem_view(r.h, b[i], skip, -1)), b, i + 1, 0)
  ELSE Suffix(r_buffer_mem_append(r.h, r.buf, b[i]), b, i + 1, 0)

\* The bytes before the range, from's chunks, the bytes behind it (none for a
\* negative size), in a new buffer that shares the chunks.
ReplaceFrom(H, b, offset, size, from, f) ==
  LET at == f.idx + f.count - 1
      head == r_buffer_append_mem_from_buffer(H, <<>>, SubSeq(b, f.idx, at - 1))
      pre == IF offset = 0 THEN Result(H, <<>>, TRUE)
             ELSE AddPiece(head, r_mem_view(head.h, b[at], 0, f.last_size))
      mid == r_buffer_append_mem_from_buffer(pre.h, pre.buf, from)
  IN  IF offset > 0 /\ ~f.ok THEN Result(H, <<>>, FALSE)
      ELSE IF ~pre.ret THEN OrNothing(pre)
      ELSE OrNothing(IF size < 0 THEN mid
                     ELSE IF offset = 0 THEN Suffix(mid, b, 1, size) ELSE Suffix(mid, b, at, size + f.last_size))
r_buffer_replace_byte_range(H, b, offset, size, from) ==
  ReplaceFrom(H, b, offset, size, from, r_buffer_mem_find(H, b, 0, offset))

\* The window in the chunks laid end to end with their whole allocations; the
\* chunks behind it are dropped.
RECURSIVE ResizeChunks(_, _, _, _, _)
ResizeChunks(H, b, i, offset, size) ==
  LET id == b[i]
      alloc == H.mem[id].allocsize
      keep == Least(size, alloc - offset)
  IN  IF i > Len(b) THEN Result(H, b, TRUE)
      ELSE IF offset >= alloc THEN ResizeChunks(r_mem_resize(H, id, alloc, 0).h, b, i + 1, offset - alloc, size)
      ELSE LET H1 == r_mem_resize(H, id, offset, keep).h
           IN  IF size < alloc - offset THEN Result(UnrefAll(H1, SubSeq(b, i + 1, Len(b))), SubSeq(b, 1, i), TRUE)
               ELSE ResizeChunks(H1, b, i + 1, 0, size - keep)
r_buffer_resize_fast(H, b, offset, size) ==
  IF ~r_buffer_is_all_writable(H, b) \/ r_buffer_get_allocsize(H, b) < offset + size THEN Result(H, b, FALSE)
  ELSE ResizeChunks(H, b, 1, offset, size)
r_buffer_resize(H, b, offset, size) == r_buffer_resize_fast(H, b, offset, size)

\* The chunk in which the buffer is to end is resized, the ones behind dropped.
r_buffer_shrink(H, b, size) ==
  LET Upto(i) == r_buffer_get_size(H, SubSeq(b, 1, i))
      ends == {i \in DOMAIN b : Upto(i) >= size}
      i == CHOOSE e \in ends : \A j \in ends : e <= j
      r == r_mem_resize(H, b[i], H.mem[b[i]].offset, size - Upto(i - 1))
  IN  IF size = 0 THEN r_buffer_mem_clear(H, b)
      ELSE IF ends = {} \/ ~r.ok THEN Result(H, b, FALSE)
      ELSE Result(UnrefAll(r.h, SubSeq(b, i + 1, Len(b))), SubSeq(b, 1, i), TRUE)

\* A range of several chunks is merged; the merged chunk takes their place when
\* the whole buffer is writable, else only the mapping has it.  ret is the chunk
\* mapped, NULL when there is none.
r_buffer_map_mem_range(H, b, idx, mem_count, write) ==
  LET n == IF mem_count < 0 THEN Len(b) - idx ELSE mem_count
      m == r_mem_merge_array(H, SubSeq(b, idx + 1, idx + n))
      r == IF r_buffer_is_all_writable(H, b) THEN r_buffer_mem_replace_range(m.h, b, idx, n, m.mem)
           ELSE Result(m.h, b, TRUE)
      single == r_mem_map(H, b[idx + 1], write)
  IN  IF idx >= Len(b) \/ idx + n > Len(b) \/ n = 0 THEN Result(H, b, NULL)
      ELSE IF n = 1 THEN Result(single.h, b, IF single.ok THEN b[idx + 1] ELSE NULL)
      ELSE Result(r_mem_unref(r_mem_map(r.h, m.mem, write).h, m.mem), r.buf, m.mem)

\* ret is <<chunk, offset in it, size>>
MapFound(H, b, f, msize, write) ==
  LET r == r_buffer_map_mem_range(H, b, f.idx - 1, f.count, write)
  IN  IF ~f.ok THEN Result(H, b, <<NULL, 0, 0>>) ELSE Result(r.h, r.buf, <<r.ret, f.first_offset, msize>>)
r_buffer_map_byte_range(H, b, offset, size, write) ==
  LET max_size == r_buffer_get_size(H, b)
      msize == IF size < 0 THEN max_size - offset ELSE size
  IN  IF offset + (IF size < 0 THEN 0 ELSE size) > max_size THEN Result(H, b, <<NULL, 0, 0>>)
      ELSE MapFound(H, b, r_buffer_mem_find(H, b, offset, msize), msize, write)

r_buffer_unmap(H, id) == IF id = NULL THEN H ELSE r_mem_unmap(H, id)

\* The cells a bulk operation reaches from offset on, at most size of them; it
\* stops at a chunk that cannot be mapped.
Reach(H, b, offset, size, write) ==
  LET Upto(i) == r_buffer_get_size(H, SubSeq(b, 1, i))
      starts == {i \in DOMAIN b : offset < Upto(i)}
      ix == CHOOSE i \in starts : \A j \in starts : i <= j
      stops == {i \in ix .. Len(b) : write /\ H.mem[b[i]].readonly}
      last == IF stops = {} THEN Len(b) ELSE (CHOOSE i \in stops : \A j \in stops : i <= j) - 1
      cells == BufCells(H, SubSeq(b, 1, last))
  IN  IF starts = {} THEN <<>> ELSE SubSeq(cells, offset + 1, Least(offset + size, Len(cells)))

\* [h, buf, ret]: ret bytes were written
r_buffer_fill(H, b, offset, src) ==
  LET cells == Reach(H, b, offset, Len(src), TRUE)
  IN  Result(WriteCells(H, cells, SubSeq(src, 1, Len(cells))), b, Len(cells))
r_buffer_memset(H, b, offset, val, size) ==
  LET cells == Reach(H, b, offset, size, TRUE)
  IN  Result(WriteCells(H, cells, [i \in 1 .. Len(cells) |-> val]), b, Len(cells))

r_buffer_extract(H, b, offset, size) ==
  Read(H, Reach(H, b, offset, IF size >= 0 THEN size ELSE r_buffer_get_size(H, b), FALSE))
r_buffer_extract_dup(H, b, offset, size) ==
  r_buffer_extract(H, b, offset, IF size < 0 THEN r_buffer_get_size(H, b) ELSE size)

\* The sign at the first byte that differs.
r_memcmp(x, y) ==
  LET diff == {i \in DOMAIN x : x[i] # y[i]}
      i == CHOOSE d \in diff : \A j \in diff : d <= j
  IN  IF diff = {} THEN 0 ELSE IF x[i] < y[i] THEN -1 ELSE 1
\* Chunk by chunk; 1 when bytes are left to compare after a difference or the end.
RECURSIVE CmpChunks(_, _, _, _)
CmpChunks(H, b, offset, bytes) ==
  LET n == Least(Len(bytes), Sz(H, b[1]) - offset)
      cmp == r_memcmp(SubSeq(Read(H, MemCells(H, b[1])), offset + 1, offset + n), SubSeq(bytes, 1, n))
  IN  IF n = Len(bytes) THEN cmp
      ELSE IF cmp # 0 \/ Len(b) = 1 THEN 1
      ELSE CmpChunks(H, Tail(b), 0, SubSeq(bytes, n + 1, Len(bytes)))
r_buffer_memcmp(H, b, offset, bytes) ==
  LET Upto(i) == r_buffer_get_size(H, SubSeq(b, 1, i))
      starts == {i \in DOMAIN b : offset < Upto(i)}
      ix == CHOOSE i \in starts : \A j \in starts : i <= j
  IN  IF starts = {} THEN 1 ELSE CmpChunks(H, SubSeq(b, ix, Len(b)), offset - Upto(ix - 1), bytes)
CmpMapped(b1, offset1, m) ==
  LET bytes == SubSeq(Read(m.h, MemCells(m.h, m.ret[1])), m.ret[2] + 1, m.ret[2] + m.ret[3])
  IN  IF m.ret[1] = NULL THEN Result(m.h, m.buf, -42)
      ELSE Result(r_buffer_unmap(m.h, m.ret[1]), m.buf, r_buffer_memcmp(m.h, b1, offset1, bytes))
r_buffer_cmp(H, b1, offset1, b2, offset2, size) ==
  CmpMapped(b1, offset1, r_buffer_map_byte_range(H, b2, offset2, size, FALSE))

-----------------------------------------------------------------------------
(***************************************************************************)
(* Two buffers, a chunk in the program's hand and a mapping, driven by the *)
(* operations of Buffer.  BufSteps gives the states after one more         *)
(* operation, each with whether the operation did what it promises to the  *)
(* bytes: a view shares the cells of its range, a copy and a merge have    *)
(* the same bytes in cells of their own, the rest keeps what it had.       *)
(***************************************************************************)
Names == {"x", "y"}
Other(n) == IF n = "x" THEN "y" ELSE "x"

BufStart ==
  LET a == r_buffer_new_alloc(EmptyHeap, <<1, 2>>, [NoFlags EXCEPT !.prefix = 1, !.padding = 1])
      b == r_mem_new_wrapped(a.h, FALSE, <<3, 4, 5>>, 2, 1)
      c == r_buffer_mem_append(b.h, a.buf, b.mem)
      d == r_buffer_new_alloc(r_mem_unref(c.h, b.mem), <<6, 7>>, [NoFlags EXCEPT !.no_views = TRUE])
  IN  [h |-> d.h, buf |-> [n \in Names |-> IF n = "x" THEN c.buf ELSE d.buf], held |-> 0, map |-> 0]

Cells(s, n) == BufCells(s.h, s.buf[n])
Bytes(s, n) == Read(s.h, Cells(s, n))
Kept(s, t, ns) == \A n \in ns : Bytes(t, n) = Bytes(s, n)
Slice(q, off, n) == LET to == Least(off + n, Len(q)) IN IF to <= off THEN <<>> ELSE SubSeq(q, off + 1, to)

\* The state with the result r of an operation on buffer n, and its verdict.
After(s, n, r, P(_)) ==
  LET t == [s EXCEPT !.h = r.h, !.buf[n] = r.buf] IN [s |-> t, good |-> P(t) /\ Kept(s, t, Names \ {n})]
Freed(s, n, r) == [r EXCEPT !.h = r_buffer_free(r.h, s.buf[n])]

\* y becomes a view, or a copy, of a range of x.
Extracts(s, n) ==
  LET from == s.buf[Other(n)]
      all == Cells(s, Other(n))
      Fits(o, z) == o < Len(all) /\ (z < 0 \/ o + z <= Len(all))
      Part(o, z) == Slice(all, o, IF z < 0 THEN Len(all) - o ELSE z)
  IN  {After(s, n, Freed(s, n, r_buffer_view(s.h, from, p[1], p[2])),
             LAMBDA t : IF \E i \in DOMAIN from : s.h.mem[from[i]].no_views THEN Cells(t, n) \in {<<>>, Part(p[1], p[2])}
                        ELSE Cells(t, n) = IF Fits(p[1], p[2]) THEN Part(p[1], p[2]) ELSE <<>>)
         : p \in {0, 1, 3} \X {-1, 2}}
      \cup
      {After(s, n, Freed(s, n, r_buffer_copy(s.h, from, p[1], p[2])),
             LAMBDA t : /\ Bytes(t, n) = IF Fits(p[1], p[2]) THEN Read(s.h, Part(p[1], p[2])) ELSE <<>>
                        /\ ToSet(Cells(t, n)) \cap ToSet(Cells(t, Other(n))) = {})
         : p \in {0, 3} \X {-1, 2}}
      \cup
      {After(s, n, r_buffer_append_view(s.h, s.buf[n], from, p[1], p[2]),
             LAMBDA t : p[2] < 0 \/ p[1] = 0 => Bytes(t, n) = Bytes(s, n) \o
                          IF p[1] >= Len(all) THEN <<>>
                          ELSE Read(s.h, Part(p[1], IF p[2] < 0 THEN -1 ELSE Least(p[2], Len(all) - p[1]))))
         : p \in {0, 1} \X {-1, 3}}

Chunks(s, n) ==
  {After(s, n, r_buffer_append_mem_from_buffer(s.h, s.buf[n], s.buf[Other(n)]),
         LAMBDA t : Bytes(t, n) = Bytes(s, n) \o Bytes(s, Other(n)))}
  \cup
  IF s.held = 0 THEN {}
  ELSE {After(s, n, r_buffer_mem_insert(s.h, s.buf[n], s.held, i),
              LAMBDA t : LET at == r_buffer_get_size(s.h, SubSeq(s.buf[n], 1, Least(i, Len(s.buf[n]))))
                         IN  Bytes(t, n) = Slice(Bytes(s, n), 0, at) \o Read(s.h, MemCells(s.h, s.held))
                                             \o SubSeq(Bytes(s, n), at + 1, Len(Bytes(s, n))))
          : i \in 0 .. 2}
       \cup
       {After(s, n, r_buffer_mem_replace_range(s.h, s.buf[n], 0, k, s.held),
              LAMBDA t : LET m == IF k < 0 THEN Len(s.buf[n]) ELSE k
                             at == r_buffer_get_size(s.h, SubSeq(s.buf[n], 1, m))
                         IN  Bytes(t, n) = IF s.buf[n] = <<>> \/ m > Len(s.buf[n]) THEN Bytes(s, n)
                                           ELSE Read(s.h, MemCells(s.h, s.held)) \o SubSeq(Bytes(s, n), at + 1, Len(Bytes(s, n))))
          : k \in {-1, 1, 2}}

\* The hand of the program: a chunk is peeked at, taken out, let go.
Hands(s, n) ==
  LET peek == r_buffer_mem_peek(s.h, s.buf[n], 0)
      out == r_buffer_mem_remove(s.h, s.buf[n], 1)
  IN  IF s.held # 0 THEN {[s |-> [s EXCEPT !.h = r_mem_unref(@, s.held), !.held = 0], good |-> TRUE]}
      ELSE {[s |-> [s EXCEPT !.h = peek.h, !.held = peek.ret], good |-> TRUE],
            [s |-> [s EXCEPT !.h = out.h, !.buf[n] = out.buf, !.held = out.ret], good |-> TRUE]}

\* A chunk is resized where it is: only one that is in one place is asked to.
Sizes(s, n) ==
  LET all == Cells(s, n) IN
  IF Len(s.buf["x"]) + Len(s.buf["y"]) > Cardinality(ToSet(s.buf["x"] \o s.buf["y"])) THEN {} ELSE
  {After(s, n, r_buffer_shrink(s.h, s.buf[n], z),
         LAMBDA t : Cells(t, n) \in {all, Slice(all, 0, Least(z, Len(all)))}) : z \in {0, 1, 3}}
  \cup
  {After(s, n, r_buffer_resize(s.h, s.buf[n], p[1], p[2]),
         LAMBDA t : Cells(t, n) = all \/ Len(Cells(t, n)) = p[2]) : p \in {0, 1, 4} \X {1, 3}}
  \cup {After(s, n, r_buffer_mem_clear(s.h, s.buf[n]), LAMBDA t : Cells(t, n) = <<>>)}

\* The other buffer is spliced in, or taken when the chunks fit.
Splices(s, n) ==
  LET b == Bytes(s, n)
      o == Bytes(s, Other(n))
  IN  {After(s, n, Freed(s, n, r_buffer_replace_byte_range(s.h, s.buf[n], p[1], p[2], s.buf[Other(n)])),
             LAMBDA t : Bytes(t, n) \in {<<>>, Slice(b, 0, p[1]) \o o \o
                          IF p[2] < 0 THEN <<>> ELSE SubSeq(b, p[1] + p[2] + 1, Len(b))})
         : p \in {0, 2} \X {-1, 0, 2}}
      \cup
      LET Merged(r) == [s EXCEPT !.h = r.h, !.buf[n] = r.buf, !.buf[Other(n)] = <<>>]
          Checked(t) == [s |-> t, good |-> Bytes(t, n) = b \o o]
      IN  IF Len(s.buf["x"]) + Len(s.buf["y"]) > R_BUFFER_MAX_MEM THEN {}
          ELSE {Checked(Merged(r_buffer_merge_takev(s.h, s.buf[n], s.buf[Other(n)])))}

\* Written through a mapping, or with fill and memset; every view of the cells sees it.
Written(s, t, cells) ==
  \A n \in Names : \A i \in DOMAIN Cells(s, n) : Bytes(t, n)[i] = IF Cells(s, n)[i] \in cells THEN 9 ELSE Bytes(s, n)[i]
Writes(s, n) ==
  LET all == Cells(s, n)
      ro == {k \in DOMAIN s.buf[n] : s.h.mem[s.buf[n][k]].readonly}
      Put(r, m) == LET t == [s EXCEPT !.h = r.h, !.buf[n] = r.buf]
                   IN  [s |-> t, good |-> (ro = {} => r.ret = Len(m)) /\ Written(s, t, ToSet(Slice(m, 0, r.ret)))]
      Map(p, r) == LET m == r.ret
                       got == Slice(MemCells(r.h, m[1]), m[2], m[3])
                       t == [s EXCEPT !.h = IF p[3] THEN WriteCells(r.h, got, [i \in DOMAIN got |-> 9]) ELSE r.h,
                                      !.buf[n] = r.buf, !.map = m[1]]
                   IN  [s |-> IF m[1] = 0 THEN s ELSE t,
                        good |-> IF m[1] = 0 THEN p[1] + (IF p[2] < 0 THEN 0 ELSE p[2]) >= Len(all) \/ (p[3] /\ ro # {})
                                 ELSE /\ Read(r.h, got) = Slice(Bytes(s, n), p[1], IF p[2] < 0 THEN Len(all) - p[1] ELSE p[2])
                                      /\ p[3] /\ r_buffer_is_all_writable(s.h, s.buf[n]) =>
                                           \A i \in DOMAIN got : Bytes(t, n)[p[1] + i] = 9]
  IN  {Put(r_buffer_fill(s.h, s.buf[n], o, <<9, 9>>), Slice(all, o, Least(2, Len(all) - o))) : o \in 0 .. Least(2, Len(all))}
      \cup {Put(r_buffer_memset(s.h, s.buf[n], 1, 9, 2), Slice(all, 1, Least(2, Len(all) - 1))) : o \in {1} \cap (0 .. Len(all))}
      \cup
      IF s.map # 0 THEN {[s |-> [s EXCEPT !.h = r_buffer_unmap(@, s.map), !.map = 0], good |-> TRUE]}
      ELSE {Map(p, r_buffer_map_byte_range(s.h, s.buf[n], p[1], p[2], p[3]))
              : p \in {0, 1} \X {-1, 1, 3} \X BOOLEAN}

\* What is read agrees with the bytes.
Reads(s) ==
  \A n \in Names : LET b == Bytes(s, n) IN
    /\ r_buffer_get_size(s.h, s.buf[n]) = Len(b)
    /\ \A o \in 0 .. 3 : /\ r_buffer_extract(s.h, s.buf[n], o, 2) = Slice(b, o, Least(2, Len(b) - o))
                         /\ o < Len(b) => r_buffer_memcmp(s.h, s.buf[n], o, SubSeq(b, o + 1, Len(b))) = 0
                         /\ r_buffer_memcmp(s.h, s.buf[n], o, <<0>>) = IF o < Len(b) /\ b[o + 1] = 0 THEN 0 ELSE 1
    /\ r_buffer_cmp(s.h, s.buf[n], 0, s.buf[Other(n)], 0, 1).ret
         = IF Len(Bytes(s, Other(n))) < 1 THEN -42 ELSE IF b = <<>> THEN 1 ELSE r_memcmp(<<b[1]>>, <<Bytes(s, Other(n))[1]>>)

\* A chunk has one reference for every place it is in, for
\* every view into it, for the hand and for the mapping; none is used once freed.
RefsSound(s) ==
  /\ ~s.h.bad
  /\ \A id \in DOMAIN s.h.mem :
       s.h.mem[id].refs = Cardinality({<<n, i>> \in Names \X (1 .. R_BUFFER_MAX_MEM) : i <= Len(s.buf[n]) /\ s.buf[n][i] = id})
                          + Cardinality({v \in DOMAIN s.h.mem : s.h.mem[v].refs > 0 /\ s.h.mem[v].parent = id})
                          + (IF s.held = id THEN 1 ELSE 0) + (IF s.map = id THEN 1 ELSE 0)

BufSteps(s) ==
  Sizes(s, "x") \cup Splices(s, "x") \cup UNION {Extracts(s, n) \cup Chunks(s, n) \cup Hands(s, n) \cup Writes(s, n) : n \in Names}
=============================================================================
