-------------------------------- MODULE Str ---------------------------------
(***************************************************************************)
(* C strings (src/rlib/rstr.c).  A string is the sequence of its character *)
(* codes, without the NUL; NullStr is a NULL pointer.  A position is an    *)
(* index from 0 as in the code, -1 where the code answers -1 or NULL.  A   *)
(* size below 0 stands for "up to the NUL" as in the code.                 *)
(*                                                                         *)
(* The width of ruint64 is the constant Bits64, so that its wrap-around is *)
(* within TLC's integers.                                                  *)
(***************************************************************************)
EXTENDS Integers, Sequences, SequencesExt

CONSTANT Bits64

NullStr == <<-1>>
Spaces == {9, 10, 12, 13, 32}
r_ascii_isspace(c) == c \in Spaces
r_ascii_isdigit(c) == c \in 48..57
r_ascii_isupper(c) == c \in 65..90
r_ascii_islower(c) == c \in 97..122
r_ascii_isxdigit(c) == c \in 48..57 \cup 65..70 \cup 97..102
r_ascii_isprint(c) == c \in 32..126
r_ascii_digit_value(c) == IF r_ascii_isdigit(c) THEN c - 48 ELSE -128
r_ascii_xdigit_value(c) ==
  IF r_ascii_isdigit(c) THEN c - 48
  ELSE IF c \in 65..70 THEN c - 55 ELSE IF c \in 97..102 THEN c - 87 ELSE -128

Upper(c) == IF r_ascii_islower(c) THEN c - 32 ELSE c
Lower(c) == IF r_ascii_isupper(c) THEN c + 32 ELSE c
r_strlen(str) == IF str = NullStr THEN 0 ELSE Len(str)
Size(str, size) == IF size < 0 THEN r_strlen(str) ELSE size
MapFirst(Op(_), str, n) == [i \in DOMAIN str |-> IF i <= n THEN Op(str[i]) ELSE str[i]]
r_ascii_make_upper(str, len) == MapFirst(Upper, str, Size(str, len))
r_ascii_make_lower(str, len) == MapFirst(Lower, str, Size(str, len))

From(str, at) == SubSeq(str, at + 1, Len(str))
First(str, n) == SubSeq(str, 1, IF n < Len(str) THEN n ELSE Len(str))
At(str, i) == IF i < Len(str) THEN str[i + 1] ELSE 0
-----------------------------------------------------------------------------
\* Comparison: the sign of the first difference, NUL included.
Cmp(a, b) ==
  LET d == {i \in 0..Len(a) : At(a, i) # At(b, i)}
      f == CHOOSE i \in d : \A j \in d : i <= j
  IN  IF d = {} THEN 0 ELSE IF At(a, f) < At(b, f) THEN -1 ELSE 1
Fold(str) == MapFirst(Lower, str, Len(str))
NullCmp(a, b, Else) ==
  IF a = NullStr THEN IF b = NullStr THEN 0 ELSE -1 ELSE IF b = NullStr THEN 1 ELSE Else
r_strcmp(a, b) == NullCmp(a, b, Cmp(a, b))
r_strcasecmp(a, b) == NullCmp(a, b, Cmp(Fold(a), Fold(b)))
r_strncmp(a, b, len) == NullCmp(a, b, Cmp(First(a, len), First(b, len)))
r_strncasecmp(a, b, len) == NullCmp(a, b, Cmp(Fold(First(a, len)), Fold(First(b, len))))
r_strcmp_size(a, asize, b, bsize) ==
  NullCmp(a, b, IF Size(a, asize) # Size(b, bsize) THEN Size(a, asize) - Size(b, bsize)
                ELSE r_strncmp(a, b, Size(a, asize)))
r_strcasecmp_size(a, asize, b, bsize) ==
  NullCmp(a, b, IF Size(a, asize) # Size(b, bsize) THEN Size(a, asize) - Size(b, bsize)
                ELSE r_strncasecmp(a, b, Size(a, asize)))
r_str_has_prefix(str, prefix) ==
  str # NullStr /\ prefix # NullStr /\ r_strncmp(str, prefix, Len(prefix)) = 0
r_str_has_suffix(str, suffix) ==
  /\ str # NullStr /\ suffix # NullStr /\ Len(str) >= Len(suffix)
  /\ From(str, Len(str) - Len(suffix)) = suffix
-----------------------------------------------------------------------------
\* Search.
FirstAt(I) == IF I = {} THEN -1 ELSE CHOOSE i \in I : \A j \in I : i <= j
LastAt(I) == IF I = {} THEN -1 ELSE CHOOSE i \in I : \A j \in I : i >= j
r_strspn(str, set) ==
  IF str = NullStr THEN 0 ELSE IF set = NullStr THEN Len(str)
  ELSE FirstAt({i \in 0..Len(str) : i = Len(str) \/ str[i + 1] \notin Range(set)})
r_strcspn(str, cset) ==
  IF str = NullStr \/ cset = NullStr THEN 0
  ELSE FirstAt({i \in 0..Len(str) : i = Len(str) \/ str[i + 1] \in Range(cset)})
r_strchr(str, c) == IF str = NullStr THEN -1 ELSE FirstAt({i \in 0..Len(str) : At(str, i) = c})
r_strnchr(str, c, size) == IF str = NullStr THEN -1 ELSE FirstAt({i \in 0..size - 1 : At(str, i) = c})
r_strrchr(str, c) == IF str = NullStr THEN -1 ELSE LastAt({i \in 0..Len(str) : At(str, i) = c})
r_strnrchr(str, c, size) == IF str = NullStr THEN -1 ELSE LastAt({i \in 0..size - 1 : At(str, i) = c})
r_strstr(str, sub) ==
  IF str = NullStr \/ sub = NullStr THEN -1
  ELSE FirstAt({i \in 0..Len(str) : r_strncmp(From(str, i), sub, Len(sub)) = 0})
\* The library's own search (HAVE_STRNSTR unset): candidates are the places of
\* sub's first character, the first with too little left ends it.
r_strnstr(str, sub, size) ==
  LET c == {i \in 0..size - 1 : At(str, i) = At(sub, 0)}
      stop == {i \in c : size - i < Len(sub)}
      hit == {i \in c : r_strncmp(From(str, i), sub, Len(sub)) = 0}
  IN  IF sub = NullStr THEN -1
      ELSE FirstAt({i \in hit : \A j \in stop : i < j})
r_strpbrk(str, set) ==
  IF str = NullStr \/ set = NullStr THEN -1
  ELSE FirstAt({i \in 0..Len(str) - 1 : str[i + 1] \in Range(set)})
r_str_idx_of_c(str, strsize, c) ==
  IF str = NullStr \/ strsize = 0 THEN -1
  ELSE FirstAt({i \in 0..Size(str, strsize) - 1 : At(str, i) = c})
r_str_idx_of_c_any(str, strsize, c, chars) ==
  IF str = NullStr \/ strsize = 0 \/ c = NullStr \/ chars = 0 THEN -1
  ELSE IF chars = 1 THEN r_str_idx_of_c(str, strsize, c[1])
  ELSE FirstAt({i \in 0..Size(str, strsize) - 1 : r_str_idx_of_c(c, chars, At(str, i)) >= 0})
r_str_idx_of_c_case(str, strsize, c) ==
  IF r_ascii_islower(c) THEN r_str_idx_of_c_any(str, strsize, <<c, c - 32>>, 2)
  ELSE IF r_ascii_isupper(c) THEN r_str_idx_of_c_any(str, strsize, <<c, c + 32>>, 2)
  ELSE r_str_idx_of_c(str, strsize, c)
\* Both searches walk the places of sub's first character until one has too
\* little left; what follows it is compared up to sub's size.
RECURSIVE SubFrom(_, _, _, _, _, _, _)
SubFrom(Idx(_, _, _), NCmp(_, _, _), str, strsize, sub, subsize, ret) ==
  LET idx == Idx(From(str, ret), strsize - ret, sub[1])
      at == ret + idx
  IN  IF idx < 0 \/ strsize - at < subsize THEN -1
      ELSE IF NCmp(From(str, at + 1), From(sub, 1), subsize - 1) = 0 THEN at
      ELSE SubFrom(Idx, NCmp, str, strsize, sub, subsize, at + 1)
r_str_idx_of_str(str, strsize, sub, subsize) ==
  IF Size(sub, subsize) <= 0 THEN -1
  ELSE IF Size(sub, subsize) = 1 THEN r_str_idx_of_c(str, Size(str, strsize), sub[1])
  ELSE SubFrom(r_str_idx_of_c, r_strncmp, str, Size(str, strsize), sub, Size(sub, subsize), 0)
r_str_idx_of_str_case(str, strsize, sub, subsize) ==
  IF Size(sub, subsize) <= 0 THEN -1
  ELSE IF Size(sub, subsize) = 1 THEN r_str_idx_of_c_case(str, Size(str, strsize), sub[1])
  ELSE SubFrom(r_str_idx_of_c_case, r_strncasecmp, str, Size(str, strsize), sub, Size(sub, subsize), 0)
r_str_ptr_of_c(str, strsize, c) == r_str_idx_of_c(str, strsize, c)
r_str_ptr_of_c_any(str, strsize, c, chars) == r_str_idx_of_c_any(str, strsize, c, chars)
r_str_ptr_of_str(str, strsize, sub, subsize) == r_str_idx_of_str(str, strsize, sub, subsize)
r_str_ptr_of_str_case(str, strsize, sub, subsize) == r_str_idx_of_str_case(str, strsize, sub, subsize)
-----------------------------------------------------------------------------
\* Copies into an array dst of codes, NULs included.  src may be NULL.
Put(dst, at, bytes) == [i \in DOMAIN dst |-> IF i - at \in DOMAIN bytes THEN bytes[i - at] ELSE dst[i]]
CText(dst) == First(dst, FirstAt({i \in 0..Len(dst) : At(dst, i) = 0}))
Zeros(n) == [i \in 1..n |-> 0]
Padded(src, n) == First(src, n) \o Zeros(n - Len(First(src, n)))
r_strcpy(dst, src) == IF src = NullStr THEN dst ELSE Put(dst, 0, Append(src, 0))
r_strncpy(dst, src, len) == Put(dst, 0, IF src = NullStr THEN Zeros(len) ELSE Padded(src, len))
r_strcat(dst, src) == IF src = NullStr THEN dst ELSE Put(dst, Len(CText(dst)), Append(src, 0))
r_strncat(dst, src, len) ==
  IF src = NullStr THEN Put(dst, 0, Zeros(len)) ELSE Put(dst, Len(CText(dst)), Append(First(src, len), 0))
r_stpcpy(dst, src) == [dst |-> r_strcpy(dst, src), end |-> r_strlen(src)]
r_stpncpy(dst, src, len) == [dst |-> r_strncpy(dst, src, len), end |-> IF src = NullStr THEN 0 ELSE Len(First(src, len))]
r_strdup(str) == str
r_strndup(str, size) == IF str = NullStr THEN str ELSE First(str, IF r_strnchr(str, 0, size) >= 0 THEN r_strnchr(str, 0, size) ELSE size)
r_strdup_size(str, size) == IF size < 0 THEN r_strdup(str) ELSE r_strndup(str, size)
-----------------------------------------------------------------------------
\* Stripping.  chars is searched with strchr, which also finds the NUL: a
\* leading strip of a string of only such characters runs past its end.
LeadOf(str, set) == FirstAt({i \in 0..Len(str) : i = Len(str) \/ str[i + 1] \notin set})
KeepOf(str, set) == LastAt({n \in 0..Len(str) : n = 0 \/ str[n] \notin set})
PastEnd(str, chars) == Range(str) \subseteq Range(chars)
r_str_lwstrip(str) == IF str = NullStr THEN str ELSE From(str, LeadOf(str, Spaces))
r_str_twstrip(str) == IF str = NullStr THEN str ELSE First(str, KeepOf(str, Spaces))
r_str_wstrip(str) == r_str_twstrip(r_str_lwstrip(str))
r_strdup_wstrip(str) == r_str_twstrip(r_str_lwstrip(str))
r_str_lstrip(str, chars) == IF str = NullStr THEN str ELSE From(str, LeadOf(str, Range(chars)))
r_str_tstrip(str, chars) == IF str = NullStr THEN str ELSE First(str, KeepOf(str, Range(chars)))
r_str_strip(str, chars) == r_str_tstrip(r_str_lstrip(str, chars), chars)
r_strdup_strip(str, chars) == r_str_tstrip(r_str_lstrip(str, chars), chars)
-----------------------------------------------------------------------------
\* Numbers.  The answer is [res, val, end].
Wrap64 == 2^Bits64
Digit(c) == IF r_ascii_isdigit(c) THEN c - 48 ELSE IF r_ascii_islower(c) THEN c - 87
            ELSE IF r_ascii_isupper(c) THEN c - 55 ELSE 99
Prefix(str, p, base) ==
  LET x == At(str, p) = 48 /\ At(str, p + 1) \in {88, 120} /\ r_ascii_isxdigit(At(str, p + 2))
      o == At(str, p) = 48 /\ At(str, p + 1) \in 48..55
  IN  IF base \in {0, 16} /\ x THEN [base |-> 16, at |-> p + 2]
      ELSE IF base = 0 THEN IF o THEN [base |-> 8, at |-> p + 1] ELSE [base |-> 10, at |-> p]
      ELSE [base |-> base, at |-> p]
RECURSIVE Accumulate(_, _, _, _, _)
Accumulate(str, p, base, m, v) ==
  LET nv == (v * base + Digit(At(str, p))) % Wrap64
  IN  IF p >= Len(str) \/ Digit(At(str, p)) >= base THEN [res |-> "OK", val |-> v, end |-> p]
      ELSE IF nv <= m /\ nv >= v THEN Accumulate(str, p + 1, base, m, nv)
      ELSE [res |-> "RANGE", val |-> m, end |-> p + 1]
Parsed(str, base, signed, m) ==
  LET p0 == LeadOf(str, Spaces)
      neg == signed /\ At(str, p0) = 45
      p1 == IF neg \/ (signed /\ At(str, p0) = 43) THEN p0 + 1 ELSE p0
      b == Prefix(str, p1, base)
      r == Accumulate(str, b.at, b.base, IF neg THEN m + 1 ELSE m, 0)
  IN  IF str = NullStr \/ str = <<>> \/ base = 1 \/ base > 36 THEN [res |-> "INVAL", val |-> 0, end |-> 0]
      ELSE IF p0 = Len(str) THEN [res |-> "INVAL", val |-> 0, end |-> p0]
      ELSE IF r.end = b.at THEN [res |-> "INVAL", val |-> 0, end |-> r.end]
      ELSE [r EXCEPT !.val = IF neg THEN -r.val ELSE r.val]
r_str_to_int_parse(str, base, bits) == Parsed(str, base, TRUE, 2^(bits - 1) - 1)
r_str_to_uint_parse(str, base, bits) == Parsed(str, base, FALSE, 2^bits - 1)
r_str_to_int8(str, base) == r_str_to_int_parse(str, base, Bits64 \div 8)
r_str_to_uint8(str, base) == r_str_to_uint_parse(str, base, Bits64 \div 8)
r_str_to_int16(str, base) == r_str_to_int_parse(str, base, Bits64 \div 4)
r_str_to_uint16(str, base) == r_str_to_uint_parse(str, base, Bits64 \div 4)
r_str_to_int32(str, base) == r_str_to_int_parse(str, base, Bits64 \div 2)
r_str_to_uint32(str, base) == r_str_to_uint_parse(str, base, Bits64 \div 2)
r_str_to_int64(str, base) == r_str_to_int_parse(str, base, Bits64)
r_str_to_uint64(str, base) == r_str_to_uint_parse(str, base, Bits64)
R_STR_TO_NUM_MAX == 47
r_str_num_copy(str, size) == r_strndup(str, IF size > R_STR_TO_NUM_MAX THEN R_STR_TO_NUM_MAX ELSE size)
R_STR_DEFINE_TO_INT_SIZE(To(_, _), str, size, base) ==
  IF str = NullStr \/ size <= 0 THEN [res |-> "INVAL", val |-> 0, end |-> 0] ELSE To(r_str_num_copy(str, size), base)
-----------------------------------------------------------------------------
\* Vectors: the arguments up to the first NULL.
r_str_list_newv(args) == First(args, FirstAt({i \in 0..Len(args) : i = Len(args) \/ args[i + 1] = NullStr}))
r_strv_newv(args) == r_str_list_newv(args)
r_strv_copy(strv) == [i \in DOMAIN strv |-> r_strdup(strv[i])]
r_strv_contains(strv, str) == \E i \in DOMAIN strv : r_strcmp(strv[i], str) = 0
Joined(strv, delim) ==
  LET f[i \in 0..Len(strv)] ==
        IF i = 0 THEN <<>> ELSE IF i = 1 THEN strv[1] ELSE f[i - 1] \o delim \o strv[i]
  IN  f[Len(strv)]
r_strv_join(strv, delim) == Joined(strv, delim)
r_strjoinv(delim, args) == IF delim = NullStr THEN NullStr ELSE Joined(r_strv_newv(args), delim)
r_strnjoinv(size, delim, args) ==
  IF size = 0 \/ delim = NullStr \/ Len(Joined(r_strv_newv(args), delim)) >= size THEN NullStr
  ELSE Joined(r_strv_newv(args), delim)
RECURSIVE Pieces(_, _, _)
Pieces(str, delim, count) ==
  LET at == r_strstr(str, delim)
  IN  IF count = 1 \/ at = -1 THEN <<r_strdup(str)>>
      ELSE <<r_strndup(str, at)>> \o Pieces(From(str, at + Len(delim)), delim, count - 1)
r_strsplit(str, delim, max) ==
  IF str = NullStr \/ delim \in {NullStr, <<>>} \/ max = 0 THEN <<NullStr>> ELSE Pieces(str, delim, max)
-----------------------------------------------------------------------------
\* Chunks [at, size] of a text; at is -1 for a chunk not yet set.
ChunkText(text, c) == SubSeq(text, c.at + 1, c.at + c.size)
r_str_chunk_cmp(chunk, str, size) ==
  IF Size(str, size) # Len(chunk) THEN IF Size(str, size) < Len(chunk) THEN -1 ELSE 1
  ELSE Cmp(chunk, First(str, Size(str, size)))
r_str_chunk_casecmp(chunk, str, size) ==
  IF Size(str, size) # Len(chunk) THEN IF Size(str, size) < Len(chunk) THEN -1 ELSE 1
  ELSE r_strncasecmp(chunk, str, Size(str, size))
r_str_chunk_has_prefix(chunk, str, size) ==
  Size(str, size) <= Len(chunk) /\ First(chunk, Size(str, size)) = First(str, Size(str, size))
r_str_chunk_lwstrip(text, c) ==
  LET n == LeadOf(ChunkText(text, c), Spaces) IN [at |-> c.at + n, size |-> c.size - n]
r_str_chunk_wstrip(text, c) ==
  LET l == r_str_chunk_lwstrip(text, c) IN [l EXCEPT !.size = KeepOf(ChunkText(text, l), Spaces \cup {0})]
r_str_chunk_next_line(text, line) ==
  LET at == line.at + line.size
      c == r_str_chunk_wstrip(text, IF line.at = -1 THEN [at |-> 0, size |-> Len(text)]
                                    ELSE [at |-> at, size |-> Len(text) - at])
      max == Len(text) - c.at
      nl == r_str_idx_of_c(From(text, c.at), max, 10)
      n == KeepOf(SubSeq(text, c.at + 1, c.at + (IF nl >= 0 THEN nl ELSE max)), Spaces)
  IN  IF text = <<>> THEN [res |-> "INVAL", line |-> line]
      ELSE IF line.at # -1 /\ at >= Len(text) THEN [res |-> "RANGE", line |-> [line EXCEPT !.at = at]]
      ELSE [res |-> IF n > 0 THEN "OK" ELSE "RANGE", line |-> [at |-> c.at, size |-> n]]
\* Up to n pieces; only one character of a delimiter found is consumed.
RECURSIVE r_str_chunk_splitv(_, _, _)
r_str_chunk_splitv(chunk, delim, n) ==
  LET s == r_str_idx_of_str(chunk, Len(chunk), delim, -1)
  IN  IF chunk = <<>> \/ n = 0 THEN [pieces |-> <<>>, rest |-> chunk]
      ELSE IF s < 0 THEN [pieces |-> <<chunk>>, rest |-> <<>>]
      ELSE LET r == r_str_chunk_splitv(From(chunk, s + 1), delim, n - 1)
           IN  [r EXCEPT !.pieces = <<First(chunk, s)>> \o r.pieces]
-----------------------------------------------------------------------------
\* Key and value, as chunks of str.
NextPrint(str, at) == at + LeadOf(From(str, at), Spaces)
r_str_kv_parse(str, size, delim) ==
  LET p == r_str_ptr_of_str(str, size, delim, Len(delim))
      k == NextPrint(str, 0)
      v == NextPrint(str, p + Len(delim))
  IN  IF str = NullStr \/ delim = NullStr THEN [res |-> "INVAL"]
      ELSE IF p = -1 THEN [res |-> "RANGE"]
      ELSE [res |-> "OK", key |-> [at |-> k, size |-> p - k],
            val |-> [at |-> v, size |-> Size(str, size) - v], end |-> Size(str, size)]
\* The value starts the pair delimiter's length after the key's delimiter.
r_str_kv_parse_multiple(str, size, kvdelim, kvdsize, delim, dsize) ==
  LET n == Size(str, size)
      ds == Size(delim, dsize)
      p == r_str_ptr_of_str(str, n, kvdelim, Size(kvdelim, kvdsize))
      k == NextPrint(str, 0)
      v == NextPrint(str, p + ds)
      e == r_str_ptr_of_str(From(str, v), n - v, delim, ds)
  IN  IF NullStr \in {str, kvdelim, delim} THEN [res |-> "INVAL"]
      ELSE IF p = -1 THEN [res |-> "RANGE"]
      ELSE [res |-> "OK", key |-> [at |-> k, size |-> p - k],
            val |-> [at |-> v, size |-> IF e >= 0 THEN e ELSE n - v],
            end |-> IF e >= 0 THEN v + e + ds ELSE n]
IsPart(text, c, want, size) ==
  Size(want, size) = c.size /\ r_strncmp(From(text, c.at), want, Size(want, size)) = 0
r_str_kv_is_key(text, kv, key, size) == key # NullStr /\ IsPart(text, kv.key, key, size)
r_str_kv_is_value(text, kv, val, size) == val # NullStr /\ IsPart(text, kv.val, val, size)
-----------------------------------------------------------------------------
\* Hexadecimal text and memory dumps.
Hex(b) == LET h(n) == IF n < 10 THEN 48 + n ELSE 87 + n IN <<h(b \div 16), h(b % 16)>>
r_str_mem_hex(bytes) == IF bytes = <<>> THEN NullStr ELSE FlattenSeq([i \in DOMAIN bytes |-> Hex(bytes[i])])
r_str_mem_hex_full(bytes, divider, interval) ==
  IF interval = 0 \/ r_strlen(divider) = 0 THEN r_str_mem_hex(bytes)
  ELSE IF bytes = <<>> THEN NullStr
  ELSE FlattenSeq([i \in DOMAIN bytes |->
         (IF i > 1 /\ (i - 1) % interval = 0 THEN divider ELSE <<>>) \o Hex(bytes[i])])
RECURSIVE HexPairs(_, _)
HexPairs(hex, size) ==
  IF hex = <<>> \/ r_ascii_isspace(At(hex, 0)) THEN [ok |-> TRUE, bin |-> <<>>]
  ELSE IF size = 0 \/ ~r_ascii_isxdigit(hex[1]) \/ ~r_ascii_isxdigit(At(hex, 1)) THEN [ok |-> FALSE, bin |-> <<>>]
  ELSE LET r == HexPairs(From(hex, 2), size - 1)
       IN  [r EXCEPT !.bin = <<16 * r_ascii_xdigit_value(hex[1]) + r_ascii_xdigit_value(hex[2])>> \o r.bin]
r_str_hex_to_binary(hex, size) ==
  LET h == r_str_lwstrip(hex)
      r == HexPairs(IF At(h, 0) = 48 /\ At(h, 1) \in {88, 120} THEN From(h, 2) ELSE h, size)
  IN  IF hex = NullStr \/ size = 0 \/ ~r.ok THEN <<>> ELSE r.bin
r_str_hex_mem(hex) == IF r_strlen(hex) < 2 THEN <<>> ELSE r_str_hex_to_binary(hex, Len(hex) \div 2)

PtrChars == 18  \* "%16p: "
R_STR_MEM_DUMP_SIZE(align) == align * 4 + align \div 4 + 16 + 8
\* Characters written for size bytes, align a row, without the NUL.
r_str_mem_dump(size, align) ==
  LET row(n, more) == PtrChars + 3 * n + 3 * (align - n) + 1 + 1 + n + (n - 1) \div 8
                      + (align - n) + (align - n) \div 8 + 1 + (IF more THEN 1 ELSE 0)
      f[n \in 0..size] == IF n = 0 THEN 0 ELSE IF n > align THEN row(align, TRUE) + f[n - align] ELSE row(n, FALSE)
  IN  f[size]
r_str_mem_dump_dup(size, align) ==
  [alloc |-> R_STR_MEM_DUMP_SIZE(align) * (size \div align + 1), used |-> r_str_mem_dump(size, align) + 1]

-----------------------------------------------------------------------------
(* Base64 text (src/rlib/rbase64.c).  Data is a sequence of octets, text a *)
(* sequence of character codes.                                            *)
base64_enc_table(v) ==
  IF v < 26 THEN 65 + v ELSE IF v < 52 THEN 71 + v ELSE IF v < 62 THEN v - 4 ELSE IF v = 62 THEN 43 ELSE 47
Invalid == 255
Space == 111
base64_dec_table(ch) ==
  IF ch \in {9, 10, 12, 13, 32} THEN Space
  ELSE IF ch \in 65..90 THEN ch - 65 ELSE IF ch \in 97..122 THEN ch - 71 ELSE IF ch \in 48..57 THEN ch + 4
  ELSE IF ch = 43 THEN 62 ELSE IF ch = 47 THEN 63 ELSE Invalid
r_base64_is_valid_char(ch) == base64_dec_table(ch) < 64

\* Four characters for three octets, '=' for the ones that are not there.
Quad(o) ==
  LET at(i) == IF i <= Len(o) THEN o[i] ELSE 0
      six == <<at(1) \div 4, (at(1) % 4) * 16 + at(2) \div 16, (at(2) % 16) * 4 + at(3) \div 64, at(3) % 64>>
  IN  [i \in 1..4 |-> IF i <= Len(o) + 1 THEN base64_enc_table(six[i]) ELSE 61]
Triple(s, n) ==
  SubSeq(<<s[1] * 4 + s[2] \div 16, (s[2] % 16) * 16 + s[3] \div 4, (s[3] % 4) * 64 + s[4]>>, 1, n)
Group(data, i) == SubSeq(data, 3 * i - 2, IF 3 * i < Len(data) THEN 3 * i ELSE Len(data))
Groups(data) == (Len(data) + 2) \div 3

\* Mutant of r_base64_encode: an unfinished group at the end is left out.
base64_encode_thirds(dsize, data) ==
  LET n == IF Len(data) \div 3 < dsize \div 4 THEN Len(data) \div 3 ELSE dsize \div 4
  IN  FlattenSeq([i \in 1..n |-> Quad(Group(data, i))])
\* Only whole quads are written: as many as dsize holds, then nothing of the tail.
r_base64_encode(dsize, data) ==
  LET n == IF Groups(data) < dsize \div 4 THEN Groups(data) ELSE dsize \div 4
  IN  FlattenSeq([i \in 1..n |-> Quad(Group(data, i))])
r_base64_encode_dup(data) ==
  LET s == Groups(data) * 4 + 1
      ret == r_base64_encode(s, data)
  IN  IF data = <<>> \/ Len(ret) # s - 1 THEN [alloc |-> 0, text |-> <<>>] ELSE [alloc |-> s, text |-> ret]
\* A line ends with the first quad that reaches linesize, if more than that
\* quad's octets are left.
r_base64_encode_dup_full(data, linesize) ==
  LET line == 4 * ((linesize + 3) \div 4)
      s == Groups(data) * 4
      ends(i) == (4 * i) % line = 0 /\ 3 * i < Len(data)
  IN  IF linesize = 0 THEN r_base64_encode_dup(data)
      ELSE IF data = <<>> THEN [alloc |-> 0, text |-> <<>>]
      ELSE [alloc |-> s + s \div line + 1,
            text |-> FlattenSeq([i \in 1..Groups(data) |-> Quad(Group(data, i)) \o (IF ends(i) THEN <<10>> ELSE <<>>)])]

\* Characters up to the first that is neither a digit nor a space ('=' is
\* none), four to three octets while there is room; two or three that are left
\* make one or two octets, as many as fit.
r_base64_decode(dsize, text) ==
  LET stops == {i \in DOMAIN text : base64_dec_table(text[i]) = Invalid}
      read == SelectSeq(SubSeq(text, 1, IF stops = {} THEN Len(text) ELSE Min(stops) - 1), r_base64_is_valid_char)
      six == [i \in DOMAIN read |-> base64_dec_table(read[i])]
      quads == Len(six) \div 4
      n == Min({quads, dsize \div 3})
      rest == SubSeq(six, 4 * quads + 1, Len(six))
      left == IF n < quads \/ Len(rest) < 2 THEN 0 ELSE Min({Len(rest) - 1, dsize - 3 * n})
  IN  FlattenSeq([i \in 1..n |-> Triple(SubSeq(six, 4 * i - 3, 4 * i), 3)]) \o Triple(rest \o <<0, 0, 0, 0>>, left)
r_base64_decode_dup(text) ==
  LET dsize == (Len(text) \div 4 + 1) * 3
  IN  IF text = <<>> THEN [alloc |-> 0, data |-> <<>>] ELSE [alloc |-> dsize, data |-> r_base64_decode(dsize, text)]
=============================================================================
