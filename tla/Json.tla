-------------------------------- MODULE Json --------------------------------
(***************************************************************************)
(* Conversions between UTF-8, UTF-16 and UTF-32                            *)
(* (src/rlib/charset/runicode.c).  Text is a sequence of code units.  A    *)
(* conversion answers [res, dst, end]: end is the offset *srcendptr        *)
(* receives, -1 where it is not set.  The destination holds dstsize units, *)
(* the closing 0 included.                                                 *)
(***************************************************************************)
EXTENDS Integers, Sequences, SequencesExt

BOM == 65279
BOM_SWAP == 65534
Surrogate(uc) == uc \in 55296..57343
High(u) == u \in 55296..56319
Low(u) == u \in 56320..57343
Refused(res) == [res |-> res, dst |-> <<>>, end |-> -1]
OK == "OK"
INVALID == "INVALID_CODE_POINT"
INCOMPLETE == "INCOMPLETE_CODE_POINT"

\* One code point as UTF-8; <<>> for -1, whatever the room.
Cont(c, k) == 128 + ((c \div 64^k) % 64)
r_unichar_to_utf8(c) ==
  IF c < 128 THEN <<c>> ELSE IF c < 2048 THEN <<192 + c \div 64, Cont(c, 0)>>
  ELSE IF c < 65536 THEN <<224 + c \div 4096, Cont(c, 1), Cont(c, 0)>>
  ELSE IF c < 1114112 THEN <<240 + c \div 262144, Cont(c, 2), Cont(c, 1), Cont(c, 0)>> ELSE <<>>
\* [n, uc] of the octets from offset i: n < 0 is a failure, -2 an overlong form.
r_utf8_to_unichar(src, i) ==
  LET lead == src[i + 1]
      n == IF lead < 128 THEN 1 ELSE IF lead \div 32 = 6 THEN 2 ELSE IF lead \div 16 = 14 THEN 3 ELSE IF lead \div 8 = 30 THEN 4 ELSE 0
      tail(k) == src[i + 1 + k]
      whole == i + n <= Len(src) /\ \A k \in 1..n - 1 : tail(k) \div 64 = 2
      bits(k) == tail(k) % 64
      uc == CASE n = 1 -> lead [] n = 2 -> (lead % 32) * 64 + bits(1) [] n = 3 -> (lead % 16) * 4096 + bits(1) * 64 + bits(2)
              [] n = 4 -> (lead % 8) * 262144 + bits(1) * 4096 + bits(2) * 64 + bits(3)
      least == <<0, 128, 2048, 65536>>
  IN  IF i >= Len(src) THEN [n |-> 0, uc |-> 0]
      ELSE IF n = 0 \/ ~whole THEN [n |-> -1, uc |-> 0] ELSE IF uc < least[n] THEN [n |-> -2, uc |-> uc] ELSE [n |-> n, uc |-> uc]

\* The code point at offset i and the units it takes: [res, uc, n].
Step(res, uc, n) == [res |-> res, uc |-> uc, n |-> n]
Utf8At(src, i, surrogates) ==
  LET r == r_utf8_to_unichar(src, i)
  IN  IF r.n = -1 THEN Step(INCOMPLETE, 0, 0) ELSE IF r.n = -2 THEN Step(INVALID, 0, 0)
      ELSE IF (Surrogate(r.uc) /\ ~surrogates) \/ r.uc >= 1114112 THEN Step(INVALID, 0, 0) ELSE Step(OK, r.uc, r.n)
Pair(h, l) == 65536 + (h - 55296) * 1024 + (l - 56320)
Utf16At(src, i, surrogates) ==
  LET u == src[i + 1]
      paired == i + 2 <= Len(src) /\ Low(src[i + 2])
  IN  IF ~Surrogate(u) THEN Step(OK, u, 1) ELSE IF High(u) /\ paired THEN Step(OK, Pair(u, src[i + 2]), 2)
      ELSE IF surrogates THEN Step(OK, u, 1) ELSE IF High(u) THEN Step(INCOMPLETE, 0, 0) ELSE Step(INVALID, 0, 0)
Utf32At(src, i) == IF src[i + 1] >= 1114112 \/ Surrogate(src[i + 1]) THEN Step(INVALID, 0, 0) ELSE Step(OK, src[i + 1], 1)
Utf16Of(uc) ==
  IF uc < 65536 THEN <<uc>> ELSE <<55296 + (uc - 65536) \div 1024, 56320 + ((uc - 65536) % 1024)>>
Itself(uc) == <<uc>>
\* Where *srcendptr is when a code point of n units at i did not fit: the
\* loops advance before the test, after it, or for the pair's second unit only.
Before(i, n) == i
After(i, n) == i + n
AtLow(i, n) == i + n - 1

\* From offset start to the end or the first 0; room units of output.
Scan(src, start, room, Read(_), Enc(_), Stop(_, _)) ==
  LET step(s) ==
        LET r == Read(s.end)
            e == Enc(r.uc)
        IN  IF s.res # "GO" THEN s
            ELSE IF s.end >= Len(src) THEN [s EXCEPT !.res = OK]
            ELSE IF src[s.end + 1] = 0 THEN [s EXCEPT !.res = OK]
            ELSE IF r.res # OK THEN [s EXCEPT !.res = r.res]
            ELSE IF Len(s.dst) + Len(e) > room THEN [s EXCEPT !.res = "OVERFLOW", !.end = Stop(@, r.n)]
            ELSE [s EXCEPT !.dst = @ \o e, !.end = @ + r.n]
      st[k \in 0..Len(src) + 1] == IF k = 0 THEN [res |-> "GO", dst |-> <<>>, end |-> start] ELSE step(st[k - 1])
  IN  st[Len(src) + 1]
Convert(src, dstsize, start, Read(_), Enc(_), Stop(_, _)) ==
  IF dstsize = 0 THEN Refused("INVAL") ELSE IF dstsize = 1 THEN Refused("OVERFLOW")
  ELSE Scan(src, start, dstsize - 1, Read, Enc, Stop)
Utf8Start(src) == IF Len(src) >= 3 /\ SubSeq(src, 1, 3) = <<239, 187, 191>> THEN 3 ELSE 0
UnitStart(src) == IF Len(src) > 0 /\ src[1] = BOM THEN 1 ELSE 0
\* The byte order mark of the other order is refused, after the sizes.
From16(src, dstsize, Enc(_), Stop(_, _), surrogates) ==
  IF dstsize > 1 /\ Len(src) > 0 /\ src[1] = BOM_SWAP THEN Refused("INVAL")
  ELSE Convert(src, dstsize, UnitStart(src), LAMBDA i : Utf16At(src, i, surrogates), Enc, Stop)

r_utf8_to_utf16(dstsize, src) == Convert(src, dstsize, Utf8Start(src), LAMBDA i : Utf8At(src, i, FALSE), Utf16Of, Before)
r_utf16_to_utf8(dstsize, src) == From16(src, dstsize, r_unichar_to_utf8, AtLow, FALSE)
r_utf8_to_utf32(dstsize, src) == Convert(src, dstsize, Utf8Start(src), LAMBDA i : Utf8At(src, i, FALSE), Itself, Before)
r_utf32_to_utf8(dstsize, src) == Convert(src, dstsize, UnitStart(src), LAMBDA i : Utf32At(src, i), r_unichar_to_utf8, Before)
r_utf16_to_utf32(dstsize, src) == From16(src, dstsize, Itself, After, FALSE)
r_utf32_to_utf16(dstsize, src) == Convert(src, dstsize, UnitStart(src), LAMBDA i : Utf32At(src, i), Utf16Of, Before)
r_utf16_to_wtf8(dstsize, src) == From16(src, dstsize, r_unichar_to_utf8, AtLow, TRUE)
r_wtf8_to_utf16(dstsize, src) == Convert(src, dstsize, Utf8Start(src), LAMBDA i : Utf8At(src, i, TRUE), Utf16Of, Before)

\* The allocating forms: a buffer for the worst case; on failure no text.
Dup(src, r, empty) == IF empty /\ src = <<>> THEN Refused("INVAL") ELSE IF r.res = OK THEN r ELSE [r EXCEPT !.dst = <<>>]
r_utf8_to_utf16_dup(src) == Dup(src, r_utf8_to_utf16(Len(src) + 1, src), FALSE)
r_utf16_to_utf8_dup(src) == Dup(src, r_utf16_to_utf8((Len(src) + 1) * 4, src), TRUE)
r_utf8_to_utf32_dup(src) == Dup(src, r_utf8_to_utf32(Len(src) + 1, src), FALSE)
r_utf32_to_utf8_dup(src) == Dup(src, r_utf32_to_utf8(Len(src) * 4 + 1, src), TRUE)
r_utf16_to_utf32_dup(src) == Dup(src, r_utf16_to_utf32(Len(src) + 1, src), TRUE)
r_utf32_to_utf16_dup(src) == Dup(src, r_utf32_to_utf16(Len(src) * 2 + 1, src), TRUE)
r_utf16_to_wtf8_dup(src) == Dup(src, r_utf16_to_wtf8(Len(src) * 3 + 1, src), TRUE)
r_wtf8_to_utf16_dup(src) == Dup(src, r_wtf8_to_utf16(Len(src) + 1, src), FALSE)
-----------------------------------------------------------------------------
\* The same scans without output: [res, end], and how many code points.
Checked(src, start, Read(_)) == Scan(src, start, Len(src), Read, Itself, Before)
r_utf8_validate(src) == LET r == Checked(src, Utf8Start(src), LAMBDA i : Utf8At(src, i, FALSE)) IN [res |-> r.res, end |-> r.end]
r_utf16_validate(src) ==
  LET r == Checked(src, UnitStart(src), LAMBDA i : Utf16At(src, i, FALSE))
  IN  IF Len(src) > 0 /\ src[1] = BOM_SWAP THEN [res |-> "INVAL", end |-> -1] ELSE [res |-> r.res, end |-> r.end]
r_utf32_validate(src) == LET r == Checked(src, UnitStart(src), LAMBDA i : Utf32At(src, i)) IN [res |-> r.res, end |-> r.end]
r_utf8_strlen_codepoints(src) == LET r == Checked(src, 0, LAMBDA i : Utf8At(src, i, FALSE)) IN [res |-> r.res, count |-> Len(r.dst)]
r_utf16_strlen_codepoints(src) == LET r == Checked(src, 0, LAMBDA i : Utf16At(src, i, FALSE)) IN [res |-> r.res, count |-> Len(r.dst)]
\* As many code points as n; too few are an overflow.
r_utf8_advance(src, n) ==
  LET r == Scan(src, 0, n, LAMBDA i : Utf8At(src, i, FALSE), Itself, Before)
  IN  [res |-> IF Len(r.dst) = n THEN OK ELSE IF r.res = OK THEN "OVERFLOW" ELSE r.res, end |-> r.end]

\* One code point.
r_utf8_decode_codepoint(src) ==
  LET r == Utf8At(src, 0, FALSE) IN IF src = <<>> THEN Step("INVAL", 0, 0) ELSE r
r_utf8_encode_codepoint(uc, size) ==
  IF size = 0 THEN Refused("INVAL") ELSE IF Surrogate(uc) \/ uc >= 1114112 THEN Refused(INVALID)
  ELSE IF Len(r_unichar_to_utf8(uc)) > size THEN Refused("OVERFLOW") ELSE [Refused(OK) EXCEPT !.dst = r_unichar_to_utf8(uc)]
\* Unlike the scans: a high surrogate before anything but a low one is invalid.
r_utf16_decode_codepoint(src) ==
  IF src = <<>> THEN Step("INVAL", 0, 0)
  ELSE IF High(src[1]) /\ Len(src) >= 2 /\ ~Low(src[2]) THEN Step(INVALID, 0, 0) ELSE Utf16At(SubSeq(src, 1, IF Len(src) < 2 THEN 1 ELSE 2), 0, FALSE)
r_utf16_encode_codepoint(uc, size) ==
  IF size = 0 THEN Refused("INVAL") ELSE IF Surrogate(uc) \/ uc >= 1114112 THEN Refused(INVALID)
  ELSE IF Len(Utf16Of(uc)) > size THEN Refused("OVERFLOW") ELSE [Refused(OK) EXCEPT !.dst = Utf16Of(uc)]
-----------------------------------------------------------------------------
\* Octets in a given order; offsets count octets, and there is no mark.
r_load_utf16_be(o, i) == o[i + 1] * 256 + o[i + 2]
r_load_utf16_le(o, i) == o[i + 2] * 256 + o[i + 1]
\* A first octet above 0 is no code point: it is read as one past the last.
r_load_utf32_be(o, i) == IF o[i + 1] > 0 THEN 1114112 ELSE o[i + 2] * 65536 + o[i + 3] * 256 + o[i + 4]
r_load_utf32_le(o, i) == IF o[i + 4] > 0 THEN 1114112 ELSE o[i + 3] * 65536 + o[i + 2] * 256 + o[i + 1]
Units(o, w, Load(_, _)) == [k \in 1..Len(o) \div w |-> Load(o, (k - 1) * w)]
InOctets(r, w) == IF r.end = -1 THEN r ELSE [r EXCEPT !.end = @ * w]
r_utf16_wire_to_utf8(dstsize, o, Load(_, _)) ==
  LET u == Units(o, 2, Load)
  IN  IF dstsize = 0 \/ Len(o) % 2 # 0 THEN Refused("INVAL")
      ELSE InOctets(Convert(u, dstsize, 0, LAMBDA i : Utf16At(u, i, FALSE), r_unichar_to_utf8, After), 2)
r_utf32_wire_to_utf8(dstsize, o, Load(_, _)) ==
  LET u == Units(o, 4, Load)
  IN  IF dstsize = 0 \/ Len(o) % 4 # 0 THEN Refused("INVAL")
      ELSE InOctets(Convert(u, dstsize, 0, LAMBDA i : Utf32At(u, i), r_unichar_to_utf8, Before), 4)
r_utf16be_to_utf8(dstsize, o) == r_utf16_wire_to_utf8(dstsize, o, r_load_utf16_be)
r_utf16le_to_utf8(dstsize, o) == r_utf16_wire_to_utf8(dstsize, o, r_load_utf16_le)
r_utf32be_to_utf8(dstsize, o) == r_utf32_wire_to_utf8(dstsize, o, r_load_utf32_be)
r_utf32le_to_utf8(dstsize, o) == r_utf32_wire_to_utf8(dstsize, o, r_load_utf32_le)
r_utfXX_to_utf8_dup_common(o, w, worst, Conv(_, _)) ==
  IF o = <<>> \/ Len(o) % w # 0 THEN Refused("INVAL") ELSE Dup(o, Conv((Len(o) \div w) * worst + 1, o), FALSE)
r_utf16be_to_utf8_dup(o) == r_utfXX_to_utf8_dup_common(o, 2, 3, r_utf16be_to_utf8)
r_utf16le_to_utf8_dup(o) == r_utfXX_to_utf8_dup_common(o, 2, 3, r_utf16le_to_utf8)
r_utf32be_to_utf8_dup(o) == r_utfXX_to_utf8_dup_common(o, 4, 4, r_utf32be_to_utf8)
r_utf32le_to_utf8_dup(o) == r_utfXX_to_utf8_dup_common(o, 4, 4, r_utf32le_to_utf8)

-----------------------------------------------------------------------------
(***************************************************************************)
(* The JSON reader, writer and value tree (src/rlib/format/rjsonparser.c,  *)
(* rjson.c).  Text is a sequence of octets that a NUL follows; a scan      *)
(* context is [type, at], at the offset of its first octet, for its size   *)
(* always reaches to the end of the text.  A value is <<type, v>>; a result*)
(* is [res, v, end], end the offset *endptr receives (-1: none).           *)
(*                                                                         *)
(* "ABORT" is a failed r_assert, "CRASH" a call of the NULL function.      *)
(* A double is whatever ToDouble makes of a numeral, Printed writes it.    *)
(***************************************************************************)
CONSTANTS ToDouble(_),  \* r_str_to_double_size: [ok, v]
          Printed(_)    \* the numeral of a double, %ld or %f

QUOTE == 34
BACKSLASH == 92
Null == <<"NONE", 0>>
R(res, v, end) == [res |-> res, v |-> v, end |-> end]
Err(res) == R(res, Null, -1)
At(text, i) == IF i < Len(text) THEN text[i + 1] ELSE 0
Part(text, from, to) == SubSeq(text, from + 1, to)
IsSpace(c) == c \in {9, 10, 12, 13, 32}
IsDigit(c) == c \in 48..57
\* The first offset from i on whose octet is not in the class.
Past(text, i, Class(_)) ==
  CHOOSE j \in i..Len(text) : (j = Len(text) \/ ~Class(text[j + 1])) /\ \A k \in i + 1..j : Class(text[k])
r_json_scan_ctx_scan_whitespace(text, i) == Past(text, i, IsSpace)

XDigit(c) == IF IsDigit(c) THEN c - 48 ELSE IF c \in 65..70 THEN c - 55 ELSE IF c \in 97..102 THEN c - 87 ELSE -1
HexOf(n) == IF n < 10 THEN 48 + n ELSE 87 + n
Hex4(n) == <<HexOf(n \div 4096), HexOf((n \div 256) % 16), HexOf((n \div 16) % 16), HexOf(n % 16)>>
Short == <<<<QUOTE, QUOTE>>, <<BACKSLASH, BACKSLASH>>, <<98, 8>>, <<102, 12>>, <<110, 10>>, <<114, 13>>, <<116, 9>>>>
-----------------------------------------------------------------------------
\* An escape the switch does not know stays as it is, backslash included.
r_json_str_unescape(src) ==
  LET n == Len(src)
      code(i) == LET x(k) == XDigit(At(src, i + 2 + k)) IN x(0) * 4096 + x(1) * 256 + x(2) * 16 + x(3)
      hex(i) == i + 6 <= n /\ \A k \in 2..5 : XDigit(At(src, i + k)) >= 0
      short(i) == {p \in Range(Short) \cup {<<47, 47>>} : p[1] = At(src, i + 1)}
      f[i \in 0..n + 1] ==
        IF i >= n THEN R("OK", <<>>, i)
        ELSE IF src[i + 1] # BACKSLASH THEN LET r == f[i + 1] IN [r EXCEPT !.v = <<src[i + 1]>> \o @]
        ELSE IF short(i) # {} THEN LET r == f[i + 2] IN [r EXCEPT !.v = <<(CHOOSE p \in short(i) : TRUE)[2]>> \o @]
        ELSE IF At(src, i + 1) # 117 THEN LET r == f[i + 1] IN [r EXCEPT !.v = <<BACKSLASH>> \o @]
        ELSE LET u == r_utf16_to_utf8(6, <<code(i)>>)
                 r == f[i + 6]
             IN  IF ~hex(i) THEN R("FAILED_TO_UNESCAPE_STRING", <<>>, i)
                 ELSE IF u.res # "OK" THEN R("FAILED_TO_UNESCAPE_STRING", <<>>, i)
                 ELSE [r EXCEPT !.v = u.dst \o @]
  IN  f[0]

\* Ends at a NUL; what is not UTF-8 ends it too, with what was written so far.
r_json_str_escape(src) ==
  LET n == CHOOSE j \in 0..Len(src) : At(src, j) = 0 /\ \A k \in 1..j : src[k] # 0
      short(c) == {p \in Range(Short) : p[2] = c}
      wide(i) == Past(Part(src, 0, n), i, LAMBDA c : c >= 128)
      f[i \in 0..n] ==
        LET c == src[i + 1]
            j == wide(i)
            u == r_utf8_to_utf16(j - i, Part(src, i, j))
        IN  IF i = n THEN <<>>
            ELSE IF short(c) # {} THEN <<BACKSLASH, (CHOOSE p \in short(c) : TRUE)[1]>> \o f[i + 1]
            ELSE IF c < 32 THEN <<BACKSLASH, 117>> \o Hex4(c) \o f[i + 1]
            ELSE IF c < 128 THEN <<c>> \o f[i + 1]
            ELSE IF u.res = "OK" THEN FlattenSeq([k \in DOMAIN u.dst |-> <<BACKSLASH, 117>> \o Hex4(u.dst[k])]) \o f[i + u.end]
            ELSE <<>>
  IN  f[0]
-----------------------------------------------------------------------------
\* Values.
r_json_value_new(type) == <<type, 0>>
r_json_object_new == <<"OBJECT", <<>>>>
r_json_array_new == <<"ARRAY", <<>>>>
r_json_number_new_double(value) == <<"NUMBER", value>>
r_json_string_new(value) ==
  LET r == r_json_str_unescape(value)
  IN  IF r.res = "OK" THEN R("OK", <<"STRING", r.v>>, -1) ELSE Err(r.res)
r_json_string_new_unescaped(value) == <<"STRING", value>>
r_json_string_new_static_unescaped(value) == <<"STRING", value>>
r_json_object_add_field(obj, key, value) ==
  IF obj = Null \/ key = Null \/ value = Null THEN R("INVAL", obj, -1)
  ELSE IF obj[1] # "OBJECT" \/ key[1] # "STRING" THEN R("WRONG_TYPE", obj, -1)
  ELSE R("OK", [obj EXCEPT ![2] = Append(@, <<key, value>>)], -1)
r_json_array_add_value(array, value) ==
  IF array = Null \/ value = Null THEN R("INVAL", array, -1)
  ELSE IF array[1] # "ARRAY" THEN R("WRONG_TYPE", array, -1)
  ELSE R("OK", [array EXCEPT ![2] = Append(@, value)], -1)

\* Objects are unordered; C strings are compared up to their NUL.
CString(s) == Part(s, 0, CHOOSE j \in 0..Len(s) : At(s, j) = 0 /\ \A k \in 1..j : s[k] # 0)
RECURSIVE r_json_value_equal(_, _)
r_json_value_equal(a, b) ==
  CASE a[1] # b[1] -> FALSE
    [] a[1] = b[1] /\ a[1] = "OBJECT" ->
         Len(a[2]) = Len(b[2]) /\ \A i \in DOMAIN a[2] : \E j \in DOMAIN b[2] :
           r_json_value_equal(a[2][i][1], b[2][j][1]) /\ r_json_value_equal(a[2][i][2], b[2][j][2])
    [] a[1] = b[1] /\ a[1] = "ARRAY" ->
         Len(a[2]) = Len(b[2]) /\ \A i \in DOMAIN a[2] : r_json_value_equal(a[2][i], b[2][i])
    [] a[1] = b[1] /\ a[1] = "NUMBER" -> a[2] = b[2]
    [] a[1] = b[1] /\ a[1] = "STRING" -> CString(a[2]) = CString(b[2])
    [] OTHER -> TRUE

Items(value, type) == IF value[1] = type THEN value[2] ELSE <<>>
r_json_value_get_object_field_count(value) == Len(Items(value, "OBJECT"))
r_json_value_get_object_field_value(value, idx) ==
  IF idx < Len(Items(value, "OBJECT")) THEN value[2][idx + 1][2] ELSE Null
r_json_value_get_object_field(value, key) ==
  LET k == r_json_string_new_static_unescaped(key)
      at == SelectInSeq(Items(value, "OBJECT"), LAMBDA f : r_json_value_equal(f[1], k))
  IN  IF at = 0 THEN Null ELSE value[2][at][2]
r_json_value_get_array_size(value) == Len(Items(value, "ARRAY"))
r_json_value_get_array_value(value, idx) ==
  IF idx < Len(Items(value, "ARRAY")) THEN value[2][idx + 1] ELSE Null
r_json_value_get_string(value) == IF value[1] = "STRING" THEN CString(value[2]) ELSE <<-1>>
r_json_value_get_object_field_name(value, idx) ==
  IF idx < Len(Items(value, "OBJECT")) THEN r_json_value_get_string(value[2][idx + 1][1]) ELSE <<-1>>
-----------------------------------------------------------------------------
\* Writing.
r_json_append_ctx_newline(flags, indent) ==
  IF "COMPACT" \in flags THEN <<>>
  ELSE <<10>> \o (IF "USE_TABS" \in flags THEN [i \in 1..indent |-> 9] ELSE [i \in 1..2 * indent |-> 32])
r_json_append_ctx_string(v) == <<QUOTE>> \o r_json_str_escape(v) \o <<QUOTE>>
r_json_value_get_string_quoted(value) == IF value[1] = "STRING" THEN r_json_append_ctx_string(value[2]) ELSE <<-1>>
\* An opened container: its items on lines of their own, a comma after each but the last.
Enclosed(open, items, close, flags, indent) ==
  LET line(i) == (IF i > 1 THEN <<44>> ELSE <<>>) \o r_json_append_ctx_newline(flags, indent + 1) \o items[i]
  IN  <<open>> \o FlattenSeq([i \in DOMAIN items |-> line(i)])
      \o (IF items = <<>> THEN <<>> ELSE r_json_append_ctx_newline(flags, indent)) \o <<close>>
RECURSIVE r_json_append_ctx_value(_, _, _)
r_json_append_ctx_object(flags, indent, v) ==
  LET colon == IF "COMPACT" \in flags THEN <<58>> ELSE <<58, 32>>
      field(f) == r_json_append_ctx_value(flags, indent + 1, f[1]) \o colon \o r_json_append_ctx_value(flags, indent + 1, f[2])
  IN  Enclosed(123, [i \in DOMAIN v |-> field(v[i])], 125, flags, indent)
r_json_append_ctx_array(flags, indent, v) ==
  Enclosed(91, [i \in DOMAIN v |-> r_json_append_ctx_value(flags, indent + 1, v[i])], 93, flags, indent)
r_json_append_ctx_value(flags, indent, value) ==
  CASE value[1] = "OBJECT" -> r_json_append_ctx_object(flags, indent, value[2])
    [] value[1] = "ARRAY" -> r_json_append_ctx_array(flags, indent, value[2])
    [] value[1] = "NUMBER" -> Printed(value[2])
    [] value[1] = "STRING" -> r_json_append_ctx_string(value[2])
    [] value[1] = "TRUE" -> <<116, 114, 117, 101>>
    [] value[1] = "FALSE" -> <<102, 97, 108, 115, 101>>
    [] value[1] = "NULL" -> <<110, 117, 108, 108>>
r_json_value_to_buffer(value, flags) == r_json_append_ctx_value(flags, 0, value)

-----------------------------------------------------------------------------
(* The scanner and the reader of src/rlib/format/rjsonparser.c over the     *)
(* values of module Json.                                                  *)
CONSTANT ToInt(_)  \* r_str_to_int_size in base 10: [ok, v]

Ctx(res, type, at) == [res |-> res, type |-> type, at |-> at]
HasPrefix(text, i, word) == i + Len(word) <= Len(text) /\ Part(text, i, i + Len(word)) = word
TrueText == <<116, 114, 117, 101>>
FalseText == <<102, 97, 108, 115, 101>>
NullText == <<110, 117, 108, 108>>

r_json_parser_scan_init_at(text, str) ==
  LET i == r_json_scan_ctx_scan_whitespace(text, str)
      c == At(text, i)
      if(b, type, else) == IF b THEN Ctx("OK", type, i) ELSE Ctx(else, "NONE", i)
  IN  IF str > Len(text) THEN Ctx("OUT_OF_RANGE", "NONE", str)
      ELSE IF str = Len(text) THEN Ctx("END", "NONE", str)
      ELSE CASE c = 123 -> Ctx("OK", "OBJECT", i)
             [] c = 91 -> Ctx("OK", "ARRAY", i)
             [] c = QUOTE -> Ctx("OK", "STRING", i)
             [] c = 116 -> if(HasPrefix(text, i, TrueText), "TRUE", "TYPE_NOT_PARSED")
             [] c = 102 -> if(HasPrefix(text, i, FalseText), "FALSE", "TYPE_NOT_PARSED")
             [] c = 110 -> if(HasPrefix(text, i, NullText), "NULL", "TYPE_NOT_PARSED")
             [] c \in {93, 125} -> Ctx("END", "NONE", i)
             [] IsDigit(c) \/ c = 45 -> if(ToDouble(Part(text, i, Len(text))).ok, "NUMBER", "NUMBER_NOT_PARSED")
             [] OTHER -> Ctx("TYPE_NOT_PARSED", "NONE", i)
r_json_parser_scan_start(text) == r_json_parser_scan_init_at(text, 0)

\* v is the text between the quotes, escapes and all.
r_json_scan_ctx_parse_string(text, ctx) ==
  LET f[i \in 0..Len(text) + 1] ==
        IF i >= Len(text) THEN -1 ELSE IF text[i + 1] = BACKSLASH THEN f[i + 2]
        ELSE IF text[i + 1] = QUOTE THEN i ELSE f[i + 1]
      close == f[ctx.at + 1]
  IN  IF ctx.type # "STRING" THEN Err("INVAL")
      ELSE IF close < 0 THEN Err("STRING_NOT_TERMINATED") ELSE R("OK", Part(text, ctx.at + 1, close), close + 1)

\* v is the numeral.  What follows it must be the end, a comma or a closing bracket.
r_json_scan_ctx_parse_number(text, ctx) ==
  LET digits(i) == Past(text, i, IsDigit)
      none == Err("NUMBER_NOT_PARSED")
      p0 == IF At(text, ctx.at) = 45 THEN ctx.at + 1 ELSE ctx.at
      p1 == digits(p0)
      frac == At(text, p1) = 46
      p2 == IF frac THEN digits(p1 + 1) ELSE p1
      exp == At(text, p2) \in {69, 101}
      sign == exp /\ At(text, p2 + 1) \in {43, 45}
      p3 == IF exp THEN p2 + (IF sign THEN 2 ELSE 1) ELSE p2
      p4 == IF exp THEN digits(p3) ELSE p3
      end == r_json_scan_ctx_scan_whitespace(text, p4)
  IN  IF ~IsDigit(At(text, p0)) \/ (At(text, p0) = 48 /\ At(text, p0 + 1) = 48) THEN none
      ELSE IF (frac /\ p2 = p1 + 1) \/ (exp /\ p4 = p3) THEN none
      ELSE IF end = Len(text) \/ At(text, end) \in {44, 125, 93} THEN R("OK", Part(text, ctx.at, p4), end) ELSE none
Converted(r, To(_)) ==
  IF r.res # "OK" THEN r ELSE IF To(r.v).ok THEN [r EXCEPT !.v = To(r.v).v] ELSE Err("NUMBER_NOT_PARSED")
r_json_scan_ctx_parse_number_int(text, ctx) == Converted(r_json_scan_ctx_parse_number(text, ctx), ToInt)
r_json_scan_ctx_parse_number_double(text, ctx) == Converted(r_json_scan_ctx_parse_number(text, ctx), ToDouble)
-----------------------------------------------------------------------------
\* One field from the opening bracket or the comma at ctx: [res, key, val].
r_json_scan_ctx_parse_object_field(text, ctx) ==
  LET keyctx == r_json_parser_scan_init_at(text, ctx.at + 1)
      k == IF keyctx.res = "OK" THEN r_json_scan_ctx_parse_string(text, keyctx) ELSE Err(keyctx.res)
      colon == r_json_scan_ctx_scan_whitespace(text, k.end)
      val == r_json_parser_scan_init_at(text, colon + 1)
      F(res, key, v) == [res |-> res, key |-> key, val |-> v]
  IN  IF ctx.type # "OBJECT" THEN F("WRONG_TYPE", <<>>, ctx)
      ELSE IF At(text, ctx.at) = 125 THEN F("END", <<>>, ctx)
      ELSE IF At(text, ctx.at) \notin {123, 44} THEN F("WRONG_TYPE", <<>>, ctx)
      ELSE IF k.res = "END" THEN F("EMPTY", <<>>, ctx)
      ELSE IF k.res # "OK" THEN F(k.res, <<>>, ctx)
      ELSE IF At(text, colon) # 58 THEN F("OBJECT_FIELD_NOT_PARSED", k.v, ctx)
      ELSE F(val.res, k.v, val)
r_json_scan_ctx_parse_array_value(text, ctx) ==
  LET val == r_json_parser_scan_init_at(text, ctx.at + 1)
      F(res, v) == [res |-> res, key |-> <<>>, val |-> v]
  IN  IF ctx.type # "ARRAY" THEN F("INVAL", ctx)
      ELSE IF At(text, ctx.at) = 93 THEN F("END", ctx)
      ELSE IF At(text, ctx.at) \notin {91, 44} THEN F("WRONG_TYPE", ctx)
      ELSE F(IF val.res = "END" THEN "EMPTY" ELSE val.res, val)

\* Func answers [res, v, end] for one entry: res CONTINUE, STOP or an error;
\* with end -1 the walk finds the entry's end by itself.  The v of the walk is
\* the sequence of the v of its entries.
EachEntry(text, ctx, Entry(_, _), close, Func(_, _), EndOf(_)) ==
  LET f[at \in 0..Len(text)] ==
        LET e == Entry(text, [ctx EXCEPT !.at = at])
            r == Func(e.key, e.val)
            eptr == IF r.end < 0 THEN EndOf(e.val).end ELSE r.end
            more == f[r_json_scan_ctx_scan_whitespace(text, eptr)]
            last == IF e.res = "EMPTY" THEN r_json_scan_ctx_scan_whitespace(text, at + 1) ELSE at
        IN  CASE e.res = "OK" ->
                   IF r.res = "STOP" THEN R("ITERATION_STOPPED", <<>>, -1) ELSE IF r.res # "CONTINUE" THEN R(r.res, <<>>, -1)
                   ELSE IF eptr < 0 THEN R("CRASH", <<>>, -1)
                   ELSE IF eptr > Len(text) THEN R("OUT_OF_RANGE", <<>>, -1)
                   ELSE [more EXCEPT !.v = <<r.v>> \o @]
              [] e.res \in {"EMPTY", "END"} ->
                   IF At(text, last) = close THEN R("OK", <<>>, last + 1) ELSE R("ABORT", <<>>, -1)
              [] OTHER -> R(e.res, <<>>, -1)
  IN  f[ctx.at]
r_json_scan_ctx_parse_object_foreach_field(text, ctx, Func(_, _), EndOf(_)) ==
  EachEntry(text, ctx, r_json_scan_ctx_parse_object_field, 125, Func, EndOf)
r_json_scan_ctx_parse_array_foreach_value(text, ctx, Func(_, _), EndOf(_)) ==
  EachEntry(text, ctx, r_json_scan_ctx_parse_array_value, 93, Func, EndOf)

\* The walk of a container is called without a function here.
r_json_scan_ctx_endptr(text, ctx) ==
  LET nofunc(key, val) == Err("CRASH")
      noend(val) == Err("CRASH")
  IN  CASE ctx.type = "OBJECT" -> r_json_scan_ctx_parse_object_foreach_field(text, ctx, nofunc, noend)
        [] ctx.type = "ARRAY" -> r_json_scan_ctx_parse_array_foreach_value(text, ctx, nofunc, noend)
        [] ctx.type = "NUMBER" -> r_json_scan_ctx_parse_number(text, ctx)
        [] ctx.type = "STRING" -> r_json_scan_ctx_parse_string(text, ctx)
        [] ctx.type \in {"TRUE", "NULL"} -> R("OK", 0, ctx.at + 4)
        [] ctx.type = "FALSE" -> R("OK", 0, ctx.at + 5)
        [] OTHER -> Err("WRONG_TYPE")
\* One step of a caller's own walk: the entry, and ctx moved past it.
Stepped(text, ctx, e) ==
  LET end == r_json_scan_ctx_endptr(text, e.val)
  IN  IF e.res # "OK" THEN [res |-> e.res, ctx |-> ctx, e |-> e]
      ELSE IF end.res # "OK" THEN [res |-> end.res, ctx |-> ctx, e |-> e]
      ELSE [res |-> "OK", ctx |-> [ctx EXCEPT !.at = r_json_scan_ctx_scan_whitespace(text, end.end)], e |-> e]
r_json_scan_ctx_scan_object_field(text, ctx) == Stepped(text, ctx, r_json_scan_ctx_parse_object_field(text, ctx))
r_json_scan_ctx_scan_array_value(text, ctx) == Stepped(text, ctx, r_json_scan_ctx_parse_array_value(text, ctx))
-----------------------------------------------------------------------------
\* Reading a tree.
RECURSIVE r_json_scan_ctx_to_value(_, _)
r_json_parser_object_field_cb(text, key, val) ==
  LET k == r_json_string_new(key)
      v == r_json_scan_ctx_to_value(text, val)
  IN  IF k.res # "OK" THEN k ELSE IF v.res # "OK" THEN v ELSE R("CONTINUE", <<k.v, v.v>>, v.end)
r_json_parser_value_cb(text, val) ==
  LET v == r_json_scan_ctx_to_value(text, val) IN IF v.res # "OK" THEN v ELSE [v EXCEPT !.res = "CONTINUE"]
Typed(r, type) == IF r.res = "OK" THEN [r EXCEPT !.v = <<type, @>>] ELSE Err(r.res)
r_json_scan_ctx_to_object(text, ctx) ==
  Typed(r_json_scan_ctx_parse_object_foreach_field(text, ctx, LAMBDA key, val : r_json_parser_object_field_cb(text, key, val),
                                                   LAMBDA val : r_json_scan_ctx_endptr(text, val)), "OBJECT")
r_json_scan_ctx_to_array(text, ctx) ==
  Typed(r_json_scan_ctx_parse_array_foreach_value(text, ctx, LAMBDA key, val : r_json_parser_value_cb(text, val),
                                                  LAMBDA val : r_json_scan_ctx_endptr(text, val)), "ARRAY")
r_json_scan_ctx_to_number(text, ctx) == Typed(r_json_scan_ctx_parse_number_double(text, ctx), "NUMBER")
r_json_scan_ctx_to_string(text, ctx) ==
  LET r == r_json_scan_ctx_parse_string(text, ctx)
  IN  IF r.res # "OK" THEN r ELSE [r_json_string_new(r.v) EXCEPT !.end = r.end]
r_json_scan_ctx_to_true(ctx) == R("OK", r_json_value_new("TRUE"), ctx.at + 4)
r_json_scan_ctx_to_false(ctx) == R("OK", r_json_value_new("FALSE"), ctx.at + 5)
r_json_scan_ctx_to_null(ctx) == R("OK", r_json_value_new("NULL"), ctx.at + 4)
r_json_scan_ctx_to_value(text, ctx) ==
  CASE ctx.type = "OBJECT" -> r_json_scan_ctx_to_object(text, ctx)
    [] ctx.type = "ARRAY" -> r_json_scan_ctx_to_array(text, ctx)
    [] ctx.type = "NUMBER" -> r_json_scan_ctx_to_number(text, ctx)
    [] ctx.type = "STRING" -> r_json_scan_ctx_to_string(text, ctx)
    [] ctx.type = "TRUE" -> r_json_scan_ctx_to_true(ctx)
    [] ctx.type = "FALSE" -> r_json_scan_ctx_to_false(ctx)
    [] ctx.type = "NULL" -> r_json_scan_ctx_to_null(ctx)
    [] OTHER -> Err("INVAL")
r_json_parser_parse_all(text) ==
  LET ctx == r_json_parser_scan_start(text)
  IN  IF ctx.res = "OK" THEN r_json_scan_ctx_to_value(text, ctx) ELSE Err(ctx.res)
r_json_parse(text) == IF text = <<>> THEN Err("INVAL") ELSE r_json_parser_parse_all(text)
r_json_parse_buffer(text) == r_json_parser_parse_all(text)
=============================================================================
