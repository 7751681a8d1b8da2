-------------------------------- MODULE Asn1 --------------------------------
(***************************************************************************)
(* The ASN.1 binary decoder (src/rlib/format/rasn1bin.c, rber.c, rder.c),  *)
(* object identifiers (roid.c, rasn1.c) and calendar time (rtime.c).       *)
(*                                                                         *)
(* A decoder is a record [rules, data, stack, tlv, st]: the octets, the    *)
(* stack of elements entered (innermost first), the caller's RAsn1BinTLV   *)
(* and the status of the last call.  Offsets count from 0 as in the code;  *)
(* -1 is NULL.  As in the code a failing call may leave the TLV half       *)
(* written: the length of the new element beside the place of the old one. *)
(*                                                                         *)
(* Widths are constants, so that TLC's integers hold every value: Sizeof32 *)
(* and Sizeof64 octets for the two integer types, SizeofSize for rsize.    *)
(***************************************************************************)
EXTENDS Integers, Sequences, SequencesExt, Str

CONSTANTS SizeofSize, Sizeof32, Sizeof64,
          Utf8Valid(_), Utf16beToUtf8(_), Utf32beToUtf8(_)

BOOLEAN_TAG == 1
INTEGER == 2
BIT_STRING == 3
OCTET_STRING == 4
NULL_TAG == 5
OBJECT_IDENTIFIER == 6
ENUMERATED == 10
UTF8_STRING == 12
SEQUENCE == 16
SET_TAG == 17
UTC_TIME == 23
GENERALIZED_TIME == 24
CONSTRUCTED == 32
CONTEXT == 128

NoTLV == [start |-> -1, value |-> -1, len |-> 0]

\* Big-endian octets as a number, and the n low octets of a number.
U(v) == LET f[i \in 0..Len(v)] == IF i = 0 THEN 0 ELSE 256 * f[i - 1] + v[i] IN f[Len(v)]
Octets(x, n) == [i \in 1..n |-> (x \div 256^(n - i)) % 256]

TlvNext(t) == t.value + t.len
End(s) == Len(s.data)
Id(s) == s.data[s.tlv.start + 1]
IsId(s, id) == Id(s) = id
Value(s) == SubSeq(s.data, s.tlv.value + 1, s.tlv.value + s.tlv.len)
Tag(s) == Id(s) % 32
IsTag(s, tag) == Tag(s) = tag
-----------------------------------------------------------------------------
\* Lengths.  at is the offset of the length octet, lensize the octets left,
\* old the length the TLV holds, kept when the parse fails early.
r_asn1_ber_parse_length(data, at, lensize, old) ==
  LET b == data[at + 1]
      n == b % 128
  IN  IF lensize = 0 THEN [st |-> "OVERFLOW", lensize |-> 0, len |-> old]
      ELSE IF b <= 128 THEN [st |-> "OK", lensize |-> 1, len |-> n]
      ELSE IF n >= lensize \/ n > SizeofSize THEN [st |-> "OVERFLOW", lensize |-> 0, len |-> old]
      ELSE [st |-> "OK", lensize |-> n + 1, len |-> U(SubSeq(data, at + 2, at + 1 + n))]

r_asn1_der_parse_length(data, at, lensize, old) ==
  LET b == data[at + 1]
      n == b % 128
      bad(st) == [st |-> st, lensize |-> 0, len |-> old]
  IN  IF lensize = 0 THEN bad("OVERFLOW")
      ELSE IF b = 128 THEN bad("INDEFINITE")
      ELSE IF b < 128 THEN [st |-> "OK", lensize |-> 1, len |-> b]
      ELSE IF n > SizeofSize \/ n >= lensize THEN bad("OVERFLOW")
      ELSE IF data[at + 2] = 0 \/ (n = 1 /\ data[at + 2] < 128) THEN bad("OVERFLOW")
      ELSE [st |-> "OK", lensize |-> n + 1, len |-> U(SubSeq(data, at + 2, at + 1 + n))]

\* The element at start, of which size octets are left.
TlvInit(Parse(_, _, _, _), s, start, size) ==
  LET p == Parse(s.data, start + 1, size - 1, s.tlv.len)
  IN  IF size < 2 THEN [s EXCEPT !.st = "OVERFLOW"]
      ELSE IF p.st # "OK" THEN [s EXCEPT !.st = p.st]
      ELSE IF 1 + p.lensize > size \/ p.len > size - 1 - p.lensize
           THEN [s EXCEPT !.st = "OVERFLOW", !.tlv.len = p.len]
      ELSE [s EXCEPT !.st = "OK", !.tlv =
              [start |-> start, value |-> start + 1 + p.lensize, len |-> p.len]]
\* Mutant of r_asn1_ber_tlv_init: the length is compared with what is left
\* before the length octets are counted.
ber_tlv_init_loose(s, start, size) ==
  LET p == r_asn1_ber_parse_length(s.data, start + 1, size - 1, s.tlv.len)
  IN  IF size < 2 \/ 1 + p.lensize > size \/ p.len > size - 1 THEN [s EXCEPT !.st = "OVERFLOW"]
      ELSE IF p.st # "OK" THEN [s EXCEPT !.st = p.st]
      ELSE [s EXCEPT !.st = "OK", !.tlv = [start |-> start, value |-> start + 1 + p.lensize, len |-> p.len]]
r_asn1_ber_tlv_init(s, start, size) == TlvInit(r_asn1_ber_parse_length, s, start, size)
r_asn1_der_tlv_init(s, start, size) == TlvInit(r_asn1_der_parse_length, s, start, size)

\* The step to the element after the current one, wherever the data ends.
Following(Init(_, _, _), s) ==
  LET n == TlvNext(s.tlv)
  IN  IF n > End(s) THEN [s EXCEPT !.st = "OVERFLOW"]
      ELSE IF n = End(s) THEN [s EXCEPT !.st = "EOS", !.tlv = NoTLV]
      ELSE Init(s, n, End(s) - n)
Checked(s) ==
  IF \/ s.st = "OK" /\ TlvNext(s.tlv) > End(s)
     \/ s.st = "EOS" /\ s.stack # <<>>
  THEN [s EXCEPT !.st = "OVERFLOW"] ELSE s
\* Where the contents of the current element start; -1 when there are none.
Contents(s, size) ==
  IF Id(s) % 64 >= CONSTRUCTED \/ IsTag(s, OCTET_STRING) THEN [st |-> "OK", skip |-> 0]
  ELSE IF IsTag(s, BIT_STRING)
       THEN IF size < 1 THEN [st |-> "OVERFLOW", skip |-> 0]
            ELSE IF s.data[s.tlv.value + 1] > 0 THEN [st |-> "NOT_CONSTRUCTED", skip |-> 0]
            ELSE [st |-> "OK", skip |-> 1]
       ELSE [st |-> "NOT_CONSTRUCTED", skip |-> 0]
IntoBy(Init(_, _, _), s, size) ==
  LET c == Contents(s, size)
      inner == Init([s EXCEPT !.tlv = NoTLV], s.tlv.value + c.skip, size - c.skip)
  IN  IF s.tlv.value = -1 THEN [s EXCEPT !.st = "INVALID_ARG"]
      ELSE IF c.st # "OK" THEN [s EXCEPT !.st = c.st]
      ELSE IF inner.st # "OK" THEN [s EXCEPT !.st = inner.st]
      ELSE [inner EXCEPT !.stack = <<s.tlv>> \o s.stack]
-----------------------------------------------------------------------------
\* DER.
r_asn1_der_decoder_next(s) ==
  LET n == TlvNext(s.tlv)
      up == TlvNext(s.stack[1])
      r == IF s.tlv.value = -1 THEN r_asn1_der_tlv_init(s, 0, End(s))
           ELSE IF IsId(s, 0) /\ s.stack # <<>> THEN [s EXCEPT !.st = "EOC"]
           ELSE IF ~IsId(s, 0) /\ s.stack # <<>> /\ n >= up
                THEN [s EXCEPT !.st = IF n = up THEN "EOC" ELSE "OVERFLOW"]
           ELSE Following(r_asn1_der_tlv_init, s)
  IN  Checked(r)

r_asn1_der_decoder_into(s) ==
  IntoBy(r_asn1_der_tlv_init, s, IF s.tlv.len = 0 THEN End(s) - s.tlv.value ELSE s.tlv.len)

r_asn1_der_decoder_out(s) ==
  LET n == TlvNext(s.stack[1])
      o == [s EXCEPT !.stack = Tail(s.stack)]
  IN  IF s.stack = <<>> THEN [s EXCEPT !.st = "INVALID_ARG"]
      ELSE IF n >= End(s) THEN [o EXCEPT !.st = "EOS", !.tlv = NoTLV]
      ELSE IF o.stack = <<>> \/ n < TlvNext(o.stack[1])
           THEN r_asn1_der_tlv_init(o, n, End(s) - n)
      ELSE [o EXCEPT !.st = "EOC"]
-----------------------------------------------------------------------------
\* BER, where an element of indefinite length ends at its end-of-contents.
R_ASN1_BER_TLV_IS_INDEFINITE(s) == s.tlv.len = 0 /\ s.data[s.tlv.value] = 128

r_asn1_ber_decoder_into(s) ==
  IntoBy(r_asn1_ber_tlv_init, s,
         IF s.tlv.value # -1 /\ R_ASN1_BER_TLV_IS_INDEFINITE(s)
         THEN End(s) - s.tlv.value ELSE s.tlv.len)

RECURSIVE r_asn1_ber_decoder_next(_), r_asn1_ber_decoder_out(_), SkipContents(_)
r_asn1_ber_decoder_next(s) ==
  LET n == TlvNext(s.tlv)
      up == s.stack[1]
      in == r_asn1_ber_decoder_into(s)
      r == IF s.tlv.value = -1 THEN r_asn1_ber_tlv_init(s, 0, End(s))
           ELSE IF IsId(s, 0)
                THEN IF s.stack # <<>> THEN [s EXCEPT !.st = "EOC"]
                     ELSE Following(r_asn1_ber_tlv_init, s)
           ELSE IF s.stack # <<>> /\ up.len > 0 /\ n >= TlvNext(up)
                THEN [s EXCEPT !.st = IF n = TlvNext(up) THEN "EOC" ELSE "OVERFLOW"]
           ELSE IF R_ASN1_BER_TLV_IS_INDEFINITE(s)
                THEN IF in.st = "OK" THEN r_asn1_ber_decoder_out(in) ELSE in
           ELSE Following(r_asn1_ber_tlv_init, s)
  IN  Checked(r)
SkipContents(s) == LET n == r_asn1_ber_decoder_next(s)
                   IN  IF n.st = "OK" THEN SkipContents(n) ELSE n
r_asn1_ber_decoder_out(s) ==
  LET up == s.stack[1]
      n == TlvNext(up)
      o == [s EXCEPT !.stack = Tail(s.stack)]
      e == SkipContents(s)
      p == [e EXCEPT !.stack = Tail(e.stack)]
  IN  IF s.stack = <<>> THEN [s EXCEPT !.st = "INVALID_ARG"]
      ELSE IF up.len > 0
           THEN IF n >= End(s) THEN [o EXCEPT !.st = "EOS", !.tlv = NoTLV]
                ELSE IF o.stack = <<>> \/ o.stack[1].len = 0 \/ n < TlvNext(o.stack[1])
                     THEN r_asn1_ber_tlv_init(o, n, End(s) - n)
                ELSE [o EXCEPT !.st = "EOC"]
      ELSE IF e.st # "EOC" THEN e
      ELSE IF TlvNext(e.tlv) = End(s) THEN [p EXCEPT !.st = "EOS", !.tlv = NoTLV]
      ELSE r_asn1_ber_tlv_init(p, TlvNext(e.tlv), End(s) - TlvNext(e.tlv))

-----------------------------------------------------------------------------
(* Calendar dates and unix time (src/rlib/rtime.c).                        *)
DaysInMonth(leap) == <<31, IF leap THEN 29 ELSE 28, 31, 30, 31, 30, 31, 31, 30, 31, 30, 31>>
AccumDays(leap, m) ==
  LET f[i \in 1..12] == IF i = 1 THEN 0 ELSE f[i - 1] + DaysInMonth(leap)[i - 1] IN f[m]

r_time_is_leap_year(year) ==
  year >= 1753 /\ (year % 400 = 0 \/ (year % 100 # 0 /\ year % 4 = 0))

\* Leap years in from..to-1.
r_time_leap_years(from, to) ==
  LET f == (IF from < 1753 THEN 1753 ELSE from) - 1
      t == to - 1
      n(y) == y \div 4 - y \div 100 + y \div 400
  IN  IF t <= f THEN 0 ELSE n(t) - n(f)

r_time_is_year_month_day_valid(year, month, day) ==
  year >= 1753 /\ month \in 1..12 /\ day >= 1 /\ day <= DaysInMonth(r_time_is_leap_year(year))[month]

r_time_days_in_month(year, month) ==
  IF month \notin 1..12 \/ year < 1753 THEN -1 ELSE DaysInMonth(r_time_is_leap_year(year))[month]

DaysSince1970(year, month, day) ==
  (year - 1970) * 365 + r_time_leap_years(1970, year) + AccumDays(r_time_is_leap_year(year), month) + day - 1

r_time_create_unix_time(year, month, day, hour, minute, second) ==
  IF ~r_time_is_year_month_day_valid(year, month, day) \/ year < 1970 THEN 0
  ELSE DaysSince1970(year, month, day) * 86400 + hour * 3600 + minute * 60 + second

DateOf(days) ==
  LET a == (days * 4 + 102032) \div 146097 + 15
      b == days + 2442113 + a - a \div 4
      c == (20 * b - 2442) \div 7305
      d == b - 365 * c - c \div 4
      e == (d * 1000) \div 30601
      f == d - e * 30 - (e * 601) \div 1000
  IN  IF e <= 13 THEN [year |-> c - 4716, month |-> e - 1, day |-> f]
      ELSE [year |-> c - 4715, month |-> e - 13, day |-> f]

r_time_parse_unix_time(time) ==
  LET date == DateOf(time \div 86400)
  IN  [year |-> date.year, month |-> date.month, day |-> date.day, hour |-> (time \div 3600) % 24,
       minute |-> (time \div 60) % 60, second |-> time % 60]

-----------------------------------------------------------------------------
(***************************************************************************)
(* What the ASN.1 elements hold (src/rlib/format/rasn1bin.c, rasn1.c,      *)
(* roid.c).  A parser takes a decoder standing on an element and answers   *)
(* [st, val]; val is 0 when st is not OK.  Text is a sequence of codes.    *)
(***************************************************************************)
Fail(st) == [st |-> st, val |-> 0]
Ok(val) == [st |-> "OK", val |-> val]
\* R_ASN1_DECODER_STATUS_SUCCESS.
SUCCESS(st) == st \in {"EOS", "EOC", "OK"}

r_asn1_bin_decoder_new(rules, data) ==
  [rules |-> rules, data |-> data, stack |-> <<>>, tlv |-> NoTLV, st |-> "OK"]
r_asn1_bin_decoder_next(s) ==
  IF s.rules = "BER" THEN r_asn1_ber_decoder_next(s) ELSE r_asn1_der_decoder_next(s)
r_asn1_bin_decoder_into(s) ==
  IF s.rules = "BER" THEN r_asn1_ber_decoder_into(s) ELSE r_asn1_der_decoder_into(s)
r_asn1_bin_decoder_out(s) ==
  IF s.rules = "BER" THEN r_asn1_ber_decoder_out(s) ELSE r_asn1_der_decoder_out(s)

r_asn1_bin_tlv_parse_boolean(s) ==
  IF ~IsTag(s, BOOLEAN_TAG) THEN Fail("WRONG_TYPE")
  ELSE IF s.tlv.len # 1 THEN Fail("OVERFLOW") ELSE Ok(Value(s) # <<0>>)

r_asn1_bin_tlv_parse_integer_bits(s) ==
  IF s.tlv.len = 0 THEN Fail("PARSE_ERROR")
  ELSE IF ~IsTag(s, INTEGER) THEN Fail("WRONG_TYPE")
  ELSE Ok([unsign |-> Value(s)[1] < 128, bits |-> 8 * (s.tlv.len - (IF Value(s)[1] = 0 THEN 1 ELSE 0))])

\* Signed and unsigned integers of a width: a leading zero octet is not counted.
SignedOf(s, tags, width) ==
  LET v == Value(s)
      n == Len(v) - (IF v[1] = 0 THEN 1 ELSE 0)
  IN  IF v = <<>> THEN Fail("PARSE_ERROR")
      ELSE IF Tag(s) \notin tags THEN Fail("WRONG_TYPE")
      ELSE IF n > width THEN Fail("OVERFLOW")
      ELSE IF v[1] >= 128 THEN Ok(U(v) - 256^Len(v))
      ELSE IF n = width /\ v[Len(v) - n + 1] >= 128 THEN Fail("OVERFLOW") ELSE Ok(U(v))
UnsignedOf(s, tags, width) ==
  LET v == Value(s)
      n == Len(v) - (IF v[1] = 0 THEN 1 ELSE 0)
  IN  IF v = <<>> THEN Fail("PARSE_ERROR")
      ELSE IF Tag(s) \notin tags THEN Fail("WRONG_TYPE")
      ELSE IF v[1] >= 128 \/ n > width THEN Fail("OVERFLOW") ELSE Ok(U(v))
r_asn1_bin_tlv_parse_integer_i32(s) == SignedOf(s, {INTEGER, ENUMERATED}, Sizeof32)
r_asn1_bin_tlv_parse_integer_u32(s) == UnsignedOf(s, {INTEGER, ENUMERATED}, Sizeof32)
r_asn1_bin_tlv_parse_integer_i64(s) == SignedOf(s, {INTEGER}, Sizeof64)
r_asn1_bin_tlv_parse_integer_u64(s) == UnsignedOf(s, {INTEGER}, Sizeof64)

r_asn1_bin_tlv_parse_integer_mpint(s) ==
  LET v == Value(s)
  IN  IF v = <<>> THEN Fail("PARSE_ERROR")
      ELSE IF ~IsTag(s, INTEGER) THEN Fail("WRONG_TYPE")
      ELSE Ok(IF v[1] >= 128 THEN U(v) - 256^Len(v) ELSE U(v))

\* Sub-identifiers of seven bits an octet; the first one holds two arcs.
RECURSIVE Arcs(_, _, _, _)
Arcs(v, cur, arcs, max) ==
  LET c == 128 * cur + (v[1] % 128)
      a == IF c \div 40 < 2 THEN c \div 40 ELSE 2
  IN  IF v = <<>> THEN Ok(arcs)
      ELSE IF c >= 2^(Bits64 \div 2) THEN Fail("OVERFLOW")
      ELSE IF v[1] >= 128 THEN Arcs(Tail(v), c, arcs, max)
      ELSE IF arcs = <<>> THEN Arcs(Tail(v), 0, <<a, c - 40 * a>>, max)
      ELSE IF Len(arcs) >= max THEN Fail("OVERFLOW")
      ELSE Arcs(Tail(v), 0, Append(arcs, c), max)
r_asn1_bin_tlv_parse_oid(s, max) ==
  IF max < 2 THEN Fail("INVALID_ARG")
  ELSE IF s.tlv.len = 0 THEN Fail("PARSE_ERROR")
  ELSE IF ~IsTag(s, OBJECT_IDENTIFIER) THEN Fail("WRONG_TYPE")
  ELSE IF Last(Value(s)) >= 128 THEN Fail("PARSE_ERROR")
  ELSE Arcs(Value(s), 0, <<>>, max)
-----------------------------------------------------------------------------
\* Dotted OIDs.
Decimal(n) == LET f[x \in 0..n] == IF x < 10 THEN <<48 + x>> ELSE Append(f[x \div 10], 48 + (x % 10)) IN f[n]
DOT == 46
r_asn1_oid_to_dot(oid) == IF oid = <<>> THEN NullStr ELSE Joined([i \in DOMAIN oid |-> Decimal(oid[i])], <<DOT>>)
RECURSIVE DotArcs(_, _)
DotArcs(text, arcs) ==
  LET n == r_str_to_uint32(text, 10)
      e == NextPrint(text, n.end)
  IN  IF n.res # "OK" THEN NullStr
      ELSE IF e = Len(text) THEN Append(arcs, n.val)
      ELSE IF At(text, e) = DOT /\ e + 1 < Len(text) THEN DotArcs(From(text, e + 1), Append(arcs, n.val))
      ELSE NullStr
r_asn1_oid_from_dot(oid, oidsize) ==
  LET a == DotArcs(r_strndup(oid, Size(oid, oidsize)), <<>>)
  IN  IF oid = NullStr \/ oidsize \in 0..2 \/ Size(oid, oidsize) = 0 \/ Len(a) < 2 THEN NullStr ELSE a
r_asn1_oid_is_dot(oid, dot, dotsize) ==
  /\ dot # NullStr /\ Size(dot, dotsize) # 0 /\ oid # <<>>
  /\ r_strcmp(r_asn1_oid_to_dot(oid), dot) = 0
r_asn1_oid_has_dot_prefix(oid, dot, dotsize) ==
  /\ dot # NullStr /\ Size(dot, dotsize) # 0 /\ oid # <<>>
  /\ r_strncmp(r_asn1_oid_to_dot(oid), dot, Size(dot, dotsize)) = 0
r_asn1_bin_tlv_parse_oid_to_dot(s) ==
  LET o == r_asn1_bin_tlv_parse_oid(s, 16) IN IF o.st = "OK" THEN Ok(r_asn1_oid_to_dot(o.val)) ELSE o

\* The attribute types of distinguished names: name and OID octets.
IdAt(n) == <<85, 4, n>>
Pilot(n) == <<9, 146, 38, 137, 147, 242, 44, 100, 1, n>>
x500_attr_table ==
  << <<<<67, 78>>, IdAt(3)>>, <<<<83, 78>>, IdAt(4)>>, <<<<67>>, IdAt(6)>>, <<<<76>>, IdAt(7)>>,
     <<<<83, 84>>, IdAt(8)>>, <<<<83, 84, 82, 69, 69, 84>>, IdAt(9)>>, <<<<79>>, IdAt(10)>>,
     <<<<79, 85>>, IdAt(11)>>, <<<<85, 73, 68>>, Pilot(1)>>, <<<<68, 67>>, Pilot(25)>> >>
Entry(col, key) == {i \in DOMAIN x500_attr_table : x500_attr_table[i][col] = key}
r_asn1_x500_name_from_oid(oid) == LET e == Entry(2, oid) IN IF e = {} THEN NullStr ELSE x500_attr_table[CHOOSE i \in e : TRUE][1]
r_asn1_x500_name_to_oid(name) == LET e == Entry(1, name) IN IF e = {} THEN NullStr ELSE x500_attr_table[CHOOSE i \in e : TRUE][2]

\* Digest and signature algorithms; an OID not in the table is NONE, with OK.
Pkcs1(n) == <<42, 134, 72, 134, 247, 13, 1, 1, n>>
Hashalgs(n) == <<96, 134, 72, 1, 101, 3, 4, 2, n>>
Oiw(n) == <<43, 14, 3, 2, n>>
EcdsaSha2(n) == <<42, 134, 72, 206, 61, 4, 3, n>>
MdOids ==
  [MD5 |-> {Pkcs1(4), Oiw(3), Oiw(25)},
   SHA1 |-> {Pkcs1(5), <<42, 134, 72, 206, 56, 4, 3>>, Oiw(26), Oiw(27), Oiw(29), <<42, 134, 72, 206, 61, 4, 1>>},
   SHA224 |-> {Hashalgs(4), Pkcs1(14), EcdsaSha2(1)}, SHA256 |-> {Hashalgs(1), Pkcs1(11), EcdsaSha2(2)},
   SHA384 |-> {Hashalgs(2), Pkcs1(12), EcdsaSha2(3)}, SHA512 |-> {Hashalgs(3), Pkcs1(13), EcdsaSha2(4)}]
r_asn1_bin_tlv_parse_oid_to_msg_digest_type(s) ==
  LET m == {d \in DOMAIN MdOids : Value(s) \in MdOids[d]}
  IN  IF ~IsTag(s, OBJECT_IDENTIFIER) THEN Fail("WRONG_TYPE")
      ELSE Ok(IF m = {} THEN "NONE" ELSE CHOOSE d \in m : TRUE)
-----------------------------------------------------------------------------
\* Strings.  A duplicate ends at the first NUL of the value.
r_asn1_is_printable_char(c) ==
  r_ascii_isdigit(c) \/ r_ascii_isupper(c) \/ r_ascii_islower(c)
  \/ c \in {32, 39, 40, 41, 43, 44, 45, 46, 47, 58, 61, 63}
r_asn1_is_numeric_char(c) == r_ascii_isdigit(c) \/ c = 32
r_asn1_is_ia5_char(c) == c <= 127
r_asn1_string_chars_valid(v, Valid(_)) == \A i \in DOMAIN v : Valid(v[i])
r_asn1_bmp_string_to_utf8(v) == IF Len(v) % 2 # 0 THEN NullStr ELSE IF v = <<>> THEN v ELSE Utf16beToUtf8(v)
r_asn1_universal_string_to_utf8(v) == IF Len(v) % 4 # 0 THEN NullStr ELSE IF v = <<>> THEN v ELSE Utf32beToUtf8(v)
DupOrOom(str) == IF str = NullStr THEN Fail("OOM") ELSE Ok(str)
r_asn1_bin_tlv_parse_string(s) ==
  LET v == Value(s)
      dup == r_strdup_size(v, Len(v))
      checked(ok) == IF ok THEN DupOrOom(dup) ELSE Fail("PARSE_ERROR")
  IN  CASE IsTag(s, UTF8_STRING) -> checked(Utf8Valid(v))
        [] IsTag(s, 18) -> checked(r_asn1_string_chars_valid(v, r_asn1_is_numeric_char))
        [] IsTag(s, 19) -> checked(r_asn1_string_chars_valid(v, r_asn1_is_printable_char))
        [] IsTag(s, 22) -> checked(r_asn1_string_chars_valid(v, r_asn1_is_ia5_char))
        [] Tag(s) \in {20, 21, 25, 26, 27} -> DupOrOom(dup)
        [] IsTag(s, 30) -> DupOrOom(r_asn1_bmp_string_to_utf8(v))
        [] IsTag(s, 28) -> DupOrOom(r_asn1_universal_string_to_utf8(v))
        [] OTHER -> Fail("WRONG_TYPE")
-----------------------------------------------------------------------------
\* Times.  sscanf's %<w>hhu skips spaces, takes a sign and at least one digit;
\* the caller then advances by the full width of the fields it read.
ScanField(text, at, width) ==
  LET p == at + LeadOf(From(text, at), Spaces \cup {11})
      q == IF At(text, p) \in {43, 45} THEN p + 1 ELSE p
      n == FirstAt({i \in q..p + width : i = p + width \/ ~r_ascii_isdigit(At(text, i))})
      num == LET f[i \in q..n] == IF i = q THEN 0 ELSE 10 * f[i - 1] + text[i] - 48 IN f[n]
  IN  [ok |-> n > q, end |-> n, val |-> IF At(text, p) = 45 THEN ((IF width = 4 THEN 65536 ELSE 256) - num) % 65536 ELSE num]
RECURSIVE Scan(_, _, _)
Scan(text, at, widths) ==
  LET f == ScanField(text, at, widths[1])
  IN  IF widths = <<>> \/ ~f.ok THEN <<>> ELSE <<f.val>> \o Scan(text, f.end, Tail(widths))
\* [st, at, f]: the six fields, and where reading stopped in the value.
ScanUTC(text, len) ==
  LET f == Scan(text, 0, IF len >= 12 THEN <<2, 2, 2, 2, 2, 2>> ELSE <<2, 2, 2, 2, 2>>)
      at == 2 * Len(f)
  IN  IF len < 10 \/ Len(f) < 5 THEN [st |-> "OVERFLOW"]
      ELSE [st |-> "OK", at |-> IF at = len - 1 /\ At(text, at) = 90 THEN len ELSE at,
            f |-> <<f[1] + (IF f[1] < 70 THEN 2000 ELSE 1900)>> \o Tail(f) \o (IF Len(f) = 5 THEN <<0>> ELSE <<>>)]
ScanGeneralized(text, len) ==
  LET f == Scan(text, 0, <<4, 2, 2, 2>>)
      sign(at) == At(text, at) \in {43, 45}
      mm == Scan(text, 10, <<2>>)
      ss == Scan(text, 12, <<2>>)
      frac == len - 14 > 3 /\ At(text, 14) = DOT /\ Scan(text, 15, <<3>>) # <<>>
      noMin == len - 10 <= 2 \/ sign(10) \/ mm = <<>>
      noSec == noMin \/ len - 12 <= 2 \/ sign(12) \/ ss = <<>>
      at == IF noMin THEN 10 ELSE IF noSec THEN 12 ELSE IF frac THEN 18 ELSE 14
      offset == (len - 10 > 2 /\ sign(10)) \/ (~noMin /\ len - 12 > 2 /\ sign(12))
      fields == f \o (IF noMin THEN <<0>> ELSE mm) \o (IF noSec THEN <<0>> ELSE ss)
  IN  IF len < 10 \/ Len(f) < 4 THEN [st |-> "OVERFLOW"]
      ELSE IF offset THEN [st |-> "OK", at |-> at, f |-> fields]
      ELSE IF len - at = 1 /\ At(text, at) = 90 THEN [st |-> "OK", at |-> len, f |-> fields]
      ELSE IF at = len THEN [st |-> "PARSE_ERROR"] ELSE [st |-> "OK", at |-> at, f |-> fields]
r_asn1_bin_tlv_parse_time(s) ==
  LET text == From(s.data, s.tlv.value)
      len == s.tlv.len
      r == IF IsTag(s, UTC_TIME) THEN ScanUTC(text, len) ELSE ScanGeneralized(text, len)
      t == r_time_create_unix_time(r.f[1], r.f[2], r.f[3], r.f[4], r.f[5], r.f[6])
      z == Scan(text, r.at + 1, <<2, 2>>)
  IN  IF Tag(s) \notin {UTC_TIME, GENERALIZED_TIME} THEN Fail("WRONG_TYPE")
      ELSE IF r.st # "OK" THEN Fail(r.st)
      ELSE IF r.f[4] >= 24 \/ r.f[5] >= 60 \/ r.f[6] >= 60 THEN Fail("PARSE_ERROR")
      ELSE IF r.at = len THEN Ok(t)
      ELSE IF r.at # len - 5 \/ Len(z) < 2 THEN Fail("OVERFLOW")
      ELSE IF z[1] >= 24 \/ z[2] >= 60 THEN Fail("PARSE_ERROR")
      ELSE IF At(text, r.at) = 43 THEN Ok(t - (z[1] * 3600 + z[2] * 60))
      ELSE IF At(text, r.at) = 45 THEN Ok(t + z[1] * 3600 + z[2] * 60)
      ELSE Fail("WRONG_TYPE")
-----------------------------------------------------------------------------
\* Bit strings: the bits from the first on, without the unused ones.
BitStringError(s) ==
  IF s.tlv.len = 0 THEN "PARSE_ERROR"
  ELSE IF ~IsTag(s, BIT_STRING) THEN "WRONG_TYPE"
  ELSE IF Value(s)[1] > 7 \/ (s.tlv.len = 1 /\ Value(s)[1] # 0) THEN "PARSE_ERROR" ELSE "OK"
r_asn1_bin_tlv_parse_bit_string_bits(s) ==
  IF BitStringError(s) = "OK" THEN Ok((s.tlv.len - 1) * 8 - Value(s)[1]) ELSE Fail(BitStringError(s))
r_asn1_bin_tlv_parse_bit_string(s) ==
  LET v == Value(s)
      n == (Len(v) - 1) * 8 - v[1]
  IN  IF BitStringError(s) = "OK"
      THEN Ok([i \in 1..n |-> (v[2 + (i - 1) \div 8] \div 2^(7 - ((i - 1) % 8))) % 2])
      ELSE Fail(BitStringError(s))
-----------------------------------------------------------------------------
\* Distinguished names, the last relative name first.  str is the text so far.
r_asn1_bin_tlv_parse_attribute_type_and_value(s, str) ==
  LET t == r_asn1_x500_name_from_oid(Value(s))
      n == r_asn1_bin_decoder_next(s)
      part == t \o <<61>> \o r_strdup_size(Value(n), n.tlv.len)
  IN  IF ~IsTag(s, OBJECT_IDENTIFIER) \/ t = NullStr THEN [st |-> "WRONG_TYPE", dec |-> s, str |-> str]
      ELSE IF n.st # "OK" THEN [st |-> n.st, dec |-> n, str |-> str]
      ELSE IF Tag(n) \notin {19, 26, 22, UTF8_STRING} THEN [st |-> "WRONG_TYPE", dec |-> n, str |-> str]
      ELSE [st |-> "OK", dec |-> n, str |-> part \o (IF str = <<>> THEN <<>> ELSE <<44>> \o str)]
RECURSIVE RelativeNames(_, _)
RelativeNames(s, str) ==
  LET set == r_asn1_bin_decoder_into(s)
      seq == r_asn1_bin_decoder_into(set)
      a == r_asn1_bin_tlv_parse_attribute_type_and_value(seq, str)
      out1 == r_asn1_bin_decoder_out(a.dec)
      out2 == r_asn1_bin_decoder_out(out1)
  IN  IF s.st # "OK" \/ ~IsTag(s, SET_TAG) \/ set.st # "OK"
      THEN [st |-> s.st, dec |-> IF s.st = "OK" /\ IsTag(s, SET_TAG) THEN set ELSE s, str |-> str]
      ELSE IF seq.st # "OK" THEN RelativeNames(r_asn1_bin_decoder_out(seq), str)
      ELSE IF a.st # "OK" THEN [st |-> a.st, dec |-> out2, str |-> str]
      ELSE RelativeNames(out2, a.str)
r_asn1_bin_tlv_parse_distinguished_name(s) ==
  LET in == r_asn1_bin_decoder_into(s)
      r == RelativeNames(in, <<>>)
      out == r_asn1_bin_decoder_out(r.dec)
  IN  IF in.st # "OK" THEN [st |-> in.st, dec |-> in, val |-> NullStr]
      ELSE IF SUCCESS(r.st) THEN [st |-> out.st, dec |-> out, val |-> r.str]
      ELSE [st |-> r.st, dec |-> r.dec, val |-> NullStr]

-----------------------------------------------------------------------------
(***************************************************************************)
(* The ASN.1 binary encoder (src/rlib/format/rasn1binenc.c): a record      *)
(* [rules, buf, stack, st] of the octets written, the enclosing elements   *)
(* still open and the status of the last call.  DER collects the contents  *)
(* of an open element apart and writes its length at the end; BER writes   *)
(* the indefinite form.                                                    *)
(***************************************************************************)
r_asn1_bin_encoder_new(rules) == [rules |-> rules, buf |-> <<>>, stack |-> <<>>, st |-> "OK"]
Write(e, bytes) == [e EXCEPT !.buf = @ \o bytes, !.st = "OK"]
Refused(e, st) == [e EXCEPT !.st = st]

r_asn1_bin_encoder_get_buffer(e) == IF e.stack # <<>> THEN Fail("INDEFINITE") ELSE Ok(e.buf)
r_asn1_bin_encoder_get_data(e) ==
  LET b == r_asn1_bin_encoder_get_buffer(e) IN IF b.st = "OK" THEN b.val ELSE NullStr

r_asn1_bin_write_definite_len(len) ==
  LET n == CHOOSE k \in 1..SizeofSize : len < 256^k /\ (k = 1 \/ len >= 256^(k - 1))
  IN  IF len < 128 THEN <<len>> ELSE <<128 + n>> \o Octets(len, n)

r_asn1_bin_encoder_begin_constructed(e, id) ==
  IF e.rules = "BER"
  THEN [Write(e, <<id, 128>>) EXCEPT !.stack = <<<<>>>> \o @]
  ELSE [e EXCEPT !.stack = <<Append(e.buf, id)>> \o @, !.buf = <<>>, !.st = "OK"]
r_asn1_bin_encoder_begin_bit_string(e) ==
  Write(r_asn1_bin_encoder_begin_constructed(e, BIT_STRING), <<0>>)
r_asn1_bin_encoder_end_constructed(e) ==
  IF e.stack = <<>> THEN Refused(e, "INVALID_ARG")
  ELSE IF e.rules = "BER" THEN [Write(e, <<0, 0>>) EXCEPT !.stack = Tail(@)]
  ELSE [e EXCEPT !.stack = Tail(@), !.st = "OK",
                 !.buf = e.stack[1] \o r_asn1_bin_write_definite_len(Len(e.buf)) \o e.buf]

r_asn1_bin_encoder_add_raw(e, id, data) ==
  Write(e, <<id>> \o r_asn1_bin_write_definite_len(Len(data)) \o data)
r_asn1_bin_encoder_add_null(e) == Write(e, <<NULL_TAG, 0>>)
r_asn1_bin_encoder_add_boolean(e, value) == Write(e, <<BOOLEAN_TAG, 1, IF value THEN 255 ELSE 0>>)
\* The fewest octets that keep the sign bit of value, at most max.
Narrowest(value, max) == CHOOSE n \in 1..max : value < 2^(8 * n - 1) /\ (n = 1 \/ value >= 2^(8 * n - 9))
AddUnsigned(e, value, width) ==
  LET n == IF value < 2^(8 * width - 1) THEN Narrowest(value, width) ELSE width + 1
  IN  Write(e, <<INTEGER, n>> \o Octets(value, n))
AddNegative(e, value, width) ==
  LET u == -(value + 1)
      n == Narrowest(u, width)
  IN  Write(e, <<INTEGER, n>> \o [i \in 1..n |-> 255 - Octets(u, n)[i]])
r_asn1_bin_encoder_add_integer_u32(e, value) == AddUnsigned(e, value, Sizeof32)
r_asn1_bin_encoder_add_integer_u64(e, value) == AddUnsigned(e, value, Sizeof64)
r_asn1_bin_encoder_add_integer_i32(e, value) ==
  IF value >= 0 THEN r_asn1_bin_encoder_add_integer_u32(e, value) ELSE AddNegative(e, value, Sizeof32)
r_asn1_bin_encoder_add_integer_i64(e, value) ==
  IF value >= 0 THEN r_asn1_bin_encoder_add_integer_u64(e, value) ELSE AddNegative(e, value, Sizeof64)

BitsUsed(x) == CHOOSE b \in 0..30 : x < 2^b /\ (b = 0 \/ x >= 2^(b - 1))
r_asn1_bin_encoder_add_integer_mpint(e, value) ==
  LET len == (BitsUsed(IF value < 0 THEN -value ELSE value) + 7) \div 8
      n == len + 1
      two == Octets(256^n + value, n)
      emit == IF n >= 2 /\ two[1] = 255 /\ two[2] >= 128 THEN Tail(two) ELSE two
  IN  IF value < 0 THEN r_asn1_bin_encoder_add_raw(e, INTEGER, emit)
      ELSE IF BitsUsed(value) % 8 = 0 THEN r_asn1_bin_encoder_add_raw(e, INTEGER, <<0>> \o Octets(value, len))
      ELSE r_asn1_bin_encoder_add_raw(e, INTEGER, Octets(value, len))

\* The OID is a C string: it ends at its first zero octet.
r_asn1_bin_encoder_add_oid_rawsz(e, rawsz) ==
  IF CText(rawsz) = <<>> THEN Refused(e, "INVALID_ARG")
  ELSE r_asn1_bin_encoder_add_raw(e, OBJECT_IDENTIFIER, CText(rawsz))
r_asn1_bin_encoder_add_bit_string_raw(e, bits) == r_asn1_bin_encoder_add_raw(e, BIT_STRING, <<0>> \o bits)

Two(n) == <<48 + (n % 100) \div 10, 48 + (n % 10)>>
r_asn1_bin_encoder_add_utc_time(e, time) ==
  LET t == r_time_parse_unix_time(time)
      min == Two(t.year) \o Two(t.month) \o Two(t.day) \o Two(t.hour) \o Two(t.minute)
      text == Append(min \o (IF t.second = 0 THEN <<>> ELSE Two(t.second)), 90)
  IN  Write(e, <<UTC_TIME, Len(text)>> \o text)

r_asn1_bin_encoder_add_string(e, type, str, size) ==
  r_asn1_bin_encoder_add_raw(e, type, First(str, Size(str, size)))
r_asn1_bin_encoder_add_ia5_string(e, str, size) == r_asn1_bin_encoder_add_string(e, 22, str, size)
r_asn1_bin_encoder_add_utf8_string(e, str, size) == r_asn1_bin_encoder_add_string(e, UTF8_STRING, str, size)
r_asn1_bin_encoder_add_printable_string(e, str, size) == r_asn1_bin_encoder_add_string(e, 19, str, size)
-----------------------------------------------------------------------------
\* Distinguished names from text: components from the last comma that is not
\* escaped to the first; "\X" in a value stands for X.
BACKSLASH == 92
RECURSIVE Unescaped(_)
Unescaped(v) ==
  IF v = <<>> THEN v
  ELSE IF v[1] = BACKSLASH /\ Len(v) > 1 THEN <<v[2]>> \o Unescaped(From(v, 2))
  ELSE <<v[1]>> \o Unescaped(Tail(v))
r_asn1_bin_encoder_add_type_and_value(e, t, v) ==
  LET oid == r_asn1_x500_name_to_oid(t)
      o == r_asn1_bin_encoder_add_oid_rawsz(
             r_asn1_bin_encoder_begin_constructed(e, CONSTRUCTED + SEQUENCE), oid)
      u == r_asn1_bin_encoder_add_utf8_string(o, Unescaped(v), -1)
  IN  IF oid = NullStr THEN Refused(e, "INDEFINITE") ELSE r_asn1_bin_encoder_end_constructed(u)
RECURSIVE Components(_, _, _)
Components(e, dn, size) ==
  LET commas == {i \in 0..size - 1 : At(dn, i) = 44 /\ (i = 0 \/ At(dn, i - 1) # BACKSLASH)}
      t == LastAt(commas) + 1
      v == t + r_strchr(From(dn, t), 61) + 1
      a == r_asn1_bin_encoder_add_type_and_value(
             r_asn1_bin_encoder_begin_constructed(e, CONSTRUCTED + SET_TAG),
             SubSeq(dn, t + 1, v - 1), SubSeq(dn, v + 1, size))
      n == Refused(r_asn1_bin_encoder_end_constructed(a), a.st)
  IN  IF r_strchr(From(dn, t), 61) = -1 THEN Refused(e, "INDEFINITE")
      ELSE IF t = 0 THEN n ELSE Components(n, dn, t - 1)
r_asn1_bin_encoder_add_distinguished_name(e, dn) ==
  LET c == Components(r_asn1_bin_encoder_begin_constructed(e, CONSTRUCTED + SEQUENCE), dn, Len(dn))
  IN  IF dn \in {NullStr, <<>>} THEN Refused(e, "INVALID_ARG")
      ELSE Refused(r_asn1_bin_encoder_end_constructed(c), c.st)
=============================================================================
