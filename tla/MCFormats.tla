----------------------------- MODULE MCFormats ------------------------------
(***************************************************************************)
(* Cases for the codecs: for each, the inputs, what the library's code     *)
(* makes of one (Got) and whether that is right (Right).                   *)
(***************************************************************************)
EXTENDS Integers, Sequences, SequencesExt

NoText(v) == <<-1>>
AsciiOnly(v) == \A i \in DOMAIN v : v[i] < 128
\* "1.2" stands for an address literal; every other text is a name.
Literal(host) == IF host = <<49, 46, 50>> THEN <<1, 2>> ELSE <<>>
Signed(c, i) == c.signer = i.key
MaxChain == 3
\* A derivation and a cipher that tell their arguments apart.
Stretch(data, n) == [i \in 1..n |-> (data[((i - 1) % Len(data)) + 1] * 31 + 7 * i + Len(data)) % 251]
Derive16(data) == Stretch(data, 16)
Derive(prf, pass, salt, count, n) == Stretch(pass \o salt \o <<count>> \o (IF prf = "SHA1" THEN <<1>> ELSE <<2>>), n)
Mask(key, iv, i) == (key[((i - 1) % Len(key)) + 1] + 3 * iv[((i - 1) % 16) + 1] + Len(key) + i) % 256
Decrypt(key, iv, data) == [i \in DOMAIN data |-> (data[i] + 256 - Mask(key, iv, i)) % 256]
Encrypt(key, iv, data) == [i \in DOMAIN data |-> (data[i] + Mask(key, iv, i)) % 256]
BitsOf(k) == 16

X == INSTANCE X509 WITH SizeofSize <- 3, Sizeof32 <- 2, Sizeof64 <- 3, Bits64 <- 24, Utf8Valid <- AsciiOnly,
       Utf16beToUtf8 <- NoText, Utf32beToUtf8 <- NoText, IpOctets <- Literal, ToAsn1 <- NoText, Bitsize <- BitsOf,
       Md5 <- Derive16, Pbkdf2 <- Derive, CbcDecrypt <- Decrypt, R_TRUST_MAX_CHAIN <- MaxChain, IssuedWith <- Signed
-----------------------------------------------------------------------------
(* Cases for the ASN.1 coder, the calendar and OIDs: two octets for a      *)
(* ruint32, three for a ruint64 and a length.                              *)
Rules == {"BER", "DER"}
\* Around every octet boundary.
Edges == UNION {{b - 1, b, b + 1} : b \in {0, 127, 128, 255, 256, 32767, 32768, 65535, 65536, 8388607, 8388608, 16777214}}
Naturals24 == {v \in Edges : v >= 0 /\ v < 256^3}

\* Trees of elements: leaves hold contents, nodes hold trees.
Leaf(c) == [id |-> 4, c |-> c]
Node(kids) == [id |-> 48, k |-> kids]
Asn1Bytes(n) == [i \in 1..n |-> (7 * i) % 256]
Asn1Leaves == {Leaf(Asn1Bytes(n)) : n \in {0, 1, 127, 128, 256}}
Small == {Leaf(<<>>), Leaf(<<5>>)}
Trees1 == Asn1Leaves \cup {Node(<<a>>) : a \in Asn1Leaves} \cup {Node(<<a, b>>) : a, b \in Asn1Leaves}
Trees2 == {Node(<<Node(<<a>>), b>>) : a, b \in Asn1Leaves} \cup {Node(<<a, Node(<<b, c>>)>>) : a, b, c \in Small}
          \cup {Node(<<Node(<<Node(<<a>>)>>), Node(<<b, c>>), c>>) : a, b, c \in Small}
          \cup {Node(<<a, Node(<<b, Node(<<c>>)>>)>>) : a, b, c \in Small}

RECURSIVE Encoded(_, _)
Encoded(e, t) ==
  IF "c" \in DOMAIN t THEN X!r_asn1_bin_encoder_add_raw(e, t.id, t.c)
  ELSE X!r_asn1_bin_encoder_end_constructed(
         FoldLeft(Encoded, X!r_asn1_bin_encoder_begin_constructed(e, t.id), t.k))
\* The trees at the decoder's level, and where that leaves it: out when told so.
RECURSIVE Level(_, _)
Level(s, acc) ==
  LET in == X!r_asn1_bin_decoder_into(s)
      l == Level(in, <<>>)
      after == X!r_asn1_bin_decoder_out(l.dec)
      n == X!r_asn1_bin_decoder_next(s)
  IN  IF s.st # "OK" \/ X!Id(s) = 0 THEN [dec |-> s, trees |-> acc]
      ELSE IF X!Id(s) = 48 THEN Level(after, Append(acc, Node(l.trees)))
      ELSE Level(n, Append(acc, [id |-> X!Id(s), c |-> X!Value(s)]))
Read(rules, data) == Level(X!r_asn1_bin_decoder_next(X!r_asn1_bin_decoder_new(rules, data)), <<>>)

\* "CN=a,O=b" and the like: types by table row, values over two letters.
Types == {1, 3, 6, 10}
Dns == {<<t>> : t \in Types \X {<<97>>, <<97, 98>>}} \cup (Types \X {<<97>>}) \X (Types \X {<<98, 32>>})
DnText(parts) == X!Joined([i \in DOMAIN parts |-> X!x500_attr_table[parts[i][1]][1] \o <<61>> \o parts[i][2]], <<44>>)

Oids == {<<0, 0>>, <<0, 39>>, <<1, 2, 840>>, <<1, 39, 127, 128>>, <<2, 5, 29>>, <<2, 47>>, <<2, 48>>, <<2, 999, 4095>>}
Base128(n) == IF n < 128 THEN <<n>> ELSE <<128 + n \div 128, n % 128>>
OidOctets(o) == FlattenSeq(<<Base128(40 * o[1] + o[2])>> \o [i \in 1..Len(o) - 2 |-> Base128(o[i + 2])])

Asn1Cases(op) ==
  CASE op = "int" -> (Rules \X {"u32", "u64", "mpint"} \X Naturals24) \cup (Rules \X {"i32", "i64", "mpint"} \X (Naturals24 \cup {0 - v : v \in Naturals24}))
    [] op = "tree" -> Rules \X (Trees1 \cup Trees2)
    [] op = "year" -> 1970..2400
    [] op = "utc" -> {d * 86400 + s : d \in {0, 58, 59, 364, 365, 789, 790, 10956, 11015, 11016, 24854}, s \in {0, 59, 60, 3599, 3600, 43200, 11647}}
    [] op = "dn" -> Rules \X Dns
    [] op = "oid" -> Oids
Asn1Ops == {"int", "tree", "year", "utc", "dn", "oid"}
Asn1Case(i) == \E op \in Asn1Ops : \E v \in Asn1Cases(op) : i = [op |-> op, v |-> v]

Decoded(rules, e) == X!r_asn1_bin_decoder_next(X!r_asn1_bin_decoder_new(rules, X!r_asn1_bin_encoder_get_data(e)))
Fresh(rules) == X!r_asn1_bin_encoder_new(rules)
IntGot(rules, type, v) ==
  LET e == CASE type = "u32" -> X!r_asn1_bin_encoder_add_integer_u32(Fresh(rules), v)
             [] type = "u64" -> X!r_asn1_bin_encoder_add_integer_u64(Fresh(rules), v)
             [] type = "i32" -> X!r_asn1_bin_encoder_add_integer_i32(Fresh(rules), v)
             [] type = "i64" -> X!r_asn1_bin_encoder_add_integer_i64(Fresh(rules), v)
             [] type = "mpint" -> X!r_asn1_bin_encoder_add_integer_mpint(Fresh(rules), v)
      d == Decoded(rules, e)
      r == CASE type = "u32" -> X!r_asn1_bin_tlv_parse_integer_u32(d)
             [] type = "u64" -> X!r_asn1_bin_tlv_parse_integer_u64(d)
             [] type = "i32" -> X!r_asn1_bin_tlv_parse_integer_i32(d)
             [] type = "i64" -> X!r_asn1_bin_tlv_parse_integer_i64(d)
             [] type = "mpint" -> X!r_asn1_bin_tlv_parse_integer_mpint(d)
  IN  <<r, X!Value(d)>>
Width(type) ==
  CASE type = "u32" -> 0..65535 [] type = "i32" -> -32768..32767
    [] type = "u64" -> 0..16777215 [] type = "i64" -> -8388608..8388607
    [] type = "mpint" -> -32768..8388607
Asn1Got(i) ==
  CASE i.op = "int" -> IF i.v[3] \in Width(i.v[2]) THEN IntGot(i.v[1], i.v[2], i.v[3]) ELSE <<>>
    [] i.op = "tree" -> Read(i.v[1], X!r_asn1_bin_encoder_get_data(Encoded(Fresh(i.v[1]), i.v[2])))
    [] i.op = "year" -> [m \in 1..12 |-> [d \in 1..X!r_time_days_in_month(i.v, m) |-> X!DateOf(X!DaysSince1970(i.v, m, d))]]
    [] i.op = "utc" -> X!r_asn1_bin_tlv_parse_time(Decoded("DER", X!r_asn1_bin_encoder_add_utc_time(Fresh("DER"), i.v)))
    [] i.op = "dn" -> X!r_asn1_bin_tlv_parse_distinguished_name(
                        Decoded(i.v[1], X!r_asn1_bin_encoder_add_distinguished_name(Fresh(i.v[1]), DnText(i.v[2]))))
    [] i.op = "oid" -> LET d == Decoded("DER", X!r_asn1_bin_encoder_add_raw(Fresh("DER"), 6, OidOctets(i.v)))
                           dot == X!r_asn1_bin_tlv_parse_oid_to_dot(d)
                       IN  <<X!r_asn1_bin_tlv_parse_oid(d, 16), X!r_asn1_oid_from_dot(dot.val, -1), X!r_asn1_oid_is_dot(i.v, dot.val, -1)>>
\* The smallest two's complement of a value, for the shortest-form rule.
Holds(n, v) == n = 4 \/ (v < 2^(8 * n - 1) /\ v >= 0 - 2^(8 * n - 1))
Shortest(v) == CHOOSE n \in 1..4 : Holds(n, v) /\ \A m \in 1..n - 1 : ~Holds(m, v)
Asn1Right(i, got) ==
  CASE i.op = "int" -> got = <<>> \/ (got[1] = X!Ok(i.v[3]) /\ Len(got[2]) = Shortest(i.v[3]))
    [] i.op = "tree" -> got.trees = <<i.v[2]>> /\ got.dec.st = "EOS"
    [] i.op = "year" -> \A m \in 1..12 : /\ Len(got[m]) = X!r_time_days_in_month(i.v, m)
                                         /\ \A d \in DOMAIN got[m] : got[m][d] = [year |-> i.v, month |-> m, day |-> d]
    [] i.op = "utc" -> got = X!Ok(i.v)
    [] i.op = "dn" -> got.val = DnText(i.v[2]) /\ got.st = "EOS" /\ got.dec.stack = <<>>
    [] i.op = "oid" -> got = <<X!Ok(i.v), i.v, TRUE>>

-----------------------------------------------------------------------------
(* Cases for the string functions and base64: a ruint64 of 24 bits, so the *)
(* narrower integers have 3, 6 and 12; texts over a few characters.        *)
StrTexts(alphabet, n) == UNION {[1..k -> alphabet] : k \in 0..n}
Ab(n) == StrTexts({97, 98}, n)
Numerals == StrTexts({32, 45, 48, 49, 55, 102, 120}, 4)
AbA == StrTexts({97, 98, 65}, 4)
StrBytes(n, a) == [i \in 1..n |-> (a * i + 3 * a) % 256]

StrOps == {"parse", "split", "find", "lines", "hex", "dump", "kv", "base64"}
StrCases(op) ==
  CASE op = "parse" -> Numerals \X {0, 8, 10, 16} \X {3, 6, 12} \X BOOLEAN
    [] op = "split" -> Ab(5) \X {<<97>>, <<97, 98>>, <<97, 97>>} \X {1, 2, 9}
    [] op = "find" -> Ab(5) \X (Ab(3) \ {<<>>}) \cup AbA \X (StrTexts({97, 65}, 3) \ {<<>>})
    [] op = "lines" -> StrTexts({97, 32, 10}, 6) \ {<<>>}
    [] op = "hex" -> (1..9) \X {0, 1, 37, 171, 255} \X {0, 1, 2, 3}
    [] op = "dump" -> (1..70) \X {4, 8, 16, 32}
    [] op = "kv" -> StrTexts({97, 32}, 2) \X StrTexts({98, 32}, 2)
    [] op = "base64" -> (1..14) \X {0, 1, 37, 171, 255} \X {0, 1, 3, 4, 5, 8}
StrCase(i) == \E op \in StrOps : \E v \in StrCases(op) : i = [op |-> op, v |-> v]

To(bits, signed, str, base) ==
  IF signed THEN (CASE bits = 3 -> X!r_str_to_int8(str, base) [] bits = 6 -> X!r_str_to_int16(str, base)
                    [] bits = 12 -> X!r_str_to_int32(str, base))
  ELSE (CASE bits = 3 -> X!r_str_to_uint8(str, base) [] bits = 6 -> X!r_str_to_uint16(str, base)
          [] bits = 12 -> X!r_str_to_uint32(str, base))
RECURSIVE Lines(_, _)
Lines(text, line) ==
  LET n == X!r_str_chunk_next_line(text, line)
  IN  IF n.res = "OK" THEN <<X!ChunkText(text, n.line)>> \o Lines(text, n.line) ELSE <<>>
StrGot(i) ==
  LET v == i.v IN
  CASE i.op = "parse" -> To(v[3], v[4], v[1], v[2])
    [] i.op = "split" -> X!r_strsplit(v[1], v[2], v[3])
    [] i.op = "find" -> <<X!r_str_idx_of_str(v[1], -1, v[2], -1), X!r_str_idx_of_str_case(v[1], -1, v[2], -1),
                          X!r_strstr(v[1], v[2]), X!r_strnstr(v[1], v[2], Len(v[1]))>>
    [] i.op = "lines" -> Lines(v, [at |-> -1, size |-> 0])
    [] i.op = "hex" -> <<X!r_str_hex_mem(X!r_str_mem_hex(StrBytes(v[1], v[2]))), X!r_str_mem_hex_full(StrBytes(v[1], v[2]), <<58>>, v[3])>>
    [] i.op = "dump" -> X!r_str_mem_dump_dup(v[1], v[2])
    [] i.op = "kv" -> X!r_str_kv_parse(v[1] \o <<61>> \o v[2], -1, <<61>>)
    [] i.op = "base64" -> LET e == X!r_base64_encode_dup_full(StrBytes(v[1], v[2]), v[3]) IN [e |-> e, d |-> X!r_base64_decode_dup(e.text)]

\* The numeral at the start of a text: [sign] [prefix] digits.
Value(digits, base) == LET f[n \in 0..Len(digits)] == IF n = 0 THEN 0 ELSE base * f[n - 1] + X!Digit(digits[n]) IN f[Len(digits)]
Numeral(text, base, signed) ==
  LET p0 == CHOOSE p \in 0..Len(text) : (\A j \in 1..p : text[j] = 32) /\ (p = Len(text) \/ text[p + 1] # 32)
      sign == signed /\ p0 < Len(text) /\ text[p0 + 1] = 45
      p1 == IF sign THEN p0 + 1 ELSE p0
      rest == SubSeq(text, p1 + 1, Len(text))
      hex == Len(rest) >= 3 /\ rest[1] = 48 /\ rest[2] = 120 /\ rest[3] \in {48, 49, 55, 102}
      oct == Len(rest) >= 2 /\ rest[1] = 48 /\ rest[2] \in {48, 49, 55}
      b == IF base # 0 THEN base ELSE IF hex THEN 16 ELSE IF oct THEN 8 ELSE 10
      p2 == IF hex /\ b = 16 THEN p1 + 2 ELSE p1
      run == CHOOSE n \in 0..Len(text) - p2 : /\ \A j \in 1..n : X!Digit(text[p2 + j]) < b
                                              /\ p2 + n = Len(text) \/ X!Digit(text[p2 + n + 1]) >= b
      v == Value(SubSeq(text, p2 + 1, p2 + run), b)
  IN  [empty |-> run = 0, val |-> IF sign THEN -v ELSE v, end |-> p2 + run]
ParseRight(v, got) ==
  LET n == Numeral(v[1], v[2], v[4])
      lo == IF v[4] THEN 0 - 2^(v[3] - 1) ELSE 0
      hi == IF v[4] THEN 2^(v[3] - 1) - 1 ELSE 2^v[3] - 1
  IN  IF n.empty THEN got.res = "INVAL"
      ELSE IF n.val \in lo..hi THEN got = [res |-> "OK", val |-> n.val, end |-> n.end]
      ELSE got.res = "RANGE" /\ got.val = (IF n.val < lo THEN lo ELSE hi)
Occurs(str, sub) == {k \in 0..Len(str) - Len(sub) : SubSeq(str, k + 1, k + Len(sub)) = sub}
FirstOf(I) == IF I = {} THEN -1 ELSE CHOOSE k \in I : \A j \in I : k <= j
Trim(s) == LET keep == {k \in DOMAIN s : s[k] # 32} IN
           IF keep = {} THEN <<>> ELSE SubSeq(s, FirstOf(keep), CHOOSE k \in keep : \A j \in keep : k >= j)
RECURSIVE RefLines(_)
RefLines(text) ==
  LET nl == {k \in DOMAIN text : text[k] = 10}
      one == IF nl = {} THEN Trim(text) ELSE Trim(SubSeq(text, 1, FirstOf(nl) - 1))
      rest == IF nl = {} THEN <<>> ELSE RefLines(SubSeq(text, FirstOf(nl) + 1, Len(text)))
  IN  IF one = <<>> THEN rest ELSE <<one>> \o rest
Lowered(s) == [k \in DOMAIN s |-> IF s[k] = 65 THEN 97 ELSE s[k]]
StrRight(i, got) ==
  LET v == i.v IN
  CASE i.op = "parse" -> ParseRight(v, got)
    [] i.op = "split" -> /\ X!r_strv_join(got, v[2]) = v[1] /\ Len(got) <= v[3]
                         /\ \A k \in DOMAIN got : Occurs(got[k], v[2]) = {} \/ (k = Len(got) /\ k = v[3])
    [] i.op = "find" -> got = <<FirstOf(Occurs(v[1], v[2])), FirstOf(Occurs(Lowered(v[1]), Lowered(v[2]))),
                                FirstOf(Occurs(v[1], v[2])), FirstOf(Occurs(v[1], v[2]))>>
    [] i.op = "lines" -> got = RefLines(v)
    [] i.op = "hex" -> /\ got[1] = StrBytes(v[1], v[2])
                       /\ SelectSeq(got[2], LAMBDA c : c # 58) = X!r_str_mem_hex(StrBytes(v[1], v[2]))
                       /\ Len(got[2]) = 2 * v[1] + (IF v[3] = 0 THEN 0 ELSE (v[1] - 1) \div v[3])
    [] i.op = "dump" -> got.used <= got.alloc
    [] i.op = "kv" -> LET t == v[1] \o <<61>> \o v[2] IN
                      X!LeadOf(v[1], {32}) = Len(v[1]) \/
                      (got.res = "OK" /\ X!ChunkText(t, got.key) = X!r_str_lwstrip(v[1]) /\ X!ChunkText(t, got.val) = X!r_str_lwstrip(v[2]))
    [] i.op = "base64" -> /\ Len(got.e.text) + 1 <= got.e.alloc /\ Len(got.d.data) + 1 <= got.d.alloc
                          /\ got.d.data = StrBytes(v[1], v[2])
                          /\ \A l \in {k \in DOMAIN got.e.text : got.e.text[k] = 10} : v[3] > 0 /\ l < Len(got.e.text)

-----------------------------------------------------------------------------
(* Cases for the JSON reader and writer: small value trees in every format, *)
(* strings over characters of each kind, and numerals over their alphabet. *)
(* A double is its value in ten-thousandths, of which %f writes six digits.*)
Digits(text) == LET f[n \in 0..Len(text)] == IF n = 0 THEN 0 ELSE 10 * f[n - 1] + text[n] - 48 IN f[Len(text)]
Run(text, i) == CHOOSE j \in i..Len(text) : (j = Len(text) \/ text[j + 1] \notin 48..57) /\ \A k \in i + 1..j : text[k] \in 48..57
\* The longest numeral at the start, an exponent counted up to tens.
Double(text) ==
  LET neg == text # <<>> /\ text[1] = 45
      a == IF neg THEN 1 ELSE 0
      b == Run(text, a)
      dot == b < Len(text) /\ text[b + 1] = 46
      c == IF dot THEN Run(text, b + 1) ELSE b
      frac == SubSeq(SubSeq(text, b + 2, c) \o <<48, 48, 48, 48>>, 1, 4)
      v == Digits(SubSeq(text, a + 1, b)) * 10000 + Digits(frac)
  IN  [ok |-> b > a, v |-> IF neg THEN -v ELSE v]
RECURSIVE Decimal(_)
Decimal(n) == IF n < 10 THEN <<48 + n>> ELSE Append(Decimal(n \div 10), 48 + (n % 10))
Six(n) == SubSeq(Decimal(10000 + n), 2, 5) \o <<48, 48>>
JsonWritten(v) ==
  LET m == IF v < 0 THEN -v ELSE v
      s == IF v < 0 THEN <<45>> ELSE <<>>
  IN  s \o Decimal(m \div 10000) \o (IF m % 10000 = 0 THEN <<>> ELSE <<46>> \o Six(m % 10000))
Integer(text) == LET d == Double(text) IN [ok |-> d.ok, v |-> d.v \div 10000]

J == INSTANCE Json WITH ToDouble <- Double, Printed <- JsonWritten, ToInt <- Integer

\* a " \ / newline, a control octet, e-acute, the euro sign.
Chars == {<<97>>, <<34>>, <<92>>, <<47>>, <<10>>, <<1>>, <<195, 169>>, <<226, 130, 172>>}
Strings(n) == {FlattenSeq(s) : s \in UNION {[1..k -> Chars] : k \in 0..n}}
Str(s) == <<"STRING", s>>
Number(v) == <<"NUMBER", v>>
JsonScalars == {<<"TRUE", 0>>, <<"FALSE", 0>>, <<"NULL", 0>>, Str(<<34, 125>>), Str(<<>>), Number(-125000), Number(70000), Number(50)}
Keys == {Str(<<97>>), Str(<<34>>), Str(<<>>)}
Arrays(vs, n) == {<<"ARRAY", s>> : s \in UNION {[1..k -> vs] : k \in 0..n}}
Objects(vs, n) == {<<"OBJECT", s>> : s \in UNION {[1..k -> Keys \X vs] : k \in 0..n}}
Some == {<<"NULL", 0>>, Str(<<34, 125>>), Number(50)}
Nested == Arrays(Some, 1) \cup Objects(Some, 1)
Trees == JsonScalars \cup Arrays(JsonScalars, 2) \cup Objects(Some, 2) \cup Arrays(Nested \cup Some, 2) \cup Objects(Nested, 1)
Flags == {{}, {"COMPACT"}, {"USE_TABS"}}
Spacing == {<<>>, <<32>>, <<10, 9>>}
Words(a, n) == UNION {[1..k -> a] : k \in 0..n}

JsonOps == {"tree", "string", "numeral", "walk"}
JsonCases(op) ==
  CASE op = "tree" -> Trees \X Flags
    [] op = "string" -> Strings(4)
    [] op = "numeral" -> Words({48, 49, 45, 46, 101, 43}, 5) \X Spacing
    [] op = "walk" -> (UNION {[1..k -> Keys \X Some] : k \in 0..2}) \X Spacing
JsonCase(i) == \E op \in JsonOps : \E v \in JsonCases(op) : i = [op |-> op, v |-> v]

\* A caller's walk over an object, one field at a time.
RECURSIVE Walk(_, _)
Walk(text, ctx) ==
  LET s == J!r_json_scan_ctx_scan_object_field(text, ctx)
  IN  IF s.res # "OK" THEN <<s.res>> ELSE <<<<s.e.key, s.e.val>>>> \o Walk(text, s.ctx)
Join(seqs, sep) == FlattenSeq([i \in DOMAIN seqs |-> IF i = 1 THEN seqs[i] ELSE sep \o seqs[i]])
Field(f, ws) == <<J!QUOTE>> \o J!r_json_str_escape(f[1][2]) \o <<J!QUOTE>> \o ws \o <<58>> \o ws \o J!r_json_value_to_buffer(f[2], {}) \o ws
Spaced(fields, ws) == <<123>> \o ws \o Join([i \in DOMAIN fields |-> Field(fields[i], ws)], <<44>> \o ws) \o <<125>>
InArray(v) == <<91>> \o v[2] \o v[1] \o v[2] \o <<93>>
JsonGot(i) ==
  LET v == i.v IN
  CASE i.op = "tree" -> J!r_json_parse(J!r_json_value_to_buffer(v[1], v[2]))
    [] i.op = "string" -> J!r_json_parse(J!r_json_value_get_string_quoted(J!r_json_string_new_unescaped(v)))
    [] i.op = "numeral" -> J!r_json_parse(InArray(v))
    [] i.op = "walk" -> LET t == Spaced(v[1], v[2]) IN Walk(t, J!r_json_parser_scan_start(t))

\* [-] digits [. digits] [e [+-] digits], a leading 0 alone.
IsDigits(s) == s # <<>> /\ \A k \in DOMAIN s : s[k] \in 48..57
IsNumeral(s) ==
  \E a \in 0..Len(s) : \E b \in a..Len(s) : \E c \in b..Len(s) :
    LET int == SubSeq(s, a + 1, b)  fr == SubSeq(s, b + 1, c)  ex == SubSeq(s, c + 1, Len(s))
    IN  /\ SubSeq(s, 1, a) \in {<<>>, <<45>>}
        /\ IsDigits(int) /\ (int[1] = 48 => Len(int) = 1)
        /\ fr = <<>> \/ (fr[1] = 46 /\ IsDigits(Tail(fr)))
        /\ ex = <<>> \/ /\ ex[1] = 101
                        /\ IsDigits(Tail(ex)) \/ (Len(ex) > 1 /\ ex[2] \in {43, 45} /\ IsDigits(SubSeq(ex, 3, Len(ex))))
LeadingZero(s) == \E k \in 1..Len(s) - 1 : s[k] = 48 /\ s[k + 1] = 49 /\ (k = 1 \/ (k = 2 /\ s[1] = 45))
JsonRight(i, got) ==
  LET v == i.v IN
  CASE i.op = "tree" -> /\ got.res = "OK" /\ got.v = v[1] /\ J!r_json_value_equal(got.v, v[1])
                        /\ \A k \in DOMAIN J!Items(v[1], "OBJECT") :
                             \E j \in 1..k : /\ v[1][2][j][1] = v[1][2][k][1]
                                             /\ J!r_json_value_get_object_field(got.v, v[1][2][k][1][2]) = v[1][2][j][2]
    [] i.op = "string" -> got.res = "OK" /\ got.v = Str(v)
    [] i.op = "numeral" -> LeadingZero(v[1]) \/ (got.res = "OK" <=> v[1] = <<>> \/ IsNumeral(v[1]))
    [] i.op = "walk" -> LET n == Len(v[1]) IN
                        IF n = 0 THEN got = <<"EMPTY">>
                        ELSE /\ Len(got) = n + 1 /\ got[n + 1] = "END"
                             /\ \A k \in 1..n : /\ J!r_json_str_unescape(got[k][1]).v = v[1][k][1][2]
                                                /\ got[k][2].type = v[1][k][2][1]

\* The end of a document's value is the end of the document.
EndFound(t) == LET text == J!r_json_value_to_buffer(t, {}) IN J!r_json_scan_ctx_endptr(text, J!r_json_parser_scan_start(text)).end = Len(text)

-----------------------------------------------------------------------------
(* Cases for the Unicode conversions: texts of code points at the edges of *)
(* every length, octets and units that may be malformed, and destinations  *)
(* too small for the text.                                                 *)
\* Reference: the encodings of a scalar value, from its definition.
Enc8(c) == CASE c < 128 -> <<c>> [] c \in 128..2047 -> <<192 + c \div 64, 128 + (c % 64)>>
             [] c \in 2048..65535 -> <<224 + c \div 4096, 128 + ((c \div 64) % 64), 128 + (c % 64)>>
             [] c > 65535 -> <<240 + c \div 262144, 128 + ((c \div 4096) % 64), 128 + ((c \div 64) % 64), 128 + (c % 64)>>
Enc16(c) == IF c < 65536 THEN <<c>> ELSE <<55296 + (c - 65536) \div 1024, 56320 + ((c - 65536) % 1024)>>
Enc32(c) == <<c>>
Be16(c) == FlattenSeq([k \in DOMAIN Enc16(c) |-> <<Enc16(c)[k] \div 256, Enc16(c)[k] % 256>>])
Le32(c) == <<c % 256, (c \div 256) % 256, c \div 65536, 0>>
Coded(text, f) == FlattenSeq([k \in DOMAIN text |-> CASE f = "8" -> Enc8(text[k]) [] f = "16" -> Enc16(text[k]) [] f = "32" -> Enc32(text[k])
                                                     [] f = "be16" -> Be16(text[k]) [] f = "le32" -> Le32(text[k])])
UniScalars == {1, 127, 128, 2047, 2048, 55295, 57344, 65535, 65536, 1114111}
UniTexts == UNION {[1..n -> UniScalars] : n \in 0..3}
\* Which conversions there are, and one of each.
Pairs == {<<"8", "16">>, <<"16", "8">>, <<"8", "32">>, <<"32", "8">>, <<"16", "32">>, <<"32", "16">>, <<"be16", "8">>, <<"le32", "8">>}
Into(p, dstsize, src) ==
  CASE p = <<"8", "16">> -> J!r_utf8_to_utf16(dstsize, src) [] p = <<"16", "8">> -> J!r_utf16_to_utf8(dstsize, src)
    [] p = <<"8", "32">> -> J!r_utf8_to_utf32(dstsize, src) [] p = <<"32", "8">> -> J!r_utf32_to_utf8(dstsize, src)
    [] p = <<"16", "32">> -> J!r_utf16_to_utf32(dstsize, src) [] p = <<"32", "16">> -> J!r_utf32_to_utf16(dstsize, src)
    [] p = <<"be16", "8">> -> J!r_utf16be_to_utf8(dstsize, src) [] p = <<"le32", "8">> -> J!r_utf32le_to_utf8(dstsize, src)
DupOf(p, src) ==
  CASE p = <<"8", "16">> -> J!r_utf8_to_utf16_dup(src) [] p = <<"16", "8">> -> J!r_utf16_to_utf8_dup(src)
    [] p = <<"8", "32">> -> J!r_utf8_to_utf32_dup(src) [] p = <<"32", "8">> -> J!r_utf32_to_utf8_dup(src)
    [] p = <<"16", "32">> -> J!r_utf16_to_utf32_dup(src) [] p = <<"32", "16">> -> J!r_utf32_to_utf16_dup(src)
    [] p = <<"be16", "8">> -> J!r_utf16be_to_utf8_dup(src) [] p = <<"le32", "8">> -> J!r_utf32le_to_utf8_dup(src)

\* Octets and units that need not be text (no 0: it ends the text).
Octets8 == UNION {[1..n -> {65, 128, 144, 160, 191, 192, 194, 224, 226, 237, 239, 240, 244, 248}] : n \in 0..4}
Units16 == UNION {[1..n -> {65, 2048, 55296, 56319, 56320, 57343, 57344, 65279, 65534}] : n \in 0..4}
Units32 == UNION {[1..n -> {65, 55296, 57343, 57344, 65279, 65534, 1114111, 1114112}] : n \in 0..3}

UniOps == {"convert", "dup", "valid8", "valid16", "valid32", "wtf"}
UniCases(op) ==
  CASE op = "convert" -> Pairs \X UniTexts \X {2, 3, 5, 7} [] op = "dup" -> Pairs \X {t \in UniTexts : t # <<>>}
    [] op = "valid8" -> Octets8 [] op = "valid16" -> Units16 [] op = "valid32" -> Units32 [] op = "wtf" -> Units16
UniCase(i) == \E op \in UniOps : \E v \in UniCases(op) : i = [op |-> op, v |-> v]
UniGot(i) ==
  LET v == i.v IN
  CASE i.op = "convert" -> Into(v[1], v[3], Coded(v[2], v[1][1]))
    [] i.op = "dup" -> DupOf(v[1], Coded(v[2], v[1][1]))
    [] i.op = "valid8" -> [v |-> J!r_utf8_validate(v), c |-> J!r_utf8_to_utf32(9, v), n |-> J!r_utf8_strlen_codepoints(v), a |-> J!r_utf8_advance(v, 2)]
    [] i.op = "valid16" -> [v |-> J!r_utf16_validate(v), c |-> J!r_utf16_to_utf8(20, v), n |-> J!r_utf16_strlen_codepoints(v)]
    [] i.op = "valid32" -> [v |-> J!r_utf32_validate(v), c |-> J!r_utf32_to_utf8(20, v), n |-> 0]
    [] i.op = "wtf" -> LET w == J!r_utf16_to_wtf8_dup(v) IN [w |-> w, back |-> J!r_wtf8_to_utf16_dup(w.dst)]

\* What well-formed text is: a code point's octets (RFC 3629's table) or units.
Tail8(o) == o \in 128..191
Char8(s) ==
  \/ Len(s) = 1 /\ s[1] < 128
  \/ Len(s) = 2 /\ s[1] \in 194..223 /\ Tail8(s[2])
  \/ /\ Len(s) = 3 /\ Tail8(s[3])
     /\ \/ s[1] = 224 /\ s[2] \in 160..191
        \/ s[1] = 237 /\ s[2] \in 128..159
        \/ s[1] \in (225..239) \ {237} /\ Tail8(s[2])
  \/ /\ Len(s) = 4 /\ Tail8(s[3]) /\ Tail8(s[4])
     /\ \/ s[1] = 240 /\ s[2] \in 144..191
        \/ s[1] \in 241..243 /\ Tail8(s[2])
        \/ s[1] = 244 /\ s[2] \in 128..143
Char16(s) ==
  \/ Len(s) = 1 /\ s[1] \notin 55296..57343
  \/ Len(s) = 2 /\ s[1] \in 55296..56319 /\ s[2] \in 56320..57343
Char32(s) == Len(s) = 1 /\ s[1] <= 1114111 /\ s[1] \notin 55296..57343
\* The longest beginning made of whole characters, as their ends.
RECURSIVE Ends(_, _, _)
Ends(s, from, f) ==
  LET k == {n \in 1..4 : from + n <= Len(s) /\ LET c == SubSeq(s, from + 1, from + n) IN CASE f = "8" -> Char8(c) [] f = "16" -> Char16(c) [] f = "32" -> Char32(c)}
  IN  IF k = {} THEN <<from>> ELSE <<from>> \o Ends(s, from + (CHOOSE n \in k : TRUE), f)
Bom(s, f) == IF f = "8" THEN (IF Len(s) >= 3 /\ SubSeq(s, 1, 3) = <<239, 187, 191>> THEN 3 ELSE 0) ELSE IF s # <<>> /\ s[1] = 65279 THEN 1 ELSE 0
Stops(s, from, f, r) == r.end = Last(Ends(s, from, f)) /\ (r.res = "OK" <=> r.end = Len(s))
\* The whole characters that fit, in order.
Fit(text, f, room) ==
  CHOOSE n \in 0..Len(text) : Len(Coded(SubSeq(text, 1, n), f)) <= room /\ \A m \in n + 1..Len(text) : Len(Coded(SubSeq(text, 1, m), f)) > room
FromUnits(f) == f \in {"16", "be16"}
\* Text is converted exactly, and of a text that does not fit its longest
\* beginning; what is left to convert begins where *srcendptr says, but for
\* the conversions from UTF-16.  Whatever is read, the scan stops at the first
\* thing that is no character; an allocated destination is never too small.
UniRight(i, got) ==
  LET v == i.v IN
  CASE i.op = "convert" ->
         LET n == Fit(v[2], v[1][2], v[3] - 1) IN
         /\ got.dst = Coded(SubSeq(v[2], 1, n), v[1][2])
         /\ got.res = IF n = Len(v[2]) THEN "OK" ELSE "OVERFLOW"
         /\ (n = Len(v[2]) \/ ~FromUnits(v[1][1])) => got.end = Len(Coded(SubSeq(v[2], 1, n), v[1][1]))
    [] i.op = "dup" -> got.res = "OK" /\ got.dst = Coded(v[2], v[1][2])
    [] i.op = "valid8" -> /\ Stops(v, Bom(v, "8"), "8", got.v) /\ got.c.res = got.v.res /\ got.c.end = got.v.end
                          /\ got.n.count = Len(Ends(v, 0, "8")) - 1
                          /\ got.a.end = Ends(v, 0, "8")[IF got.n.count < 2 THEN got.n.count + 1 ELSE 3]
                          /\ (got.a.res = "OK" <=> got.n.count >= 2)
    [] i.op = "valid16" -> IF v # <<>> /\ v[1] = 65534 THEN got.v.res = "INVAL" /\ got.c.res = "INVAL"
                           ELSE /\ Stops(v, Bom(v, "16"), "16", got.v) /\ got.c.res = got.v.res /\ got.c.end = got.v.end
                                /\ got.n.count = Len(Ends(v, 0, "16")) - 1
    [] i.op = "valid32" -> Stops(v, Bom(v, "32"), "32", got.v) /\ got.c.res = got.v.res /\ got.c.end = got.v.end
    [] i.op = "wtf" -> IF v = <<>> \/ v[1] = 65534 THEN got.w.res = "INVAL"
                       ELSE IF v = <<65279>> THEN got.w.dst = <<>>
                       ELSE got.w.res = "OK" /\ ((v[1] # 65279 \/ v[2] # 65279) => got.back.dst = SubSeq(v, Bom(v, "16") + 1, Len(v)))
\* A text converted piece by piece, each time from where the last conversion
\* stopped, is the text converted at once.
RECURSIVE Pieces(_, _, _, _)
Pieces(p, src, dstsize, out) ==
  LET r == Into(p, dstsize, src)
  IN  IF r.res = "OVERFLOW" /\ r.end > 0 THEN Pieces(p, SubSeq(src, r.end + 1, Len(src)), dstsize, out \o r.dst) ELSE out \o r.dst
Resumes(i) == (i.op = "convert" /\ i.v[3] >= 5) => Pieces(i.v[1], Coded(i.v[2], i.v[1][1]), i.v[3], <<>>) = Coded(i.v[2], i.v[1][2])

-----------------------------------------------------------------------------
(* Cases for keys and certificates.  Inputs are put together by a small    *)
(* DER writer of this module's own, so that the library's encoder is       *)
(* compared with it and its decoder does not only read what it wrote.      *)
Len1(n) == IF n < 128 THEN <<n>> ELSE IF n < 256 THEN <<129, n>> ELSE <<130, n \div 256, n % 256>>
E(id, v) == <<id>> \o Len1(Len(v)) \o v
DerInt(n) == E(2, IF n < 128 THEN <<n>> ELSE IF n < 256 THEN <<0, n>> ELSE <<n \div 256, n % 256>>)
Ints(t) == FlattenSeq([i \in DOMAIN t |-> DerInt(t[i])])
DerSeq(v) == E(48, v)
Bits(v) == E(3, <<0>> \o v)
Null == <<5, 0>>

\* Keys: what is written for them, and the key that should be read.
Point(n) == [i \in 1..n |-> (11 * i) % 256]
CurveOid == [SECP256R1 |-> <<42, 134, 72, 206, 61, 3, 1, 7>>, SECP384R1 |-> <<43, 129, 4, 0, 34>>, SECP256K1 |-> <<43, 129, 4, 0, 10>>]
Spki(k) ==
  LET a == k.algo IN
  CASE a = "RSA" -> DerSeq(DerSeq(E(6, X!RsaOid) \o Null) \o Bits(DerSeq(Ints(k.par))))
    [] a = "DSA" -> DerSeq(DerSeq(E(6, X!DsaOid) \o DerSeq(Ints(SubSeq(k.par, 1, 3)))) \o Bits(DerInt(k.par[4])))
    [] a = "DH" -> DerSeq(DerSeq(E(6, X!DhOid) \o DerSeq(Ints(SubSeq(k.par, 1, 2)))) \o Bits(DerInt(k.par[3])))
    [] a \in {"ECDSA", "ECDH"} -> DerSeq(DerSeq(E(6, IF a = "ECDSA" THEN X!EcOid ELSE X!EcdhOid) \o E(6, CurveOid[k.par[1]])) \o Bits(k.par[2]))
    [] OTHER -> DerSeq(DerSeq(E(6, IF a = "ED25519" THEN X!Ed25519Oid ELSE X!Ed448Oid)) \o Bits(k.par[1]))
Pkcs8(k) ==
  LET a == k.algo
      whole(alg, key) == DerSeq(DerInt(0) \o DerSeq(alg) \o E(4, key))
  IN
  CASE a \in {"RSA", "DSA", "DH"} -> whole(E(6, CASE a = "RSA" -> X!RsaOid [] a = "DSA" -> X!DsaOid [] a = "DH" -> X!DhOid) \o Null, DerSeq(Ints(k.par)))
    [] a \in {"ECDSA", "ECDH"} -> whole(E(6, IF a = "ECDSA" THEN X!EcOid ELSE X!EcdhOid) \o E(6, CurveOid[k.par[1]]), DerSeq(DerInt(1) \o E(4, k.par[2])))
    [] OTHER -> whole(E(6, IF a = "ED25519" THEN X!Ed25519Oid ELSE X!Ed448Oid), E(4, k.par[1]))
Values == {1, 127, 128, 255, 256, 32767}
CurveKeys(type, n) == {X!Key(a, type, <<c, Point(n)>>) : a \in {"ECDSA", "ECDH"}, c \in DOMAIN CurveOid}
EdKeys(type) == {X!Key("ED25519", type, <<Point(32)>>), X!Key("ED448", type, <<Point(57)>>)}
PublicKeys == {X!Key("RSA", "public", <<n, e>>) : n, e \in Values} \cup {X!Key("DSA", "public", <<p, 128, 2, y>>) : p, y \in Values}
              \cup {X!Key("DH", "public", <<p, 2, y>>) : p, y \in Values} \cup CurveKeys("public", 65) \cup EdKeys("public")
PrivateKeys == {X!Key("RSA", "private", <<0, n, 3, d, 5, 7, 1, 2, 128>>) : n \in {33, 255, 32767}, d \in Values}
               \cup {X!Key("DSA", "private", <<0, p, 129, 2, 5, x>>) : p, x \in Values}
               \cup {X!Key("DH", "private", <<0, p, 2, x>>) : p, x \in Values} \cup CurveKeys("private", 32) \cup EdKeys("private")

\* OpenSSH lines.
Lv(v) == <<0, 0, Len(v) \div 256, Len(v) % 256>> \o v
SshLine(k) ==
  LET alg == IF k.algo = "RSA" THEN X!SshRsa ELSE X!SshDss
      nums == IF k.algo = "RSA" THEN <<k.par[2], k.par[1]>> ELSE k.par
      mag(n) == SubSeq(DerInt(n), 3, Len(DerInt(n)))
  IN  alg \o <<32>> \o X!r_base64_encode_dup(Lv(alg) \o FlattenSeq([i \in DOMAIN nums |-> Lv(mag(nums[i]))])).text

\* Certificates: a base one and what may be added to it.
Cn(x) == <<67, 78, 61, x>>
Gn(id, raw) == [id |-> 128 + id, raw |-> raw, str |-> IF id \in {1, 2, 6} THEN raw ELSE <<-1>>]
Base(v) == [X!NewCert EXCEPT !.version = v, !.serial = <<200, 1>>, !.issuer = Cn(97), !.subject = Cn(98), !.valid_from = 86460,
              !.valid_to = 951782405, !.pk = X!Key("RSA", "public", <<255, 3>>), !.signalgo = "SHA256", !.sign = <<7, 0>>]
FeatureList == <<"skid", "akid", "ca", "path", "ku", "eku", "san", "nc", "pol", "pm">>
With(c, f) ==
  CASE f = "skid" -> [c EXCEPT !.subjectKeyID = <<1, 2>>]
    [] f = "akid" -> [c EXCEPT !.authorityKeyID = <<3>>, !.authorityCertIssuer = <<Gn(2, <<97>>)>>, !.authorityCertSerial = <<9>>]
    [] f = "ca" -> [c EXCEPT !.ca = TRUE]
    [] f = "path" -> [c EXCEPT !.haspathLen = TRUE, !.pathLen = 3]
    [] f = "ku" -> [c EXCEPT !.keyUsage = {0, 5, 8}]
    [] f = "eku" -> [c EXCEPT !.extKeyUsage = {"SERVER_AUTH", "OCSP_SIGNING"}]
    [] f = "san" -> [c EXCEPT !.sans = <<Gn(2, <<97, 46, 98>>), Gn(7, <<1, 2>>)>>]
    [] f = "nc" -> [c EXCEPT !.ncPermitted = <<Gn(2, <<98>>)>>, !.ncExcluded = <<Gn(1, <<97>>), Gn(2, <<99>>)>>]
    [] f = "pol" -> [c EXCEPT !.policies = <<<<49, 46, 50, 46, 51>>, <<50, 46, 53, 46, 50, 57, 46, 51, 48, 48>>>>]
    [] f = "pm" -> [c EXCEPT !.policyMappings = <<<<<<49, 46, 50, 46, 51>>, <<49, 46, 50, 46, 52>>>>>>]
Certs == {Base(0), [Base(1) EXCEPT !.issuerUniqueID = <<5>>]}
         \cup {FoldLeft(With, [Base(2) EXCEPT !.subjectUniqueID = <<6>>], SelectSeq(FeatureList, LAMBDA f : f \in fs)) : fs \in {x \in SUBSET ToSet(FeatureList) : x # {} /\ Cardinality(x) \in {1, 2, 3, 10}}}

\* Hosts and patterns over two letters of both cases, dots and the star.
X509Names == UNION {[1..n -> {97, 65, 98, 46}] : n \in 0..4} \cup {<<49, 46, 50>>}
Patterns == UNION {[1..n -> {97, 46, 42}] : n \in 0..4} \cup {<<42, 46, 65>>, <<42, 46, 98, 46, 97>>}

X509Ops == {"spki", "pkcs8", "ssh", "cert", "host"}
X509Cases(op) ==
  CASE op = "spki" -> PublicKeys [] op = "pkcs8" -> PrivateKeys
    [] op = "ssh" -> {k \in PublicKeys : k.algo \in {"RSA", "DSA"}}
    [] op = "cert" -> Certs [] op = "host" -> X509Names \X Patterns
X509Case(i) == \E op \in X509Ops : \E v \in X509Cases(op) : i = [op |-> op, v |-> v]
Dec(bytes) == X!Next(X!r_asn1_bin_decoder_new("DER", bytes))
Sans(p) == [Base(2) EXCEPT !.sans = <<Gn(1, p), Gn(2, p), [Gn(2, Append(p, 0)) EXCEPT !.str = p], Gn(7, <<1, 2>>)>>]
X509Got(i) ==
  LET v == i.v IN
  CASE i.op = "spki" -> X!r_crypto_key_from_asn1_public_key(Dec(Spki(v) \o <<5, 0>>))
    [] i.op = "pkcs8" -> X!r_crypto_key_from_asn1_private_key(Dec(Pkcs8(v) \o <<5, 0>>))
    [] i.op = "ssh" -> X!r_crypto_key_import_ssh_public_key(SshLine(v))
    [] i.op = "cert" -> LET der == X!r_crypto_cert_get_data_buffer(v, <<-1>>) IN [der |-> der, c |-> X!r_crypto_x509_cert_new(der)]
    [] i.op = "host" -> X!r_crypto_x509_cert_verify_host(Sans(v[2]), v[1])

\* The TBSCertificate, the first element inside the certificate.
TbsOf(der) == LET s == X!Into(Dec(der)) IN SubSeq(der, s.tlv.start + 1, s.tlv.value + s.tlv.len)
Lower(s) == [j \in DOMAIN s |-> IF s[j] \in 65..90 THEN s[j] + 32 ELSE s[j]]
Matches(h, p) ==
  \/ Lower(h) = Lower(p)
  \/ \E k \in 1..Len(h) : h[k] = 46 /\ k > 1 /\ (\A j \in 1..k - 1 : h[j] # 46)
                          /\ Lower(p) = <<42>> \o Lower(SubSeq(h, k, Len(h)))
\* A key is read back as it was written, and the decoder is left on what
\* follows it.  A certificate is read back as it was exported, but for the
\* order of its policies.  A name matches itself in any case, or a star in
\* the place of exactly its first label; an address only an address entry.
X509Right(i, got) ==
  LET v == i.v IN
  CASE i.op \in {"spki", "pkcs8"} -> got.key = v /\ X!Id(got.dec) = 5
    [] i.op = "ssh" -> got = v
    [] i.op = "cert" -> got.c = [v EXCEPT !.policies = Reverse(@), !.signhash = <<v.signalgo, TbsOf(got.der)>>]
    [] i.op = "host" -> got <=> (v[1] = <<49, 46, 50>> \/ (v[1] # <<>> /\ Matches(v[1], v[2])))

-----------------------------------------------------------------------------
(* Cases for PEM text: keys and certificates written and read back,        *)
(* encrypted keys, and texts of several blocks with other text around.     *)

\* Public keys as SubjectPublicKeyInfo, private ones as their plain sequence;
\* of the other private keys nothing is exported.
Export(k) ==
  IF k.type = "public" THEN Spki(k) ELSE IF k.algo \in {"RSA", "DSA", "DH"} THEN DerSeq(Ints(k.par)) ELSE <<-1>>
P == INSTANCE X509 WITH SizeofSize <- 3, Sizeof32 <- 2, Sizeof64 <- 3, Bits64 <- 24, Utf8Valid <- AsciiOnly,
       Utf16beToUtf8 <- NoText, Utf32beToUtf8 <- NoText, IpOctets <- Literal, ToAsn1 <- Export, Bitsize <- BitsOf,
       Md5 <- Derive16, Pbkdf2 <- Derive, CbcDecrypt <- Decrypt, R_TRUST_MAX_CHAIN <- MaxChain, IssuedWith <- Signed

Padded(data) == LET n == 16 - (Len(data) % 16) IN data \o [i \in 1..n |-> n]
Iv == [i \in 1..16 |-> (i * 37) % 256]
Pass == <<112, 119>>
NL == P!Tok("NL")
Frame(label, body) ==
  <<P!Tok("BEGIN"), P!Word(label), P!Tok("DASH"), NL>> \o body \o <<NL, P!Tok("END"), P!Word(label), P!Tok("DASH"), NL>>
Text(data) == <<P!B64(P!r_base64_encode_dup_full(data, 16).text)>>
Keysize == [c \in {"AES-128-CBC", "AES-192-CBC", "AES-256-CBC"} |-> CASE c = "AES-128-CBC" -> 16 [] c = "AES-192-CBC" -> 24 [] OTHER -> 32]
\* The two digests a legacy key is the beginning of.
LegacyKey(n) == SubSeq(Derive16(Pass \o SubSeq(Iv, 1, 8)) \o Derive16(Derive16(Pass \o SubSeq(Iv, 1, 8)) \o Pass \o SubSeq(Iv, 1, 8)), 1, n)
Hex == [i \in 1..32 |-> IF i % 2 = 1 THEN Iv[(i + 1) \div 2] \div 16 ELSE Iv[i \div 2] % 16]
Legacy(k, c, hex, blank) ==
  Frame(P!r_pem_priv_key_label(k),
        <<P!Word("Proc-Type:"), P!Tok("SP"), P!Word("4,ENCRYPTED"), NL, P!Word("DEK-Info:"), P!Tok("SP"), P!Tok("SP"),
          [t |-> "DEK", cipher |-> c, hex |-> hex], NL>> \o blank
        \o Text(Encrypt(LegacyKey(Keysize[c]), Iv, Padded(P!r_pem_encode_priv_key(k)))))
\* EncryptedPrivateKeyInfo; opt: what follows the iteration count.
PrfOid(n) == DerSeq(E(6, <<42, 134, 72, 134, 247, 13, 2, n>>) \o Null)
Options == [none |-> <<>>, len |-> DerInt(16), prf |-> PrfOid(9), both |-> DerInt(16) \o PrfOid(9)]
Encrypted(k, last, opt) ==
  LET prf == IF opt \in {"prf", "both"} THEN "SHA256" ELSE "SHA1"
      size == CASE last = 2 -> 16 [] last = 22 -> 24 [] last = 42 -> 32
      kdf == DerSeq(E(6, P!Pkcs5(12)) \o DerSeq(E(4, <<9, 9>>) \o DerInt(2) \o Options[opt]))
      enc == DerSeq(E(6, <<96, 134, 72, 1, 101, 3, 4, 1, last>>) \o E(4, Iv))
      alg == DerSeq(E(6, P!Pkcs5(13)) \o DerSeq(kdf \o enc))
  IN  Frame("ENCRYPTED_PRIVATE_KEY",
            Text(DerSeq(alg \o E(4, Encrypt(Derive(prf, Pass, <<9, 9>>, 2, size), Iv, Padded(Pkcs8(k)))))))

\* Pieces of a file: blocks, and text that is none.
Rsa == P!Key("RSA", "public", <<255, 3>>)
Piece == [cert |-> P!r_pem_write_cert_dup(Base(0), <<-1>>, 64), key |-> P!r_pem_write_public_key_dup(Rsa, 0),
          other |-> Frame("UNHEARD_OF", Text(<<1>>)), inner |-> Frame("X509_CRL", Text(<<2>>) \o <<P!Tok("END"), P!Word("CERTIFICATE"), P!Tok("DASH")>>),
          words |-> <<P!Word("OTHER"), P!Tok("DASH"), NL>>, ending |-> <<P!Tok("END"), P!Word("CERTIFICATE"), P!Tok("DASH"), NL>>, blank |-> <<NL, NL>>]
TypeOf == [cert |-> "CERTIFICATE", key |-> "PUBLIC_KEY", other |-> "UNKNOWN", inner |-> "X509_CRL"]
Files == UNION {[1..n -> {"cert", "key", "other", "inner", "words", "ending", "blank"}] : n \in 1..4}

PemWritten == {k \in PrivateKeys : k.algo \in {"RSA", "DSA", "DH"}}
Few == {k \in PemWritten : \A i \in DOMAIN k.par : k.par[i] # 32767 /\ k.par[i] # 256}
PemOps == {"public", "private", "cert", "legacy", "pkcs8", "file"}
PemCases(op) ==
  CASE op = "public" -> PublicKeys \X {0, 1, 64}
    [] op = "private" -> PrivateKeys \X {0, 1, 64}
    [] op = "cert" -> {c \in Certs : c.keyUsage = {}} \X {0, 48}
    [] op = "legacy" -> {k \in Few : k.algo # "DH"} \X (DOMAIN Keysize) \X {"whole", "short", "odd", "bad", "noblank"} \X {Pass, <<1>>, <<-1>>}
    [] op = "pkcs8" -> {k \in PrivateKeys : k \in Few \/ k \notin PemWritten} \X {2, 22, 42} \X (DOMAIN Options) \X {Pass, <<1>>, <<-1>>}
    [] op = "file" -> Files
PemCase(i) == \E op \in PemOps : \E v \in PemCases(op) : i = [op |-> op, v |-> v]
HexOf(f) == CASE f = "short" -> SubSeq(Hex, 1, 16) [] f = "odd" -> SubSeq(Hex, 1, 31) [] f = "bad" -> [Hex EXCEPT ![7] = -1] [] OTHER -> Hex
FileText(v) == FlattenSeq([i \in DOMAIN v |-> Piece[v[i]]])
RECURSIVE AllBlocks(_)
AllBlocks(p) == LET r == P!r_pem_parser_next_block(p) IN IF r.block = P!NoBlock THEN <<>> ELSE <<r.block>> \o AllBlocks(r.p)
PemGot(i) ==
  LET v == i.v IN
  CASE i.op = "public" -> P!r_pem_parse_key_from_data(P!r_pem_write_public_key_dup(v[1], v[2]), <<-1>>)
    [] i.op = "private" -> P!r_pem_parse_key_from_data(P!r_pem_write_private_key_dup(v[1], v[2]), <<-1>>)
    [] i.op = "cert" -> LET c == P!r_pem_parse_cert_from_data(P!r_pem_write_cert_dup(v[1], <<-1>>, v[2])) IN [c EXCEPT !.signhash = <<-1>>]
    [] i.op = "legacy" -> P!r_pem_parse_key_from_data(Legacy(v[1], v[2], HexOf(v[3]), IF v[3] = "noblank" THEN <<>> ELSE <<NL>>), v[4])
    [] i.op = "pkcs8" -> P!r_pem_parse_key_from_data(Encrypted(v[1], v[2], v[3]), v[4])
    [] i.op = "file" -> LET p == P!r_pem_parser_new(FileText(v)) IN IF p = P!NoParser THEN <<>>
                        ELSE LET b == AllBlocks(p) IN [n \in DOMAIN b |-> [type |-> b[n].type, cert |-> P!r_pem_block_get_cert(b[n]) # P!NoCert,
                                                                         key |-> P!r_pem_block_get_key(b[n], <<-1>>)]]
\* A key or a certificate is read as it was written, whatever the line length;
\* an encrypted key only with its passphrase and whole headers.  A file yields
\* its blocks, all of them and in their order, and nothing else.
PemRight(i, got) ==
  LET v == i.v
      blocks == SelectSeq(i.v, LAMBDA x : x \in DOMAIN TypeOf)
  IN
  CASE i.op = "public" -> got = v[1]
    [] i.op = "private" -> got = (IF v[1] \in PemWritten THEN v[1] ELSE P!NoKey)
    [] i.op = "cert" -> got = [v[1] EXCEPT !.policies = Reverse(@), !.signhash = <<-1>>]
    [] i.op = "legacy" -> got = (IF v[3] = "whole" /\ v[4] = Pass THEN v[1] ELSE P!NoKey)
    [] i.op = "pkcs8" -> got = (IF v[4] = Pass THEN v[1] ELSE P!NoKey)
    [] i.op = "file" -> got = [n \in DOMAIN blocks |-> [type |-> TypeOf[blocks[n]], cert |-> blocks[n] = "cert",
                                                        key |-> IF blocks[n] = "key" THEN Rsa ELSE P!NoKey]]

-----------------------------------------------------------------------------
(* Cases for the trust store: chains over three names with certificates of *)
(* every quality, and the places a system store is loaded from.            *)
Now == 5
Cert(subject, issuer) ==
  [subject |-> subject, issuer |-> issuer, key |-> subject, signer |-> issuer, valid_from |-> 1, valid_to |-> 9, ca |-> TRUE,
   keyUsage |-> {}, pathLen |-> -1, extKeyUsage |-> {}, exports |-> TRUE, pk |-> subject]
Quality(c, q) ==
  CASE q = "good" -> c [] q = "expired" -> [c EXCEPT !.valid_to = 4] [] q = "early" -> [c EXCEPT !.valid_from = 6]
    [] q = "notca" -> [c EXCEPT !.ca = FALSE] [] q = "usage" -> [c EXCEPT !.keyUsage = {0}] [] q = "signs" -> [c EXCEPT !.keyUsage = {0, 5}]
    [] q = "path0" -> [c EXCEPT !.pathLen = 0] [] q = "path1" -> [c EXCEPT !.pathLen = 1]
    [] q = "otherkey" -> [c EXCEPT !.key = 9] [] q = "forged" -> [c EXCEPT !.signer = 8]
    [] q = "client" -> [c EXCEPT !.extKeyUsage = {"CLIENT_AUTH"}] [] q = "any" -> [c EXCEPT !.extKeyUsage = {"ANY"}]
TrustNames == 1..3
TrustLeaves == {Quality([Cert(0, n) EXCEPT !.ca = FALSE], "good") : n \in {1, 2}}
OddLeaves == {Quality([Cert(0, 1) EXCEPT !.ca = FALSE], q) : q \in {"expired", "early", "forged", "client", "any"}}
Inter(qs) == {Quality(Cert(s, i), q) : s, i \in TrustNames, q \in qs}
Anchors == {<<a>> : a \in {Quality(Cert(n, n), q) : n \in TrustNames, q \in {"good", "expired", "notca", "path0", "path1", "otherkey"}}}
           \cup {<<>>, <<Cert(3, 3), Cert(2, 2)>>}
Chains ==
  LET all == Inter({"good", "expired", "notca", "usage", "signs", "path0", "path1", "otherkey"}) IN
  {<<l>> \o m : l \in TrustLeaves, m \in {<<>>} \cup {<<a, b>> : a, b \in all}}
  \cup {<<l>> \o m : l \in OddLeaves, m \in {<<>>} \cup {<<a>> : a \in all}}
LongChains == {<<Cert(0, 1), a, b, c>> : a, b, c \in Inter({"good"})}

TrustTexts == {<<>>, <<[type |-> "PUBLIC_KEY", cert |-> <<>>]>>, <<[type |-> "CERTIFICATE", cert |-> <<>>], [type |-> "CERTIFICATE", cert |-> <<Cert(1, 1)>>]>>,
          <<[type |-> "CERTIFICATE", cert |-> <<Cert(2, 2)>>], [type |-> "CERTIFICATE", cert |-> <<Cert(3, 3)>>]>>}
FileNames == {"ca-certificates.crt", "cert.pem", "mine"}
Systems == {[env |-> [SSL_CERT_FILE |-> f, SSL_CERT_DIR |-> dd], files |-> fs, dirs |-> ds] :
              f \in {"", "mine"}, dd \in {"", "/etc/pki/tls/certs", "sub"}, fs \in UNION {[n -> TrustTexts] : n \in SUBSET FileNames},
              ds \in {("/etc/ssl/certs" :> <<"sub", "cert.pem">>) @@ ("/etc/pki/tls/certs" :> <<"mine", "cert.pem">>) @@ ("sub" :> <<>>),
                      ("/etc/pki/tls/certs" :> <<"gone", "mine">>) @@ ("sub" :> <<>>)}}

TrustOps == {"chain", "long", "system", "pin"}
TrustCases(op) ==
  CASE op = "chain" -> Chains \X Anchors [] op = "long" -> LongChains \X Anchors [] op = "system" -> Systems
    [] op = "pin" -> (SUBSET {1, 2, 3}) \X {Quality([Cert(n, 1) EXCEPT !.exports = x], q) : n \in TrustNames, x \in BOOLEAN, q \in {"good", "expired"}}
TrustCase(i) == \E op \in TrustOps : \E v \in TrustCases(op) : i = [op |-> op, v |-> v]
NoOs == [open |-> FALSE]
\* Only the odd leaves are asked for a purpose.
Purpose(leaf) == IF leaf \in OddLeaves THEN {"SERVER_AUTH"} ELSE {}
TrustGot(i) ==
  LET v == i.v IN
  CASE i.op \in {"chain", "long"} ->
         X!r_trust_store_verify(FoldLeft(LAMBDA s, c : X!r_trust_store_add_cert(s, c).store, X!r_trust_store_new_certs, v[2]),
                                v[1], Now, Purpose(v[1][1]), NoOs)
    [] i.op = "system" -> X!r_trust_store_new_system("unix", FALSE, v.env, v.files, v.dirs)
    [] i.op = "pin" -> X!r_trust_store_verify(
         FoldLeft(LAMBDA s, n : X!r_trust_store_pin_cert_spki(s, Cert(n, 1)).store, X!r_trust_store_new_pinned_spki,
                  SelectSeq(<<1, 2, 3>>, LAMBDA n : n \in v[1])), <<v[2]>>, Now, {}, NoOs)

\* Reference: paths of distinct certificates of the chain, from the leaf.
Valid(c) == c.valid_from <= Now /\ Now <= c.valid_to
Issued(c, i) == i.subject = c.issuer /\ i.key = c.signer
CaAt(c, below) == Valid(c) /\ c.ca /\ (c.keyUsage = {} \/ 5 \in c.keyUsage) /\ (c.pathLen < 0 \/ c.pathLen >= below)
IsPath(chain, p) ==
  /\ p[1] = 1 /\ \A j, k \in DOMAIN p : p[j] = p[k] => j = k
  /\ \A j \in 2..Len(p) : Issued(chain[p[j - 1]], chain[p[j]]) /\ CaAt(chain[p[j]], j - 2)
Trusted(chain, anchors, p) ==
  /\ IsPath(chain, p)
  /\ \E a \in ToSet(anchors) : Issued(chain[Last(p)], a) /\ Valid(a) /\ (a.pathLen < 0 \/ a.pathLen >= Len(p) - 1)
Paths(n) == UNION {[1..k -> 1..n] : k \in 1..n}
\* There is never a choice of issuers.
NoChoice(chain, anchors) ==
  \A j \in DOMAIN chain : Cardinality({k \in DOMAIN chain \ {1, j} : Issued(chain[j], chain[k])}) + Cardinality({a \in DOMAIN anchors : Issued(chain[j], anchors[a])}) <= 1
LeafFits(l) == Valid(l) /\ (l \in OddLeaves => l.extKeyUsage \cap {"SERVER_AUTH", "ANY"} # {})
\* The first source that gives a certificate, of those that apply.
CertsOf(text) == LET c == SelectSeq(text, LAMBDA b : b.cert # <<>>) IN [k \in DOMAIN c |-> c[k].cert[1]]
FileCerts(v, f) == IF f \in DOMAIN v.files THEN CertsOf(v.files[f]) ELSE <<>>
DirCerts(v, dd) == IF dd \in DOMAIN v.dirs THEN FlattenSeq([k \in DOMAIN v.dirs[dd] |-> FileCerts(v, v.dirs[dd][k])]) ELSE <<>>
Sources(v) ==
  IF v.env.SSL_CERT_FILE # "" THEN <<FileCerts(v, "mine")>> ELSE IF v.env.SSL_CERT_DIR # "" THEN <<DirCerts(v, v.env.SSL_CERT_DIR)>>
  ELSE <<FileCerts(v, "ca-certificates.crt"), FileCerts(v, "cert.pem"), DirCerts(v, "/etc/ssl/certs"), DirCerts(v, "/etc/pki/tls/certs")>>
\* A chain is accepted only when a path leads from its leaf to an anchor, and,
\* where no certificate has two issuers, whenever one does; of a chain that is
\* too long only its beginning counts.
TrustRight(i, got) ==
  LET v == i.v IN
  CASE i.op \in {"chain", "long"} ->
         LET chain == SubSeq(v[1], 1, IF Len(v[1]) > MaxChain THEN MaxChain ELSE Len(v[1]))
             fits == LeafFits(chain[1])
             some == \E p \in Paths(Len(chain)) : Trusted(chain, v[2], p)
         IN  (got = "OK" => fits /\ some) /\ (fits /\ some /\ NoChoice(chain, v[2]) => got = "OK")
    [] i.op = "system" -> LET full == SelectSeq(Sources(v), LAMBDA s : s # <<>>)
                          IN  got = IF full = <<>> THEN X!NoStore ELSE [kind |-> "certs", anchors |-> full[1]]
    [] i.op = "pin" -> got = "OK" <=> (Valid(v[2]) /\ v[2].exports /\ v[2].pk \in v[1])

-----------------------------------------------------------------------------
(* Cases for the RTP, RTCP and STUN codecs: every small packet built by the *)
(* writers, whole and cut short, read back.  The keyed digest is any       *)
(* function that tells its arguments apart on these cases.                 *)
RECURSIVE Part(_, _, _)
Part(s, a, b) == IF a > b THEN 0 ELSE IF a = b THEN a * (s[a] + a) ELSE LET m == (a + b) \div 2 IN Part(s, a, m) + Part(s, m + 1, b)
Sum(s) == Part(s, 1, Len(s)) % 65521
Digest(n, s) == [i \in 1..n |-> (Sum(s) * i + Sum(s) \div 256) % 256]
Keyed(key, s) == Digest(20, key \o s)
Check(s) == Digest(4, s)
Md(s) == Digest(16, s)
V == INSTANCE Wire WITH Hmac <- Keyed, Crc <- Check, Md5 <- Md

W(n) == <<n, 0, 255, n>>
Octets(n) == [i \in 1..n |-> (7 * i) % 256]
Rbs == {<<>>, <<<<W(1), 3, -2, W(2), W(3), W(4), W(5)>>>>, <<<<W(1), 0, 8388607, W(2), W(3), W(4), W(5)>>, <<W(9), 255, -8388608, W(0), W(3), W(4), W(5)>>>>}
Items == {<<>>} \cup {<<<<1, Octets(n)>>>> : n \in 0..4} \cup {<<<<2, Octets(n)>>, <<8, <<>>>>>> : n \in 1..3}
\* One packet: its kind and contents, and the packet added to a buffer.
Packets == ({"sr", "rr"} \X Rbs) \cup ({"sdes"} \X Items) \cup ({"bye"} \X ({<<>>, <<W(1)>>, <<W(1), W(2)>>} \X {V!NoBuffer, <<>>, <<5>>, Octets(3), Octets(4)}))
           \cup ({"app", "fb"} \X {<<>>, W(6), W(6) \o W(7), <<1>>})
Add(o, p) ==
  CASE p[1] = "sr" -> V!r_rtcp_buffer_add_sr(o, <<W(1), W(2) \o W(3), W(4), W(5), W(6)>>, p[2])
    [] p[1] = "rr" -> V!r_rtcp_buffer_add_rr(o, W(1), p[2])
    [] p[1] = "sdes" -> V!r_rtcp_buffer_add_sdes(o, W(1), p[2])
    [] p[1] = "bye" -> V!r_rtcp_buffer_add_bye(o, p[2][1], p[2][2])
    [] p[1] = "app" -> V!r_rtcp_buffer_add_app(o, 3, W(1), W(80), p[2])
    [] p[1] = "fb" -> V!r_rtcp_buffer_add_fb(o, V!PSFB, 1, W(1), W(2), p[2])
\* What the readers make of the packet at p of a kind.
Blocks(o, p) == [i \in 1..V!r_rtcp_packet_get_count(o, p) |-> V!r_rtcp_packet_sr_get_report_block(o, p, i - 1)]
SdesOf(o, p) ==
  LET c == V!r_rtcp_packet_sdes_get_next_chunk(o, p, -1)
      s == V!SdesItems(o, p, c)
  IN  [ssrc |-> V!r_rtcp_packet_sdes_chunk_get_ssrc(o, p, c), end |-> s[Len(s)].res, next |-> V!r_rtcp_packet_sdes_get_next_chunk(o, p, c),
       items |-> [i \in 1..Len(s) - 1 |-> <<s[i].type, SubSeq(o, s[i].at + 1, s[i].at + s[i].len)>>]]
Reads(o, p, packet) ==
  CASE packet[1] = "sr" -> V!r_rtcp_packet_sr_get_sender_info(o, p) = <<W(1), W(2) \o W(3), W(4), W(5), W(6)>> /\ Blocks(o, p) = packet[2]
    [] packet[1] = "rr" -> V!r_rtcp_packet_rr_get_ssrc(o, p) = W(1) /\ Blocks(o, p) = packet[2]
    [] packet[1] = "sdes" -> SdesOf(o, p) = [ssrc |-> W(1), end |-> "ZERO", next |-> -1, items |-> packet[2]]
    [] packet[1] = "bye" -> /\ [i \in 1..V!r_rtcp_packet_get_count(o, p) |-> V!r_rtcp_packet_bye_get_ssrc(o, p, i - 1)] = packet[2][1]
                           /\ V!r_rtcp_packet_bye_get_reason(o, p, 9) = IF packet[2][2] = V!NoBuffer THEN <<"ZERO", <<>>>> ELSE <<"OK", packet[2][2]>>
    [] packet[1] = "app" -> /\ V!r_rtcp_packet_app_get_ssrc(o, p) = W(1) /\ V!r_rtcp_packet_app_get_name(o, p) = W(80)
                           /\ V!r_rtcp_packet_app_get_data(o, p) = packet[2]
    [] packet[1] = "fb" -> /\ V!r_rtcp_packet_fb_get_sender_ssrc(o, p) = W(1) /\ V!r_rtcp_packet_fb_get_media_ssrc(o, p) = W(2)
                          /\ V!r_rtcp_packet_fb_get_fci(o, p) = packet[2] /\ V!r_rtcp_packet_fb_get_fmt(o, p) = 1
Compound(ps) == LET f[n \in 0..Len(ps)] == IF n = 0 THEN <<>> ELSE IF f[n - 1] = V!NoBuffer THEN V!NoBuffer ELSE Add(f[n - 1], ps[n]) IN f[Len(ps)]
Refusable(p) == p[1] \in {"app", "fb"} /\ Len(p[2]) % 4 # 0

Rtps == [pay : {<<>>, <<1>>, Octets(5)}, pad : {0, 1, 4}, cc : {0, 2}, ext : {V!NoBuffer, <<48862, <<>>>>, <<4096, Octets(8)>>}, pt : {0, 63, 64, 95, 96, 127}]
RtpOf(c) ==
  LET b == V!r_rtp_new(c.pay, c.pad, c.cc, c.ext)
      s == V!r_rtp_buffer_set_ssrc(V!r_rtp_buffer_set_timestamp(V!r_rtp_buffer_set_seq(V!r_rtp_buffer_set_pt(V!r_rtp_buffer_set_marker(b, TRUE), c.pt), 513), W(7)), W(8))
  IN  IF c.cc > 0 THEN V!r_rtp_buffer_set_csrc(s, 1, W(9)).o ELSE s

\* STUN: attributes, then the integrity and the fingerprint, in a buffer of a size.
Addr == {[family |-> "IPV4", port |-> 8466, ip |-> <<10, 0, 0, 1>>], [family |-> "IPV6", port |-> 1, ip |-> Octets(16)]}
Attrs == {<<"string", Octets(n)>> : n \in 0..4} \cup {<<"addr", a>> : a \in Addr} \cup {<<"error", c>> : c \in {300, 487, 699}}
AddAttr(c, a) ==
  CASE a[1] = "string" -> V!r_stun_msg_add_string(c, 6, a[2])
    [] a[1] = "addr" -> V!r_stun_msg_add_xor_address(c, 32, a[2])
    [] a[1] = "error" -> V!r_stun_msg_add_error_code(c, a[2], <<66, 97, 100>>)
ReadAttr(m, tlv, a) ==
  CASE a[1] = "string" -> tlv.type = 6 /\ V!Value(m, tlv) = a[2]
    [] a[1] = "addr" -> tlv.type = 32 /\ V!r_stun_attr_tlv_parse_xor_address(m, tlv) = a[2]
    [] a[1] = "error" -> tlv.type = 9 /\ V!r_stun_attr_tlv_parse_error_code(m, tlv) = a[2]
Id == Octets(12)
StunOf(as, sized, key) ==
  LET c0 == V!r_stun_msg_begin(sized, 256, 1, Id)
      f[n \in 0..Len(as)] == IF n = 0 THEN [ok |-> TRUE, ctx |-> c0] ELSE LET p == f[n - 1] IN IF p.ok THEN AddAttr(p.ctx, as[n]) ELSE p
      i == V!r_stun_msg_add_message_integrity_short_cred(f[Len(as)].ctx, key)
  IN  [ok |-> f[Len(as)].ok /\ i.ok, m |-> V!r_stun_msg_end(i.ctx, TRUE)]

WireOps == {"rtp", "rtcp", "stun", "channel"}
WireCases(op) ==
  CASE op = "rtp" -> Rtps \X {0, 1, 5, 9}
    [] op = "rtcp" -> ({<<p>> : p \in Packets} \cup {<<p, q>> : p \in {x \in Packets : ~Refusable(x)}, q \in Packets}) \X {0, 3, 8}
    [] op = "stun" -> ({<<a>> : a \in Attrs} \cup Attrs \X Attrs) \X {44, 52, 68, 200}
    [] op = "channel" -> (0..9) \X {16384, 20000, 32767, 16383}
WireCase(i) == \E op \in WireOps : \E v \in WireCases(op) : i = [op |-> op, v |-> v]

Cut(o, n) == SubSeq(o, 1, IF Len(o) > n THEN Len(o) - n ELSE 0)
WireGot(i) ==
  LET v == i.v IN
  CASE i.op = "rtp" -> Cut(RtpOf(v[1]), v[2])
    [] i.op = "rtcp" -> LET o == Compound(v[1]) IN IF o = V!NoBuffer THEN o ELSE Cut(o, v[2])
    [] i.op = "stun" -> StunOf(v[1], v[2], <<1, 2>>)
    [] i.op = "channel" -> V!r_stun_channel_data_encode(12, v[2], Octets(v[1]))

RtpRight(c, cut, o) ==
  LET rtp == V!r_rtp_buffer_map(o, FALSE)
      head == 12 + 4 * c.cc + (IF c.ext = V!NoBuffer THEN 0 ELSE 4 + Len(c.ext[2]))
      mux == c.pt \in 64..95
  IN  /\ V!r_rtp_is_valid_hdr(o) <=> ~mux /\ Len(o) >= head
      /\ rtp # V!NoMap <=> ~mux /\ Len(o) > head
      /\ cut = 0 /\ rtp # V!NoMap =>
           /\ SubSeq(o, rtp.pay[1] + 1, rtp.pay[1] + rtp.pay[2]) = c.pay
           /\ V!r_rtp_buffer_get_padding(o) = c.pad /\ V!r_rtp_buffer_get_extension(o, rtp) = c.ext
           /\ V!r_rtp_buffer_get_pt(o) = c.pt /\ V!r_rtp_buffer_has_marker(o) /\ V!r_rtp_buffer_get_seq(o) = 513
           /\ V!r_rtp_buffer_get_timestamp(o) = W(7) /\ V!r_rtp_buffer_get_ssrc(o) = W(8)
           /\ c.cc > 0 => V!r_rtp_buffer_get_csrc(o, 1) = W(9) /\ V!r_rtp_buffer_get_csrc(o, 2) = V!Zero(4)
RtcpRight(ps, cut, o) ==
  LET at == V!Packets(o)
      n == Len(ps) - (IF cut > 0 THEN 1 ELSE 0)
  IN  IF \E k \in DOMAIN ps : Refusable(ps[k]) THEN o = V!NoBuffer
      ELSE /\ Len(at) <= Len(ps) /\ (cut \in {0, 3} => Len(at) = n)
           /\ \A k \in DOMAIN at : /\ Reads(o, at[k], ps[k])
                                   /\ V!r_rtcp_buffer_get_next_packet(o, at[k]) = IF k < Len(at) THEN at[k + 1] ELSE -1
StunRight(as, sized, r) ==
  LET tlvs == V!Attributes(r.m)
      n == Len(as)
      finger == Len(tlvs) = n + 2
  IN  /\ Len(r.m) <= sized /\ V!r_stun_is_valid_msg(r.m) /\ V!r_stun_msg_len(r.m) + 20 = Len(r.m)
      /\ r.ok => /\ Len(tlvs) \in {n + 1, n + 2} /\ (finger <=> Len(r.m) = tlvs[n + 1].start + 32)
                 /\ \A k \in 1..n : ReadAttr(r.m, tlvs[k], as[k])
                 /\ V!r_stun_msg_check_integrity_short_cred(r.m, tlvs[n + 1], <<1, 2>>)
                 /\ ~V!r_stun_msg_check_integrity_short_cred(r.m, tlvs[n + 1], <<2, 1>>)
                 /\ finger => V!r_stun_msg_check_fingerprint(r.m, tlvs[n + 2])
WireRight(i, got) ==
  LET v == i.v IN
  CASE i.op = "rtp" -> RtpRight(v[1], v[2], got)
    [] i.op = "rtcp" -> RtcpRight(v[1], v[2], got)
    [] i.op = "stun" -> StunRight(v[1], v[2], got)
    [] i.op = "channel" -> IF v[1] > 8 THEN got = <<>>
                           ELSE V!r_stun_channel_data_parse(got) = IF v[2] < 16384 THEN V!NoChannel ELSE [channel |-> v[2], data |-> Octets(v[1])]
=============================================================================
