-------------------------------- MODULE X509 --------------------------------
(***************************************************************************)
(* Keys behind the generic interface (src/rlib/crypto/rkey.c): dispatch by *)
(* the key's table of operations, and import from SubjectPublicKeyInfo,    *)
(* from PKCS#8 and from an OpenSSH line.                                   *)
(*                                                                         *)
(* A key is [algo, type, par], par the tuple of its parameters.            *)
(* An importer answers [key, dec]: decoder calls are threaded as made, so  *)
(* that where it leaves the caller's TLV is part of the answer.            *)
(***************************************************************************)
EXTENDS Asn1, Str, Integers, Sequences, SequencesExt

NoKey == [algo |-> "NONE"]
Key(algo, type, par) == [algo |-> algo, type |-> type, par |-> par]

\* The entries of each RCryptoAlgoInfo that are not NULL.
Table(key) ==
  LET pub == key.type = "public" IN
  CASE key.algo = "RSA" -> {"encrypt", "decrypt", "verify", "export"} \cup (IF pub THEN {} ELSE {"sign"})
    [] key.algo \in {"DSA", "ECDSA"} -> {"verify", "export"} \cup (IF pub THEN {} ELSE {"sign"})
    [] key.algo \in {"DH", "ECDH"} -> {"export"}
    [] key.algo \in {"ED25519", "ED448"} -> {"verify"} \cup (IF pub THEN {} ELSE {"sign"})
    [] key.algo = "XDH" -> {}
\* nulls: is one of the pointer arguments, the prng included, NULL?
Dispatch(key, op, nulls, Do) ==
  IF key = NoKey \/ nulls THEN "INVAL" ELSE IF op \notin Table(key) THEN "NOT_AVAILABLE" ELSE Do
r_crypto_key_get_type(key) == key.type
r_crypto_key_get_algo(key) == key.algo
r_crypto_key_encrypt(key, nulls, Do) == Dispatch(key, "encrypt", nulls, Do)
r_crypto_key_decrypt(key, nulls, Do) == Dispatch(key, "decrypt", nulls, Do)
r_crypto_key_sign(key, nulls, Do) == Dispatch(key, "sign", nulls, Do)
r_crypto_key_verify(key, nulls, Do) == Dispatch(key, "verify", nulls, Do)
r_crypto_key_to_asn1(key, nulls, Do) == Dispatch(key, "export", nulls, Do)
-----------------------------------------------------------------------------
\* OpenSSH: length-prefixed values after the first space, in base64.
Rest(data, n) == SubSeq(data, n + 1, Len(data))
LvSize(data) == U(SubSeq(data, 1, 4))
\* A first octet above 0 makes a length no data here has.
r_crypto_key_decode_bin_lv(data) ==
  IF Len(data) <= 4 \/ SubSeq(data, 1, 1) # <<0>> THEN [ok |-> FALSE]
  ELSE IF LvSize(data) > Len(data) - 4 THEN [ok |-> FALSE]
  ELSE [ok |-> TRUE, v |-> SubSeq(data, 5, 4 + LvSize(data)), rest |-> Rest(data, 4 + LvSize(data))]
RECURSIVE LvFields(_, _)
LvFields(data, n) ==
  LET f == r_crypto_key_decode_bin_lv(data)
  IN  IF n = 0 THEN <<>> ELSE IF ~f.ok THEN <<>> ELSE <<U(f.v)>> \o LvFields(f.rest, n - 1)
r_crypto_key_decode_bin_rsa_pub(data) ==
  LET f == LvFields(data, 2) IN IF Len(f) < 2 THEN NoKey ELSE Key("RSA", "public", <<f[2], f[1]>>)
r_crypto_key_decode_bin_dsa_pub(data) ==
  LET f == LvFields(data, 4) IN IF Len(f) < 4 THEN NoKey ELSE Key("DSA", "public", f)
SshRsa == <<115, 115, 104, 45, 114, 115, 97>>
SshDss == <<115, 115, 104, 45, 100, 115, 115>>
r_crypto_key_import_ssh_public_key(text) ==
  LET sp == r_strnchr(text, 32, Len(text))
      bin == r_base64_decode_dup(From(text, sp + 1)).data
      alg == SubSeq(bin, 5, 4 + LvSize(bin))
      body == Rest(bin, 4 + LvSize(bin))
  IN  IF text = NullStr \/ sp = -1 THEN NoKey
      ELSE IF Len(bin) <= 4 THEN NoKey
      ELSE IF LvSize(bin) >= Len(bin) - 4 THEN NoKey
      ELSE IF alg = SshRsa THEN r_crypto_key_decode_bin_rsa_pub(body)
      ELSE IF alg = SshDss THEN r_crypto_key_decode_bin_dsa_pub(body)
      ELSE NoKey
-----------------------------------------------------------------------------
\* Calls on the decoder.
Next(s) == r_asn1_bin_decoder_next(s)
Into(s) == r_asn1_bin_decoder_into(s)
Out(s) == r_asn1_bin_decoder_out(s)
OK(s) == s.st = "OK"
Mpint(s) == r_asn1_bin_tlv_parse_integer_mpint(s)

RsaOid == Pkcs1(1)
DhOid == <<42, 134, 72, 134, 247, 13, 1, 3, 1>>
DsaOid == <<42, 134, 72, 206, 56, 4, 1>>
EcOid == <<42, 134, 72, 206, 61, 2, 1>>
EcdhOid == <<43, 129, 4, 1, 12>>
Ed25519Oid == <<43, 101, 112>>
Ed448Oid == <<43, 101, 113>>
r_ecurve_id_from_oid(oid) ==
  IF oid = <<42, 134, 72, 206, 61, 3, 1, 1>> THEN "SECP192R1" ELSE IF oid = <<42, 134, 72, 206, 61, 3, 1, 7>> THEN "SECP256R1"
  ELSE IF Len(oid) = 5 /\ SubSeq(oid, 1, 4) = <<43, 129, 4, 0>> /\ oid[5] \in {10, 31, 32, 33, 34, 35}
       THEN <<"SECP256K1", "SECP192K1", "SECP224K1", "SECP224R1", "SECP384R1", "SECP521R1">>[IF oid[5] = 10 THEN 1 ELSE oid[5] - 29]
  ELSE "NONE"
EdSize == [ED25519 |-> 32, ED448 |-> 57]

\* Integers one after the other while there are any, at most n.
RECURSIVE Parameters(_, _, _)
Parameters(s, n, f) ==
  IF n = 0 \/ ~IsTag(s, INTEGER) THEN [dec |-> s, f |-> f] ELSE Parameters(Next(s), n - 1, Append(f, Mpint(s).val))
PubRsa(s) ==
  LET bits == Into(Out(s))
      n == Into(bits)
      e == Next(n)
      ok == Mpint(n).st = "OK" /\ OK(e) /\ Mpint(e).st = "OK"
      last == IF Mpint(n).st = "OK" THEN e ELSE n
  IN  IF ~OK(bits) THEN [key |-> NoKey, dec |-> bits]
      ELSE IF ~OK(n) THEN [key |-> NoKey, dec |-> Out(n)]
      ELSE [key |-> IF ok THEN Key("RSA", "public", <<Mpint(n).val, Mpint(e).val>>) ELSE NoKey, dec |-> Out(Out(last))]
\* DH and DSA: parameters beside the OID, the public value in the bit string.
PubParams(s, algo, count) ==
  LET n == Next(s)
      in == Into(n)
      p == Parameters(in, count, <<>>)
      constructed == (Id(n) \div 32) % 2 = 1
      after == IF constructed /\ OK(in) THEN Out(p.dec) ELSE IF constructed THEN in ELSE n
      par == IF constructed /\ OK(in) THEN p.f \o Zeros(count - Len(p.f)) ELSE Zeros(count)
      y == Into(Out(after))
  IN  IF ~OK(y) THEN [key |-> NoKey, dec |-> y]
      ELSE [key |-> IF Mpint(y).st = "OK" THEN Key(algo, "public", Append(par, Mpint(y).val)) ELSE NoKey, dec |-> Out(y)]
BitKey(s) == Tail(Value(s))
PubCurve(s, algo) ==
  LET n == Next(s)
      curve == r_ecurve_id_from_oid(Value(n))
      bits == Out(n)
  IN  IF OK(n) /\ IsTag(n, OBJECT_IDENTIFIER) /\ curve # "NONE"
      THEN [dec |-> bits,
            key |-> IF IsTag(bits, BIT_STRING) /\ bits.tlv.len >= 2 /\ Value(bits)[1] = 0
                    THEN Key(algo, "public", <<curve, BitKey(bits)>>) ELSE NoKey]
      ELSE [key |-> NoKey, dec |-> bits]
PubEd(s, algo) ==
  LET bits == Out(s)
  IN  [dec |-> bits,
       key |-> IF IsTag(bits, BIT_STRING) /\ bits.tlv.len = EdSize[algo] + 1 /\ Value(bits)[1] = 0
               THEN Key(algo, "public", <<BitKey(bits)>>) ELSE NoKey]
r_crypto_key_from_asn1_public_key(s) ==
  LET in == Into(s)
      alg == Into(in)
      oid == Value(alg)
      k == IF ~IsTag(alg, OBJECT_IDENTIFIER) THEN [key |-> NoKey, dec |-> Out(alg)]
           ELSE IF oid = RsaOid THEN PubRsa(alg)
           ELSE IF oid = DhOid THEN PubParams(alg, "DH", 2)
           ELSE IF oid = DsaOid THEN PubParams(alg, "DSA", 3)
           ELSE IF oid = EcOid THEN PubCurve(alg, "ECDSA")
           ELSE IF oid = EcdhOid THEN PubCurve(alg, "ECDH")
           ELSE IF oid = Ed25519Oid THEN PubEd(alg, "ED25519")
           ELSE IF oid = Ed448Oid THEN PubEd(alg, "ED448")
           ELSE [key |-> NoKey, dec |-> Out(alg)]
  IN  IF ~OK(in) THEN [key |-> NoKey, dec |-> in]
      ELSE IF ~OK(alg) THEN [key |-> NoKey, dec |-> Out(alg)]
      ELSE [k EXCEPT !.dec = Out(k.dec)]
-----------------------------------------------------------------------------
\* PKCS#8.  A version and n integers inside the element at s; it is not left.
RECURSIVE Fields(_, _, _)
Fields(s, n, f) ==
  LET p == IF f = <<>> THEN r_asn1_bin_tlv_parse_integer_i32(s) ELSE Mpint(s)
  IN  IF ~OK(s) THEN [dec |-> s, f |-> f]
      ELSE IF p.st # "OK" THEN [dec |-> s, f |-> f]
      ELSE IF n = 1 THEN [dec |-> s, f |-> Append(f, p.val)]
      ELSE Fields(Next(s), n - 1, Append(f, p.val))
\* The precomputed caches want an odd modulus (RSA: and odd primes).
Odd(x) == x % 2 = 1
r_rsa_priv_key_new_from_asn1(s) ==
  LET r == Fields(Into(s), 9, <<>>)
  IN  [dec |-> r.dec, key |-> IF Len(r.f) = 9 /\ Odd(r.f[2]) /\ ((r.f[5] # 0 /\ r.f[6] # 0) => (Odd(r.f[5]) /\ Odd(r.f[6])))
                              THEN Key("RSA", "private", r.f) ELSE NoKey]
r_dsa_priv_key_new_from_asn1(s) ==
  LET r == Fields(Into(s), 6, <<>>)
  IN  [dec |-> r.dec, key |-> IF Len(r.f) = 6 /\ Odd(r.f[3]) THEN Key("DSA", "private", r.f) ELSE NoKey]
\* The public value is computed from these.
r_dh_priv_key_new_from_asn1(s) ==
  LET r == Fields(Into(s), 4, <<>>)
  IN  [dec |-> r.dec, key |-> IF Len(r.f) = 4 THEN Key("DH", "private", r.f) ELSE NoKey]
r_ecc_priv_key_new_from_asn1(s, curve, algo) ==
  LET in == Into(s)
      n == Next(in)
      ver == OK(in) /\ r_asn1_bin_tlv_parse_integer_i32(in).st = "OK"
  IN  [dec |-> IF ver THEN n ELSE in,
       key |-> IF ver /\ OK(n) /\ IsTag(n, OCTET_STRING) /\ n.tlv.len > 0
               THEN Key(algo, "private", <<curve, Value(n)>>) ELSE NoKey]
PrivEd(s, algo) ==
  [dec |-> s, key |-> IF IsTag(s, OCTET_STRING) /\ s.tlv.len = EdSize[algo] THEN Key(algo, "private", <<Value(s)>>) ELSE NoKey]
\* Out of the algorithm and into the key's octet string; Read takes it from there.
Inside(s, Read(_)) ==
  LET o == Out(s)
      in == Into(o)
  IN  IF ~OK(o) THEN [key |-> NoKey, dec |-> o] ELSE IF ~OK(in) THEN [key |-> NoKey, dec |-> in]
      ELSE [Read(in) EXCEPT !.dec = Out(@)]
PrivCurve(s, algo) ==
  LET n == Next(s)
      curve == r_ecurve_id_from_oid(Value(n))
  IN  IF OK(n) /\ IsTag(n, OBJECT_IDENTIFIER) /\ curve # "NONE"
      THEN Inside(n, LAMBDA t : r_ecc_priv_key_new_from_asn1(t, curve, algo)) ELSE [key |-> NoKey, dec |-> n]
r_crypto_key_from_asn1_private_key(s) ==
  LET in == Into(s)
      ver == Next(in)
      alg == Into(ver)
      oid == Value(alg)
      k == IF ~IsTag(alg, OBJECT_IDENTIFIER) THEN [key |-> NoKey, dec |-> alg]
           ELSE IF oid = RsaOid THEN Inside(alg, r_rsa_priv_key_new_from_asn1)
           ELSE IF oid = DhOid THEN Inside(alg, r_dh_priv_key_new_from_asn1)
           ELSE IF oid = DsaOid THEN Inside(alg, r_dsa_priv_key_new_from_asn1)
           ELSE IF oid = EcOid THEN PrivCurve(alg, "ECDSA")
           ELSE IF oid = EcdhOid THEN PrivCurve(alg, "ECDH")
           ELSE IF oid = Ed25519Oid THEN Inside(alg, LAMBDA t : PrivEd(t, "ED25519"))
           ELSE IF oid = Ed448Oid THEN Inside(alg, LAMBDA t : PrivEd(t, "ED448"))
           ELSE [key |-> NoKey, dec |-> alg]
  IN  IF ~OK(in) \/ ~OK(ver) THEN [key |-> NoKey, dec |-> IF OK(in) THEN ver ELSE in]
      ELSE IF ~OK(alg) THEN [key |-> NoKey, dec |-> Out(alg)]
      ELSE [k EXCEPT !.dec = Out(Out(k.dec))]

-----------------------------------------------------------------------------
(***************************************************************************)
(* X.509 certificates (src/rlib/crypto/rx509.c, rcert.c): parsing with the *)
(* byte-level decoder, the extensions, export, and matching.               *)
(*                                                                         *)
(* A certificate is a record of the RCryptoX509Cert fields; None is a NULL *)
(* pointer.  A parser takes and answers [c, s, ok]: the certificate, the   *)
(* decoder with the TLV where the call left it, and the C result.  The     *)
(* digest over the TBSCertificate is the pair of algorithm and octets.     *)
(***************************************************************************)
CONSTANT IpOctets(_)   \* the octets of an IPv4 or IPv6 literal, <<>> if it is none

None == <<-1>>
Ce(n) == <<85, 29, n>>
Kp(n) == <<43, 6, 1, 5, 5, 7, 3, n>>
SequenceId == CONSTRUCTED + SEQUENCE
Ctx(n) == CONTEXT + n
CtxC(n) == CONTEXT + CONSTRUCTED + n
Res(c, s, ok) == [c |-> c, s |-> s, ok |-> ok]

NewCert == [version |-> 0, serial |-> <<>>, issuer |-> None, subject |-> None, issuerUniqueID |-> None,
            subjectUniqueID |-> None, subjectKeyID |-> None, authorityKeyID |-> None, authorityCertSerial |-> None,
            keyUsage |-> {}, extKeyUsage |-> {}, policies |-> <<>>, ca |-> FALSE, haspathLen |-> FALSE, pathLen |-> 0,
            requireExplicitPolicy |-> 0, inhibitPolicyMapping |-> 0, sans |-> <<>>, authorityCertIssuer |-> <<>>,
            ncPermitted |-> <<>>, ncExcluded |-> <<>>, policyMappings |-> <<>>, valid_from |-> 0, valid_to |-> 0,
            pk |-> NoKey, signalgo |-> "NONE", signhash |-> None, tbs |-> None, sign |-> None]
-----------------------------------------------------------------------------
\* General names.
RFC822 == 1
DNS == 2
DIRECTORY == 4
URI == 6
IP == 7
REGISTERED_ID == 8
r_x509_general_name_new_from_tlv(s) ==
  LET sub == Next(r_asn1_bin_decoder_new("DER", Value(s)))
  IN  [id |-> Id(s), raw |-> Value(s),
       str |-> IF Tag(s) \in {RFC822, DNS, URI} THEN CText(Value(s))
               ELSE IF Tag(s) = DIRECTORY /\ Value(s) # <<>> /\ OK(sub)
                    THEN r_asn1_bin_tlv_parse_distinguished_name(sub).val ELSE None]
r_x509_general_name_type(gn) == gn.id % 32
r_x509_general_name_as_string(gn) == IF r_x509_general_name_type(gn) \in {RFC822, DNS, URI} THEN gn.str ELSE None
r_x509_general_name_as_ip(gn) == IF r_x509_general_name_type(gn) = IP THEN gn.raw ELSE None
r_x509_general_name_as_oid(gn) ==
  LET tlv == [rules |-> "DER", data |-> <<OBJECT_IDENTIFIER>> \o gn.raw, stack |-> <<>>, st |-> "OK",
              tlv |-> [start |-> 0, value |-> 1, len |-> Len(gn.raw)]]
      dot == r_asn1_bin_tlv_parse_oid_to_dot(tlv)
  IN  IF r_x509_general_name_type(gn) = REGISTERED_ID /\ dot.st = "OK" THEN dot.val ELSE None
r_x509_general_name_as_dn(gn) == IF r_x509_general_name_type(gn) = DIRECTORY THEN gn.str ELSE None

RECURSIVE NamesFrom(_, _)
NamesFrom(s, arr) ==
  LET more == IF s.tlv.start = -1 THEN arr ELSE Append(arr, r_x509_general_name_new_from_tlv(s))
      n == Next(s)
  IN  IF OK(n) THEN NamesFrom(n, more) ELSE [s |-> n, arr |-> more]
r_x509_parse_general_names(c, s, field) ==
  LET in == Into(s)
      r == NamesFrom(in, c[field])
  IN  IF ~OK(in) THEN Res(c, in, FALSE) ELSE Res([c EXCEPT ![field] = r.arr], Out(r.s), TRUE)
-----------------------------------------------------------------------------
\* The extensions.  Optional steps fall through with the TLV they found.
IfId(r, id, Then(_)) == IF IsId(r.s, id) THEN Then(r) ELSE r
r_memdup(v) == IF v = <<>> THEN None ELSE v
Store(r, field) == Res([r.c EXCEPT ![field] = r_memdup(Value(r.s))], Next(r.s), TRUE)
Left(r) == Res(r.c, Out(r.s), TRUE)
r_crypto_x509_authority_key_id(c, s) ==
  LET in == Into(s)
      key == IfId(Res(c, in, TRUE), Ctx(0), LAMBDA r : Store(r, "authorityKeyID"))
      issuer == IfId(key, CtxC(1), LAMBDA r : r_x509_parse_general_names(r.c, r.s, "authorityCertIssuer"))
      serial == IfId(issuer, Ctx(2), LAMBDA r : Store(r, "authorityCertSerial"))
  IN  IF c.authorityKeyID # None THEN Res(c, s, FALSE)
      ELSE IF ~OK(in) THEN Res(c, in, FALSE) ELSE Left(serial)
r_crypto_x509_subject_key_id(c, s) ==
  IF c.subjectKeyID # None \/ ~IsTag(s, OCTET_STRING) THEN Res(c, s, FALSE)
  ELSE Res([c EXCEPT !.subjectKeyID = r_memdup(Value(s))], s, TRUE)
\* A failing parse leaves the field as it was.
Parsed2(r, was) == IF r.st = "OK" THEN r.val ELSE was
r_crypto_x509_basic_constraints(c, s) ==
  LET in == Into(s)
      ca == IF IsTag(in, BOOLEAN_TAG)
            THEN Res([c EXCEPT !.ca = Parsed2(r_asn1_bin_tlv_parse_boolean(in), c.ca)], Next(in), TRUE) ELSE Res(c, in, TRUE)
      len == IF IsTag(ca.s, INTEGER)
             THEN Res([ca.c EXCEPT !.pathLen = Parsed2(r_asn1_bin_tlv_parse_integer_i32(ca.s), c.pathLen), !.haspathLen = TRUE],
                      Next(ca.s), TRUE) ELSE ca
  IN  IF ~OK(in) THEN Res(c, in, FALSE) ELSE Left(len)
r_crypto_x509_policy_constraints(c, s) ==
  LET in == Into(s)
      int(r, field) == Res([r.c EXCEPT ![field] = Parsed2(r_asn1_bin_tlv_parse_integer_i32(r.s), r.c[field])], Next(r.s), TRUE)
      req == IfId(Res(c, in, TRUE), Ctx(0), LAMBDA r : int(r, "requireExplicitPolicy"))
      inh == IfId(req, Ctx(1), LAMBDA r : int(r, "inhibitPolicyMapping"))
  IN  IF ~OK(in) THEN Res(c, in, FALSE) ELSE Left(inh)
\* Bit n of the string is bit n of the flags; only nine are defined.
r_crypto_x509_key_usage(c, s) ==
  LET v == Value(s)
      bits == (Len(v) - 1) * 8 - v[1]
  IN  IF ~IsTag(s, BIT_STRING) THEN Res(c, s, FALSE)
      ELSE IF Len(v) < 2 THEN Res(c, s, FALSE)
      ELSE IF v[1] > 7 \/ bits > 32 THEN Res(c, s, FALSE)
      ELSE Res([c EXCEPT !.keyUsage = {n \in 0..8 : n < bits /\ (v[2 + n \div 8] \div 2^(7 - (n % 8))) % 2 = 1}], s, TRUE)
Purposes == [ANY |-> Append(Ce(37), 0), SERVER_AUTH |-> Kp(1), CLIENT_AUTH |-> Kp(2), CODE_SIGNING |-> Kp(3),
             EMAIL_PROTECTION |-> Kp(4), TIME_STAMPING |-> Kp(8), OCSP_SIGNING |-> Kp(9)]
RECURSIVE PurposesFrom(_, _)
PurposesFrom(s, set) ==
  LET more == IF IsTag(s, OBJECT_IDENTIFIER) THEN set \cup {p \in DOMAIN Purposes : Purposes[p] = Value(s)} ELSE set
      n == Next(s)
  IN  IF OK(n) THEN PurposesFrom(n, more) ELSE [s |-> n, set |-> more]
r_crypto_x509_ext_key_usage(c, s) ==
  LET in == Into(s)
      r == PurposesFrom(in, c.extKeyUsage)
  IN  IF ~IsTag(s, SEQUENCE) THEN Res(c, s, FALSE) ELSE IF ~OK(in) THEN Res(c, in, FALSE)
      ELSE Res([c EXCEPT !.extKeyUsage = r.set], Out(r.s), TRUE)
Dot(s) == IF IsTag(s, OBJECT_IDENTIFIER) /\ r_asn1_bin_tlv_parse_oid_to_dot(s).st = "OK"
          THEN r_asn1_bin_tlv_parse_oid_to_dot(s).val ELSE None
\* What is taken from the SEQUENCE entered at s, into the field named.
Take(c, s, field) ==
  LET n == Next(s)
  IN  CASE field = "policies" -> Res(IF Dot(s) = None THEN c ELSE [c EXCEPT !.policies = <<Dot(s)>> \o @], s, TRUE)
        [] field = "policyMappings" -> Res([c EXCEPT !.policyMappings = Append(@, <<Dot(s), IF OK(n) THEN Dot(n) ELSE None>>)], n, TRUE)
        [] OTHER -> Res([c EXCEPT ![field] = Append(@, r_x509_general_name_new_from_tlv(s))], s, TRUE)
RECURSIVE EachSequence(_, _, _)
EachSequence(c, s, field) ==
  LET in == Into(s)
      r == Take(c, in, field)
      out == Out(r.s)
  IN  IF ~IsTag(s, SEQUENCE) THEN Res(c, s, TRUE)
      ELSE IF ~OK(in) THEN Res(c, in, TRUE)
      ELSE IF OK(out) THEN EachSequence(r.c, out, field) ELSE Res(r.c, out, TRUE)
InSequence(c, s, Do(_, _)) ==
  LET in == Into(s)
  IN  IF ~IsTag(s, SEQUENCE) THEN Res(c, s, FALSE) ELSE IF ~OK(in) THEN Res(c, in, FALSE) ELSE Left(Do(c, in))
r_crypto_x509_certificate_policies(c, s) == InSequence(c, s, LAMBDA d, t : EachSequence(d, t, "policies"))
r_crypto_x509_policy_mappings(c, s) == InSequence(c, s, LAMBDA d, t : EachSequence(d, t, "policyMappings"))
r_crypto_x509_subject_alt_name(c, s) ==
  IF ~IsTag(s, SEQUENCE) THEN Res(c, s, FALSE) ELSE r_x509_parse_general_names(c, s, "sans")
RECURSIVE Subtrees(_, _)
Subtrees(c, s) ==
  LET in == Into(s)
      field == IF IsId(s, CtxC(0)) THEN "ncPermitted" ELSE "ncExcluded"
      known == Id(s) \in {CtxC(0), CtxC(1)}
      r == IF known THEN Left(EachSequence(c, in, field)) ELSE Res(c, Next(s), TRUE)
  IN  IF known /\ ~OK(in) THEN Res(c, in, TRUE) ELSE IF OK(r.s) THEN Subtrees(r.c, r.s) ELSE r
r_crypto_x509_name_constraints(c, s) == InSequence(c, s, Subtrees)
ExtFunc(oid, c, s) ==
  CASE oid = Ce(35) -> r_crypto_x509_authority_key_id(c, s)
    [] oid = Ce(14) -> r_crypto_x509_subject_key_id(c, s)
    [] oid = Ce(19) -> r_crypto_x509_basic_constraints(c, s)
    [] oid = Ce(30) -> r_crypto_x509_name_constraints(c, s)
    [] oid = Ce(36) -> r_crypto_x509_policy_constraints(c, s)
    [] oid = Ce(15) -> r_crypto_x509_key_usage(c, s)
    [] oid = Ce(37) -> r_crypto_x509_ext_key_usage(c, s)
    [] oid = Ce(32) -> r_crypto_x509_certificate_policies(c, s)
    [] oid = Ce(17) -> r_crypto_x509_subject_alt_name(c, s)
    [] oid = Ce(33) -> r_crypto_x509_policy_mappings(c, s)
    [] OTHER -> Res(c, s, FALSE)
RECURSIVE Extensions(_, _)
Extensions(c, s) ==
  LET in == Into(s)
      n == Next(in)
      crit == IF IsTag(n, BOOLEAN_TAG) THEN Next(n) ELSE n
      oct == Into(crit)
      f == ExtFunc(Value(in), c, oct)
      r == IF ~IsTag(in, OBJECT_IDENTIFIER) THEN Res(c, in, TRUE)
           ELSE IF ~IsTag(crit, OCTET_STRING) THEN Res(c, crit, TRUE)
           ELSE IF ~OK(oct) THEN Res(c, oct, TRUE) ELSE Res(f.c, Out(f.s), TRUE)
      out == Out(r.s)
  IN  IF ~OK(in) THEN Res(c, in, TRUE)
      ELSE IF OK(out) THEN Extensions(r.c, out) ELSE Res(r.c, out, TRUE)
\* Its result, which the caller drops, tells nothing here.
r_crypto_x509_cert_v3_parse_extensions(c, s) ==
  LET in == Into(s)
      r == Extensions(c, in)
  IN  IF ~OK(in) THEN Res(c, in, FALSE) ELSE Left(r)
-----------------------------------------------------------------------------
\* The certificate.  serial holds at most SerialMax octets, the last ones.
NoCert == [version |-> -1]
SerialMax == 20
r_crypto_x509_cert_store_serial(c, s) ==
  LET v == Value(s)
      zeros == CHOOSE n \in 0..Len(v) - 1 : (n = Len(v) - 1 \/ v[n + 1] # 0) /\ \A i \in 1..n : v[i] = 0
      cut == IF Len(v) - zeros > SerialMax THEN Len(v) - SerialMax ELSE zeros
  IN  [c EXCEPT !.serial = From(v, cut)]
UniqueID(r, n, field) ==
  LET in == Into(r.s)
      bits == r_asn1_bin_tlv_parse_bit_string_bits(in)
      c == IF bits.st = "OK" /\ bits.val % 8 = 0 THEN [r.c EXCEPT ![field] = r_memdup(Tail(Value(in)))] ELSE r.c
  IN  IF ~IsId(r.s, CtxC(n)) THEN r ELSE IF OK(in) THEN Res(c, Out(in), TRUE) ELSE Res(r.c, in, TRUE)
TbsExtensions(r) ==
  LET ids == UniqueID(UniqueID(r, 1, "issuerUniqueID"), 2, "subjectUniqueID")
      in == Into(ids.s)
  IN  IF r.c.version = 0 THEN r
      ELSE IF r.c.version = 1 \/ ~IsId(ids.s, CtxC(3)) THEN ids
      ELSE IF OK(in) THEN Left(r_crypto_x509_cert_v3_parse_extensions(ids.c, in)) ELSE Res(ids.c, in, TRUE)
\* The TBSCertificate entered at s; the decoder leaves it at the end.
Tbs(c0, s) ==
  LET ver == Into(s)
      v == r_asn1_bin_tlv_parse_integer_i32(ver)
      c1 == IF OK(ver) THEN [c0 EXCEPT !.version = v.val] ELSE c0
      num == IF OK(ver) THEN Out(ver) ELSE ver
      c2 == r_crypto_x509_cert_store_serial(c1, num)
      alg == Next(num)
      issuer == r_asn1_bin_tlv_parse_distinguished_name(Next(alg))
      from == Into(issuer.dec)
      to == Next(from)
      name == Out(to)
      subject == r_asn1_bin_tlv_parse_distinguished_name(name)
      pk == r_crypto_key_from_asn1_public_key(subject.dec)
      c3 == [c2 EXCEPT !.issuer = issuer.val, !.subject = subject.val, !.pk = pk.key,
                       !.valid_from = r_asn1_bin_tlv_parse_time(from).val, !.valid_to = r_asn1_bin_tlv_parse_time(to).val]
  IN  IF OK(ver) /\ (v.st # "OK" \/ v.val \notin 0..2) THEN Res(c0, ver, FALSE)
      ELSE IF ~IsTag(num, INTEGER) THEN Res(c1, num, FALSE)
      ELSE IF ~OK(alg) \/ ~OK(Next(alg)) \/ issuer.st # "OK" THEN Res(c2, alg, FALSE)
      ELSE IF ~OK(from) \/ r_asn1_bin_tlv_parse_time(from).st # "OK" \/ ~OK(to)
              \/ r_asn1_bin_tlv_parse_time(to).st # "OK" \/ ~OK(name) THEN Res(c2, from, FALSE)
      ELSE IF subject.st # "OK" \/ pk.key = NoKey THEN Res(c2, name, FALSE)
      ELSE Left(TbsExtensions(Res(c3, pk.dec, TRUE)))
r_crypto_x509_cert_init(c0, dec) ==
  LET tbs == Into(Next(dec))
      bytes == SubSeq(tbs.data, tbs.tlv.start + 1, TlvNext(tbs.tlv))
      in == Into(tbs)
      t == Tbs(c0, in)
      alg == Into(t.s)
      md == r_asn1_bin_tlv_parse_oid_to_msg_digest_type(alg)
      ed == Value(alg) \in {Ed25519Oid, Ed448Oid}
      sig == Out(alg)
      bits == r_asn1_bin_tlv_parse_bit_string_bits(sig)
      c == [t.c EXCEPT !.signalgo = IF ed THEN "NONE" ELSE md.val, !.tbs = IF ed THEN bytes ELSE None,
                       !.signhash = IF ed THEN None ELSE <<md.val, bytes>>,
                       !.sign = SubSeq(Value(sig), 2, 1 + bits.val \div 8)]
      no == Res(c0, dec, FALSE)
  IN  IF ~OK(Next(dec)) \/ ~OK(tbs) \/ ~OK(in) THEN no
      ELSE IF ~t.ok \/ ~OK(alg) THEN no
      ELSE IF md.st # "OK" \/ ~OK(sig) \/ (~ed /\ md.val = "NONE") THEN no
      ELSE IF ~IsTag(sig, BIT_STRING) \/ bits.st # "OK" \/ bits.val < 8 THEN no
      ELSE Res(c, sig, TRUE)
r_crypto_x509_cert_new_from_buffer(buf) ==
  LET r == r_crypto_x509_cert_init(NewCert, r_asn1_bin_decoder_new("DER", buf)) IN IF r.ok THEN r.c ELSE NoCert
r_crypto_x509_cert_new(data) == r_crypto_x509_cert_new_from_buffer(data)
r_crypto_x509_cert_new_take(data) == r_crypto_x509_cert_new_from_buffer(data)
-----------------------------------------------------------------------------
\* What the certificate is asked.
r_crypto_x509_cert_serial_number(c) ==
  LET f[i \in 0..Len(c.serial)] == IF i = 0 THEN 0 ELSE (256 * f[i - 1] + c.serial[i]) % 2^Bits64 IN f[Len(c.serial)]
r_crypto_x509_cert_path_len(c) == IF c.haspathLen THEN c.pathLen ELSE -1
r_crypto_x509_cert_is_self_issued(c) == c.issuer = c.subject
r_crypto_x509_cert_is_self_signed(c) ==
  c.authorityKeyID = None \/ (c.subjectKeyID # None /\ c.authorityKeyID = c.subjectKeyID)
r_crypto_x509_cert_has_policy(c, policy) == \E i \in DOMAIN c.policies : c.policies[i] = policy
r_x509_host_match_dns(host, pattern) ==
  LET hdot == r_strchr(host, DOT)
  IN  \/ r_strcasecmp(host, pattern) = 0
      \/ /\ At(pattern, 0) = 42 /\ At(pattern, 1) = DOT
         /\ hdot > 0 /\ r_strcasecmp(From(host, hdot), From(pattern, 1)) = 0
r_crypto_x509_host_match_dns(host, pattern) ==
  /\ host \notin {NullStr, <<>>} /\ pattern \notin {NullStr, <<>>}
  /\ r_x509_host_match_dns(host, pattern)
r_crypto_x509_cert_verify_host(c, host) ==
  LET want == IpOctets(host)
      dns(gn) == r_x509_general_name_as_string(gn)
  IN  /\ host \notin {NullStr, <<>>}
      /\ \E i \in DOMAIN c.sans : LET gn == c.sans[i] IN
           IF want # <<>> THEN r_x509_general_name_type(gn) = IP /\ r_x509_general_name_as_ip(gn) = want
           ELSE r_x509_general_name_type(gn) = DNS /\ Len(dns(gn)) = Len(gn.raw) /\ r_x509_host_match_dns(host, dns(gn))
r_crypto_x509_cert_policy_mapping(c, idx) == IF idx < Len(c.policyMappings) THEN c.policyMappings[idx + 1] ELSE None
\* Verify(pk, md, signed, sign) is what the key's algorithm answers.
r_crypto_x509_cert_verify_signature(c, parent, Verify(_, _, _, _)) ==
  IF parent.pk = NoKey THEN "NOT_AVAILABLE"
  ELSE IF c.signalgo = "NONE"
       THEN IF c.tbs = None THEN "NOT_AVAILABLE"
            ELSE r_crypto_key_verify(parent.pk, FALSE, Verify(parent.pk, "NONE", c.tbs, c.sign))
  ELSE r_crypto_key_verify(parent.pk, FALSE, Verify(parent.pk, c.signalgo, c.signhash, c.sign))

-----------------------------------------------------------------------------
(***************************************************************************)
(* Writing a certificate (src/rlib/crypto/rx509.c from line 742, rcert.c). *)
(* A writer takes the encoder and answers it, with the status of the last  *)
(* call that mattered in st: as in the code what was begun is ended even   *)
(* after a failure, and what follows a failure is not written.             *)
(***************************************************************************)
ERROR == "ERROR"
Within(e, id, Body(_)) ==
  LET b == Body(r_asn1_bin_encoder_begin_constructed(e, id)) IN Refused(r_asn1_bin_encoder_end_constructed(b), b.st)
Then(e, F(_)) == IF e.st = "OK" THEN F(e) ELSE e
\* F for every item, up to the first failure.
EachOf(e, items, F(_, _)) ==
  LET f[i \in 0..Len(items)] == IF i = 0 THEN e ELSE LET p == f[i - 1] IN IF p.st = "OK" THEN F(p, items[i]) ELSE p
  IN  f[Len(items)]
\* One Extension with its value, when there is anything to write.
Extension(e, wanted, oid, critical, Body(_)) ==
  LET head(x) == LET o == r_asn1_bin_encoder_add_oid_rawsz(x, oid) IN IF critical THEN r_asn1_bin_encoder_add_boolean(o, TRUE) ELSE o
  IN  IF wanted THEN Within(e, SequenceId, LAMBDA x : Within(head(x), OCTET_STRING, Body)) ELSE e

r_crypto_x509_write_general_names(e, arr) == EachOf(e, arr, LAMBDA x, gn : r_asn1_bin_encoder_add_raw(x, gn.id, gn.raw))
r_crypto_x509_write_ext_subject_alt_name(c, e) ==
  Extension(e, c.sans # <<>>, Ce(17), FALSE,
            LAMBDA x : Within(x, SequenceId, LAMBDA y : r_crypto_x509_write_general_names(y, c.sans)))
r_crypto_x509_write_name_constraint_subtrees(e, arr, tag) ==
  Within(e, CtxC(tag), LAMBDA x : EachOf(x, arr, LAMBDA y, gn :
    Within(y, SequenceId, LAMBDA z : r_asn1_bin_encoder_add_raw(z, gn.id, gn.raw))))
r_crypto_x509_write_ext_name_constraints(c, e) ==
  LET part(x, arr, tag) == IF arr = <<>> THEN x ELSE Then(x, LAMBDA y : r_crypto_x509_write_name_constraint_subtrees(y, arr, tag))
  IN  Extension(e, c.ncPermitted # <<>> \/ c.ncExcluded # <<>>, Ce(30), TRUE, LAMBDA x :
        Within(x, SequenceId, LAMBDA y : part(part(y, c.ncPermitted, 0), c.ncExcluded, 1)))
\* The first octet holds two arcs, in eight bits.
r_x509_write_oid_from_dot(e, dot) ==
  LET arr == r_asn1_oid_from_dot(dot, -1)
      bytes(v) == LET n == CHOOSE k \in 1..5 : v < 128^k /\ (k = 1 \/ v >= 128^(k - 1))
                  IN  [k \in 1..n |-> ((v \div 128^(n - k)) % 128) + (IF k < n THEN 128 ELSE 0)]
      rest == LET f[i \in 2..Len(arr)] == IF i = 2 THEN <<>> ELSE f[i - 1] \o bytes(arr[i]) IN f[Len(arr)]
  IN  IF dot = None THEN Refused(e, ERROR) ELSE IF arr = NullStr THEN Refused(e, ERROR)
      ELSE r_asn1_bin_encoder_add_raw(e, OBJECT_IDENTIFIER, <<(40 * arr[1] + arr[2]) % 256>> \o rest)
r_crypto_x509_write_ext_policy_mappings(c, e) ==
  Extension(e, c.policyMappings # <<>>, Ce(33), FALSE, LAMBDA x :
    Within(x, SequenceId, LAMBDA y : EachOf(y, c.policyMappings, LAMBDA z, pm :
      Within(z, SequenceId, LAMBDA t : EachOf(t, pm, r_x509_write_oid_from_dot)))))
r_crypto_x509_write_ext_basic_constraints(c, e) ==
  Extension(e, c.pathLen # 0 \/ c.ca, Ce(19), FALSE, LAMBDA x :
    Within(x, SequenceId, LAMBDA y :
      LET b == r_asn1_bin_encoder_add_boolean(y, c.ca) IN IF c.pathLen > 0 THEN r_asn1_bin_encoder_add_integer_i32(b, c.pathLen) ELSE b))
r_crypto_x509_write_ext_key_usage(c, e) ==
  LET used == 1 + (CHOOSE n \in c.keyUsage : \A m \in c.keyUsage : m <= n)
      nbytes == (used + 7) \div 8
      octet(i) == LET f[n \in 0..8] == IF n = 0 THEN 0 ELSE f[n - 1] + (IF 8 * (i - 1) + n - 1 \in c.keyUsage THEN 2^(8 - n) ELSE 0) IN f[8]
  IN  Extension(e, c.keyUsage # {}, Ce(15), TRUE, LAMBDA x :
        r_asn1_bin_encoder_add_raw(x, BIT_STRING, <<8 * nbytes - used>> \o [i \in 1..nbytes |-> octet(i)]))
PurposeOrder == <<"ANY", "SERVER_AUTH", "CLIENT_AUTH", "CODE_SIGNING", "EMAIL_PROTECTION", "TIME_STAMPING", "OCSP_SIGNING">>
r_crypto_x509_write_ext_ext_key_usage(c, e) ==
  Extension(e, c.extKeyUsage # {}, Ce(37), FALSE, LAMBDA x :
    Within(x, SequenceId, LAMBDA y : EachOf(y, SelectSeq(PurposeOrder, LAMBDA p : p \in c.extKeyUsage),
                                            LAMBDA z, p : r_asn1_bin_encoder_add_oid_rawsz(z, Purposes[p]))))
r_crypto_x509_write_ext_subject_key_id(c, e) ==
  Extension(e, c.subjectKeyID # None, Ce(14), FALSE, LAMBDA x : r_asn1_bin_encoder_add_raw(x, OCTET_STRING, c.subjectKeyID))
r_crypto_x509_write_ext_authority_key_id(c, e) ==
  LET raw(x, n, v) == IF v = None THEN x ELSE r_asn1_bin_encoder_add_raw(x, Ctx(n), v)
      issuer(x) == Then(Within(x, CtxC(1), LAMBDA y : r_crypto_x509_write_general_names(y, c.authorityCertIssuer)),
                        LAMBDA y : raw(y, 2, c.authorityCertSerial))
  IN  Extension(e, c.authorityKeyID # None \/ c.authorityCertIssuer # <<>>, Ce(35), FALSE, LAMBDA x :
        Within(x, SequenceId, LAMBDA y :
          LET k == raw(y, 0, c.authorityKeyID) IN IF c.authorityCertIssuer = <<>> THEN k ELSE issuer(k)))
r_crypto_x509_write_ext_policy_constraints(c, e) ==
  LET int(x, tag, v) == IF v = 0 THEN x ELSE Within(x, CtxC(tag), LAMBDA y : r_asn1_bin_encoder_add_integer_i32(y, v))
  IN  Extension(e, c.requireExplicitPolicy # 0 \/ c.inhibitPolicyMapping # 0, Ce(36), TRUE, LAMBDA x :
        int(int(x, 0, c.requireExplicitPolicy), 1, c.inhibitPolicyMapping))
r_crypto_x509_write_ext_certificate_policies(c, e) ==
  Extension(e, c.policies # <<>>, Ce(32), FALSE, LAMBDA x :
    Within(x, SequenceId, LAMBDA y : EachOf(y, c.policies, LAMBDA z, dot :
      Within(z, SequenceId, LAMBDA t : r_x509_write_oid_from_dot(t, dot)))))
r_rsa_signalgo_get_asn1_oid(signalgo) ==
  CASE signalgo = "MD2" -> Pkcs1(2) [] signalgo = "MD5" -> Pkcs1(4) [] signalgo = "SHA1" -> Pkcs1(5)
    [] signalgo = "SHA256" -> Pkcs1(11) [] signalgo = "SHA384" -> Pkcs1(12) [] signalgo = "SHA512" -> Pkcs1(13)
    [] signalgo = "SHA224" -> Pkcs1(14) [] OTHER -> <<>>
r_crypto_cert_get_asn1_oid_signalgo(cryptoalgo, signalgo) ==
  IF cryptoalgo = "RSA" THEN r_rsa_signalgo_get_asn1_oid(signalgo) ELSE <<>>
r_rsa_pub_key_export(e, n, x) ==
  Within(e, SequenceId, LAMBDA a :
    LET alg == Within(a, SequenceId, LAMBDA b : r_asn1_bin_encoder_add_null(r_asn1_bin_encoder_add_oid_rawsz(b, RsaOid)))
        ints(b) == r_asn1_bin_encoder_add_integer_mpint(r_asn1_bin_encoder_add_integer_mpint(b, n), x)
        bits == Within(r_asn1_bin_encoder_begin_bit_string(alg), SequenceId, ints)
    IN  r_asn1_bin_encoder_end_constructed(bits))
\* The other keys' SubjectPublicKeyInfo is not wanted: their signature has no OID.
r_crypto_x509_cert_export(c, e) ==
  LET algo == r_crypto_cert_get_asn1_oid_signalgo(c.pk.algo, c.signalgo)
      algid(x) == Within(x, SequenceId, LAMBDA y : Then(r_asn1_bin_encoder_add_oid_rawsz(y, algo), r_asn1_bin_encoder_add_null))
      version(x) == IF c.version = 0 THEN x ELSE Within(x, CtxC(0), LAMBDA y : r_asn1_bin_encoder_add_integer_i32(y, c.version))
      serial(x) == r_asn1_bin_encoder_add_integer_mpint(x, U(c.serial))
      issuer(x) == r_asn1_bin_encoder_add_distinguished_name(x, c.issuer)
      validity(x) == Within(x, SequenceId, LAMBDA y : Then(r_asn1_bin_encoder_add_utc_time(y, c.valid_from),
                                                           LAMBDA z : r_asn1_bin_encoder_add_utc_time(z, c.valid_to)))
      subject(x) == r_asn1_bin_encoder_add_distinguished_name(x, c.subject)
      spki(x) == r_rsa_pub_key_export(x, c.pk.par[1], c.pk.par[2])
      uid(x, n, v) == IF c.version = 0 \/ v = None THEN x ELSE Within(x, CtxC(n), LAMBDA y : r_asn1_bin_encoder_add_bit_string_raw(y, v))
      uids(x) == uid(uid(x, 1, c.issuerUniqueID), 2, c.subjectUniqueID)
      exts(x) == Then(Then(Then(Then(Then(Then(Then(Then(Then(
                   r_crypto_x509_write_ext_subject_key_id(c, x),
                   LAMBDA y : r_crypto_x509_write_ext_authority_key_id(c, y)),
                   LAMBDA y : r_crypto_x509_write_ext_basic_constraints(c, y)),
                   LAMBDA y : r_crypto_x509_write_ext_key_usage(c, y)),
                   LAMBDA y : r_crypto_x509_write_ext_ext_key_usage(c, y)),
                   LAMBDA y : r_crypto_x509_write_ext_policy_constraints(c, y)),
                   LAMBDA y : r_crypto_x509_write_ext_certificate_policies(c, y)),
                   LAMBDA y : r_crypto_x509_write_ext_subject_alt_name(c, y)),
                   LAMBDA y : r_crypto_x509_write_ext_name_constraints(c, y)),
                   LAMBDA y : r_crypto_x509_write_ext_policy_mappings(c, y))
      extensions(x) == IF c.version < 2 THEN x ELSE Within(x, CtxC(3), LAMBDA y : Within(y, SequenceId, exts))
      tbs(x) == Then(Then(Then(Then(Then(Then(Then(Then(version(x), serial), algid), issuer), validity), subject), spki), uids), extensions)
      sign(x) == r_asn1_bin_encoder_add_bit_string_raw(x, c.sign)
  IN  Within(e, SequenceId, LAMBDA x : Then(Then(Within(x, SequenceId, tbs), algid), sign))
-----------------------------------------------------------------------------
\* rcert.c: the octets the certificate came from, or else its export.
r_crypto_cert_get_data_buffer(c, certdata) ==
  LET e == r_crypto_x509_cert_export(c, r_asn1_bin_encoder_new("DER"))
  IN  IF c = NoCert THEN None ELSE IF certdata # None THEN certdata
      ELSE IF e.st = "OK" THEN r_asn1_bin_encoder_get_buffer(e).val ELSE None
r_crypto_cert_dup_data(c, certdata) == r_crypto_cert_get_data_buffer(c, certdata)
\* digestsize is 0 for a type there is no digest of.
r_crypto_cert_fingerprint(c, certdata, size, type, digestsize) ==
  LET b == r_crypto_cert_get_data_buffer(c, certdata)
  IN  IF c = NoCert THEN [res |-> "INVAL"] ELSE IF size < digestsize THEN [res |-> "BUFFER_TOO_SMALL"]
      ELSE IF digestsize = 0 \/ b = None THEN [res |-> ERROR] ELSE [res |-> "OK", digest |-> <<type, b>>]
r_crypto_cert_fingerprint_str(c, certdata, type, digestsize) ==
  LET b == r_crypto_cert_get_data_buffer(c, certdata)
  IN  IF digestsize = 0 \/ b = None THEN None ELSE <<type, b>>

-----------------------------------------------------------------------------
(***************************************************************************)
(* PEM text (src/rlib/crypto/rpem.c).  A text is a sequence of tokens: the *)
(* markers BEGIN, END and DASH ("-----BEGIN ", "-----END ", "-----"), NL,  *)
(* SP, WORD (w: a label or a header's words), DEK (the value of a DEK-Info *)
(* header: cipher, and the nibbles of its IV, -1 for what is no digit) and *)
(* B64 (b: the characters of base64 text).  Positions are token indices.   *)
(*                                                                         *)
(* The exports of the key types, the key derivations and AES-CBC have      *)
(* modules of their own; here they are parameters.                         *)
(***************************************************************************)
CONSTANTS ToAsn1(_),           \* r_crypto_key_to_asn1 of the key: its octets, or None
          Bitsize(_),          \* r_crypto_key_get_bitsize
          Md5(_),              \* 16 octets
          Pbkdf2(_, _, _, _, _), \* prf, passphrase, salt, iterations, size
          CbcDecrypt(_, _, _)  \* key, iv, octets

Tok(t) == [t |-> t]
Word(w) == [t |-> "WORD", w |-> w]
B64(b) == [t |-> "B64", b |-> b]
LabelSize == [CERTIFICATE |-> 11, X509_CRL |-> 8, CERTIFICATE_REQUEST |-> 19, PUBLIC_KEY |-> 10, PRIVATE_KEY |-> 11,
              DSA_PRIVATE_KEY |-> 15, RSA_PRIVATE_KEY |-> 15, ENCRYPTED_PRIVATE_KEY |-> 21]
NoBlock == [type |-> "NONE"]

r_pem_priv_key_label(key) ==
  CASE key.algo = "RSA" -> "RSA_PRIVATE_KEY" [] key.algo = "DSA" -> "DSA_PRIVATE_KEY" [] key.algo = "DH" -> "PRIVATE_KEY"
    [] OTHER -> "NULL"
r_pem_encode_dh_priv_pkcs8(key) ==
  LET params(e) == Within(e, SequenceId, LAMBDA x :
                     r_asn1_bin_encoder_add_integer_mpint(r_asn1_bin_encoder_add_integer_mpint(x, key.par[2]), key.par[3]))
      alg(e) == Within(e, SequenceId, LAMBDA x : params(r_asn1_bin_encoder_add_oid_rawsz(x, DhOid)))
      all == Within(r_asn1_bin_encoder_new("DER"), SequenceId, LAMBDA x :
               r_asn1_bin_encoder_add_raw(alg(r_asn1_bin_encoder_add_integer_i32(x, 0)), OCTET_STRING, ToAsn1(key)))
  IN  IF ToAsn1(key) = None THEN None ELSE r_asn1_bin_encoder_get_data(all)
r_pem_encode_priv_key(key) == IF key.algo = "DH" THEN r_pem_encode_dh_priv_pkcs8(key) ELSE ToAsn1(key)
-----------------------------------------------------------------------------
\* Writing: the caller's buffer holds size characters, the closing 0 included.
Framed(label, der, size, linesize) ==
  LET b64 == r_base64_encode_dup_full(der, linesize).text
      nl == IF Last(b64) = 10 THEN <<>> ELSE <<Tok("NL")>>
      marks(m) == <<Tok(m), Word(label), Tok("DASH"), Tok("NL")>>
  IN  IF der = None THEN <<>> ELSE IF b64 = <<>> THEN <<>>
      ELSE IF size < 11 + LabelSize[label] + 6 + Len(b64) + 1 + 9 + LabelSize[label] + 6 + 1 THEN <<>>
      ELSE marks("BEGIN") \o <<B64(b64)>> \o nl \o marks("END")
\* What the _dup forms allocate for asn1 octets, at most.
Room(label, asn1, linesize) ==
  LET b64 == ((asn1 + 2) \div 3) * 4
      lines == IF linesize > 0 THEN b64 \div (4 * ((linesize + 3) \div 4)) + 1 ELSE 0
  IN  11 + LabelSize[label] + 6 + b64 + lines + 1 + 9 + LabelSize[label] + 6 + 1

r_pem_write_public_key(key, size, linesize) ==
  IF key = NoKey THEN <<>> ELSE Framed("PUBLIC_KEY", ToAsn1(key), size, linesize)
r_pem_write_public_key_dup(key, linesize) ==
  IF key = NoKey THEN <<>>
  ELSE r_pem_write_public_key(key, Room("PUBLIC_KEY", (Bitsize(key) \div 8) * 4 + 512, linesize), linesize)
r_pem_write_cert(cert, certdata, size, linesize) ==
  Framed("CERTIFICATE", r_crypto_cert_get_data_buffer(cert, certdata), size, linesize)
r_pem_write_cert_dup(cert, certdata, linesize) ==
  LET buf == r_crypto_cert_get_data_buffer(cert, certdata)
  IN  IF cert = NoCert THEN <<>> ELSE IF buf = None THEN <<>>
      ELSE r_pem_write_cert(cert, certdata, Room("CERTIFICATE", Len(buf), linesize), linesize)
r_pem_write_private_key(key, size, linesize) ==
  LET label == r_pem_priv_key_label(key)
  IN  IF key = NoKey THEN <<>> ELSE IF label = "NULL" THEN <<>>
      ELSE Framed(label, r_pem_encode_priv_key(key), size, linesize)
r_pem_write_private_key_dup(key, linesize) ==
  LET label == r_pem_priv_key_label(key)
  IN  IF key = NoKey THEN <<>> ELSE IF label = "NULL" THEN <<>>
      ELSE r_pem_write_private_key(key, Room(label, (Bitsize(key) \div 8) * 12 + 1024, linesize), linesize)
-----------------------------------------------------------------------------
\* The parser: [data, offset], offset the tokens passed.
IsSpace(tok) == tok.t \in {"NL", "SP"}
SkipWhile(data, from, In(_)) ==
  CHOOSE i \in from..Len(data) + 1 : /\ (i <= Len(data) => ~In(data[i])) /\ \A j \in from..i - 1 : In(data[j])
Chars(tok) ==
  CASE tok.t = "BEGIN" -> 11 [] tok.t = "END" -> 9 [] tok.t = "DASH" -> 5 [] tok.t \in {"NL", "SP"} -> 1
    [] tok.t = "WORD" -> (IF tok.w \in DOMAIN LabelSize THEN LabelSize[tok.w] ELSE 10)
    [] tok.t = "DEK" -> 12 + Len(tok.hex) [] tok.t = "B64" -> Len(tok.b)
NoParser == [offset |-> -1]
r_pem_parser_new_from_memfile(data) == [data |-> data, offset |-> 0]
r_pem_parser_new(data) ==
  IF FoldLeft(LAMBDA sum, tok : sum + Chars(tok), 0, data) < 32 THEN NoParser ELSE [data |-> data, offset |-> 0]
r_pem_parser_reset(p) == [p EXCEPT !.offset = 0]

r_pem_type_from_label(label) ==
  IF Len(label) = 1 /\ label[1].t = "WORD" /\ label[1].w \in DOMAIN LabelSize THEN label[1].w ELSE "UNKNOWN"
r_pem_legacy_cipher_from_str(s) == IF s \in {"AES-128-CBC", "AES-192-CBC", "AES-256-CBC"} THEN s ELSE "NONE"
r_pem_legacy_cipher_keysize(c) == CASE c = "AES-128-CBC" -> 16 [] c = "AES-192-CBC" -> 24 [] c = "AES-256-CBC" -> 32 [] OTHER -> 0

\* At blob, before end: a header that is not complete leaves the block
\* unencrypted and the base64 text beginning at the headers.
r_pem_parse_legacy_headers(data, blob, end) ==
  LET none == [base64 |-> blob, cipher |-> "NONE", iv |-> <<>>]
      is(i, t) == i < end /\ data[i].t = t
      word(i, w) == is(i, "WORD") /\ data[i].w = w
      blanks(i) == SkipWhile(data, i, LAMBDA tok : tok.t = "SP")
      four == blanks(blob + 1)
      dek == blanks(four + 3)
      info == data[dek]
      n == Len(info.hex)
  IN  IF ~word(blob, "Proc-Type:") THEN none
      ELSE IF ~word(four, "4,ENCRYPTED") THEN none
      ELSE IF ~is(four + 1, "NL") \/ ~word(four + 2, "DEK-Info:") THEN none
      ELSE IF ~is(dek, "DEK") THEN none
      ELSE IF ~is(dek + 1, "NL") \/ r_pem_legacy_cipher_from_str(info.cipher) = "NONE" THEN none
      ELSE IF n % 2 = 1 \/ n \div 2 > 16 \/ (\E i \in 1..n : info.hex[i] = -1) THEN none
      ELSE IF ~is(dek + 2, "NL") THEN none
      ELSE [base64 |-> dek + 3, cipher |-> info.cipher, iv |-> [i \in 1..n \div 2 |-> info.hex[2 * i - 1] * 16 + info.hex[2 * i]]]

\* The first i >= from with Is(i), or 0.
FirstFrom(from, to, Is(_)) ==
  IF \E i \in from..to : Is(i) THEN CHOOSE i \in from..to : Is(i) /\ \A j \in from..i - 1 : ~Is(j) ELSE 0
\* Every marker begins with the five dashes.
r_pem_parser_next_block(p) ==
  LET data == p.data
      n == Len(data)
      beg == FirstFrom(p.offset + 1, n, LAMBDA i : data[i].t = "BEGIN")
      begend == FirstFrom(beg + 1, n, LAMBDA i : data[i].t \in {"DASH", "BEGIN", "END"})
      label == SubSeq(data, beg + 1, begend - 1)
      endstr == <<Tok("END")>> \o label \o <<Tok("DASH")>>
      end == FirstFrom(begend, n - Len(endstr) + 1, LAMBDA i : SubSeq(data, i, i + Len(endstr) - 1) = endstr)
      blob == SkipWhile(data, begend + 1, IsSpace)
      h == r_pem_parse_legacy_headers(data, blob, end)
  IN  IF p.offset >= n THEN [p |-> p, block |-> NoBlock]
      ELSE IF beg = 0 THEN [p |-> p, block |-> NoBlock]
      ELSE IF begend = 0 THEN [p |-> p, block |-> NoBlock]
      ELSE IF end = 0 THEN [p |-> [p EXCEPT !.offset = n], block |-> NoBlock]
      ELSE [p |-> [p EXCEPT !.offset = SkipWhile(data, end + Len(endstr), IsSpace) - 1],
            block |-> [type |-> r_pem_type_from_label(label), data |-> data, begline |-> beg, blob |-> blob, base64 |-> h.base64,
                       endline |-> end, eob |-> end + Len(endstr), cipher |-> h.cipher, iv |-> h.iv]]
-----------------------------------------------------------------------------
\* Blocks.
r_pem_block_get_type(b) == b.type
r_pem_block_is_encrypted(b) == b # NoBlock /\ (b.type = "ENCRYPTED_PRIVATE_KEY" \/ b.cipher # "NONE")
r_pem_block_is_key(b) == b.type \in {"PUBLIC_KEY", "RSA_PRIVATE_KEY", "DSA_PRIVATE_KEY", "PRIVATE_KEY", "ENCRYPTED_PRIVATE_KEY"}
Characters(data, from, to) == FlattenSeq([i \in 1..to - from |-> LET tok == data[from + i - 1] IN
                                CASE tok.t = "B64" -> tok.b [] IsSpace(tok) -> <<10>> [] OTHER -> <<46>>])
r_pem_block_get_base64(b) == Characters(b.data, b.base64, b.endline)
r_pem_block_decode_base64(b) ==
  LET text == r_pem_block_get_base64(b) IN IF text = <<>> THEN None ELSE r_base64_decode_dup(text).data
r_pem_block_get_asn1_decoder(b) ==
  LET data == r_pem_block_decode_base64(b) IN IF data = None THEN None ELSE <<r_asn1_bin_decoder_new("BER", data)>>

\* A round digests the previous round's 16 octets, the passphrase and the salt.
r_pem_legacy_bytes_to_key(passphrase, salt, keysize) ==
  LET round[i \in 1..2] == Md5((IF i = 1 THEN <<>> ELSE round[i - 1]) \o passphrase \o salt)
  IN  SubSeq(round[1] \o (IF keysize > 16 THEN round[2] ELSE <<>>), 1, keysize)
\* PKCS#7: the last octet counts the octets of padding, all equal to it.
Unpadded(plain) ==
  LET n == Len(plain)
      pad == plain[n]
  IN  IF pad = 0 \/ pad > 16 \/ pad > n THEN None
      ELSE IF \E i \in n - pad + 1..n : plain[i] # pad THEN None ELSE SubSeq(plain, 1, n - pad)
Blocks(cipherbuf) == cipherbuf # <<>> /\ Len(cipherbuf) % 16 = 0
r_pem_decrypt_legacy(b, passphrase, cipherbuf) ==
  LET key == r_pem_legacy_bytes_to_key(passphrase, SubSeq(b.iv, 1, 8), r_pem_legacy_cipher_keysize(b.cipher))
  IN  IF b.cipher = "NONE" \/ Len(b.iv) # 16 \/ ~Blocks(cipherbuf) THEN None
      ELSE Unpadded(CbcDecrypt(key, b.iv, cipherbuf))
Pkcs5(n) == <<42, 134, 72, 134, 247, 13, 1, 5, n>>
r_pem_pbes2_prf_md(oid) ==
  LET n == Len(oid) IN
  IF n = 8 /\ SubSeq(oid, 1, 7) = <<42, 134, 72, 134, 247, 13, 2>> /\ oid[8] \in 7..11
  THEN <<"SHA1", "SHA224", "SHA256", "SHA384", "SHA512">>[oid[8] - 6] ELSE "NONE"
AesBits(oid) ==
  IF Len(oid) = 9 /\ SubSeq(oid, 1, 8) = <<96, 134, 72, 1, 101, 3, 4, 1>> /\ oid[9] \in {2, 22, 42}
  THEN 128 + 64 * ((oid[9] - 2) \div 20) ELSE 0
\* The optional keyLength and prf after the iteration count: where the walk
\* stands when it ends, and the prf.
RECURSIVE PrfWalk(_)
PrfWalk(s) ==
  LET n == Next(s)
      in == Into(n)
      md == r_pem_pbes2_prf_md(Value(in))
  IN  IF ~OK(n) THEN [dec |-> n, prf |-> "SHA1"]
      ELSE IF IsTag(n, INTEGER) THEN PrfWalk(n)
      ELSE IF ~IsTag(n, SEQUENCE) THEN [dec |-> n, prf |-> "SHA1"]
      ELSE IF ~OK(in) THEN [dec |-> in, prf |-> "NONE"]
      ELSE IF ~IsTag(in, OBJECT_IDENTIFIER) THEN [dec |-> in, prf |-> "NONE"]
      ELSE [dec |-> Out(in), prf |-> md]
IsOid(s, oid) == OK(s) /\ IsTag(s, OBJECT_IDENTIFIER) /\ Value(s) = oid
IsOctets(s) == OK(s) /\ IsTag(s, OCTET_STRING)
r_pem_decrypt_pkcs8(s, passphrase) ==
  LET in == Into(s)
      alg == Into(in)                      \* the scheme's OID
      kdf == Into(Into(Next(alg)))         \* the derivation's OID
      salt == Into(Next(kdf))
      iter == Next(salt)
      count == r_asn1_bin_tlv_parse_integer_u32(iter)
      w == PrfWalk(iter)
      scheme == Out(Out(w.dec))            \* over keyDerivationFunc
      enc == Into(scheme)
      iv == Next(enc)
      data == Out(Out(Out(iv)))            \* encryptedData
      key == Pbkdf2(w.prf, passphrase, Value(salt), count.val, AesBits(Value(enc)) \div 8)
  IN  IF passphrase = None \/ ~OK(in) THEN None
      ELSE IF ~IsOid(alg, Pkcs5(13)) THEN None
      ELSE IF ~OK(Next(alg)) THEN None
      ELSE IF ~OK(Into(Next(alg))) THEN None
      ELSE IF ~IsOid(kdf, Pkcs5(12)) THEN None
      ELSE IF ~OK(Next(kdf)) THEN None
      ELSE IF ~IsOctets(salt) THEN None
      ELSE IF ~OK(iter) THEN None
      ELSE IF count.st # "OK" THEN None
      ELSE IF count.val = 0 \/ w.prf = "NONE" THEN None
      ELSE IF ~OK(scheme) THEN None
      ELSE IF ~OK(enc) \/ ~IsTag(enc, OBJECT_IDENTIFIER) THEN None
      ELSE IF AesBits(Value(enc)) = 0 THEN None
      ELSE IF ~IsOctets(iv) \/ iv.tlv.len # 16 THEN None
      ELSE IF ~IsOctets(data) THEN None
      ELSE IF ~Blocks(Value(data)) THEN None
      ELSE Unpadded(CbcDecrypt(key, Value(iv), Value(data)))

FirstTlv(data) == r_asn1_bin_decoder_next(r_asn1_bin_decoder_new("BER", data))
r_pem_block_get_key(b, passphrase) ==
  LET text == r_pem_block_decode_base64(b)
      der == IF b.cipher = "NONE" THEN text
             ELSE IF passphrase = None \/ text = None THEN None ELSE r_pem_decrypt_legacy(b, passphrase, text)
      s == FirstTlv(der)
      plain == r_pem_decrypt_pkcs8(s, passphrase)
  IN  IF b = NoBlock THEN NoKey ELSE IF ~r_pem_block_is_key(b) THEN NoKey ELSE IF der = None THEN NoKey
      ELSE IF ~OK(s) THEN NoKey
      ELSE CASE b.type = "PUBLIC_KEY" -> r_crypto_key_from_asn1_public_key(s).key
             [] b.type = "RSA_PRIVATE_KEY" -> r_rsa_priv_key_new_from_asn1(s).key
             [] b.type = "DSA_PRIVATE_KEY" -> r_dsa_priv_key_new_from_asn1(s).key
             [] b.type = "PRIVATE_KEY" -> r_crypto_key_from_asn1_private_key(s).key
             [] b.type = "ENCRYPTED_PRIVATE_KEY" ->
                  IF plain = None THEN NoKey ELSE IF ~OK(FirstTlv(plain)) THEN NoKey
                  ELSE r_crypto_key_from_asn1_private_key(FirstTlv(plain)).key
r_pem_block_get_cert(b) ==
  IF b = NoBlock THEN NoCert ELSE IF b.type # "CERTIFICATE" THEN NoCert
  ELSE IF r_pem_block_decode_base64(b) = None THEN NoCert ELSE r_crypto_x509_cert_new_take(r_pem_block_decode_base64(b))
\* Only the first block of the text.
r_pem_parse_key_from_data(data, passphrase) ==
  LET p == r_pem_parser_new(data)
  IN  IF p = NoParser THEN NoKey ELSE r_pem_block_get_key(r_pem_parser_next_block(p).block, passphrase)
r_pem_parse_cert_from_data(data) ==
  LET p == r_pem_parser_new(data)
  IN  IF p = NoParser THEN NoCert ELSE r_pem_block_get_cert(r_pem_parser_next_block(p).block)

-----------------------------------------------------------------------------
(***************************************************************************)
(* Deciding whether a peer's chain is trusted (rtruststore.c).  A store is *)
(* [kind, anchors, pins]; NoStore is NULL.  A certificate here is a record *)
(* of what the accessors answer, IssuedWith(c, i) whether the key of i     *)
(* verifies the signature of c.  The operating system's own verifiers are  *)
(* external: os is the record of what their calls answered.                *)
(***************************************************************************)
CONSTANTS R_TRUST_MAX_CHAIN, IssuedWith(_, _)

NoStore == [kind |-> "NULL"]
AnyPurpose == "ANY"
KEY_CERT_SIGN == 5

r_trust_cert_time_valid(cert, now) == now >= cert.valid_from /\ now <= cert.valid_to
r_trust_issued_by(cert, issuer) == issuer.subject = cert.issuer /\ IssuedWith(cert, issuer)
\* Mutant of r_trust_check_ca: the path length counts the leaf.
check_ca_off_by_one(ca, now, ncabelow) ==
  IF ~r_trust_cert_time_valid(ca, now) THEN "EXPIRED"
  ELSE IF ~ca.ca THEN "NOT_CA"
  ELSE IF ca.keyUsage # {} /\ KEY_CERT_SIGN \notin ca.keyUsage THEN "BAD_USAGE"
  ELSE IF ca.pathLen >= 0 /\ ca.pathLen <= ncabelow THEN "PATHLEN"
  ELSE "OK"
r_trust_check_ca(ca, now, ncabelow) ==
  IF ~r_trust_cert_time_valid(ca, now) THEN "EXPIRED"
  ELSE IF ~ca.ca THEN "NOT_CA"
  ELSE IF ca.keyUsage # {} /\ KEY_CERT_SIGN \notin ca.keyUsage THEN "BAD_USAGE"
  ELSE IF ca.pathLen >= 0 /\ ca.pathLen < ncabelow THEN "PATHLEN"
  ELSE "OK"

\* The least index of s in the set; 0 when there is none.
Least(set) == IF set = {} THEN 0 ELSE CHOOSE i \in set : \A j \in set : i <= j
\* One step of the path: an anchor ends it, else the first unused issuer of
\* the chain goes on with it.
RECURSIVE PathFrom(_, _, _, _, _, _, _)
PathFrom(anchors, chain, cur, used, ncabelow, step, now) ==
  LET a == Least({i \in DOMAIN anchors : r_trust_issued_by(cur, anchors[i])})
      j == Least({i \in 2..Len(chain) : i \notin used /\ r_trust_issued_by(cur, chain[i])})
      res == r_trust_check_ca(anchors[a], now, ncabelow)
      ca == r_trust_check_ca(chain[j], now, ncabelow)
  IN  IF step = Len(chain) THEN "UNTRUSTED"
      ELSE IF a # 0 THEN (IF res \in {"EXPIRED", "PATHLEN"} THEN res ELSE "OK")
      ELSE IF j = 0 THEN "UNTRUSTED"
      ELSE IF ca # "OK" THEN ca
      ELSE PathFrom(anchors, chain, chain[j], used \cup {j}, ncabelow + 1, step + 1, now)
r_trust_certs_verify(store, chain, now, required_eku) ==
  LET n == IF Len(chain) > R_TRUST_MAX_CHAIN THEN R_TRUST_MAX_CHAIN ELSE Len(chain)
  IN  IF ~r_trust_cert_time_valid(chain[1], now) THEN "EXPIRED"
      ELSE IF required_eku # {} /\ chain[1].extKeyUsage \cap (required_eku \cup {AnyPurpose}) = {} THEN "BAD_USAGE"
      ELSE PathFrom(store.anchors, SubSeq(chain, 1, n), chain[1], {1}, 0, 0, now)
r_trust_store_new_certs == [kind |-> "certs", anchors |-> <<>>]
\* [ok, store] and, for the ones that count, [added, store].
r_trust_store_add_cert(store, cert) ==
  IF store.kind # "certs" THEN [ok |-> FALSE, store |-> store]
  ELSE [ok |-> TRUE, store |-> [store EXCEPT !.anchors = Append(@, cert)]]
\* A text is the sequence of its blocks: [type, cert], cert <<>> if it does
\* not parse; text <<>> is one the parser refuses.
r_trust_store_add_pem(store, text) ==
  LET certs == SelectSeq(text, LAMBDA b : b.type = "CERTIFICATE" /\ b.cert # <<>>)
      one(acc, b) == LET r == r_trust_store_add_cert(acc.store, b.cert[1])
                     IN  [added |-> acc.added + (IF r.ok THEN 1 ELSE 0), store |-> r.store]
  IN  IF store = NoStore \/ text = <<>> THEN [added |-> -1, store |-> store]
      ELSE FoldLeft(one, [added |-> 0, store |-> store], certs)
\* files: name to text; a name not there cannot be read.
r_trust_store_add_pem_file(store, files, name) ==
  IF store = NoStore \/ name \notin DOMAIN files THEN [added |-> -1, store |-> store]
  ELSE r_trust_store_add_pem(store, files[name])
\* dirs: name to the sequence of the names of its entries.
r_trust_store_add_dir(store, files, dirs, name) ==
  LET entries == SelectSeq(dirs[name], LAMBDA e : e \notin DOMAIN dirs)
      one(acc, e) == LET r == r_trust_store_add_pem_file(acc.store, files, e)
                     IN  [added |-> acc.added + (IF r.added > 0 THEN r.added ELSE 0), store |-> r.store]
  IN  IF name \notin DOMAIN dirs THEN [added |-> -1, store |-> store]
      ELSE FoldLeft(one, [added |-> 0, store |-> store], entries)
g__r_trust_system_bundles == <<"ca-certificates.crt", "ca-bundle.crt", "cert.pem", "ca-bundle.pem">>
g__r_trust_system_dirs == <<"/etc/ssl/certs", "/etc/pki/tls/certs">>
\* env: the two variables, "" when not set.
NewUnix(env, files, dirs) ==
  LET new == [added |-> 0, store |-> r_trust_store_new_certs]
      bundle(acc, name) == IF acc.added > 0 THEN acc ELSE r_trust_store_add_pem_file(acc.store, files, name)
      dir(acc, name) == IF acc.added > 0 THEN acc ELSE r_trust_store_add_dir(acc.store, files, dirs, name)
      r == IF env.SSL_CERT_FILE # "" THEN bundle(new, env.SSL_CERT_FILE)
           ELSE IF env.SSL_CERT_DIR # "" THEN dir(new, env.SSL_CERT_DIR)
           ELSE FoldLeft(dir, FoldLeft(bundle, new, g__r_trust_system_bundles), g__r_trust_system_dirs)
  IN  IF r.added <= 0 THEN NoStore ELSE r.store
-----------------------------------------------------------------------------
\* The platforms' verifiers.  Certificates without data are passed over; on
\* Windows the leaf must not be, on Android none may be.
r_trust_win32_eku_oid(eku) ==
  CASE eku = {"CLIENT_AUTH"} -> "1.3.6.1.5.5.7.3.2" [] eku = {"SERVER_AUTH"} -> "1.3.6.1.5.5.7.3.1" [] OTHER -> "any"
r_trust_system_verify_win32(os, required_eku) ==
  LET asked == <<r_trust_win32_eku_oid(required_eku), IF required_eku = {"CLIENT_AUTH"} THEN "CLIENT" ELSE "SERVER">>
  IN  IF ~os.open \/ ~os.leaf \/ ~os.built THEN "INVALID"
      ELSE IF os.err = {} THEN (IF ~os.checked THEN "INVALID" ELSE IF asked \in os.accepts THEN "OK" ELSE "UNTRUSTED")
      ELSE IF "TIME" \in os.err THEN "EXPIRED"
      ELSE IF "USAGE" \in os.err THEN "BAD_USAGE" ELSE "UNTRUSTED"
r_trust_system_new_win32 == [kind |-> "win32"]
r_trust_system_verify_darwin(os, required_eku) ==
  LET policy == IF required_eku = {} THEN "X509" ELSE IF required_eku = {"CLIENT_AUTH"} THEN "CLIENT" ELSE "SERVER"
  IN  IF ~os.open \/ os.certs = 0 \/ ~os.built THEN "INVALID" ELSE IF policy \in os.accepts THEN "OK" ELSE "UNTRUSTED"
r_trust_system_new_darwin == [kind |-> "darwin"]
\* A missing class or method fails closed; an exception is a refusal.
r_trust_system_verify_android(vm, os, required_eku) ==
  IF ~vm \/ ~os.attached \/ ~os.frame \/ os.missing THEN "INVALID"
  ELSE IF os.raised THEN "UNTRUSTED"
  ELSE IF ~os.exported \/ ~os.manager THEN "INVALID"
  ELSE IF (IF required_eku = {"CLIENT_AUTH"} THEN "checkClientTrusted" ELSE "checkServerTrusted") \in os.accepts
       THEN "OK" ELSE "UNTRUSTED"
r_trust_system_new_android(vm) == IF vm THEN [kind |-> "android"] ELSE NoStore
r_trust_store_new_system(platform, vm, env, files, dirs) ==
  CASE platform = "win32" -> r_trust_system_new_win32 [] platform = "darwin" -> r_trust_system_new_darwin
    [] platform = "android" -> r_trust_system_new_android(vm) [] platform = "unix" -> NewUnix(env, files, dirs)
    [] OTHER -> NoStore
-----------------------------------------------------------------------------
\* Pins: the digest of the leaf's exported key, the key itself here.
r_trust_cert_spki_sha256(cert) == IF cert.exports THEN <<"SHA256", cert.pk>> ELSE <<>>
r_trust_pinned_verify(store, chain, now) ==
  LET spki == r_trust_cert_spki_sha256(chain[1])
  IN  IF ~r_trust_cert_time_valid(chain[1], now) THEN "EXPIRED"
      ELSE IF spki # <<>> /\ \E p \in DOMAIN store.pins : store.pins[p] = spki THEN "OK" ELSE "UNTRUSTED"
r_trust_store_new_pinned_spki == [kind |-> "pinned", pins |-> <<>>]
r_trust_store_add_spki_sha256(store, sha256) ==
  IF store.kind # "pinned" \/ sha256 = <<>> THEN [ok |-> FALSE, store |-> store]
  ELSE [ok |-> TRUE, store |-> [store EXCEPT !.pins = Append(@, sha256)]]
r_trust_store_pin_cert_spki(store, cert) == r_trust_store_add_spki_sha256(store, r_trust_cert_spki_sha256(cert))

r_trust_store_verify(store, chain, now, required_eku, os) ==
  IF store = NoStore \/ chain = <<>> THEN "INVALID"
  ELSE CASE store.kind = "certs" -> r_trust_certs_verify(store, chain, now, required_eku)
         [] store.kind = "pinned" -> r_trust_pinned_verify(store, chain, now)
         [] store.kind = "win32" -> r_trust_system_verify_win32(os, required_eku)
         [] store.kind = "darwin" -> r_trust_system_verify_darwin(os, required_eku)
         [] store.kind = "android" -> r_trust_system_verify_android(TRUE, os, required_eku)
=============================================================================
