----------------------------- MODULE PublicKey ------------------------------
(***************************************************************************)
(* RSA keys, PKCS#1 v1.5 and PSS (rlib/crypto/rrsa.c).  Multi-precision    *)
(* values are integers (Mpint models that arithmetic), a                   *)
(* buffer is a sequence of bytes, most significant first, and a byte has   *)
(* ByteBits bits.  A random draw is a parameter of the operation.          *)
(***************************************************************************)
EXTENDS CryptoNum

CONSTANTS DigitBytes,    \* sizeof (rmpint_digit) (4)
          MinPad,        \* shortest padding string (8)
          Trailer        \* the last byte of a PSS block (0xbc)

r_rsa_pub_key_new(n, e) ==
  [type |-> "public", padding |-> "v15", n |-> n, e |-> e, bits |-> Bits(n)]

\* The caches need an odd non-zero n, and odd p and q where both are there.
r_rsa_priv_key_precompute_cache(k) ==
  k.n # 0 /\ k.n % 2 = 1 /\ ((k.p # 0 /\ k.q # 0) => (k.p % 2 = 1 /\ k.q % 2 = 1))

r_rsa_priv_key_new_full(ver, n, e, d, p, q, dp, dq, qp) ==
  LET k == [type |-> "private", padding |-> "v15", n |-> n, e |-> e, bits |-> Bits(n), ver |-> ver,
            d |-> d, p |-> p, q |-> q, dp |-> dp, dq |-> dq, qp |-> qp]
  IN  IF r_rsa_priv_key_precompute_cache(k) THEN <<k>> ELSE <<>>

r_rsa_priv_key_new(n, e, d) == r_rsa_priv_key_new_full(0, n, e, d, 0, 0, 0, 0, 0)

\* One pass of the generation loop over two prime draws: <<>> is "draw again".
r_rsa_priv_key_new_gen(bits, e, p, q) ==
  LET phi == (p - 1) * (q - 1)
      d == InvMod(e, phi)
  IN  IF p = q \/ Bits(p * q) # bits \/ ~Coprime(e, phi) THEN <<>>
      ELSE r_rsa_priv_key_new_full(0, p * q, e, d, p, q, d % (p - 1), d % (q - 1), InvMod(q, p))

\* The fields of a PKCS#1 key in the order both directions use.
r_rsa_priv_key_export(k) == <<k.ver, k.n, k.e, k.d, k.p, k.q, k.dp, k.dq, k.qp>>

r_rsa_priv_key_new_from_asn1(f) ==
  IF Len(f) < 9 THEN <<>>
  ELSE r_rsa_priv_key_new_full(f[1], f[2], f[3], f[4], f[5], f[6], f[7], f[8], f[9])

r_rsa_pub_key_export(k) == <<"rsaEncryption", <<k.n, k.e>>>>

r_rsa_pub_key_set_padding(k, p) == [k EXCEPT !.padding = p]

r_rsa_priv_key_get(k, field) == IF k.type = "private" THEN <<k[field]>> ELSE <<>>

\* Bytes of a block: whole digits of the modulus.
K(k) == ((k.bits + ByteBits * DigitBytes - 1) \div (ByteBits * DigitBytes)) * DigitBytes

r_rsa_raw_encrypt_internal(k, data) ==
  IF Len(data) # K(k) THEN <<"INVAL">>
  ELSE IF OS2I(data) = 0 THEN <<"WRONG_SIZE">>
  ELSE <<OK, I2OS(ExpMod(OS2I(data), k.e, k.n), K(k))>>

\* c^d mod n, by the Chinese remainder theorem when every part is there.  With
\* bits(p) >= bits(q) one conditional subtraction reduces m2 modulo p.
r_rsa_modexp_private(k, c) ==
  LET m1 == ExpMod(c, k.dp, k.p)
      m2 == ExpMod(c, k.dq, k.q)
      m2p == IF Bits(k.p) >= Bits(k.q) THEN (IF m2 >= k.p THEN m2 - k.p ELSE m2) ELSE m2 % k.p
      h == (((m1 - m2p) % k.p) * k.qp) % k.p
  IN  IF k.p # 0 /\ k.q # 0 /\ k.dp # 0 /\ k.dq # 0 /\ k.qp # 0 THEN m2 + h * k.q
      ELSE ExpMod(c, k.d, k.n)

\* Blinded with the draw r, which is reduced and must not be zero.  The loop
\* that redraws tests r_mpint_invmod's success, not its result.
r_rsa_raw_decrypt_internal(k, data, draw) ==
  LET c == OS2I(data)
      r == draw % k.n
      blind == ((c % k.n) * ExpMod(r, k.e, k.n)) % k.n
      m == (r_rsa_modexp_private(k, blind) * InvMod(r, k.n)) % k.n
  IN  CASE Len(data) # K(k) -> <<"INVAL">>
        [] Len(data) = K(k) /\ c = 0 -> <<"WRONG_SIZE">>
        [] OTHER -> <<OK, I2OS(m, K(k))>>

\* The exported raw operations both ask for a private key.
r_rsa_raw_encrypt(k, data) ==
  IF k.type # "private" THEN <<"WRONG_TYPE">> ELSE r_rsa_raw_encrypt_internal(k, data)
r_rsa_raw_decrypt(k, data, draw) ==
  IF k.type # "private" THEN <<"WRONG_TYPE">> ELSE r_rsa_raw_decrypt_internal(k, data, draw)

\* ps is the non-zero padding drawn, of length k - size - 3.
r_rsa_pkcs1v1_5_encrypt(k, data, ps, outsize) ==
  IF Len(data) > K(k) - (MinPad + 3) \/ outsize < K(k) THEN <<"WRONG_SIZE">>
  ELSE r_rsa_raw_encrypt_internal(k, <<0, 2>> \o ps \o <<0>> \o data)

\* Position of the first byte from index 3 on that satisfies P, or past the end.
Scan(em, P(_)) ==
  IF \E i \in 3 .. Len(em) : P(em[i])
  THEN CHOOSE i \in 3 .. Len(em) : P(em[i]) /\ \A j \in 3 .. i - 1 : ~P(em[j])
  ELSE Len(em) + 1

r_rsa_pkcs1v1_5_decrypt(k, data, draw, outsize) ==
  LET raw == r_rsa_raw_decrypt_internal(k, data, draw)
      em == raw[2]
      z == Scan(em, LAMBDA b : b = 0)
  IN  CASE k.type # "private" -> <<"WRONG_TYPE">>
        [] k.type = "private" /\ Len(data) # K(k) -> <<"WRONG_SIZE">>
        [] k.type = "private" /\ Len(data) = K(k) /\ raw[1] # OK -> raw
        [] OTHER ->
             IF Len(em) < MinPad + 3 \/ em[1] # 0 \/ em[2] # 2 \/ z - 1 < MinPad + 2 \/ z > Len(em)
             THEN <<"INVALID_PADDING">>
             ELSE IF outsize < Len(em) - z THEN <<"BUFFER_TOO_SMALL">>
             ELSE <<OK, SubSeq(em, z + 1, Len(em))>>

\* Keyed by the private exponent and the ciphertext only.
r_rsa_pkcs1v1_5_synthetic(d, data, n) ==
  LET block(c) == Hash(<<d % Byte, c>> \o data)
  IN  SubSeq(Fold(LAMBDA acc, c : acc \o block(c), <<>>, [c \in 1 .. n |-> c]), 1, n)

\* A malformed block yields the synthetic plaintext, never an error.
r_rsa_pkcs1v1_5_decrypt_implicit(k, data, draw, outsize) ==
  LET raw == r_rsa_raw_decrypt_internal(k, data, draw)
      em == raw[2]
      z == Scan(em, LAMBDA b : b = 0)
      valid == em[1] = 0 /\ em[2] = 2 /\ z = Len(em) - outsize
  IN  CASE Len(data) # K(k) \/ outsize = 0 \/ outsize > K(k) - (MinPad + 3) -> <<"WRONG_SIZE">>
        [] Len(data) = K(k) /\ outsize \in 1 .. K(k) - (MinPad + 3) /\ raw[1] # OK -> raw
        [] OTHER -> <<OK, IF valid THEN SubSeq(em, Len(em) - outsize + 1, Len(em))
                          ELSE r_rsa_pkcs1v1_5_synthetic(k.d, data, outsize)>>

\* DigestInfo: the digest's algorithm and the hash with its length in front.
DigestInfo(md, hash) == <<md, Len(hash)>> \o hash
WellFormed(t) == t # <<>> /\ Len(t[1]) >= 2 /\ Len(t[1]) >= 2 + t[1][2]
Digest(t) == SubSeq(t[1], 3, 2 + t[1][2])

\* The signature's block length is bitsize / 8, not whole digits.
SignBlock(k, t, draw, sigsize, need) ==
  LET n == k.bits \div ByteBits
  IN  CASE k.type # "private" -> <<"WRONG_TYPE">>
        [] k.type = "private" /\ (sigsize < n \/ Len(t) + need > n) -> <<"BUFFER_TOO_SMALL">>
        [] OTHER -> LET r == r_rsa_raw_decrypt_internal(k, <<0, 1>> \o Rep(FF, n - 3 - Len(t)) \o <<0>> \o t, draw)
                    IN  IF r[1] = OK THEN r ELSE <<"SIGN_FAILED">>

r_rsa_pkcs1v1_5_sign_msg_hash(k, md, hash, draw, sigsize) ==
  SignBlock(k, DigestInfo(md, hash), draw, sigsize, MinPad + 3)

r_rsa_pkcs1v1_5_sign_hash(k, hash, draw, sigsize) == SignBlock(k, hash, draw, sigsize, 3)

r_rsa_pkcs1v1_5_sign_msg(k, md, msg, draw, sigsize) ==
  IF msg = <<>> THEN <<"INVAL">> ELSE r_rsa_pkcs1v1_5_sign_msg_hash(k, md, Hash(msg), draw, sigsize)

\* What follows the padding of a signature block, or <<>> when it is malformed.
Unpad(em) ==
  LET z == Scan(em, LAMBDA b : b # FF)
  IN  IF Len(em) < MinPad + 3 \/ em[1] # 0 \/ em[2] # 1 \/ z - 1 < MinPad + 2 \/ z > Len(em) \/ em[z] # 0
      THEN <<>> ELSE <<SubSeq(em, z + 1, Len(em))>>

r_rsa_pkcs1v1_5_verify_msg_with_hash(k, md, hash, sig) ==
  LET raw == r_rsa_raw_encrypt_internal(k, sig)
      t == Unpad(raw[2])
  IN  CASE raw[1] # OK -> raw[1]
        [] raw[1] = OK /\ ~WellFormed(t) -> "VERIFY_FAILED"
        [] OTHER -> IF t[1][1] # md THEN "WRONG_TYPE"
                    ELSE IF Len(Digest(t)) # Len(hash) THEN "WRONG_SIZE"
                    ELSE IF Digest(t) = hash THEN OK ELSE "VERIFY_FAILED"

r_rsa_pkcs1v1_5_verify_msg(k, msg, sig) ==
  LET raw == r_rsa_raw_encrypt_internal(k, sig)
      t == Unpad(raw[2])
  IN  CASE raw[1] # OK -> raw[1]
        [] raw[1] = OK /\ ~WellFormed(t) -> "VERIFY_FAILED"
        [] OTHER -> IF Len(Digest(t)) # HashLen THEN "WRONG_SIZE"
                    ELSE IF Digest(t) = Hash(msg) THEN OK ELSE "VERIFY_FAILED"

r_rsa_pkcs1v1_5_verify_hash(k, hash, sig) ==
  LET raw == r_rsa_raw_encrypt_internal(k, sig)
      t == Unpad(raw[2])
  IN  IF raw[1] # OK THEN raw[1]
      ELSE IF t # <<>> /\ t[1] = hash THEN OK ELSE "VERIFY_FAILED"

r_rsa_mgf1(seed, n) ==
  SubSeq(Fold(LAMBDA acc, c : acc \o Hash(seed \o <<c - 1>>), <<>>, [c \in 1 .. n |-> c]), 1, n)

\* M' of PSS: eight zero bytes, the message's hash and the salt.
PssHash(mhash, salt) == Hash(<<0>> \o mhash \o salt)

r_rsa_emsa_pss_encode(mhash, salt, embits, emlen) ==
  LET dblen == emlen - HashLen - 1
      h == PssHash(mhash, salt)
      db == Rep(0, dblen - HashLen - 1) \o <<1>> \o salt
      masked == Xor(db, r_rsa_mgf1(h, dblen))
      top == Byte \div 2 ^ (ByteBits * emlen - embits)
  IN  <<masked[1] % top>> \o Tail(masked) \o h \o <<Trailer>>

r_rsa_emsa_pss_verify(mhash, em, embits) ==
  LET emlen == Len(em)
      dblen == emlen - HashLen - 1
      top == Byte \div 2 ^ (ByteBits * emlen - embits)
      h == SubSeq(em, dblen + 1, dblen + HashLen)
      unmasked == Xor(SubSeq(em, 1, dblen), r_rsa_mgf1(h, dblen))
      db == <<unmasked[1] % top>> \o Tail(unmasked)
  IN  IF \/ emlen < 2 * HashLen + 2
         \/ em[emlen] # Trailer
         \/ em[1] >= top
         \/ \E i \in 1 .. dblen - HashLen - 1 : db[i] # 0
         \/ db[dblen - HashLen] # 1
         \/ PssHash(mhash, SubSeq(db, dblen - HashLen + 1, dblen)) # h
      THEN "VERIFY_FAILED" ELSE OK

EmLen(k) == (k.bits - 1 + ByteBits - 1) \div ByteBits

r_rsa_pss_sign_hash(k, hash, salt, draw, sigsize) ==
  LET n == k.bits \div ByteBits
      el == EmLen(k)
      em == Rep(0, n - el) \o r_rsa_emsa_pss_encode(hash, salt, k.bits - 1, el)
  IN  CASE k.type # "private" -> <<"WRONG_TYPE">>
        [] k.type = "private" /\ Len(hash) # HashLen -> <<"INVAL">>
        [] k.type = "private" /\ Len(hash) = HashLen /\ (sigsize < n \/ el > n \/ el < 2 * HashLen + 2) ->
             <<"BUFFER_TOO_SMALL">>
        [] OTHER -> LET r == r_rsa_raw_decrypt_internal(k, em, draw)
                    IN  IF r[1] = OK THEN r ELSE <<"SIGN_FAILED">>

r_rsa_pss_verify_hash(k, hash, sig) ==
  LET n == k.bits \div ByteBits
      el == EmLen(k)
      raw == r_rsa_raw_encrypt_internal(k, sig)
  IN  IF Len(hash) # HashLen THEN "INVAL"
      ELSE IF Len(sig) # n \/ el > n \/ raw[1] # OK THEN "VERIFY_FAILED"
      ELSE r_rsa_emsa_pss_verify(hash, SubSeq(raw[2], n - el + 1, n), k.bits - 1)

\* The key's algorithm table: v1.5 encrypts and signs, v2.1 only signs.
r_rsa_encrypt(k, data, ps, outsize) ==
  IF k.padding = "v15" THEN r_rsa_pkcs1v1_5_encrypt(k, data, ps, outsize) ELSE <<"NOT_AVAILABLE">>

r_rsa_decrypt(k, data, draw, outsize) ==
  IF k.padding = "v15" THEN r_rsa_pkcs1v1_5_decrypt(k, data, draw, outsize) ELSE <<"NOT_AVAILABLE">>

r_rsa_sign(k, md, hash, salt, draw, sigsize) ==
  CASE k.padding = "v15" -> r_rsa_pkcs1v1_5_sign_msg_hash(k, md, hash, draw, sigsize)
    [] k.padding = "v21" -> r_rsa_pss_sign_hash(k, hash, salt, draw, sigsize)
    [] OTHER -> <<"NOT_AVAILABLE">>

r_rsa_verify(k, md, hash, sig) ==
  CASE k.padding = "v15" -> r_rsa_pkcs1v1_5_verify_msg_with_hash(k, md, hash, sig)
    [] k.padding = "v21" -> r_rsa_pss_verify_hash(k, hash, sig)
    [] OTHER -> "NOT_AVAILABLE"

-----------------------------------------------------------------------------
(***************************************************************************)
(* DSA keys, signatures and parameter generation (rlib/crypto/rdsa.c).     *)
(* Where the code redraws until a draw is usable, the operation takes a    *)
(* sequence of draws; running out of draws is a failing random source.     *)
(***************************************************************************)
CONSTANTS SizePairs,     \* the approved (L, N) pairs
          Digests        \* digest types r_msg_digest_new knows

r_dsa_hash_to_mpint(q, hash) == HashToInt(hash, q)
r_dsa_decode_sig(sig) == DecodeSig(sig)

r_dsa_pub_key_new_full(p, q, g, y) ==
  [type |-> "public", bits |-> Bits(y), p |-> p, q |-> q, g |-> g, y |-> y]

r_dsa_pub_key_new_binary(p, q, g, y) ==
  IF <<>> \in {p, q, g, y} THEN <<>>
  ELSE <<r_dsa_pub_key_new_full(OS2I(p), OS2I(q), OS2I(g), OS2I(y))>>

\* Montgomery arithmetic modulo q needs an odd q.
r_dsa_priv_key_precompute_cache(k) == k.q % 2 = 1

r_dsa_priv_key_new(ver, p, q, g, y, x) ==
  LET k == [type |-> "private", bits |-> Bits(y), ver |-> ver, p |-> p, q |-> q, g |-> g, y |-> y, x |-> x]
  IN  IF r_dsa_priv_key_precompute_cache(k) THEN <<k>> ELSE <<>>

r_dsa_priv_key_new_binary(p, q, g, y, x) ==
  IF <<>> \in {p, q, g, y, x} THEN <<>>
  ELSE r_dsa_priv_key_new(0, OS2I(p), OS2I(q), OS2I(g), OS2I(y), OS2I(x))

\* The value of k^-1 (z + x r) mod q, the inverse by Fermat.
SValue(pk, z, k, r) == (ExpMod(k, pk.q - 2, pk.q) * ((z + pk.x * r) % pk.q)) % pk.q
RValue(pk, k) == ExpMod(pk.g, k, pk.p) % pk.q

r_dsa_sign(pk, hash, draws, sigsize) ==
  LET z == r_dsa_hash_to_mpint(pk.q, hash)
      usable(d) == LET k == d % pk.q
                   IN  k # 0 /\ RValue(pk, k) # 0 /\ SValue(pk, z, k, RValue(pk, k)) # 0
      pick == FirstDraw(draws, usable)
      k == pick[1] % pk.q
      r == RValue(pk, k)
  IN  IF pk.type # "private" THEN <<"WRONG_TYPE">>
      ELSE IF hash = <<>> \/ 0 \in {pk.p, pk.q, pk.g, pk.x} THEN <<"INVAL">>
      ELSE IF pick = <<>> THEN <<"SIGN_FAILED">>
      ELSE IF sigsize < 2 THEN <<"BUFFER_TOO_SMALL">>
      ELSE <<OK, SEQUENCE(<<INTEGER(r), INTEGER(SValue(pk, z, k, r))>>)>>

r_dsa_verify(pk, hash, sig) ==
  LET rs == r_dsa_decode_sig(sig)
      z == r_dsa_hash_to_mpint(pk.q, hash)
      w == InvMod(rs[2], pk.q)
      v == ((ExpMod(pk.g, (z * w) % pk.q, pk.p) * ExpMod(pk.y, (rs[1] * w) % pk.q, pk.p)) % pk.p) % pk.q
  IN  IF hash = <<>> \/ 0 \in {pk.p, pk.q, pk.g, pk.y} THEN "INVAL"
      ELSE IF rs = <<>> THEN "VERIFY_FAILED"
      ELSE IF rs[1] \in 1 .. pk.q - 1 /\ rs[2] \in 1 .. pk.q - 1 /\ v = rs[1] THEN OK
      ELSE "VERIFY_FAILED"

r_dsa_pub_key_export(k) ==
  SEQUENCE(<<SEQUENCE(<<[tag |-> "OID", v |-> "dsa"],
                        SEQUENCE(<<INTEGER(k.p), INTEGER(k.q), INTEGER(k.g)>>)>>),
             [tag |-> "BIT_STRING", v |-> INTEGER(k.y)]>>)

r_dsa_priv_key_export(k) ==
  SEQUENCE(<<INTEGER(k.ver), INTEGER(k.p), INTEGER(k.q), INTEGER(k.g), INTEGER(k.y), INTEGER(k.x)>>)

r_dsa_priv_key_new_from_asn1(t) ==
  IF ~IsSeq(t, 6) \/ \E i \in 1 .. 6 : ~IsInt(t.v[i]) THEN <<>>
  ELSE r_dsa_priv_key_new(t.v[1].v, t.v[2].v, t.v[3].v, t.v[4].v, t.v[5].v, t.v[6].v)

r_dsa_size_pair_supported(L, N) == <<L, N>> \in SizePairs

\* Both primality tests (Mpint models them).
r_dsa_strong_isprime(p) == p > 1 /\ \A d \in 2 .. p - 1 : p % d # 0

\* p = m q + 1 of L bits, from the first even multiplier that gives a prime.
r_dsa_gen_prime_p(q, L, draws) ==
  LET p(m) == (m - (m % 2)) * q + 1
      pick == FirstDraw(draws, LAMBDA m : Bits(p(m)) = L /\ r_dsa_strong_isprime(p(m)))
  IN  IF L <= Bits(q) \/ pick = <<>> THEN <<>> ELSE <<p(pick[1])>>

\* g = h^((p-1)/q) mod p for the first h >= 2 for which it is not 1.
r_dsa_gen_generator(p, q, draws) ==
  LET g(h) == ExpMod(h % p, (p - 1) \div q, p)
      pick == FirstDraw(draws, LAMBDA h : h % p >= 2 /\ g(h) # 1)
  IN  IF pick = <<>> THEN <<>> ELSE <<g(pick[1])>>

\* qs, ms, hs and xs are the draws of q, of p's multiplier, of h and of x.
r_dsa_priv_key_new_gen(L, N, qs, ms, hs, xs) ==
  LET q == FirstDraw(qs, LAMBDA c : Bits(c) = N /\ r_dsa_strong_isprime(c))
      p == r_dsa_gen_prime_p(q[1], L, ms)
      g == r_dsa_gen_generator(p[1], q[1], hs)
      x == FirstDraw(xs, LAMBDA d : d % q[1] # 0)
  IN  IF ~r_dsa_size_pair_supported(L, N) THEN <<>>
      ELSE IF q = <<>> THEN <<>>
      ELSE IF p = <<>> THEN <<>>
      ELSE IF g = <<>> THEN <<>>
      ELSE IF ExpMod(g[1], q[1], p[1]) # 1 \/ x = <<>> THEN <<>>
      ELSE LET k == r_dsa_priv_key_new(0, p[1], q[1], g[1], ExpMod(g[1], x[1] % q[1], p[1]), x[1] % q[1])
           IN  IF k = <<>> THEN k ELSE <<[k[1] EXCEPT !.bits = L]>>

r_dsa_pub_key_get(k, field) == k[field]
r_dsa_priv_key_get_x(k) == IF k.type = "private" THEN <<k.x>> ELSE <<>>

r_dsa_compute_hash(md, msg) == IF md \in Digests THEN Hash(msg) ELSE <<>>

r_dsa_sign_msg(k, md, msg, draws, sigsize) ==
  IF msg = <<>> THEN <<"INVAL">>
  ELSE IF r_dsa_compute_hash(md, msg) = <<>> THEN <<"HASH_FAILED">>
  ELSE IF k.type # "private" THEN <<"NOT_AVAILABLE">>
  ELSE r_dsa_sign(k, r_dsa_compute_hash(md, msg), draws, sigsize)

r_dsa_verify_msg(k, md, msg, sig) ==
  IF msg = <<>> THEN "INVAL"
  ELSE IF r_dsa_compute_hash(md, msg) = <<>> THEN "HASH_FAILED"
  ELSE r_dsa_verify(k, r_dsa_compute_hash(md, msg), sig)

-----------------------------------------------------------------------------
(***************************************************************************)
(* Finite-field Diffie-Hellman (rlib/crypto/rdh.c).                        *)
(***************************************************************************)
CONSTANT Groups          \* named group -> [p, g, strength]

r_dh_pub_key_new(p, g, y) == [algo |-> "DH", type |-> "public", bits |-> Bits(p), p |-> p, g |-> g, y |-> y]

r_dh_pub_key_new_binary(p, g, y) ==
  IF <<>> \in {p, g, y} THEN <<>> ELSE <<r_dh_pub_key_new(OS2I(p), OS2I(g), OS2I(y))>>

r_dh_priv_key_new(p, g, y, x) ==
  [algo |-> "DH", type |-> "private", bits |-> Bits(p), ver |-> 0, p |-> p, g |-> g, y |-> y, x |-> x]

r_dh_priv_key_new_binary(p, g, y, x) ==
  IF <<>> \in {p, g, y, x} THEN <<>> ELSE <<r_dh_priv_key_new(OS2I(p), OS2I(g), OS2I(y), OS2I(x))>>

\* A full-width exponent is redrawn into 2 .. p - 2; a short one keeps ebits
\* bits of its one draw and has the topmost of them set.
r_dh_priv_key_gen(p, g, ebits, draws) ==
  LET full == ebits = 0 \/ ebits >= Bits(p)
      pick == IF full THEN FirstDraw(draws, LAMBDA d : d % (Byte ^ Bytes(p)) \in 2 .. p - 2)
              ELSE SubSeq(draws, 1, 1)
      x == IF full THEN pick[1] % (Byte ^ Bytes(p)) ELSE (pick[1] % (2 ^ (ebits - 1))) + 2 ^ (ebits - 1)
  IN  IF p < 3 \/ pick = <<>> THEN <<>> ELSE <<r_dh_priv_key_new(p, g, ExpMod(g, x, p), x)>>

r_dh_priv_key_new_gen(p, g, draws) == r_dh_priv_key_gen(p, g, 0, draws)

r_dh_named_group_get_params(group) ==
  IF group \in DOMAIN Groups THEN <<Groups[group].p, Groups[group].g>> ELSE <<>>

r_dh_priv_key_new_gen_named(group, draws) ==
  LET pg == r_dh_named_group_get_params(group)
  IN  IF pg = <<>> THEN <<>> ELSE r_dh_priv_key_gen(pg[1], pg[2], 2 * Groups[group].strength, draws)

r_dh_pub_key_get(k, field) == IF k.algo = "DH" THEN <<k[field]>> ELSE <<>>
r_dh_priv_key_get_x(k) == IF k.algo = "DH" /\ k.type = "private" THEN <<k.x>> ELSE <<>>

r_dh_compute_shared(priv, peer, outsize) ==
  IF priv.algo # "DH" \/ peer.algo # "DH" \/ priv.type # "private" THEN <<"WRONG_TYPE">>
  ELSE IF priv.p # peer.p \/ priv.g # peer.g THEN <<"WRONG_TYPE">>
  ELSE IF outsize < Bytes(priv.p) THEN <<"BUFFER_TOO_SMALL">>
  ELSE IF peer.y <= 1 \/ peer.y >= priv.p - 1 THEN <<"INVAL">>
  ELSE <<OK, I2OS(ExpMod(peer.y, priv.x, priv.p), Bytes(priv.p))>>

r_dh_pub_key_export(k) ==
  SEQUENCE(<<SEQUENCE(<<[tag |-> "OID", v |-> "dh"], SEQUENCE(<<INTEGER(k.p), INTEGER(k.g)>>)>>),
             [tag |-> "BIT_STRING", v |-> INTEGER(k.y)]>>)

r_dh_priv_key_export(k) == SEQUENCE(<<INTEGER(k.ver), INTEGER(k.p), INTEGER(k.g), INTEGER(k.x)>>)

\* The public value is recovered, not read.
r_dh_priv_key_new_from_asn1(t) ==
  IF ~IsSeq(t, 4) \/ \E i \in 1 .. 4 : ~IsInt(t.v[i]) THEN <<>>
  ELSE <<[r_dh_priv_key_new(t.v[2].v, t.v[3].v, ExpMod(t.v[3].v, t.v[4].v, t.v[2].v), t.v[4].v)
          EXCEPT !.ver = t.v[1].v]>>

-----------------------------------------------------------------------------
(***************************************************************************)
(* Short Weierstrass curves (rlib/crypto/recurve.c): affine and Jacobian   *)
(* group law, the Montgomery ladder with its conditioned scalar, and the   *)
(* uncompressed encoding.  Field elements are integers modulo p: the       *)
(* Montgomery form they are kept in is transparent (Mpint models it).      *)
(***************************************************************************)
CONSTANTS EcDigitBits,     \* bits of an rmpint_digit (32)
          Curves,        \* curves with parameters: id -> [p, a, b, n, G, coord_bytes]
          CurveOids      \* id -> OID, for every named curve

Infinity == [inf |-> TRUE, x |-> 0, y |-> 0]
Point(x, y) == [inf |-> FALSE, x |-> x, y |-> y]

\* The curve's parameters, or <<>> for a curve without any.
r_ecurve_init(id) == IF id \in DOMAIN Curves THEN <<Curves[id]>> ELSE <<>>

r_ecurve_oid_from_id(id) == IF id \in DOMAIN CurveOids THEN <<CurveOids[id]>> ELSE <<>>
r_ecurve_id_from_oid(oid) ==
  IF \E id \in DOMAIN CurveOids : CurveOids[id] = oid
  THEN <<CHOOSE id \in DOMAIN CurveOids : CurveOids[id] = oid>> ELSE <<>>

\* Jacobian (X, Y, Z) stands for (X / Z^2, Y / Z^3); Z = 0 is the identity.
r_ecurve_jp_dbl(P, c) ==
  LET p == c.p
      YY == (P.Y * P.Y) % p
      ZZ == (P.Z * P.Z) % p
      S == (4 * ((P.X * YY) % p)) % p
      M == (3 * ((P.X * P.X) % p) + c.a * ((ZZ * ZZ) % p)) % p
      T == (M * M - 2 * S) % p
  IN  [X |-> T, Y |-> (M * (S - T) - 8 * ((YY * YY) % p)) % p, Z |-> (2 * P.Y * P.Z) % p]

\* An identity operand is replaced by the other one; P = Q is not handled.
r_ecurve_jp_add(P, Q, c) ==
  LET p == c.p
      Z1Z1 == (P.Z * P.Z) % p
      Z2Z2 == (Q.Z * Q.Z) % p
      U1 == (P.X * Z2Z2) % p
      S1 == (P.Y * ((Q.Z * Z2Z2) % p)) % p
      H == (Q.X * Z1Z1 - U1) % p
      R == (Q.Y * ((P.Z * Z1Z1) % p) - S1) % p
      H2 == (H * H) % p
      H3 == (H * H2) % p
      U1H2 == (U1 * H2) % p
      X3 == (R * R - H3 - 2 * U1H2) % p
      sum == [X |-> X3, Y |-> (R * (U1H2 - X3) - S1 * H3) % p, Z |-> (((P.Z * Q.Z) % p) * H) % p]
  IN  IF P.Z = 0 THEN Q ELSE IF Q.Z = 0 THEN P ELSE sum

r_ecurve_jp_to_affine(P, c) ==
  LET p == c.p
      zi == ExpMod(P.Z, p - 2, p)
      zi2 == (zi * zi) % p
  IN  IF P.Z = 0 THEN Infinity ELSE Point((P.X * zi2) % p, (P.Y * ((zi * zi2) % p)) % p)

r_ecurve_point_neg(a, c) ==
  IF a.inf THEN Infinity ELSE Point(a.x, IF a.y = 0 THEN 0 ELSE c.p - a.y)

\* The third point of the line through (x1, y1) with the given slope.
Third(slope, x1, x2, y1, p) ==
  LET x == (slope * slope - x1 - x2) % p IN Point(x, (slope * ((x1 - x) % p) - y1) % p)

r_ecurve_point_dbl(a, c) ==
  IF a.inf \/ a.y = 0 THEN Infinity
  ELSE Third((((3 * a.x * a.x + c.a) % c.p) * InvMod((2 * a.y) % c.p, c.p)) % c.p, a.x, a.x, a.y, c.p)

\* <<>> when two points share x but are neither equal nor opposite.
r_ecurve_point_add(a, b, c) ==
  CASE a.inf -> <<b>>
    [] ~a.inf /\ b.inf -> <<a>>
    [] ~a.inf /\ ~b.inf /\ a.x = b.x ->
         IF a.y = b.y THEN <<r_ecurve_point_dbl(a, c)>>
         ELSE IF b.y = c.p - a.y THEN <<Infinity>> ELSE <<>>
    [] OTHER -> <<Third((((b.y - a.y) % c.p) * InvMod((b.x - a.x) % c.p, c.p)) % c.p, a.x, b.x, a.y, c.p)>>

r_ecurve_point_is_on_curve(a, c) ==
  a.inf \/ (/\ a.x < c.p /\ a.y < c.p
            /\ (a.y * a.y) % c.p = (((a.x * a.x) % c.p) * a.x + c.a * a.x + c.b) % c.p)

\* k + n or k + 2n, whichever has bit nbits set, in one digit more than p has.
Conditioned(k, c) ==
  LET width == 2 ^ (EcDigitBits * ((Bits(c.p) + EcDigitBits - 1) \div EcDigitBits))
      n == c.n % width
      k1 == (k % width) + n
  IN  IF (k1 \div 2 ^ Bits(c.n)) % 2 = 1 THEN k1 ELSE k1 + n

\* The ladder keeps R1 = R0 + P over exactly Bits(n) + 1 bits.
r_ecurve_point_scalar_mul(k, a, c) ==
  LET kp == Conditioned(k, c)
      top == Bits(c.n) + 1
      step(R, j) ==
        LET bit == (kp \div 2 ^ (top - j)) % 2
            lo == IF bit = 1 THEN R[2] ELSE R[1]
            hi == IF bit = 1 THEN R[1] ELSE R[2]
            sum == r_ecurve_jp_add(lo, hi, c)
            dbl == r_ecurve_jp_dbl(lo, c)
        IN  IF bit = 1 THEN <<sum, dbl>> ELSE <<dbl, sum>>
      R == Fold(step, <<[X |-> 0, Y |-> 0, Z |-> 0], [X |-> a.x, Y |-> a.y, Z |-> 1]>>,
                    [j \in 1 .. top |-> j])
  IN  IF a.inf THEN Infinity ELSE r_ecurve_jp_to_affine(R[1], c)

r_ecurve_point_to_uncompressed(a, c, outsize) ==
  IF a.inf THEN (IF outsize < 1 THEN <<>> ELSE <<0>>)
  ELSE IF outsize < 1 + 2 * c.coord_bytes THEN <<>>
  ELSE <<4>> \o I2OS(a.x, c.coord_bytes) \o I2OS(a.y, c.coord_bytes)

\* <<>> for a bad length or form, and for a point off the curve.
r_ecurve_point_from_uncompressed(in, c) ==
  LET a == Point(OS2I(SubSeq(in, 2, 1 + c.coord_bytes)), OS2I(SubSeq(in, 2 + c.coord_bytes, Len(in))))
  IN  IF in = <<0>> THEN <<Infinity>>
      ELSE IF Len(in) # 1 + 2 * c.coord_bytes \/ in[1] # 4 THEN <<>>
      ELSE IF r_ecurve_point_is_on_curve(a, c) THEN <<a>> ELSE <<>>

-----------------------------------------------------------------------------
(***************************************************************************)
(* ECDSA and ECDH keys (rlib/crypto/recc.c).  A key has the bytes it was   *)
(* built from and, where the curve and the point allow it, the parsed      *)
(* curve and point: math is then <<curve, Q>>, and <<>> otherwise.         *)
(***************************************************************************)
Refused == <<"refused">>

\* The point decoded and checked against the curve, as the math of a key.
r_ecc_pub_key_load_point(id, ecp) ==
  LET c == r_ecurve_init(id)
      q == IF c = <<>> THEN <<>> ELSE r_ecurve_point_from_uncompressed(ecp, c[1])
  IN  IF q = <<>> THEN <<>> ELSE <<c[1], q[1]>>

\* A point the math cannot take leaves an ECDSA key of bytes only.
r_ecdsa_pub_key_new(id, ecp) ==
  IF ecp = <<>> THEN <<>>
  ELSE <<[algo |-> "ECDSA", type |-> "public", curve |-> id, ecp |-> ecp, bits |-> 8 * Len(ecp),
          math |-> r_ecc_pub_key_load_point(id, ecp)]>>

\* An ECDH key needs its math.
r_ecdh_pub_key_new(id, ecp) ==
  IF ecp = <<>> \/ r_ecc_pub_key_load_point(id, ecp) = <<>> THEN <<>>
  ELSE <<[algo |-> "ECDH", type |-> "public", curve |-> id, ecp |-> ecp, bits |-> 8 * Len(ecp),
          math |-> r_ecc_pub_key_load_point(id, ecp)]>>

r_ecc_key_get_curve(k) == IF k.algo \in {"ECDSA", "ECDH"} THEN k.curve ELSE "NONE"
r_ecc_key_get_q(k) == IF k.algo \in {"ECDSA", "ECDH"} /\ k.math # <<>> THEN <<k.math[2]>> ELSE <<>>

\* The key's math once the scalar is read, or Refused.  With a point the
\* scalar is range-checked, and for ECDH Q = d G too; without one Q is derived.
r_ecc_priv_key_load_scalar(id, math, scalar, ecdh) ==
  LET d == OS2I(scalar)
      c == r_ecurve_init(id)
  IN  IF math # <<>>
      THEN IF d \notin 1 .. math[1].n - 1 \/ (ecdh /\ r_ecurve_point_scalar_mul(d, math[1].G, math[1]) # math[2])
           THEN Refused ELSE math
      ELSE IF c # <<>>
           THEN IF d \notin 1 .. c[1].n - 1 THEN Refused
                ELSE <<c[1], r_ecurve_point_scalar_mul(d, c[1].G, c[1])>>
      ELSE IF ecdh THEN Refused ELSE <<>>

\* The signing cache: Montgomery arithmetic modulo n needs an odd n.
r_ecdsa_priv_key_precompute_cache(math) == math # <<>> /\ math[1].n % 2 = 1

r_ecc_priv_key_new_full(id, algo, ecp, scalar) ==
  LET ecdh == algo = "ECDH"
      point == IF ecp = <<>> THEN <<>> ELSE r_ecc_pub_key_load_point(id, ecp)
      math == r_ecc_priv_key_load_scalar(id, point, scalar, ecdh)
  IN  IF scalar = <<>> \/ (ecp # <<>> /\ point = <<>> /\ ecdh) THEN <<>>
      ELSE IF math = Refused THEN <<>>
      ELSE <<[algo |-> algo, type |-> "private", curve |-> id, ecp |-> ecp, bits |-> 8 * Len(scalar),
              math |-> math, scalar |-> scalar, cache |-> ~ecdh /\ r_ecdsa_priv_key_precompute_cache(math)]>>

r_ecdsa_priv_key_new(id, ecp, scalar) == r_ecc_priv_key_new_full(id, "ECDSA", ecp, scalar)
r_ecdh_priv_key_new(id, ecp, scalar) == r_ecc_priv_key_new_full(id, "ECDH", ecp, scalar)

r_ecc_priv_key_get_scalar(k) ==
  IF k.type = "private" /\ k.algo \in {"ECDSA", "ECDH"} THEN <<k.scalar>> ELSE <<>>

r_ecdh_priv_key_new_gen(id, draws) ==
  LET c == r_ecurve_init(id)[1]
      n == Bytes(c.n)
      pick == FirstDraw(draws, LAMBDA v : v % (Byte ^ n) \in 1 .. c.n - 1)
      d == pick[1] % (Byte ^ n)
      q == r_ecurve_point_scalar_mul(d, c.G, c)
  IN  IF r_ecurve_init(id) = <<>> THEN <<>>
      ELSE IF pick = <<>> THEN <<>>
      ELSE <<[algo |-> "ECDH", type |-> "private", curve |-> id, bits |-> 8 * n, math |-> <<c, q>>,
              ecp |-> r_ecurve_point_to_uncompressed(q, c, 1 + 2 * c.coord_bytes),
              scalar |-> I2OS(d, n), cache |-> FALSE]>>

r_ecdsa_hash_to_mpint(n, hash) == HashToInt(hash, n)
r_ecdsa_decode_sig(sig) == DecodeSig(sig)

\* r and s of a signature with nonce k; zero where the code draws again.
SigR(c, k) == LET kG == r_ecurve_point_scalar_mul(k, c.G, c) IN IF k = 0 \/ kG.inf THEN 0 ELSE kG.x % c.n
SigS(c, k, d, e, r) == (ExpMod(k, c.n - 2, c.n) * ((e + d * r) % c.n)) % c.n

r_ecdsa_sign(pk, hash, draws, sigsize) ==
  LET c == pk.math[1]
      d == OS2I(pk.scalar)
      e == r_ecdsa_hash_to_mpint(c.n, hash)
      usable(v) == LET r == SigR(c, v % c.n) IN r # 0 /\ SigS(c, v % c.n, d, e, r) # 0
      pick == FirstDraw(draws, usable)
      r == SigR(c, pick[1] % c.n)
  IN  IF pk.type # "private" THEN <<"WRONG_TYPE">>
      ELSE IF hash = <<>> THEN <<"INVAL">>
      ELSE IF ~pk.cache THEN <<"NOT_AVAILABLE">>
      ELSE IF pick = <<>> THEN <<"SIGN_FAILED">>
      ELSE IF sigsize < 2 THEN <<"BUFFER_TOO_SMALL">>
      ELSE <<OK, SEQUENCE(<<INTEGER(r), INTEGER(SigS(c, pick[1] % c.n, d, e, r))>>)>>

r_ecdsa_verify(pk, hash, sig) ==
  LET c == pk.math[1]
      rs == r_ecdsa_decode_sig(sig)
      e == r_ecdsa_hash_to_mpint(c.n, hash)
      w == InvMod(rs[2], c.n)
      P == r_ecurve_point_add(r_ecurve_point_scalar_mul((e * w) % c.n, c.G, c),
                              r_ecurve_point_scalar_mul((rs[1] * w) % c.n, pk.math[2], c), c)
  IN  IF hash = <<>> THEN "INVAL"
      ELSE IF pk.math = <<>> THEN "NOT_AVAILABLE"
      ELSE IF pk.math[2].inf \/ rs = <<>> THEN "VERIFY_FAILED"
      ELSE IF rs[1] \notin 1 .. c.n - 1 \/ rs[2] \notin 1 .. c.n - 1 THEN "VERIFY_FAILED"
      ELSE IF P # <<>> /\ ~P[1].inf /\ P[1].x % c.n = rs[1] THEN OK ELSE "VERIFY_FAILED"

r_ecc_pub_key_export_with_algo_oid(k, oid) ==
  IF k.ecp = <<>> \/ r_ecurve_oid_from_id(k.curve) = <<>> THEN <<"NOT_AVAILABLE">>
  ELSE <<OK, SEQUENCE(<<SEQUENCE(<<[tag |-> "OID", v |-> oid],
                                   [tag |-> "OID", v |-> r_ecurve_oid_from_id(k.curve)[1]]>>),
                        [tag |-> "BIT_STRING", v |-> k.ecp]>>)>>

\* ECPrivateKey: version 1, the scalar and, where the key has it, the point.
r_ecc_build_ec_private_key_der(k) ==
  SEQUENCE(<<INTEGER(1), [tag |-> "OCTET_STRING", v |-> k.scalar]>>
           \o IF k.ecp = <<>> THEN <<>> ELSE <<[tag |-> "[1]", v |-> k.ecp]>>)

r_ecc_priv_key_export_with_algo_oid(k, oid) ==
  IF r_ecurve_oid_from_id(k.curve) = <<>> THEN <<"NOT_AVAILABLE">>
  ELSE <<OK, SEQUENCE(<<INTEGER(0),
                        SEQUENCE(<<[tag |-> "OID", v |-> oid],
                                   [tag |-> "OID", v |-> r_ecurve_oid_from_id(k.curve)[1]]>>),
                        [tag |-> "OCTET_STRING", v |-> r_ecc_build_ec_private_key_der(k)]>>)>>

r_ecdh_compute_shared(priv, peer, outsize) ==
  LET c == priv.math[1]
      s == r_ecurve_point_scalar_mul(OS2I(priv.scalar), peer.math[2], c)
  IN  IF priv.algo # "ECDH" \/ peer.algo # "ECDH" \/ priv.type # "private" \/ peer.type # "public"
      THEN <<"WRONG_TYPE">>
      ELSE IF priv.math = <<>> \/ peer.math = <<>> THEN <<"ERROR">>
      ELSE IF priv.curve # peer.curve THEN <<"WRONG_TYPE">>
      ELSE IF peer.math[2].inf \/ ~r_ecurve_point_is_on_curve(peer.math[2], c) THEN <<"INVAL">>
      ELSE IF outsize < c.coord_bytes THEN <<"BUFFER_TOO_SMALL">>
      ELSE IF s.inf THEN <<"INVAL">> ELSE <<OK, I2OS(s.x, c.coord_bytes)>>

-----------------------------------------------------------------------------
(***************************************************************************)
(* Edwards curves (rlib/crypto/recurve-edwards.c) and the pure EdDSA       *)
(* signatures over them (red25519.c, red448.c).  The two curves differ by  *)
(* the sign of a, by the square root and by the sizes, which are fields    *)
(* of the curve: [p, d, minus_one, sqrt_m1, L, Bx, By, coord_bytes,        *)
(* encoding_bytes, bits, sbits, cofactor, dom].                            *)
(***************************************************************************)
CONSTANTS EdCurves,      \* "X25519" and "X448" -> curve
          Xof(_, _)      \* SHA-512 or SHAKE256: bytes, output size

EdPoint(X, Y, Z, T) == [X |-> X, Y |-> Y, Z |-> Z, T |-> T]

r_edwards_mpint_init_from_le(le, n) == LE2I(SubSeq(le, 1, n))

\* The curve with its base point in extended coordinates.
r_ecurve_edwards_init(id) ==
  IF id \notin DOMAIN EdCurves THEN <<>>
  ELSE LET c == EdCurves[id]
       IN  <<c @@ [id |-> id, B |-> EdPoint(c.Bx, c.By, 1, (c.Bx * c.By) % c.p)]>>

r_ecurve_edwards_point_set_identity == EdPoint(0, 0, 0, 0)
r_edwards_set_identity_mont == EdPoint(0, 1, 1, 0)
r_ecurve_edwards_point_neg(a, c) == EdPoint((-a.X) % c.p, a.Y, a.Z, (-a.T) % c.p)

FromEFGH(E, F, G, H, p) == EdPoint((E * F) % p, (G * H) % p, (F * G) % p, (E * H) % p)

r_edwards_add_twisted(a, b, c) ==
  LET A == ((a.Y - a.X) * (b.Y - b.X)) % c.p
      B == ((a.Y + a.X) * (b.Y + b.X)) % c.p
      C == (((a.T * 2 * c.d) % c.p) * b.T) % c.p
      D == (2 * a.Z * b.Z) % c.p
  IN  FromEFGH((B - A) % c.p, (D - C) % c.p, (D + C) % c.p, (B + A) % c.p, c.p)

r_edwards_add_untwisted(a, b, c) ==
  LET A == (a.X * b.X) % c.p
      B == (a.Y * b.Y) % c.p
      C == (((a.T * c.d) % c.p) * b.T) % c.p
      D == (a.Z * b.Z) % c.p
  IN  FromEFGH(((a.X + a.Y) * (b.X + b.Y) - A - B) % c.p, (D - C) % c.p, (D + C) % c.p, (B - A) % c.p, c.p)

r_ecurve_edwards_point_add(a, b, c) ==
  IF c.minus_one THEN r_edwards_add_twisted(a, b, c) ELSE r_edwards_add_untwisted(a, b, c)

r_ecurve_edwards_point_dbl(a, c) ==
  LET A == (a.X * a.X) % c.p
      B == (a.Y * a.Y) % c.p
      C == (2 * a.Z * a.Z) % c.p
      E == ((a.X + a.Y) * (a.X + a.Y) - A - B) % c.p
      G == (IF c.minus_one THEN B - A ELSE A + B) % c.p
      H == (IF c.minus_one THEN -(A + B) ELSE A - B) % c.p
  IN  FromEFGH(E, (G - C) % c.p, G, H, c.p)

r_ecurve_edwards_point_is_identity(a, c) == a.X = 0 /\ a.Y = a.Z
r_ecurve_edwards_point_equal(a, b, c) ==
  /\ (a.X * b.Z) % c.p = (b.X * a.Z) % c.p
  /\ (a.Y * b.Z) % c.p = (b.Y * a.Z) % c.p

\* Double and add over the low bits of the scalar, a missing byte being zero.
r_ecurve_edwards_point_scalar_mul(scalar, bits, a, c) ==
  LET bit(bp) == IF bp \div ByteBits >= Len(scalar) THEN 0
                 ELSE (scalar[bp \div ByteBits + 1] \div 2 ^ (bp % ByteBits)) % 2
      step(R, i) == LET D == r_ecurve_edwards_point_dbl(R, c)
                    IN  IF bit(bits - i) = 1 THEN r_ecurve_edwards_point_add(D, a, c) ELSE D
  IN  Fold(step, r_edwards_set_identity_mont, [i \in 1 .. bits |-> i])

r_ecurve_edwards_point_is_on_curve(a, c) ==
  LET xx == a.X * a.X
      yy == a.Y * a.Y
  IN  /\ (IF c.minus_one THEN yy - xx ELSE xx + yy) % c.p = (a.Z * a.Z + c.d * ((a.T * a.T) % c.p)) % c.p
      /\ (a.T * a.Z) % c.p = (a.X * a.Y) % c.p

r_edwards_to_affine_bytes(a, c) ==
  LET zi == ExpMod(a.Z, c.p - 2, c.p)
  IN  <<I2LE((a.X * zi) % c.p, c.coord_bytes), I2LE((a.Y * zi) % c.p, c.coord_bytes)>>

\* y, little-endian, with the parity of x in the top bit of the last byte.
r_ecurve_edwards_point_encode(a, c) ==
  LET xy == r_edwards_to_affine_bytes(a, c)
      y == xy[2] \o Rep(0, c.encoding_bytes - c.coord_bytes)
  IN  [y EXCEPT ![c.encoding_bytes] = @ + (xy[1][1] % 2) * (Byte \div 2)]

\* A square root of (y^2 - 1) / (d y^2 - a) with the given parity, or <<>>.
r_edwards_recover_x(y, sign, c) ==
  LET p == c.p
      u == (y * y - 1) % p
      v == (c.d * ((y * y) % p) + (IF c.minus_one THEN 1 ELSE -1)) % p
      v3 == (((v * v) % p) * v) % p
      uv7 == (u * ((((v3 * v3) % p) * v) % p)) % p
      x5 == (((u * v3) % p) * ExpMod(uv7, (p - 5) \div 8, p)) % p
      vx2 == (((x5 * x5) % p) * v) % p
      ratio == (u * ExpMod(v, p - 2, p)) % p
      x3 == ExpMod(ratio, (p + 1) \div 4, p)
      roots == IF c.minus_one
               THEN IF vx2 = u THEN <<x5>> ELSE IF vx2 = (-u) % p THEN <<(x5 * c.sqrt_m1) % p>> ELSE <<>>
               ELSE IF (x3 * x3) % p = ratio THEN <<x3>> ELSE <<>>
  IN  IF roots = <<>> THEN <<>>
      ELSE IF roots[1] = 0 /\ sign THEN <<>>
      ELSE IF (roots[1] % 2 = 1) # sign THEN <<(-roots[1]) % p>> ELSE roots

\* Only the first coord_bytes bytes carry y, which must be below p.
r_ecurve_edwards_point_decode(in, c) ==
  LET last == in[c.encoding_bytes]
      ybytes == [in EXCEPT ![c.encoding_bytes] = last % (Byte \div 2)]
      y == r_edwards_mpint_init_from_le(ybytes, c.coord_bytes)
      x == r_edwards_recover_x(y, last >= Byte \div 2, c)
  IN  IF y >= c.p THEN <<>> ELSE IF x = <<>> THEN <<>> ELSE <<EdPoint(x[1], y, 1, (x[1] * y) % c.p)>>

-----------------------------------------------------------------------------
(* EdDSA, for the curve c of the key. *)

EdHash(parts, c) == Xof(FlattenSeq(parts), 2 * c.encoding_bytes)
r_ed25519_hash_to_scalar(hash, c) == LE2I(hash) % c.L

EdPub(c, algo, pub) ==
  IF Len(pub) # c.encoding_bytes THEN <<>>
  ELSE LET A == r_ecurve_edwards_point_decode(pub, c)
       IN  IF A = <<>> THEN <<>>
           ELSE <<[algo |-> algo, type |-> "public", pub |-> pub, A |-> A[1], bits |-> c.bits, curve |-> c]>>
r_ed25519_pub_key_new(pub) == EdPub(r_ecurve_edwards_init("X25519")[1], "ED25519", pub)
r_ed448_pub_key_new(pub) == EdPub(r_ecurve_edwards_init("X448")[1], "ED448", pub)

\* The secret scalar: a multiple of the cofactor with its top bit set.
EdClamp(h, c) ==
  LET n == c.coord_bytes
      top == Byte \div 2
      cut == [h EXCEPT ![1] = @ - (@ % c.cofactor)]
  IN  IF c.minus_one THEN [cut EXCEPT ![n] = ((@ % top) % (top \div 2)) + top \div 2]
      ELSE [cut EXCEPT ![n + 1] = 0, ![n] = (@ % top) + top]

EdPriv(c, algo, seed) ==
  LET n == c.encoding_bytes
      h == EdHash(<<seed>>, c)
      s == EdClamp(SubSeq(h, 1, n), c)
      A == r_ecurve_edwards_point_scalar_mul(s, c.bits, c.B, c)
  IN  IF Len(seed) # n THEN <<>>
      ELSE <<[algo |-> algo, type |-> "private", seed |-> seed, s_buf |-> s, prefix |-> SubSeq(h, n + 1, 2 * n),
              A |-> A, pub |-> r_ecurve_edwards_point_encode(A, c), bits |-> c.bits, curve |-> c]>>
r_ed25519_priv_key_new(seed) == EdPriv(r_ecurve_edwards_init("X25519")[1], "ED25519", seed)
r_ed448_priv_key_new(seed) == EdPriv(r_ecurve_edwards_init("X448")[1], "ED448", seed)
r_ed25519_priv_key_new_gen(draw) == r_ed25519_priv_key_new(draw)
r_ed448_priv_key_new_gen(draw) == r_ed448_priv_key_new(draw)

r_ed25519_key_get_pub(key) == IF key.algo # "ED25519" THEN <<>> ELSE <<key.pub>>
r_ed448_key_get_pub(key) == IF key.algo # "ED448" THEN <<>> ELSE <<key.pub>>

\* The challenge k = H(dom, R, A, msg) mod L.
Challenge(key, R, msg, c) == r_ed25519_hash_to_scalar(EdHash(<<c.dom, R, key.pub, msg>>, c), c)

EdSign(algo, key, msg, sigsize) ==
  LET c == key.curve
      n == c.encoding_bytes
      r == r_ed25519_hash_to_scalar(EdHash(<<c.dom, key.prefix, msg>>, c), c)
      R == r_ecurve_edwards_point_encode(r_ecurve_edwards_point_scalar_mul(I2LE(r, n), c.bits, c.B, c), c)
      S == (Challenge(key, R, msg, c) * LE2I(key.s_buf) + r) % c.L
  IN  IF key.algo # algo \/ key.type # "private" THEN <<"WRONG_TYPE">>
      ELSE IF sigsize < 2 * n THEN <<"BUFFER_TOO_SMALL">>
      ELSE <<OK, R \o I2LE(S, n)>>
r_ed25519_sign(key, msg, sigsize) == EdSign("ED25519", key, msg, sigsize)
r_ed448_sign(key, msg, sigsize) == EdSign("ED448", key, msg, sigsize)

\* [cofactor] S B = [cofactor] (R + k A), with S below L and R decodable.
EdVerify(algo, id, key, msg, sig) ==
  LET c == r_ecurve_edwards_init(id)[1]
      n == c.encoding_bytes
      R == r_ecurve_edwards_point_decode(SubSeq(sig, 1, n), c)
      S == SubSeq(sig, n + 1, 2 * n)
      k == I2LE(Challenge(key, SubSeq(sig, 1, n), msg, c), n)
      lhs == r_ecurve_edwards_point_scalar_mul(S, c.sbits, c.B, c)
      rhs == r_ecurve_edwards_point_add(R[1], r_ecurve_edwards_point_scalar_mul(k, c.sbits, key.A, c), c)
      Clear(P) == Fold(LAMBDA Q, i : r_ecurve_edwards_point_dbl(Q, c), P,
                           [i \in 1 .. Bits(c.cofactor) - 1 |-> i])
  IN  IF Len(sig) # 2 * n THEN "INVAL"
      ELSE IF key.algo # algo \/ key.type # "public" THEN "WRONG_TYPE"
      ELSE IF R = <<>> \/ LE2I(S) >= c.L THEN "INVAL"
      ELSE IF r_ecurve_edwards_point_equal(Clear(lhs), Clear(rhs), c) THEN OK ELSE "VERIFY_FAILED"
r_ed25519_verify(key, msg, sig) == EdVerify("ED25519", "X25519", key, msg, sig)
r_ed448_verify(key, msg, sig) == EdVerify("ED448", "X448", key, msg, sig)

-----------------------------------------------------------------------------
(***************************************************************************)
(* The Montgomery ladder (rlib/crypto/recurve-montgomery.c) and the X25519 *)
(* and X448 key agreement over it (rxdh.c).  A curve is a record           *)
(* [p, bits, coord_bytes, u_G, A24].                                       *)
(***************************************************************************)
CONSTANT MontCurves      \* "X25519" and "X448" -> curve

r_ecurve_montgomery_init(id) == IF id \in DOMAIN MontCurves THEN <<MontCurves[id] @@ [id |-> id]>> ELSE <<>>

r_montgomery_encode_le(v, n) == I2LE(v, n)
\* X25519 ignores the top bit of the last byte.
r_montgomery_decode_u(u, c) ==
  LE2I(IF c.id = "X25519" THEN [u EXCEPT ![c.coord_bytes] = @ % (Byte \div 2)] ELSE u)

r_montgomery_clamp(scalar, id) ==
  LET n == Len(scalar)
      top == Byte \div 2
  IN  IF id = "X25519" THEN [scalar EXCEPT ![1] = @ - (@ % 8), ![n] = (@ % (top \div 2)) + top \div 2]
      ELSE [scalar EXCEPT ![1] = @ - (@ % 4), ![n] = (@ % top) + top]

r_montgomery_ladder_step(x2, z2, x3, z3, x1, c) ==
  LET p == c.p
      A == (x2 + z2) % p
      AA == (A * A) % p
      B == (x2 - z2) % p
      BB == (B * B) % p
      E == (AA - BB) % p
      DA == ((x3 - z3) * A) % p
      CB == ((x3 + z3) * B) % p
      sum == (DA + CB) % p
      diff == (DA - CB) % p
  IN  [x2 |-> (AA * BB) % p, z2 |-> (E * ((AA + c.A24 * E) % p)) % p,
       x3 |-> (sum * sum) % p, z3 |-> (x1 * ((diff * diff) % p)) % p]

\* The two pairs are swapped when a bit differs from the one before it.
r_ecurve_montgomery_ladder(scalar, u, c) ==
  LET k == LE2I(r_montgomery_clamp(scalar, c.id))
      x1 == r_montgomery_decode_u(u, c) % c.p
      Swap(s, on) == IF on = 0 THEN s ELSE [s EXCEPT !.x2 = s.x3, !.z2 = s.z3, !.x3 = s.x2, !.z3 = s.z2]
      step(s, i) ==
        LET kt == (k \div 2 ^ (c.bits - i)) % 2
            w == Swap(s, (s.swap + kt) % 2)
        IN  r_montgomery_ladder_step(w.x2, w.z2, w.x3, w.z3, x1, c) @@ [swap |-> kt]
      s == Fold(step, [x2 |-> 1, z2 |-> 0, x3 |-> x1, z3 |-> 1, swap |-> 0], [i \in 1 .. c.bits |-> i])
      r == Swap(s, s.swap)
      out == (r.x2 * ExpMod(r.z2, c.p - 2, c.p)) % c.p
  IN  [ok |-> out # 0, u |-> r_montgomery_encode_le(out, c.coord_bytes)]

-----------------------------------------------------------------------------

r_xdh_coord_bytes_for(id) == IF id \in DOMAIN MontCurves THEN MontCurves[id].coord_bytes ELSE 0

r_xdh_pub_key_new(id, pub_u) ==
  IF r_xdh_coord_bytes_for(id) = 0 \/ Len(pub_u) # r_xdh_coord_bytes_for(id) THEN <<>>
  ELSE <<[algo |-> "XDH", type |-> "public", curve |-> id, pub_u |-> pub_u, bits |-> 8 * Len(pub_u)]>>

\* The public coordinate is taken as given, not checked against the scalar.
r_xdh_priv_key_new(id, pub_u, scalar) ==
  IF r_xdh_coord_bytes_for(id) = 0 \/ Len(pub_u) # r_xdh_coord_bytes_for(id) \/ Len(scalar) # Len(pub_u) THEN <<>>
  ELSE <<[algo |-> "XDH", type |-> "private", curve |-> id, pub_u |-> pub_u, bits |-> 8 * Len(pub_u),
          scalar |-> scalar]>>

r_xdh_priv_key_new_gen(id, draw) ==
  LET c == r_ecurve_montgomery_init(id)
      pub == r_ecurve_montgomery_ladder(draw, I2LE(c[1].u_G, c[1].coord_bytes), c[1])
  IN  IF c = <<>> THEN <<>> ELSE IF ~pub.ok THEN <<>> ELSE r_xdh_priv_key_new(id, pub.u, draw)

r_xdh_key_get_curve(key) == IF key.algo # "XDH" THEN "NONE" ELSE key.curve
r_xdh_key_get_pub_u(key) == IF key.algo # "XDH" THEN <<>> ELSE <<key.pub_u>>

r_xdh_compute_shared(priv, peer, outsize) ==
  LET c == r_ecurve_montgomery_init(priv.curve)[1]
      s == r_ecurve_montgomery_ladder(priv.scalar, peer.pub_u, c)
  IN  IF \/ priv.algo # "XDH" \/ peer.algo # "XDH"
         \/ priv.type # "private" \/ peer.type # "public"
         \/ priv.curve # peer.curve
      THEN <<"WRONG_TYPE">>
      ELSE IF outsize < c.coord_bytes THEN <<"BUFFER_TOO_SMALL">>
      ELSE IF ~s.ok THEN <<"INVAL">> ELSE <<OK, s.u>>
=============================================================================
