------------------------------ MODULE MCCodecs ------------------------------
(***************************************************************************)
(* The cryptographic algorithms on toy sizes and the codecs, each against  *)
(* its reference definition: a behaviour takes one case and answers it.    *)
(* The cases of the arithmetic, the public-key schemes and the symmetric   *)
(* ones come first, those of the other codecs are in MCFormats.  The ASN.1 *)
(* decoder is also walked by its caller over every short string of octets. *)
(***************************************************************************)
EXTENDS Integers, Sequences, SequencesExt

(***************************************************************************)
(* Cases for the multi-precision arithmetic: digits of three bits, so that *)
(* numbers of several digits, carries through all of them, and stale       *)
(* digits past the used ones are all small; the integers are the reference.*)
(***************************************************************************)
Base == 8
Z == INSTANCE Mpint WITH W <- 3, RMPINT_DEF_DIGITS <- 4, CombaSizes <- {2}, WindowBits <- 2, r_mpint_primes <- <<2, 3, 5, 7>>

Small == 0 .. 63
Wide == {64, 100, 127, 128, 300, 448, 511, 512, 1000, 4095}
Odd == {x \in Small : x % 2 = 1}
RECURSIVE Digits(_), DVal(_)
Digits(v) == IF v = 0 THEN <<>> ELSE <<v % Base>> \o Digits(v \div Base)
DVal(ds) == IF ds = <<>> THEN 0 ELSE Head(ds) + Base * DVal(Tail(ds))

\* A canonical mpint of value v whose tail is clean or stale.
MpintOf(v, stale) ==
  LET ds == Digits(v)
      n == Len(Z!r_mpint_init_size(Len(ds)).data)
  IN  [sign |-> 0, used |-> Len(ds),
       data |-> Z!Listed([i \in 1 .. n |-> IF i <= Len(ds) THEN ds[i] ELSE IF stale THEN Base - 1 ELSE 0])]
Val(m) == (IF m.sign = 1 THEN -1 ELSE 1) * DVal(SubSeq(m.data, 1, m.used))
Canonical(m) == /\ m.used > 0 => m.data[m.used] # 0
                /\ m.used = 0 => m.sign = 0
                /\ m.used <= Len(m.data)

Divides(d, a) == a % d = 0
Gcd(a, b) == CHOOSE g \in 1 .. a + b : /\ Divides(g, a) /\ Divides(g, b)
                                       /\ \A h \in g + 1 .. a + b : ~(Divides(h, a) /\ Divides(h, b))
RECURSIVE Pow(_, _, _)
Pow(b, e, m) == IF e = 0 THEN 1 % m ELSE (b * Pow(b, e - 1, m)) % m
Prime(n) == n > 1 /\ \A d \in 2 .. n - 1 : n % d # 0

\* The destination: an operand, or another number with digits of its own.
Dst(i, a, b) == CASE i.al = "a" -> a [] i.al = "b" -> b [] OTHER -> MpintOf(Base * Base + 5, TRUE)

MpintInputs(op, as, bs, als) == [op : op, a : as, b : bs, al : als]
MpintCase(i) ==
  \/ i \in MpintInputs({"add", "sub", "mul", "div"}, Small, Small, {"a", "b", "none"})
  \/ i \in MpintInputs({"div", "mul"}, Wide, Small \cup Wide, {"none"})
  \/ i \in MpintInputs({"cmp", "gcd", "lcm"}, Small, Small, {"none"})
  \/ i \in MpintInputs({"inv"}, Small \ {0}, Small \ {0, 1}, {"none"})
  \/ i \in MpintInputs({"shl", "shr"}, Small, 0 .. 2, {"a", "none"})
  \/ i \in MpintInputs({"shl", "shrd"}, Small \cup Wide, {3, 4, 6}, {"a", "none"})
  \/ i \in MpintInputs({"exp"}, 0 .. 5, 0 .. 6, {"none"})
  \/ i \in MpintInputs({"prime"}, 2 .. Base * Base, {0, 2}, {"none"})
  \/ i \in MpintInputs({"expmod", "expmod_ct", "fe_expmod"}, {0, 1, 5, 9, 60, 63, 70}, Odd, 0 .. 10)
  \/ i \in MpintInputs({"fe"}, {0, 1, 5, 9, 11, 60, 61}, {0, 1, 5, 9, 11, 60, 61}, Odd)

\* What the code answers.
MpintGot(i) ==
  LET a == MpintOf(i.a, TRUE)
      b == MpintOf(i.b, TRUE)
  IN  CASE i.op = "add" -> <<Z!r_mpint_add(i.al, Dst(i, a, b), a, b)>>
        [] i.op = "sub" -> <<Z!r_mpint_sub(i.al, Dst(i, a, b), a, b)>>
        [] i.op = "mul" -> <<Z!r_mpint_mul(i.al, Dst(i, a, b), a, b)>>
        [] i.op = "div" -> LET r == Z!r_mpint_div(Dst(i, a, b), MpintOf(7, TRUE), a, b) IN IF r.ok THEN <<r.q, r.r>> ELSE <<>>
        [] i.op = "cmp" -> <<MpintOf(Z!r_mpint_cmp(a, b) + 1, FALSE)>>
        [] i.op = "gcd" -> <<Z!r_mpint_gcd(MpintOf(9, TRUE), a, b)>>
        [] i.op = "lcm" -> <<IF i.a * i.b = 0 THEN MpintOf(0, FALSE) ELSE Z!r_mpint_lcm(MpintOf(9, TRUE), a, b)>>
        [] i.op = "inv" -> <<Z!r_mpint_invmod(MpintOf(9, TRUE), a, b).v>>
        [] i.op = "shl" -> <<Z!r_mpint_shl(i.al, Dst(i, a, b), a, i.b)>>
        [] i.op = "shr" -> <<Z!r_mpint_shr(i.al, Dst(i, a, b), a, i.b)>>
        [] i.op = "shrd" -> <<Z!r_mpint_shr_digit(i.al, Dst(i, a, b), a, i.b \div 3)>>
        [] i.op = "exp" -> <<Z!r_mpint_exp(MpintOf(9, TRUE), a, i.b)>>
        [] i.op = "prime" -> <<MpintOf(IF Z!r_mpint_isprime_t(a, i.b) > 0 THEN 1 ELSE 0, FALSE)>>
        [] i.op = "expmod" -> <<Z!r_mpint_expmod(MpintOf(9, TRUE), a, MpintOf(i.al, TRUE), b).v>>
        [] i.op = "expmod_ct" -> <<Z!r_mpint_expmod_ct(MpintOf(9, TRUE), a, MpintOf(i.al, TRUE), b, 4).v>>
        [] i.op = "fe_expmod" -> <<Z!r_mpint_fe_big_expmod_ct(MpintOf(9, TRUE), a, MpintOf(i.al, TRUE), b, 4)>>
        [] i.op = "fe" ->
             LET m == MpintOf(i.al, TRUE)
                 c == Z!fe_mont_ctx_init(m)
                 x == Z!fe_from_mpint(MpintOf(i.a % i.al, TRUE), m.used)
                 y == Z!fe_from_mpint(MpintOf(i.b % i.al, TRUE), m.used)
                 rr == Z!fe_compute_r_squared(m)
                 In(v) == Z!fe_mont_in(v, rr, c)
             IN  <<Z!fe_to_mpint(MpintOf(9, TRUE), Z!fe_add(x, y, c)), Z!fe_to_mpint(MpintOf(9, TRUE), Z!fe_sub(x, y, c)),
                   Z!fe_to_mpint(MpintOf(9, TRUE), Z!fe_mul_mont(In(x), y, c)),
                   Z!fe_to_mpint(MpintOf(9, TRUE), Z!fe_mul_ct(x, y, 5)), Z!fe_to_mpint(MpintOf(9, TRUE), Z!fe_add_ct(x, y, 5)),
                   IF Prime(i.al) /\ i.al > 2
                   THEN Z!fe_to_mpint(MpintOf(9, TRUE), Z!fe_mont_out(Z!fe_invmod_mont(In(x), Z!fe_from_mpint(MpintOf(i.al - 2, TRUE), m.used),
                           Z!r_mpint_bits_used(MpintOf(i.al - 2, TRUE)), rr, c), c))
                   ELSE MpintOf(0, FALSE)>>

\* What it should answer.
MpintWant(i) ==
  LET a == i.a b == i.b
  IN  CASE i.op = "add" -> <<a + b>> [] i.op = "sub" -> <<a - b>> [] i.op = "mul" -> <<a * b>>
        [] i.op = "div" -> IF b = 0 THEN <<>> ELSE <<a \div b, a % b>>
        [] i.op = "cmp" -> <<IF a > b THEN 2 ELSE IF a = b THEN 1 ELSE 0>>
        [] i.op = "gcd" -> <<IF a + b = 0 THEN 0 ELSE Gcd(a, b)>>
        [] i.op = "lcm" -> <<IF a * b = 0 THEN 0 ELSE (a * b) \div Gcd(a, b)>>
        [] i.op = "inv" -> <<IF Gcd(a, b) # 1 THEN 0 ELSE CHOOSE x \in 1 .. b : (a * x) % b = 1>>
        [] i.op = "shl" -> <<a * 2 ^ b>>
        [] i.op \in {"shr", "shrd"} -> <<a \div 2 ^ (IF i.op = "shr" THEN b ELSE 3 * (b \div 3))>>
        [] i.op = "exp" -> <<IF b = 0 THEN 1 ELSE a ^ b>>
        [] i.op \in {"expmod", "expmod_ct", "fe_expmod"} -> <<Pow(a, i.al, b)>>
        [] i.op = "fe" -> LET p == i.al x == a % p y == b % p
             IN <<(x + y) % p, (x - y) % p, (x * y) % p, x * y, x + y,
                  IF Prime(p) /\ p > 2 /\ x # 0 THEN CHOOSE z \in 0 .. p - 1 : (x * z) % p = 1 ELSE 0>>

\* The numbers of an answer are right, and canonical for the next operation.
MpintRight(i, got) ==
  IF i.op = "prime" THEN Prime(i.a) <=> Val(got[1]) > 0
  ELSE /\ Len(got) = Len(MpintWant(i)) /\ \A k \in DOMAIN got : Val(got[k]) = MpintWant(i)[k]
       /\ \A k \in DOMAIN got : Canonical(got[k])

-----------------------------------------------------------------------------
(***************************************************************************)
(* Cases for the public-key modules: toy keys and curves, what the code's  *)
(* operations make of them, and what they should.                          *)
(***************************************************************************)
\* Digests that are one-to-one in each byte of the message.
Mix(s, m) == (FoldLeft(LAMBDA acc, i : acc + (2 * i + 1) * s[i], 1, [i \in 1 .. Len(s) |-> i])) % m
Hash2(s) == <<Mix(s, 4)>>
Hash4(s) == <<Mix(s, 16), Mix(<<3>> \o s, 16)>>
XofToy(s, n) == [i \in 1 .. n |-> Mix(<<(i * i) % 16>> \o s, 16)]

Weier == [w17 |-> [p |-> 17, a |-> 2, b |-> 2, n |-> 19, coord_bytes |-> 2,
                   G |-> [inf |-> FALSE, x |-> 5, y |-> 1]],
          w23 |-> [p |-> 23, a |-> 20, b |-> 15, n |-> 17, coord_bytes |-> 2,
                   G |-> [inf |-> FALSE, x |-> 1, y |-> 6]]]
EdToy == [X25519 |-> [p |-> 109, d |-> 11, minus_one |-> TRUE, sqrt_m1 |-> 33, L |-> 13, Bx |-> 14, By |-> 54,
                      coord_bytes |-> 2, encoding_bytes |-> 2, bits |-> 7, sbits |-> 5, cofactor |-> 8,
                      dom |-> <<>>],
          X448 |-> [p |-> 239, d |-> 19, minus_one |-> FALSE, sqrt_m1 |-> 0, L |-> 59, Bx |-> 6, By |-> 22,
                    coord_bytes |-> 2, encoding_bytes |-> 3, bits |-> 8, sbits |-> 6, cofactor |-> 4,
                    dom |-> <<5>>]]
\* u_G is the u of a point of the prime-order subgroup.
MontToy == [X25519 |-> [p |-> 109, A |-> 6, bits |-> 7, coord_bytes |-> 2, u_G |-> 4, A24 |-> 1],
            X448 |-> [p |-> 239, A |-> 74, bits |-> 8, coord_bytes |-> 2, u_G |-> 5, A24 |-> 18]]

Xor2 == << <<0, 1, 2, 3>>, <<1, 0, 3, 2>>, <<2, 3, 0, 1>>, <<3, 2, 1, 0>> >>
\* RSA on bytes of two bits, the others on bytes of four.
R == INSTANCE PublicKey WITH ByteBits <- 2, XorByte <- Xor2, HashLen <- 1, Hash <- Hash2, DigitBytes <- 1, MinPad <- 1, Trailer <- 2,
       SizePairs <- {}, Digests <- {}, Groups <- <<>>, EcDigitBits <- 2, Curves <- <<>>, CurveOids <- <<>>, EdCurves <- <<>>,
       Xof <- XofToy, MontCurves <- <<>>
D == INSTANCE PublicKey WITH ByteBits <- 4, XorByte <- <<>>, HashLen <- 2, Hash <- Hash4, DigitBytes <- 1, MinPad <- 1, Trailer <- 2,
       SizePairs <- {<<8, 4>>}, Digests <- {"md"}, Groups <- [g47 |-> [p |-> 47, g |-> 4, strength |-> 2]], EcDigitBits <- 4,
       Curves <- Weier, CurveOids <- [w17 |-> "oid17", w23 |-> "oid23", none |-> "oid0"], EdCurves <- EdToy, Xof <- XofToy,
       MontCurves <- MontToy

-----------------------------------------------------------------------------
(* Keys *)

RsaCrt == R!r_rsa_priv_key_new_gen(14, 5, 113, 127)[1]
RsaSwapped == R!r_rsa_priv_key_new_gen(14, 5, 127, 113)[1]
RsaPlain == R!r_rsa_priv_key_new(RsaCrt.n, RsaCrt.e, RsaCrt.d)[1]
RsaKeys == <<RsaCrt, RsaSwapped, RsaPlain>>
RsaPub == R!r_rsa_pub_key_new(RsaCrt.n, RsaCrt.e)

DsaKey(x) == D!r_dsa_priv_key_new(0, 23, 11, 4, D!ExpMod(4, x, 23), x)[1]
DsaPub(x) == D!r_dsa_pub_key_new_full(23, 11, 4, D!ExpMod(4, x, 23))
DsaGen(L, N) == D!r_dsa_priv_key_new_gen(L, N, <<9, 7, 13>>, <<10, 11, 12, 13, 14, 16, 18, 20, 22>>, <<1, 2, 3>>, <<0, 13, 6>>)

Points(id) == {<<x, y>> \in (0 .. 22) \X (0 .. 22) : D!r_ecurve_point_is_on_curve(D!Point(x, y), Weier[id])}
OnW17 == Points("w17")
OnW23 == Points("w23")
On(id) == IF id = "w17" THEN OnW17 ELSE OnW23
EcSecret(id, d) == D!r_ecdsa_priv_key_new(id, <<>>, D!I2OS(d, 2))[1]
EcPublic(id, d) ==
  LET c == Weier[id]
  IN  D!r_ecdsa_pub_key_new(id, D!r_ecurve_point_to_uncompressed(D!r_ecurve_point_scalar_mul(d, c.G, c), c, 5))[1]

EdCurve(id) == D!r_ecurve_edwards_init(id)[1]
Seed(id, n) == [i \in 1 .. EdToy[id].encoding_bytes |-> (n * i) % 16]
EdSecret(id, n) == IF id = "X25519" THEN D!r_ed25519_priv_key_new_gen(Seed(id, n))[1]
                   ELSE D!r_ed448_priv_key_new_gen(Seed(id, n))[1]
EdPublic(id, n) == IF id = "X25519" THEN D!r_ed25519_pub_key_new(EdSecret(id, n).pub)
                   ELSE D!r_ed448_pub_key_new(EdSecret(id, n).pub)
EdSigned(id, n, msg) == IF id = "X25519" THEN D!r_ed25519_sign(EdSecret(id, n), msg, 4)
                        ELSE D!r_ed448_sign(EdSecret(id, n), msg, 6)
EdAccepts(id, n, msg, sig) == IF id = "X25519" THEN D!r_ed25519_verify(EdPublic(id, n)[1], msg, sig)
                              ELSE D!r_ed448_verify(EdPublic(id, n)[1], msg, sig)

-----------------------------------------------------------------------------
(* References: k-fold sums, by a group law of their own. *)

Inv(a, p) == CHOOSE x \in 1 .. p - 1 : (a * x) % p = 1

\* Chord and tangent on v^2 = u^3 + A u^2 + B u + C scaled by f; <<>> is zero.
Chord(P, Q, f, A, B, p) ==
  LET l == IF P # Q THEN ((Q[2] - P[2]) * Inv((Q[1] - P[1]) % p, p)) % p
           ELSE ((3 * P[1] * P[1] + 2 * A * P[1] + B) * Inv((2 * f * P[2]) % p, p)) % p
      u == (f * l * l - A - P[1] - Q[1]) % p
  IN  IF P = <<>> THEN Q ELSE IF Q = <<>> THEN P
      ELSE IF P[1] = Q[1] /\ (P[2] + Q[2]) % p = 0 THEN <<>>
      ELSE <<u, (l * (P[1] - u) - P[2]) % p>>
RECURSIVE Multiple(_, _, _, _, _, _)
Multiple(k, P, f, A, B, p) ==
  IF k = 0 THEN <<>>
  ELSE LET h == Multiple(k \div 2, P, f, A, B, p)
           d == Chord(h, h, f, A, B, p)
       IN  IF k % 2 = 0 THEN d ELSE Chord(d, P, f, A, B, p)
Affine(P) == IF P.inf THEN <<>> ELSE <<P.x, P.y>>

\* The u of the k-th multiple of a point with the given u, on the curve or its twist.
MontRef(k, u, c) ==
  LET f == (u * u * u + c.A * u * u + u) % c.p
      kP == Multiple(k, <<u, 1>>, f, c.A, 1, c.p)
  IN  IF f = 0 \/ kP = <<>> THEN 0 ELSE kP[1]

\* The Edwards sum of affine points.
EdSum(P, Q, c) ==
  LET t == (c.d * ((P[1] * Q[1]) % c.p) * ((P[2] * Q[2]) % c.p)) % c.p
      ax == P[1] * Q[1] * (IF c.minus_one THEN -1 ELSE 1)
  IN  <<((P[1] * Q[2] + P[2] * Q[1]) * Inv((1 + t) % c.p, c.p)) % c.p,
        ((P[2] * Q[2] - ax) * Inv((1 - t) % c.p, c.p)) % c.p>>
RECURSIVE EdMultiple(_, _, _)
EdMultiple(k, P, c) ==
  IF k = 0 THEN <<0, 1>>
  ELSE LET h == EdMultiple(k \div 2, P, c)
       IN  EdSum(EdSum(h, h, c), IF k % 2 = 0 THEN <<0, 1>> ELSE P, c)
EdAffine(P, c) == LET z == Inv(P.Z, c.p) IN <<(P.X * z) % c.p, (P.Y * z) % c.p>>
EdOn(x, y, c) == ((IF c.minus_one THEN -1 ELSE 1) * x * x + y * y - 1 - c.d * ((x * x) % c.p) * ((y * y) % c.p)) % c.p = 0
EdPoints(y, c) == {x \in 0 .. c.p - 1 : y < c.p /\ EdOn(x, y, c)}
-----------------------------------------------------------------------------
(* Cases: an operation, and up to three parameters of it. *)

PublicInputs(op, as, bs, cs) == [op : {op}, a : as, b : bs, c : cs]
PublicCase(i) ==
  \/ i \in PublicInputs("rsa_crypt", 1 .. 3, {<<>>, <<3>>, <<0, 1>>, <<1, 2, 3>>}, {1, 2, 14350})
  \/ i \in PublicInputs("rsa_implicit", 1 .. 3, {<<3>>, <<1, 2, 3>>}, 1 .. 3)
  \/ i \in PublicInputs("rsa_sign", 1 .. 3, {"v15", "v21", "raw"}, 0 .. 3)
  \/ i \in PublicInputs("rsa_keys", 1 .. 3, {0}, {0})
  \/ i \in PublicInputs("dsa_sign", 1 .. 10, {0, 1, 5, 11, 200, 255}, 0 .. 10)
  \/ i \in PublicInputs("dsa_keys", {4, 8}, {4}, {0})
  \/ i \in PublicInputs("dh_agree", 0 .. 22, 0 .. 22, {0})
  \/ i \in PublicInputs("dh_named", 0 .. 15, 0 .. 15, {0})
  \/ i \in PublicInputs("ec_mul", {"w17"}, OnW17, 0 .. 18)
  \/ i \in PublicInputs("ec_mul", {"w23"}, OnW23, 0 .. 16)
  \/ i \in PublicInputs("ec_point", {"w17", "w23"}, 0 .. 24, 0 .. 24)
  \/ i \in PublicInputs("ecdsa", {"w17", "w23"}, {1, 2, 9, 16}, {<<0>>, <<1, 2>>, <<15, 15>>, <<0, 0, 7>>})
  \/ i \in PublicInputs("ecdh", {"w17", "w23"}, {1, 2, 5, 16}, {0, 1, 3, 16, 20})
  \/ i \in PublicInputs("ed_mul", {"X25519", "X448"}, {1, 2, 5, 11}, {0, 1, 2, 3, 7, 12, 13, 30, 59, 63})
  \/ i \in PublicInputs("ed_decode", {"X25519", "X448"}, 0 .. 255, BOOLEAN)
  \/ i \in PublicInputs("eddsa", {"X25519", "X448"}, 0 .. 5, {<<>>, <<1>>, <<1, 2>>})
  \/ i \in PublicInputs("mont", {"X25519", "X448"}, {0, 1, 2, 3, 4, 5, 20, 108, 130, 200, 255}, {0, 1, 7, 8, 100, 200, 255})
  \/ i \in PublicInputs("xdh", {"X25519", "X448"}, {0, 3, 77}, {1, 8, 200})

DsaHash(v) == D!I2OS(v, 2)
\* What the code answers.
PublicGot(i) ==
  CASE i.op = "rsa_crypt" ->
         LET k == RsaKeys[i.a]
             ct == R!r_rsa_encrypt(RsaPub, i.b, R!Rep(2, 4 - Len(i.b)), 7)
         IN  <<ct[1], R!r_rsa_decrypt(k, ct[2], i.c, 7), R!r_rsa_decrypt(k, ct[2], i.c, Len(i.b) - 1)[1],
               R!r_rsa_raw_decrypt(k, R!r_rsa_raw_encrypt(k, R!I2OS(i.c, 7))[2], 5)>>
    [] i.op = "rsa_implicit" ->
         LET k == RsaKeys[i.a]
             ct == R!r_rsa_encrypt(RsaPub, i.b, R!Rep(2, 4 - Len(i.b)), 7)
             got == R!r_rsa_pkcs1v1_5_decrypt_implicit(k, ct[2], 3, i.c)
             again == R!r_rsa_pkcs1v1_5_decrypt_implicit(k, ct[2], 9, i.c)
         IN  <<got[1], Len(got[2]), got = again, got[2] = i.b>>
    [] i.op = "rsa_sign" ->
         LET k == R!r_rsa_pub_key_set_padding(RsaKeys[i.a], i.b)
             pub == R!r_rsa_pub_key_set_padding(RsaPub, i.b)
             sig == IF i.b = "raw" THEN R!r_rsa_pkcs1v1_5_sign_hash(RsaKeys[i.a], <<i.c>>, 5, 7)
                    ELSE R!r_rsa_sign(k, 1, <<i.c>>, <<2>>, 5, 7)
             ver(h) == IF i.b = "raw" THEN R!r_rsa_pkcs1v1_5_verify_hash(pub, <<h>>, sig[2])
                       ELSE R!r_rsa_verify(pub, 1, <<h>>, sig[2])
         IN  <<sig[1], [h \in 0 .. 3 |-> ver(h)],
               R!r_rsa_verify(R!r_rsa_pub_key_set_padding(pub, "v15"), 2, <<i.c>>, sig[2]) = "OK">>
    [] i.op = "rsa_keys" ->
         LET k == RsaKeys[i.a]
         IN  <<R!r_rsa_priv_key_new_from_asn1(R!r_rsa_priv_key_export(k)), (k.e * k.d) % (112 * 126)>>
    [] i.op = "dsa_sign" ->
         LET sig == D!r_dsa_sign(DsaKey(i.a), DsaHash(i.b), <<0, i.c, 7, 3, 2>>, 9)
             bad(r, s) == D!SEQUENCE(<<D!INTEGER(r), D!INTEGER(s)>>)
         IN  <<sig[1], D!r_dsa_verify(DsaPub(i.a), DsaHash(i.b), sig[2]),
               {D!r_dsa_verify(DsaPub(i.a), DsaHash(i.b), bad(r, s)) : r \in {0, 11, 12}, s \in {0, 1, 11, 12}}>>
    [] i.op = "dsa_keys" ->
         LET k == DsaGen(i.a, i.b)
         IN  IF k = <<>> THEN <<>>
             ELSE <<k[1].p % k[1].q, D!ExpMod(k[1].g, k[1].q, k[1].p), k[1].g > 1,
                    D!ExpMod(k[1].g, k[1].x, k[1].p) = k[1].y, k[1].x \in 1 .. k[1].q - 1,
                    [D!r_dsa_priv_key_new_from_asn1(D!r_dsa_priv_key_export(k[1]))[1] EXCEPT !.bits = k[1].bits] = k[1]>>
    [] i.op = "dh_agree" ->
         LET a == D!r_dh_priv_key_new_gen(23, 5, <<i.a>>)
             b == D!r_dh_priv_key_new_gen(23, 5, <<i.b>>)
             shared(x, y) == D!r_dh_compute_shared(x[1], D!r_dh_pub_key_new(23, 5, y[1].y), 2)
         IN  IF a = <<>> \/ b = <<>> THEN <<a = <<>>, b = <<>>>>
             ELSE <<FALSE, FALSE, shared(a, b) = shared(b, a), shared(a, b)[1],
                    D!r_dh_priv_key_new_from_asn1(D!r_dh_priv_key_export(a[1])) = a>>
    [] i.op = "dh_named" ->
         LET a == D!r_dh_priv_key_new_gen_named("g47", <<i.a>>)[1]
             b == D!r_dh_priv_key_new_gen_named("g47", <<i.b>>)[1]
         IN  <<D!Bits(a.x), D!Bits(b.x), D!r_dh_compute_shared(a, b, 2) = D!r_dh_compute_shared(b, a, 2)>>
    [] i.op = "ec_mul" -> <<Affine(D!r_ecurve_point_scalar_mul(i.c, D!Point(i.b[1], i.b[2]), Weier[i.a]))>>
    [] i.op = "ec_point" ->
         LET q == D!r_ecurve_point_from_uncompressed(<<4>> \o D!I2OS(i.b, 2) \o D!I2OS(i.c, 2), Weier[i.a])
         IN  IF q = <<>> THEN <<>> ELSE <<q[1].x, q[1].y, D!r_ecurve_point_to_uncompressed(q[1], Weier[i.a], 5)>>
    [] i.op = "ecdsa" ->
         LET sig == D!r_ecdsa_sign(EcSecret(i.a, i.b), i.c, <<0, 19, 7, 3>>, 9)
             other == D!r_ecdsa_verify(EcPublic(i.a, i.b), i.c, D!SEQUENCE(<<sig[2].v[1], D!INTEGER(0)>>))
         IN  <<sig[1], D!r_ecdsa_verify(EcPublic(i.a, i.b), i.c, sig[2]), other>>
    [] i.op = "ecdh" ->
         LET a == D!r_ecdh_priv_key_new_gen(i.a, <<0, i.b>>)
             b == D!r_ecdh_priv_key_new_gen(i.a, <<i.c>>)
             pub(k) == D!r_ecdh_pub_key_new(i.a, k[1].ecp)[1]
         IN  IF b = <<>> THEN <<>>
             ELSE <<D!r_ecdh_compute_shared(a[1], pub(b), 2)[1],
                    D!r_ecdh_compute_shared(a[1], pub(b), 2) = D!r_ecdh_compute_shared(b[1], pub(a), 2),
                    D!r_ecdh_priv_key_new(i.a, b[1].ecp, b[1].scalar) # <<>>,
                    D!r_ecdh_priv_key_new(i.a, a[1].ecp, b[1].scalar) # <<>>>>
    [] i.op = "ed_mul" ->
         LET c == EdCurve(i.a)
             P == D!r_ecurve_edwards_point_scalar_mul(<<i.b>>, 4, c.B, c)
         IN  <<EdAffine(D!r_ecurve_edwards_point_scalar_mul(D!I2LE(i.c, 2), 6, P, c), c),
               D!r_ecurve_edwards_point_is_on_curve(P, c)>>
    [] i.op = "ed_decode" ->
         LET c == EdCurve(i.a)
             n == c.encoding_bytes
             in == [D!ZeroFill(D!I2LE(i.b, 2), n) EXCEPT ![n] = IF i.c THEN (@ % 8) + 8 ELSE @]
             P == D!r_ecurve_edwards_point_decode(in, c)
         IN  IF P = <<>> THEN <<>>
             ELSE <<EdAffine(P[1], c), D!r_ecurve_edwards_point_encode(P[1], c) = in>>
    [] i.op = "eddsa" ->
         LET sig == EdSigned(i.a, i.b, i.c)
             n == EdToy[i.a].encoding_bytes
             S == D!LE2I(D!Skip(sig[2], n))
         IN  <<sig[1], EdAccepts(i.a, i.b, i.c, sig[2]),
               EdAccepts(i.a, i.b, i.c, SubSeq(sig[2], 1, n) \o D!I2LE((S + 1) % EdToy[i.a].L, n)),
               EdAccepts(i.a, i.b, i.c, SubSeq(sig[2], 1, n) \o D!I2LE(S + EdToy[i.a].L, n))>>
    [] i.op = "mont" ->
         LET c == D!r_ecurve_montgomery_init(i.a)[1]
             r == D!r_ecurve_montgomery_ladder(D!I2LE(i.c, 2), D!I2LE(i.b, 2), c)
         IN  <<D!LE2I(r.u), r.ok>>
    [] i.op = "xdh" ->
         LET a == D!r_xdh_priv_key_new_gen(i.a, D!I2LE(i.b, 2))[1]
             b == D!r_xdh_priv_key_new_gen(i.a, D!I2LE(i.c, 2))[1]
             pub(k) == D!r_xdh_pub_key_new(i.a, k.pub_u)[1]
         IN  <<D!r_xdh_compute_shared(a, pub(b), 2)[1],
               D!r_xdh_compute_shared(a, pub(b), 2) = D!r_xdh_compute_shared(b, pub(a), 2)>>

\* The scalar the ladder is asked for, after the curve's clamping.
Clamped(id, k) == IF id = "X25519" THEN (((k \div 8) * 8) % 64) + 64 ELSE (((k \div 4) * 4) % 128) + 128

\* What it should answer.
PublicWant(i) ==
  CASE i.op = "rsa_crypt" -> <<"OK", <<"OK", i.b>>, "BUFFER_TOO_SMALL",
                               <<"OK", R!I2OS(i.c, 7)>>>>
    [] i.op = "rsa_implicit" -> <<"OK", i.c, TRUE, i.c = Len(i.b)>>
    [] i.op = "rsa_sign" -> <<"OK", [h \in 0 .. 3 |-> IF h = i.c THEN "OK" ELSE "VERIFY_FAILED"], FALSE>>
    [] i.op = "rsa_keys" -> <<<<RsaKeys[i.a]>>, 1>>
    [] i.op = "dsa_sign" -> <<"OK", "OK", {"VERIFY_FAILED"}>>
    [] i.op = "dsa_keys" -> IF i.a # 8 THEN <<>> ELSE <<1, 1, TRUE, TRUE, TRUE, TRUE>>
    [] i.op = "dh_agree" ->
         LET out(x) == x \notin 2 .. 21
         IN  IF out(i.a) \/ out(i.b) THEN <<out(i.a), out(i.b)>>
             ELSE <<FALSE, FALSE, ~(11 \in {i.a, i.b}) \/ i.a = i.b, IF i.b = 11 THEN "INVAL" ELSE "OK", TRUE>>
    [] i.op = "dh_named" -> <<4, 4, TRUE>>
    [] i.op = "ec_mul" -> <<Multiple(i.c, i.b, 1, 0, Weier[i.a].a, Weier[i.a].p)>>
    [] i.op = "ec_point" -> IF <<i.b, i.c>> \in On(i.a) THEN <<i.b, i.c, <<4>> \o D!I2OS(i.b, 2) \o D!I2OS(i.c, 2)>>
                            ELSE <<>>
    [] i.op = "ecdsa" -> <<"OK", "OK", "VERIFY_FAILED">>
    [] i.op = "ecdh" -> IF i.c \notin 1 .. Weier[i.a].n - 1 THEN <<>> ELSE <<"OK", TRUE, TRUE, i.b = i.c>>
    [] i.op = "ed_mul" -> LET c == EdToy[i.a] IN <<EdMultiple((i.b * i.c) % c.L, <<c.Bx, c.By>>, c), TRUE>>
    [] i.op = "ed_decode" ->
         LET y == IF i.a = "X25519" THEN i.b % 128 ELSE i.b
             xs == {x \in EdPoints(y, EdToy[i.a]) : (x % 2 = 1) = (i.c \/ (i.a = "X25519" /\ i.b > 127))}
         IN  IF xs = {} THEN <<>> ELSE <<<<CHOOSE x \in xs : TRUE, y>>, TRUE>>
    [] i.op = "eddsa" -> <<"OK", "OK", "VERIFY_FAILED", "INVAL">>
    [] i.op = "mont" -> LET c == MontToy[i.a]
                            u == (IF i.a = "X25519" THEN i.b % 128 ELSE i.b) % c.p
                            w == MontRef(Clamped(i.a, i.c), u, c)
                        IN  <<w, w # 0>>
    [] i.op = "xdh" -> <<"OK", TRUE>>

PublicRight(i, got) == got = PublicWant(i)

-----------------------------------------------------------------------------
(***************************************************************************)
(* Cases for the symmetric modules: a toy block cipher, toy compression    *)
(* functions, and the textbook definition of each mode beside the code's   *)
(* way of computing it.                                                    *)
(***************************************************************************)
XorBits[a \in 0 .. 15, b \in 0 .. 15] == IF a = 0 /\ b = 0 THEN 0 ELSE 2 * XorBits[a \div 2, b \div 2] + ((a + b) % 2)
Nibble(v, i) == (v \div 16 ^ i) % 16
Listed(f) == SubSeq(f, 1, Len(f))
Xor4 == Listed([a \in 1 .. 16 |-> Listed([b \in 1 .. 16 |-> XorBits[a - 1, b - 1]])])
Xr(a, b) == LET x(i) == Xor4[Nibble(a, i) + 1][Nibble(b, i) + 1] IN x(0) + 16 * (x(1) + 16 * (x(2) + 16 * x(3)))
RECURSIVE Num(_)
Num(s) == IF s = <<>> THEN 0 ELSE Num(Front(s)) * 16 + Last(s)
Nibbles(v, n) == Listed([i \in 1 .. n |-> (v \div 16 ^ (n - i)) % 16])

\* Two Feistel rounds on blocks of four nibbles.
Rnd(x, k) == (x * x + k * x + 7 * k + 3) % 256
ToyE(k, b) == LET l == Xr(Num(SubSeq(b, 1, 2)), Rnd(Num(SubSeq(b, 3, 4)), k))
                  r == Xr(Num(SubSeq(b, 3, 4)), Rnd(l, k + 1))
              IN  Nibbles(l, 2) \o Nibbles(r, 2)
ToyD(k, b) == LET r == Xr(Num(SubSeq(b, 3, 4)), Rnd(Num(SubSeq(b, 1, 2)), k + 1))
                  l == Xr(Num(SubSeq(b, 1, 2)), Rnd(r, k))
              IN  Nibbles(l, 2) \o Nibbles(r, 2)

Squash(s, i) == FoldLeft(LAMBDA acc, b : (5 * acc + b * b + 3 * b + i) % 16, i, s)
ToyMd == [t \in {"MD2", "MD4", "MD5", "SHA1", "SHA224", "SHA256", "SHA384", "SHA512"} |->
            [size |-> IF t \in {"SHA224", "SHA384"} THEN 2 ELSE 3, block |-> 8,
             len |-> IF t \in {"SHA384", "SHA512"} THEN 4 ELSE 2, le |-> t \in {"MD4", "MD5"}]]
ToyStart(t) == IF t \in {"SHA224", "SHA384"} THEN <<7, 8, 9>> ELSE <<1, 2, 3>>
ToyCompress(t, h, b) == Listed([i \in 1 .. 3 |-> Squash(h \o b, 2 * i + 1)])
ToySum(s, b) == Listed([i \in DOMAIN s |-> Squash(<<s[i], b[i]>>, 3)])
ToyKeccak(s) == Listed([i \in DOMAIN s |-> Squash([j \in DOMAIN s |-> s[((i + j - 2) % Len(s)) + 1]], 5)])

\* Product of polynomials of degree below eight, bit i the coefficient of x^i.
ToyClmul(a, b) ==
  LET B(v, i) == (v \div 2 ^ i) % 2
      odd(n) == Cardinality({i \in 0 .. 7 : n - i \in 0 .. 7 /\ B(a, i) = 1 /\ B(b, n - i) = 1}) % 2
      Digit(k) == odd(4 * k) + 2 * odd(4 * k + 1) + 4 * odd(4 * k + 2) + 8 * odd(4 * k + 3)
  IN  Digit(0) + 16 * Digit(1) + 256 * Digit(2) + 4096 * Digit(3)

C == INSTANCE Symmetric WITH ByteBits <- 4, XorByte <- Xor4, HashLen <- 1, Hash <- Len, Clmul <- ToyClmul, BB <- 4,
       Wide8 <- 4, Wide4 <- 2, AesE <- ToyE, AesD <- ToyD,
       Taps <- {0, 1, 3}, KwRounds <- 6, KwByte <- 10, AivHead <- <<5>>, CcmMinL <- 1, AadFlag <- 4, TagFlag <- 2,
       WordBytes <- 1, Sigma <- <<1, 3, 7, 4>>, Rots <- <<2, 3, 1, 2>>, DoubleRounds <- 1, LW <- 6,
       ClampMasks <- <<63, 51, 60, 47, 15>>,
       Md <- ToyMd, MdStart <- ToyStart, Compress <- ToyCompress, Checksum <- ToySum, Rate <- 5, Lanes <- 7, Keccakf <- ToyKeccak,
       Ipad <- 3, Opad <- 5, MaxHash <- 3, CounterMax <- 15

-----------------------------------------------------------------------------
(* References *)

X2(x, y) == Listed([i \in DOMAIN x |-> Xor4[x[i] + 1][y[i] + 1]])
Blocks(s) == [i \in 1 .. (Len(s) + 3) \div 4 |-> SubSeq(s, 4 * i - 3, IF 4 * i > Len(s) THEN Len(s) ELSE 4 * i)]
Cut(s, n) == SubSeq(s, 1, n)

\* Ciphertext blocks by index, each from the ones before it.
RECURSIVE CbcRef(_, _, _), CfbRef(_, _, _), OfbRef(_, _, _)
CbcRef(k, iv, bs) == IF bs = <<>> THEN <<>> ELSE LET c == ToyE(k, X2(bs[1], iv)) IN c \o CbcRef(k, c, Tail(bs))
CfbRef(k, iv, bs) == IF bs = <<>> THEN <<>> ELSE LET c == X2(bs[1], ToyE(k, iv)) IN c \o CfbRef(k, c, Tail(bs))
OfbRef(k, iv, bs) == IF bs = <<>> THEN <<>> ELSE LET y == ToyE(k, iv) IN X2(bs[1], y) \o OfbRef(k, y, Tail(bs))
CtrRef(k, iv, bs) == FlattenSeq([i \in DOMAIN bs |-> X2(bs[i], ToyE(k, Nibbles((Num(iv) + i - 1) % 65536, 4)))])
ModeRef(mode, k, iv, s) ==
  CASE mode = "ECB" -> FlattenSeq([i \in 1 .. Len(s) \div 4 |-> ToyE(k, Blocks(s)[i])])
    [] mode = "CBC" -> CbcRef(k, iv, Blocks(s))
    [] mode = "CTR" -> CtrRef(k, iv, Blocks(s))
    [] mode = "CFB" -> CfbRef(k, iv, Blocks(s))
    [] mode = "OFB" -> OfbRef(k, iv, Blocks(s))

\* Product in the field of GHASH, the first bit being the constant term: the
\* product of the polynomials, each power of x replaced by its remainder.
Bit(v, i) == (v \div 2 ^ (15 - i)) % 2      \* the coefficient of x^i
TimesX(v) == ((v \div 2) % 4096) + 4096 * Xor4[v \div 8192 + 1][(IF v % 2 = 1 THEN 13 ELSE 0) + 1]
XPower[n \in 0 .. 30] == IF n < 16 THEN 2 ^ (15 - n) ELSE TimesX(XPower[n - 1])
PowersOfX == Listed([n \in 1 .. 31 |-> XPower[n - 1]])
FieldMul(a, b) ==
  LET terms == {n \in 0 .. 30 : Cardinality({i \in 0 .. 15 : n - i \in 0 .. 15 /\ Bit(a, i) = 1 /\ Bit(b, n - i) = 1}) % 2 = 1}
      odd(j) == Cardinality({n \in terms : Bit(PowersOfX[n + 1], j) = 1}) % 2
      Digit(k) == 8 * odd(4 * k) + 4 * odd(4 * k + 1) + 2 * odd(4 * k + 2) + odd(4 * k + 3)
  IN  4096 * Digit(0) + 256 * Digit(1) + 16 * Digit(2) + Digit(3)
GhashRef(y, h, bs) == C!Fold(LAMBDA z, b : FieldMul(Xr(z, Num(b)), h), y, bs)
Full(s) == Listed([i \in 1 .. 4 * ((Len(s) + 3) \div 4) |-> IF i <= Len(s) THEN s[i] ELSE 0])
GcmTagRef(k, iv, aad, ct) ==
  LET h == Num(ToyE(k, <<0, 0, 0, 0>>))
      lens == Nibbles(8 * Len(aad), 2) \o Nibbles(8 * Len(ct), 2)
  IN  X2(ToyE(k, iv \o <<1>>), Nibbles(GhashRef(0, h, Blocks(Full(aad) \o Full(ct) \o lens)), 4))
GcmRef(k, iv, s) ==
  Listed([j \in DOMAIN s |-> Xor4[s[j] + 1][ToyE(k, iv \o <<(2 + (j - 1) \div 4) % 16>>)[((j - 1) % 4) + 1] + 1]])

\* Poly1305 on integers modulo 2^30 - 5.
P5 == 1073741819
MulP(a, b) ==
  C!Fold(LAMBDA z, i : ((((2 * z) % P5) - P5) + (IF (b \div 2 ^ (30 - i)) % 2 = 1 THEN a ELSE 0)) % P5, 0, [i \in 1 .. 30 |-> i])
Sevens(s) == [i \in 1 .. (Len(s) + 6) \div 7 |-> SubSeq(s, 7 * i - 6, IF 7 * i > Len(s) THEN Len(s) ELSE 7 * i)]
PolyRef(r, s) == C!Fold(LAMBDA z, b : MulP(((z - P5) + Num(Reverse(Append(b, 1)))) % P5, r), 0, Sevens(s))
Clamp(r) == r[1] + 64 * (r[2] + 64 * (r[3] + 64 * (r[4] + 64 * r[5])))
PolyMacRef(key, s) ==
  LET r == Clamp(C!r_poly1305_init(key).r)
      pad == Num(Reverse(SubSeq(key, 8, 14)))
  IN  Reverse(Nibbles(((PolyRef(r, s) % 268435456) + pad) % 268435456, 7))

\* Digests: padded to whole blocks, length last.
PadRef(t, s) ==
  LET i == ToyMd[t]
      z == CHOOSE n \in 0 .. 7 : (Len(s) + 1 + n + i.len) % 8 = 0
      len == Nibbles((8 * Len(s)) % 16 ^ i.len, i.len)
  IN  s \o <<8>> \o [j \in 1 .. z |-> 0] \o (IF i.le THEN Reverse(len) ELSE len)
Eights(s) == [i \in 1 .. Len(s) \div 8 |-> SubSeq(s, 8 * i - 7, 8 * i)]
Hashed(t, bs) == FoldLeft(LAMBDA h, b : ToyCompress(t, h, b), ToyStart(t), bs)
DigestRef(t, s) ==
  LET n == 8 - (Len(s) % 8)
      md2 == Eights(s \o [j \in 1 .. n |-> n])
      sum == FoldLeft(ToySum, [j \in 1 .. 8 |-> 0], md2)
  IN  Cut(IF t = "MD2" THEN Hashed(t, Append(md2, sum)) ELSE Hashed(t, Eights(PadRef(t, s))), ToyMd[t].size)
KeyBlock(t, key) == LET k == IF Len(key) > 8 THEN DigestRef(t, key) ELSE key
                    IN  [i \in 1 .. 8 |-> IF i <= Len(k) THEN k[i] ELSE 0]
HmacRef(t, key, s) ==
  LET Pad(p) == [i \in 1 .. 8 |-> Xr(KeyBlock(t, key)[i], p)]
  IN  DigestRef(t, Pad(5) \o DigestRef(t, Pad(3) \o s))
ShakeRef(s, n) ==
  LET z == 5 - (Len(s) % 5)
      pad == [j \in 1 .. z |-> (IF j = 1 THEN 1 ELSE 0) + (IF j = z THEN 8 ELSE 0)]
      all == s \o pad
      Five(k) == [j \in 1 .. 7 |-> IF j <= 5 THEN all[5 * (k - 1) + j] ELSE 0]
      st == FoldLeft(LAMBDA x, k : ToyKeccak(X2(x, Five(k))), [j \in 1 .. 7 |-> 0], [k \in 1 .. Len(all) \div 5 |-> k])
      \* the state after k more permutations
      After[k \in 0 .. 5] == IF k = 0 THEN st ELSE ToyKeccak(After[k - 1])
  IN  [j \in 1 .. n |-> After[(j - 1) \div 5][((j - 1) % 5) + 1]]

-----------------------------------------------------------------------------
(* Cases: an operation, a kind, and parameters. *)

Text(n) == Listed([i \in 1 .. n |-> (i * i + 3 * i + 5) % 16])
Ivs == {<<1, 2, 3, 4>>, <<3, 1, 15, 14>>, <<15, 15, 15, 13>>}
Cpus == {[aes |-> FALSE, clmul |-> FALSE], [aes |-> TRUE, clmul |-> TRUE]}
Types == DOMAIN ToyMd
AeadIv(mode) == IF mode = "CCM" THEN <<4, 2>> ELSE <<9, 8, 7>>
AeadKey(mode) == IF mode = "POLY1305" THEN <<1, 2, 3, 4, 5, 6, 7, 8>> ELSE 6

\* The lengths for which the padding of SHA-384 and SHA-512 has its room.
PaddedRight(t, n) == t \notin {"SHA384", "SHA512"} \/ n % 8 \notin {4, 5}

SymInputs(op, as, bs, cs) == [op : {op}, a : as, b : bs, c : cs]
SymCase(i) ==
  \/ i \in SymInputs("mode", {"ECB", "CBC", "CTR", "CFB", "OFB"}, 0 .. 21,
                [inplace : BOOLEAN, cpu : Cpus, iv : Ivs, split : {0, 4, 12}])
  \/ i \in SymInputs("aead", {"GCM"}, 0 .. 9, [aad : {0, 3, 5}, tag : {2, 4}, cpu : Cpus, inplace : BOOLEAN])
  \/ i \in SymInputs("aead", {"CCM", "POLY1305"}, 0 .. 13 \cup {20}, [aad : {0, 3, 9}, tag : {2, 4}, cpu : Cpus, inplace : BOOLEAN])
  \/ i \in SymInputs("ghash", 0 .. 9, {1, 77, 40000}, Cpus)
  \/ i \in SymInputs("wrap", 0 .. 15, {1, 5}, {0})
  \/ i \in SymInputs("poly", 0 .. 22, {Text(14), [j \in 1 .. 14 |-> 15], [j \in 1 .. 14 |-> (j * 7) % 16]}, {0, 1, 6, 7, 8, 13})
  \/ i \in SymInputs("digest", Types, 0 .. 19, {0, 1, 5, 8, 11}) /\ PaddedRight(i.a, i.b)
  \/ i \in SymInputs("shake", 0 .. 12, 1 .. 12, {0, 1, 4, 5, 7})
  \/ i \in SymInputs("hmac", Types, {<<>>, Text(3), Text(8), Text(9), Text(12)}, 0 .. 9)
     /\ PaddedRight(i.a, i.c) /\ PaddedRight(i.a, Len(i.b))
  \/ i \in SymInputs("kdf", Types \ {"SHA384", "SHA512"}, 1 .. 7, 1 .. 3)

GcmNarrow == C!r_crypto_cipher_new(C!Info("AES", "GCM", 128), 6, [aes |-> FALSE, clmul |-> FALSE])
GcmWide == C!r_crypto_cipher_new(C!Info("AES", "GCM", 128), 6, [aes |-> TRUE, clmul |-> TRUE])
AesObj(mode, cpu) == C!r_cipher_aes_new(mode, 128, 6, cpu)[1]
Enc(mode, c, s) ==
  CASE mode = "ECB" -> C!r_cipher_aes_ecb_encrypt(c, s) [] mode = "CBC" -> C!r_cipher_aes_cbc_encrypt(c, s)
    [] mode = "CTR" -> C!r_cipher_aes_ctr_encrypt(c, s) [] mode = "CFB" -> C!r_cipher_aes_cfb_encrypt(c, s)
    [] mode = "OFB" -> C!r_cipher_aes_ofb_encrypt(c, s)
Dec(mode, c, s) ==
  CASE mode = "ECB" -> C!r_cipher_aes_ecb_decrypt(c, s) [] mode = "CBC" -> C!r_cipher_aes_cbc_decrypt(c, s)
    [] mode = "CTR" -> C!r_cipher_aes_ctr_encrypt(c, s) [] mode = "CFB" -> C!r_cipher_aes_cfb_decrypt(c, s)
    [] mode = "OFB" -> C!r_cipher_aes_ofb_encrypt(c, s)
Digested(t, parts) ==
  C!r_msg_digest_get_data(FoldLeft(LAMBDA m, p : C!r_msg_digest_update(m, p)[2], C!r_msg_digest_new(t), parts), 3)

\* What the code answers.
SymGot(i) ==
  CASE i.op = "mode" ->
         LET c == AesObj(i.a, i.c.cpu)
             t == Text(i.b)
             n == IF i.c.split > i.b THEN 0 ELSE i.c.split
             one == Enc(i.a, c, C!Begin(t, i.c.iv, i.c.inplace))
             first == Enc(i.a, c, C!Begin(Cut(t, n), i.c.iv, i.c.inplace))
             second == Enc(i.a, c, C!Begin(SubSeq(t, n + 1, i.b), first.iv, i.c.inplace))
             back == Dec(i.a, c, C!Begin(one.dst, i.c.iv, i.c.inplace))
         IN  <<one.res, one.dst, first.dst \o second.dst, back.dst>>
    [] i.op = "aead" ->
         LET info == C!r_crypto_cipher_find_by_type(IF i.a = "POLY1305" THEN "CHACHA20" ELSE "AES", i.a,
                                                    IF i.a = "POLY1305" THEN 256 ELSE 128)[1]
             c == IF i.a # "GCM" THEN C!r_crypto_cipher_new(info, AeadKey(i.a), i.c.cpu)
                  ELSE IF i.c.cpu.clmul THEN GcmWide ELSE GcmNarrow
             Start(s) == C!Begin(s, AeadIv(i.a), i.c.inplace)
             e == C!r_crypto_cipher_encrypt_aead(c, Start(Text(i.b)), Text(i.c.aad), i.c.tag)
             d == C!r_crypto_cipher_decrypt_aead(c, Start(e.dst), Text(i.c.aad), e.tag)
             bad == C!r_crypto_cipher_decrypt_aead(c, Start(e.dst), Text(i.c.aad), [e.tag EXCEPT ![i.c.tag] = (@ + 1) % 16])
         IN  <<e.res, d.res, d.dst, bad.res, bad.dst = Start(e.dst).dst, Len(e.tag),
               IF i.a = "GCM" THEN <<e.dst, e.tag>> ELSE <<>>, C!r_crypto_cipher_encrypt(c, Start(Text(4))).res>>
    [] i.op = "ghash" ->
         LET h == Nibbles(i.b, 4)
             pow == C!Powers(h, 4)
             c == [clmul |-> i.c.clmul, ghash_t |-> C!r_ghash_init_table(h),
                   ghash_h_pow |-> [k \in 1 .. 4 |-> C!r_ghash_byte_bitrev(pow[k])]]
         IN  C!GhashMul(Nibbles(1234, 4), c, Blocks(Text(4 * i.a)))
    [] i.op = "wrap" ->
         LET c == [key |-> i.b]
             w == C!r_cipher_aes_key_wrap(c, Text(i.a))
             p == C!r_cipher_aes_key_wrap_pad(c, Text(i.a))
             Bad(x) == [x EXCEPT ![Len(x)] = (@ + 1) % 16]
         IN  <<IF w = <<>> THEN <<>> ELSE <<Len(w), C!r_cipher_aes_key_unwrap(c, w), C!r_cipher_aes_key_unwrap(c, Bad(w)) # Text(i.a)>>,
               IF p = <<>> THEN <<>> ELSE <<Len(p), C!r_cipher_aes_key_unwrap_pad(c, p)>>>>
    [] i.op = "poly" ->
         LET n == IF i.c > i.a THEN i.a ELSE i.c
             ctx == C!r_poly1305_update(C!r_poly1305_init(i.b), Cut(Text(i.a), n))
         IN  <<C!r_poly1305_mac(Text(i.a), i.b), C!r_poly1305_finish(C!r_poly1305_update(ctx, SubSeq(Text(i.a), n + 1, i.a)))>>
    [] i.op = "digest" ->
         LET n == IF i.c > i.b THEN i.b ELSE i.c
             m == C!r_msg_digest_finish(C!r_msg_digest_update(C!r_msg_digest_new(i.a), Text(i.b))[2])
         IN  <<Digested(i.a, <<Cut(Text(i.b), n), SubSeq(Text(i.b), n + 1, i.b)>>),
               C!r_msg_digest_get_data(m, 3), C!r_msg_digest_update(m, <<1>>)[1], C!r_msg_digest_get_data(m, 1)>>
    [] i.op = "shake" ->
         LET n == IF i.c > i.b THEN i.b ELSE i.c
             m == C!r_msg_digest_update(C!r_msg_digest_update(C!r_msg_digest_new("SHAKE256"), Cut(Text(i.a), IF i.c > i.a THEN i.a ELSE i.c))[2],
                                        IF i.c > i.a THEN <<>> ELSE SubSeq(Text(i.a), i.c + 1, i.a))[2]
             q == C!r_msg_digest_squeeze(m, n)
         IN  q[1] \o C!r_msg_digest_squeeze(q[2], i.b - n)[1]
    [] i.op = "hmac" ->
         LET hm == C!r_hmac_update(C!r_hmac_update(C!r_hmac_new(i.a, i.b), Cut(Text(i.c), i.c \div 2))[2],
                                   SubSeq(Text(i.c), i.c \div 2 + 1, i.c))[2]
             tag == C!r_hmac_get_data(hm, 3)[1]
         IN  <<tag, C!r_hmac_verify(hm, tag), C!r_hmac_verify(hm, [tag EXCEPT ![1] = (@ + 1) % 16])>>
    [] i.op = "kdf" -> <<C!r_kdf_pbkdf2(i.a, Text(4), <<2, 3>>, i.c, i.b), C!r_hkdf_expand(i.a, Text(5), Text(i.c), i.b),
                         C!r_hkdf_extract(i.a, Text(i.c), Text(i.b))>>

RECURSIVE Chain(_, _, _, _, _)
Chain(t, key, u, acc, n) == IF n = 1 THEN acc ELSE LET v == HmacRef(t, key, u) IN Chain(t, key, v, X2(acc, v), n - 1)
PbkdfRef(t, key, salt, iters, k) == LET u == HmacRef(t, key, salt \o <<0, 0, 0, k>>) IN Chain(t, key, u, u, iters)
RECURSIVE HkdfRef(_, _, _, _)
HkdfRef(t, prk, info, k) == IF k = 0 THEN <<>> ELSE HmacRef(t, prk, HkdfRef(t, prk, info, k - 1) \o info \o <<k>>)

\* What it should answer.
SymWant(i) ==
  CASE i.op = "mode" ->
         LET t == Text(i.b)
             r == ModeRef(i.a, 6, i.c.iv, t)
             none == C!Begin(t, i.c.iv, i.c.inplace).dst
         IN  IF i.a \in {"ECB", "CBC"} /\ i.b % 4 # 0 THEN <<"WRONG_BLOCK_SIZE">> ELSE <<"OK", r, r, t>>
    [] i.op = "aead" ->
         LET g == GcmRef(6, AeadIv("GCM"), Text(i.b))
             wide == i.a = "CCM" /\ i.b >= 16
         IN  IF wide THEN <<"INVAL">>
             ELSE <<"OK", "OK", Text(i.b), "AUTH_FAILED", i.a # "CCM" \/ i.b = 0, i.c.tag,
                    IF i.a # "GCM" THEN <<>> ELSE <<g, Cut(GcmTagRef(6, AeadIv("GCM"), Text(i.c.aad), g), i.c.tag)>>, "NEEDS_AEAD">>
    [] i.op = "ghash" -> Nibbles(GhashRef(1234, i.b, Blocks(Text(4 * i.a))), 4)
    [] i.op = "wrap" -> <<IF i.a < 4 \/ i.a % 2 = 1 THEN <<>> ELSE <<i.a + 2, Text(i.a), TRUE>>,
                          IF i.a = 0 THEN <<>> ELSE <<2 * ((i.a + 1) \div 2) + 2, Text(i.a)>>>>
    [] i.op = "poly" -> LET t == PolyMacRef(i.b, Text(i.a)) IN <<t, t>>
    [] i.op = "digest" -> LET d == DigestRef(i.a, Text(i.b)) IN <<d, d, FALSE, <<>>>>
    [] i.op = "shake" -> ShakeRef(Text(i.a), i.b)
    [] i.op = "hmac" -> <<HmacRef(i.a, i.b, Text(i.c)), TRUE, FALSE>>
    [] i.op = "kdf" ->
         LET n == (i.b + ToyMd[i.a].size - 1) \div ToyMd[i.a].size
         IN  <<Cut(FlattenSeq([k \in 1 .. n |-> PbkdfRef(i.a, Text(4), <<2, 3>>, i.c, k)]), i.b),
               Cut(FlattenSeq([k \in 1 .. n |-> HkdfRef(i.a, Text(5), Text(i.c), k)]), i.b),
               HmacRef(i.a, Text(i.c), Text(i.b))>>

\* A refused call answers its code first; nothing else of it is compared.
SymRight(i, got) ==
  LET w == SymWant(i)
  IN  IF i.op \in {"mode", "aead"} /\ w[1] # "OK" THEN got[1] = w[1] ELSE got = w

-----------------------------------------------------------------------------
(***************************************************************************)
(* The cryptographic algorithms on toy sizes and the codecs, each against  *)
(* its reference definition: a behaviour takes one case and answers it,    *)
(* and the properties say what the code's answer must be.  The ASN.1       *)
(* decoder is also walked by its caller over every short string of octets. *)
(***************************************************************************)
CONSTANT Kinds       \* the families of cases of this run
VARIABLES kind, in, out, done
vars == <<kind, in, out, done>>

F == INSTANCE MCFormats

\* End-of-contents, INTEGER, BIT STRING, SEQUENCE, lengths of each form.
WalkOctets == {0, 1, 2, 3, 48, 128, 129}
Walks == UNION {[1..n -> WalkOctets] : n \in 1..5}
Idle == [st |-> "none"]
Init ==
  /\ kind \in Kinds /\ done = FALSE
  /\ CASE kind = "mpint" -> MpintCase(in) [] kind = "public" -> PublicCase(in) [] kind = "symmetric" -> SymCase(in)
       [] kind = "sha512" -> in \in SymInputs("digest", {"SHA384", "SHA512"}, 0 .. 19, {0, 1, 5, 8, 11})
       [] kind = "asn1" -> F!Asn1Case(in) [] kind = "str" -> F!StrCase(in) [] kind = "unicode" -> F!UniCase(in)
       [] kind = "json" -> F!JsonCase(in) [] kind = "x509" -> F!X509Case(in) [] kind = "pem" -> F!PemCase(in)
       [] kind = "trust" -> F!TrustCase(in) [] kind = "wire" -> F!WireCase(in)
       [] kind = "walk" -> in \in F!Rules \X Walks
  /\ out = IF kind = "walk" THEN F!X!r_asn1_bin_decoder_new(in[1], in[2]) ELSE Idle

Answer == kind # "walk" /\ ~done /\ done' = TRUE /\ UNCHANGED <<kind, in, out>>
\* A caller goes on while the decoder answers OK, and leaves an element at its end.
Walk ==
  /\ kind = "walk" /\ UNCHANGED <<kind, in, done>>
  /\ \/ out.st = "OK" /\ out' = F!X!r_asn1_bin_decoder_next(out)
     \/ out.st = "OK" /\ out.tlv.value # -1 /\ out' = F!X!r_asn1_bin_decoder_into(out)
     \/ out.st \in {"OK", "EOC"} /\ out.stack # <<>> /\ out' = F!X!r_asn1_bin_decoder_out(out)
Next == Answer \/ Walk
Spec == Init /\ [][Next]_vars

Placed(s, start) == s.tlv.start >= start /\ s.tlv.start < s.tlv.value /\ s.tlv.value + s.tlv.len <= Len(s.data)
\* The places of the elements entered, outermost first, and of the current one.
Trail(s) == LET n == Len(s.stack) IN [i \in 1..n + 1 |-> IF i > n THEN s.tlv.start ELSE s.stack[n + 1 - i].start]
Later(p, q) == \/ Len(p) > Len(q) /\ SubSeq(p, 1, Len(q)) = q
               \/ \E i \in DOMAIN p \cap DOMAIN q : p[i] > q[i] /\ \A j \in 1..i - 1 : p[j] = q[j]
\* However its caller goes into, over and out of elements, the decoder shows an
\* element that lies in the data, behind the start of the contents of the one
\* entered, and never one it has shown at the same level before, so that every
\* walk ends: the places of the elements entered and of the current one grow in
\* lexicographic order (rber.c, rder.c).
WalkSound ==
  [][kind = "walk" /\ out'.st = "OK" =>
       Placed(out', IF out'.stack = <<>> THEN 0 ELSE out'.stack[1].value) /\ Later(Trail(out'), Trail(out))]_vars

\* The digit loops of rmpint.c and its Montgomery and field forms are the
\* arithmetic of the integers for every aliasing, carry and stale digit.  What
\* one side of RSA, DSA, ECDSA, EdDSA encrypts or signs the other recovers or
\* accepts, what was altered is refused, both sides of DH, ECDH and X25519/X448
\* get one secret, and the fast paths (CRT, blinding, windows, the ladder) give
\* the textbook result.  A block mode, AEAD, MAC or digest gives the textbook
\* bytes for every length, chunking, overlap of the buffers and CPU kernel; a
\* tag that was altered is refused, and a finished digest takes no more data.
CryptoRight ==
  [][done' => CASE kind = "mpint" -> MpintRight(in, MpintGot(in)) [] kind = "public" -> PublicRight(in, PublicGot(in))
                [] kind = "symmetric" -> SymRight(in, SymGot(in)) [] OTHER -> TRUE]_vars

\* A SHA-384 or SHA-512 digest is that of FIPS 180-4, whose padding ends in a
\* length of two words, for every length of the message (r_sha512_final keeps
\* room for one word only).
Sha512Right == [][done' /\ kind = "sha512" => SymRight(in, SymGot(in))]_vars

\* What the writers of rasn1binenc.c, rrtp.c, rrtcp.c, rstun.c, rjson.c and
\* rbase64.c put down their readers give back, whole packets and no part of a
\* cut one; numbers, splits, searches and calendar dates of rstr.c and rtime.c
\* are those of their definitions, at the limits of the types; and a conversion
\* of runicode.c into a buffer that is too small stops between two code points.
CodecsRight ==
  [][done' =>
       CASE kind = "asn1" -> F!Asn1Right(in, F!Asn1Got(in)) [] kind = "str" -> F!StrRight(in, F!StrGot(in))
         [] kind = "unicode" -> F!UniRight(in, F!UniGot(in)) [] kind = "json" -> F!JsonRight(in, F!JsonGot(in))
         [] kind = "wire" -> F!WireRight(in, F!WireGot(in)) [] OTHER -> TRUE]_vars

\* A key or certificate exported by rkey.c, rx509.c or rpem.c (encrypted or not)
\* reads back equal, a host name is matched by the names of its certificate as
\* RFC 6125 says, and a chain is trusted only when a path of valid issuers leads
\* from its leaf to an anchor, and then when no certificate has two issuers.
KeysAndTrust ==
  [][done' => CASE kind = "x509" -> F!X509Right(in, F!X509Got(in)) [] kind = "pem" -> F!PemRight(in, F!PemGot(in))
                [] kind = "trust" -> F!TrustRight(in, F!TrustGot(in)) [] OTHER -> TRUE]_vars
=============================================================================
