----------------------------- MODULE Symmetric ------------------------------
(***************************************************************************)
(* The AES modes of raes.c over an abstract block permutation: one-block   *)
(* and wide (8-way, 4-way) loops, in place or not, the chaining value that *)
(* a call leaves behind, GHASH in its three forms, GCM, CCM and key wrap.  *)
(* A block has BB bytes; a buffer operation is a record of the source and  *)
(* destination buffers, the same one when the call works in place.         *)
(***************************************************************************)
EXTENDS CryptoNum

CONSTANTS BB,              \* R_AES_BLOCK_BYTES
          Wide8, Wide4,    \* R_AES_PARALLEL8_BLOCKS, R_AES_PARALLEL_BLOCKS
          AesE(_, _), AesD(_, _),  \* key, block: the block cipher and its inverse
          Clmul(_, _),     \* the carry-less multiply instruction
          Taps,            \* the reducing polynomial below its leading term
          KwRounds,        \* 6
          KwByte, AivHead, \* 0xa6 and the head of the alternative initial value
          CcmMinL,         \* 2: the fewest counter bytes of CCM
          AadFlag, TagFlag \* the weights of the B0 flag fields of CCM

Half == BB \div 2
N == BB * ByteBits
INVAL == "INVAL"

---------------------------------------------------------------------------
(* GHASH.  The most significant bit of the first byte is the coefficient of 1. *)

RECURSIVE XorAll(_)
XorAll(seq) == IF seq = <<>> THEN 0 ELSE XorInt(Head(seq), XorAll(Tail(seq)))

\* Bit by bit: v runs through h, h*x, h*x^2 ...
Reduce == XorAll([t \in 1 .. ByteBits |-> IF t - 1 \in Taps THEN 2 ^ (ByteBits - t) ELSE 0]) * Byte ^ (BB - 1)
r_ghash_mul(y, h) ==
  LET Step(s, i) == [v |-> XorInt(s.v \div 2, IF s.v % 2 = 1 THEN Reduce ELSE 0),
                     z |-> IF (OS2I(y) \div 2 ^ (N - i)) % 2 = 1 THEN XorInt(s.z, s.v) ELSE s.z]
  IN  I2OS(Fold(Step, [v |-> OS2I(h), z |-> 0], [i \in 1 .. N |-> i]).z, BB)

\* Nibble values times h, the nibble standing for the lowest powers.
Nib == 2 ^ (ByteBits \div 2)
r_ghash_init_table(h) == Listed([n \in 1 .. Nib |-> r_ghash_mul(ZeroFill(<<(n - 1) * Nib>>, BB), h)])
\* What the bits of rem, shifted past the end, fold back into the first two bytes.
Fold4(rem) ==
  XorAll([b \in 1 .. ByteBits \div 2 |-> IF (rem \div 2 ^ (b - 1)) % 2 = 0 THEN 0
           ELSE (XorAll([t \in 1 .. ByteBits |-> IF t - 1 \in Taps THEN 2 ^ (2 * ByteBits - t) ELSE 0]) * 2 ^ b) \div Nib])
NibbleStep(z, n, table) ==
  LET v == OS2I(z)
      f == ZeroFill(I2OS(Fold4(v % Nib), 2), BB)
  IN  Xor(Xor(I2OS(v \div Nib, BB), f), table[n + 1])
r_ghash_mul_4bit(y, c, blocks) ==
  Fold(LAMBDA acc, b :
             LET x == Reverse(Xor(acc, b))
             IN  Fold(LAMBDA z, byte : NibbleStep(NibbleStep(z, byte % Nib, c.ghash_t), byte \div Nib, c.ghash_t),
                          Rep(0, BB), x),
           y, blocks)

\* The carry-less multiply kernel: bytes reversed, first byte lowest.
RECURSIVE RevBits(_, _)
RevBits(v, n) == IF n = 0 THEN 0 ELSE (v % 2) * 2 ^ (n - 1) + RevBits(v \div 2, n - 1)
r_ghash_byte_bitrev(b) == Listed([i \in DOMAIN b |-> RevBits(b[i], ByteBits)])
r_ghash_poly_mul_acc(acc, a, b) ==
  LET H == 2 ^ (N \div 2)
      tm == XorInt(Clmul(a % H, b \div H), Clmul(a \div H, b % H))
  IN  <<XorAll(<<acc[1], Clmul(a % H, b % H), (tm % H) * H>>), XorAll(<<acc[2], Clmul(a \div H, b \div H), tm \div H>>)>>
\* Fold the high half through the taps, then what that pushed past the end.
r_ghash_reduce_pclmul(lo, hi) ==
  LET Shl(v, t) == (v * 2 ^ t) % (2 ^ N)
      Spread(v) == XorAll([t \in 1 .. ByteBits |-> IF t - 1 \in Taps THEN Shl(v, t - 1) ELSE 0])
      over == XorAll([t \in 1 .. ByteBits |-> IF t - 1 \in Taps THEN hi \div 2 ^ (N - t + 1) ELSE 0])
  IN  XorAll(<<lo, Spread(hi), Spread(over)>>)
Windows(wide, n) ==
  IF wide THEN Rep(Wide8, n \div Wide8) \o Rep(Wide4, (n % Wide8) \div Wide4) \o Rep(1, (n % Wide8) % Wide4)
  ELSE Rep(1, n)
\* One reduction per window: (y + b1) h^w + b2 h^(w-1) + ... + bw h
r_ghash_mul_pclmul(y, c, blocks) ==
  LET Poly(b) == LE2I(r_ghash_byte_bitrev(b))
      Step(s, w) ==
        LET b(i) == IF i = 1 THEN XorInt(s.y, Poly(blocks[s.at + 1])) ELSE Poly(blocks[s.at + i])
            acc == Fold(LAMBDA a, i : r_ghash_poly_mul_acc(a, b(i), LE2I(c.ghash_h_pow[w - i + 1])), <<0, 0>>, [i \in 1 .. w |-> i])
        IN  [y |-> r_ghash_reduce_pclmul(acc[1], acc[2]), at |-> s.at + w]
      end == Fold(Step, [y |-> Poly(y), at |-> 0], Windows(TRUE, Len(blocks)))
  IN  r_ghash_byte_bitrev(I2LE(end.y, BB))

---------------------------------------------------------------------------
(* The cipher object.                                                      *)

\* cpu: which wide kernels the processor offers
RECURSIVE Powers(_, _)
Powers(h, n) == IF n = 1 THEN <<h>> ELSE LET p == Powers(h, n - 1) IN Append(p, r_ghash_mul(Last(p), h))
r_cipher_aes_new_with_info(mode, key, cpu) ==
  LET h == AesE(key, Rep(0, BB))
      pow == Powers(h, Wide8)
  IN  [mode |-> mode, key |-> key, wide |-> cpu.aes, clmul |-> cpu.clmul,
       ghash_h_pow |-> IF mode = "GCM" /\ cpu.clmul THEN Listed([i \in DOMAIN pow |-> r_ghash_byte_bitrev(pow[i])]) ELSE <<>>,
       ghash_t |-> IF mode = "GCM" /\ ~cpu.clmul THEN r_ghash_init_table(h) ELSE <<>>]
GhashMul(y, c, blocks) == IF c.clmul THEN r_ghash_mul_pclmul(y, c, blocks) ELSE r_ghash_mul_4bit(y, c, blocks)
AesModes == {"ECB", "CBC", "CTR", "CFB", "OFB", "GCM", "CCM"}
r_cipher_aes_new(mode, bits, key, cpu) ==
  IF bits \in {128, 192, 256} /\ mode \in AesModes THEN <<r_cipher_aes_new_with_info(mode, key, cpu)>> ELSE <<>>

---------------------------------------------------------------------------
(* The modes.                                                              *)

Begin(data, iv, inplace) ==
  [src |-> data, dst |-> IF inplace THEN data ELSE Rep(0, Len(data)), inplace |-> inplace, iv |-> iv, off |-> 0]
Put(s, out) ==
  LET W(buf) == Listed([i \in DOMAIN buf |-> IF i \in s.off + 1 .. s.off + Len(out) THEN out[i - s.off] ELSE buf[i]])
  IN  [s EXCEPT !.dst = W(@), !.src = IF s.inplace THEN W(@) ELSE @]
Window(buf, s, w) == [i \in 1 .. w |-> SubSeq(buf, s.off + (i - 1) * BB + 1, s.off + i * BB)]
OnBlocks(F(_), bs) == FlattenSeq([i \in DOMAIN bs |-> F(bs[i])])
Passed(s, w) == [s EXCEPT !.off = @ + w * BB]
Result(res, s) == [res |-> res, dst |-> s.dst, iv |-> s.iv]
Sizes(c, data) == Windows(c.wide, Len(data) \div BB)
\* Refused before anything is written.
BlockCheck(s) == IF Len(s.iv) # BB THEN INVAL ELSE IF Len(s.src) % BB > 0 THEN "WRONG_BLOCK_SIZE" ELSE OK

EcbStep(c, F(_, _), s, w) == Passed(Put(s, OnBlocks(LAMBDA b : F(c.key, b), Window(s.src, s, w))), w)
r_cipher_aes_ecb_encrypt(c, s) ==
  IF Len(s.src) % BB > 0 THEN Result("WRONG_BLOCK_SIZE", s)
  ELSE Result(OK, Fold(LAMBDA t, w : EcbStep(c, AesE, t, w), s, Sizes(c, s.src)))
r_cipher_aes_ecb_decrypt(c, s) ==
  IF Len(s.src) % BB > 0 THEN Result("WRONG_BLOCK_SIZE", s)
  ELSE Result(OK, Fold(LAMBDA t, w : EcbStep(c, AesD, t, w), s, Sizes(c, s.src)))

r_cipher_aes_cbc_encrypt(c, s) ==
  LET Step(t, w) == LET b == AesE(c.key, Xor(Window(t.src, t, 1)[1], t.iv)) IN Passed([Put(t, b) EXCEPT !.iv = b], 1)
  IN  IF BlockCheck(s) # OK THEN Result(BlockCheck(s), s)
      ELSE Result(OK, Fold(Step, s, Windows(FALSE, Len(s.src) \div BB)))

\* The window is saved before it may be overwritten; each block is chained to
\* the saved one before it.
r_cipher_aes_cbc_decrypt(c, s) ==
  LET Step(t, w) ==
        LET saved == Window(t.src, t, w)
            t1 == Put(t, OnBlocks(LAMBDA b : AesD(c.key, b), saved))
            chained == Xor(FlattenSeq(Window(t1.dst, t1, w)), t.iv \o FlattenSeq(Front(saved)))
        IN  Passed([Put(t1, chained) EXCEPT !.iv = Last(saved)], w)
  IN  IF BlockCheck(s) # OK THEN Result(BlockCheck(s), s) ELSE Result(OK, Fold(Step, s, Sizes(c, s.src)))

\* Add to the low half; a carry out of it ripples through the high half.
r_aes_ctr_add(iv, n) ==
  LET lo == OS2I(SubSeq(iv, Half + 1, BB)) + n
      M == Byte ^ Half
      hi == OS2I(SubSeq(iv, 1, Half)) + (IF lo >= M THEN 1 ELSE 0)
  IN  I2OS(hi % M, Half) \o I2OS(lo % M, Half)

\* Counter mode: a window of counters, then the odd bytes at the end.
CtrWindow(c, t, w, Add(_, _)) ==
  LET ks == FlattenSeq([i \in 1 .. w |-> AesE(c.key, Add(t.iv, i - 1))])
  IN  Passed([Put(t, Xor(FlattenSeq(Window(t.src, t, w)), ks)) EXCEPT !.iv = Add(@, w)], w)
Odd(t) == Skip(t.src, t.off)
r_cipher_aes_ctr_encrypt(c, s) ==
  LET t == Fold(LAMBDA u, w : CtrWindow(c, u, w, r_aes_ctr_add), s, Sizes(c, s.src))
  IN  IF Len(s.iv) # BB THEN Result(INVAL, s)
      ELSE Result(OK, IF Odd(t) = <<>> THEN t
                      ELSE [Put(t, Xor(Odd(t), AesE(c.key, t.iv))) EXCEPT !.iv = r_aes_ctr_add(@, 1)])

CfbOdd(c, t) == IF Odd(t) = <<>> THEN t ELSE Put(t, Xor(Odd(t), AesE(c.key, t.iv)))
r_cipher_aes_cfb_encrypt(c, s) ==
  LET Step(t, w) == LET b == Xor(Window(t.src, t, 1)[1], AesE(c.key, t.iv)) IN Passed([Put(t, b) EXCEPT !.iv = b], 1)
  IN  IF Len(s.iv) # BB THEN Result(INVAL, s)
      ELSE Result(OK, CfbOdd(c, Fold(Step, s, Windows(FALSE, Len(s.src) \div BB))))
r_cipher_aes_cfb_decrypt(c, s) ==
  LET Step(t, w) ==
        LET ctsave == Window(t.src, t, w)
            ks == OnBlocks(LAMBDA b : AesE(c.key, b), <<t.iv>> \o Front(ctsave))
        IN  Passed([Put(t, Xor(FlattenSeq(ctsave), ks)) EXCEPT !.iv = Last(ctsave)], w)
  IN  IF Len(s.iv) # BB THEN Result(INVAL, s) ELSE Result(OK, CfbOdd(c, Fold(Step, s, Sizes(c, s.src))))

r_cipher_aes_ofb_encrypt(c, s) ==
  LET Step(t, w) == LET y == AesE(c.key, t.iv) IN Passed([Put(t, Xor(Window(t.src, t, 1)[1], y)) EXCEPT !.iv = y], 1)
      t1 == Fold(Step, s, Windows(FALSE, Len(s.src) \div BB))
      y1 == AesE(c.key, t1.iv)
  IN  IF Len(s.iv) # BB THEN Result(INVAL, s)
      ELSE Result(OK, IF Odd(t1) = <<>> THEN t1 ELSE [Put(t1, Xor(Odd(t1), y1)) EXCEPT !.iv = y1])

-----------------------------------------------------------------------------
(***************************************************************************)
(* Authenticated encryption and key wrap of raes.c, on the modes above.    *)
(***************************************************************************)
CtrLen == BB \div 4      \* the 32 counter bits of GCM
IvLen == BB - CtrLen     \* 12

r_gcm_ctr_inc32_n(ctr, n) ==
  SubSeq(ctr, 1, IvLen) \o I2OS((OS2I(Skip(ctr, IvLen)) + n) % (Byte ^ CtrLen), CtrLen)
r_gcm_ctr_inc32(ctr) == r_gcm_ctr_inc32_n(ctr, 1)

r_gcm_ghash_update(y, c, data) ==
  LET n == Len(data) \div BB
      y1 == IF n > 0 THEN GhashMul(y, c, Pieces(data, BB)) ELSE y
      tail == Skip(data, n * BB)
  IN  IF tail = <<>> THEN y1 ELSE GhashMul(y1, c, <<ZeroFill(tail, BB)>>)
r_gcm_be64(n) == I2OS(n, Half)
r_gcm_compute_tag(c, j0, aad, ct) ==
  Xor(AesE(c.key, j0), Fold(LAMBDA y, part : r_gcm_ghash_update(y, c, part), Rep(0, BB),
                            <<aad, ct, r_gcm_be64(Len(aad) * 8) \o r_gcm_be64(Len(ct) * 8)>>))

Aead(res, dst, tag) == [res |-> res, dst |-> dst, tag |-> tag]
\* On decrypt the tag is compared before the destination is touched.
r_aes_gcm_op(c, s, aad, tag, tagsize, generate) ==
  LET j0 == s.iv \o I2OS(1, CtrLen)
      t0 == [s EXCEPT !.iv = r_gcm_ctr_inc32(j0)]
      t == Fold(LAMBDA u, w : CtrWindow(c, u, w, r_gcm_ctr_inc32_n), t0, Sizes(c, s.src))
      out == CfbOdd(c, t).dst
  IN  IF Len(s.iv) # IvLen \/ tagsize = 0 \/ tagsize > BB THEN Aead(INVAL, s.dst, tag)
      ELSE IF ~generate /\ SubSeq(r_gcm_compute_tag(c, j0, aad, s.src), 1, tagsize) # tag THEN Aead("AUTH_FAILED", s.dst, tag)
      ELSE Aead(OK, out, IF generate THEN SubSeq(r_gcm_compute_tag(c, j0, aad, out), 1, tagsize) ELSE tag)
r_cipher_aes_gcm_encrypt(c, s, aad, tagsize) == r_aes_gcm_op(c, s, aad, <<>>, tagsize, TRUE)
r_cipher_aes_gcm_decrypt(c, s, aad, tag) == r_aes_gcm_op(c, s, aad, tag, Len(tag), FALSE)

---------------------------------------------------------------------------
r_ccm_mac_block(c, x, block) == AesE(c.key, Xor(x, block))
r_ccm_mac_feed(c, x, data) ==
  LET x1 == Fold(LAMBDA a, b : r_ccm_mac_block(c, a, b), x, Pieces(data, BB))
      tail == Skip(data, BB * (Len(data) \div BB))
  IN  IF tail = <<>> THEN x1 ELSE r_ccm_mac_block(c, x1, ZeroFill(tail, BB))
\* Only the trailing L bytes count.
r_ccm_ctr_inc(ctr, L) ==
  SubSeq(ctr, 1, BB - L) \o I2OS((OS2I(Skip(ctr, BB - L)) + 1) % (Byte ^ L), L)
r_ccm_build_b0(nonce, L, has_aad, tag_len, size) ==
  <<(IF has_aad THEN AadFlag ELSE 0) + ((tag_len - 2) \div 2) * TagFlag + L - 1>> \o nonce \o I2OS(size, L)
r_ccm_build_a0(nonce, L) == <<L - 1>> \o nonce \o Rep(0, L)
RECURSIVE r_ccm_ctr_xor(_, _, _, _)
r_ccm_ctr_xor(c, ctr, L, src) ==
  LET n == IF Len(src) < BB THEN Len(src) ELSE BB
  IN  IF src = <<>> THEN <<>>
      ELSE Xor(SubSeq(src, 1, n), AesE(c.key, ctr)) \o r_ccm_ctr_xor(c, r_ccm_ctr_inc(ctr, L), L, Skip(src, n))
\* The associated data goes behind its length: two bytes of it, or a mark and
\* four (the mark and eight for 2^32 bytes and more is left out).
r_ccm_compute_mac(c, nonce, L, aad, plain, tag_len) ==
  LET x0 == AesE(c.key, r_ccm_build_b0(nonce, L, aad # <<>>, tag_len, Len(plain)))
      head == IF Len(aad) < Byte ^ 2 - Byte THEN I2OS(Len(aad), 2) ELSE <<FF, FF - 1>> \o I2OS(Len(aad), 4)
      x1 == IF aad = <<>> THEN x0 ELSE r_ccm_mac_feed(c, x0, head \o aad)
  IN  r_ccm_mac_feed(c, x1, plain)
\* On decrypt the destination is written before the tag is compared.
r_aes_ccm_op(c, s, aad, tag, tagsize, generate) ==
  LET L == BB - 1 - Len(s.iv)
      a0 == r_ccm_build_a0(s.iv, L)
      out == r_ccm_ctr_xor(c, r_ccm_ctr_inc(a0, L), L, s.src)
      plain == IF generate THEN s.src ELSE out
      full == Xor(r_ccm_compute_mac(c, s.iv, L, aad, plain, tagsize), AesE(c.key, a0))
      mine == SubSeq(full, 1, tagsize)
  IN  IF Len(s.iv) + 1 < Half \/ L < CcmMinL \/ tagsize < BB \div 4 \/ tagsize > BB \/ tagsize % 2 # 0 \/ Len(s.src) >= Byte ^ L
      THEN Aead(INVAL, s.dst, tag)
      ELSE IF ~generate /\ mine # tag THEN Aead("AUTH_FAILED", out, tag)
      ELSE Aead(OK, out, mine)
r_cipher_aes_ccm_encrypt(c, s, aad, tagsize) == r_aes_ccm_op(c, s, aad, <<>>, tagsize, TRUE)
r_cipher_aes_ccm_decrypt(c, s, aad, tag) == r_aes_ccm_op(c, s, aad, tag, Len(tag), FALSE)

---------------------------------------------------------------------------
(* Key wrap: r holds half-blocks, a the integrity register.                *)

r_aes_kw_xor_t(a, t) == Xor(a, I2OS(t % (Byte ^ Half), Half))
Rounds(n) == [k \in 1 .. KwRounds * n |-> k]     \* n * j + (i + 1) in order
r_aes_kw_wrap_core(c, a0, r0) ==
  Fold(LAMBDA s, t :
             LET i == ((t - 1) % Len(r0)) + 1
                 b == AesE(c.key, s.a \o s.r[i])
             IN  [a |-> r_aes_kw_xor_t(SubSeq(b, 1, Half), t), r |-> [s.r EXCEPT ![i] = Skip(b, Half)]],
           [a |-> a0, r |-> r0], Rounds(Len(r0)))
r_aes_kw_unwrap_core(c, a0, r0) ==
  Fold(LAMBDA s, t :
             LET i == ((t - 1) % Len(r0)) + 1
                 b == AesD(c.key, r_aes_kw_xor_t(s.a, t) \o s.r[i])
             IN  [a |-> SubSeq(b, 1, Half), r |-> [s.r EXCEPT ![i] = Skip(b, Half)]],
           [a |-> a0, r |-> r0], Reverse(Rounds(Len(r0))))
KwIv == Rep(KwByte, Half)

\* The wrapped key; <<>> when refused.
r_cipher_aes_key_wrap(c, in) ==
  LET w == r_aes_kw_wrap_core(c, KwIv, Pieces(in, Half))
  IN  IF Len(in) < BB \/ Len(in) % Half # 0 THEN <<>> ELSE w.a \o FlattenSeq(w.r)
r_cipher_aes_key_unwrap(c, in) ==
  LET u == r_aes_kw_unwrap_core(c, SubSeq(in, 1, Half), Pieces(Skip(in, Half), Half))
  IN  IF Len(in) < BB + Half \/ Len(in) % Half # 0 THEN <<>> ELSE IF u.a = KwIv THEN FlattenSeq(u.r) ELSE <<>>

r_aes_kw_pad_aiv(mli) == AivHead \o I2OS(mli, Half \div 2)
r_cipher_aes_key_wrap_pad(c, in) ==
  LET padded == ((Len(in) + Half - 1) \div Half) * Half
      aiv == r_aes_kw_pad_aiv(Len(in))
      w == r_aes_kw_wrap_core(c, aiv, Pieces(ZeroFill(in, padded), Half))
  IN  IF Len(in) < 1 \/ Len(in) >= Byte ^ (Half \div 2) THEN <<>>
      ELSE IF padded = Half THEN AesE(c.key, aiv \o ZeroFill(in, Half))
      ELSE w.a \o FlattenSeq(w.r)
r_cipher_aes_key_unwrap_pad(c, in) ==
  LET n8 == Len(in) - Half
      one == AesD(c.key, in)
      u == IF Len(in) = BB THEN [a |-> SubSeq(one, 1, Half), r |-> <<Skip(one, Half)>>]
           ELSE r_aes_kw_unwrap_core(c, SubSeq(in, 1, Half), Pieces(Skip(in, Half), Half))
      out == FlattenSeq(u.r)
      mli == OS2I(Skip(u.a, Half \div 2))
  IN  IF Len(in) < BB \/ Len(in) % Half # 0 THEN <<>>
      ELSE IF SubSeq(u.a, 1, Half \div 2) = AivHead /\ mli <= n8 /\ mli + Half > n8 /\ mli > 0
              /\ (\A i \in mli + 1 .. n8 : out[i] = 0)
      THEN SubSeq(out, 1, mli) ELSE <<>>

-----------------------------------------------------------------------------
(***************************************************************************)
(* ChaCha20, Poly1305 and their AEAD: rchacha20.c, rpoly1305.c and         *)
(* rchacha20poly1305.c, with narrow words and limbs.  Poly1305 keeps the   *)
(* accumulator in five limbs of LW bits, modulo 2^(5 LW) - 5.              *)
(***************************************************************************)
CONSTANTS WordBytes,      \* bytes of a ChaCha word (4)
          Sigma,          \* the four constant words
          Rots,           \* the rotations of a quarter round (16, 12, 8, 7)
          DoubleRounds,   \* 10
          LW,             \* bits of a limb (26)
          ClampMasks      \* what the clamp keeps of each limb of r

WB == WordBytes * ByteBits
WM == 2 ^ WB
Rotl(v, n) == ((v * 2 ^ n) % WM) + (v \div 2 ^ (WB - n))
Quarter(s, q) ==
  LET a == q[1] + 1  b == q[2] + 1  c == q[3] + 1  d == q[4] + 1
      H(t, x, y, z, r) ==
        LET sum == (t[x] + t[y]) % WM
        IN  [t EXCEPT ![x] = sum, ![z] = Rotl(XorInt(@, sum), r)]
  IN  H(H(H(H(s, a, b, d, Rots[1]), c, d, b, Rots[2]), a, b, d, Rots[3]), c, d, b, Rots[4])
Schedule == << <<0, 4, 8, 12>>, <<1, 5, 9, 13>>, <<2, 6, 10, 14>>, <<3, 7, 11, 15>>,
               <<0, 5, 10, 15>>, <<1, 6, 11, 12>>, <<2, 7, 8, 13>>, <<3, 4, 9, 14>> >>
Words(bs) == [i \in 1 .. Len(bs) \div WordBytes |-> LE2I(SubSeq(bs, (i - 1) * WordBytes + 1, i * WordBytes))]

r_chacha20_block(key, counter, nonce) ==
  LET state == Sigma \o Words(key) \o <<counter % WM>> \o Words(nonce)
      work == Fold(LAMBDA s, i : Fold(Quarter, s, Schedule), state, Rep(0, DoubleRounds))
  IN  FlattenSeq([i \in 1 .. 16 |-> I2LE((work[i] + state[i]) % WM, WordBytes)])

\* A block of key stream for each block of the message, the counter wraps.
r_chacha20_xor(src, key, counter, nonce) ==
  LET size == 16 * WordBytes
      n == (Len(src) + size - 1) \div size
      ks == FlattenSeq([i \in 1 .. n |-> r_chacha20_block(key, counter + i - 1, nonce)])
  IN  Xor(src, ks)

---------------------------------------------------------------------------
PB == (5 * LW - 2) \div ByteBits      \* bytes of a Poly1305 block and tag
L2 == 2 ^ LW
RECURSIVE AndInt(_, _)
AndInt(a, b) == IF a = 0 \/ b = 0 THEN 0 ELSE 2 * AndInt(a \div 2, b \div 2) + (a % 2) * (b % 2)
OrInt(a, b) == a + b - AndInt(a, b)
Limbs(bs) == LET v == LE2I(bs) IN [i \in 1 .. 5 |-> (v \div L2 ^ (i - 1)) % L2]

r_poly1305_init(key) ==
  LET r == Limbs(SubSeq(key, 1, PB))
  IN  [r |-> [i \in 1 .. 5 |-> AndInt(r[i], ClampMasks[i])], h |-> Rep(0, 5), pad |-> LE2I(SubSeq(key, PB + 1, 2 * PB)),
       buffer |-> <<>>, final |-> FALSE]

\* h = (h + m) r: five times r folds what passes the top limb back in, and one
\* pass of carries brings the limbs back to size.
PolyBlock(ctx, m) ==
  LET hibit == IF ctx.final THEN 0 ELSE 2 ^ (LW - 2)
      x == [i \in 1 .. 5 |-> ctx.h[i] + Limbs(m)[i] + (IF i = 5 THEN hibit ELSE 0)]
      Coef(k, i) == IF i <= k THEN ctx.r[k - i + 1] ELSE 5 * ctx.r[k - i + 6]
      d == [k \in 1 .. 5 |-> x[1] * Coef(k, 1) + x[2] * Coef(k, 2) + x[3] * Coef(k, 3) + x[4] * Coef(k, 4) + x[5] * Coef(k, 5)]
      e == Fold(LAMBDA s, i : [s EXCEPT ![i] = @ % L2, ![i + 1] = @ + s[i] \div L2], d, <<1, 2, 3, 4>>)
      h0 == (e[1] + 5 * (e[5] \div L2))
  IN  [ctx EXCEPT !.h = <<h0 % L2, e[2] + h0 \div L2, e[3], e[4], e[5] % L2>>]
r_poly1305_blocks(ctx, m) == Fold(PolyBlock, ctx, Pieces(m, PB))

r_poly1305_update(ctx, m) ==
  LET left == Len(ctx.buffer)
      want == IF PB - left > Len(m) THEN Len(m) ELSE PB - left
      full == ctx.buffer \o SubSeq(m, 1, want)
      c1 == IF left = 0 THEN ctx ELSE [r_poly1305_blocks(ctx, full) EXCEPT !.buffer = <<>>]
      rest == IF left = 0 THEN m ELSE Skip(m, want)
      bulk == PB * (Len(rest) \div PB)
  IN  IF left > 0 /\ Len(full) < PB THEN [ctx EXCEPT !.buffer = full]
      ELSE [r_poly1305_blocks(c1, SubSeq(rest, 1, bulk)) EXCEPT !.buffer = Skip(rest, bulk)]

\* Pad the odd block, carry fully, subtract the modulus if that leaves no
\* borrow, pack the limbs into words and add the second half of the key.
r_poly1305_finish(ctx0) ==
  LET ctx == IF ctx0.buffer = <<>> THEN ctx0
             ELSE r_poly1305_blocks([ctx0 EXCEPT !.final = TRUE], ZeroFill(Append(ctx0.buffer, 1), PB))
      Carry(s, i) == [s EXCEPT ![i] = @ % L2, ![i + 1] = @ + s[i] \div L2]
      a == Fold(Carry, ctx.h, <<2, 3, 4>>)
      h0 == a[1] + 5 * (a[5] \div L2)
      h == <<h0 % L2, a[2] + h0 \div L2, a[3], a[4], a[5] % L2>>
      b == Fold(Carry, [h EXCEPT ![1] = @ + 5], <<1, 2, 3, 4>>)
      g == [b EXCEPT ![5] = @ - L2]
      v == IF g[5] < 0 THEN h ELSE g
      word == (PB * ByteBits) \div 4
      Packed(k) == OrInt(v[k + 1] \div 2 ^ ((word - LW) * k), v[k + 2] * 2 ^ (LW - (word - LW) * k)) % (2 ^ word)
      packed == Packed(0) + Packed(1) * 2 ^ word + Packed(2) * 2 ^ (2 * word) + Packed(3) * 2 ^ (3 * word)
  IN  I2LE((packed + ctx.pad) % (2 ^ (PB * ByteBits)), PB)

r_poly1305_mac(msg, key) == r_poly1305_finish(r_poly1305_update(r_poly1305_init(key), msg))

---------------------------------------------------------------------------
\* Each part filled up to a block, then both lengths.
r_chacha20_poly1305_tag(polykey, aad, ct) ==
  LET Part(ctx, s) ==
        IF s = <<>> THEN ctx
        ELSE LET u == r_poly1305_update(ctx, s)
             IN  IF Len(s) % PB = 0 THEN u ELSE r_poly1305_update(u, Rep(0, PB - (Len(s) % PB)))
      low == (PB + 1) \div 2
  IN  r_poly1305_finish(r_poly1305_update(Part(Part(r_poly1305_init(polykey), aad), ct),
                                          I2LE(Len(aad), low) \o I2LE(Len(ct), PB - low)))
r_chacha20_poly1305_derive_key(key, nonce) == SubSeq(r_chacha20_block(key, 0, nonce), 1, 2 * PB)

\* <<result, output, tag>>; a refused call leaves the output alone.
CcInval(iv, tagsize) == Len(iv) # 3 * WordBytes \/ tagsize = 0 \/ tagsize > PB
r_cipher_chacha20_poly1305_encrypt(key, data, aad, iv, tagsize) ==
  LET dst == r_chacha20_xor(data, key, 1, iv)
  IN  IF CcInval(iv, tagsize) THEN <<"INVAL", <<>>, <<>>>>
      ELSE <<OK, dst, SubSeq(r_chacha20_poly1305_tag(r_chacha20_poly1305_derive_key(key, iv), aad, dst), 1, tagsize)>>
r_cipher_chacha20_poly1305_decrypt(key, data, aad, iv, tag) ==
  LET mine == r_chacha20_poly1305_tag(r_chacha20_poly1305_derive_key(key, iv), aad, data)
  IN  IF CcInval(iv, Len(tag)) THEN <<"INVAL", <<>>, <<>>>>
      ELSE IF SubSeq(mine, 1, Len(tag)) # tag THEN <<"AUTH_FAILED", <<>>, tag>>
      ELSE <<OK, r_chacha20_xor(data, key, 1, iv), tag>>

-----------------------------------------------------------------------------
(***************************************************************************)
(* The cipher interface of rcipher.c: the table of ciphers and the four    *)
(* entry points, which keep AEAD and plain modes apart.                    *)
(***************************************************************************)
Info(algo, mode, bits) == [algo |-> algo, mode |-> mode, keybits |-> bits]
g__r_crypto_ciphers ==
  <<Info("NULL", "STREAM", 0)>>
  \o [i \in 1 .. 15 |-> Info("AES", <<"ECB", "CBC", "CTR", "GCM", "CCM">>[((i - 1) \div 3) + 1], 128 + 64 * ((i - 1) % 3))]
  \o <<Info("CHACHA20", "POLY1305", 256)>>

\* The first entry that fits; <<>> when none does.
r_crypto_cipher_find_by_type(algo, mode, bits) ==
  LET Fits(i) == i.algo = algo /\ i.mode = mode /\ (i.keybits <= 1 \/ i.keybits = bits)
      hit == SelectSeq(g__r_crypto_ciphers, Fits)
  IN  IF hit = <<>> THEN <<>> ELSE <<hit[1]>>

\* A cipher object is its info and the object of the algorithm.
r_crypto_cipher_new(info, key, cpu) ==
  [info |-> info, obj |-> IF info.algo = "AES" THEN r_cipher_aes_new_with_info(info.mode, key, cpu) ELSE [key |-> key]]

r_crypto_cipher_is_aead(c) == c.info.mode \in {"GCM", "CCM", "POLY1305"}

r_crypto_cipher_encrypt(c, s) ==
  CASE r_crypto_cipher_is_aead(c) -> Result("NEEDS_AEAD", s)
    [] c.info.algo = "NULL" -> Result(OK, Put(s, s.src))
    [] c.info.mode = "ECB" -> r_cipher_aes_ecb_encrypt(c.obj, s)
    [] c.info.mode = "CBC" -> r_cipher_aes_cbc_encrypt(c.obj, s)
    [] c.info.mode = "CTR" -> r_cipher_aes_ctr_encrypt(c.obj, s)
r_crypto_cipher_decrypt(c, s) ==
  CASE r_crypto_cipher_is_aead(c) -> Result("NEEDS_AEAD", s)
    [] c.info.algo = "NULL" -> Result(OK, Put(s, s.src))
    [] c.info.mode = "ECB" -> r_cipher_aes_ecb_decrypt(c.obj, s)
    [] c.info.mode = "CBC" -> r_cipher_aes_cbc_decrypt(c.obj, s)
    [] c.info.mode = "CTR" -> r_cipher_aes_ctr_encrypt(c.obj, s)

FromCc(r, s) == Aead(r[1], IF r[1] = OK THEN r[2] ELSE s.dst, r[3])
r_crypto_cipher_encrypt_aead(c, s, aad, tagsize) ==
  CASE ~r_crypto_cipher_is_aead(c) -> Aead("NOT_AEAD", s.dst, <<>>)
    [] c.info.mode = "GCM" -> r_cipher_aes_gcm_encrypt(c.obj, s, aad, tagsize)
    [] c.info.mode = "CCM" -> r_cipher_aes_ccm_encrypt(c.obj, s, aad, tagsize)
    [] c.info.mode = "POLY1305" -> FromCc(r_cipher_chacha20_poly1305_encrypt(c.obj.key, s.src, aad, s.iv, tagsize), s)
r_crypto_cipher_decrypt_aead(c, s, aad, tag) ==
  CASE ~r_crypto_cipher_is_aead(c) -> Aead("NOT_AEAD", s.dst, tag)
    [] c.info.mode = "GCM" -> r_cipher_aes_gcm_decrypt(c.obj, s, aad, tag)
    [] c.info.mode = "CCM" -> r_cipher_aes_ccm_decrypt(c.obj, s, aad, tag)
    [] c.info.mode = "POLY1305" -> FromCc(r_cipher_chacha20_poly1305_decrypt(c.obj.key, s.src, aad, s.iv, tag), s)

-----------------------------------------------------------------------------
(***************************************************************************)
(* The message digests of rmsgdigest.c: how a message handed over in       *)
(* pieces is cut into blocks, padded and finished, and the interface that  *)
(* all digests share.  The compression functions are parameters.           *)
(***************************************************************************)
CONSTANTS Md,                \* type -> [size, block, len (bytes of the length field), le]
          MdStart(_),        \* the initial chaining value of a type
          Compress(_, _, _), \* type, chaining value, block
          Checksum(_, _),    \* the running checksum of MD2, and a block
          Rate,              \* R_SHAKE256_RATE
          Lanes,             \* bytes of the sponge, more than Rate
          Keccakf(_)         \* r_keccakf1600

Top == Byte \div 2       \* 0x80

MdNew(type) ==
  [type |-> type, is_final |-> FALSE, h |-> MdStart(type), sum |-> Rep(0, Md[type].block), buf |-> <<>>, len |-> 0]

Absorb(m, block) ==
  [m EXCEPT !.h = Compress(m.type, @, block), !.sum = IF m.type = "MD2" THEN Checksum(@, block) ELSE @]

\* Top up the buffered piece, compress whole blocks, keep the rest.
MdUpdate(m, data) ==
  LET block == Md[m.type].block
      s == block - Len(m.buf)
      all == m.buf \o data
      m1 == [m EXCEPT !.len = @ + Len(data)]
  IN  IF m.buf # <<>> /\ s > Len(data)
      THEN [m1 EXCEPT !.buf = all]
      ELSE [Fold(Absorb, m1, Pieces(all, block)) EXCEPT !.buf = Skip(all, block * (Len(all) \div block))]

\* The closing bit, zeros and the length in bits in the last block; a block
\* more when fewer than room bytes are left behind the closing bit.
MdFinal(m, room) ==
  LET i == Md[m.type]
      b == Append(m.buf, Top)
      fits == Len(b) <= i.block - room
      bits == (m.len * 8) % (Byte ^ i.len)
      len == IF i.le THEN I2LE(bits, i.len) ELSE I2OS(bits, i.len)
      last == ZeroFill(IF fits THEN b ELSE <<>>, i.block)
      m1 == IF fits THEN m ELSE Absorb(m, ZeroFill(b, i.block))
  IN  [Absorb(m1, SubSeq(last, 1, i.block - i.len) \o len) EXCEPT !.is_final = TRUE]

MdGet(m, size) == IF size < Md[m.type].size THEN <<>> ELSE SubSeq(m.h, 1, Md[m.type].size)

r_msg_digest_new_md2 == MdNew("MD2")
r_md2_update(m, data) == MdUpdate(m, data)
r_md2_final(m) ==
  LET pad == Md["MD2"].block - Len(m.buf)
      m1 == Absorb(m, m.buf \o Rep(pad, pad))
  IN  [Absorb(m1, m1.sum) EXCEPT !.is_final = TRUE]
r_md2_get(m, size) == MdGet(m, size)

r_msg_digest_new_md4 == MdNew("MD4")
r_md4_update(m, data) == MdUpdate(m, data)
r_md4_final(m) == MdFinal(m, Md["MD4"].len)
r_md4_get(m, size) == MdGet(m, size)

r_msg_digest_new_md5 == MdNew("MD5")
r_md5_update(m, data) == MdUpdate(m, data)
r_md5_final(m) == MdFinal(m, Md["MD5"].len)
r_md5_get(m, size) == MdGet(m, size)

r_msg_digest_new_sha1 == MdNew("SHA1")
r_sha1_update(m, data) == MdUpdate(m, data)
r_sha1_final(m) == MdFinal(m, Md["SHA1"].len)
r_sha1_get(m, size) == MdGet(m, size)

r_msg_digest_new_sha224 == MdNew("SHA224")
r_sha224_get(m, size) == MdGet(m, size)
r_msg_digest_new_sha256 == MdNew("SHA256")
r_sha256_update(m, data) == MdUpdate(m, data)
r_sha256_final(m) == MdFinal(m, Md["SHA256"].len)
r_sha256_get(m, size) == MdGet(m, size)

r_msg_digest_new_sha384 == MdNew("SHA384")
r_sha384_get(m, size) == MdGet(m, size)
r_msg_digest_new_sha512 == MdNew("SHA512")
r_sha512_update(m, data) == MdUpdate(m, data)
\* The length takes two words, the test leaves room for one.
r_sha512_final(m) == MdFinal(m, Md["SHA512"].len \div 2)
r_sha512_get(m, size) == MdGet(m, size)

r_msg_digest_new_shake256 ==
  [type |-> "SHAKE256", is_final |-> FALSE, lanes |-> Rep(0, Lanes), absorb_pos |-> 0, squeeze_pos |-> 0]
r_shake256_update(m, data) ==
  Fold(LAMBDA s, b : LET l == [s.lanes EXCEPT ![s.absorb_pos + 1] = XorInt(@, b)]
                         IN  IF s.absorb_pos + 1 = Rate THEN [s EXCEPT !.lanes = Keccakf(l), !.absorb_pos = 0]
                             ELSE [s EXCEPT !.lanes = l, !.absorb_pos = @ + 1],
           m, data)
r_shake256_final(m) ==
  LET l == [m.lanes EXCEPT ![m.absorb_pos + 1] = XorInt(@, FF \div 8)]
  IN  [m EXCEPT !.lanes = Keccakf([l EXCEPT ![Rate] = XorInt(@, Top)]),
                !.absorb_pos = 0, !.squeeze_pos = 0, !.is_final = TRUE]
\* <<the bytes squeezed, the sponge after them>>
RECURSIVE r_shake256_squeeze(_, _)
r_shake256_squeeze(m, size) ==
  LET avail == Rate - m.squeeze_pos
      take == IF size > avail THEN avail ELSE size
      out == SubSeq(m.lanes, m.squeeze_pos + 1, m.squeeze_pos + take)
      m1 == IF take = avail THEN [m EXCEPT !.lanes = Keccakf(@), !.squeeze_pos = 0]
            ELSE [m EXCEPT !.squeeze_pos = @ + take]
      rest == r_shake256_squeeze(m1, size - take)
  IN  IF size = 0 THEN <<<<>>, m>> ELSE <<out \o rest[1], rest[2]>>

r_msg_digest_new(type) ==
  CASE type = "MD2" -> r_msg_digest_new_md2 [] type = "MD4" -> r_msg_digest_new_md4
    [] type = "MD5" -> r_msg_digest_new_md5 [] type = "SHA1" -> r_msg_digest_new_sha1
    [] type = "SHA224" -> r_msg_digest_new_sha224 [] type = "SHA256" -> r_msg_digest_new_sha256
    [] type = "SHA384" -> r_msg_digest_new_sha384 [] type = "SHA512" -> r_msg_digest_new_sha512
    [] type = "SHAKE256" -> r_msg_digest_new_shake256

r_msg_digest_type_size(type) == IF type \in DOMAIN Md THEN Md[type].size ELSE 0
r_msg_digest_type_blocksize(type) ==
  IF type \in DOMAIN Md THEN Md[type].block ELSE IF type = "SHAKE256" THEN Rate ELSE 0

\* The functions a digest was created with.
UpdateOf(m, data) ==
  CASE m.type = "MD2" -> r_md2_update(m, data) [] m.type = "MD4" -> r_md4_update(m, data)
    [] m.type = "MD5" -> r_md5_update(m, data) [] m.type = "SHA1" -> r_sha1_update(m, data)
    [] m.type \in {"SHA224", "SHA256"} -> r_sha256_update(m, data)
    [] m.type \in {"SHA384", "SHA512"} -> r_sha512_update(m, data)
    [] m.type = "SHAKE256" -> r_shake256_update(m, data)
FinalOf(m) ==
  CASE m.type = "MD2" -> r_md2_final(m) [] m.type = "MD4" -> r_md4_final(m)
    [] m.type = "MD5" -> r_md5_final(m) [] m.type = "SHA1" -> r_sha1_final(m)
    [] m.type \in {"SHA224", "SHA256"} -> r_sha256_final(m)
    [] m.type \in {"SHA384", "SHA512"} -> r_sha512_final(m)
    [] m.type = "SHAKE256" -> r_shake256_final(m)
GetOf(m, size) ==
  CASE m.type = "MD2" -> r_md2_get(m, size) [] m.type = "MD4" -> r_md4_get(m, size)
    [] m.type = "MD5" -> r_md5_get(m, size) [] m.type = "SHA1" -> r_sha1_get(m, size)
    [] m.type = "SHA224" -> r_sha224_get(m, size) [] m.type = "SHA256" -> r_sha256_get(m, size)
    [] m.type = "SHA384" -> r_sha384_get(m, size) [] m.type = "SHA512" -> r_sha512_get(m, size)

r_msg_digest_reset(m) == r_msg_digest_new(m.type)
\* <<accepted, the digest after it>>
r_msg_digest_update(m, data) == IF m.is_final THEN <<FALSE, m>> ELSE <<TRUE, UpdateOf(m, data)>>
r_msg_digest_finish(m) == IF m.is_final THEN m ELSE FinalOf(m)
r_msg_digest_squeeze(m, size) ==
  IF m.type # "SHAKE256" THEN <<<<>>, m>> ELSE r_shake256_squeeze(r_msg_digest_finish(m), size)
\* The digest of what was absorbed so far, <<>> when refused; a copy is finished.
r_msg_digest_get_data(m, size) ==
  IF m.type = "SHAKE256" THEN <<>> ELSE GetOf(r_msg_digest_finish(m), size)

-----------------------------------------------------------------------------
(***************************************************************************)
(* Keyed digests and key derivation: rhmac.c and rkdf.c.                   *)
(***************************************************************************)
CONSTANTS Ipad, Opad,      \* the bytes 0x36 and 0x5c
          MaxHash,         \* R_KDF_MAX_HASH
          CounterMax       \* 255: the largest counter byte of HKDF

Keyed(key, pad) == [i \in DOMAIN key |-> XorInt(key[i], pad)]

r_hmac_reset(hm) ==
  [hm EXCEPT !.inner = r_msg_digest_update(r_msg_digest_reset(@), Keyed(hm.keyblock, Ipad))[2],
             !.outer = r_msg_digest_update(r_msg_digest_reset(@), Keyed(hm.keyblock, Opad))[2]]

\* A key longer than a block is replaced by its digest; zeros follow.
r_hmac_new(type, key) ==
  LET md == r_msg_digest_new(type)
      block == r_msg_digest_type_blocksize(type)
      k == IF Len(key) > block THEN r_msg_digest_get_data(r_msg_digest_update(md, key)[2], block) ELSE key
  IN  r_hmac_reset([inner |-> md, outer |-> md, keyblock |-> ZeroFill(k, block)])

r_hmac_size(hm) == r_msg_digest_type_size(hm.inner.type)

r_hmac_update(hm, data) ==
  LET u == r_msg_digest_update(hm.inner, data) IN <<u[1], [hm EXCEPT !.inner = u[2]]>>

\* <<the tag, <<>> when refused, and the state after it: the outer digest has
\* absorbed the inner one, the inner digest is not finished>>
r_hmac_get_data(hm, size) ==
  LET inner == r_msg_digest_get_data(hm.inner, size)
      u == r_msg_digest_update(hm.outer, inner)
  IN  IF inner = <<>> \/ ~u[1] THEN <<<<>>, hm>>
      ELSE <<r_msg_digest_get_data(u[2], Len(inner)), [hm EXCEPT !.outer = u[2]]>>

r_hmac_verify(hm, tag) ==
  LET n == r_hmac_size(hm)
      got == r_hmac_get_data(hm, n)[1]
  IN  n # 0 /\ Len(tag) <= n /\ got # <<>> /\ SubSeq(got, 1, Len(tag)) = tag

\* The tag of the concatenation of parts, each handed over on its own.
Mac(hm, parts, size) ==
  r_hmac_get_data(Fold(LAMBDA x, p : r_hmac_update(x, p)[2], r_hmac_reset(hm), parts), size)[1]

RECURSIVE PbkdfChain(_, _, _, _)
PbkdfChain(hm, u, t, n) ==
  IF n = 0 THEN t ELSE LET v == Mac(hm, <<u>>, MaxHash) IN PbkdfChain(hm, v, Xor(t, v), n - 1)

\* Blocks numbered from one until outlen bytes are there; <<>> when refused.
r_kdf_pbkdf2(prf, password, salt, iterations, outlen) ==
  LET hlen == r_msg_digest_type_size(prf)
      hm == r_hmac_new(prf, password)
      T(b) == LET u == Mac(hm, <<salt, I2OS(b, 4)>>, MaxHash) IN PbkdfChain(hm, u, u, iterations - 1)
      n == (outlen + hlen - 1) \div hlen
  IN  IF outlen = 0 \/ iterations = 0 \/ hlen = 0 \/ hlen > MaxHash THEN <<>>
      ELSE SubSeq(FlattenSeq([b \in 1 .. n |-> T(b)]), 1, outlen)

r_hkdf_extract(hash, salt, ikm) ==
  LET hlen == r_msg_digest_type_size(hash)
  IN  IF hlen = 0 \/ hlen > MaxHash THEN <<>>
      ELSE r_hmac_get_data(r_hmac_update(r_hmac_new(hash, salt), ikm)[2], hlen)[1]

RECURSIVE HkdfBlocks(_, _, _, _, _)
HkdfBlocks(hm, info, t, counter, need) ==
  IF need <= 0 THEN <<>>
  ELSE LET v == Mac(hm, <<t, info, <<counter>>>>, MaxHash)
       IN  v \o HkdfBlocks(hm, info, v, counter + 1, need - Len(v))
r_hkdf_expand(hash, prk, info, outlen) ==
  LET hlen == r_msg_digest_type_size(hash)
  IN  IF outlen = 0 \/ hlen = 0 \/ hlen > MaxHash \/ outlen > CounterMax * hlen THEN <<>>
      ELSE SubSeq(HkdfBlocks(r_hmac_new(hash, prk), info, <<>>, 1, outlen), 1, outlen)
=============================================================================
