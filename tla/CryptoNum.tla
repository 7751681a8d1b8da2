------------------------------ MODULE CryptoNum ------------------------------
(***************************************************************************)
(* What the public-key modules share: a buffer is a sequence of bytes of   *)
(* ByteBits bits, a multi-precision number is an integer (Mpint models     *)
(* that arithmetic), and the digest is a parameter.                        *)
(***************************************************************************)
EXTENDS Integers, Sequences, SequencesExt

CONSTANTS ByteBits,      \* bits of a byte (8)
          XorByte,       \* exclusive or of two bytes, a table indexed from 1
          HashLen,       \* size of a digest in bytes
          Hash(_)        \* the message digest, on byte sequences

OK == "OK"
Byte == 2 ^ ByteBits
FF == Byte - 1
\* A sequence as the list of its elements.
Listed(f) == SubSeq(f, 1, Len(f))
Rep(b, n) == Listed([i \in 1 .. n |-> b])

\* A left fold whose accumulator is computed before each step is taken.
Fold(op(_, _), base, s) ==
  LET acc[i \in 0 .. Len(s)] == IF i = 0 THEN base ELSE CHOOSE v \in {op(a, s[i]) : a \in {acc[i - 1]}} : TRUE
  IN  acc[Len(s)]

\* r_mpint_init_binary and r_mpint_to_binary_with_size, most significant first.
RECURSIVE OS2I(_)
OS2I(bs) == IF bs = <<>> THEN 0 ELSE OS2I(Front(bs)) * Byte + Last(bs)
I2OS(v, n) == Listed([i \in 1 .. n |-> (v \div Byte ^ (n - i)) % Byte])
\* The little-endian forms.
LE2I(bs) == OS2I(Reverse(bs))
I2LE(v, n) == Listed([i \in 1 .. n |-> (v \div Byte ^ (i - 1)) % Byte])

\* Exclusive or of numbers and of byte sequences.
RECURSIVE XorInt(_, _)
XorInt(a, b) == IF a < Byte /\ b < Byte THEN XorByte[a + 1][b + 1]
                ELSE XorInt(a \div Byte, b \div Byte) * Byte + XorByte[(a % Byte) + 1][(b % Byte) + 1]
Xor(x, y) == Listed([i \in DOMAIN x |-> XorByte[x[i] + 1][y[i] + 1]])
\* s without its first n elements; s with zeros behind it up to length n
Skip(s, n) == SubSeq(s, n + 1, Len(s))
ZeroFill(s, n) == Listed([i \in 1 .. n |-> IF i <= Len(s) THEN s[i] ELSE 0])
\* s cut into pieces of n
Pieces(s, n) == [i \in 1 .. Len(s) \div n |-> SubSeq(s, (i - 1) * n + 1, i * n)]

\* r_mpint_bits_used
Bits(v) == CHOOSE b \in 0 .. 30 : v < 2 ^ b /\ (b = 0 \/ v >= 2 ^ (b - 1))
Bytes(v) == (Bits(v) + ByteBits - 1) \div ByteBits

RECURSIVE ExpMod(_, _, _)
ExpMod(b, e, m) ==
  IF e = 0 THEN 1 % m
  ELSE LET h == ExpMod(b, e \div 2, m)
       IN  IF e % 2 = 0 THEN (h * h) % m ELSE (((h * h) % m) * b) % m

\* r_mpint_invmod: zero, and success, when there is no inverse.
InvMod(a, m) ==
  IF \E x \in 1 .. m - 1 : (a * x) % m = 1 THEN CHOOSE x \in 1 .. m - 1 : (a * x) % m = 1 ELSE 0

Coprime(a, b) == \A d \in 2 .. a : ~(a % d = 0 /\ b % d = 0)

\* A DER element: its tag and, inside, a number, bytes or a sequence of elements.
INTEGER(v) == [tag |-> "INTEGER", v |-> v]
SEQUENCE(s) == [tag |-> "SEQUENCE", v |-> s]
IsSeq(t, n) == t.tag = "SEQUENCE" /\ Len(t.v) >= n
IsInt(t) == t.tag = "INTEGER"

\* The first element of a sequence of draws that satisfies P, as <<d>>; <<>>
\* when the source of randomness runs out first.
FirstDraw(draws, P(_)) ==
  IF \E i \in DOMAIN draws : P(draws[i])
  THEN <<draws[CHOOSE i \in DOMAIN draws : P(draws[i]) /\ \A j \in 1 .. i - 1 : ~P(draws[j])]>>
  ELSE <<>>

\* The leftmost bits of a digest, at most as many as the order n has.
HashToInt(hash, n) ==
  LET use == IF Bits(n) < ByteBits * Len(hash) THEN Bits(n) ELSE ByteBits * Len(hash)
      bytes == (use + ByteBits - 1) \div ByteBits
  IN  OS2I(SubSeq(hash, 1, bytes)) \div 2 ^ (ByteBits * bytes - use)

\* A signature is a DER SEQUENCE of two INTEGERs and nothing behind them.
DecodeSig(sig) ==
  IF IsSeq(sig, 2) /\ Len(sig.v) = 2 /\ IsInt(sig.v[1]) /\ IsInt(sig.v[2]) /\ sig.v[1].v >= 0 /\ sig.v[2].v >= 0
  THEN <<sig.v[1].v, sig.v[2].v>> ELSE <<>>
=============================================================================
