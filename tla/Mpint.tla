------------------------------- MODULE Mpint --------------------------------
(***************************************************************************)
(* Multi-precision integers (rlib/data/rmpint.c).  An rmpint is the record *)
(* [sign, used, data]: data is the whole allocation, least significant     *)
(* digit first, and the digits at and past `used' may be stale.  A digit   *)
(* has W bits (32 in the library), an allocation is a multiple of          *)
(* RMPINT_DEF_DIGITS.  An operation takes the destination's old record and *)
(* returns its new one; `al' says which operand the destination aliases.   *)
(***************************************************************************)
EXTENDS Integers, Sequences, SequencesExt

CONSTANTS W,                  \* bits of an rmpint_digit
          RMPINT_DEF_DIGITS,  \* granularity of the allocation
          CombaSizes          \* operand sizes with the fixed-size multiply

B == 2 ^ W

Bigger(x, y) == IF x < y THEN y ELSE x
Smaller(x, y) == IF x < y THEN x ELSE y

\* A sequence as the list of its elements.
Listed(f) == SubSeq(f, 1, Len(f))
Idx(n) == IF n < 1 THEN <<>> ELSE Listed([i \in 1 .. n |-> i - 1])

\* F(v), v computed first; a left fold that computes its accumulator first.
Then(v, F(_)) == CHOOSE r \in {F(x) : x \in {v}} : TRUE
Fold(op(_, _), base, s) ==
  LET acc[i \in 0 .. Len(s)] == IF i = 0 THEN base ELSE Then(acc[i - 1], LAMBDA a : op(a, s[i]))
  IN  acc[Len(s)]

\* A carry chain over n digits: Word(i, c) is the double-width sum at digit i.
Ripple(n, Word(_, _)) ==
  Fold(LAMBDA s, i : LET w == Word(i, s.c)
                         IN  [d |-> Append(s.d, w % B), c |-> w \div B],
           [d |-> <<>>, c |-> 0], Idx(n))

\* Storing the digits ds at position p of an allocation.
Put(data, p, ds) ==
  Listed([i \in DOMAIN data |-> IF i - p \in DOMAIN ds THEN ds[i - p] ELSE data[i]])

Zeros(n) == IF n < 1 THEN <<>> ELSE Listed([i \in 1 .. n |-> 0])

r_mpint_init_size(n) ==
  [sign |-> 0, used |-> 0,
   data |-> Zeros(((Bigger(n, RMPINT_DEF_DIGITS) + RMPINT_DEF_DIGITS - 1) \div RMPINT_DEF_DIGITS)
                   * RMPINT_DEF_DIGITS)]

r_mpint_ensure_digits(m, n) ==
  LET a == ((n + RMPINT_DEF_DIGITS - 1) \div RMPINT_DEF_DIGITS) * RMPINT_DEF_DIGITS
  IN  IF a <= Len(m.data) THEN m
      ELSE [m EXCEPT !.data = Listed([i \in 1 .. a |-> IF i <= Smaller(m.used, Len(m.data)) THEN m.data[i] ELSE 0])]

r_mpint_get_digit(m, i) == IF i < m.used THEN m.data[i + 1] ELSE 0

r_mpint_clamp(m) ==
  LET live == {i \in 1 .. m.used : m.data[i] # 0}
      u == IF live = {} THEN 0 ELSE CHOOSE i \in live : \A j \in live : j <= i
  IN  [m EXCEPT !.used = u, !.sign = IF u > 0 THEN m.sign ELSE 0]

r_mpint_zero(m) == [sign |-> 0, used |-> 0, data |-> Zeros(Len(m.data))]

\* The new count is stored before the allocation grows, so the tail that is
\* already allocated keeps its old digits.
r_mpint_set(dst, b) ==
  LET m == r_mpint_ensure_digits([dst EXCEPT !.used = b.used, !.sign = b.sign], b.used)
  IN  [m EXCEPT !.data = Put(m.data, 0, SubSeq(b.data, 1, b.used))]

r_mpint_set_u32(m, v) ==
  [sign |-> 0, used |-> IF v # 0 THEN 1 ELSE 0,
   data |-> <<v>> \o Zeros(Len(m.data) - 1)]

r_mpint_set_u64(m, v) ==
  r_mpint_clamp([sign |-> 0, used |-> 2,
                 data |-> <<v % B, (v \div B) % B>> \o Zeros(Len(m.data) - 2)])

r_mpint_set_i64(m, v) ==
  IF v >= 0 THEN r_mpint_set_u64(m, v) ELSE [r_mpint_set_u64(m, -v) EXCEPT !.sign = 1]

r_mpint_iszero(m) == m.used = 0
r_mpint_iseven(m) == m.used > 0 /\ m.data[1] % 2 = 0
r_mpint_isodd(m) == m.used > 0 /\ m.data[1] % 2 = 1
r_mpint_isneg(m) == m.used > 0 /\ m.sign # 0

\* Bits of a digit below its leading zeros.
DigitBits(d) == CHOOSE k \in 0 .. W : d < 2 ^ k /\ (k = 0 \/ d >= 2 ^ (k - 1))

r_mpint_bits_used(m) ==
  IF m.used = 0 THEN 0 ELSE (m.used - 1) * W + DigitBits(m.data[m.used])

r_mpint_ctz(m) ==
  LET i == CHOOSE i \in 0 .. m.used : /\ \A j \in 0 .. i - 1 : r_mpint_get_digit(m, j) = 0
                                      /\ i < m.used => r_mpint_get_digit(m, i) # 0
      d == r_mpint_get_digit(m, i)
  IN  i * W + (CHOOSE k \in 0 .. W : d % 2 ^ k = 0 /\ (k = W \/ d % 2 ^ (k + 1) # 0))

Sgn(x) == IF x > 0 THEN 1 ELSE IF x < 0 THEN -1 ELSE 0

r_mpint_ucmp(a, b) ==
  IF a.used # b.used THEN Sgn(a.used - b.used)
  ELSE LET diff == {i \in 1 .. a.used : a.data[i] # b.data[i]}
           top == CHOOSE i \in diff : \A j \in diff : j <= i
       IN  IF diff = {} THEN 0 ELSE Sgn(a.data[top] - b.data[top])

\* Two negative numbers are compared by magnitude as well.
r_mpint_cmp(a, b) ==
  CASE r_mpint_isneg(a) /\ ~r_mpint_isneg(b) -> -1
    [] ~r_mpint_isneg(a) /\ r_mpint_isneg(b) -> 1
    [] OTHER -> r_mpint_ucmp(a, b)

\* The stack mpint of the *_u32 variants: one used digit, even for zero.
One32(v) == [sign |-> 0, used |-> 1, data |-> <<v>>]

r_mpint_cmp_i32(a, v) ==
  r_mpint_cmp(a, [sign |-> IF v < 0 THEN 1 ELSE 0, used |-> IF v = 0 THEN 0 ELSE 1,
                  data |-> <<IF v < 0 THEN -v ELSE v>>])

r_mpint_ucmp_u32(a, v) ==
  IF v = 0 THEN Sgn(a.used)
  ELSE IF a.used # 1 THEN Sgn(a.used - 1) ELSE Sgn(a.data[1] - v)

\* A fresh destination first takes the shorter operand, sign included.
r_mpint_add_unsigned(al, dst, a, b) ==
  LET d0 == r_mpint_ensure_digits(dst, Bigger(a.used, b.used) + 1)
      sw == CASE al = "a" -> <<d0, b>>
              [] al = "b" -> <<d0, a>>
              [] OTHER -> IF a.used >= b.used THEN <<r_mpint_set(d0, b), a>>
                                              ELSE <<r_mpint_set(d0, a), b>>
      d == sw[1]
      n == Bigger(d.used, sw[2].used)
      r == Ripple(n, LAMBDA i, c : c + r_mpint_get_digit(d, i) + r_mpint_get_digit(sw[2], i))
      ds == IF r.c > 0 THEN Append(r.d, r.c) ELSE r.d
  IN  [d EXCEPT !.used = Len(ds), !.data = ds \o Zeros(Len(d.data) - Len(ds))]

\* Requires |a| >= |b|; the borrow is a carry of -1.
r_mpint_sub_unsigned(dst, a, b) ==
  LET d == r_mpint_ensure_digits(dst, a.used + 1)
      r == Ripple(Bigger(a.used, b.used),
                  LAMBDA i, c : c + r_mpint_get_digit(a, i) - r_mpint_get_digit(b, i))
  IN  r_mpint_clamp([d EXCEPT !.used = Len(r.d), !.data = r.d \o Zeros(Len(d.data) - Len(r.d))])

r_mpint_add(al, dst, a, b) ==
  CASE a.sign = b.sign -> r_mpint_add_unsigned(al, dst, a, b)
    [] a.sign # b.sign /\ r_mpint_ucmp(a, b) < 0 ->
         r_mpint_sub_unsigned([dst EXCEPT !.sign = b.sign], b, a)
    [] OTHER -> r_mpint_sub_unsigned([dst EXCEPT !.sign = a.sign], a, b)

r_mpint_sub(al, dst, a, b) ==
  CASE a.sign # b.sign -> r_mpint_add_unsigned(al, [dst EXCEPT !.sign = a.sign], a, b)
    [] a.sign = b.sign /\ r_mpint_ucmp(a, b) > 0 ->
         r_mpint_sub_unsigned([dst EXCEPT !.sign = a.sign], a, b)
    [] OTHER -> r_mpint_sub_unsigned([dst EXCEPT !.sign = 1 - a.sign], b, a)

r_mpint_add_u32(al, dst, a, v) == r_mpint_add_unsigned(al, dst, a, One32(v))
r_mpint_sub_u32(al, dst, a, v) == r_mpint_sub(al, dst, a, One32(v))

r_mpint_add_i32(al, dst, a, v) ==
  IF v < 0 THEN r_mpint_sub_u32(al, dst, a, -v) ELSE r_mpint_add_u32(al, dst, a, v)

r_mpint_sub_i32(al, dst, a, v) ==
  IF v < 0 THEN r_mpint_add_u32(al, dst, a, -v) ELSE r_mpint_sub_u32(al, dst, a, v)

r_mpint_shl_digit(al, dst, a, d) ==
  IF a.used = 0 THEN IF al = "a" THEN dst ELSE r_mpint_zero(dst)
  ELSE LET m == r_mpint_ensure_digits(dst, a.used + d)
           w == IF al = "a" THEN m.data
                ELSE Put(m.data, Len(a.data), Zeros((Len(m.data) - Len(a.data)) \div 4))
       IN  [m EXCEPT !.used = a.used + d,
                     !.data = Put(Put(w, d, SubSeq(a.data, 1, a.used)), 0, Zeros(d))]

\* shl keeps the destination's sign: only set, add and mul assign it.
r_mpint_shl(al, dst, a, bits) ==
  LET d == bits \div W
      s == bits % W
      m == r_mpint_ensure_digits(dst, a.used + d + 1)
      r == Ripple(a.used, LAMBDA i, c : r_mpint_get_digit(a, i) * 2 ^ s + c)
  IN  CASE s = 0 -> r_mpint_shl_digit(al, dst, a, d)
        [] s # 0 /\ a.used = 0 -> IF al = "a" THEN dst ELSE r_mpint_zero(dst)
        [] OTHER -> r_mpint_clamp([m EXCEPT !.used = a.used + d + 1,
                                            !.data = Put(m.data, 0, Zeros(d) \o r.d \o <<r.c>>)])

\* The clearing memset counts bytes, not digits (as the one of shl_digit
\* does): it clears a quarter of the tail and leaves the rest stale.
r_mpint_shr_digit(al, dst, a, d) ==
  IF d >= a.used THEN r_mpint_zero(dst)
  ELSE LET m == r_mpint_ensure_digits(dst, a.used - d)
           n == a.used - d
       IN  [m EXCEPT !.used = n,
                     !.data = Put(Put(m.data, 0, SubSeq(a.data, d + 1, a.used)),
                                  n, Zeros((Len(m.data) - n) \div 4))]

\* A shift by W bits or more that is no multiple of W takes digits of a past
\* a.used into the result's top digit, and has no guard for d > a.used.
r_mpint_shr(al, dst, a, bits) ==
  LET d == bits \div W
      s == bits % W
      Raw(i) == IF i < Len(a.data) THEN a.data[i + 1] ELSE 0
      m == r_mpint_ensure_digits(dst, a.used - d)
      ds == [i \in 1 .. a.used |->
               (Raw(i - 1 + d) \div 2 ^ s)
               + (IF i < a.used THEN (Raw(i + d) * 2 ^ (W - s)) % B ELSE 0)]
  IN  CASE s = 0 -> r_mpint_shr_digit(al, dst, a, d)
        [] s # 0 /\ a.used = 0 -> IF al = "a" THEN dst ELSE r_mpint_zero(dst)
        [] OTHER -> r_mpint_clamp([m EXCEPT !.used = a.used - d, !.data = Put(m.data, 0, ds)])

\* Columns of the product: digits ix of the result sum a[tx + iz] * b[ty - iz].
Column(a, b, ix) ==
  LET ty == Smaller(ix, b.used - 1)
      tx == ix - ty
  IN  [z \in 1 .. Smaller(a.used - tx, ty + 1) |->
         r_mpint_get_digit(a, tx + z - 1) * r_mpint_get_digit(b, ty - z + 1)]

\* The word accumulator wraps at two digits; c counts the wraps.
MulLoop(a, b, used) ==
  Fold(LAMBDA s, ix :
             LET r == Fold(LAMBDA t, uv : [w |-> (t.w + uv) % (B * B),
                                               c |-> t.c + (IF (t.w + uv) % (B * B) < t.w THEN 1 ELSE 0)],
                               [w |-> s.acc, c |-> 0], Column(a, b, ix))
             IN  [d |-> Append(s.d, r.w % B), acc |-> r.c * B + r.w \div B],
           [d |-> <<>>, acc |-> 0], Idx(used)).d

\* The fixed-size variant: a three-digit accumulator per column.
r_mpint_mul_comba(a, b, n) ==
  Fold(LAMBDA s, k :
             LET lo == IF k + 1 > n THEN k + 1 - n ELSE 0
                 hi == IF k < n THEN k ELSE n - 1
                 c == Fold(LAMBDA t, i : (t + a.data[i + 1] * b.data[k - i + 1]) % B ^ 3,
                               s.c, [z \in 1 .. hi - lo + 1 |-> lo + z - 1])
             IN  [d |-> Append(s.d, c % B), c |-> c \div B],
           [d |-> <<>>, c |-> 0], Idx(2 * n)).d

r_mpint_mul(al, dst, a, b) ==
  LET used == a.used + b.used
      fresh == al \in {"a", "b"}
      out == IF fresh THEN r_mpint_init_size(used) ELSE r_mpint_ensure_digits(dst, used)
      ds == IF a.used = b.used /\ a.used \in CombaSizes
            THEN r_mpint_mul_comba(a, b, a.used) ELSE MulLoop(a, b, used)
      prod == r_mpint_clamp([sign |-> (a.sign + b.sign) % 2, used |-> used,
                             data |-> Put(out.data, 0, ds)])
  IN  IF fresh THEN r_mpint_set(dst, prod) ELSE prod

r_mpint_mul_u32(dst, a, v) ==
  LET d == r_mpint_ensure_digits(dst, a.used + 1)
      r == Ripple(a.used, LAMBDA i, c : c + r_mpint_get_digit(a, i) * v)
      ds == IF r.c > 0 THEN Append(r.d, r.c) ELSE r.d
  IN  [sign |-> a.sign, used |-> Len(ds), data |-> ds \o Zeros(Len(d.data) - Len(ds))]

\* Multiplying by zero leaves the copy of a.
r_mpint_mul_i32(al, dst, a, v) ==
  LET d == IF al = "a" THEN dst ELSE r_mpint_set(dst, a)
  IN  CASE v = 0 -> d
        [] v < 0 -> LET e == [d EXCEPT !.sign = IF d.sign = 0 THEN 1 ELSE 0] IN r_mpint_mul_u32(e, e, -v)
        [] OTHER -> r_mpint_mul_u32(d, d, v)

Fresh == r_mpint_init_size(0)

\* One quotient digit of HAC 14.20 step 3: estimate, correct, subtract, and
\* add back when the estimate was one too high.
DivDigit(s, y, i, tt) ==
  LET x == s.x
      top == IF r_mpint_get_digit(x, i) = r_mpint_get_digit(y, tt) THEN B - 1
             ELSE ((x.data[i + 1] * B + x.data[i]) \div y.data[tt + 1]) % B
      head == r_mpint_clamp([sign |-> 0, used |-> 3,
                data |-> <<IF i > 1 THEN x.data[i - 1] ELSE 0, x.data[i], x.data[i + 1]>>])
      two == [Fresh EXCEPT !.used = 2,
                !.data = Put(@, 0, <<IF tt > 0 THEN y.data[tt] ELSE 0, y.data[tt + 1]>>)]
      Fits(q) == r_mpint_ucmp(r_mpint_clamp(r_mpint_mul_u32(two, two, q)), head) <= 0
      qh == CHOOSE q \in 0 .. top : Fits(q) /\ \A k \in q + 1 .. top : ~Fits(k)
      t1 == r_mpint_mul_u32(Fresh, y, qh)
      sub == r_mpint_shl_digit("a", t1, t1, i - tt - 1)
      x1 == r_mpint_sub("a", x, x, sub)
      back == r_mpint_shl_digit("none", Fresh, y, i - tt - 1)
  IN  IF i > x.used THEN s
      ELSE IF x1.sign = 1
           THEN [x |-> r_mpint_add("a", x1, x1, back), q |-> [s.q EXCEPT ![i - tt] = qh - 1]]
           ELSE [x |-> x1, q |-> [s.q EXCEPT ![i - tt] = qh]]

\* Long division: [ok, q, r]; q and r are the destinations' old records.
r_mpint_div(q, r, n, d) ==
  LET cmp == r_mpint_ucmp(n, d)
      lead == r_mpint_bits_used(d) % W
      norm == IF lead < W - 1 THEN W - 1 - lead ELSE 0
      y == [(IF norm > 0 THEN r_mpint_shl("none", r_mpint_init_size(d.used * 3), d, norm)
                         ELSE r_mpint_set(r_mpint_init_size(d.used * 3), d)) EXCEPT !.sign = 0]
      x == [(IF norm > 0 THEN r_mpint_shl("a", n, n, norm) ELSE n) EXCEPT !.sign = 0]
      nn == x.used - 1
      tt == y.used - 1
      top == r_mpint_shl_digit("none", Fresh, y, nn - tt)
      k == CHOOSE k \in 0 .. B : \* subtractions of step 2
             LET left(j) == Fold(LAMBDA m, i : r_mpint_sub_unsigned(m, m, top), x, Idx(j))
             IN  r_mpint_ucmp(left(k), top) < 0 /\ \A j \in 0 .. k - 1 : r_mpint_ucmp(left(j), top) >= 0
      x0 == Fold(LAMBDA m, i : r_mpint_sub_unsigned(m, m, top), x, Idx(k))
      end == Fold(LAMBDA s, j : DivDigit(s, y, nn - j, tt),
                      [x |-> x0, q |-> Zeros(nn - tt) \o <<k>>], Idx(nn - tt))
      qd == r_mpint_ensure_digits(q, nn - tt + 1)
      rem == r_mpint_clamp(end.x)
  IN  CASE r_mpint_iszero(d) -> [ok |-> FALSE, q |-> q, r |-> r]
        [] ~r_mpint_iszero(d) /\ cmp < 0 ->
             [ok |-> TRUE, q |-> r_mpint_zero(q), r |-> r_mpint_set(r, n)]
        [] ~r_mpint_iszero(d) /\ cmp = 0 ->
             [ok |-> TRUE, q |-> r_mpint_set_u32(q, 1), r |-> r_mpint_zero(r)]
        [] OTHER ->
             [ok |-> TRUE,
              q |-> r_mpint_clamp([sign |-> (n.sign + d.sign) % 2, used |-> nn - tt + 1,
                                   data |-> Put(qd.data, 0, end.q)]),
              r |-> [r_mpint_shr("none", r, rem, norm) EXCEPT !.sign = n.sign]]

r_mpint_div_u32(q, r, n, v) ==
  IF v = 0 THEN [ok |-> FALSE, q |-> q, r |-> r] ELSE r_mpint_div(q, r, n, One32(v))

r_mpint_div_i32(q, r, n, v) ==
  IF v = 0 THEN [ok |-> FALSE, q |-> q, r |-> r]
  ELSE r_mpint_div(q, r, n, [One32(IF v < 0 THEN -v ELSE v) EXCEPT !.sign = IF v < 0 THEN 1 ELSE 0])

r_mpint_mod(n, d) == r_mpint_div(Fresh, Fresh, n, d).r
r_mpint_mulmod(a, b, d) == r_mpint_mod(r_mpint_mul("none", Fresh, a, b), d)

r_mpint_exp(dst, b, e) ==
  LET bits == r_mpint_bits_used(r_mpint_set_u64(Fresh, e))
      s == Fold(LAMBDA t, j :
                      [d |-> IF (e \div 2 ^ j) % 2 = 1 THEN r_mpint_mul("b", t.d, t.s, t.d) ELSE t.d,
                       s |-> r_mpint_mul("a", t.s, t.s, t.s)],
                    [d |-> r_mpint_set_u32(dst, 1), s |-> b], Idx(bits - 1))
  IN  IF e = 0 THEN r_mpint_set_u32(dst, 1) ELSE r_mpint_mul("a", s.d, s.d, s.s)

-----------------------------------------------------------------------------
(***************************************************************************)
(* Modular arithmetic on multi-precision integers: Montgomery reduction    *)
(* (rlib/data/rmpint_montgomery.c), exponentiation, inverses, gcd and the  *)
(* primality tests (rlib/data/rmpint.c), and the fixed-width field         *)
(* elements of rmpint_fe_template.h and rmpint_fe_big_expmod.c, which are  *)
(* n-digit sequences.  The library's window of 4 bits is WindowBits.       *)
(***************************************************************************)
CONSTANTS WindowBits,      \* R_MPINT_EXPMOD_CT_WINDOW_BITS
          r_mpint_primes   \* the table of the first primes, as a sequence

\* -m^-1 modulo the digit base, by three Newton steps; "even" when m is not odd.
r_mpint_montgomery_setup(m) ==
  LET b == r_mpint_get_digit(m, 0)
      x0 == (((b + 2) \div 4) % 2) * 8 + b
      N(x) == (x * (2 - b * x)) % B
  IN  IF r_mpint_isodd(m) THEN (B - N(N(N(x0 % B)))) % B ELSE -1

\* Adding mu * m at digit x, carry rippled to the end of the accumulator.
MontRow(c, m, mp, x) ==
  LET mu == (c[x + 1] * mp) % B
      r == Ripple(Len(c) - x, LAMBDA i, k : c[x + i + 1] + k + mu * r_mpint_get_digit(m, i))
  IN  SubSeq(c, 1, x) \o r.d

MontRows(a, m, mp) ==
  LET n == m.used
      c0 == Listed([i \in 1 .. 2 * n + 1 |-> r_mpint_get_digit(a, i - 1)])
  IN  Fold(LAMBDA c, x : MontRow(c, m, mp, x), c0, Idx(n))

r_mpint_montgomery_reduce(a, m, mp) ==
  LET n == m.used
      c == r_mpint_clamp([sign |-> a.sign, used |-> 2 * n + 1,
                          data |-> Put(r_mpint_init_size(2 * n + 1).data, 0, MontRows(a, m, mp))])
      r == r_mpint_shr_digit("none", a, c, n)
  IN  IF r_mpint_ucmp(r, m) >= 0 THEN r_mpint_sub_unsigned(r, r, m) ELSE r

\* The constant-time variant subtracts m over n + 1 digits and selects.
r_mpint_montgomery_reduce_ct_into(a, m, mp) ==
  LET n == m.used
      v == SubSeq(MontRows(a, m, mp), n + 1, 2 * n + 1)
      s == Ripple(n + 1, LAMBDA i, k : v[i + 1] + k - r_mpint_get_digit(m, i))
      e == r_mpint_ensure_digits(a, n + 1)
      pick == IF s.c = 0 THEN s.d ELSE v
  IN  r_mpint_clamp([sign |-> 0, used |-> n + 1, data |-> pick \o Zeros(Len(e.data) - (n + 1))])

\* R mod m, R the digit base to the power of m's digits.
r_mpint_montgomery_normalize(m) ==
  LET bits == r_mpint_bits_used(m)
      many == m.used > 1
      one == r_mpint_set_u32(Fresh, 1)
      a0 == IF many THEN r_mpint_shl("a", one, one, bits - 1) ELSE one
      from == IF many THEN (IF bits % W = 0 THEN W ELSE bits % W) - 1 ELSE 0
      Double(a) == LET t == r_mpint_shl("a", a, a, 1)
                   IN  IF r_mpint_ucmp(t, m) >= 0 THEN r_mpint_sub_unsigned(t, t, m) ELSE t
  IN  Fold(LAMBDA a, i : Double(a), a0, Idx(W - from))

Bit(e, i) == (r_mpint_get_digit(e, i \div W) \div 2 ^ (i % W)) % 2

ToMont(b, m) ==
  LET base == IF r_mpint_ucmp(b, m) > 0 THEN r_mpint_mod(b, m) ELSE b
  IN  r_mpint_mulmod(base, r_mpint_montgomery_normalize(m), m)

\* Montgomery ladder over all bits of e's digits.
r_mpint_expmod(dst, b, e, m) ==
  LET mp == r_mpint_montgomery_setup(m)
      Step(R, i) ==
        LET bit == Bit(e, i)
            p == r_mpint_montgomery_reduce(r_mpint_mul("none", Fresh, R[1], R[2]), m, mp)
            own == R[bit + 1]
            q == r_mpint_montgomery_reduce(r_mpint_mul("a", own, own, own), m, mp)
        IN  IF bit = 0 THEN <<q, p>> ELSE <<p, q>>
      end == Fold(LAMBDA R, j : Step(R, e.used * W - 1 - j),
                      <<r_mpint_montgomery_normalize(m), ToMont(b, m)>>, Idx(e.used * W))
  IN  IF mp = -1 THEN [ok |-> FALSE, v |-> dst]
      ELSE [ok |-> TRUE, v |-> r_mpint_set(dst, r_mpint_montgomery_reduce(end[1], m, mp))]

r_mpint_ct_pad_dig_used(a, n) ==
  [sign |-> 0, used |-> n,
   data |-> Listed([i \in DOMAIN a.data |-> IF i <= a.used THEN a.data[i] ELSE IF i <= n THEN 0 ELSE a.data[i]])]

\* table[idx] by masking: every entry is read, one survives the mask.
r_mpint_ct_table_select(dst, table, idx, n) ==
  [sign |-> 0, used |-> n,
   data |-> Listed([d \in DOMAIN dst.data |-> IF d <= n THEN table[idx + 1].data[d] ELSE 0])]

\* Bits [i - WindowBits, i) of the exponent.
Window(e, i) == Fold(LAMBDA w, j : 2 * w + Bit(e, i - 1 - j), 0, Idx(WindowBits))

Windows(exp_bits) == (exp_bits + WindowBits - 1) \div WindowBits

r_mpint_expmod_ct_with_mp(dst, b, e, m, mp, exp_bits) ==
  LET n == m.used
      Mul(x, y) == Then(Then(r_mpint_mul("none", r_mpint_init_size(n + 1), x, y),
                             LAMBDA v : r_mpint_montgomery_reduce_ct_into(v, m, mp)),
                        LAMBDA v : r_mpint_ct_pad_dig_used(r_mpint_ensure_digits(v, n + 1), n))
      t0 == r_mpint_ct_pad_dig_used(r_mpint_montgomery_normalize(m), n)
      t1 == r_mpint_ct_pad_dig_used(ToMont(b, m), n)
      table == Fold(LAMBDA t, w : Append(t, Mul(t[Len(t)], t1)), <<t0, t1>>,
                        Idx(2 ^ WindowBits - 2))
      Pick(i) == r_mpint_ct_table_select(r_mpint_init_size(n + 1), table, Window(e, i), n)
      Step(r, i) == Fold(LAMBDA x, j : Mul(x, IF j < WindowBits THEN x ELSE Pick(i)), r, Idx(WindowBits + 1))
      end == Fold(LAMBDA r, k : Step(r, (Windows(exp_bits) - k) * WindowBits), table[1],
                      Idx(Windows(exp_bits)))
  IN  IF n = 0 THEN [ok |-> FALSE, v |-> dst]
      ELSE [ok |-> TRUE, v |-> Then(end, LAMBDA x : r_mpint_set(dst, r_mpint_montgomery_reduce_ct_into(x, m, mp)))]

r_mpint_expmod_ct(dst, b, e, m, exp_bits) ==
  LET mp == r_mpint_montgomery_setup(m)
  IN  IF mp = -1 THEN [ok |-> FALSE, v |-> dst]
      ELSE r_mpint_expmod_ct_with_mp(dst, b, e, m, mp, exp_bits)

Sub(a, b) == r_mpint_sub("a", a, a, b)
Add(a, b) == r_mpint_add("a", a, a, b)
Half(a) == r_mpint_shr("a", a, a, 1)

\* Halving an even z; the Bezout pair k follows, made even first by the
\* originals (x, y) when one of its members is odd.
RECURSIVE Halve(_, _, _)
Halve(s, x, y) ==
  LET o == r_mpint_isodd(s.k[1]) \/ r_mpint_isodd(s.k[2])
  IN  IF ~r_mpint_iseven(s.z) THEN s
      ELSE Halve([z |-> Half(s.z), k |-> <<Half(IF o THEN Add(s.k[1], y) ELSE s.k[1]),
                                           Half(IF o THEN Sub(s.k[2], x) ELSE s.k[2])>>], x, y)

\* Binary extended gcd of u and v with their Bezout pairs, until u.z is zero.
RECURSIVE r_mpint_gcd_internal(_, _, _, _)
r_mpint_gcd_internal(u0, v0, x, y) ==
  LET u == Halve(u0, x, y)
      v == Halve(v0, x, y)
      Less(p, q) == [z |-> Sub(p.z, q.z), k |-> <<Sub(p.k[1], q.k[1]), Sub(p.k[2], q.k[2])>>]
  IN  IF r_mpint_ucmp(u.z, v.z) < 0 THEN r_mpint_gcd_internal(u, Less(v, u), x, y)
      ELSE IF r_mpint_iszero(Less(u, v).z) THEN v
      ELSE r_mpint_gcd_internal(Less(u, v), v, x, y)

One == r_mpint_set_u32(Fresh, 1)

Bezout(u, v) ==
  r_mpint_gcd_internal([z |-> u, k |-> <<One, Fresh>>], [z |-> v, k |-> <<Fresh, One>>], u, v)

IsOne(v) == v.used = 1 /\ r_mpint_get_digit(v, 0) = 1

RECURSIVE AddUntilPositive(_, _)
AddUntilPositive(c, m) == IF c.sign # 0 THEN AddUntilPositive(Add(c, m), m) ELSE c

RECURSIVE SubUntilAtMost(_, _)
SubUntilAtMost(c, m) == IF r_mpint_ucmp(c, m) > 0 THEN SubUntilAtMost(Sub(c, m), m) ELSE c

r_mpint_invmod_even(dst, a, m) ==
  LET u == r_mpint_mod(a, m)
      g == Bezout(u, m)
  IN  IF r_mpint_iseven(a) \/ r_mpint_iseven(u) \/ ~IsOne(g.z) THEN r_mpint_zero(dst)
      ELSE r_mpint_set(dst, SubUntilAtMost(AddUntilPositive(g.k[1], m), m))

RECURSIVE HalveOdd(_, _)
HalveOdd(s, m) ==
  IF ~r_mpint_iseven(s.z) THEN s
  ELSE HalveOdd([z |-> Half(s.z), k |-> Half(IF r_mpint_isodd(s.k) THEN Sub(s.k, m) ELSE s.k)], m)

\* One coefficient is enough for an odd modulus.  Does not end for a = 0.
RECURSIVE InvRounds(_, _, _)
InvRounds(u0, v0, m) ==
  LET u == HalveOdd(u0, m)
      v == HalveOdd(v0, m)
      Less(p, q) == [z |-> Sub(p.z, q.z), k |-> Sub(p.k, q.k)]
  IN  IF r_mpint_ucmp(u.z, v.z) < 0 THEN InvRounds(u, Less(v, u), m)
      ELSE IF r_mpint_iszero(Less(u, v).z) THEN v ELSE InvRounds(Less(u, v), v, m)

r_mpint_invmod_odd(dst, a, m) ==
  LET v == InvRounds([z |-> m, k |-> Fresh], [z |-> [a EXCEPT !.sign = 0], k |-> One], m)
  IN  IF ~IsOne(v.z) THEN r_mpint_zero(dst)
      ELSE [r_mpint_set(dst, AddUntilPositive(v.k, m)) EXCEPT !.sign = a.sign]

r_mpint_invmod(dst, a, m) ==
  IF m.sign # 0 \/ r_mpint_iszero(m) THEN [ok |-> FALSE, v |-> dst]
  ELSE [ok |-> TRUE, v |-> IF r_mpint_isodd(m) THEN r_mpint_invmod_odd(dst, a, m)
                                               ELSE r_mpint_invmod_even(dst, a, m)]

RECURSIVE CommonTwos(_)
CommonTwos(s) ==
  IF r_mpint_iseven(s.u) /\ r_mpint_iseven(s.v)
  THEN CommonTwos([u |-> Half(s.u), v |-> Half(s.v), g |-> r_mpint_shl("a", s.g, s.g, 1)]) ELSE s

r_mpint_gcd(dst, x, y) ==
  LET s == CommonTwos([u |-> x, v |-> y, g |-> One])
  IN  CASE r_mpint_iszero(x) /\ r_mpint_iszero(y) -> r_mpint_zero(dst)
        [] r_mpint_iszero(x) /\ ~r_mpint_iszero(y) -> [r_mpint_set(dst, y) EXCEPT !.sign = 0]
        [] ~r_mpint_iszero(x) /\ r_mpint_iszero(y) -> [r_mpint_set(dst, x) EXCEPT !.sign = 0]
        [] OTHER -> r_mpint_mul("none", dst, s.g, Bezout(s.u, s.v).z)

r_mpint_lcm(dst, a, b) ==
  LET p == r_mpint_mul("none", dst, a, b)
  IN  r_mpint_div(p, Fresh, p, r_mpint_gcd(Fresh, a, b)).q

NON_PRIME == 0
CERTAIN_PRIME == 1
POSSIBLE_PRIME == 2
PRIME_ERROR == -1

\* Squaring y at most s - 1 times while it is neither 1 nor n - 1.
Squares(n, n1, y0, s) ==
  Fold(LAMBDA t, j : IF t.one \/ r_mpint_cmp(t.y, n1) = 0 THEN t
                         ELSE LET z == r_mpint_mulmod(t.y, t.y, n)
                              IN  [y |-> z, one |-> r_mpint_ucmp_u32(z, 1) = 0],
           [y |-> y0, one |-> FALSE], Idx(s - 1))

r_mpint_prime_miller_rabin(n, a) ==
  LET n1 == r_mpint_sub_u32("a", n, n, 1)
      s == r_mpint_ctz(n1)
      e == r_mpint_expmod(Fresh, a, r_mpint_shr("a", n1, n1, s), n)
      sq == Squares(n, n1, e.v, s)
  IN  CASE ~e.ok -> PRIME_ERROR
        [] e.ok /\ (r_mpint_cmp(e.v, n1) = 0 \/ r_mpint_ucmp_u32(e.v, 1) = 0) -> CERTAIN_PRIME
        [] OTHER -> IF sq.one \/ r_mpint_cmp(sq.y, n1) # 0 THEN NON_PRIME ELSE POSSIBLE_PRIME

\* One round with the random bytes `draw': shortened to n - 1's bits, made odd
\* with bit 1 set, halved when it is not below n - 1.
MrWitness(n1, draw) ==
  LET bits == r_mpint_bits_used(n1)
      ab == r_mpint_bits_used(draw)
      a0 == IF ab > bits THEN r_mpint_shr("a", draw, draw, ab - bits) ELSE draw
      a1 == [a0 EXCEPT !.used = IF @ = 0 THEN 1 ELSE @,
                       !.data[1] = (@ \div 4) * 4 + 3]
  IN  IF r_mpint_cmp(a1, n1) >= 0 THEN r_mpint_shr("a", a1, a1, 1) ELSE a1

r_mpint_prime_miller_rabin_full(n, draws) ==
  LET n1 == r_mpint_sub_u32("a", n, n, 1)
      s == r_mpint_ctz(n1)
      r == r_mpint_shr("a", n1, n1, s)
      Round(draw) ==
        LET e == r_mpint_expmod(Fresh, MrWitness(n1, draw), r, n)
            sq == Squares(n, n1, e.v, s)
        IN  CASE ~e.ok -> PRIME_ERROR
              [] e.ok /\ (r_mpint_cmp(e.v, n1) = 0 \/ r_mpint_ucmp_u32(e.v, 1) = 0) -> POSSIBLE_PRIME
              [] OTHER -> IF sq.one \/ r_mpint_cmp(sq.y, n1) # 0 THEN NON_PRIME ELSE POSSIBLE_PRIME
  IN  Fold(LAMBDA t, d : IF t = POSSIBLE_PRIME THEN Round(d) ELSE t, POSSIBLE_PRIME, draws)

\* Binary search in r_mpint_primes between the indices l and h.
RECURSIVE InTable(_, _, _)
InTable(mpi, l, h) ==
  LET i == l + (h - l) \div 2
      c == r_mpint_ucmp_u32(mpi, r_mpint_primes[i + 1])
      l1 == IF c > 0 THEN i + 1 ELSE l
      h1 == IF c < 0 THEN i - 1 ELSE h
  IN  CASE c = 0 -> TRUE
        [] c # 0 /\ l1 < h1 -> InTable(mpi, l1, h1)
        [] OTHER -> l1 = h1 /\ r_mpint_ucmp_u32(mpi, r_mpint_primes[h1 + 1]) = 0

\* Up to the last table entry the table decides; then trial division, then t
\* rounds with the table's primes as bases.
r_mpint_isprime_t(mpi, t) ==
  LET N == Len(r_mpint_primes)
      Cmp(i) == r_mpint_ucmp_u32(mpi, r_mpint_primes[i])
      divided == \E i \in 1 .. N : r_mpint_iszero(r_mpint_div_u32(Fresh, Fresh, mpi, r_mpint_primes[i]).r)
      rounds == Fold(LAMBDA r, i : IF r = POSSIBLE_PRIME
                                       THEN r_mpint_prime_miller_rabin(mpi, One32(r_mpint_primes[i + 1]))
                                       ELSE r,
                         POSSIBLE_PRIME, Idx(Smaller(t, N)))
  IN  CASE Cmp(1) < 0 -> NON_PRIME
        [] Cmp(1) >= 0 /\ Cmp(N) <= 0 -> IF InTable(mpi, 0, N) THEN CERTAIN_PRIME ELSE NON_PRIME
        [] OTHER -> IF divided THEN NON_PRIME ELSE rounds

PrimeTests(m, draws) ==
  IF r_mpint_isprime_t(m, 0) > NON_PRIME THEN r_mpint_prime_miller_rabin_full(m, draws)
  ELSE r_mpint_isprime_t(m, 0)

\* The search: candidates step by 2, or by 12 for a safe prime with its half y.
RECURSIVE PrimeSearch(_, _, _, _)
PrimeSearch(m, y, safe, draws) ==
  LET t == PrimeTests(m, draws)
      t2 == IF t > NON_PRIME /\ safe THEN PrimeTests(y, draws) ELSE t
  IN  IF t2 # NON_PRIME THEN [ok |-> t2 > NON_PRIME, v |-> m]
      ELSE IF safe THEN PrimeSearch(r_mpint_add_i32("a", m, m, 12), r_mpint_add_i32("a", y, y, 6), safe, draws)
      ELSE PrimeSearch(r_mpint_add_u32("a", m, m, 2), y, safe, draws)

\* The random start has its top bit and its low bit (two low bits for a safe
\* prime) set; a safe start is moved to 2 modulo 3.
r_mpint_gen_prime_full(start, safe, draws) ==
  LET r3 == r_mpint_div_i32(Fresh, Fresh, start, 3).r
      s0 == CASE ~safe -> start
              [] safe /\ r_mpint_iszero(r3) -> r_mpint_add_i32("a", start, start, 8)
              [] safe /\ ~r_mpint_iszero(r3) /\ r_mpint_cmp_i32(r3, 1) # 0 ->
                   r_mpint_add_i32("a", start, start, 4)
              [] OTHER -> start
  IN  PrimeSearch(s0, Half(s0), safe, draws)

(***************************************************************************)
(* Field elements: n digits, every loop over exactly n digits.             *)
(***************************************************************************)
fe_from_mpint(m, n) == Listed([i \in 1 .. n |-> r_mpint_get_digit(m, i - 1)])

fe_to_mpint(m, fe) ==
  LET e == r_mpint_ensure_digits(m, Len(fe))
  IN  r_mpint_clamp([sign |-> 0, used |-> Len(fe), data |-> fe \o Zeros(Len(e.data) - Len(fe))])

fe_compute_r_squared(m) ==
  LET one == r_mpint_set_u32(Fresh, 1)
  IN  fe_from_mpint(r_mpint_mod(r_mpint_shl("a", one, one, 2 * W * m.used), m), m.used)

fe_mont_ctx_init(m) == [mp |-> r_mpint_montgomery_setup(m), p |-> fe_from_mpint(m, m.used)]

\* t, an n- or (n + 1)-digit value below 2p, reduced by one masked subtraction.
CondSub(t, p) ==
  LET n == Len(p)
      s == Ripple(Len(t), LAMBDA i, c : t[i + 1] + c - (IF i < n THEN p[i + 1] ELSE 0))
  IN  SubSeq(IF s.c = 0 THEN s.d ELSE t, 1, n)

\* Mutant of fe_add: the carry out of the top digit is dropped.
fe_add_no_carry(a, b, ctx) == CondSub(Ripple(Len(ctx.p), LAMBDA i, c : a[i + 1] + b[i + 1] + c).d, ctx.p)
fe_add(a, b, ctx) ==
  LET t == Ripple(Len(ctx.p), LAMBDA i, c : a[i + 1] + b[i + 1] + c)
  IN  CondSub(Append(t.d, t.c), ctx.p)

fe_sub(a, b, ctx) ==
  LET n == Len(ctx.p)
      t == Ripple(n, LAMBDA i, c : a[i + 1] - b[i + 1] + c)
  IN  IF t.c = 0 THEN t.d ELSE Ripple(n, LAMBDA i, c : t.d[i + 1] + ctx.p[i + 1] + c).d

fe_mod_ct(a, ctx) == CondSub(a, ctx.p)

\* CIOS: per digit of b, T += a * b[i], T += mu * p, drop T's zero low digit.
fe_mul_mont(a, b, ctx) ==
  LET n == Len(a)
      AddRow(T, row, k) ==
        LET r == Ripple(n, LAMBDA i, c : T[i + 1] + row[i + 1] * k + c)
            u == T[n + 1] + r.c
        IN  r.d \o <<u % B, (T[n + 2] + u \div B) % B>>
      Step(T, bi) ==
        LET t1 == AddRow(T, a, bi)
            t2 == AddRow(t1, ctx.p, (t1[1] * ctx.mp) % B)
        IN  Append(Tail(t2), 0)
      end == Fold(Step, Zeros(n + 2), b)
  IN  CondSub(SubSeq(end, 1, n + 1), ctx.p)

FeOne(n) == <<1>> \o Zeros(n - 1)
fe_mont_in(a, rr, ctx) == fe_mul_mont(a, rr, ctx)
fe_mont_out(a, ctx) == fe_mul_mont(a, FeOne(Len(ctx.p)), ctx)

\* The swap-wrapped ladder: R[bit] is squared, R[1 - bit] takes the product.
fe_invmod_mont(a_M, e, bits, rr, ctx) ==
  LET n == Len(ctx.p)
      FeBit(i) == (e[i \div W + 1] \div 2 ^ (i % W)) % 2
      Swap(R, bit) == IF bit = 1 THEN <<R[2], R[1]>> ELSE R
      Step(R, i) == LET S == Swap(R, FeBit(i))
                    IN  Swap(<<fe_mul_mont(S[1], S[1], ctx), fe_mul_mont(S[1], S[2], ctx)>>, FeBit(i))
  IN  Fold(LAMBDA R, j : Step(R, bits - 1 - j), <<fe_mont_in(FeOne(n), rr, ctx), a_M>>, Idx(bits))[1]

\* Wide schoolbook product and sum, in the full width fe_max.
fe_mul_ct(a, b, fe_max) ==
  Fold(LAMBDA out, i :
             LET r == Ripple(Len(b), LAMBDA j, c : a[i + 1] * b[j + 1] + out[i + j + 1] + c)
             IN  Put(out, i, r.d \o (IF i + Len(b) < fe_max THEN <<r.c>> ELSE <<>>)),
           Zeros(fe_max), Idx(Len(a)))

fe_add_ct(a, b, fe_max) ==
  LET n == Bigger(Len(a), Len(b))
      D(x, i) == IF i < Len(x) THEN x[i + 1] ELSE 0
      r == Ripple(n, LAMBDA i, c : D(a, i) + D(b, i) + c)
  IN  Put(Zeros(fe_max), 0, r.d \o (IF n < fe_max THEN <<r.c>> ELSE <<>>))

r_mpint_fe_big_expmod_ct(dst, base, e, m, exp_bits) ==
  LET n == m.used
      ctx == fe_mont_ctx_init(m)
      rr == fe_compute_r_squared(m)
      red == IF r_mpint_ucmp(base, m) > 0 THEN r_mpint_mod(base, m) ELSE base
      t0 == fe_mont_in(FeOne(n), rr, ctx)
      t1 == fe_mont_in(fe_from_mpint(red, n), rr, ctx)
      table == Fold(LAMBDA t, w : Append(t, fe_mul_mont(t[Len(t)], t1, ctx)), <<t0, t1>>,
                        Idx(2 ^ WindowBits - 2))
      Step(r, i) == Fold(LAMBDA x, j : fe_mul_mont(x, IF j < WindowBits THEN x ELSE table[Window(e, i) + 1], ctx),
                         r, Idx(WindowBits + 1))
      end == Fold(LAMBDA r, k : Step(r, (Windows(exp_bits) - k) * WindowBits), table[1],
                      Idx(Windows(exp_bits)))
  IN  Then(end, LAMBDA x : fe_to_mpint(dst, fe_mont_out(x, ctx)))
=============================================================================
