------------------------------ MODULE Montgomery ------------------------------
(***************************************************************************)
(* class FpGeneric of src/lib/algebra/fp_generic.h: arithmetic modulo an   *)
(* odd prime in Montgomery form, on words ("limbs") of a small base, with  *)
(* the reduction steps of fp.h and of the special primes.                  *)
(*                                                                         *)
(* An array of limbs is the number it spells, least limb first.  A chain   *)
(* of additions with carry is an addition in a window of the array, whose  *)
(* carry out is lost; a limb that was never written has any value.         *)
(***************************************************************************)
EXTENDS Integers, Sequences

VARIABLE F    \* the members that the constructor fills

Limbs(a, i, n) == (a \div (F.B ^ i)) % (F.B ^ n)
With(a, i, n, v) == a + ((v - Limbs(a, i, n)) * (F.B ^ i))

(* a[i .. i + n) += b, a[i .. i + n) -= b *)
accum(n, a, i, b) == With(a, i, n, (Limbs(a, i, n) + b) % (F.B ^ n))
negaccum(n, a, i, b) == With(a, i, n, (Limbs(a, i, n) + ((F.B ^ n) - b)) % (F.B ^ n))

(* The low and the high words of the products of x by the limbs of y *)
Words(y, n, word(_)) ==
  LET s[i \in 0..n] == IF i = 0 THEN 0 ELSE s[i - 1] + (word(Limbs(y, i - 1, 1)) * (F.B ^ (i - 1)))
  IN  s[n]
mulLow(n, x, y) == Words(y, n, LAMBDA d : (x * d) % F.B)
mulHigh(n, x, y) == Words(y, n, LAMBDA d : (x * d) \div F.B)

(* a += r m for the r that clears limb i; the prime decides how *)
Shifted(r, z) == <<(r * (2 ^ z)) % F.B, (r * (2 ^ z)) \div F.B>>

(* mutant: the carry out of the low words stops one limb early *)
stepGenericShort(a, i) ==
  LET r == (F.mprime * Limbs(a, i, 1)) % F.B
  IN  IF F.k = 1
      THEN accum(3, a, i, r * F.m)
      ELSE accum(F.k + 1, accum(F.k, a, i, mulLow(F.k, r, F.m)), i + 1, mulHigh(F.k, r, F.m))

stepGeneric(a, i) ==
  LET r == (F.mprime * Limbs(a, i, 1)) % F.B
  IN  IF F.k = 1
      THEN accum(3, a, i, r * F.m)
      ELSE accum(F.k + 1, accum(F.k + 2, a, i, mulLow(F.k, r, F.m)), i + 1, mulHigh(F.k, r, F.m))

(* m = B^4 - B^3 sqrt(B) + B^3 + B sqrt(B) - 1 *)
step256(a, i) ==
  LET r == Limbs(a, i, 1)
      s == Shifted(r, F.half)
      l == r + (s[1] * (F.B ^ 3)) + (s[2] * (F.B ^ 4))
      h == s[1] + (s[2] * F.B) + (r * (F.B ^ 2)) + (r * (F.B ^ 3))
  IN  accum(5, negaccum(6, a, i, l), i + 1, h)

(* m = B^2 - 2^z B + 1 *)
step128(a, i) ==
  LET r == (F.B - Limbs(a, i, 1)) % F.B
      s == Shifted(r, F.z)
  IN  negaccum(3, accum(4, a, i, r + (r * (F.B ^ 2))), i + 1, s[1] + (s[2] * F.B))

(* m = B^k - S with S in one limb *)
step256k1(a, i) ==
  LET u == (Limbs(a, i, 1) * F.mprime) % F.B
  IN  accum(2, negaccum(F.k + 2, a, i, u * F.z), i + F.k, u)

(* m = B^6 - B^2 - B sqrt(B) + sqrt(B) - 1 *)
step384(a, i) ==
  LET r == (((2 ^ F.half) + 1) * Limbs(a, i, 1)) % F.B
      s == Shifted(r, F.half)
      h == s[1] + (s[2] * F.B) + (r * (F.B ^ 6))
      l == r + (s[1] * F.B) + ((s[2] + r) * (F.B ^ 2))
  IN  negaccum(8, accum(8, a, i, h), i, l)

(* m = 2^z B^(k - 1) - 1 *)
step521(a, i) ==
  LET r == Limbs(a, i, 1)
      s == Shifted(r, F.z)
  IN  negaccum(F.k + 2, accum(3, a, i + F.k - 1, s[1] + (s[2] * F.B)), i, r)

reduction_step(a, i) ==
  CASE F.kind = "generic" -> stepGeneric(a, i)
    [] F.kind = "p256" -> step256(a, i)
    [] F.kind = "p128" -> step128(a, i)
    [] F.kind = "p256k1" -> step256k1(a, i)
    [] F.kind = "p384" -> step384(a, i)
    [] F.kind = "p521" -> step521(a, i)

-----------------------------------------------------------------------------
R == F.B ^ F.k

(* a with carry ah, less m if that is not negative: adding -m carries then, *)
(* and must not if a carry is there already.                                *)
maybe_minus_m(a, ah) ==
  LET ah1 == (F.negm + a) \div R IN IF ah # ah1 THEN (F.negm + a) % R ELSE a
maybe_plus_m(a, ah) == IF ah # 0 THEN (a + F.m) % R ELSE a

addcmovc(a, b, c) == LET t == (a + b) % F.B IN IF a > t THEN t ELSE c
sub_sysdep(a, y, m) == LET t0 == (a + (F.B - y)) % F.B IN IF y > a THEN (t0 + m) % F.B ELSE t0

addf(a, y) ==
  IF F.k = 1
  THEN addcmovc((a + (F.B - F.m)) % F.B, y, (a + y) % F.B)
  ELSE maybe_minus_m((a + y) % R, (a + y) \div R)

subf(a, y) ==
  IF F.k = 1
  THEN sub_sysdep(a, y, F.m)
  ELSE maybe_plus_m((a + (R - y)) % R, IF y > a THEN 1 ELSE 0)

(* The limb x times y is added at a[i]; limb i + k + 1 is cleared first *)
mulstep(first, a, i, x, y) ==
  IF F.k = 1
  THEN reduction_step(With(With(a, i + 2, 1, 0), i, 2, x * y), i)
  ELSE LET a0 == With(a, i + F.k + 1, 1, 0)
           a1 == IF first THEN With(a0, i, F.k + 1, mulLow(F.k, x, y))
                 ELSE accum(F.k + 1, a0, i, mulLow(F.k, x, y))
       IN  reduction_step(accum(F.k + 1, a1, i + 1, mulHigh(F.k, x, y)), i)

Finished(a, n) == maybe_minus_m(Limbs(a, n, F.k), Limbs(a, n + F.k, 1))

mul0(x, y) ==
  LET a[i \in 0..F.k] ==
        IF i = 0 THEN F.garbage ELSE mulstep(i = 1, a[i - 1], i - 1, Limbs(x, i - 1, 1), y)
  IN  Finished(a[F.k], F.k)

mulf(x, y) ==
  IF ~F.optimized_mul THEN mul0(x, y)
  ELSE IF x = F.zero \/ y = F.one THEN x
  ELSE IF y = F.zero \/ x = F.one THEN y
  ELSE mul0(x, y)

negf(x) == subf(F.zero, x)

from_montgomery(x) ==
  LET a[i \in 0..F.k] ==
        IF i = 0 THEN With(F.garbage, 0, F.k + 1, x)
        ELSE reduction_step(With(a[i - 1], i + F.k, 1, 0), i - 1)
  IN  Finished(a[F.k], F.k)
to_montgomery(n) == mulf(n, F.rsquare)

byhalf(a) == IF a % 2 = 1 THEN addf(a \div 2, F.raw_half) ELSE a \div 2

(* a < b by the borrow of a subtraction *)
Less(a, b) == Limbs(a + (R - b), F.k, 1) = 0

RECURSIVE gcd(_, _, _, _)
gcd(a, b, u, v) ==
  IF a = 0 THEN v
  ELSE IF a % 2 = 0 THEN gcd(a \div 2, b, byhalf(u), v)
  ELSE IF Less(a, b) THEN gcd((b - a) \div 2, a, byhalf(subf(v, u)), u)
  ELSE gcd((a - b) \div 2, b, byhalf(subf(u, v)), v)

invertf(x) == gcd(from_montgomery(x), F.m, F.one, F.zero)

-----------------------------------------------------------------------------
(* The number x of kX limbs, divided by B^kX *)
reduce_nat(x, kX) ==
  LET a[i \in 0..kX] ==
        IF i = 0 THEN 0
        ELSE reduction_step(accum(F.k + 1, a[i - 1], i - 1, Limbs(x, i - 1, 1)), i - 1)
  IN  Finished(a[kX], kX)

Doubled(e, n) == LET d[i \in 0..n] == IF i = 0 THEN e ELSE addf(d[i - 1], d[i - 1]) IN d[n]

reduce_scale(kX) == Doubled(F.rsquare, F.w * kX)
reduce(x, kX) == mulf(reduce_nat(x, kX), reduce_scale(kX))

(* Sums of products by one-limb numbers, in two more limbs, reduced once *)
prescale_for_dot(e) == from_montgomery(mulf(e, reduce_scale(F.k + 2)))
dot(a, b) ==
  LET s[i \in 0..Len(a)] ==
        IF i = 0 THEN 0
        ELSE accum(F.k + 1, accum(F.k + 2, s[i - 1], 0, mulLow(F.k, a[i], b[i])),
                   1, mulHigh(F.k, a[i], b[i]))
  IN  reduce_nat(s[Len(a)], F.k + 2)

fits(n) == Less(n, F.m)
None == -1
of_bytes_field(n) == IF fits(n) THEN to_montgomery(n) ELSE None

(* The first of the attempts that is below m once cut to the bits of m *)
sample(attempts) ==
  LET cut(n) == n % (2 ^ F.exact_bits)
      good == {i \in DOMAIN attempts : Less(cut(attempts[i]), F.m)}
  IN  IF good = {} THEN None
      ELSE to_montgomery(cut(attempts[CHOOSE i \in good : \A j \in good : i <= j]))

(* Digits of a string, the first one first; -1 is not a digit *)
of_untrusted_string(base, digits) ==
  LET step(r, d) ==
        IF r = None \/ d < 0 \/ d >= base THEN None
        ELSE IF r * base >= R \/ (r * base) + d >= R THEN None ELSE (r * base) + d
      r[i \in 0..Len(digits)] == IF i = 0 THEN 0 ELSE step(r[i - 1], digits[i])
      n == IF Len(digits) > F.kMaxStringLen THEN None ELSE r[Len(digits)]
  IN  IF n # None /\ fits(n) THEN to_montgomery(n) ELSE None

-----------------------------------------------------------------------------
(* 1/a modulo B by (1 + v)(1 + v^2)(1 + v^4) ..., v = 1 - a *)
inv_mod_b(a, B) ==
  LET loop[s \in (0..(B - 1)) \X (0..(B - 1))] ==
        IF s[1] = 0 THEN s[2] ELSE loop[<<(s[1] * s[1]) % B, (s[2] * (1 + s[1])) % B>>]
  IN  loop[<<(1 + (B - a)) % B, 1>>]

Bits(m) == CHOOSE n \in 1..m : 2 ^ n > m /\ 2 ^ (n - 1) <= m

(* The constructor, in the two steps that its order imposes: p holds the   *)
(* parameters, then the constants are made with the members filled so far. *)
Parameters(p) ==
  [p EXCEPT !.negm = (p.B ^ p.k) - p.m,
            !.exact_bits = Bits(p.m),
            !.raw_half = (p.m \div 2) + 1,
            !.mprime = p.B - inv_mod_b(p.m % p.B, p.B)]
WithSquare == [F EXCEPT !.rsquare = Doubled(1, 2 * F.w * F.k)]
WithSmall == [F EXCEPT !.zero = mul0(0, F.rsquare), !.one = mul0(1, F.rsquare), !.two = mul0(2, F.rsquare)]
WithInverses ==
  [F EXCEPT !.mone = negf(F.one), !.inverse_of_two = invertf(F.two),
            !.points = [i \in 1..6 |-> to_montgomery(i - 1)],
            !.inv_small = [i \in 1..6 |-> IF i = 1 THEN F.zero ELSE invertf(to_montgomery(i - 1))]]

newton_denominator(k, i) == F.inv_small[i + 1]
================================================================================
