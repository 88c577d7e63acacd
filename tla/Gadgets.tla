-------------------------------- MODULE Gadgets --------------------------------
(***************************************************************************)
(* The gadgets of src/lib/circuits/logic and src/lib/circuits/mac that are *)
(* built from Logic: routing, pluckers, polynomials, counters, adders of   *)
(* many words, comparison of strings, and the MAC that ties two circuits.  *)
(*                                                                         *)
(* The machine is one call: an action chooses a gadget and its arguments,  *)
(* and out is what the wires then carry.                                   *)
(***************************************************************************)
EXTENDS Logic

CONSTANTS
  kByte,             \* bits in a byte
  Fields,            \* of the calls: [two, p]
  Routes,            \* [T, logn, n, k, unroll]
  Adders             \* <<N, k>>: sums of k words of N bits

VARIABLES call, out

-----------------------------------------------------------------------------
(* routing.h.  T is what is shifted: elements of the field, bits, or       *)
(* vectors of bits.                                                        *)
ceildiv(a, b) == (a + b - 1) \div b

amount_is(logc, amount) ==
  Array(2 ^ logc, LAMBDA i : eq(logc, bits(logc, i), amount))

weighted_bits(c, is, v) ==
  For(c, bit(0), LAMBDA j, r : lor_exclusive(r, land(is[j], v[j])))
weighted(T, c, is, v) ==
  IF T = "elt" THEN add_n(c, Array(c, LAMBDA j : lmul(is[j], v[j])))
  ELSE IF T = "bit" THEN weighted_bits(c, is, v)
  ELSE [w \in DOMAIN v[0] |-> weighted_bits(c, is, [j \in 0..(c - 1) |-> v[j][w]])]

(* mutant: only the positions that the result shows are computed *)
really_shiftShort(T, c, is, n, k, tmp, shift, default) ==
  For(IF n < k THEN n ELSE k, tmp, LAMBDA i, A :
    [A EXCEPT ![i] = weighted(T, c, is, [j \in 0..(c - 1) |->
                       IF i + (j * shift) < n THEN A[i + (j * shift)] ELSE default])])

(* In place: upwards, reading what is at or above i *)
really_shift(T, c, is, n, k, tmp, shift, default) ==
  For(IF n < k + shift THEN n ELSE k + shift, tmp, LAMBDA i, A :
    [A EXCEPT ![i] = weighted(T, c, is, [j \in 0..(c - 1) |->
                       IF i + (j * shift) < n THEN A[i + (j * shift)] ELSE default])])

(* In place: downwards, reading what is at or below i *)
really_unshift(T, c, is, n, k, B, shift, default) ==
  LET top == IF n < k + (c * shift) THEN n ELSE k + (c * shift)
  IN  For(top, B, LAMBDA t, A :
        [A EXCEPT ![top - 1 - t] = weighted(T, c, is, [j \in 0..(c - 1) |->
           IF top - 1 - t >= j * shift THEN A[top - 1 - t - (j * shift)] ELSE default])])

(* The bits of amount that a round consumes, from the top or from the bottom *)
shift(T, logn, amount, k, n, A, default, unroll) ==
  LET rounds == ceildiv(logn, unroll)
      round(t, s) ==
        LET consumed == ceildiv(s.l, rounds - t)
            l == s.l - consumed
        IN  [l |-> l,
             tmp |-> really_shift(T, 2 ^ consumed, amount_is(consumed, slice(l, l + consumed, amount)),
                                  n, k, s.tmp, 2 ^ l, default)]
      done == For(rounds, [l |-> logn, tmp |-> A], LAMBDA t, s : round(t, s))
  IN  Array(k, LAMBDA i : IF i < n THEN done.tmp[i] ELSE default)

unshift(T, logn, amount, n, k, B, default, unroll) ==
  LET rounds == ceildiv(logn, unroll)
      round(t, s) ==
        LET consumed == ceildiv(logn - s.l, rounds - t)
        IN  [l |-> s.l + consumed,
             A |-> really_unshift(T, 2 ^ consumed, amount_is(consumed, slice(s.l, s.l + consumed, amount)),
                                  n, k, s.A, 2 ^ s.l, default)]
  IN  For(rounds, [l |-> 0, A |-> Array(n, LAMBDA i : IF i < k THEN B[i] ELSE default)],
          LAMBDA t, s : round(t, s)).A

-----------------------------------------------------------------------------
(* polynomial.h; coefficients from the constant one *)
powers_of_x(n, x) ==
  For(IF n < 2 THEN 0 ELSE n - 2, [i \in 0..(n - 1) |-> IF i = 0 THEN 1 ELSE x], LAMBDA i, xi :
    [xi EXCEPT ![i + 2] = mulf(xi[(i + 2) - ((i + 2) \div 2)], xi[(i + 2) \div 2])])

eval_poly(N, coef, x) ==
  CHOOSE r \in {For(N, 0, LAMBDA i, s : addf(s, mulf(coef[i], xi[i]))) : xi \in {powers_of_x(N, x)}} : TRUE

RECURSIVE horner(_, _, _)
horner(n, c, x) ==
  IF n <= 1 THEN c[0]
  ELSE horner(ceildiv(n, 2),
              Array(ceildiv(n, 2), LAMBDA i : IF 2 * i + 1 < n THEN addf(c[2 * i], mulf(x, c[2 * i + 1]))
                                              ELSE c[2 * i]),
              mulf(x, x))
eval_horner(N, coef, x) == horner(N, coef, x)

(* The interpolating polynomial: see module ReedSolomon *)
monomial_of_lagrange(N, Y, X) ==
  LET times(p, j, i) ==       \* p * (x - X[j]) / (X[i] - X[j])
        Array(N, LAMBDA d : mulf(invertf(subf(X[i], X[j])),
                                 subf(IF d = 0 THEN 0 ELSE p[d - 1], mulf(X[j], p[d]))))
      basis(i) == For(N, Array(N, LAMBDA d : IF d = 0 THEN 1 ELSE 0),
                      LAMBDA j, p : IF j = i THEN p ELSE times(p, j, i))
      plus(p, c, q) == Array(N, LAMBDA d : addf(p[d], mulf(c, q[d])))
  IN  For(N, Array(N, LAMBDA d : 0), LAMBDA i, p : IF Y[i] = 0 THEN p ELSE plus(p, Y[i], basis(i)))

-----------------------------------------------------------------------------
(* bit_plucker.h, bit_plucker_encoder.h, unary_plucker.h: N values on a    *)
(* wire, at points that lie symmetrically around zero                      *)
bit_plucker_point(N, v) == subf(2 * v, N - 1)
points(N) == Array(N, LAMBDA i : bit_plucker_point(N, i))

plucker(N, LOGN) ==
  Array(LOGN, LAMBDA k : monomial_of_lagrange(N, Array(N, LAMBDA i : bitAt(i, k)), points(N)))
unary_plucker(NJ) ==
  Array(NJ, LAMBDA j : monomial_of_lagrange(NJ + 1, Array(NJ + 1, LAMBDA i : IF i = j THEN 1 ELSE 0),
                                            points(NJ + 1)))

(* The wires of the bits, and whether they pass assert_is_bit *)
pluck_by(N, polys, e) == [k \in DOMAIN polys |-> eval_poly(N, polys[k], e)]
plucked(v) == [ok |-> \A k \in DOMAIN v : assert_is_bit(v[k]), r |-> [k \in DOMAIN v |-> OfWire(v[k])]]
pluck(LOGN, polys, e) == plucked(Table(pluck_by(2 ^ LOGN, polys, e)))
pluck_unary(NJ, polys, e) == plucked(Table(pluck_by(NJ + 1, polys, e)))

unpack(LOGN, polys, w, v) ==
  LET b == Array(ceildiv(w, LOGN), LAMBDA i : pluck(LOGN, polys, v[i]))
  IN  [ok |-> \A i \in DOMAIN b : b[i].ok, r |-> Array(w, LAMBDA i : b[i \div LOGN].r[i % LOGN])]

encode(LOGN, i) == bit_plucker_point(2 ^ LOGN, i)
pack_bits(LOGN, w, b) ==
  Array(ceildiv(w, LOGN), LAMBDA i :
    encode(LOGN, For(LOGN, 0, LAMBDA j, v : IF i * LOGN + j < w THEN v + (2 ^ j) * bitAt(b, i * LOGN + j) ELSE v)))
mkpacked_v32(LOGN, w, j) ==
  Array(ceildiv(w, LOGN), LAMBDA i : encode(LOGN, (j \div (2 ^ (LOGN * i))) % (2 ^ LOGN)))

(* EltMuxer: arr[ind] for ind at the first N points of PP *)
EltMuxer(N, PP, arr) ==
  LET basis(i) == monomial_of_lagrange(N, Array(N, LAMBDA j : IF i = j THEN 1 ELSE 0),
                                       Array(N, LAMBDA j : bit_plucker_point(PP, j)))
      plus(c, b, a) == Array(N, LAMBDA j : addf(c[j], mulf(b[j], a)))
  IN  For(N, Array(N, LAMBDA j : 0), LAMBDA i, c : plus(c, basis(i), arr[i]))
mux_by(N, coeff, ind) == eval_poly(N, coeff, ind)

-----------------------------------------------------------------------------
(* counter.h: numbers in the additive group of a prime field, or in the    *)
(* multiplicative group of a binary one, whose generator here is x         *)
generator == 2
RECURSIVE squared(_, _)
squared(e, i) == IF i = 0 THEN e ELSE squared(mulf(e, e), i - 1)
counter_beta(i) == squared(generator, i)
as_counter_fits(n) == IF f_.two THEN (n + 1) \div (2 ^ kBits) = 0 ELSE Fits(n)

znz_indicator(c) == IF f_.two THEN subf(c, 1) ELSE c
mone_counter == IF f_.two THEN invertf(generator) ELSE mone
as_counter(n) ==
  IF f_.two THEN For(kBits, 1, LAMBDA i, r : IF bitAt(n, i) = 1 THEN mulf(r, counter_beta(i)) ELSE r)
  ELSE n
ite0(a, b) == IF f_.two THEN mux_elt(a, b, 1) ELSE mulf(eval(a), b)
as_counter_bit(b) == IF f_.two THEN ite0(b, generator) ELSE eval(b)
as_counter_vec(n, v) ==
  IF f_.two THEN mul_n(n, Array(n, LAMBDA i : mux_elt(v[i], counter_beta(i), 1)))
  ELSE as_scalar(n, v)
add_counter(a, b) == IF f_.two THEN mulf(a, b) ELSE addf(a, b)
(* mutant: the additive form also in the multiplicative group *)
mux_counterAdditive(a, b, c) == add_counter(c, ite0(a, subf(b, c)))

mux_counter(a, b, c) ==
  IF f_.two THEN mux_elt(a, b, c) ELSE add_counter(c, ite0(a, subf(b, c)))
assert0_counter(a) == IF f_.two THEN a = 1 ELSE a = 0

-----------------------------------------------------------------------------
(* bit_adder.h: the sum of many words, and what it is modulo 2^N *)
alpha(i) == squared(2, i)        \* alpha_2_i_[i], from x
as_field_element(N, v) ==
  IF f_.two THEN mul_n(N, Array(N, LAMBDA i : mux_elt(v[i], alpha(i), 1)))
  ELSE For(N, 0, LAMBDA i, r : addf(r, mulf(2 ^ i, eval(v[i]))))
add_words(N, k, a) ==
  IF f_.two THEN mul_n(k, Array(k, LAMBDA i : as_field_element(N, a[i])))
  ELSE add_n(k, Array(k, LAMBDA i : as_field_element(N, a[i])))

(* b is a and a carry below k, by a product with a factor for each carry *)
carry_factors(N, k) == For(k, <<>>, LAMBDA i, p : Append(p, IF i = 0 THEN 1 ELSE mulf(alpha(N), p[i])))
assert_eqmod(N, a, b, k) ==
  IF f_.two
  THEN \E aa \in {as_field_element(N, a)}, p \in {carry_factors(N, k)} :
         mul_n(k, Array(k, LAMBDA i : subf(b, mulf(p[i + 1], aa)))) = 0
  ELSE \E z \in {subf(b, as_field_element(N, a))} :
         mul_n(k, Array(k, LAMBDA i : subf(z, (2 ^ N) * i))) = 0

-----------------------------------------------------------------------------
(* memcmp.h, unary.h *)
arrange(n, bytes) == Array(kByte * n, LAMBDA i : bytes[n - 1 - (i \div kByte)][i % kByte])
memcmp_lt(n, A, B) == lt(kByte * n, arrange(n, A), arrange(n, B))
memcmp_leq(n, A, B) == leq(kByte * n, arrange(n, A), arrange(n, B))

unary_eq(n, W, j) == Array(n, LAMBDA i : eq(W, j, bits(W, i)))
unary_lt(n, W, j) == Array(n, LAMBDA i : lt(W, bits(W, i), j))

-----------------------------------------------------------------------------
(* mac_circuit.h, mac_reference.h, mac_witness.h.  A message has two halves *)
(* of kBits bits; kMACPluckerBits of them are on a wire.                    *)
kMACPluckerBits == 2

compute(av, ap, msg) == Array(2, LAMBDA i : mulTable[xorTable[av][ap[i]]][msg[i]])

mac_witness(ap, x) ==
  [aa |-> Array(2, LAMBDA i : pack_bits(kMACPluckerBits, kBits, ap[i])),
   xx |-> vappend(kBits \div kMACPluckerBits, kBits \div kMACPluckerBits,
                  pack_bits(kMACPluckerBits, kBits, x[0]), pack_bits(kMACPluckerBits, kBits, x[1]))]

(* mutant: the number may be at or above the order *)
unpack_msgAny(x, msgw, order) ==
  For(2 * kBits, [te |-> 0, twok |-> 1], LAMBDA i, s :
        [te |-> addf(s.te, mulf(s.twok, eval(x[i]))), twok |-> addf(s.twok, s.twok)]).te = msgw

(* The halves of a number below the order whose bits spell msg *)
unpack_msg(x, msgw, order) ==
  /\ assert1(lt(2 * kBits, x, bits(2 * kBits, order)))
  /\ For(2 * kBits, [te |-> 0, twok |-> 1], LAMBDA i, s :
           [te |-> addf(s.te, mulf(s.twok, eval(x[i]))), twok |-> addf(s.twok, s.twok)]).te = msgw

assert_mac(mac, av, polys, x, vw) ==
  \A i \in 0..1 :
    \E ap \in {unpack(kMACPluckerBits, polys, kBits, vw.aa[i])} :
      /\ ap.ok
      /\ vassert_eq(kBits, mac[i], gf2_128_mul(vxor(kBits, av, ap.r), slice(kBits * i, kBits * (i + 1), x)))

verify_mac(msg, mac, av, vw, order) ==
  \E polys \in {plucker(2 ^ kMACPluckerBits, kMACPluckerBits)} :
    \E x \in {unpack(kMACPluckerBits, polys, 2 * kBits, vw.xx)} :
      /\ x.ok
      /\ unpack_msg(x.r, msg, order)
      /\ assert_mac(mac, av, polys, x.r, vw)

(* In the binary field itself *)
pack_msg(msg) ==
  For(kBits, [m |-> 0, xi |-> 1], LAMBDA i, s :
        [m |-> addf(s.m, mulf(s.xi, eval(msg[i]))), xi |-> mulf(s.xi, 2)]).m
verify_mac_gf2(mac, av, msg, aa) ==
  \A i \in 0..1 : mac[i] = mulf(addf(av, aa[i]), pack_msg(slice(kBits * i, kBits * (i + 1), msg)))

-----------------------------------------------------------------------------
(* The calls.  A bit comes in one of four representations. *)
Rep(kind, b) ==
  CASE kind = 0 -> OfWire(b)
    [] kind = 1 -> BitW(1, mone, subf(1, b))
    [] kind = 2 -> BitW(2, 3, mulf(invertf(3), subf(b, 2)))
    [] kind = 3 -> bit(b)
Vec(w, kind, n) == Array(w, LAMBDA i : Rep((kind + i) % 4, bitAt(n, i)))
Wires(w, n) == Array(w, LAMBDA i : OfWire(bitAt(n, i)))

(* The number on the wires; -1 if a wire carries no bit *)
Number(w, v) ==
  IF \A i \in 0..(w - 1) : eval(v[i]) \in 0..1 THEN For(w, 0, LAMBDA i, n : n + (2 ^ i) * eval(v[i]))
  ELSE -1

none == <<>>
Words(w) == 0..((2 ^ w) - 1)

Init == f_ \in Fields /\ call = none /\ out = none
Return(op, in, value) ==
  /\ call' = [op |-> op, in |-> in]
  /\ out' = value
  /\ UNCHANGED f_

GateValue(g, x, y, z) ==
  CASE g = "lnot" -> lnot(x)
    [] g = "land" -> land(x, y)
    [] g = "lor" -> lor(x, y)
    [] g = "lxor" -> lxor(x, y)
    [] g = "limplies" -> limplies(x, y)
    [] g = "lor_exclusive" -> lor_exclusive(x, y)
    [] g = "lxor3" -> lxor3(x, y, z)
    [] g = "lCh" -> lCh(x, y, z)
    [] g = "lMaj" -> lMaj(x, y, z)
    [] g = "mux" -> mux(x, y, z)
Gates ==
  {"lnot", "land", "lor", "lxor", "limplies", "lor_exclusive", "lxor3", "lCh", "lMaj", "mux"}

Gate ==
  call = none /\ \E g \in Gates, a, b, c \in 0..1, i, j, k \in 0..3 :
    /\ g = "lor_exclusive" => a + b < 2
    /\ Return("gate", <<g, a, b, c>>, eval(GateValue(g, Rep(i, a), Rep(j, b), Rep(k, c))))

VectorValue(g, w, x, y, z) ==
  CASE g = "lnot" -> vnot(w, x)
    [] g = "land" -> vand(w, x, y)
    [] g = "lor" -> vor(w, x, y)
    [] g = "lxor" -> vxor(w, x, y)
    [] g = "lor_exclusive" -> vor_exclusive(w, x, y)
    [] g = "lxor3" -> vxor3(w, x, y, z)
    [] g = "lCh" -> vCh(w, x, y, z)
    [] g = "lMaj" -> vMaj(w, x, y, z)
Vector ==
  call = none /\ \E g \in Gates \ {"limplies", "mux"}, x, y \in Words(3), z \in {1, 3, 6}, k \in 0..3 :
    /\ g = "lor_exclusive" => \A i \in 0..2 : bitAt(x, i) + bitAt(y, i) < 2
    /\ Return("vector", <<g, x, y, z>>, Number(3, VectorValue(g, 3, Vec(3, k, x), Vec(3, k + 1, y), Vec(3, 2, z))))

(* One bit and the words that it masks or selects from *)
Select ==
  call = none /\ \E b \in 0..1, x, y \in Words(3), k \in 0..3 :
    Return("select", <<b, x, y>>,
           <<Number(3, vand_bit(3, Rep(k, b), Vec(3, k, x))),
             Number(3, vmux(3, Rep(k, b), Vec(3, k, x), Vec(3, k + 1, y))),
             mux_elt(Rep(k, b), x, y)>>)

Move ==
  call = none /\ \E x \in Words(4), y \in Words(2), s \in 0..5, b \in 0..1, k \in {0, 1} :
    Return("move", <<x, y, s, b>>,
           [shr |-> Number(4, vshr(4, Vec(4, k, x), s, b)), shl |-> Number(4, vshl(4, Vec(4, k, x), s, b)),
            rotr |-> Number(4, vrotr(4, Vec(4, k, x), s)), rotl |-> Number(4, vrotl(4, Vec(4, k, x), s)),
            slice |-> Number(2, slice(1, 3, Vec(4, k, x))),
            append |-> Number(6, vappend(4, 2, Vec(4, k, x), Vec(2, k, y)))])

AsScalar ==
  call = none /\ \E w \in 0..4 : \E x \in Words(w), k \in 0..3 :
    /\ as_scalar_fits(w)
    /\ Return("scalar", <<w, x>>, as_scalar(w, Vec(w, k, x)))

AddValue(g, w, x, y) ==
  CASE g = "ripple_carry_add" -> ripple_carry_add(w, x, y)
    [] g = "parallel_prefix_add" -> parallel_prefix_add(w, x, y)
    [] g = "ripple_carry_sub" -> ripple_carry_sub(w, x, y)
    [] g = "parallel_prefix_sub" -> parallel_prefix_sub(w, x, y)
AddSub ==
  call = none /\ \E g \in {"ripple_carry_add", "parallel_prefix_add", "ripple_carry_sub", "parallel_prefix_sub"} :
    \E w \in {0, 1, 3, 4} : \E x, y \in Words(w), k \in {0, 1} :
      \E s \in {AddValue(g, w, Vec(w, k, x), Vec(w, k + 1, y))} :
        Return(g, <<w, x, y>>, <<Number(w, s.c), eval(s.carry)>>)

Multiply ==
  call = none /\ \E w \in {1, 2, 3, 4} : \E x, y \in Words(w), k \in {0, 1} :
    Return("multiply", <<w, x, y>>,
      [int |-> Number(2 * w, multiplier(w, Vec(w, k, x), Vec(w, k, y))),
       poly |-> Number(2 * w, gf2_polynomial_multiplier(w, Vec(w, k, x), Vec(w, k, y))),
       karat |-> IF w = 3 THEN 0
                 ELSE Number(2 * w, gf2_polynomial_multiplier_karat(w, Vec(w, k, x), Vec(w, k, y))),
       gf |-> IF w # kBits THEN 0 ELSE Number(w, gf2_128_mul(Vec(w, k, x), Vec(w, k, y)))])

Compare ==
  call = none /\ \E w \in {0, 1, 3, 4} : \E x, y \in Words(w), m \in {0, 5, 6, 15} :
    Return("compare", <<w, x, y, m>>,
      [eq0 |-> eval(eq0(w, Vec(w, 0, x))), eq |-> eval(eq(w, Vec(w, 0, x), Vec(w, 1, y))),
       lt |-> eval(lt(w, Vec(w, 1, x), Vec(w, 0, y))), leq |-> eval(leq(w, Wires(w, x), Vec(w, 1, y))),
       mask |-> eval(veqmask(w, Vec(w, 0, x), m, Wires(w, y)))])

Bytes(n, x) == [i \in 0..(n - 1) |-> (x \div (2 ^ (kByte * i))) % (2 ^ kByte)]
CompareBytes ==
  call = none /\ \E n \in {1, 2} : \E x, y \in Words(kByte * n) :
    \E A \in {Array(n, LAMBDA i : Vec(kByte, 0, Bytes(n, x)[i]))},
       B \in {Array(n, LAMBDA i : Vec(kByte, 1, Bytes(n, y)[i]))} :
      Return("memcmp", <<n, x, y>>, <<eval(memcmp_lt(n, A, B)), eval(memcmp_leq(n, A, B))>>)

UnaryDecode ==
  call = none /\ \E n \in 0..8, x \in Words(3), k \in 0..3 :
    Return("unary", <<n, x>>, <<Number(n, unary_eq(n, 3, Vec(3, k, x))), Number(n, unary_lt(n, 3, Vec(3, k, x)))>>)

ScanValue(g, n, x, backward) ==
  CASE g = "and" -> scan_and(n, x, backward)
    [] g = "or" -> scan_or(n, x, backward)
    [] g = "xor" -> scan_xor(n, x, backward)
Prefix ==
  call = none /\ \E g \in {"and", "or", "xor"}, backward \in BOOLEAN, n \in 1..5 : \E x \in Words(n) :
    Return("scan", <<g, backward, n, x>>, Number(n, ScanValue(g, n, Vec(n, 0, x), backward)))

ReduceValue(n, x) ==
  [land |-> eval(land_n(n, x)), lor |-> eval(lor_n(n, x)), parity |-> eval(parity(n, x)),
   add |-> add_n(n, [i \in DOMAIN x |-> eval(x[i])]), mul |-> mul_n(n, [i \in DOMAIN x |-> eval(x[i])]),
   or_of_and |-> eval(or_of_and(2, (0 :> <<>>) @@ (1 :> [i \in 1..n |-> x[i - 1]]))),
   or_of_and2 |-> eval(or_of_and(n, [j \in 0..(n - 1) |-> <<x[j], x[0]>>]))]
Reduction == call = none /\ \E n \in 0..5 : \E x \in Words(n) : Return("reduce", <<n, x>>, ReduceValue(n, Vec(n, 0, x)))
OneHot ==
  call = none /\ \E n \in 1..5 : \E x \in {0} \cup {2 ^ i : i \in 0..(n - 1)} :
    Return("reduce1", <<n, x>>, eval(lor_exclusive_n(n, Vec(n, 1, x))))

Assertion ==
  \/ call = none /\ \E a, b \in 0..1, i, j \in 0..3 :
       Return("assert", <<a, b>>,
         [a0 |-> assert0(Rep(i, a)), a1 |-> assert1(Rep(i, a)), eq |-> assert_eq(Rep(i, a), Rep(j, b)),
          implies |-> assert_implies(Rep(i, a), Rep(j, b))])
  \/ call = none /\ \E v \in Elt : Return("assert_is_bit", v, assert_is_bit(v))
  \/ call = none /\ \E w \in 2..4 : \E x, y, z \in Words(w), k \in {0, 1} :
       /\ w = 4 => x \in {0, 3, 6, 11, 15}
       /\ Return("assert_sum", <<w, z, x, y>>,
                 <<assert_sum(w, Vec(w, k, z), generate_propagate(w, Vec(w, 0, x), Vec(w, k + 1, y))),
                   vassert_eq(w, Vec(w, k, z), Vec(w, 0, x))>>)

Item(T, v) ==
  CASE T = "elt" -> v
    [] T = "bit" -> Rep(v % 4, v % 2)
    [] T = "vec" -> Vec(2, v, v % 4)
Shown(T, v) ==
  CASE T = "elt" -> v
    [] T = "bit" -> eval(v)
    [] T = "vec" -> Number(2, v)
Contents(T, n) == [i \in 0..(n - 1) |-> Item(T, ((5 * i) + 3) % 11)]
Default(T) == Item(T, 12)
Route ==
  call = none /\ \E r \in Routes : \E a \in Words(r.logn) :
    Return("route", <<r, a>>,
      [shift |-> Array(r.k, LAMBDA i : Shown(r.T,
                   shift(r.T, r.logn, Vec(r.logn, 0, a), r.k, r.n, Contents(r.T, r.n), Default(r.T), r.unroll)[i])),
       unshift |-> Array(r.n, LAMBDA i : Shown(r.T,
                   unshift(r.T, r.logn, Vec(r.logn, 1, a), r.n, r.k, Contents(r.T, r.k), Default(r.T), r.unroll)[i]))])

PolyEval ==
  call = none /\ \E N \in 1..5, x \in Elt \cap 0..15, s \in 0..3 :
    \E c \in {[i \in 0..(N - 1) |-> ((s * i) + i + s) % 7]} :
      Return("poly", <<N, c, x>>, <<eval_poly(N, c, x), eval_horner(N, c, x)>>)

Pluck ==
  \/ call = none /\ \E LOGN \in 1..2, w \in 1..3 : \E x \in Words(w) :
       \E polys \in {plucker(2 ^ LOGN, LOGN)} :
         \E a \in {unpack(LOGN, polys, w, pack_bits(LOGN, w, x))},
            b \in {unpack(LOGN, polys, w, mkpacked_v32(LOGN, w, x))} :
           Return("pluck", <<w, x>>, <<a.ok /\ b.ok, Number(w, a.r), Number(w, b.r)>>)
  \/ call = none /\ \E NJ \in 1..4 : \E j \in 0..NJ :
       \E v \in {pluck_unary(NJ, unary_plucker(NJ), bit_plucker_point(NJ + 1, j))} :
         Return("pluck1", <<NJ, j>>, <<v.ok, Number(NJ, v.r)>>)
  \/ call = none /\ \E LOGN \in 1..2, e \in Elt :
       \E v \in {pluck(LOGN, plucker(2 ^ LOGN, LOGN), e)} :
         /\ v.ok
         /\ Return("plucked", <<LOGN, e>>, Number(LOGN, v.r))
  \/ call = none /\ \E N \in 1..4, PP \in 1..5 : \E i \in 0..(N - 1) :
       /\ N <= PP
       /\ Return("muxer", <<N, i>>,
                 mux_by(N, EltMuxer(N, PP, [j \in 0..(N - 1) |-> ((3 * j) + 5) % 11]), bit_plucker_point(PP, i)))

Count ==
  call = none /\ \E n, m \in {0, 1, 2, 5, 11, 12, 14}, w \in Words(3), b \in 0..1, k \in 0..3 :
    /\ as_counter_fits(n) /\ as_counter_fits(m) /\ as_scalar_fits(3)
    /\ \E c \in {add_counter(mux_counter(Rep(k, b), as_counter(n), as_counter(m)),
                             add_counter(as_counter_vec(3, Vec(3, k, w)),
                                         ite0(Rep(k, b), add_counter(mone_counter, as_counter_bit(Rep(k, b))))))} :
         Return("count", <<n, m, w, b>>, <<c, assert0_counter(c), znz_indicator(c) # 0,
                                           assert0_counter(add_counter(c, mone_counter))>>)

AddMany ==
  call = none /\ \E s \in Adders :
    \E ws \in [0..(s[2] - 1) -> Words(s[1])], z \in Words(s[1]) :
      \E vs \in {Array(s[2], LAMBDA i : Vec(s[1], i, ws[i]))} :
        Return("adder", <<s[1], s[2], ws, z>>, assert_eqmod(s[1], Vec(s[1], 1, z), add_words(s[1], s[2], vs), s[2]))

Halves(x) == (0 :> x % (2 ^ kBits)) @@ (1 :> x \div (2 ^ kBits))
(* A prover that spells x and sends the MAC of x, or a wrong one, for the  *)
(* message that is m on a wire (in the binary field its bits are x); the   *)
(* order is the prime                                                      *)
Mac ==
  call = none /\ \E x \in {0, 1, 77, 250, 251, 252, 255}, av \in {0, 6, 15}, ap \in {<<0, 9>>, <<6, 3>>}, wrong \in {0, 1, 16} :
    \E m \in IF f_.two THEN {x} ELSE {x % f_.p, 1}, a \in {(0 :> ap[1]) @@ (1 :> ap[2])} :
      \E mac \in {compute(av, a, Halves(x))} :
        \E sent \in {(0 :> xorTable[mac[0]][wrong % 16]) @@ (1 :> xorTable[mac[1]][wrong \div 16])} :
          Return("mac", <<m, x, mac, sent>>,
            IF f_.two
            THEN verify_mac_gf2(sent, av, Vec(2 * kBits, 0, x), a)
            ELSE verify_mac(m, Array(2, LAMBDA i : Wires(kBits, sent[i])), Wires(kBits, av),
                            mac_witness(a, Halves(x)), f_.p))

Next ==
  \/ Gate \/ Vector \/ Select \/ Move \/ AsScalar \/ AddSub \/ Multiply \/ Compare \/ CompareBytes
  \/ UnaryDecode \/ Prefix \/ Reduction \/ OneHot \/ Assertion \/ Route \/ PolyEval \/ Pluck \/ Count
  \/ AddMany \/ Mac

vars == <<f_, call, out>>
Spec == Init /\ [][Next]_vars

-----------------------------------------------------------------------------
(* What the gadgets are named for *)
Truth(b) == IF b THEN 1 ELSE 0
Meaning(g, a, b, c) ==
  CASE g = "lnot" -> 1 - a
    [] g = "land" -> a * b
    [] g \in {"lor", "lor_exclusive"} -> Truth(a + b > 0)
    [] g = "lxor" -> (a + b) % 2
    [] g = "limplies" -> Truth(a <= b)
    [] g = "lxor3" -> (a + b + c) % 2
    [] g \in {"lCh", "mux"} -> IF a = 1 THEN b ELSE c
    [] g = "lMaj" -> Truth(a + b + c > 1)

Op(name) == call # none /\ call.op = name
In(i) == call.in[i]

GatesAreExact ==
  /\ Op("gate") => out = Meaning(In(1), In(2), In(3), In(4))
  /\ Op("vector") =>
       \A i \in 0..2 : bitAt(out, i) = Meaning(In(1), bitAt(In(2), i), bitAt(In(3), i), bitAt(In(4), i))
  /\ Op("select") =>
       out = <<In(1) * In(2), IF In(1) = 1 THEN In(2) ELSE In(3), IF In(1) = 1 THEN In(2) ELSE In(3)>>
  /\ Op("move") =>
       LET x == In(1)
           y == In(2)
           s == In(3)
           ones == 15 * In(4)
       IN  out = [shr |-> (x \div (2 ^ s)) + ones - (ones \div (2 ^ s)),
                  shl |-> ((x * (2 ^ s)) % 16) + (ones % (2 ^ s)),
                  rotr |-> ((17 * x) \div (2 ^ (s % 4))) % 16, rotl |-> ((17 * x) \div (2 ^ ((16 - s) % 4))) % 16,
                  slice |-> (x \div 2) % 4, append |-> x + (16 * y)]
  /\ Op("scalar") => out = In(2)
  /\ Op("scan") =>
       \A i \in 0..(In(3) - 1) :
         LET span == {bitAt(In(4), j) : j \in IF In(2) THEN i..(In(3) - 1) ELSE 0..i}
             ones == Cardinality({j \in IF In(2) THEN i..(In(3) - 1) ELSE 0..i : bitAt(In(4), j) = 1})
         IN  bitAt(out, i) = CASE In(1) = "and" -> Truth(0 \notin span)
                               [] In(1) = "or" -> Truth(1 \in span)
                               [] In(1) = "xor" -> ones % 2
  /\ Op("reduce") =>
       LET ones == Cardinality({j \in 0..(In(1) - 1) : bitAt(In(2), j) = 1})
       IN  out = [land |-> Truth(ones = In(1)), lor |-> Truth(ones > 0), parity |-> ones % 2,
                  add |-> IF f_.two THEN ones % 2 ELSE ones, mul |-> Truth(ones = In(1)), or_of_and |-> 1,
                  or_of_and2 |-> bitAt(In(2), 0)]
  /\ Op("reduce1") => out = Truth(In(2) > 0)

(* Carries: sums, differences with their borrow, products, comparisons *)
BorrowOrCarry(w, n) == <<n % (2 ^ w), Truth(n < 0 \/ n >= 2 ^ w)>>
CarryLess(w, x, y) ==
  For(2 * w, 0, LAMBDA k, n :
    n + (2 ^ k) * (Cardinality({i \in 0..(w - 1) : k - i \in 0..(w - 1) /\ bitAt(x, i) = 1 /\ bitAt(y, k - i) = 1}) % 2))
ArithmeticIsExact ==
  /\ Op("ripple_carry_add") \/ Op("parallel_prefix_add") => out = BorrowOrCarry(In(1), In(2) + In(3))
  /\ Op("ripple_carry_sub") \/ Op("parallel_prefix_sub") => out = BorrowOrCarry(In(1), In(2) - In(3))
  /\ Op("multiply") =>
       /\ out.int = In(2) * In(3)
       /\ out.poly = CarryLess(In(1), In(2), In(3))
       /\ In(1) # 3 => out.karat = out.poly
       /\ In(1) = kBits => out.gf = mulTable[In(2)][In(3)]
  /\ Op("compare") =>
       out = [eq0 |-> Truth(In(2) = 0), eq |-> Truth(In(2) = In(3)), lt |-> Truth(In(2) < In(3)),
              leq |-> Truth(In(2) <= In(3)),
              mask |-> Truth(\A i \in 0..(In(1) - 1) : bitAt(In(4), i) = 1 => bitAt(In(2), i) = bitAt(In(3), i))]
  /\ Op("memcmp") =>
       LET a == Bytes(In(1), In(2))
           b == Bytes(In(1), In(3))
           less == \E i \in DOMAIN a : a[i] < b[i] /\ \A j \in 0..(i - 1) : a[j] = b[j]
       IN  out = <<Truth(less), Truth(less \/ a = b)>>
  /\ Op("unary") =>
       \A i \in 0..(In(1) - 1) :
         bitAt(out[1], i) = Truth(i = In(2)) /\ bitAt(out[2], i) = Truth(i < In(2))
  /\ Op("poly") =>
       out[1] = out[2] /\
       out[1] = For(In(1), 0, LAMBDA i, r : addf(mulf(r, In(3)), In(2)[In(1) - 1 - i]))

(* An assertion holds exactly if what it asserts does: of every value on a *)
(* wire, and for sums of any three words                                   *)
AssertionsDecide ==
  /\ Op("assert") =>
       out = [a0 |-> In(1) = 0, a1 |-> In(1) = 1, eq |-> In(1) = In(2), implies |-> In(1) <= In(2)]
  /\ Op("assert_is_bit") => (out <=> call.in \in 0..1)
  /\ Op("assert_sum") => out = <<In(2) = (In(3) + In(4)) % (2 ^ In(1)), In(2) = In(3)>>
  /\ Op("adder") =>
       LET total == For(In(2), 0, LAMBDA i, n : n + In(3)[i])
       IN  out <=> In(4) = total % (2 ^ In(1))

(* Wires carry what the operations of Logic are named for, and its          *)
(* assertions stop exactly the values they are to stop.                     *)
LogicIsExact == GatesAreExact /\ ArithmeticIsExact /\ AssertionsDecide

(* An array is moved by the amount on the wires, whatever the bits that a  *)
(* round consumes, and what comes in from outside is the default.          *)
RoutingIsShift ==
  Op("route") =>
    LET r == In(1)
        at(A, i, n) == IF i \in 0..(n - 1) THEN Shown(r.T, A[i]) ELSE Shown(r.T, Default(r.T))
    IN  /\ \A i \in 0..(r.k - 1) : out.shift[i] = at(Contents(r.T, r.n), i + In(2), r.n)
        /\ \A i \in 0..(r.n - 1) : out.unshift[i] = at(Contents(r.T, r.k), i - In(2), r.k)

(* What an encoder puts on a wire the plucker takes off.  Other elements   *)
(* may pass as well, but then as bits.  A counter is a number modulo the   *)
(* order of its group.                                                     *)
EncodingsAgree ==
  /\ Op("pluck") => out = <<TRUE, In(2), In(2)>>
  /\ Op("pluck1") => out = <<TRUE, IF In(2) = In(1) THEN 0 ELSE 2 ^ In(2)>>
  /\ Op("plucked") => out \in Words(In(1)) /\ (In(2) = encode(In(1), out) \/ \A i \in Words(In(1)) : In(2) # encode(In(1), i))
  /\ Op("muxer") => out = ((3 * In(2)) + 5) % 11
  /\ Op("count") =>
       LET order == IF f_.two THEN (2 ^ kBits) - 1 ELSE f_.p
           n == (IF In(4) = 1 THEN In(1) ELSE In(2)) + In(3)
       IN  /\ out[1] = as_counter(n % order)
           /\ out[2] <=> n % order = 0
           /\ out[3] <=> n % order # 0
           /\ out[4] <=> n % order = 1

(* A MAC is accepted exactly if it is the product of the key and the halves *)
(* of the message that the wire carries, of which there is only one: of the *)
(* two spellings of a small number the other is above the order.            *)
MacBinds ==
  Op("mac") => (out <=> In(3) = In(4) /\ In(2) = In(1))
================================================================================
