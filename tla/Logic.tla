--------------------------------- MODULE Logic ---------------------------------
(***************************************************************************)
(* src/lib/circuits/logic/logic.h: Boolean logic and arithmetic on wires   *)
(* that carry elements of a field.  A wire has the value that the          *)
(* evaluation backend gives it, and an assertion is true if assert0 finds  *)
(* zero.  What the compiler makes of the same calls is module Compiler.    *)
(*                                                                         *)
(* The field is either the integers modulo f_.p or, if f_.two, the         *)
(* polynomials over GF(2) modulo x^kBits + Poly: numbers with a bit for    *)
(* each coefficient.  A bitvec is an array of bits, the lowest at 0.       *)
(***************************************************************************)
EXTENDS Loops, Sequences, FiniteSets

CONSTANTS
  kBits, Poly,       \* the binary field; x generates its units
  kKarat             \* the 64 of gf2_polynomial_multiplier_karat

VARIABLE f_          \* the field: [two, p]

Elt == 0..((IF f_.two THEN 2 ^ kBits ELSE f_.p) - 1)

-----------------------------------------------------------------------------
(* The field *)
bitAt(n, i) == (n \div (2 ^ i)) % 2
xorTable ==
  [a \in 0..(2 ^ kBits - 1) |-> [b \in 0..(2 ^ kBits - 1) |->
     For(kBits, 0, LAMBDA i, r : r + (2 ^ i) * ((bitAt(a, i) + bitAt(b, i)) % 2))]]
timesX(a) == IF 2 * a < 2 ^ kBits THEN 2 * a ELSE xorTable[2 * a - 2 ^ kBits][Poly]
mulTable ==
  [a \in 0..(2 ^ kBits - 1) |-> [b \in 0..(2 ^ kBits - 1) |->
     For(kBits, 0, LAMBDA i, r : xorTable[timesX(r)][bitAt(a, kBits - 1 - i) * b])]]

addf(a, b) == IF f_.two THEN xorTable[a][b] ELSE (a + b) % f_.p
mulf(a, b) == IF f_.two THEN mulTable[a][b] ELSE (a * b) % f_.p
negf(a) == IF f_.two THEN a ELSE (f_.p - a) % f_.p
subf(a, b) == addf(a, negf(b))
invertf(a) == CHOOSE b \in Elt : mulf(a, b) = 1
mone == negf(1)
half == invertf(2)

(* of_scalar(n) fails on what is not an element; beta is its binary basis *)
Fits(n) == n \in Elt
beta(i) == 2 ^ i

-----------------------------------------------------------------------------
(* Bits: c0 + c1 * x is 0 or 1 *)
BitW(c0, c1, x) == [c0 |-> c0, c1 |-> c1, x |-> x]
OfWire(x) == BitW(0, 1, x)
bit(b) == BitW(IF b = 0 THEN 0 ELSE 1, 0, 1)
bits(n, x) == Array(n, LAMBDA i : bit(bitAt(x, i)))

rebase(d0, d1, v) == BitW(addf(d0, mulf(d1, v.c0)), mulf(d1, v.c1), v.x)
eval(v) == addf(v.c0, mulf(v.c1, v.x))

as_scalar_fits(n) == Fits(2 ^ n - 1)
as_scalar(n, v) == For(n, 0, LAMBDA i, r : addf(r, mulf(beta(i), eval(v[i]))))

(* One product, without a gate for a constant factor *)
mulv(a, b) ==
  IF a.c1 = 0 THEN rebase(0, a.c0, b)
  ELSE IF b.c1 = 0 THEN rebase(0, b.c0, a)
  ELSE OfWire(addf(addf(mulf(mulf(a.c1, b.c1), mulf(a.x, b.x)), mulf(mulf(a.c0, b.c1), b.x)),
                   addf(mulf(mulf(a.c1, b.c0), a.x), mulf(a.c0, b.c0))))

addv(a, b) ==
  IF a.c1 = 0 THEN BitW(addf(a.c0, b.c0), b.c1, b.x)
  ELSE IF b.c1 = 0 THEN BitW(addf(a.c0, b.c0), a.c1, a.x)
  ELSE OfWire(addf(addf(mulf(a.c1, a.x), mulf(b.c1, b.x)), addf(a.c0, b.c0)))

lnot(x) == rebase(1, mone, x)
land(a, b) == mulv(a, b)
lmul(a, b) == eval(mulv(a, OfWire(b)))

(* A product in the basis TRUE -> -1, FALSE -> 1, a sum in characteristic 2 *)
lxor_aux(a, b) == rebase(half, negf(half), mulv(rebase(1, negf(2), a), rebase(1, negf(2), b)))
lxor(a, b) == IF f_.two THEN addv(a, b) ELSE lxor_aux(a, b)

lor(a, b) == lnot(land(lnot(a), lnot(b)))
limplies(a, b) == lor(lnot(a), b)
lor_exclusive(a, b) == addv(a, b)
lxor3(a, b, c) == lxor(lxor(a, b), c)
lCh(x, y, z) == lor_exclusive(land(x, y), land(lnot(x), z))
lMaj(x, y, z) == lor_exclusive(land(x, y), land(lxor(x, y), z))
mux(control, iftrue, iffalse) ==
  lor_exclusive(land(control, iftrue), land(lnot(control), iffalse))
mux_elt(control, iftrue, iffalse) ==
  addf(lmul(control, iftrue), lmul(lnot(control), iffalse))

-----------------------------------------------------------------------------
(* Balanced reductions and parallel prefixes of an array *)
Reduce(s, i0, i1, unit, op(_, _)) ==
  LET r[lo \in i0..i1, hi \in i0..i1] ==
        IF hi <= lo THEN unit
        ELSE IF hi = lo + 1 THEN s[lo]
        ELSE LET im == lo + ((hi - lo) \div 2) IN op(r[lo, im], r[im, hi])
  IN  r[i0, i1]

Scan(s, n, backward, op(_, _)) ==
  LET join(l, r, lo, im, hi) ==
        Table([i \in lo..(hi - 1) |->
                 IF i < im THEN (IF backward THEN op(l[i], r[im]) ELSE l[i])
                 ELSE (IF backward THEN r[i] ELSE op(l[im - 1], r[i]))])
      p[lo \in 0..n, hi \in 0..n] ==
        IF hi - lo <= 1 THEN [i \in lo..(hi - 1) |-> s[i]]
        ELSE LET im == lo + ((hi - lo) \div 2) IN join(p[lo, im], p[im, hi], lo, im, hi)
  IN  p[0, n]

add_n(n, f) == Reduce(f, 0, n, 0, addf)
mul_n(n, f) == Reduce(f, 0, n, 1, mulf)
lor_exclusive_n(n, f) == Reduce(f, 0, n, bit(0), lor_exclusive)
land_n(n, f) == Reduce(f, 0, n, bit(1), land)
lor_n(n, f) == Reduce(f, 0, n, bit(0), lor)
parity(n, a) == Reduce(a, 0, n, bit(0), lxor)
or_of_and(n, clauses) ==
  lor_n(n, Array(n, LAMBDA i : land_n(Len(clauses[i]), [j \in 0..(Len(clauses[i]) - 1) |-> clauses[i][j + 1]])))

scan_and(n, x, backward) == Scan(x, n, backward, land)
scan_or(n, x, backward) == Scan(x, n, backward, lor)
scan_xor(n, x, backward) == Scan(x, n, backward, lxor)

-----------------------------------------------------------------------------
(* mutant: what is generated below is passed on only if it was propagated there *)
gp_reduceSwapped(l, r) ==
  [g |-> lor_exclusive(r.g, land(l.p, r.g)), p |-> land(l.p, r.p)]

(* Adders.  A carry is generated (g) or propagated (p), never both. *)
gp_reduce(l, r) ==
  [g |-> lor_exclusive(r.g, land(l.g, r.p)), p |-> land(l.p, r.p)]

ripple_scan(n, gp) ==
  For(n - 1, gp, LAMBDA i, s : [s EXCEPT ![i + 1] = gp_reduce(s[i], s[i + 1])])
sklansky_scan(n, gp) == Scan(gp, n, FALSE, gp_reduce)

generate_propagate(w, a, b) ==
  Array(w, LAMBDA i : [g |-> land(a[i], b[i]), p |-> lxor(a[i], b[i])])

(* [carry, sum], from the carries that the scan finds *)
generic_gp_add(w, gp, scanned) ==
  [c |-> Array(w, LAMBDA i : IF i = 0 THEN gp[0].p ELSE lxor(gp[i].p, scanned[i - 1].g)),
   carry |-> scanned[w - 1].g]

ripple_carry_add(w, a, b) ==
  IF w = 0 THEN [c |-> <<>>, carry |-> bit(0)]
  ELSE CHOOSE r \in {generic_gp_add(w, gp, ripple_scan(w, gp)) : gp \in {generate_propagate(w, a, b)}} : TRUE
parallel_prefix_add(w, a, b) ==
  IF w = 0 THEN [c |-> <<>>, carry |-> bit(0)]
  ELSE CHOOSE r \in {generic_gp_add(w, gp, sklansky_scan(w, gp)) : gp \in {generate_propagate(w, a, b)}} : TRUE

vnot(n, x) == Array(n, LAMBDA i : lnot(x[i]))

(* ~(~a + b), whose carry is the borrow *)
ripple_carry_sub(w, a, b) ==
  CHOOSE r \in {[c |-> vnot(w, s.c), carry |-> s.carry] : s \in {ripple_carry_add(w, vnot(w, a), b)}} : TRUE
parallel_prefix_sub(w, a, b) ==
  CHOOSE r \in {[c |-> vnot(w, s.c), carry |-> s.carry] : s \in {parallel_prefix_add(w, vnot(w, a), b)}} : TRUE

(* c is the sum of the rows so far, each added where it begins *)
multiplier(w, a, b) ==
  LET row(i) == Array(w, LAMBDA j : land(a[i], b[j]))
      place(c, i, s) == Table([k \in DOMAIN c |->
                                 IF k \in i..(i + w - 1) THEN s.c[k - i]
                                 ELSE IF k = i + w THEN s.carry ELSE c[k]])
  IN  For(w, Array(2 * w, LAMBDA k : bit(0)),
          LAMBDA i, c : IF i = 0 THEN place(c, 0, [c |-> row(0), carry |-> bit(0)])
                        ELSE place(c, i, ripple_carry_add(w, row(i), [j \in 0..(w - 1) |-> c[i + j]])))

gf2_polynomial_multiplier(w, a, b) ==
  Array(2 * w, LAMBDA k :
    LET first == IF k < w THEN 0 ELSE k - w + 1
        last == IF k < w THEN k ELSE w - 1
    IN  parity(last - first + 1, Array(last - first + 1, LAMBDA i : land(a[first + i], b[k - first - i]))))

(* The products of the low halves, of the sums of the halves, of the high  *)
(* halves; for w = kKarat, 2 * kKarat, and directly below kKarat.          *)
RECURSIVE gf2_polynomial_multiplier_karat(_, _, _)
gf2_polynomial_multiplier_karat(w, a, b) ==
  IF w < kKarat THEN gf2_polynomial_multiplier(w, a, b)
  ELSE LET h == w \div 2
           low(v) == Array(h, LAMBDA i : v[i])
           high(v) == Array(h, LAMBDA i : v[i + h])
           sum(v) == Array(h, LAMBDA i : lxor(v[i], v[i + h]))
           times(u, v) == gf2_polynomial_multiplier_karat(h, u, v)
           recombine(p0, p1, p01) ==
             LET mid == Array(w, LAMBDA i : lxor3(p01[i], p0[i], p1[i]))
             IN  Array(2 * w, LAMBDA i :
                   IF i < h THEN p0[i]
                   ELSE IF i < w THEN lxor(p0[i], mid[i - h])
                   ELSE IF i < w + h THEN lxor(mid[i - h], p1[i - w])
                   ELSE p1[i - w])
       IN  recombine(times(low(a), low(b)), times(high(a), high(b)), times(sum(a), sum(b)))

(* The taps of bit j are the exponents i whose power x^i, reduced, has it *)
powersOfX == For(2 * kBits - 2, <<1>>, LAMBDA i, s : Append(s, timesX(s[Len(s)])))
taps ==
  [j \in 0..(kBits - 1) |-> SelectSeq([i \in 1..(2 * kBits - 1) |-> i - 1],
                                      LAMBDA i : bitAt(powersOfX[i + 1], j) = 1)]
gf2k_mul(w, a, b, M) ==
  CHOOSE r \in {Array(w, LAMBDA i : parity(Len(M[i]), Array(Len(M[i]), LAMBDA k : t[M[i][k + 1]]))) :
                  t \in {gf2_polynomial_multiplier_karat(w, a, b)}} : TRUE
gf2_128_mul(a, b) == gf2k_mul(kBits, a, b, taps)

-----------------------------------------------------------------------------
(* Comparisons *)
eq0(w, a) == land_n(w, Array(w, LAMBDA i : lnot(a[i])))
eq(w, a, b) == land_n(w, Array(w, LAMBDA i : lnot(lxor(a[i], b[i]))))

lt_reduce(w, a, b) ==
  Reduce(Array(w, LAMBDA i : [eq |-> lnot(lxor(a[i], b[i])), lt |-> land(lnot(a[i]), b[i])]),
         0, w, 0,
         LAMBDA l, h : [eq |-> land(h.eq, l.eq), lt |-> lor_exclusive(h.lt, land(h.eq, l.lt))])
lt(w, a, b) == IF w = 0 THEN bit(0) ELSE lt_reduce(w, a, b).lt
leq(w, a, b) == lnot(lt(w, b, a))

(* The bits of a under a mask, moved together *)
pack(mask, n, a) ==
  LET kept == SelectSeq([i \in 1..n |-> i - 1], LAMBDA i : bitAt(mask, i) = 1)
  IN  [j \in 0..(Len(kept) - 1) |-> a[kept[j + 1]]]
packed(mask, n) == Cardinality({i \in 0..(n - 1) : bitAt(mask, i) = 1})
veqmask(n, a, mask, val) ==
  eq0(packed(mask, n), pack(mask, n, Array(n, LAMBDA i : lxor(a[i], val[i]))))

-----------------------------------------------------------------------------
(* Vectors *)
vand(n, a, b) == Array(n, LAMBDA i : land(a[i], b[i]))
vand_bit(n, a, b) == Array(n, LAMBDA i : land(a, b[i]))
vor(n, a, b) == Array(n, LAMBDA i : lor(a[i], b[i]))
vor_exclusive(n, a, b) == Array(n, LAMBDA i : lor_exclusive(a[i], b[i]))
vxor(n, a, b) == Array(n, LAMBDA i : lxor(a[i], b[i]))
vCh(n, x, y, z) == Array(n, LAMBDA i : lCh(x[i], y[i], z[i]))
vMaj(n, x, y, z) == Array(n, LAMBDA i : lMaj(x[i], y[i], z[i]))
vxor3(n, x, y, z) == Array(n, LAMBDA i : lxor3(x[i], y[i], z[i]))
vmux(n, sel, v1, v0) == Array(n, LAMBDA i : mux(sel, v1[i], v0[i]))

slice(i0, i1, a) == Array(i1 - i0, LAMBDA i : a[i + i0])
vappend(na, nb, a, b) == Array(na + nb, LAMBDA i : IF i < na THEN a[i] ELSE b[i - na])
vshr(n, a, shift, b) == Array(n, LAMBDA i : IF i + shift < n THEN a[i + shift] ELSE bit(b))
vshl(n, a, shift, b) == Array(n, LAMBDA i : IF i >= shift THEN a[i - shift] ELSE bit(b))
vrotr(n, a, b) == Array(n, LAMBDA i : a[(i + b) % n])
vrotl(n, a, b) == Array(n, LAMBDA j : CHOOSE v \in {a[i] : i \in {k \in 0..(n - 1) : (k + b) % n = j}} : TRUE)
vadd(n, a, b) == parallel_prefix_add(n, a, b).c

-----------------------------------------------------------------------------
(* Assertions *)
assert0(v) == eval(v) = 0
assert1(v) == assert0(lnot(v))
assert_eq(a, b) == assert0(lxor(a, b))
assert_implies(a, b) == assert1(limplies(a, b))
assert_is_bit(v) == subf(v, mulf(v, v)) = 0
vassert_eq(n, x, y) == \A i \in 0..(n - 1) : assert_eq(x[i], y[i])

(* c = a + b, without a carry chain: cy[i] is what makes bit i + 1 right.   *)
(* For w = 1 the code compares a carry that nothing has set; it is called  *)
(* with 32.                                                                *)
assert_sum(w, c, gp) ==
  LET cy == Array(w - 1, LAMBDA i : lxor(c[i + 1], gp[i + 1].p))
  IN  /\ assert_eq(c[0], gp[0].p)
      /\ assert_eq(cy[0], gp[0].g)
      /\ \A i \in 1..(w - 2) :
           assert_eq(cy[i], lor_exclusive(gp[i].g, land(cy[i - 1], gp[i].p)))
================================================================================
