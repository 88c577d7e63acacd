----------------------------- MODULE EllipticCurve -----------------------------
(***************************************************************************)
(* Points of y^2 = x^3 + a x + b in projective coordinates <<X, Y, Z>>:    *)
(* class EllipticCurve of src/lib/ec/elliptic_curve.h.  A curve C is a     *)
(* record [a, b, g, n, k]: the coefficients, the generator <<gx, gy>>, the *)
(* order of the group and kBits.  A sum of temporaries is written as the   *)
(* polynomial it computes.                                                 *)
(***************************************************************************)
EXTENDS PrimeField, Sequences, FiniteSets

negf(a) == subf(0, a)
k(c, a) == mulf(c % P, a)                        \* by a small constant
k3b(C) == k(3, C.b)

zero == <<0, 1, 0>>
generator(C) == <<C.g[1], C.g[2], 1>>
is_zero_a(C) == C.a = 0
is_minus_3_a(C) == C.a = negf(3 % P)

is_on_curve(C, x, y) ==
  mulf(y, y) = addf(addf(mulf(x, mulf(x, x)), mulf(C.a, x)), C.b)

equal(p, q) ==
  \/ \A r \in {p, q} : r[1] = 0 /\ r[3] = 0 /\ r[2] # 0
  \/ p = q
  \/ mulf(p[1], q[3]) = mulf(q[1], p[3]) /\ mulf(p[2], q[3]) = mulf(q[2], p[3])

normalize(p) ==
  IF p[3] = 0 THEN p
  ELSE <<mulf(p[1], invertf(p[3])), mulf(p[2], invertf(p[3])), 1>>

-----------------------------------------------------------------------------
(* The products of the coordinates of two points, and their mixed sums *)
M(p, q, i, j) == mulf(p[i], q[j])
S(p, q, i, j) == addf(M(p, q, i, j), M(p, q, j, i))

addEZeroA(C, p, q) ==
  LET bzz == mulf(k3b(C), M(p, q, 3, 3))
      low == subf(M(p, q, 2, 2), bzz)
      high == addf(M(p, q, 2, 2), bzz)
  IN  <<subf(mulf(S(p, q, 1, 2), low), mulf(k3b(C), mulf(S(p, q, 2, 3), S(p, q, 1, 3)))),
        addf(mulf(high, low), k(9, mulf(C.b, mulf(M(p, q, 1, 1), S(p, q, 1, 3))))),
        addf(mulf(S(p, q, 2, 3), high), k(3, mulf(M(p, q, 1, 1), S(p, q, 1, 2))))>>

addEMinus3A(C, p, q) ==
  LET f == k(3, subf(S(p, q, 1, 3), mulf(C.b, M(p, q, 3, 3))))
      low == subf(M(p, q, 2, 2), f)
      high == addf(M(p, q, 2, 2), f)
      g == k(3, subf(subf(mulf(C.b, S(p, q, 1, 3)), k(3, M(p, q, 3, 3))), M(p, q, 1, 1)))
      h == k(3, subf(M(p, q, 1, 1), M(p, q, 3, 3)))
  IN  <<subf(mulf(S(p, q, 1, 2), high), mulf(S(p, q, 2, 3), g)),
        addf(mulf(high, low), mulf(h, g)),
        addf(mulf(S(p, q, 2, 3), low), mulf(S(p, q, 1, 2), h))>>

doubleEZeroA(C, p) ==
  LET yy == M(p, p, 2, 2)
      zz == M(p, p, 3, 3)
      low == subf(yy, k(9, mulf(C.b, zz)))
      high == addf(yy, mulf(k3b(C), zz))
  IN  <<k(2, mulf(M(p, p, 1, 2), low)),
        addf(mulf(low, high), k(24, mulf(C.b, mulf(yy, zz)))),
        k(8, mulf(yy, M(p, p, 2, 3)))>>

doubleEMinus3A(C, p) ==
  LET f == k(3, subf(mulf(C.b, M(p, p, 3, 3)), k(2, M(p, p, 1, 3))))
      low == subf(M(p, p, 2, 2), f)
      high == addf(M(p, p, 2, 2), f)
      g == k(3, subf(subf(k(2, mulf(C.b, M(p, p, 1, 3))), k(3, M(p, p, 3, 3))), M(p, p, 1, 1)))
      h == k(3, subf(M(p, p, 1, 1), M(p, p, 3, 3)))
  IN  <<subf(mulf(low, k(2, M(p, p, 1, 2))), mulf(k(2, M(p, p, 2, 3)), g)),
        addf(mulf(low, high), mulf(h, g)),
        k(8, mulf(M(p, p, 2, 3), M(p, p, 2, 2)))>>

(* the general formula, after the short cut for the point at infinity *)
doubleE(C, p) ==
  IF is_zero_a(C) THEN doubleEZeroA(C, p)
  ELSE IF is_minus_3_a(C) THEN doubleEMinus3A(C, p)
  ELSE IF p[1] = 0 /\ p[3] = 0 THEN <<p[1], 1, p[3]>>
  ELSE LET s == M(p, p, 2, 3)
           w == addf(mulf(C.a, M(p, p, 3, 3)), k(3, M(p, p, 1, 1)))
           r == mulf(p[2], s)
           b == mulf(p[1], r)
           h == subf(mulf(w, w), k(8, b))
       IN  <<mulf(h, k(2, s)),
             subf(mulf(w, subf(k(4, b), h)), k(8, mulf(r, r))),
             k(8, mulf(s, mulf(s, s)))>>

(* the general formula: the points are taken for equal when u is zero and, *)
(* failing that, for opposite when v is                                    *)
addE(C, p, q) ==
  LET u == subf(M(p, q, 3, 2), M(p, q, 2, 3))
      v == subf(M(p, q, 3, 1), M(p, q, 1, 3))
      vv == mulf(v, v)
      vvv == mulf(v, vv)
      zz == M(p, q, 3, 3)
      r == mulf(vv, M(p, q, 1, 3))
      a == subf(subf(mulf(mulf(u, u), zz), vvv), k(2, r))
  IN  CASE is_zero_a(C) -> addEZeroA(C, p, q)
        [] is_minus_3_a(C) -> addEMinus3A(C, p, q)
        [] OTHER ->
             IF p[1] = 0 /\ p[3] = 0 THEN q
             ELSE IF q[1] = 0 /\ q[3] = 0 THEN p
             ELSE IF u = 0 THEN doubleE(C, p)
             ELSE IF v = 0 THEN zero
             ELSE <<mulf(v, a),
                    subf(mulf(u, subf(r, a)), mulf(vvv, M(p, q, 2, 3))),
                    mulf(vvv, zz)>>

-----------------------------------------------------------------------------
(* scalar_multf of one point: add and double from the lowest bit, through  *)
(* all the bits of the word                                                *)
scalar_multf(C, width, point, scalar) ==
  LET turn[i \in 0..width] ==
        IF i = 0 THEN [x |-> point, p3 |-> zero]
        ELSE LET t == turn[i - 1]
             IN  [x |-> doubleE(C, t.x),
                  p3 |-> IF (scalar \div (2 ^ (i - 1))) % 2 = 1 THEN addE(C, t.p3, t.x) ELSE t.p3]
  IN  turn[width].p3

(* The heap of bos_coster holds [p, s]; node 0 has the child 1, node i > 0 *)
(* the children 2 i and 2 i + 1.  bury puts t at i and restores the order.  *)
Size(h) == Cardinality(DOMAIN h)

RECURSIVE bury(_, _, _)
bury(h, i, t) ==
  LET cld == IF (2 * i) + 1 < Size(h) /\ h[2 * i].s < h[(2 * i) + 1].s
             THEN (2 * i) + 1 ELSE 2 * i
  IN  IF 2 * i < Size(h) /\ t.s < h[cld].s
      THEN bury([h EXCEPT ![i] = h[cld]], cld, t)
      ELSE [h EXCEPT ![i] = t]

bury0(h) == IF h[0].s < h[1].s THEN bury([h EXCEPT ![0] = h[1]], 1, h[0]) ELSE h

heap(h) ==
  LET b[i \in 1..((Size(h) \div 2) + 1)] ==
        IF i = (Size(h) \div 2) + 1 THEN h ELSE LET r == b[i + 1] IN bury(r, i, r[i])
  IN  bury0(b[1])

(* One turn halves the largest scalar or takes the second largest off it,  *)
(* whichever makes it smaller.                                             *)
RECURSIVE bos_coster_from(_, _, _)
bos_coster_from(C, h, res) ==
  LET ns0 == h[0].s - h[1].s
  IN  IF h[0].s = 0 THEN res
      ELSE IF h[1].s < ns0
      THEN bos_coster_from(C,
             bury0([h EXCEPT ![0] = [p |-> doubleE(C, h[0].p), s |-> h[0].s \div 2]]),
             IF h[0].s % 2 = 1 THEN addE(C, res, h[0].p) ELSE res)
      ELSE bos_coster_from(C,
             bury0([h EXCEPT ![0].s = ns0, ![1].p = addE(C, h[1].p, h[0].p)]), res)

bos_coster(C, h) == bos_coster_from(C, heap(h), zero)

-----------------------------------------------------------------------------
(* The group by its definition: an affine point or infinity, and the chord *)
(* and tangent law                                                         *)
Infinity == <<>>
AffinePoints(C) == {Infinity} \union {p \in Elt \X Elt : is_on_curve(C, p[1], p[2])}

AffineAdd(C, p, q) ==
  LET slope == IF p # q
               THEN mulf(subf(q[2], p[2]), invertf(subf(q[1], p[1])))
               ELSE mulf(addf(k(3, mulf(p[1], p[1])), C.a), invertf(k(2, p[2])))
      x == subf(mulf(slope, slope), addf(p[1], q[1]))
  IN  IF p = Infinity THEN q
      ELSE IF q = Infinity THEN p
      ELSE IF p[1] = q[1] /\ p[2] = negf(q[2]) THEN Infinity
      ELSE <<x, subf(mulf(slope, subf(p[1], x)), p[2])>>

(* what a triple of coordinates stands for; none stands for <<0, 0, 0>> *)
Affine(p) ==
  IF p[3] = 0 THEN (IF p[1] = 0 /\ p[2] # 0 THEN Infinity ELSE <<"none">>)
  ELSE SubSeq(normalize(p), 1, 2)

AffineMult(C, p, n) ==
  LET m[i \in 0..n] == IF i = 0 THEN Infinity ELSE AffineAdd(C, m[i - 1], p) IN m[n]
================================================================================
