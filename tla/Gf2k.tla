-------------------------------- MODULE Gf2k ---------------------------------
(***************************************************************************)
(* src/lib/gf2k: class GF2_128 of gf2_128.h, the polynomials of gf2poly.h  *)
(* and the portable multiplication of sysdep.h, for a field of any degree  *)
(* 2^kLogBits; the additive Fourier transform of lch14.h and the           *)
(* Reed-Solomon extension of lch14_reed_solomon.h.  A word is the set of   *)
(* the positions of its one bits.  The members that the constructor of the *)
(* field fills are the record f; w_hat holds the normalised subspace       *)
(* polynomials at the basis, filled by the constructor of the transform.   *)
(* An array is a function from 0, and a loop over disjoint butterflies is  *)
(* a map.                                                                  *)
(***************************************************************************)
EXTENDS Integers, Sequences, FiniteSetsExt, TLC

CONSTANTS
  kLogBits, kSubFieldLogBits,    \* the field, the subfield
  Poly,                          \* POLY without its leading term
  kLanes,                        \* the distance of the bits of a mask m0, m1, ...
  kNPolyEvaluationPoints

VARIABLES f, w_hat

kBits == 2 ^ kLogBits
kSubFieldBits == 2 ^ kSubFieldLogBits
kHalf == kBits \div 2            \* the 64 of two words a number

(* for (i = 0; i < n; ++i) s = op(i, s).  The singletons only make a value *)
(* of s before op looks at it.                                             *)
For(n, base, op(_, _)) ==
  LET s[k \in 0..n] ==
        IF k = 0 THEN base ELSE CHOOSE r \in {op(k - 1, v) : v \in {s[k - 1]}} : TRUE
  IN  s[n]

(* The function itself, which TLC tabulates here and not at every use *)
Table(fn) == fn @@ <<>>

Nat2(a) == FoldSet(LAMBDA i, acc : acc + (2 ^ i), 0, a)
Set2(x, n) == {i \in 0..(n - 1) : (x \div (2 ^ i)) % 2 = 1}

addf(a, b) == (a \ b) \cup (b \ a)
subf(a, b) == addf(a, b)
negf(a) == a
zero == {}
one == {0}
x == {1}
shiftr(a) == {i - 1 : i \in a \ {0}}

(* operator<: the order of the numbers *)
Less(a, b) == a # b /\ Max(addf(a, b)) \in b

(* Kronecker substitution: the words are cut into lanes that are multiplied *)
(* as integers, with kLanes - 1 free bits to take the carries.              *)
clmul64_lo(a, b) ==
  LET lane(w, k) == {i \in w : i % kLanes = k}
      times(k, j) ==
        Set2((Nat2(lane(a, j)) * Nat2(lane(b, (k + kLanes - j) % kLanes))) % (2 ^ kHalf), kHalf)
      z(k) == For(kLanes, zero, LAMBDA j, acc : addf(acc, times(k, j)))
  IN  UNION {lane(z(k), k) : k \in 0..(kLanes - 1)}

bitrev64(w) == {kHalf - 1 - i : i \in w}
clmul64_hi(a, b) == shiftr(bitrev64(clmul64_lo(bitrev64(a), bitrev64(b))))

Low(w) == {i \in w : i < kHalf}
High(w) == {i - kHalf : i \in w \ Low(w)}
Up(w) == {i + kHalf : i \in w}

clmul64(a, b) == clmul64_lo(a, b) \cup Up(clmul64_hi(a, b))

(* t0 + x^64 t1 *)
gf2_128_reduce(t0, t1) ==
  FoldSet(LAMBDA i, acc : addf(acc, {j + i : j \in High(t1)}), addf(t0, Up(Low(t1))), Poly)

(* Karatsuba on two halves, from the products of the low ones, of the sums, *)
(* of the high ones                                                        *)
karatsuba(t0, t01, t2) == gf2_128_reduce(t0, gf2_128_reduce(addf(t01, addf(t0, t2)), t2))
mulf(a, b) ==
  karatsuba(clmul64(Low(a), Low(b)),
            clmul64(addf(Low(a), High(a)), addf(Low(b), High(b))),
            clmul64(High(a), High(b)))

invx == shiftr(Poly) \cup {kBits - 1}

(* Euclid on polynomials with constant term 1, of which b is kept without  *)
(* it and divided by x: POLY itself has one bit too many for a word.       *)
invertf(e) ==
  LET euclid[s \in [a : SUBSET (0..(kBits - 1)), bm1ox : SUBSET (0..(kBits - 1)),
                    u : SUBSET (0..(kBits - 1)), v : SUBSET (0..(kBits - 1))]] ==
        IF s.a = {} THEN s.v
        ELSE IF 0 \notin s.a
        THEN euclid[[s EXCEPT !.a = shiftr(@), !.u = mulf(@, invx)]]
        ELSE LET t == IF Less(shiftr(s.a), s.bm1ox)
                      THEN [a |-> s.bm1ox, bm1ox |-> shiftr(s.a), u |-> s.v, v |-> s.u]
                      ELSE [s EXCEPT !.a = shiftr(@)]
             IN  euclid[[t EXCEPT !.a = addf(@, t.bm1ox), !.u = mulf(addf(@, t.v), invx)]]
  IN  euclid[[a |-> e, bm1ox |-> invx, u |-> one, v |-> zero]]

(* r^((2^2^i) + 1) for every level between the subfield and the field *)
subfield_generator ==
  For(kLogBits - kSubFieldLogBits, x,
      LAMBDA i, r : mulf(r, For(2 ^ (i + kSubFieldLogBits), r, LAMBDA j, s : mulf(s, s))))

(* g, g^2, g^4, ... or 1, g, g^2, ... *)
Chain(first, next(_)) ==
  LET c[i \in 1..kSubFieldBits] == IF i = 1 THEN <<first>> ELSE Append(c[i - 1], next(c[i - 1][i - 1]))
  IN  c[kSubFieldBits]

-----------------------------------------------------------------------------
(* Row-echelon form of the basis, column by column, and the combination    *)
(* of the basis that each row is.                                          *)
beta_ref(beta) ==
  LET rows == 1..kSubFieldBits
      pivot(j, t) ==
        LET at == {i \in rows : i > t.rnk /\ j \in t.u[i]}
            i0 == Min(at)
            r == t.rnk + 1
            u == [t.u EXCEPT ![r] = t.u[i0], ![i0] = t.u[r]]
            linv == [t.linv EXCEPT ![r] = t.linv[i0], ![i0] = t.linv[r]]
            clear(i) == i > r /\ j \in u[i]
        IN  IF at = {} THEN t
            ELSE [u |-> [i \in rows |-> IF clear(i) THEN addf(u[i], u[r]) ELSE u[i]],
                  linv |-> [i \in rows |-> IF clear(i) THEN addf(linv[i], linv[r]) ELSE linv[i]],
                  ldnz |-> Append(t.ldnz, j), rnk |-> r]
  IN  For(kBits, [u |-> beta, linv |-> [i \in rows |-> {i - 1}], ldnz |-> <<>>, rnk |-> 0], pivot)

poly_evaluation_points(g) ==
  For(kNPolyEvaluationPoints - 1, [pts |-> <<zero>>, gi |-> one],
      LAMBDA i, s : [pts |-> Append(s.pts, s.gi), gi |-> mulf(s.gi, g)]).pts

(* The members after the constructor; check(rnk == kSubFieldBits) *)
Constructed ==
  LET g == subfield_generator
      beta == Chain(one, LAMBDA b : mulf(b, g))
      ref == beta_ref(beta)
      pts == poly_evaluation_points(g)
  IN  [g |-> g, invg |-> invertf(g), beta |-> beta,
       u |-> ref.u, linv |-> ref.linv, ldnz |-> ref.ldnz,
       counter_beta |-> Chain(g, LAMBDA c : mulf(c, c)),
       points |-> pts,
       newton |-> [k \in 1..Len(pts) |-> [i \in 1..(k - 1) |-> invertf(subf(pts[k], pts[k - i]))]]]

-----------------------------------------------------------------------------
(* Scalars u below 2^kSubFieldBits: the coordinates in the basis *)
of_scalar(u) == For(kSubFieldBits, zero, LAMBDA k, t : IF k \in u THEN addf(t, f.beta[k + 1]) ELSE t)

(* What is left of e after the rows with its bits were taken off, and the  *)
(* coordinates found                                                       *)
solve(e) ==
  For(kSubFieldBits, [ue |-> e, u |-> {}],
      LAMBDA k, s : IF f.ldnz[k + 1] \in s.ue
                    THEN [ue |-> addf(s.ue, f.u[k + 1]), u |-> addf(s.u, f.linv[k + 1])]
                    ELSE s)

in_subfield(e) == solve(e).ue = zero
to_bytes_subfield(e) == solve(e).u

(* g^n.  The counter of all ones is not admitted: it would be g^0 again.   *)
Panic == {-1}      \* what a failed check leaves
as_counter(n) ==
  IF n = 0..(kSubFieldBits - 1) THEN Panic
  ELSE For(kSubFieldBits, one, LAMBDA i, r : IF i \in n THEN mulf(r, f.counter_beta[i + 1]) ELSE r)
counter_beta(i) == f.counter_beta[i + 1]
znz_indicator(c) == subf(c, one)
newton_denominator(k, i) == f.newton[k + 1][i]

-----------------------------------------------------------------------------
(* lch14.h *)

(* W[i + 1][j] = W[i][j] (W[i][j] + W[i][i]), then divided by W[i][i] *)
Normalised(beta) ==
  LET W[i \in 1..kSubFieldBits] ==
        IF i = 1 THEN <<beta>>
        ELSE LET prev == W[i - 1]
                 row == prev[i - 1]
             IN  Append(prev, Table([j \in DOMAIN row |-> mulf(row[j], addf(row[j], row[i - 1]))]))
      rows == W[kSubFieldBits]
  IN  [i \in DOMAIN rows |->
         LET scale == invertf(rows[i][i]) IN [j \in DOMAIN rows[i] |-> mulf(scale, rows[i][j])]]

WHat(i, j) == w_hat[i + 1][j + 1]

twiddle(i, u) == For(kSubFieldBits, zero, LAMBDA k, t : IF k \in Set2(u, kSubFieldBits) THEN addf(t, WHat(i, k)) ELSE t)

(* All twiddles of a level by doubling: tw[u + 2^k] = tw[u] + W[i][i + 1 + k] *)
twiddles(i, l, coset) ==
  For(l - (i + 1), [u \in {0} |-> twiddle(i, coset)],
      LAMBDA k, tw : Table([u \in 0..((2 ^ (k + 1)) - 1) |->
                              IF u < 2 ^ k THEN tw[u] ELSE addf(tw[u - (2 ^ k)], WHat(i, i + 1 + k))]))

-----------------------------------------------------------------------------
(* The pair <<B[uv], B[uv + s]>> after a butterfly *)
forward(c, b1) == <<c, addf(b1, c)>>
butterfly_fwd(b0, b1, twu) == forward(addf(b0, mulf(twu, b1)), b1)
butterfly_bwd(b0, b1, twu) == LET c == subf(b1, b0) IN <<subf(b0, mulf(twu, c)), c>>
butterfly_diag(b0, b1, twu) == <<subf(b0, mulf(twu, b1)), addf(b1, b0)>>

(* The butterfly on every pair (uv, uv + s) with uv in at *)
Exchanged(B, s, pair) ==
  Table([k \in DOMAIN B |-> IF k \in DOMAIN pair THEN pair[k][1]
                            ELSE IF k - s \in DOMAIN pair THEN pair[k - s][2] ELSE B[k]])
Butterflies(B, at, s, twu(_), butterfly(_, _, _)) ==
  Exchanged(B, s, Table([uv \in at |-> butterfly(B[uv], B[uv + s], twu(uv))]))

(* One level: blocks of 2 s elements with one twiddle each *)
Level(B, i, l, coset, butterfly(_, _, _)) ==
  LET s == 2 ^ i
      tw == twiddles(i, l, coset)
  IN  Butterflies(B, {k \in DOMAIN B : (k \div s) % 2 = 0}, s,
                  LAMBDA uv : tw[uv \div (2 * s)], butterfly)

FFT(l, coset, B) == For(l, B, LAMBDA k, A : Level(A, l - 1 - k, l, coset, butterfly_fwd))
IFFT(l, coset, B) == For(l, B, LAMBDA i, A : Level(A, i, l, coset, butterfly_bwd))

Part(B, from, n) == [k \in 0..(n - 1) |-> B[from + k]]
Joined(A, B, s) == Table([k \in 0..((2 * s) - 1) |-> IF k < s THEN A[k] ELSE B[k - s]])
Lower(B, s, op(_)) == Joined(op(Part(B, 0, s)), Part(B, s, s), s)
Upper(B, s, op(_)) == Joined(Part(B, 0, s), op(Part(B, s, s)), s)

RECURSIVE bidir_recur(_, _, _, _)
(* The first k values and the other coefficients are given, and exchanged  *)
(* for the first k coefficients and the other values.                      *)
bidir_recur(l, coset, k, B) ==
  IF l = 0 THEN B
  ELSE LET i == l - 1
           s == 2 ^ i
           twu(uv) == twiddle(i, coset)
       IN  IF k < s
           THEN Upper(Butterflies(Lower(Butterflies(B, k..(s - 1), s, twu, butterfly_fwd),
                                        s, LAMBDA L : bidir_recur(i, coset, k, L)),
                                  0..(k - 1), s, twu, butterfly_diag),
                      s, LAMBDA U : FFT(i, coset + s, U))
           ELSE Butterflies(Upper(Butterflies(Lower(B, s, LAMBDA L : IFFT(i, coset, L)),
                                              (k - s)..(s - 1), s, twu, butterfly_diag),
                                  s, LAMBDA U : bidir_recur(i, coset + s, k - s, U)),
                            0..(k - s - 1), s, twu, butterfly_bwd)

BidirectionalFFT(l, k, B) == bidir_recur(l, 0, k, B)

-----------------------------------------------------------------------------
(* The size of the transform of n values *)
log2ceil(n) == CHOOSE l \in 0..kSubFieldBits : 2 ^ l >= n /\ (l = 0 \/ 2 ^ (l - 1) < n)

(* n values extended to m: the rest of the first coset comes out of the    *)
(* bidirectional transform, every other coset is a transform of the        *)
(* coefficients, of which those from n on are zero.                        *)
FirstOf(n, l, C) == [i \in 0..((2 ^ l) - 1) |-> IF i < n THEN C[i] ELSE zero]
Extended(n, m, y, l, C) ==
  LET fftn == 2 ^ l
      other == [c \in 1..((m - 1) \div fftn) |-> FFT(l, c * fftn, FirstOf(n, l, C))]
  IN  [i \in 0..(m - 1) |->
         IF i < n THEN y[i]
         ELSE IF i < fftn THEN C[i] ELSE other[i \div fftn][i % fftn]]
interpolate(n, m, y) ==
  LET l == log2ceil(n)
  IN  Extended(n, m, y, l, BidirectionalFFT(l, n, FirstOf(n, l, y)))
================================================================================
