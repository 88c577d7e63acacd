---------------------------------- MODULE Quad ---------------------------------
(***************************************************************************)
(* The arrays of src/lib/arrays: the equality polynomial EQ[Q, i] as       *)
(* Eqs::raw_eq2 tabulates it for two points and Eqs::filleq for one, and   *)
(* the binding of a Dense array.  An array of n elements is a function on  *)
(* 0..(n - 1), a point one on 0..(logn - 1).                               *)
(*                                                                         *)
(* And the quadratic form of a circuit layer: EQuad, Quad and HQuad of     *)
(* src/lib/sumcheck, with the Morton order of src/lib/util/ceildiv.h.      *)
(*                                                                         *)
(* A term is [g |-> output wire, h |-> <<right, left>> input wires,        *)
(* v |-> coefficient]; a zero coefficient asserts that the product of the  *)
(* two inputs is zero.  A quad is a sequence of terms in the order of the  *)
(* interleaved bits of h, in which terms that differ in the lowest bit of  *)
(* the next hand to bind are neighbours.  Hand 0 of the code is h[1] here, *)
(* hand 1 is h[2].                                                         *)
(***************************************************************************)
EXTENDS PrimeField, Sequences, FiniteSets, TLC

CONSTANTS
  Width,     \* bits of size_t, in which Morton numbers are compared
  Corners    \* 2^32: the values of quad_corner_t

Seqs == INSTANCE SequencesExt

Bit(x, k) == (x \div (2 ^ k)) % 2

lg(n) == CHOOSE k \in 0..n : 2 ^ k >= n /\ \A j \in 0..(k - 1) : 2 ^ j < n

ceilshr(a, k) == 1 + ((a - 1) \div (2 ^ k))

-----------------------------------------------------------------------------
(* raw_eq2: EQ(G0, x) + alpha EQ(G1, x) for x < m, one half after the other *)
RawEq2(size, m, G0, G1, alpha) ==
  LET Half(x) == 2 ^ (x - 1)
      fill[k \in 0..size, c \in 1..m, w0 \in Elt, w1 \in Elt] ==
        IF k = 0 THEN <<addf(w0, w1)>>
        ELSE LET w0hi == mulf(w0, G0[k - 1])
                 w1hi == mulf(w1, G1[k - 1])
                 w0lo == subf(w0, w0hi)
                 w1lo == subf(w1, w1hi)
                 s == Half(k)
             IN  IF c <= s THEN fill[k - 1, c, w0lo, w1lo]
                 ELSE fill[k - 1, s, w0lo, w1lo] \o fill[k - 1, c - s, w0hi, w1hi]
      out == fill[size, m, 1 % P, alpha]
  IN  [x \in 0..(m - 1) |-> out[x + 1]]

(* filleq: the same table for one point, doubled in place once per          *)
(* coordinate from the last element down; the last element of an odd        *)
(* length has no partner and is filled first                                *)
filleq(size, m, I) ==
  LET Split(e, l, i) == [e EXCEPT ![2 * i] = subf(e[i], mulf(I[l], e[i])),
                                  ![(2 * i) + 1] = mulf(I[l], e[i])]
      Level(e, l) ==
        LET n == ceilshr(m, l)
            last == ceilshr(n, 1) - 1
            odd == (2 * last) + 1 >= n
            f == IF odd THEN [e EXCEPT ![2 * last] = subf(e[last], mulf(I[l], e[last]))] ELSE e
            pairs == IF odd THEN last ELSE last + 1
        IN  Seqs!FoldRight(LAMBDA k, g : Split(g, l, k - 1), [k \in 1..pairs |-> k], f)
  IN  Seqs!FoldLeft(LAMBDA e, k : Level(e, size - k),
        [x \in 0..(m - 1) |-> IF x = 0 THEN 1 % P ELSE 0], [k \in 1..size |-> k])

(* mutant: the last element of an odd length is copied *)
bindCopy(x, D, m) ==
  [j \in 0..(((m + 1) \div 2) - 1) |->
     IF (2 * j) + 1 < m
     THEN addf(D[2 * j], mulf(x, subf(D[(2 * j) + 1], D[2 * j])))
     ELSE D[2 * j]]

(* Dense::bind on m elements: the missing partner of the last one is zero *)
bind(x, D, m) ==
  [j \in 0..(((m + 1) \div 2) - 1) |->
     IF (2 * j) + 1 < m
     THEN addf(D[2 * j], mulf(x, subf(D[(2 * j) + 1], D[2 * j])))
     ELSE subf(D[2 * j], mulf(D[2 * j], x))]

(* bind_all, then scalar, of an array of at most 2^size elements *)
bind_all(size, D, m, R) ==
  LET b[k \in 0..size] ==
        IF k = 0 THEN D ELSE bind(R[k - 1], b[k - 1], ceilshr(m, k - 1))
  IN  b[size][0]

-----------------------------------------------------------------------------
(* Morton numbers: a word is the set of its bits, a number two words, its  *)
(* even bits and its odd bits.                                             *)
Word(a) == {k \in 0..(Width - 1) : Bit(a, k) = 1}
Value(x) ==
  LET v[k \in 0..Width] ==
        IF k = 0 THEN 0 ELSE v[k - 1] + (IF (k - 1) \in x THEN 2 ^ (k - 1) ELSE 0)
  IN  v[Width]
Xor(x, y) == (x \union y) \ (x \intersect y)
Complement(x) == (0..(Width - 1)) \ x
Plus(x, y) == Word((Value(x) + Value(y)) % (2 ^ Width))

(* The carries of both halves go through one addition of words. *)
MortonAdd(x, y) ==
  LET g0 == x[1] \intersect y[1]   p0 == Xor(x[1], y[1])
      g1 == x[2] \intersect y[2]   p1 == Xor(x[2], y[2])
      g == Xor(g1, g0 \intersect p1)
      p == p0 \intersect p1
      carry == Xor(Plus(g, Xor(p, g)), p)
  IN  <<Xor(carry, p0), Xor(Xor(g0, carry \intersect p0), p1)>>

MortonSub(x, y) ==
  LET s == MortonAdd(<<Complement(x[1]), Complement(x[2])>>, y)
  IN  <<Complement(s[1]), Complement(s[2])>>

(* less than, by the sign of the difference *)
MortonLt(x, y) == (Width - 1) \in MortonSub(x, y)[2]

Morton(h) == <<Word(h[1]), Word(h[2])>>

-----------------------------------------------------------------------------
(* std::sort, also of a sequence in which two elements are equal: 1..n as  *)
(* insertion orders it, where before has the pairs of which the first goes *)
(* before the second                                                       *)
Order(n, before) ==
  LET ord[m \in 0..n] ==
        IF m = 0 THEN <<>>
        ELSE LET o == ord[m - 1]
             IN  Seqs!InsertAt(o, 1 + Cardinality({j \in DOMAIN o : <<m, o[j]>> \notin before}), m)
  IN  ord[n]
Sorted(s, Precedes(_, _)) ==
  LET ord == Order(Len(s), {p \in (DOMAIN s) \X (DOMAIN s) : Precedes(s[p[1]], s[p[2]])})
  IN  [k \in DOMAIN s |-> s[ord[k]]]

-----------------------------------------------------------------------------
(* EQuad *)
Ordered(t) == IF t.h[1] > t.h[2] THEN [t EXCEPT !.h = <<t.h[2], t.h[1]>>] ELSE t

(* compare_ecorner *)
Before(s, t) ==
  \/ MortonLt(Morton(s.h), Morton(t.h))
  \/ s.h = t.h /\ s.g < t.g
  \/ s.h = t.h /\ s.g = t.g /\ s.v < t.v

(* add t to the last term of out if it has the same indices *)
Coalesced(out, t) ==
  IF out # <<>> /\ Seqs!Last(out).h = t.h /\ Seqs!Last(out).g = t.g
  THEN [out EXCEPT ![Len(out)].v = addf(@, t.v)]
  ELSE Append(out, t)

canonicalize(raw) ==
  LET s == Sorted([k \in DOMAIN raw |-> Ordered(raw[k])], Before)
      out[k \in 0..Len(s)] == IF k = 0 THEN <<>> ELSE Coalesced(out[k - 1], s[k])
  IN  out[Len(s)]

-----------------------------------------------------------------------------
(* Quad: differences of corners, modulo the width of a corner *)
Wrap(a) == a % Corners

compress(ec) ==
  [k \in DOMAIN ec |->
     LET d(a, b) == Wrap(a + (Corners - b))
     IN  IF k = 1 THEN ec[1]
         ELSE [g |-> d(ec[k].g, ec[k - 1].g),
               h |-> <<d(ec[k].h[1], ec[k - 1].h[1]), d(ec[k].h[2], ec[k - 1].h[2])>>,
               v |-> ec[k].v]]

(* the terms const_iterator goes through *)
iterate(q) ==
  LET it[k \in 0..Len(q)] ==
        IF k = 0 THEN [g |-> 0, h |-> <<0, 0>>]
        ELSE [g |-> Wrap(it[k - 1].g + q[k].g),
              h |-> <<Wrap(it[k - 1].h[1] + q[k].h[1]), Wrap(it[k - 1].h[2] + q[k].h[2])>>]
  IN  [k \in DOMAIN q |-> [g |-> it[k].g, h |-> it[k].h, v |-> q[k].v]]

prep_v(v, dot, beta) == IF v = 0 THEN mulf(beta, dot) ELSE mulf(v, dot)

(* the HQuad of a Quad at EQ(G0, g) + alpha EQ(G1, g): one corner a pair   *)
(* of hands                                                                *)
bind_g(quad, logv, G0, G1, alpha, beta) ==
  LET dot == RawEq2(logv, 2 ^ logv, G0, G1, alpha)
      Corner(out, t) ==
        LET c == [h |-> t.h, v |-> prep_v(t.v, dot[t.g], beta)]
        IN  IF out # <<>> /\ Seqs!Last(out).h = c.h
            THEN [out EXCEPT ![Len(out)].v = addf(@, c.v)]
            ELSE Append(out, c)
  IN  Seqs!FoldLeft(Corner, <<>>, quad)

bind_gh_all(quad, logv, G0, G1, alpha, beta, logw, H0, H1) ==
  LET dot == RawEq2(logv, 2 ^ logv, G0, G1, alpha)
      eqh0 == filleq(logw, 2 ^ logw, H0)
      eqh1 == filleq(logw, 2 ^ logw, H1)
      Term(t) == mulf(mulf(prep_v(t.v, dot[t.g], beta), eqh0[t.h[1]]), eqh1[t.h[2]])
  IN  Seqs!FoldLeft(LAMBDA s, t : addf(s, Term(t)), 0, quad)

(* eval_quad: a term without coefficient asserts, the others are summed *)
AssertionsHold(quad, W) ==
  \A t \in Seqs!ToSet(quad) : t.v = 0 => mulf(W[t.h[2]], W[t.h[1]]) = 0

TermOf(t, W, g) == IF t.g = g THEN mulf(mulf(t.v, W[t.h[2]]), W[t.h[1]]) ELSE 0
GateValue(quad, W, g) ==
  LET terms == [k \in DOMAIN quad |-> TermOf(quad[k], W, g)]
  IN  Sum(Len(quad), LAMBDA k : terms[k + 1])

-----------------------------------------------------------------------------
(* HQuad *)
(* c and d are the two halves of one corner when hand is bound. *)
Halves(c, d, hand) ==
  /\ c.h[3 - hand] = d.h[3 - hand]
  /\ c.h[hand] \div 2 = d.h[hand] \div 2
  /\ d.h[hand] = c.h[hand] + 1

(* mutant: a lone upper half is bound like a lower one *)
bind_hLow(hq, x, hand) ==
  LET Half(c, v) == [h |-> [c.h EXCEPT ![hand] = @ \div 2], v |-> v]
      from[k \in 1..(Len(hq) + 1)] ==
        IF k > Len(hq) THEN <<>>
        ELSE IF k < Len(hq) /\ Halves(hq[k], hq[k + 1], hand)
        THEN <<Half(hq[k], addf(hq[k].v, mulf(x, subf(hq[k + 1].v, hq[k].v))))>>
               \o from[k + 2]
        ELSE <<Half(hq[k], subf(hq[k].v, mulf(hq[k].v, x)))>> \o from[k + 1]
  IN  from[1]

(* one pass over the corners: two halves are interpolated, a lone one      *)
(* with zero                                                               *)
bind_h(hq, x, hand) ==
  LET Half(c, v) == [h |-> [c.h EXCEPT ![hand] = @ \div 2], v |-> v]
      from[k \in 1..(Len(hq) + 1)] ==
        IF k > Len(hq) THEN <<>>
        ELSE IF k < Len(hq) /\ Halves(hq[k], hq[k + 1], hand)
        THEN <<Half(hq[k], addf(hq[k].v, mulf(x, subf(hq[k + 1].v, hq[k].v))))>>
               \o from[k + 2]
        ELSE IF hq[k].h[hand] % 2 = 0
        THEN <<Half(hq[k], subf(hq[k].v, mulf(hq[k].v, x)))>> \o from[k + 1]
        ELSE <<Half(hq[k], mulf(hq[k].v, x))>> \o from[k + 1]
  IN  from[1]

(* the checks of scalar *)
IsScalar(hq) == Len(hq) = 1 /\ hq[1].h = <<0, 0>>
scalar(hq) == hq[1].v
================================================================================
