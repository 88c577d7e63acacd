------------------------------ MODULE ReedSolomon -----------------------------
(***************************************************************************)
(* Cyclic convolutions in a power of two: by transforms in the field or in *)
(* its quadratic extension (convolution.h), and modulo several primes with *)
(* reconstruction into the field (crt.h, crt_convolution.h); batch         *)
(* inversion (utility.h), polynomials in Newton and in monomial form       *)
(* (interpolation.h), and Reed-Solomon extension by a convolution          *)
(* (reed_solomon.h); and convolutions in any field where 2 has an inverse  *)
(* (nussbaumer.h), whose roots of unity are powers of the variable.  A     *)
(* polynomial is an array.                                                 *)
(***************************************************************************)
EXTENDS Fft, Sequences

CONSTANTS
  Omega, OmegaOrder,          \* root of unity of the field
  OmegaExt, OmegaExtOrder,    \* root of unity of the extension
  kPrimes, kOmega, kOmegaOrder, Word,   \* the basis of CRT, its roots, 2^64
  kNussbaumerSmall, kKaratsubaSmall     \* the largest sizes of simpler algorithms

RECURSIVE padded_to(_, _)
padded_to(p, n) == IF p < n THEN padded_to(2 * p, n) ELSE p
choose_padding(n) == padded_to(1, n)

Padded(x, n, p) == Array(p, LAMBDA i : IF i < n THEN x[i] ELSE 0)

(* The first m entries of x y, of which those that wrapped around are sums. *)
(* of_scalar(p) has p < P.                                                  *)
Scaled(Y, p, scale) == Array(p, LAMBDA i : mulf(Y[i], scale))
Products(X, Y, p) == Array(p, LAMBDA i : mulf(X[i], Y[i]))
FFTConvolution(n, m, y, x) ==
  LET p == choose_padding(m)
      transform(v, k) == fftf(Padded(v, k, p), p, Omega, OmegaOrder)
  IN  fftb(Products(transform(x, n), Scaled(transform(y, m), p, invertf(p % P)), p),
           p, Omega, OmegaOrder)

(* Products of half-complex elements; elements 0 and p/2 are real.  p > 1, *)
(* as the two are taken to be different.                                   *)
HcProducts(X, Y, p) ==
  LET product(i) == cmul(C(X[i], X[p - i]), C(Y[i], Y[p - i]))
  IN  Array(p, LAMBDA i : IF i = 0 \/ 2 * i = p THEN mulf(X[i], Y[i])
                          ELSE IF 2 * i < p THEN product(i).re ELSE product(p - i).im)
FFTExtConvolution(n, m, y, x) ==
  LET p == choose_padding(m)
      transform(v, k) == r2hc(Padded(v, k, p), p, OmegaExt, OmegaExtOrder)
  IN  hc2r(HcProducts(transform(x, n), Scaled(transform(y, m), p, invertf(p % P)), p),
           p, OmegaExt, OmegaExtOrder)

-----------------------------------------------------------------------------
VS == Len(kPrimes)
Base(b) == INSTANCE Fft WITH P <- kPrimes[b]

to_crt(e) == [b \in 1..VS |-> e % kPrimes[b]]

(* FpGeneric::sub on numbers of one word that need not be below p *)
sub_word(a, y, p) == (((a - y) % Word) + (IF y > a THEN p ELSE 0)) % Word

(* Garner's digits: v[i] = (...((x[i] - v[1]) / p[1]) - ...) / p[i - 1]    *)
(* modulo p[i].  A digit is subtracted modulo a later prime as it is.      *)
digits(r) ==
  LET c(i, j) == CHOOSE t \in 0..(kPrimes[i] - 1) : (t * kPrimes[j]) % kPrimes[i] = 1
      v[j \in 1..VS] ==
        IF j = 1 THEN r
        ELSE [i \in 1..VS |-> IF i < j THEN v[j - 1][i]
                              ELSE (sub_word(v[j - 1][i], v[j - 1][j - 1], kPrimes[i]) * c(i, j - 1)) % kPrimes[i]]
  IN  v[VS]

(* 1, p[1], p[1] p[2], ... in the field *)
garner(i) == For(i - 1, 1, LAMBDA j, g : mulf(g, kPrimes[j + 1] % P))

to_field(r) ==
  IF VS = 1 THEN r[1] % P
  ELSE LET v == digits(r) IN Sum(VS, LAMBDA b : mulf(v[b + 1] % P, garner(b + 1)))

Reconstructed(Z, m) == Array(m, LAMBDA i : to_field([b \in 1..VS |-> Z[b][i]]))
ProductsMod(X, Y, p, q) == Array(p, LAMBDA i : (X[i] * Y[i]) % q)

(* The operations of CRT elements, and so their transforms, are component  *)
(* by component.                                                           *)
CRTConvolution(n, m, y, x) ==
  LET p == choose_padding(m)
      component(b) ==
        LET q == kPrimes[b]
            pni == CHOOSE t \in 0..(q - 1) : (t * p) % q = 1
            transform(v, k, c) ==
              Base(b)!fftf(Padded(Table([i \in 0..(k - 1) |-> (c * (v[i] % q)) % q]), k, p), p, kOmega[b], kOmegaOrder)
        IN  Base(b)!fftb(ProductsMod(transform(x, n, 1), transform(y, m, pni), p, q), p, kOmega[b], kOmegaOrder)
  IN  Reconstructed(Table([b \in 1..VS |-> component(b)]), m)

-----------------------------------------------------------------------------
(* for (i = n; i-- > 0;) *)
Down(n, base, op(_, _)) == For(n, base, LAMBDA i, s : op(n - 1 - i, s))

(* The inverses of b: one inversion and prefix products *)
batch_invert(n, b) ==
  LET pre == For(n, [a |-> [i \in {} |-> 0], p |-> 1],
                LAMBDA i, s : [a |-> (i :> s.p) @@ s.a, p |-> mulf(s.p, b[i])])
  IN  Down(n, [a |-> pre.a, p |-> invertf(pre.p)],
           LAMBDA i, s : [a |-> [s.a EXCEPT ![i] = mulf(@, s.p)], p |-> mulf(s.p, b[i])]).a

(* 0, 1, 1/2, 1/3, ..., 1/(n - 1); bi is a counter in the field *)
batch_inverse_arithmetic(n) ==
  LET pre == For(n - 1, [a |-> (0 :> 0), p |-> 1, bi |-> 0],
                LAMBDA i, s : LET bi == addf(s.bi, 1)
                              IN  [a |-> ((i + 1) :> s.p) @@ s.a, p |-> mulf(s.p, bi), bi |-> bi])
  IN  Down(n, [pre EXCEPT !.p = invertf(@)],
           LAMBDA i, s : [a |-> [s.a EXCEPT ![i] = mulf(@, s.p)],
                          p |-> mulf(s.p, s.bi), bi |-> subf(s.bi, 1)]).a

factorial(n) == For(n, [p |-> 1, fi |-> 1], LAMBDA i, s : [p |-> mulf(s.p, s.fi), fi |-> addf(s.fi, 1)]).p

-----------------------------------------------------------------------------
(* Divided differences in place.  An inverse is used again as long as the  *)
(* difference of two points stays the same.                                *)
newton_of_lagrange(N, L, X) ==
  LET inner(i, k, s) ==
        LET dx == subf(X[k], X[k - i])
            inve == IF dx # s.e THEN invertf(dx) ELSE s.inve
        IN  [A |-> [s.A EXCEPT ![k] = mulf(subf(@, s.A[k - 1]), inve)], e |-> dx, inve |-> inve]
  IN  For(N - 1, [A |-> L, e |-> 1, inve |-> 1],
          LAMBDA i, s : Down(N - (i + 1), s, LAMBDA k, t : inner(i + 1, i + 1 + k, t))).A

eval_newton(N, A, X, at) == Down(N, 0, LAMBDA i, e : addf(A[i], mulf(e, subf(at, X[i]))))

monomial_of_newton(N, A, X) ==
  Down(N, A, LAMBDA i, B : For(N - (i + 1), B,
             LAMBDA k, D : [D EXCEPT ![i + k] = subf(@, mulf(D[i + k + 1], X[i]))]))

eval_monomial(N, M, at) == Down(N, 0, LAMBDA i, e : addf(M[i], mulf(e, at)))
monomial_of_lagrange(N, L, X) == monomial_of_newton(N, newton_of_lagrange(N, L, X), X)

-----------------------------------------------------------------------------
Sign(odd, e) == IF odd % 2 = 1 THEN subf(0, e) ELSE e

(* mutant: the sign does not depend on the degree *)
leading_constantUnsigned(n, m, inv) ==
  LET d == n - 1
      binomial == For(m - n, (0 :> 1),
                      LAMBDA i, s : ((i + 1) :> mulf(s[i], mulf((d + i + 1) % P, inv[i + 1]))) @@ s)
  IN  Array((m - n) + 1, LAMBDA i : mulf(binomial[i], i % P))

(* (-1)^d (k - d) (k choose d) at k - d, with d = n - 1 *)
leading_constant(n, m, inv) ==
  LET d == n - 1
      binomial == For(m - n, (0 :> 1),
                      LAMBDA i, s : ((i + 1) :> mulf(s[i], mulf((d + i + 1) % P, inv[i + 1]))) @@ s)
  IN  Array((m - n) + 1, LAMBDA i : Sign(d, mulf(binomial[i], i % P)))

(* (-1)^i (d choose i) *)
binom_i(n, inv) ==
  LET binomial == For(n - 1, (0 :> 1),
                      LAMBDA i, s : ((i + 1) :> mulf(s[i], mulf((n - (i + 1)) % P, inv[i + 1]))) @@ s)
  IN  Array(n, LAMBDA i : Sign(i, binomial[i]))

(* The n values y extended to m; convolution(n, m, y, x) is one of the     *)
(* classes of convolution.h and crt_convolution.h.                         *)
rs_interpolate(n, m, y, convolution(_, _, _, _)) ==
  LET inv == batch_inverse_arithmetic(m)
      lead == leading_constant(n, m, inv)
      b == binom_i(n, inv)
      T == convolution(n, m, inv, Array(n, LAMBDA i : mulf(b[i], y[i])))
  IN  Array(m, LAMBDA i : IF i < n THEN y[i] ELSE mulf(lead[i - (n - 1)], T[i]))
-----------------------------------------------------------------------------
(* nussbaumer.h: a convolution of 2n entries, modulo x^n - 1 (cyclic) and  *)
(* modulo x^n + 1 (negacyclic).  Sizes are powers of two.  The workspaces  *)
(* are left out: what is read of them was written by the same call.        *)
Term(n, x, y, k) == Sum(n, LAMBDA j : IF k - j \in 0..(n - 1) THEN mulf(x[j], y[k - j]) ELSE 0)
basecase_linear(n, x, y) == Array(2 * n, LAMBDA k : Term(n, x, y, k))
basecase_cyclic(n, x, y) == Array(n, LAMBDA k : addf(Term(n, x, y, k), Term(n, x, y, n + k)))
basecase_negacyclic(n, x, y) == Array(n, LAMBDA k : subf(Term(n, x, y, k), Term(n, x, y, n + k)))
basecase_middle(n, x, y) == Array(n, LAMBDA k : Sum(n, LAMBDA j : mulf(x[(n + k) - j], y[j])))

Upper(x, h) == Array(h, LAMBDA i : x[h + i])
HalfSum(x, h) == Array(h, LAMBDA i : addf(x[i], x[h + i]))
HalfDifference(x, h) == Array(h, LAMBDA i : subf(x[i], x[h + i]))

(* The product of the lower halves, of the upper halves, and of the        *)
(* differences with opposite signs                                         *)
RECURSIVE karatsuba(_, _, _)
Parts(n, x, y) ==
  LET h == n \div 2
  IN  [z |-> karatsuba(h, x, y), q |-> karatsuba(h, Upper(x, h), Upper(y, h)),
       p |-> karatsuba(h, HalfDifference(x, h), Array(h, LAMBDA i : subf(y[h + i], y[i])))]
Recombined(n, h, w) ==
  LET s(i) == addf(w.z[h + i], w.q[i])
  IN  Array(2 * n, LAMBDA i :
        CASE i < h                 -> w.z[i]
          [] i \in h..(n - 1)     -> addf(addf(s(i - h), w.p[i - h]), w.z[i - h])
          [] i \in n..(n + h - 1) -> addf(addf(s(i - n), w.p[i - h]), w.q[i - h])
          [] OTHER                 -> w.q[i - n])
karatsuba(n, x, y) ==
  IF n <= kKaratsubaSmall THEN basecase_linear(n, x, y) ELSE Recombined(n, n \div 2, Parts(n, x, y))

RecombinedNegacyclic(n, h, w) ==
  LET a(i) == subf(w.z[i], w.q[h + i])
      b(i) == addf(w.z[h + i], w.q[i])
  IN  Array(n, LAMBDA i : IF i < h THEN subf(subf(a(i), b(i)), w.p[h + i])
                          ELSE addf(addf(b(i - h), a(i - h)), w.p[i - h]))
karatsuba_negacyclic(n, x, y) ==
  IF n <= kKaratsubaSmall THEN basecase_negacyclic(n, x, y)
  ELSE RecombinedNegacyclic(n, n \div 2, Parts(n, x, y))

(* n = m r with r >= m, and m as large as possible *)
RECURSIVE radix_from(_, _)
radix_from(m, r) == IF r < m THEN radix_from(m \div 2, 2 * r) ELSE <<m, r>>
nussbaumer_radix(n) == radix_from(n, 1)

(* A polynomial in x of degree below n is one of degree below m in x whose *)
(* coefficients are polynomials in x^m, modulo (x^m)^r + 1.                 *)
lift(x, m, r) == Array(m, LAMBDA i : Array(r, LAMBDA j : x[(m * j) + i]))
zerolift(X, m, r) == Array(2 * m, LAMBDA i : IF i < m THEN X[i] ELSE Array(r, LAMBDA j : 0))
unlift(X, m, r) == Array(m * r, LAMBDA k : X[k % m][k \div m])

(* Division by the shift-th power of x^m, and multiplication               *)
rotate(r, x, shift) ==
  Array(r, LAMBDA i : IF i + shift < r THEN x[i + shift] ELSE subf(0, x[(i + shift) - r]))
unrotate(r, x, shift) ==
  Array(r, LAMBDA i : IF i < shift THEN subf(0, x[(i + r) - shift]) ELSE x[i - shift])

PlusBlock(r, a, b) == Array(r, LAMBDA l : addf(a[l], b[l]))
MinusBlock(r, a, b) == Array(r, LAMBDA l : subf(a[l], b[l]))
Tops(m, j) == {i \in 0..(m - 1) : (i \div j) % 2 = 0}

(* The t-th turn of the loops, with j = m / 2^(t + 1) and with j = 2^t; m is *)
(* a power of two.                                                           *)
Turns(m) == CHOOSE t \in 0..m : 2 ^ t = m
block_fft(X, m, r) ==
  For(Turns(m), X, LAMBDA t, V :
    LET j == m \div (2 ^ (t + 1))
    IN  Butterflies(V, Tops(m, j), j,
          LAMBDA i, a, b : <<PlusBlock(r, a, b), rotate(r, MinusBlock(r, a, b), (r \div j) * (i % j))>>))
block_ifft(X, m, r) ==
  LET scale == Pow(half, Turns(m))
      Z == For(Turns(m), X, LAMBDA t, V :
             LET j == 2 ^ t
             IN  Butterflies(V, Tops(m, j), j,
                   LAMBDA i, a, b : LET c == unrotate(r, b, (r \div j) * (i % j))
                                    IN  <<PlusBlock(r, a, c), MinusBlock(r, a, c)>>))
  IN  Array(m, LAMBDA i : Array(r, LAMBDA l : mulf(Z[i][l], scale)))

(* The products of lifted polynomials have degree below 2m in x, and the   *)
(* upper coefficients are multiplied by x^m.                               *)
RECURSIVE negacyclic(_, _, _)
Wrapped(m, r, Z) ==
  Array(m, LAMBDA i : Array(r, LAMBDA j : IF j = 0 THEN subf(Z[i][0], Z[m + i][r - 1])
                                          ELSE addf(Z[i][j], Z[m + i][j - 1])))
Transformed(m, r, X) == block_fft(zerolift(X, m, r), 2 * m, r)
BlockProducts(m, r, U, W) == Array(2 * m, LAMBDA i : negacyclic(r, U[i], W[i]))
negacyclic_lifted(m, r, x, y) ==
  Wrapped(m, r, block_ifft(BlockProducts(m, r, Transformed(m, r, lift(x, m, r)),
                                               Transformed(m, r, lift(y, m, r))), 2 * m, r))
negacyclic_in(mr, x, y) == unlift(negacyclic_lifted(mr[1], mr[2], x, y), mr[1], mr[2])
negacyclic_with_workspace(n, x, y) == negacyclic_in(nussbaumer_radix(n), x, y)
negacyclic(n, x, y) ==
  IF n <= kNussbaumerSmall THEN karatsuba_negacyclic(n, x, y) ELSE negacyclic_with_workspace(n, x, y)

(* From modulo x^m - 1 and modulo x^m + 1 to modulo x^(2m) - 1 *)
inverse_butterfly(m, c, g) ==
  Array(2 * m, LAMBDA k : IF k < m THEN mulf(half, addf(c[k], g[k])) ELSE mulf(half, subf(c[k - m], g[k - m])))
RECURSIVE cyclic(_, _, _)
cyclic(n, x, y) ==
  IF n <= kKaratsubaSmall THEN basecase_cyclic(n, x, y)
  ELSE LET m == n \div 2
       IN  inverse_butterfly(m, cyclic(m, HalfSum(x, m), HalfSum(y, m)),
             negacyclic_with_workspace(m, HalfDifference(x, m), HalfDifference(y, m)))

linear(n, x, y) ==
  IF n <= kNussbaumerSmall THEN karatsuba(n, x, y)
  ELSE inverse_butterfly(n, cyclic(n, x, y), negacyclic_with_workspace(n, x, y))

(* The transpose of linear for a fixed y *)
middle(n, x, y) ==
  IF n <= kNussbaumerSmall THEN basecase_middle(n, x, y)
  ELSE LET z == cyclic(n, HalfSum(x, n), y)
           Z == negacyclic_with_workspace(n, HalfDifference(x, n), y)
       IN  Array(n, LAMBDA k : mulf(half, subf(z[k], Z[k])))
================================================================================
