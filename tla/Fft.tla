---------------------------------- MODULE Fft ---------------------------------
(***************************************************************************)
(* src/lib/algebra: roots of unity (twiddle.h), permutations.h, the        *)
(* transform of fft.h and the bidirectional transform of                   *)
(* fft_interpolation.h over a prime field, the quadratic extension of      *)
(* fp2.h and the real transforms of rfft.h.                                *)
(***************************************************************************)
EXTENDS PrimeField, Loops, FiniteSets

CONSTANTS kBasecase, kTransposeBasecase

Pow(e, n) == For(n, 1, LAMBDA i, r : mulf(r, e))
half == invertf(2)

-----------------------------------------------------------------------------
(* Twiddle: the order and half of its powers *)
Twiddle(order, omega) == [order |-> order, w |-> Array(order \div 2, LAMBDA i : Pow(omega, i))]

RECURSIVE reroot(_, _, _)
reroot(omega, n, r) == IF r < n THEN reroot(mulf(omega, omega), n, 2 * r) ELSE omega

RECURSIVE bitrev_increment(_, _)
bitrev_increment(j, bit) ==
  LET b == bit \div 2
  IN  IF (j \div b) % 2 = 1 THEN bitrev_increment(j - b, b) ELSE j + b

bitrev(A, n) ==
  For(n - 1, [A |-> A, revi |-> 0],
      LAMBDA i, s : [A |-> IF i < s.revi THEN Swap(s.A, i, s.revi) ELSE s.A,
                     revi |-> bitrev_increment(s.revi, n)]).A

(* A and B name parts of one array by where they begin *)
RECURSIVE transpose_and_swap(_, _, _, _, _)
transpose_and_swap(M, A, B, lda, n) ==
  IF n <= kTransposeBasecase
  THEN For(n * n, M, LAMBDA ij, X : Swap(X, A + ((ij \div n) * lda) + (ij % n), B + ((ij % n) * lda) + (ij \div n)))
  ELSE LET h == n \div 2
           M1 == transpose_and_swap(M, A, B, lda, h)
           M2 == transpose_and_swap(M1, A + h, B + (lda * h), lda, h)
           M3 == transpose_and_swap(M2, A + (lda * h), B + h, lda, h)
       IN  transpose_and_swap(M3, A + ((lda + 1) * h), B + ((lda + 1) * h), lda, h)

RECURSIVE transpose(_, _, _, _)
transpose(M, A, lda, n) ==
  IF n <= kTransposeBasecase
  THEN For(n * n, M, LAMBDA ij, X : IF ij \div n < ij % n
                                    THEN Swap(X, A + ((ij \div n) * lda) + (ij % n), A + ((ij % n) * lda) + (ij \div n))
                                    ELSE X)
  ELSE LET h == n \div 2
           M1 == transpose(M, A, lda, h)
           M2 == transpose_and_swap(M1, A + h, A + (lda * h), lda, h)
       IN  transpose(M2, A + ((lda + 1) * h), lda, h)

RECURSIVE choose_small(_, _)
choose_small(r, s) == IF s > kBasecase \/ s > r THEN choose_small(2 * r, s \div 4) ELSE <<r, s>>
RECURSIVE choose_one(_, _)
choose_one(r, s) == IF r < kBasecase /\ s >= 4 THEN choose_one(2 * r, s \div 4) ELSE <<r, s>>

(* n = r s r, with s = 1 if r may stay a base case *)
choose_radix(n) ==
  LET c == choose_small(1, n)
      c1 == choose_one(c[1], c[2])
  IN  IF c1[2] = 1 THEN c1 ELSE c

(* n elements of A from o on, in place *)
butterflytw(tw, a, b) == LET t == mulf(b, tw) IN <<addf(a, t), subf(a, t)>>

RECURSIVE levels(_, _, _, _, _)
levels(A, o, n, m, roots) ==
  IF m >= n THEN A
  ELSE LET ws == roots.order \div (2 * m)
           at == {i \in o..(o + n - 1) : ((i - o) \div m) % 2 = 0}
       IN  levels(Butterflies(A, at, m, LAMBDA i, a, b : butterflytw(roots.w[((i - o) % m) * ws], a, b)),
                  o, n, 2 * m, roots)

basecase(A, o, n, roots) ==
  LET part == bitrev(Array(n, LAMBDA i : A[o + i]), n)
  IN  levels(Table([i \in DOMAIN A |-> IF i \in o..(o + n - 1) THEN part[i - o] ELSE A[i]]), o, n, 1, roots)

(* A[m i + j] times omega^(i j) *)
by_twiddle(A, o, m, r, omega) ==
  Table([i \in DOMAIN A |-> IF i \in o..(o + (m * r) - 1)
                            THEN mulf(A[i], Pow(omega, ((i - o) \div m) * ((i - o) % m))) ELSE A[i]])

RECURSIVE recur(_, _, _, _, _), radix_step(_, _, _, _, _, _, _)
radix_step(A, o, r, s, omega_n, omega_r, roots) ==
  LET m == r * s
  IN  For(s, by_twiddle(A, o, m, r, omega_n),
          LAMBDA k, X :
            transpose(For(r, transpose(X, o + (k * r), m, r),
                          LAMBDA j, Y : recur(Y, o + (k * r) + (j * m), r, omega_r, roots)),
                      o + (k * r), m, r))
recur(A, o, n, omega_n, roots) ==
  IF n <= kBasecase THEN basecase(A, o, n, roots)
  ELSE LET r == choose_radix(n)[1]
           s == choose_radix(n)[2]
           m == r * s
           omega_m == reroot(omega_n, n, m)
           omega_r == reroot(omega_m, m, r)
           omega_s == reroot(omega_r, r, s)
           rows == For(s, A, LAMBDA k, X : For(r, transpose(X, o + (k * r), m, r),
                                               LAMBDA j, Y : recur(Y, o + (k * r) + (j * m), r, omega_r, roots)))
           cols == IF s > 1 THEN For(r, rows, LAMBDA i, X : radix_step(X, o + (i * m), s, r \div s, omega_m, omega_s, roots))
                   ELSE rows
       IN  radix_step(cols, o, r, s, omega_n, omega_r, roots)

(* sum over k of A[k] omega^(j k) *)
fftb(A, n, omega, order) ==
  LET omega_n == reroot(omega, order, n)
      b == IF n < kBasecase THEN n ELSE kBasecase
  IN  IF n <= 1 THEN A ELSE recur(A, 0, n, omega_n, Twiddle(b, reroot(omega_n, n, b)))
fftf(A, n, omega, order) == fftb(A, n, invertf(omega), order)

-----------------------------------------------------------------------------
(* fft_interpolation.h: B is the transform of A, whose order is reversed   *)
(* in its bits.  Butterflies between a pair of A and the pair of B.        *)
a0a1(a, b, winv) == LET x1 == mulf(b, winv) IN <<addf(a, x1), subf(a, x1)>>
b0b1_unscaled(a, b, w) == <<addf(a, b), mulf(subf(a, b), w)>>
b0b1(a, b, w) == <<mulf(half, addf(a, b)), mulf(mulf(half, subf(a, b)), w)>>

RECURSIVE backward(_, _, _, _)
backward(A, n, m, roots) ==
  IF m = 0 THEN A
  ELSE backward(Butterflies(A, {i \in 0..(n - 1) : (i \div m) % 2 = 0}, m,
                            LAMBDA i, a, b : b0b1_unscaled(a, b, roots.w[(i % m) * (roots.order \div (2 * m))])),
                n, m \div 2, roots)
fft_b(B, n, roots) ==
  LET A == backward(B, n, n \div 2, roots)
      scale == invertf(n % P)
  IN  Array(n, LAMBDA i : mulf(A[i], scale))

RECURSIVE forward(_, _, _, _)
forward(B, n, m, rootsinv) ==
  IF m >= n THEN B
  ELSE forward(Butterflies(B, {i \in 0..(n - 1) : (i \div m) % 2 = 0}, m,
                           LAMBDA i, a, b : a0a1(a, b, rootsinv.w[(i % m) * (rootsinv.order \div (2 * m))])),
               n, 2 * m, rootsinv)
fft_f(A, n, rootsinv) == forward(A, n, 1, rootsinv)

in_range(j, b0, n, k) ==
  LET b1 == b0 + (n - k) IN (b0 <= j /\ j < b1) \/ (b0 <= j + n /\ j + n < b1)

Part(A, o, n) == Array(n, LAMBDA i : A[o + i])
Joined(A, B, s) == Array(2 * s, LAMBDA i : IF i < s THEN A[i] ELSE B[i - s])

(* Given A below k and n - k elements of B from b0 on, around the end: all *)
(* of both.  T is between them, and its halves are transforms of the       *)
(* halves of A.                                                            *)
RECURSIVE bidir(_, _, _, _, _, _, _)
bidir(n, A, B, k, b0, roots, rootsinv) ==
  LET ws == roots.order \div n
      h == n \div 2
      w(j) == roots.w[j * ws]
      lo == {j \in 0..(h - 1) : in_range(j, b0, n, k)}
      hi == {j \in 0..(h - 1) : in_range(j + h, b0, n, k)}
      bb0 == IF b0 >= h THEN b0 - h ELSE b0
      (* one element of the pair of T is known and one of the pair of B *)
      diagonal(j, t, X) ==
        IF j \in lo
        THEN LET x1 == subf(X[j], t) IN [t1 |-> mulf(x1, w(j)), B0 |-> X[j], B1 |-> subf(t, x1)]
        ELSE LET x1 == subf(t, X[j + h]) IN [t1 |-> mulf(x1, w(j)), B0 |-> addf(t, x1), B1 |-> X[j + h]]
  IN  CASE k = 0 -> [A |-> fft_b(B, n, roots), B |-> B, ok |-> TRUE]
        [] k = n -> [A |-> A, B |-> fft_f(A, n, rootsinv), ok |-> TRUE]
        [] k >= h /\ 0 < k /\ k < n ->
             LET T0 == fft_f(Part(A, 0, h), h, rootsinv)
                 d == Table([j \in (lo \cup hi) |-> diagonal(j, T0[j], B)])
                 T1 == Array(h, LAMBDA j : IF j \in lo \cup hi THEN d[j].t1 ELSE 0)
                 r == bidir(h, Part(A, h, h), T1, k - h, bb0, roots, rootsinv)
                 Bat(j) == IF j \in lo \cup hi THEN <<d[j].B0, d[j].B1>>
                           ELSE a0a1(T0[j], r.B[j], rootsinv.w[j * ws])
             IN  [A |-> Joined(Part(A, 0, h), r.A, h),
                  B |-> Array(n, LAMBDA i : Bat(i % h)[1 + (i \div h)]),
                  ok |-> r.ok /\ lo \cap hi = {}]
        [] k < h /\ 0 < k ->
             LET both == lo \cap hi
                 c == Table([j \in both |-> b0b1(B[j], B[j + h], w(j))])
                 r == bidir(h, Part(A, 0, h), Array(h, LAMBDA j : IF j \in both THEN c[j][1] ELSE 0),
                            k, bb0, roots, rootsinv)
                 d == Table([j \in (lo \cup hi) \ both |-> diagonal(j, r.B[j], B)])
                 T1 == Array(h, LAMBDA j : IF j \in both THEN c[j][2] ELSE d[j].t1)
             IN  [A |-> Joined(r.A, fft_b(T1, h, roots), h),
                  B |-> Array(n, LAMBDA i : IF i % h \in both THEN B[i]
                                            ELSE IF i < h THEN d[i].B0 ELSE d[i - h].B1),
                  ok |-> r.ok /\ lo \cup hi = 0..(h - 1)]

interpolate(n, A, B, k, b0, omega, order) ==
  LET omega_n == reroot(omega, order, n)
  IN  IF n > 1 THEN bidir(n, A, B, k, b0, Twiddle(n, omega_n), Twiddle(n, invertf(omega_n)))
      ELSE IF k = 0 THEN [A |-> B, B |-> B, ok |-> TRUE] ELSE [A |-> A, B |-> A, ok |-> TRUE]

-----------------------------------------------------------------------------
(* The quadratic extension with i^2 = -1 and the real transforms.  The     *)
(* transform of a real array is conjugate-symmetric and is stored in as    *)
(* many base elements: the real part of element j at j, its imaginary part *)
(* at n - j.                                                               *)
neg(x) == subf(0, x)

(* Fp2: three multiplications *)
addc(a, y) == [re |-> addf(a.re, y.re), im |-> addf(a.im, y.im)]
subc(a, y) == [re |-> subf(a.re, y.re), im |-> subf(a.im, y.im)]
mulc(a, y) ==
  LET p0 == mulf(a.re, y.re)
      p1 == mulf(a.im, y.im)
      a01 == mulf(addf(a.re, a.im), addf(y.re, y.im))
  IN  [re |-> subf(p0, p1), im |-> subf(subf(a01, p0), p1)]
scalec(a, y) == [re |-> mulf(a.re, y), im |-> mulf(a.im, y)]
conjc(x) == [x EXCEPT !.im = neg(@)]
invertc(x) == scalec(conjc(x), invertf(addf(mulf(x.re, x.re), mulf(x.im, x.im))))
of_scalar(e) == [re |-> e, im |-> 0]
onec == of_scalar(1)
ic == [re |-> 0, im |-> 1]

Powc(e, n) == For(n, onec, LAMBDA j, r : mulc(r, e))
Twiddlec(order, omega) == [order |-> order, w |-> Array(order \div 2, LAMBDA j : Powc(omega, j))]
RECURSIVE rerootc(_, _, _)
rerootc(omega, n, r) == IF r < n THEN rerootc(mulc(omega, omega), n, 2 * r) ELSE omega

validate_root(omega) == mulc(omega, conjc(omega)) = onec
validate_I(ii) == ii = ic

-----------------------------------------------------------------------------
(* Butterflies on <<x0, x1, x2, x3>>, elements s apart *)
I_2(x) == <<addf(x[1], x[2]), subf(x[1], x[2])>>

r2hcI_4(x) ==
  LET z0 == addf(x[1], x[2])
      z1 == addf(x[3], x[4])
  IN  <<addf(z0, z1), subf(x[1], x[2]), subf(z0, z1), subf(x[4], x[3])>>

(* mutant: the sign of the last element is not flipped *)
r2hcII_4NoNeg(x, w8) ==
  LET z0 == mulf(addf(x[3], x[4]), w8.im)
      z1 == mulf(subf(x[3], x[4]), w8.re)
  IN  <<addf(x[1], z1), subf(x[1], z1), subf(x[2], z0), addf(x[2], z0)>>

r2hcII_4(x, w8) ==
  LET z0 == mulf(addf(x[3], x[4]), w8.im)
      z1 == mulf(subf(x[3], x[4]), w8.re)
  IN  <<addf(x[1], z1), subf(x[1], z1), subf(x[2], z0), neg(addf(x[2], z0))>>

hc2rI_4(x) ==
  LET y0 == addf(x[1], x[3])
      y1 == subf(x[1], x[3])
      y2 == addf(x[2], x[2])
      y3 == addf(x[4], x[4])
  IN  <<addf(y0, y2), subf(y0, y2), subf(y1, y3), addf(y1, y3)>>

hc2rIII_4(x, w8) ==
  LET d(i) == addf(x[i], x[i])
      z0 == mulf(subf(d(1), d(2)), w8.re)
      z1 == mulf(addf(d(4), d(3)), w8.im)
  IN  <<addf(d(1), d(2)), subf(d(3), d(4)), subf(z0, z1), neg(addf(z0, z1))>>

(* cmul and cmulj: times b, times the conjugate of b *)
cmul(x, b) == mulc(x, b)
cmulj(x, b) ==
  LET p0 == mulf(x.re, b.re)
      p1 == mulf(x.im, b.im)
      a01 == mulf(addf(x.re, x.im), subf(b.re, b.im))
  IN  [re |-> addf(p0, p1), im |-> addf(subf(a01, p0), p1)]

C(re, im) == [re |-> re, im |-> im]

(* r and i: elements of Ar and of Ai.  The result is <<r, i>>. *)
hc2hcf_4(r, i, tw1, tw2, tw3) ==
  LET t1 == cmulj(C(r[2], i[2]), tw2)
      t2 == cmulj(C(r[3], i[3]), tw1)
      t3 == cmulj(C(r[4], i[4]), tw3)
      y0 == addc(C(r[1], i[1]), t1)
      y1 == subc(C(r[1], i[1]), t1)
      y2 == addc(t2, t3)
      y3r == subf(t3.re, t2.re)
      y3i == subf(t2.im, t3.im)
  IN  << <<addf(y0.re, y2.re), addf(y1.re, y3i), subf(y2.im, y0.im), subf(y3r, y1.im)>>,
         <<subf(y1.re, y3i), subf(y0.re, y2.re), addf(y3r, y1.im), addf(y2.im, y0.im)>> >>

hc2hcb_4(r, i, tw1, tw2, tw3) ==
  LET z0 == addf(r[1], i[2])
      z1 == subf(r[1], i[2])
      z2 == addf(r[2], i[1])
      z3 == subf(r[2], i[1])
      z4 == addf(i[4], r[3])
      z5 == subf(i[4], r[3])
      z6 == addf(i[3], r[4])
      z7 == subf(i[3], r[4])
      x1 == cmul(C(subf(z0, z2), subf(z5, z7)), tw2)
      x2 == cmul(C(subf(z1, z6), addf(z4, z3)), tw1)
      x3 == cmul(C(addf(z1, z6), subf(z4, z3)), tw3)
  IN  << <<addf(z0, z2), x1.re, x2.re, x3.re>>, <<addf(z5, z7), x1.im, x2.im, x3.im>> >>

-----------------------------------------------------------------------------
(* Elements o, o + m, o + 2 m, o + 3 m of A *)
Four(A, o, m) == <<A[o], A[o + m], A[o + (2 * m)], A[o + (3 * m)]>>

(* A level of radix 4 on blocks of 4 m: the first butterfly of a block and *)
(* the middle one, of a kind of their own, and pairs of the other ones.    *)
Level4(A, n, m, w, first(_), pair(_, _, _, _, _), middle(_, _)) ==
  LET ws == n \div (4 * m)
      out(k) ==
        Table([j \in 0..(m - 1) |->
                 IF j = 0 THEN first(Four(A, k, m))
                 ELSE IF 2 * j = m THEN middle(Four(A, k + j, m), w[j * ws])
                 ELSE LET i == IF 2 * j < m THEN j ELSE m - j
                          b == pair(Four(A, k + i, m), Four(A, k + m - i, m),
                                    w[i * ws], w[2 * i * ws], w[3 * i * ws])
                      IN  IF i = j THEN b[1] ELSE b[2]])
      outs == Table([k \in {b * 4 * m : b \in 0..(ws - 1)} |-> out(k)])
  IN  Array(n, LAMBDA x : outs[x - (x % (4 * m))][x % m][1 + ((x % (4 * m)) \div m)])

(* The level of radix 2 and of radix 4 without twiddles *)
First(A, n, m, four(_)) ==
  IF m = 2
  THEN Array(n, LAMBDA x : I_2(<<A[x - (x % 2)], A[x - (x % 2) + 1]>>)[1 + (x % 2)])
  ELSE Array(n, LAMBDA x : four(Four(A, x - (x % 4), 1))[1 + (x % 4)])

RECURSIVE Smallest(_)
Smallest(m) == IF m > 4 THEN Smallest(m \div 4) ELSE m

Panic == "panic"

RECURSIVE up(_, _, _, _)
up(A, n, m, w) == IF m >= n THEN A ELSE up(Level4(A, n, m, w, r2hcI_4, hc2hcf_4, r2hcII_4), n, 4 * m, w)

r2hc(A, n, omega, order) ==
  LET w == Twiddlec(n, rerootc(omega, order, n)).w
      m == Smallest(n)
  IN  IF ~validate_root(omega) THEN Panic
      ELSE IF n < 2 THEN A
      ELSE IF n = 2 THEN First(A, 2, 2, r2hcI_4)
      ELSE IF ~validate_I(w[n \div 4]) THEN Panic
      ELSE up(First(bitrev(A, n), n, m, r2hcI_4), n, m, w)

RECURSIVE down(_, _, _, _)
down(A, n, m, w) ==
  IF m <= 4 THEN First(A, n, m, hc2rI_4)
  ELSE down(Level4(A, n, m \div 4, w, hc2rI_4, hc2hcb_4, hc2rIII_4), n, m \div 4, w)

hc2r(A, n, omega, order) ==
  LET w == Twiddlec(n, rerootc(omega, order, n)).w
  IN  IF ~validate_root(omega) THEN Panic
      ELSE IF n < 2 THEN A
      ELSE IF n = 2 THEN First(A, 2, 2, hc2rI_4)
      ELSE IF ~validate_I(w[n \div 4]) THEN Panic
      ELSE bitrev(down(A, n, n, w), n)
================================================================================
