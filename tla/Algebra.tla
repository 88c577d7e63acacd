-------------------------------- MODULE Algebra -------------------------------
(***************************************************************************)
(* Calls of the algebra kernels, each with the result that it returns:     *)
(* fields in Montgomery form and of characteristic 2, after their          *)
(* constructors; transforms in two prime fields, one of which has its      *)
(* roots of unity in the quadratic extension only; Newton and Lagrange     *)
(* forms; convolutions and Reed-Solomon extension.                         *)
(*                                                                         *)
(* The transforms are linear and the convolutions bilinear, so unit        *)
(* vectors and powers of the points stand for all inputs; the convolution  *)
(* modulo several primes rounds up to integers and is also called with     *)
(* the largest elements.                                                   *)
(***************************************************************************)
EXTENDS Integers, Sequences, FiniteSetsExt, TLC

CONSTANTS
  PrimeFields,     \* parameters of FpGeneric
  Residues(_),     \* elements of the field of a modulus
  Strings,         \* sequences of digits, -1 for anything else
  Polys,           \* elements of the field of characteristic 2
  kSizes,          \* sizes of transforms, powers of two
  Extensions,      \* <<n, m>>: n values extended to m
  CosetExtensions  \* the same for the additive transform

VARIABLES F, f, w_hat, call, result

vars == <<F, f, w_hat, call, result>>

Mg == INSTANCE Montgomery
G == INSTANCE Gf2k WITH kLogBits <- 4, kSubFieldLogBits <- 2, Poly <- {0, 2, 3, 5},
                         kLanes <- 2, kNPolyEvaluationPoints <- 6

(* 28 has order 32 modulo 97.  i = -1 has no root modulo 31, so the        *)
(* extension exists, and RootOf31 has order 32 there.                      *)
C97 == INSTANCE ReedSolomon WITH
         P <- 97, kBasecase <- 2, kTransposeBasecase <- 1, Omega <- 28, OmegaOrder <- 32,
         OmegaExt <- <<>>, OmegaExtOrder <- 1, kPrimes <- <<97>>, kOmega <- <<28>>,
         kOmegaOrder <- 32, Word <- 128,
         kNussbaumerSmall <- 4, kKaratsubaSmall <- 2
R31 == INSTANCE Fft WITH P <- 31, kBasecase <- 2, kTransposeBasecase <- 1
RootOf31 ==
  CHOOSE e \in [re : 0..30, im : 0..30] : R31!validate_root(e) /\ R31!Powc(e, 8) = R31!ic
C31 == INSTANCE ReedSolomon WITH
         P <- 31, kBasecase <- 2, kTransposeBasecase <- 1, Omega <- 1, OmegaOrder <- 1,
         OmegaExt <- RootOf31, OmegaExtOrder <- 32, kPrimes <- <<97>>, kOmega <- <<28>>,
         kOmegaOrder <- 32, Word <- 128,
         kNussbaumerSmall <- 4, kKaratsubaSmall <- 2
(* 4 and 3 have order 8 modulo 17 and 41, 22 modulo 73 *)
C11 == INSTANCE ReedSolomon WITH
         P <- 11, kBasecase <- 2, kTransposeBasecase <- 1, Omega <- 1, OmegaOrder <- 1,
         OmegaExt <- <<>>, OmegaExtOrder <- 1, kPrimes <- <<17, 41, 73>>, kOmega <- <<2, 3, 10>>,
         kOmegaOrder <- 8, Word <- 128,
         kNussbaumerSmall <- 4, kKaratsubaSmall <- 2

Idle == call.op = "ready"
Ready == [op |-> "ready"]
None == <<>>

(* Each behaviour is the life of one object; with call "off" there is none *)
Off == F = None /\ f = None /\ w_hat = None /\ result = None /\ call = [op |-> "off"]
Init ==
  /\ result = None
  /\ \/ F \in {Mg!Parameters(p) : p \in PrimeFields} /\ f = None /\ w_hat = None /\ call = [op |-> "square"]
     \/ F = None /\ f = G!Constructed /\ w_hat = None /\ call = [op |-> "subspaces"]
     \/ F = None /\ f = None /\ w_hat = None /\ call = Ready

Construct(from, to, members) ==
  /\ F # None /\ call.op = from
  /\ F' = members /\ call' = [op |-> to]
  /\ UNCHANGED <<f, w_hat, result>>

ConstructSquare == Construct("square", "small", Mg!WithSquare)
ConstructSmall == Construct("small", "inverses", Mg!WithSmall)
ConstructInverses == Construct("inverses", "ready", Mg!WithInverses)

ConstructLCH14 ==
  /\ call.op = "subspaces"
  /\ w_hat' = G!Normalised(f.beta) /\ call' = Ready
  /\ UNCHANGED <<F, f, result>>

Answer(c, r) == call' = c /\ result' = r /\ UNCHANGED <<F, f, w_hat>>

-----------------------------------------------------------------------------
M(v) == (v * (Mg!R % F.m)) % F.m       \* the Montgomery form of v
MaxWord == F.B - 1

(* Two elements: the operations, a longer number reduced, and a dot product with   *)
(* the largest words                                                       *)
Compute ==
  /\ F # None /\ Idle
  /\ \E x \in Residues(F.m), y \in Residues(F.m) :
       Answer([op |-> "compute", x |-> x, y |-> y],
              [add |-> Mg!addf(x, y), sub |-> Mg!subf(x, y), neg |-> Mg!negf(y),
               mul |-> Mg!mulf(M(x), M(y)), to |-> Mg!to_montgomery(x),
               from |-> Mg!from_montgomery(M(x)), half |-> Mg!byhalf(x),
               inverse |-> IF y = 0 THEN Mg!invertf(M(x)) ELSE 0,
               reduced |-> Mg!reduce(((x % F.B) * Mg!R) + y, F.k + 1),
               dot |-> LET p(e) == Mg!prescale_for_dot(M(e))
                       IN  Mg!dot(<<MaxWord, x % F.B, MaxWord>>, <<p(y), p(x), p(F.m - 1)>>)])

(* Numbers that need not be below the modulus *)
Import ==
  /\ F # None /\ Idle
  /\ \/ \E n \in Residues(Mg!R), n1 \in Residues(F.m) :
          Answer([op |-> "import", n |-> n, n1 |-> n1],
                 [bytes |-> Mg!of_bytes_field(n), sample |-> Mg!sample(<<n, n1>>)])
     \/ \E s \in Strings, base \in {10, 16} :
          Answer([op |-> "string", s |-> s, base |-> base], Mg!of_untrusted_string(base, s))

InverseTables ==
  /\ F # None /\ Idle
  /\ Answer([op |-> "tables"], [i \in 1..6 |-> Mg!newton_denominator(5, i - 1)])

-----------------------------------------------------------------------------
Power(e, n) == G!For(n, G!one, LAMBDA i, r : G!mulf(r, e))
Point(i) == G!of_scalar(G!Set2(i, G!kSubFieldBits))
Scalars == SUBSET (0..(G!kSubFieldBits - 1))

ComputeGf2k ==
  /\ f # None /\ Idle
  /\ \E x \in Polys \cup {f.g}, y \in Polys \cup {f.g} :
       Answer([op |-> "gf2k", x |-> x, y |-> y],
              [mul |-> G!mulf(x, y),
               inverse |-> IF x = y /\ x # {} THEN G!invertf(x) ELSE G!one,
               sub |-> G!in_subfield(x), scalar |-> G!to_bytes_subfield(x)])

Subfield ==
  /\ f # None /\ Idle
  /\ \E u \in Scalars :
       LET e == G!of_scalar(u)
       IN  Answer([op |-> "subfield", u |-> u],
                  [e |-> e, sub |-> G!in_subfield(e), back |-> G!to_bytes_subfield(e),
                   counter |-> G!as_counter(u),
                   znz |-> IF G!as_counter(u) = G!Panic THEN {} ELSE G!znz_indicator(G!as_counter(u))])

(* The values of a power of the points *)
ExtendLCH14 ==
  /\ f # None /\ Idle
  /\ \E nm \in CosetExtensions : \E k \in 0..(nm[1] - 1) :
       Answer([op |-> "lch14", m |-> nm[2], k |-> k],
              G!interpolate(nm[1], nm[2], G!Table([i \in 0..(nm[1] - 1) |-> Power(Point(i), k)])))

-----------------------------------------------------------------------------
Free == F = None /\ f = None /\ Idle

PowerMod(a, k, p) == LET r[j \in 0..k] == IF j = 0 THEN 1 ELSE (r[j - 1] * a) % p IN r[k]
Unit(n, k) == [i \in 0..(n - 1) |-> IF i = k THEN 1 ELSE 0]

Transform ==
  /\ Free
  /\ \E n \in kSizes : \E k \in 0..(n - 1) :
       \/ Answer([op |-> "fftb", n |-> n, k |-> k], C97!fftb(Unit(n, k), n, 28, 32))
       \/ Answer([op |-> "fftf", n |-> n, k |-> k], C97!fftf(Unit(n, k), n, 28, 32))

(* Transforms of unit vectors in the extension, and their inverses *)
RealTransform ==
  /\ Free
  /\ \E n \in kSizes : \E k \in 0..(n - 1) :
       LET h == R31!r2hc(Unit(n, k), n, RootOf31, 32)
       IN  Answer([op |-> "rfft", n |-> n, k |-> k],
                  [hc |-> h, r |-> R31!hc2r(h, n, RootOf31, 32)])

RECURSIVE reversed(_, _)
reversed(i, n) == IF n = 1 THEN 0 ELSE ((i % 2) * (n \div 2)) + reversed(i \div 2, n \div 2)
omega97(n) == C97!reroot(28, 32, n)
Evaluated(n, A, j) == C97!Sum(n, LAMBDA i : (A[reversed(i, n)] * C97!Pow(omega97(n), ((n - i) * j) % n)) % 97)

(* k elements of A and n - k of B, around the end, anything elsewhere *)
Bidirectional ==
  /\ Free
  /\ \E n \in {s \in kSizes : s <= 8}, seed \in 1..2 : \E k \in 0..n, b0 \in 0..(n - 1) :
       LET A == [i \in 0..(n - 1) |-> (C97!Pow(seed + 4, i) + i) % 97]
           B == [j \in 0..(n - 1) |-> Evaluated(n, A, j)]
           given(j) == \E t \in b0..(b0 + n - k - 1) : t % n = j
       IN  Answer([op |-> "bidirectional", A |-> A, B |-> B],
                  C97!interpolate(n, [i \in 0..(n - 1) |-> IF i < k THEN A[i] ELSE 95],
                                  [j \in 0..(n - 1) |-> IF given(j) THEN B[j] ELSE 94],
                                  k, b0, 28, 32))

(* The k-th power on n points, in an arithmetic sequence or not *)
PointSets(n) == {[i \in 0..(n - 1) |-> a + (i * d)] : a \in 0..1, d \in 1..2} \cup {[i \in 0..(n - 1) |-> (i * i) + 3]}
Newton ==
  /\ Free
  /\ \E n \in 1..6 : \E k \in 0..(n - 1), X \in PointSets(n) :
       LET L == [i \in 0..(n - 1) |-> PowerMod(X[i], k, 97)]
           N == C97!newton_of_lagrange(n, L, X)
       IN  Answer([op |-> "newton", n |-> n, k |-> k, X |-> X],
                  [at |-> [x \in 0..12 |-> C97!eval_newton(n, N, X, x)],
                   monomial |-> C97!monomial_of_newton(n, N, X),
                   inverses |-> C97!batch_invert(n, [i \in 0..(n - 1) |-> X[i] + 1]),
                   factorial |-> C97!factorial(n)])

-----------------------------------------------------------------------------
Kinds == {"fft", "ext", "crt"}
Modulus(kind) == CASE kind = "fft" -> 97 [] kind = "ext" -> 31 [] kind = "crt" -> 11

(* FFTExt takes elements 0 and p / 2 for different; the roots of the basis *)
(* of CRT have order 8 here                                                *)
Admissible(kind, m) ==
  CASE kind = "fft" -> TRUE [] kind = "ext" -> m > 1 [] kind = "crt" -> m <= 8

Largest(kind, n) == [i \in 0..(n - 1) |-> Modulus(kind) - 1]
Operands(kind, n, m) ==
  {<<Largest(kind, n), Largest(kind, m)>>} \cup
  {<<Unit(n, ij[1]), Unit(m, ij[2])>> :
     ij \in {t \in (0..(n - 1)) \X (0..(m - 1)) : t[1] + t[2] \in {n - 1, n, m - 1, m + n - 2}}}

Convolve ==
  /\ Free
  /\ \E kind \in Kinds, nm \in Extensions :
       LET n == nm[1]
           m == nm[2]
       IN  /\ Admissible(kind, m)
           /\ \E xy \in Operands(kind, n, m) :
                LET x == xy[1]
                    y == xy[2]
                IN  Answer([op |-> "convolution", kind |-> kind, n |-> n, m |-> m, x |-> x, y |-> y],
                           CASE kind = "fft" -> C97!FFTConvolution(n, m, y, x)
                             [] kind = "ext" -> C31!FFTExtConvolution(n, m, y, x)
                             [] kind = "crt" -> C11!CRTConvolution(n, m, y, x))

ReedSolomon ==
  /\ Free
  /\ \E kind \in Kinds, nm \in Extensions : \E k \in 0..(nm[1] - 1) :
       LET n == nm[1]
           m == nm[2]
           y == [i \in 0..(n - 1) |-> PowerMod(i, k, Modulus(kind))]
       IN  /\ Admissible(kind, m)
           /\ Answer([op |-> "reed_solomon", kind |-> kind, m |-> m, k |-> k],
                     CASE kind = "fft" -> C97!rs_interpolate(n, m, y, C97!FFTConvolution)
                       [] kind = "ext" -> C31!rs_interpolate(n, m, y, C31!FFTExtConvolution)
                       [] kind = "crt" -> C11!rs_interpolate(n, m, y, C11!CRTConvolution))

(* Unit vectors while they are few, and any two vectors.  A negacyclic     *)
(* product of 32 is the smallest that calls its own transform again.       *)
kMaxLinear == 16
Factors(n, l) ==
  IF n <= 4 THEN {<<Unit(l, i), Unit(n, j)>> : i \in 0..(l - 1), j \in 0..(n - 1)}
  ELSE {<<[i \in 0..(l - 1) |-> PowerMod(a, i, 97)], [j \in 0..(n - 1) |-> (PowerMod(a + 8, j, 97) + j) % 97]>> :
          a \in 2..5}
Nussbaumer ==
  /\ Free
  /\ \E n \in kSizes :
       \/ \E xy \in Factors(n, n) :
            Answer([op |-> "nussbaumer", n |-> n, x |-> xy[1], y |-> xy[2]],
                   [negacyclic |-> C97!negacyclic(n, xy[1], xy[2]),
                    linear |-> IF n > kMaxLinear THEN None ELSE C97!linear(n, xy[1], xy[2])])
       \/ \E xy \in Factors(n, 2 * n) :
            /\ n <= kMaxLinear
            /\ Answer([op |-> "middle", n |-> n, x |-> xy[1], y |-> xy[2]],
                      C97!middle(n, xy[1], xy[2]))

Next ==
  \/ ConstructSquare \/ ConstructSmall \/ ConstructInverses
  \/ Compute \/ Import \/ InverseTables
  \/ ConstructLCH14 \/ ComputeGf2k \/ Subfield \/ ExtendLCH14
  \/ Transform \/ RealTransform \/ Bidirectional \/ Newton
  \/ Convolve \/ ReedSolomon \/ Nussbaumer

Spec == Init /\ [][Next]_vars

-----------------------------------------------------------------------------
(* Multiplication of polynomials modulo Poly, from its definition *)
XPower(n) ==
  LET r[j \in 0..n] ==
        IF j = 0 THEN {0}
        ELSE LET up == {i + 1 : i \in r[j - 1]}
             IN  IF 16 \in up THEN G!addf(up \ {16}, {0, 2, 3, 5}) ELSE up
  IN  r[n]
Product(a, b) ==
  FoldSet(LAMBDA ij, acc : G!addf(acc, XPower(ij[1] + ij[2])), {}, a \X b)

Number(s, base) ==
  LET v[i \in 0..Len(s)] == IF i = 0 THEN 0 ELSE (base * v[i - 1]) + s[i] IN v[Len(s)]

InRange(n) == IF n < F.m THEN M(n) ELSE Mg!None
CutTo(n) == CHOOSE c \in 0..((2 ^ F.exact_bits) - 1) : (n - c) % (2 ^ F.exact_bits) = 0

(* Arithmetic in Montgomery form is arithmetic modulo the prime, whatever  *)
(* the reduction step of the prime and the limbs that were never written,  *)
(* with results below the prime, and no number at or above the prime is    *)
(* imported: from bytes and strings it is refused, when sampling skipped.  *)
MontgomeryIsArithmetic ==
  F # None =>
    CASE call.op = "compute" ->
           LET x == call.x
               y == call.y
           IN  /\ result.add = (x + y) % F.m
               /\ result.sub = ((x + F.m) - y) % F.m
               /\ result.neg = (F.m - y) % F.m
               /\ result.mul = M((x * y) % F.m)
               /\ result.to = M(x) /\ result.from = x
               /\ result.half \in 0..(F.m - 1) /\ (2 * result.half) % F.m = x
               /\ x # 0 /\ y = 0 => Mg!mulf(result.inverse, M(x)) = M(1)
               /\ result.reduced = M((M(x % F.B) + y) % F.m)
               /\ result.dot = M((((MaxWord * y) + ((x % F.B) * x)) + (MaxWord * (F.m - 1))) % F.m)
      [] call.op = "import" ->
           /\ result.bytes = InRange(call.n)
           /\ result.sample = IF CutTo(call.n) < F.m THEN M(CutTo(call.n)) ELSE M(call.n1)
      [] call.op = "string" ->
           result = IF /\ Len(call.s) <= F.kMaxStringLen
                       /\ \A i \in DOMAIN call.s : call.s[i] \in 0..(call.base - 1)
                    THEN InRange(Number(call.s, call.base)) ELSE Mg!None
      [] call.op = "tables" ->
           /\ \A i \in 2..6 : Mg!mulf(result[i], M(i - 1)) = M(1)
           /\ <<F.zero, F.one, F.two, F.mone>> = <<0, M(1), M(2), M(F.m - 1)>>
           /\ F.inverse_of_two = Mg!byhalf(F.one)
           /\ F.points = [i \in 1..6 |-> M(i - 1)]
      [] OTHER -> TRUE

(* The field of characteristic 2: multiplication by integer products in    *)
(* lanes is that of polynomials, the subfield is that of its degree, its   *)
(* coordinates are found again, and counters are powers of the generator.  *)
BinaryFieldIsField ==
  CASE call.op = "gf2k" ->
         /\ result.mul = Product(call.x, call.y)
         /\ call.x = call.y /\ call.x # {} => Product(call.x, result.inverse) = {0}
         /\ result.sub <=> Power(call.x, 2 ^ G!kSubFieldBits) = call.x
         /\ result.sub => G!of_scalar(result.scalar) = call.x
    [] call.op = "subfield" ->
         /\ result.sub /\ result.back = call.u
         /\ result.counter # G!Panic =>
              /\ result.counter = Power(f.g, G!Nat2(call.u))
              /\ result.znz = {} <=> call.u = {}
    [] OTHER -> TRUE

(* The operations of both kinds of fields are those of their definitions,  *)
(* on every limb pattern that the code may leave behind.                   *)
FieldsAreFields == MontgomeryIsArithmetic /\ BinaryFieldIsField

Half(n, e) == [j \in 0..(n - 1) |-> IF 2 * j <= n THEN e[j].re ELSE e[n - j].im]

(* Every transform is evaluation of a polynomial at the powers of the root *)
(* of unity, and its inverse takes it back; the one of fft_interpolation.h *)
(* finds the rest of both sides; Newton's form has the values it was made  *)
(* from, everywhere.                                                       *)
TransformsAreEvaluation ==
  CASE call.op \in {"fftb", "fftf"} ->
         \A j \in 0..(call.n - 1) :
           result[j] = C97!Pow(omega97(call.n),
                               (IF call.op = "fftb" THEN j * call.k ELSE (call.n - j) * call.k) % call.n)
    [] call.op = "rfft" ->
         LET root == R31!conjc(R31!rerootc(RootOf31, 32, call.n))
             e == [j \in 0..(call.n - 1) |-> R31!Powc(root, (j * call.k) % call.n)]
         IN  /\ result.hc = Half(call.n, e)
             /\ result.r = [i \in 0..(call.n - 1) |-> IF i = call.k THEN call.n % 31 ELSE 0]
    [] call.op = "bidirectional" ->
         result.ok /\ result.A = call.A /\ result.B = call.B
    [] call.op = "newton" ->
         /\ \A x \in 0..12 : result.at[x] = PowerMod(x, call.k, 97)
         /\ result.monomial = Unit(call.n, call.k)
         /\ \A i \in 0..(call.n - 1) : (result.inverses[i] * (call.X[i] + 1)) % 97 = 1
         /\ call.n > 1 => result.factorial = (call.n * C97!factorial(call.n - 1)) % 97
    [] OTHER -> TRUE

(* Extending the values of a polynomial gives its values: by convolutions  *)
(* of the inverses, whatever kind, and by cosets.  The entries of a        *)
(* convolution from n - 1 on are right; those below are right unless the   *)
(* product wraps around the padding, whatever the comments promise.  The   *)
(* convolutions without roots of unity, the one modulo x^n + 1 and the     *)
(* middle product are right in every entry.                                *)
ExtensionIsEvaluation ==
  CASE call.op = "convolution" ->
         LET p == Modulus(call.kind)
             last == (call.n + call.m) - 2
             wraps == last >= C97!choose_padding(call.m)
             exact(i) ==
               FoldSet(LAMBDA j, s : (s + (call.x[j] * call.y[i - j])) % p, 0,
                           {j \in 0..(call.n - 1) : i - j \in 0..(call.m - 1)})
         IN  \A i \in 0..(call.m - 1) : i >= call.n - 1 \/ ~wraps => result[i] = exact(i)
    [] call.op = "nussbaumer" ->
         LET term(k) == FoldSet(LAMBDA j, s : (s + (call.x[j] * call.y[k - j])) % 97, 0,
                                {j \in 0..(call.n - 1) : k - j \in 0..(call.n - 1)})
         IN  /\ result.linear # None => \A k \in 0..((2 * call.n) - 1) : result.linear[k] = term(k)
             /\ \A k \in 0..(call.n - 1) :
                  result.negacyclic[k] = ((97 + term(k)) - term(call.n + k)) % 97
    [] call.op = "middle" ->
         \A k \in 0..(call.n - 1) :
           result[k] = FoldSet(LAMBDA j, s : (s + (call.x[(call.n + k) - j] * call.y[j])) % 97, 0, 0..(call.n - 1))
    [] call.op = "reed_solomon" ->
         \A i \in 0..(call.m - 1) : result[i] = PowerMod(i, call.k, Modulus(call.kind))
    [] call.op = "lch14" ->
         \A i \in 0..(call.m - 1) : result[i] = Power(Point(i), call.k)
    [] OTHER -> TRUE
================================================================================
