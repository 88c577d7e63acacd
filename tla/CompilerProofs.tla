---------------------------- MODULE CompilerProofs ----------------------------
(***************************************************************************)
(* SimplifierIsSound is an invariant, and what the scheduler makes of      *)
(* nodes in order.                                                         *)
(*                                                                         *)
(* The invariant the first follows from says that the nodes are typed and  *)
(* in order and that value gives every node what it computes from the      *)
(* values of earlier ones.  Each call is treated as an operator on lists   *)
(* of nodes: from a list in order it returns one that extends it and a     *)
(* wire that carries the right value under every assignment of values to   *)
(* nodes that agrees with what they compute.  Loops and recursion are      *)
(* functions on an initial segment of Nat, which exist and satisfy their   *)
(* equations by the induction of SequenceLemmas.                           *)
(*                                                                         *)
(* The scheduler is treated likewise, from its sorting to the numbering of *)
(* the wires and the evaluation of the quads: every layer carries on the   *)
(* wires it numbers what the nodes of its depth compute, and the asserted  *)
(* nodes of the layers are those of the program.                           *)
(***************************************************************************)
EXTENDS Compiler, FiniteSetTheorems, TLAPS

L == INSTANCE SequenceLemmas

-----------------------------------------------------------------------------
(* Arithmetic modulo P *)
LEMMA TheModulus == P \in Nat /\ P > 1 /\ Elt \subseteq Nat /\ 0 \in Elt /\ 1 \in Elt /\ 1 % P = 1
BY ModulusAssumption, SMT DEF Elt

(* Elements are integers.                                                  *)
LEMMA ElementsAreNumbers == \A a \in Elt : a \in Int
BY TheModulus

(* A remainder is what is left of x after a multiple of P.                 *)
LEMMA Remainder ==
  ASSUME NEW x \in Int, NEW q \in Int, NEW r \in Elt, x = P * q + r
  PROVE  x % P = r
<1>1. P \in Nat /\ P > 1 BY TheModulus
<1>2. PICK q1 \in Int : x = P * q1 + (x % P) /\ x % P \in 0..(P - 1)
  <2>1. x \div P \in Int /\ x % P \in 0..(P - 1) /\ x = P * (x \div P) + (x % P) BY <1>1, SMT
  <2> QED BY <2>1
<1> DEFINE s == x % P
<1> HIDE DEF s
<1>3. s \in 0..(P - 1) /\ r \in 0..(P - 1) /\ P * q1 + s = P * q + r BY <1>2 DEF s, Elt
<1>4. ASSUME q1 >= q + 1 PROVE FALSE
  <2>1. q1 - q - 1 \in Nat BY <1>4, SMT
  <2>2. P * (q1 - q - 1) \in Nat BY <1>1, <2>1, SMT
  <2>3. P * (q1 - q - 1) = P * q1 - P * q - P BY <1>1, SMT
  <2>4. P * q1 \in Int /\ P * q \in Int BY <1>1, SMT
  <2> QED BY <1>1, <1>3, <2>2, <2>3, <2>4, SMT
<1>5. ASSUME q >= q1 + 1 PROVE FALSE
  <2>1. q - q1 - 1 \in Nat BY <1>5, SMT
  <2>2. P * (q - q1 - 1) \in Nat BY <1>1, <2>1, SMT
  <2>3. P * (q - q1 - 1) = P * q - P * q1 - P BY <1>1, SMT
  <2>4. P * q1 \in Int /\ P * q \in Int BY <1>1, SMT
  <2> QED BY <1>1, <1>3, <2>2, <2>3, <2>4, SMT
<1>6. q1 = q BY <1>4, <1>5, SMT
<1>7. P * q \in Int BY <1>1, SMT
<1> QED BY <1>3, <1>6, <1>7, SMT DEF s

(* Every integer has a remainder, which is an element.                     *)
LEMMA Quotient ==
  ASSUME NEW x \in Int
  PROVE  x % P \in Elt /\ \E q \in Int : x = P * q + (x % P)
<1>1. P \in Nat /\ P > 1 BY TheModulus
<1>2. x \div P \in Int /\ x % P \in 0..(P - 1) /\ x = P * (x \div P) + (x % P) BY <1>1, SMT
<1> QED BY <1>2 DEF Elt

(* Only the remainder of a summand or of a factor matters. *)
LEMMA SumOfRemainder ==
  ASSUME NEW x \in Int, NEW y \in Int
  PROVE  ((x % P) + y) % P = (x + y) % P
<1>1. PICK q \in Int : x = P * q + (x % P) BY Quotient
<1>2. PICK q2 \in Int : (x % P) + y = P * q2 + (((x % P) + y) % P)
  <2>1. (x % P) + y \in Int BY Quotient, TheModulus, SMT
  <2> QED BY <2>1, Quotient
<1>3. ((x % P) + y) % P \in Elt
  <2>1. (x % P) + y \in Int BY Quotient, TheModulus, SMT
  <2> QED BY <2>1, Quotient
<1> DEFINE r == ((x % P) + y) % P
<1>4. x + y = P * (q + q2) + r
  <2>1. P * (q + q2) = P * q + P * q2 BY TheModulus, SMT
  <2>2. P * q \in Int /\ P * q2 \in Int /\ x % P \in Int /\ r \in Int
    BY <1>3, Quotient, TheModulus, SMT
  <2> HIDE DEF r
  <2>3. (x % P) + y = P * q2 + r BY <1>2 DEF r
  <2> QED BY <1>1, <2>1, <2>2, <2>3, SMT
<1> QED BY <1>3, <1>4, Remainder

(* The same of a factor.                                                   *)
LEMMA ProductOfRemainder ==
  ASSUME NEW x \in Int, NEW y \in Int
  PROVE  ((x % P) * y) % P = (x * y) % P
<1>1. PICK q \in Int : x = P * q + (x % P) BY Quotient
<1>0. (x % P) * y \in Int BY Quotient, TheModulus, SMT
<1> DEFINE r == ((x % P) * y) % P
<1>2. r \in Elt /\ \E q2 \in Int : (x % P) * y = P * q2 + r BY <1>0, Quotient
<1>3. PICK q2 \in Int : (x % P) * y = P * q2 + r BY <1>2
<1> DEFINE s == x % P
<1>4. x * y = P * (q * y + q2) + r
  <2>1. s \in Int /\ r \in Int BY <1>2, Quotient, TheModulus, SMT
  <2>2. x = P * q + s /\ s * y = P * q2 + r BY <1>1, <1>3
  <2> HIDE DEF s, r
  <2>3. x * y = P * q * y + s * y BY <2>1, <2>2, TheModulus, SMT
  <2>4. P * (q * y + q2) = P * q * y + P * q2 BY TheModulus, SMT
  <2>5. P * q * y \in Int /\ P * q2 \in Int /\ s * y \in Int BY <2>1, TheModulus, SMT
  <2> QED BY <2>1, <2>2, <2>3, <2>4, <2>5, SMT
<1>5. q * y + q2 \in Int /\ x * y \in Int BY SMT
<1> HIDE DEF r
<1>6. (x * y) % P = r BY <1>2, <1>4, <1>5, Remainder
<1> QED BY <1>6 DEF r

(* An element is its own remainder.                                        *)
LEMMA Small == ASSUME NEW a \in Elt PROVE a % P = a
BY TheModulus, SMT DEF Elt

(* Sums, products and differences are elements, of any integers.           *)
LEMMA Closed ==
  ASSUME NEW a \in Int, NEW b \in Int
  PROVE  addf(a, b) \in Elt /\ mulf(a, b) \in Elt /\ subf(a, b) \in Elt
<1>1. a + b \in Int /\ a * b \in Int /\ a + (P - b) \in Int BY TheModulus, SMT
<1> QED BY <1>1, Quotient DEF addf, mulf, subf

(* Sums, products and differences of elements are elements.                *)
LEMMA ClosedField ==
  ASSUME NEW a \in Elt, NEW b \in Elt
  PROVE  addf(a, b) \in Elt /\ mulf(a, b) \in Elt /\ subf(a, b) \in Elt
<1>1. a \in Int /\ b \in Int BY TheModulus
<1> QED BY <1>1, Closed

(* Addition and multiplication are those of a commutative ring.            *)
LEMMA Ring ==
  ASSUME NEW a \in Elt, NEW b \in Elt, NEW c \in Elt
  PROVE  /\ addf(a, b) = addf(b, a) /\ mulf(a, b) = mulf(b, a)
         /\ addf(addf(a, b), c) = addf(a, addf(b, c))
         /\ mulf(mulf(a, b), c) = mulf(a, mulf(b, c))
         /\ mulf(a, addf(b, c)) = addf(mulf(a, b), mulf(a, c))
         /\ addf(0, a) = a /\ mulf(1, a) = a /\ mulf(0, a) = 0
<1> USE DEF addf, mulf
<1>0. a \in Nat /\ b \in Nat /\ c \in Nat BY TheModulus
<1>1. a + b = b + a /\ a * b = b * a BY <1>0, SMT
<1>2. (((a + b) % P) + c) % P = (a + ((b + c) % P)) % P
  <2>1. (((a + b) % P) + c) % P = (a + b + c) % P BY <1>0, SumOfRemainder, SMT
  <2>2. (((b + c) % P) + a) % P = (b + c + a) % P
    <3>1. b + c \in Int BY <1>0, SMT
    <3> QED BY <1>0, <3>1, SumOfRemainder, SMT
  <2>3. ((b + c) % P) \in Int
    <3>1. b + c \in Int BY <1>0, SMT
    <3> QED BY <3>1, Quotient, TheModulus, SMT
  <2>4. ((b + c) % P) + a = a + ((b + c) % P) BY <1>0, <2>3, SMT
  <2>5. b + c + a = a + b + c BY <1>0, SMT
  <2> QED BY <2>1, <2>2, <2>4, <2>5
<1>3. (((a * b) % P) * c) % P = (a * ((b * c) % P)) % P
  <2>1. a * b \in Int /\ b * c \in Int BY <1>0, SMT
  <2>2. (((a * b) % P) * c) % P = ((a * b) * c) % P BY <1>0, <2>1, ProductOfRemainder
  <2>3. (((b * c) % P) * a) % P = ((b * c) * a) % P BY <1>0, <2>1, ProductOfRemainder
  <2>4. ((b * c) % P) \in Int BY <2>1, Quotient, TheModulus, SMT
  <2>5. ((b * c) % P) * a = a * ((b * c) % P) BY <1>0, <2>4, SMT
  <2>6. (b * c) * a = (a * b) * c BY <1>0, SMT
  <2> QED BY <2>2, <2>3, <2>5, <2>6
<1>4. (a * ((b + c) % P)) % P = (((a * b) % P) + ((a * c) % P)) % P
  <2>1. b + c \in Int /\ a * b \in Int /\ a * c \in Int BY <1>0, SMT
  <2>2. ((b + c) % P) \in Int /\ ((a * b) % P) \in Int /\ ((a * c) % P) \in Int
    BY <2>1, Quotient, TheModulus, SMT
  <2>3. a * ((b + c) % P) = ((b + c) % P) * a BY <1>0, <2>2, SMT
  <2>4. (((b + c) % P) * a) % P = ((b + c) * a) % P BY <1>0, <2>1, ProductOfRemainder
  <2>5. (((a * b) % P) + ((a * c) % P)) % P = (a * b + ((a * c) % P)) % P
    BY <2>1, <2>2, SumOfRemainder
  <2>6. (((a * c) % P) + a * b) % P = (a * c + a * b) % P BY <2>1, SumOfRemainder
  <2>7. a * b + ((a * c) % P) = ((a * c) % P) + a * b BY <2>1, <2>2, SMT
  <2>8. a * c + a * b = (b + c) * a BY <1>0, SMT
  <2> QED BY <2>3, <2>4, <2>5, <2>6, <2>7, <2>8
<1>5. (0 + a) % P = a /\ (1 * a) % P = a /\ (0 * a) % P = 0
  <2>1. 0 + a = a /\ 1 * a = a /\ 0 * a = 0 BY <1>0, SMT
  <2> QED BY <2>1, Small, TheModulus
<1> QED BY <1>1, <1>2, <1>3, <1>4, <1>5

(* A product with zero is zero, from either side.                          *)
LEMMA TimesZero == ASSUME NEW a \in Elt PROVE mulf(a, 0) = 0 /\ mulf(0, a) = 0
BY Ring, TheModulus

(* sub() subtracts by adding P - 1 times the second.                       *)
LEMMA Difference ==
  ASSUME NEW a \in Elt, NEW b \in Elt
  PROVE  subf(a, b) = addf(a, mulf(P - 1, b))
<1>0. a \in Nat /\ b \in Nat /\ b < P /\ P \in Nat BY TheModulus, SMT DEF Elt
<1>1. CASE b = 0
  <2>1. (P - 1) * b = 0 BY <1>0, <1>1, SMT
  <2>2. mulf(P - 1, b) = 0 BY <2>1, Small, TheModulus DEF mulf
  <2>3. a + (P - b) = P + a /\ P \in Int BY <1>0, <1>1, SMT
  <2>4. P % P = 0 BY TheModulus, SMT
  <2>5. (P + a) % P = a
    <3>1. P + a = P * 1 + a /\ P + a \in Int BY <1>0, SMT
    <3> QED BY <3>1, Remainder
  <2>6. addf(a, 0) = a BY <1>0, Small, SMT DEF addf
  <2> QED BY <2>2, <2>3, <2>5, <2>6 DEF subf
<1>2. CASE b # 0
  <2>1. P - b \in Elt BY <1>0, <1>2, SMT DEF Elt
  <2>2. (P - 1) * b = P * (b - 1) + (P - b) BY <1>0, SMT
  <2>3. (P - 1) * b \in Int /\ b - 1 \in Int BY <1>0, SMT
  <2>4. mulf(P - 1, b) = P - b BY <2>1, <2>2, <2>3, Remainder DEF mulf
  <2> QED BY <2>4 DEF subf, addf
<1> QED BY <1>1, <1>2

-----------------------------------------------------------------------------
(* Sums.  The sum of the first n elements: *)
Partial(g, n) == Sum(n, LAMBDA j : g[j + 1])

Sums(g, f, n) == f = [k \in 0..n |-> IF k = 0 THEN 0 ELSE addf(f[k - 1], g[(k - 1) + 1])]

(* The recursive function Sum is made of exists.                           *)
LEMMA SumsExist ==
  ASSUME NEW g, NEW n \in Nat
  PROVE  \E f : Sums(g, f, n)
<1> DEFINE S == {m \in Nat : \E f : Sums(g, f, m)}
<1>1. 0 \in S
  <2> DEFINE f == [k \in 0..0 |-> 0]
  <2>1. Sums(g, f, 0)
    <3>1. \A k \in 0..0 : k = 0 OBVIOUS
    <3> QED BY <3>1, Zenon DEF Sums
  <2> QED BY <2>1
<1>2. ASSUME NEW m \in Nat, m \in S PROVE m + 1 \in S
  <2>1. PICK f : Sums(g, f, m) BY <1>2
  <2> DEFINE h == [k \in 0..(m + 1) |-> IF k \in 0..m THEN f[k] ELSE addf(f[k - 1], g[(k - 1) + 1])]
  <2>2. ASSUME NEW k \in 0..(m + 1)
        PROVE  h[k] = IF k = 0 THEN 0 ELSE addf(h[k - 1], g[(k - 1) + 1])
    <3>1. CASE k = 0
      <4>1. 0 \in 0..m /\ 0 \in 0..(m + 1) OBVIOUS
      <4>2. h[0] = f[0] BY <4>1
      <4>3. f[0] = 0 BY <2>1, <4>1 DEF Sums
      <4> QED BY <3>1, <4>2, <4>3
    <3>2. CASE k # 0
      <4>1. k - 1 \in 0..m /\ k - 1 \in 0..(m + 1) BY <3>2
      <4>2. h[k - 1] = f[k - 1] BY <4>1
      <4>3. CASE k \in 0..m
        <5>1. h[k] = f[k] BY <4>3
        <5>2. f[k] = addf(f[k - 1], g[(k - 1) + 1]) BY <2>1, <3>2, <4>3 DEF Sums
        <5> QED BY <3>2, <4>2, <5>1, <5>2
      <4>4. CASE k \notin 0..m
        <5>1. h[k] = addf(f[k - 1], g[(k - 1) + 1]) BY <4>4
        <5> QED BY <3>2, <4>2, <5>1
      <4> QED BY <4>3, <4>4
    <3> QED BY <3>1, <3>2
  <2> DEFINE e == [k \in 0..(m + 1) |-> IF k = 0 THEN 0 ELSE addf(h[k - 1], g[(k - 1) + 1])]
  <2>3. h = e
    <3>1. \A k \in 0..(m + 1) : h[k] = e[k] BY <2>2
    <3> QED BY <3>1, Zenon
  <2>4. Sums(g, h, m + 1) BY <2>3, Zenon DEF Sums
  <2> QED BY <2>4
<1>3. \A k \in Nat : k \in S BY <1>1, <1>2, L!Induction, Zenon
<1> QED BY <1>3

(* A partial sum is the last value of that function.                       *)
LEMMA SumIs ==
  ASSUME NEW g, NEW n \in Nat
  PROVE  \E f : Sums(g, f, n) /\ Partial(g, n) = f[n]
<1> DEFINE f == CHOOSE f : f = [k \in 0..n |-> IF k = 0 THEN 0 ELSE addf(f[k - 1], g[(k - 1) + 1])]
<1>1. \E ff : ff = [k \in 0..n |-> IF k = 0 THEN 0 ELSE addf(ff[k - 1], g[(k - 1) + 1])]
  BY SumsExist DEF Sums
<1>2. f = [k \in 0..n |-> IF k = 0 THEN 0 ELSE addf(f[k - 1], g[(k - 1) + 1])] BY <1>1, Zenon
<1>3. Partial(g, n) = f[n] BY Zenon DEF Partial, Sum
<1> HIDE DEF f
<1> QED BY <1>2, <1>3, Zenon DEF Sums

(* Sums of the same elements are the same, and in the field. *)
LEMMA SumsAgree ==
  ASSUME NEW n \in Nat, NEW m \in Nat, NEW g, NEW h, NEW f, NEW e,
         Sums(g, f, n), Sums(h, e, m), n <= m, \A k \in 1..n : g[k] = h[k]
  PROVE  \A k \in 0..n : f[k] = e[k]
<1> DEFINE S == {k \in Nat : k <= n => f[k] = e[k]}
<1>1. 0 \in S
  <2>1. 0 \in 0..n /\ 0 \in 0..m OBVIOUS
  <2>2. f[0] = 0 /\ e[0] = 0 BY <2>1 DEF Sums
  <2> QED BY <2>2
<1>2. ASSUME NEW k \in Nat, k \in S PROVE k + 1 \in S
  <2>1. CASE k + 1 <= n
    <3>1. k + 1 \in 0..n /\ k + 1 \in 0..m /\ k + 1 # 0 /\ (k + 1) - 1 = k /\ k + 1 \in 1..n
      BY <2>1
    <3>2. f[k + 1] = addf(f[k], g[k + 1]) BY <3>1 DEF Sums
    <3>3. e[k + 1] = addf(e[k], h[k + 1]) BY <3>1 DEF Sums
    <3>4. f[k] = e[k] BY <1>2, <2>1
    <3> QED BY <3>1, <3>2, <3>3, <3>4
  <2> QED BY <2>1
<1>3. \A k \in Nat : k \in S BY <1>1, <1>2, L!Induction, Zenon
<1> QED BY <1>3

(* A partial sum is the one before and one element more.                   *)
LEMMA PartialSums ==
  ASSUME NEW g, NEW n \in Nat
  PROVE  Partial(g, 0) = 0 /\ Partial(g, n + 1) = addf(Partial(g, n), g[n + 1])
<1>1. PICK f : Sums(g, f, n) /\ Partial(g, n) = f[n] BY SumIs
<1>2. PICK e : Sums(g, e, n + 1) /\ Partial(g, n + 1) = e[n + 1] BY SumIs
<1>3. PICK d : Sums(g, d, 0) /\ Partial(g, 0) = d[0] BY SumIs
<1>4. d[0] = 0 BY <1>3 DEF Sums
<1>5. f[n] = e[n] BY <1>1, <1>2, SumsAgree, SMT
<1>6. e[n + 1] = addf(e[n], g[n + 1])
  <2>1. n + 1 \in 0..(n + 1) /\ n + 1 # 0 /\ (n + 1) - 1 = n OBVIOUS
  <2> QED BY <1>2, <2>1 DEF Sums
<1> QED BY <1>1, <1>2, <1>3, <1>4, <1>5, <1>6

(* Partial sums of the same elements are the same.                         *)
LEMMA PartialAgrees ==
  ASSUME NEW g, NEW h, NEW n \in Nat, \A k \in 1..n : g[k] = h[k]
  PROVE  Partial(g, n) = Partial(h, n)
<1>1. PICK f : Sums(g, f, n) /\ Partial(g, n) = f[n] BY SumIs
<1>2. PICK e : Sums(h, e, n) /\ Partial(h, n) = e[n] BY SumIs
<1>3. f[n] = e[n]
  <2>1. \A k \in 0..n : f[k] = e[k] BY <1>1, <1>2, SumsAgree, SMT
  <2> QED BY <2>1
<1> QED BY <1>1, <1>2, <1>3

(* Partial sums of elements are elements.                                  *)
LEMMA PartialInField ==
  ASSUME NEW g, NEW n \in Nat, \A k \in 1..n : g[k] \in Elt
  PROVE  Partial(g, n) \in Elt
<1> DEFINE S == {k \in Nat : k <= n => Partial(g, k) \in Elt}
<1>1. 0 \in S BY PartialSums, TheModulus
<1>2. ASSUME NEW k \in Nat, k \in S PROVE k + 1 \in S
  <2>1. CASE k + 1 <= n
    <3>0. k + 1 \in 1..n BY <2>1
    <3>1. Partial(g, k) \in Elt BY <1>2, <2>1
    <3>2. g[k + 1] \in Elt BY <3>0
    <3> QED BY <3>1, <3>2, PartialSums, ClosedField
  <2> QED BY <2>1
<1>3. \A k \in Nat : k \in S BY <1>1, <1>2, L!Induction, Zenon
<1> QED BY <1>3

(* A factor of every element is a factor of the sum. *)
LEMMA ScaledSum ==
  ASSUME NEW c \in Elt, NEW g, NEW h, NEW n \in Nat,
         \A k \in 1..n : g[k] \in Elt /\ h[k] = mulf(c, g[k])
  PROVE  Partial(h, n) = mulf(c, Partial(g, n))
<1> DEFINE S == {k \in Nat : k <= n => Partial(h, k) = mulf(c, Partial(g, k))}
<1>1. 0 \in S
  <2>1. mulf(c, 0) = 0 BY Ring, TheModulus
  <2> QED BY <2>1, PartialSums
<1>2. ASSUME NEW k \in Nat, k \in S PROVE k + 1 \in S
  <2>1. CASE k + 1 <= n
    <3>1. k + 1 \in 1..n /\ \A j \in 1..k : j \in 1..n BY <2>1
    <3>2. Partial(g, k) \in Elt /\ g[k + 1] \in Elt BY <3>1, PartialInField
    <3>3. Partial(h, k) = mulf(c, Partial(g, k)) /\ h[k + 1] = mulf(c, g[k + 1]) BY <1>2, <2>1, <3>1
    <3>4. Partial(h, k + 1) = addf(mulf(c, Partial(g, k)), mulf(c, g[k + 1])) BY <3>3, PartialSums
    <3>5. Partial(g, k + 1) = addf(Partial(g, k), g[k + 1]) BY PartialSums
    <3> QED BY <3>2, <3>4, <3>5, Ring
  <2> QED BY <2>1
<1>3. \A k \in Nat : k \in S BY <1>1, <1>2, L!Induction, Zenon
<1> QED BY <1>3

-----------------------------------------------------------------------------
(* Nodes *)
Ok(ns) == Typed(ns) /\ InOrder(ns)

(* What a node computes, and its depth *)
Same(m, n) == m.terms = n.terms /\ m.depth = n.depth /\ m.is_input = n.is_input /\ m.in_id = n.in_id
Extends(ns, ms) == Ops(ns) \subseteq Ops(ms) /\ \A i \in Ops(ns) : Same(ns[i], ms[i])

Size(ns) == Cardinality(Ops(ns))

(* Nodes are numbered from 0 without gaps.                                 *)
LEMMA Numbered ==
  ASSUME NEW ns, Typed(ns)
  PROVE  Size(ns) \in Nat /\ Size(ns) > 0 /\ Ops(ns) = 0..(Size(ns) - 1)
<1>0. IsFiniteSet(Ops(ns)) BY DEF Typed
<1>1. Size(ns) \in Nat BY <1>0, FS_CardinalityType, Zenon DEF Size
<1>2. Ops(ns) = 0..(Size(ns) - 1) /\ 0 \in Ops(ns) BY DEF Typed, Size
<1> QED BY <1>1, <1>2, SMT

(* Operands of a term of a node are earlier nodes, and not empty sums.     *)
LEMMA NodeFacts ==
  ASSUME NEW ns, Ok(ns), NEW i \in Ops(ns)
  PROVE  /\ i \in Nat /\ \A j \in Nat : j <= i => j \in Ops(ns)
         /\ ns[i] \in NodeType /\ ns[i].terms \in Seq(TermType) /\ Len(ns[i].terms) \in Nat
         /\ DOMAIN ns[i].terms = 1..Len(ns[i].terms)
         /\ \A j \in 1..Len(ns[i].terms) :
              LET t == ns[i].terms[j]
              IN  /\ t \in TermType /\ t.k \in Elt /\ t.op0 \in Ops(ns) /\ t.op1 \in Ops(ns)
                  /\ t.op0 <= t.op1 /\ t.op1 < i /\ ~IsZero(ns[t.op1])
<1>1. i \in Nat /\ \A j \in Nat : j <= i => j \in Ops(ns) BY Numbered, SMT DEF Ok
<1>2. ns[i] \in NodeType BY DEF Ok, Typed
<1>3. ns[i].terms \in Seq(TermType) BY <1>2 DEF NodeType
<1>4. Len(ns[i].terms) \in Nat /\ DOMAIN ns[i].terms = 1..Len(ns[i].terms) BY <1>3
<1>5. ASSUME NEW j \in 1..Len(ns[i].terms)
      PROVE  LET t == ns[i].terms[j]
             IN  /\ t \in TermType /\ t.k \in Elt /\ t.op0 \in Ops(ns) /\ t.op1 \in Ops(ns)
                 /\ t.op0 <= t.op1 /\ t.op1 < i /\ ~IsZero(ns[t.op1])
  <2> DEFINE t == ns[i].terms[j]
  <2>1. t \in TermType BY <1>3
  <2>2. t.k \in Elt /\ t.op0 \in Nat /\ t.op1 \in Nat BY <2>1 DEF TermType
  <2>3. t.op0 <= t.op1 /\ t.op1 < i /\ ~IsZero(ns[t.op1]) BY <1>4 DEF Ok, InOrder
  <2>4. t.op0 \in Ops(ns) /\ t.op1 \in Ops(ns) BY <1>1, <2>2, <2>3, SMT
  <2> QED BY <2>1, <2>2, <2>3, <2>4
<1> QED BY <1>1, <1>2, <1>3, <1>4, <1>5

(* The largest of some numbers *)
LEMMA LargestExists ==
  ASSUME NEW h, NEW n \in Nat, \A j \in 1..n : h[j] \in Nat
  PROVE  \E m \in {0} \union {h[j] : j \in 1..n} : \A x \in {0} \union {h[j] : j \in 1..n} : m >= x
<1> DEFINE All(k) == {0} \union {h[j] : j \in 1..k}
<1> DEFINE S == {k \in Nat : k <= n => \E m \in All(k) : \A x \in All(k) : m >= x}
<1>1. 0 \in S
  <2>1. All(0) = {0} OBVIOUS
  <2> QED BY <2>1
<1>2. ASSUME NEW k \in Nat, k \in S PROVE k + 1 \in S
  <2>1. CASE k + 1 <= n
    <3>1. PICK m \in All(k) : \A x \in All(k) : m >= x BY <1>2, <2>1
    <3>2. All(k + 1) = All(k) \union {h[k + 1]}
      <4>1. 1..(k + 1) = (1..k) \union {k + 1} OBVIOUS
      <4> QED BY <4>1
    <3>3. h[k + 1] \in Nat /\ \A x \in All(k) : x \in Nat BY <2>1
    <3> HIDE DEF All
    <3>4. CASE h[k + 1] >= m
      <4>1. \A x \in All(k + 1) : h[k + 1] >= x BY <3>1, <3>2, <3>3, <3>4, SMT
      <4> QED BY <3>2, <4>1
    <3>5. CASE ~(h[k + 1] >= m)
      <4>1. \A x \in All(k + 1) : m >= x BY <3>1, <3>2, <3>3, <3>5, SMT
      <4> QED BY <3>2, <3>1, <4>1
    <3> QED BY <3>4, <3>5
  <2> QED BY <2>1
<1>3. n \in S
  <2>1. \A k \in Nat : k \in S BY <1>1, <1>2, L!Induction, Zenon
  <2> QED BY <2>1
<1>4. \E m \in All(n) : \A x \in All(n) : m >= x BY <1>3
<1> QED BY <1>4

(* A depth is a number.                                                    *)
LEMMA DepthIsNumber ==
  ASSUME NEW ns, NEW n, NEW terms \in Seq(TermType), n.terms = terms,
         \A i \in Ops(ns) : ns[i].depth \in Nat,
         \A j \in DOMAIN terms : terms[j].op0 \in Ops(ns) /\ terms[j].op1 \in Ops(ns)
  PROVE  DepthOf(ns, n) \in Nat
<1> DEFINE h == [j \in 1..Len(terms) |-> 1 + Upper(ns[terms[j].op0].depth, ns[terms[j].op1].depth)]
<1> DEFINE D == {0} \union {h[j] : j \in 1..Len(terms)}
<1>1. Len(terms) \in Nat /\ DOMAIN terms = 1..Len(terms) OBVIOUS
<1>2. ASSUME NEW j \in 1..Len(terms) PROVE h[j] \in Nat
  <2>1. ns[terms[j].op0].depth \in Nat /\ ns[terms[j].op1].depth \in Nat BY <1>1
  <2> QED BY <2>1, SMT DEF Upper
<1>3. \E m \in D : \A x \in D : m >= x
  <2>1. \A j \in 1..Len(terms) : h[j] \in Nat BY <1>2
  <2> HIDE DEF h
  <2> QED BY <1>1, <2>1, LargestExists, Zenon
<1>4. D = {0} \union {1 + Upper(ns[t.op0].depth, ns[t.op1].depth) : t \in Seqs!ToSet(n.terms)}
  <2>1. Seqs!ToSet(n.terms) = {terms[j] : j \in 1..Len(terms)} BY <1>1 DEF Seqs!ToSet
  <2> QED BY <2>1
<1>5. DepthOf(ns, n) = CHOOSE x \in D : \A y \in D : x >= y BY <1>4, Zenon DEF DepthOf, Seqs!Max
<1>6. DepthOf(ns, n) \in D BY <1>3, <1>5, Zenon
<1>7. \A x \in D : x \in Nat BY <1>2
<1> QED BY <1>6, <1>7

(* The depth of a node is that of the nodes it is over. *)
LEMMA SameDepth ==
  ASSUME NEW ns, NEW ms, NEW m, NEW n, m.terms = n.terms,
         \A t \in Seqs!ToSet(n.terms) :
           ns[t.op0].depth = ms[t.op0].depth /\ ns[t.op1].depth = ms[t.op1].depth
  PROVE  DepthOf(ns, m) = DepthOf(ms, n)
<1>1. {1 + Upper(ns[t.op0].depth, ns[t.op1].depth) : t \in Seqs!ToSet(m.terms)}
        = {1 + Upper(ms[t.op0].depth, ms[t.op1].depth) : t \in Seqs!ToSet(n.terms)}
  OBVIOUS
<1> QED BY <1>1, Zenon DEF DepthOf

TermsOk(ns, ts) ==
  /\ ts \in Seq(TermType)
  /\ \A j \in 1..Len(ts) : ts[j].op0 <= ts[j].op1 /\ ts[j].op1 \in Ops(ns) /\ ~IsZero(ns[ts[j].op1])
  /\ \A j \in 1..(Len(ts) - 1) : ltndx(ts[j], ts[j + 1])
NodeOk(ns, n) ==
  /\ n \in NodeType /\ TermsOk(ns, n.terms)
  /\ n.is_input => n.in_id \in 0..(MaxInputs - 1) /\ n.terms = <<>>
  /\ n.is_assert0 => n.terms # <<>> /\ n.terms[1].k = 0

(* A node of an ordered list is one push_node() could have been given.     *)
LEMMA NodesAreOk ==
  ASSUME NEW ns, Ok(ns), NEW i \in Ops(ns)
  PROVE  NodeOk(ns, ns[i])
<1>1. /\ ns[i] \in NodeType /\ ns[i].terms \in Seq(TermType) /\ DOMAIN ns[i].terms = 1..Len(ns[i].terms)
      /\ \A j \in 1..Len(ns[i].terms) :
           LET t == ns[i].terms[j] IN t.op0 <= t.op1 /\ t.op1 \in Ops(ns) /\ ~IsZero(ns[t.op1])
  BY NodeFacts
<1>2. \A j \in 1..(Len(ns[i].terms) - 1) : ltndx(ns[i].terms[j], ns[i].terms[j + 1])
  BY DEF Ok, InOrder
<1>3. ns[i].is_input => ns[i].in_id \in 0..(MaxInputs - 1) /\ ns[i].terms = <<>> BY DEF Ok, Typed
<1>4. ns[i].is_assert0 => ns[i].terms # <<>> /\ ns[i].terms[1].k = 0 BY DEF Ok, InOrder
<1> QED BY <1>1, <1>2, <1>3, <1>4 DEF NodeOk, TermsOk

(* What any call returns: a wire of nodes that are still in order, the old *)
(* ones among them *)
Returns(ns, r) == Ok(r.ns) /\ Extends(ns, r.ns) /\ r.op \in Ops(r.ns)

(* A call that returns a wire there already adds nothing.                  *)
LEMMA NothingNew ==
  ASSUME NEW ns, Ok(ns), NEW i \in Ops(ns)
  PROVE  Returns(ns, [ns |-> ns, op |-> i])
BY DEF Returns, Extends, Same

(* What extends an extension extends.                                      *)
LEMMA ExtendsTwice ==
  ASSUME NEW ns, NEW ms, NEW ks, Extends(ns, ms), Extends(ms, ks)
  PROVE  Extends(ns, ks)
BY DEF Extends, Same

(* push_node() returns a node like the given one, new or found under its   *)
(* hash: the nodes there were are unchanged and the list stays in order.   *)
LEMMA PushNode ==
  ASSUME NEW ns, Ok(ns), NEW n, NodeOk(ns, n)
  PROVE  LET r == push_node(ns, n)
         IN  /\ Returns(ns, r)
             /\ r.ns[r.op].terms = n.terms /\ r.ns[r.op].is_input = n.is_input
             /\ r.ns[r.op].in_id = n.in_id
<1> SUFFICES ASSUME NEW r, r = push_node(ns, n)
             PROVE  /\ Returns(ns, r)
                    /\ r.ns[r.op].terms = n.terms /\ r.ns[r.op].is_input = n.is_input
                    /\ r.ns[r.op].in_id = n.in_id
  OBVIOUS
<1>1. CASE Alike(ns, n) # {}
  <2>1. r = [ns |-> ns, op |-> CHOOSE i \in Alike(ns, n) : TRUE] BY <1>1, Zenon DEF push_node
  <2>2. r.ns = ns /\ r.op \in Alike(ns, n) BY <1>1, <2>1
  <2>3. r.op \in Ops(ns) /\ Content(ns[r.op]) = Content(n) BY <2>2, Zenon DEF Alike
  <2>4. Extends(ns, ns) BY DEF Extends, Same
  <2> QED BY <2>2, <2>3, <2>4 DEF Content, Returns
<1>2. CASE Alike(ns, n) = {}
  <2> DEFINE id == Size(ns)
             new == [n EXCEPT !.depth = DepthOf(ns, n), !.key = KeyOf(n)]
             ms == [i \in Ops(ns) \union {id} |-> IF i = id THEN new ELSE ns[i]]
  <2>1. r = [ns |-> ms, op |-> id] BY <1>2, Zenon DEF push_node, Size
  <2>2. id \in Nat /\ id > 0 /\ Ops(ns) = 0..(id - 1) BY Numbered DEF Ok
  <2>3. /\ \A i \in Ops(ns) : ns[i] \in NodeType /\ ns[i].depth \in Nat
        /\ n \in NodeType /\ n.terms \in Seq(TermType) /\ TermsOk(ns, n.terms)
    BY NodeFacts DEF NodeOk, TermsOk, NodeType
  <2>4. Len(n.terms) \in Nat /\ DOMAIN n.terms = 1..Len(n.terms) BY <2>3
  <2>5. \A j \in 1..Len(n.terms) : n.terms[j].op0 \in Ops(ns) /\ n.terms[j].op1 \in Ops(ns)
    <3>1. ASSUME NEW j \in 1..Len(n.terms) PROVE n.terms[j].op0 \in Ops(ns) /\ n.terms[j].op1 \in Ops(ns)
      <4>0. n.terms[j] \in TermType BY <2>3
      <4>1. n.terms[j].op0 \in Nat /\ n.terms[j].op1 \in Nat BY <4>0 DEF TermType
      <4>2. n.terms[j].op0 <= n.terms[j].op1 /\ n.terms[j].op1 \in Ops(ns) BY <2>3 DEF TermsOk
      <4> QED BY <2>2, <4>1, <4>2, SMT
    <3> QED BY <3>1
  <2>6. DepthOf(ns, n) \in Nat BY <2>3, <2>4, <2>5, DepthIsNumber
  <2>7. /\ new \in NodeType /\ new.terms = n.terms /\ new.is_input = n.is_input /\ new.in_id = n.in_id
        /\ new.is_assert0 = n.is_assert0 /\ new.depth = DepthOf(ns, n)
    <3>1. KeyOf(n) \in BOOLEAN \X Int BY <2>3 DEF KeyOf, NodeType
    <3> HIDE DEF new
    <3>2. /\ new.terms = n.terms /\ new.is_input = n.is_input /\ new.in_id = n.in_id
          /\ new.is_assert0 = n.is_assert0 /\ new.depth = DepthOf(ns, n)
      BY <2>3 DEF NodeType, new
    <3>3. new \in NodeType BY <2>3, <2>6, <3>1 DEF NodeType, new
    <3> QED BY <3>2, <3>3
  <2> HIDE DEF new
  <2>8. Ops(ms) = 0..id /\ Ops(ms) = Ops(ns) \union {id} /\ id \notin Ops(ns)
    <3>1. Ops(ms) = Ops(ns) \union {id} BY Zenon DEF Ops
    <3> HIDE DEF ms, id
    <3> QED BY <2>2, <3>1
  <2>9. ms[id] = new /\ \A i \in Ops(ns) : ms[i] = ns[i]
    <3> HIDE DEF id
    <3> QED BY <2>2
  <2> HIDE DEF ms
  <2>10. IsFiniteSet(Ops(ms)) /\ Cardinality(Ops(ms)) = id + 1
    <3>1. IsFiniteSet(Ops(ns)) BY DEF Ok, Typed
    <3>2. IsFiniteSet(Ops(ns) \union {id}) /\ Cardinality(Ops(ns) \union {id}) = Cardinality(Ops(ns)) + 1
      <4> HIDE DEF id
      <4> QED BY <2>8, <3>1, FS_AddElement, Zenon
    <3> QED BY <2>8, <3>2, Zenon DEF Size
  <2> HIDE DEF id
  <2>11. Extends(ns, ms) BY <2>8, <2>9 DEF Extends, Same
  <2>12. Typed(ms)
    <3>1. Ops(ms) = 0..(Cardinality(Ops(ms)) - 1) BY <2>2, <2>8, <2>10
    <3>2. 0 \in Ops(ns) /\ 0 \in Ops(ms) /\ ms[0].is_input /\ ms[0].in_id = 0
      BY <2>8, <2>9 DEF Ok, Typed
    <3>3. ASSUME NEW i \in Ops(ms) PROVE ms[i] \in NodeType /\ (ms[i].is_input => ms[i].in_id \in 0..(MaxInputs - 1) /\ ms[i].terms = <<>>)
      <4>1. CASE i = id BY <2>7, <2>9, <4>1 DEF NodeOk
      <4>2. CASE i # id
        <5>1. i \in Ops(ns) /\ ms[i] = ns[i] BY <2>8, <2>9, <4>2
        <5> QED BY <5>1 DEF Ok, Typed
      <4> QED BY <4>1, <4>2
    <3> QED BY <2>10, <3>1, <3>2, <3>3 DEF Typed
  <2>13. InOrder(ms)
    <3> SUFFICES ASSUME NEW i \in Ops(ms)
                 PROVE /\ \A j \in DOMAIN ms[i].terms :
                            LET t == ms[i].terms[j] IN t.op0 <= t.op1 /\ t.op1 < i /\ ~IsZero(ms[t.op1])
                       /\ \A j \in 1..(Len(ms[i].terms) - 1) : ltndx(ms[i].terms[j], ms[i].terms[j + 1])
                       /\ ms[i].depth = DepthOf(ms, ms[i])
                       /\ ms[i].is_assert0 => ms[i].terms # <<>> /\ ms[i].terms[1].k = 0
      BY Zenon DEF InOrder
    <3>1. CASE i = id
      <4>1. ms[i].terms = n.terms /\ DOMAIN n.terms = 1..Len(n.terms) BY <2>4, <2>7, <2>9, <3>1
      <4>2. ASSUME NEW j \in 1..Len(n.terms)
            PROVE  LET t == n.terms[j] IN t.op0 <= t.op1 /\ t.op1 < i /\ ~IsZero(ms[t.op1])
        <5>1. LET t == n.terms[j] IN t.op0 <= t.op1 /\ t.op1 \in Ops(ns) /\ ~IsZero(ns[t.op1])
          BY <2>3 DEF TermsOk
        <5>2. n.terms[j].op1 < i
          <6>1. n.terms[j].op1 \in 0..(id - 1) BY <2>2, <5>1
          <6> QED BY <2>2, <3>1, <6>1, SMT
        <5> QED BY <2>9, <5>1, <5>2
      <4>3. \A j \in 1..(Len(n.terms) - 1) : ltndx(n.terms[j], n.terms[j + 1]) BY <2>3 DEF TermsOk
      <4>4. DepthOf(ns, n) = DepthOf(ms, ms[i])
        <5>1. \A t \in Seqs!ToSet(n.terms) :
                ms[t.op0].depth = ns[t.op0].depth /\ ms[t.op1].depth = ns[t.op1].depth
          BY <2>4, <2>5, <2>9 DEF Seqs!ToSet
        <5> QED BY <4>1, <5>1, SameDepth
      <4>5. ms[i].depth = DepthOf(ns, n) /\ ms[i].is_assert0 = n.is_assert0 BY <2>7, <2>9, <3>1
      <4> QED BY <4>1, <4>2, <4>3, <4>4, <4>5 DEF NodeOk
    <3>2. CASE i # id
      <4>1. i \in Ops(ns) /\ ms[i] = ns[i] BY <2>8, <2>9, <3>2
      <4>2. DOMAIN ns[i].terms = 1..Len(ns[i].terms) BY <4>1, NodeFacts
      <4>3. ASSUME NEW j \in 1..Len(ns[i].terms)
            PROVE  LET t == ns[i].terms[j]
                   IN  t.op0 \in Ops(ns) /\ t.op1 \in Ops(ns) /\ t.op0 <= t.op1 /\ t.op1 < i /\ ~IsZero(ms[t.op1])
        <5>1. LET t == ns[i].terms[j]
              IN  t.op0 \in Ops(ns) /\ t.op1 \in Ops(ns) /\ t.op0 <= t.op1 /\ t.op1 < i /\ ~IsZero(ns[t.op1])
          BY <4>1, NodeFacts
        <5> QED BY <2>9, <5>1
      <4>4. DepthOf(ns, ns[i]) = DepthOf(ms, ms[i])
        <5>1. \A t \in Seqs!ToSet(ns[i].terms) :
                ms[t.op0].depth = ns[t.op0].depth /\ ms[t.op1].depth = ns[t.op1].depth
          BY <2>9, <4>2, <4>3 DEF Seqs!ToSet
        <5> QED BY <4>1, <5>1, SameDepth
      <4>5. /\ \A j \in 1..(Len(ns[i].terms) - 1) : ltndx(ns[i].terms[j], ns[i].terms[j + 1])
            /\ ns[i].depth = DepthOf(ns, ns[i])
            /\ ns[i].is_assert0 => ns[i].terms # <<>> /\ ns[i].terms[1].k = 0
        BY <4>1, Zenon DEF Ok, InOrder
      <4> QED BY <4>1, <4>2, <4>3, <4>4, <4>5
    <3> QED BY <3>1, <3>2
  <2>14. r.ns = ms /\ r.op = id BY <2>1
  <2> QED BY <2>7, <2>8, <2>9, <2>11, <2>12, <2>13, <2>14 DEF Returns, Ok
<1> QED BY <1>1, <1>2

-----------------------------------------------------------------------------
(* Values *)
Meaning(ts, w, X) == Total([j \in DOMAIN ts |-> TermValue(ts[j], w, X)])

Carries(ns, w) ==
  \A i \in Ops(ns) : w[i] \in [Inputs -> Elt] /\ w[i] = NodeValue(ns[i], w)

(* An assignment gives every input an element, and 1 to input 0.           *)
LEMMA InputsAreInField ==
  ASSUME NEW X \in Inputs
  PROVE  X[0] = 1 /\ \A k \in 0..(MaxInputs - 1) : X[k] \in Elt
BY TheModulus DEF Inputs

(* What terms mean is a partial sum of their values.                       *)
LEMMA MeaningIsPartial ==
  ASSUME NEW ts \in Seq(TermType), NEW w, NEW X
  PROVE  Meaning(ts, w, X) = Partial([j \in 1..Len(ts) |-> TermValue(ts[j], w, X)], Len(ts))
<1>1. Len(ts) \in Nat /\ DOMAIN ts = 1..Len(ts) OBVIOUS
<1> DEFINE g == [j \in 1..Len(ts) |-> TermValue(ts[j], w, X)]
<1>2. g = [j \in 1..Len(ts) |-> g[j]] OBVIOUS
<1>3. Meaning(ts, w, X) = Total(g) BY <1>1, Zenon DEF Meaning
<1> HIDE DEF g
<1>4. Len(g) = Len(ts) BY <1>1, <1>2, L!SequenceOfLength
<1>5. Total(g) = Partial(g, Len(g)) BY Zenon DEF Total, Partial
<1> QED BY <1>3, <1>4, <1>5 DEF g

(* No terms mean zero.                                                     *)
LEMMA MeaningOfNone ==
  ASSUME NEW w, NEW X
  PROVE  Meaning(<<>>, w, X) = 0
<1>1. <<>> \in Seq(TermType) /\ Len(<<>>) = 0 OBVIOUS
<1> DEFINE g == [j \in 1..Len(<<>>) |-> TermValue(<<>>[j], w, X)]
<1>2. Meaning(<<>>, w, X) = Partial(g, Len(<<>>)) BY <1>1, MeaningIsPartial
<1> HIDE DEF g
<1> QED BY <1>1, <1>2, PartialSums

(* One term means its value.                                               *)
LEMMA MeaningOfOne ==
  ASSUME NEW ts \in Seq(TermType), Len(ts) = 1, NEW w, NEW X, TermValue(ts[1], w, X) \in Elt
  PROVE  Meaning(ts, w, X) = TermValue(ts[1], w, X)
<1> DEFINE g == [j \in 1..Len(ts) |-> TermValue(ts[j], w, X)]
<1>1. Meaning(ts, w, X) = Partial(g, 1) BY MeaningIsPartial
<1>2. g[1] = TermValue(ts[1], w, X) OBVIOUS
<1> HIDE DEF g
<1>3. Partial(g, 0) = 0 /\ Partial(g, 0 + 1) = addf(Partial(g, 0), g[0 + 1]) BY PartialSums, Zenon
<1>4. 0 + 1 = 1 OBVIOUS
<1> QED BY <1>1, <1>2, <1>3, <1>4, Ring

(* The meaning of terms depends on the values of their operands only.      *)
LEMMA SameMeaning ==
  ASSUME NEW ts \in Seq(TermType), NEW v, NEW w, NEW X,
         \A j \in 1..Len(ts) : v[ts[j].op0] = w[ts[j].op0] /\ v[ts[j].op1] = w[ts[j].op1]
  PROVE  Meaning(ts, v, X) = Meaning(ts, w, X)
<1>1. Len(ts) \in Nat /\ DOMAIN ts = 1..Len(ts) OBVIOUS
<1>2. \A j \in 1..Len(ts) : TermValue(ts[j], v, X) = TermValue(ts[j], w, X) BY DEF TermValue
<1>3. [j \in DOMAIN ts |-> TermValue(ts[j], v, X)] = [j \in DOMAIN ts |-> TermValue(ts[j], w, X)]
  BY <1>1, <1>2
<1> QED BY <1>3, Zenon DEF Meaning

(* The value of a node is an input or the meaning of its terms.            *)
LEMMA ValueOfNode ==
  ASSUME NEW n, NEW w, NEW X \in Inputs
  PROVE  NodeValue(n, w)[X] = IF n.is_input THEN X[n.in_id] ELSE Meaning(n.terms, w, X)
BY Zenon DEF NodeValue, Meaning

(* Wires carry elements.                                                   *)
LEMMA ValueInField ==
  ASSUME NEW ns, NEW w, Carries(ns, w), NEW i \in Ops(ns), NEW X \in Inputs
  PROVE  w[i][X] \in Elt /\ w[i][X] \in Int
         /\ w[i][X] = IF ns[i].is_input THEN X[ns[i].in_id] ELSE Meaning(ns[i].terms, w, X)
<1>1. w[i] \in [Inputs -> Elt] /\ w[i] = NodeValue(ns[i], w) BY DEF Carries
<1>2. w[i][X] = NodeValue(ns[i], w)[X] BY <1>1
<1>3. w[i][X] \in Elt BY <1>1
<1>4. NodeValue(ns[i], w)[X] = IF ns[i].is_input THEN X[ns[i].in_id] ELSE Meaning(ns[i].terms, w, X)
  BY ValueOfNode
<1>5. w[i][X] \in Int BY <1>3, ElementsAreNumbers, Zenon
<1> QED BY <1>2, <1>3, <1>4, <1>5

(* Values of terms over wires are elements.                                *)
LEMMA TermsInField ==
  ASSUME NEW ns, Ok(ns), NEW w, Carries(ns, w), NEW X \in Inputs, NEW ts, TermsOk(ns, ts),
         NEW j \in 1..Len(ts)
  PROVE  /\ ts[j].k \in Elt /\ ts[j].op0 \in Ops(ns) /\ ts[j].op1 \in Ops(ns)
         /\ mulf(w[ts[j].op0][X], w[ts[j].op1][X]) \in Elt
         /\ TermValue(ts[j], w, X) \in Elt
<1>1. ts[j] \in TermType BY DEF TermsOk
<1>2. ts[j].k \in Elt /\ ts[j].op0 \in Nat /\ ts[j].op1 \in Nat BY <1>1 DEF TermType
<1>3. ts[j].op0 <= ts[j].op1 /\ ts[j].op1 \in Ops(ns) BY DEF TermsOk
<1>4. ts[j].op0 \in Ops(ns) BY <1>2, <1>3, NodeFacts
<1>5. w[ts[j].op0][X] \in Elt /\ w[ts[j].op1][X] \in Elt BY <1>3, <1>4, ValueInField
<1> QED BY <1>2, <1>3, <1>4, <1>5, ClosedField DEF TermValue

(* So is the meaning of terms.                                             *)
LEMMA MeaningInField ==
  ASSUME NEW ns, Ok(ns), NEW w, Carries(ns, w), NEW X \in Inputs, NEW ts, TermsOk(ns, ts)
  PROVE  Meaning(ts, w, X) \in Elt
<1>1. ts \in Seq(TermType) /\ Len(ts) \in Nat BY DEF TermsOk
<1>2. \A j \in 1..Len(ts) : TermValue(ts[j], w, X) \in Elt BY TermsInField
<1>3. \A j \in 1..Len(ts) : [i \in 1..Len(ts) |-> TermValue(ts[i], w, X)][j] \in Elt BY <1>2
<1> QED BY <1>1, <1>3, PartialInField, MeaningIsPartial

(* Terms with scaled coefficients mean the scaled value.                   *)
LEMMA MeaningScaled ==
  ASSUME NEW ns, Ok(ns), NEW w, Carries(ns, w), NEW X \in Inputs, NEW ts, TermsOk(ns, ts),
         NEW k \in Elt, NEW us \in Seq(TermType), Len(us) = Len(ts),
         \A j \in 1..Len(ts) :
           us[j].k = mulf(k, ts[j].k) /\ us[j].op0 = ts[j].op0 /\ us[j].op1 = ts[j].op1
  PROVE  Meaning(us, w, X) = mulf(k, Meaning(ts, w, X))
<1> DEFINE g == [j \in 1..Len(ts) |-> TermValue(ts[j], w, X)]
           h == [j \in 1..Len(us) |-> TermValue(us[j], w, X)]
<1>1. ts \in Seq(TermType) /\ Len(ts) \in Nat BY DEF TermsOk
<1>2. ASSUME NEW j \in 1..Len(ts) PROVE g[j] \in Elt /\ h[j] = mulf(k, g[j])
  <2>1. /\ ts[j].k \in Elt /\ mulf(w[ts[j].op0][X], w[ts[j].op1][X]) \in Elt
        /\ TermValue(ts[j], w, X) \in Elt
    BY TermsInField
  <2>2. ts[j] \in TermType BY <1>1
  <2>3. us[j].k = mulf(k, ts[j].k) /\ us[j].op0 = ts[j].op0 /\ us[j].op1 = ts[j].op1
    OBVIOUS
  <2>4. TermValue(us[j], w, X) = mulf(k, TermValue(ts[j], w, X))
    BY <2>1, <2>3, Ring DEF TermValue
  <2> QED BY <2>1, <2>4
<1>3. Meaning(ts, w, X) = Partial(g, Len(ts)) BY <1>1, MeaningIsPartial
<1>4. Meaning(us, w, X) = Partial(h, Len(ts)) BY MeaningIsPartial
<1> HIDE DEF g, h
<1> QED BY <1>1, <1>2, <1>3, <1>4, ScaledSum

(* Values of the nodes a call found are those of the nodes it returns. *)
LEMMA CarriesOld ==
  ASSUME NEW ns, Ok(ns), NEW ms, Extends(ns, ms), NEW w, Carries(ms, w)
  PROVE  Carries(ns, w)
<1> SUFFICES ASSUME NEW i \in Ops(ns) PROVE w[i] \in [Inputs -> Elt] /\ w[i] = NodeValue(ns[i], w)
  BY DEF Carries
<1>1. i \in Ops(ms) /\ Same(ns[i], ms[i]) BY DEF Extends
<1>2. NodeValue(ns[i], w) = NodeValue(ms[i], w) BY <1>1, Zenon DEF Same, NodeValue
<1> QED BY <1>1, <1>2 DEF Carries

(* a pushed node carries what it says *)
LEMMA PushedValue ==
  ASSUME NEW ns, Ok(ns), NEW n, NodeOk(ns, n), NEW w, Carries(push_node(ns, n).ns, w),
         NEW X \in Inputs
  PROVE  w[push_node(ns, n).op][X] = IF n.is_input THEN X[n.in_id] ELSE Meaning(n.terms, w, X)
<1> DEFINE r == push_node(ns, n)
<1>1. /\ Returns(ns, r)
      /\ r.ns[r.op].terms = n.terms /\ r.ns[r.op].is_input = n.is_input
      /\ r.ns[r.op].in_id = n.in_id
  BY PushNode
<1>2. r.op \in Ops(r.ns) BY <1>1 DEF Returns
<1> HIDE DEF r
<1>3. w[r.op][X] = IF r.ns[r.op].is_input THEN X[r.ns[r.op].in_id] ELSE Meaning(r.ns[r.op].terms, w, X)
  <2>1. Carries(r.ns, w) BY DEF r
  <2> QED BY <1>2, <2>1, ValueInField
<1>4. w[r.op][X] = IF n.is_input THEN X[n.in_id] ELSE Meaning(n.terms, w, X) BY <1>1, <1>3
<1> QED BY <1>4 DEF r

-----------------------------------------------------------------------------
(* The calls.  A wire is fit for a term if it is not an empty sum. *)
LEMMA ANode ==
  ASSUME NEW ts \in Seq(TermType)
  PROVE  /\ Node(ts) \in NodeType /\ Node(ts).terms = ts /\ Node(ts).is_input = FALSE
         /\ Node(ts).is_assert0 = FALSE
<1>1. kWireIdUndefined \in Int BY DEF kWireIdUndefined
<1>2. <<FALSE, kWireIdUndefined>> \in BOOLEAN \X Int BY <1>1
<1>3. kWireIdUndefined \in (0..(MaxInputs - 1)) \union {kWireIdUndefined} OBVIOUS
<1> DEFINE n == Node(ts)
<1>4. /\ n.terms = ts /\ n.is_input = FALSE /\ n.is_assert0 = FALSE BY DEF Node
<1>5. n \in NodeType
  <2>1. n = [terms |-> ts, depth |-> 0, key |-> <<FALSE, kWireIdUndefined>>,
             is_input |-> FALSE, in_id |-> kWireIdUndefined,
             is_output |-> FALSE, out_id |-> kWireIdUndefined, is_assert0 |-> FALSE]
    BY DEF Node
  <2>2. FALSE \in BOOLEAN /\ 0 \in Nat OBVIOUS
  <2> HIDE DEF n
  <2> QED BY <1>1, <1>2, <1>3, <2>1, <2>2, Zenon DEF NodeType
<1> QED BY <1>4, <1>5

(* A node of one term k a b, over wires fit for one, is one push_node()    *)
(* may be given and means that product.                                    *)
LEMMA OneNode ==
  ASSUME NEW ns, Ok(ns), NEW k \in Elt, NEW a \in Ops(ns), NEW b \in Ops(ns),
         ~IsZero(ns[a]), ~IsZero(ns[b])
  PROVE  /\ NodeOk(ns, Node(<<Term(k, a, b)>>)) /\ ~Node(<<Term(k, a, b)>>).is_input
         /\ \A w : \A X \in Inputs :
              Carries(ns, w) => Meaning(<<Term(k, a, b)>>, w, X) = mulf(k, mulf(w[a][X], w[b][X]))
<1> DEFINE t == Term(k, a, b)   ts == <<t>>
<1>0. a \in Nat /\ b \in Nat BY NodeFacts
<1>1. /\ t.k = k /\ t.op0 \in Nat /\ t.op1 \in Nat /\ t.op0 <= t.op1
      /\ (t.op0 = a /\ t.op1 = b) \/ (t.op0 = b /\ t.op1 = a)
      /\ t \in TermType
  BY <1>0 DEF Term, TermType
<1> HIDE DEF t
<1>2. ts \in Seq(TermType) /\ Len(ts) = 1 /\ ts[1] = t /\ ts # <<>> BY <1>1
<1> HIDE DEF ts
<1>3. TermsOk(ns, ts)
  <2>1. \A j \in 1..Len(ts) : j = 1 BY <1>2
  <2>2. \A j \in 1..(Len(ts) - 1) : FALSE BY <1>2
  <2>3. t.op1 \in Ops(ns) /\ ~IsZero(ns[t.op1]) BY <1>1
  <2> QED BY <1>1, <1>2, <2>1, <2>2, <2>3 DEF TermsOk
<1>4. NodeOk(ns, Node(ts)) /\ ~Node(ts).is_input
  <2>1. /\ Node(ts) \in NodeType /\ Node(ts).terms = ts /\ Node(ts).is_input = FALSE
        /\ Node(ts).is_assert0 = FALSE
    BY <1>2, ANode
  <2> QED BY <1>3, <2>1 DEF NodeOk
<1>5. ASSUME NEW w, NEW X \in Inputs, Carries(ns, w)
      PROVE  Meaning(ts, w, X) = mulf(k, mulf(w[a][X], w[b][X]))
  <2>1. TermValue(ts[1], w, X) \in Elt BY <1>2, <1>3, <1>5, TermsInField
  <2>2. Meaning(ts, w, X) = TermValue(t, w, X) BY <1>2, <2>1, MeaningOfOne
  <2>3. w[a][X] \in Elt /\ w[b][X] \in Elt BY <1>5, ValueInField
  <2>4. mulf(w[a][X], w[b][X]) = mulf(w[b][X], w[a][X]) BY <2>3, Ring
  <2> QED BY <1>1, <2>2, <2>4 DEF TermValue
<1> QED BY <1>4, <1>5 DEF ts, t

(* So is the empty sum.                                                    *)
LEMMA EmptyNode ==
  ASSUME NEW ns
  PROVE  /\ NodeOk(ns, Node(<<>>)) /\ ~Node(<<>>).is_input /\ Node(<<>>).terms = <<>>
<1>1. <<>> \in Seq(TermType) /\ Len(<<>>) = 0 OBVIOUS
<1>2. /\ Node(<<>>) \in NodeType /\ Node(<<>>).terms = <<>> /\ Node(<<>>).is_input = FALSE
      /\ Node(<<>>).is_assert0 = FALSE
  BY <1>1, ANode
<1>3. TermsOk(ns, <<>>) BY <1>1 DEF TermsOk
<1> QED BY <1>2, <1>3 DEF NodeOk

(* TermNode(k, a, b) means k a b, k being zero or not.                     *)
LEMMA ATermNode ==
  ASSUME NEW ns, Ok(ns), NEW k \in Elt, NEW a \in Ops(ns), NEW b \in Ops(ns),
         ~IsZero(ns[a]), ~IsZero(ns[b])
  PROVE  /\ NodeOk(ns, TermNode(k, a, b)) /\ ~TermNode(k, a, b).is_input
         /\ \A w : \A X \in Inputs :
              Carries(ns, w) => Meaning(TermNode(k, a, b).terms, w, X) = mulf(k, mulf(w[a][X], w[b][X]))
<1>1. CASE k = 0
  <2>1. TermNode(k, a, b) = Node(<<>>) BY <1>1, Zenon DEF TermNode
  <2>2. ASSUME NEW w, NEW X \in Inputs, Carries(ns, w)
        PROVE  Meaning(TermNode(k, a, b).terms, w, X) = mulf(k, mulf(w[a][X], w[b][X]))
    <3>1. w[a][X] \in Elt /\ w[b][X] \in Elt BY <2>2, ValueInField
    <3>2. mulf(w[a][X], w[b][X]) \in Elt BY <3>1, ClosedField
    <3>3. mulf(0, mulf(w[a][X], w[b][X])) = 0 BY <3>2, Ring
    <3> QED BY <1>1, <2>1, <3>3, EmptyNode, MeaningOfNone
  <2> QED BY <2>1, <2>2, EmptyNode
<1>2. CASE k # 0
  <2>1. TermNode(k, a, b) = Node(<<Term(k, a, b)>>) BY <1>2, Zenon DEF TermNode
  <2>2. Node(<<Term(k, a, b)>>).terms = <<Term(k, a, b)>> BY DEF Node
  <2> QED BY <2>1, <2>2, OneNode
<1> QED BY <1>1, <1>2

(* Wire 0 carries 1. *)
LEMMA WireOfOne ==
  ASSUME NEW ns, Ok(ns)
  PROVE  /\ 0 \in Ops(ns) /\ ~IsZero(ns[0])
         /\ \A w : \A X \in Inputs : Carries(ns, w) => w[0][X] = 1
<1>1. 0 \in Ops(ns) /\ ns[0].is_input /\ ns[0].in_id = 0 BY DEF Ok, Typed
<1>2. ~IsZero(ns[0]) BY <1>1 DEF IsZero
<1>3. ASSUME NEW w, NEW X \in Inputs, Carries(ns, w) PROVE w[0][X] = 1
  <2>1. w[0][X] = X[0] BY <1>1, <1>3, ValueInField
  <2> QED BY <2>1, InputsAreInField
<1> QED BY <1>1, <1>2, <1>3

(* TermNode(k, 0, a) means k a.                                            *)
LEMMA LinearTerm ==
  ASSUME NEW ns, Ok(ns), NEW k \in Elt, NEW a \in Ops(ns), ~IsZero(ns[a])
  PROVE  /\ NodeOk(ns, TermNode(k, 0, a)) /\ ~TermNode(k, 0, a).is_input
         /\ \A w : \A X \in Inputs :
              Carries(ns, w) => Meaning(TermNode(k, 0, a).terms, w, X) = mulf(k, w[a][X])
<1>1. 0 \in Ops(ns) /\ ~IsZero(ns[0]) BY WireOfOne
<1>2. ASSUME NEW w, NEW X \in Inputs, Carries(ns, w)
      PROVE  Meaning(TermNode(k, 0, a).terms, w, X) = mulf(k, w[a][X])
  <2>1. w[0][X] = 1 /\ w[a][X] \in Elt BY <1>2, WireOfOne, ValueInField
  <2>2. mulf(1, w[a][X]) = w[a][X] BY <2>1, Ring
  <2>3. Meaning(TermNode(k, 0, a).terms, w, X) = mulf(k, mulf(w[0][X], w[a][X])) BY <1>1, <1>2, ATermNode
  <2> QED BY <2>1, <2>2, <2>3
<1> QED BY <1>1, <1>2, ATermNode

(* Inputs as sums *)
LEMMA Materialized ==
  ASSUME NEW ns, Ok(ns), NEW a \in Ops(ns)
  PROVE  LET n == materialize_input(ns, a)
         IN  /\ NodeOk(ns, n) /\ ~n.is_input
             /\ \A w : \A X \in Inputs : Carries(ns, w) => Meaning(n.terms, w, X) = w[a][X]
<1>1. CASE ns[a].is_input
  <2>1. ~IsZero(ns[a]) BY <1>1 DEF IsZero
  <2>2. materialize_input(ns, a) = TermNode(1, 0, a) BY <1>1, Zenon DEF materialize_input
  <2>3. /\ NodeOk(ns, TermNode(1, 0, a)) /\ ~TermNode(1, 0, a).is_input
        /\ \A w : \A X \in Inputs :
             Carries(ns, w) => Meaning(TermNode(1, 0, a).terms, w, X) = mulf(1, w[a][X])
    BY <2>1, LinearTerm, TheModulus
  <2>4. ASSUME NEW w, NEW X \in Inputs, Carries(ns, w) PROVE mulf(1, w[a][X]) = w[a][X]
    BY <2>4, ValueInField, Ring
  <2> QED BY <2>2, <2>3, <2>4
<1>2. CASE ~ns[a].is_input
  <2>1. materialize_input(ns, a) = ns[a] BY <1>2, Zenon DEF materialize_input
  <2>2. \A w : \A X \in Inputs : Carries(ns, w) => Meaning(ns[a].terms, w, X) = w[a][X]
    BY <1>2, ValueInField
  <2> QED BY <1>2, <2>1, <2>2, NodesAreOk
<1> QED BY <1>1, <1>2

(* scale() returns a node that means k times the wire.                     *)
LEMMA ScaledNode ==
  ASSUME NEW ns, Ok(ns), NEW k \in Elt, NEW a \in Ops(ns)
  PROVE  LET n == scale(ns, k, a)
         IN  /\ NodeOk(ns, n) /\ ~n.is_input
             /\ \A w : \A X \in Inputs : Carries(ns, w) => Meaning(n.terms, w, X) = mulf(k, w[a][X])
<1> DEFINE m == materialize_input(ns, a)
           us == Scaled(m.terms, k)
           n == [m EXCEPT !.terms = us]
<1>1. scale(ns, k, a) = n BY Zenon DEF scale
<1>2. /\ NodeOk(ns, m) /\ ~m.is_input
      /\ \A w : \A X \in Inputs : Carries(ns, w) => Meaning(m.terms, w, X) = w[a][X]
  BY Materialized
<1> HIDE DEF m
<1>3. /\ m \in NodeType /\ TermsOk(ns, m.terms) /\ m.terms \in Seq(TermType)
      /\ Len(m.terms) \in Nat /\ DOMAIN m.terms = 1..Len(m.terms)
  BY <1>2 DEF NodeOk, TermsOk
<1>4. ASSUME NEW j \in 1..Len(m.terms)
      PROVE  /\ us[j].op0 = m.terms[j].op0 /\ us[j].op1 = m.terms[j].op1
             /\ us[j].k = mulf(k, m.terms[j].k) /\ us[j] \in TermType
  <2>1. m.terms[j] \in TermType BY <1>3
  <2>2. mulf(k, m.terms[j].k) \in Elt /\ mulf(k, m.terms[j].k) = mulf(m.terms[j].k, k)
    BY <2>1, ClosedField, Ring DEF TermType
  <2>3. us[j] = [m.terms[j] EXCEPT !.k = mulf(k, m.terms[j].k)] BY <1>3, <2>2 DEF Scaled
  <2> HIDE DEF us
  <2> QED BY <2>1, <2>2, <2>3 DEF TermType
<1>5. us \in Seq(TermType) /\ Len(us) = Len(m.terms)
  <2>1. us = [j \in 1..Len(m.terms) |-> us[j]] BY <1>3 DEF Scaled
  <2> HIDE DEF us
  <2>2. us \in [1..Len(m.terms) -> TermType] BY <1>4, <2>1
  <2>3. us \in Seq(TermType) BY <1>3, <2>2 DEF Scaled
  <2> QED BY <1>3, <2>1, <2>3, L!SequenceOfLength
<1> HIDE DEF us
<1>6. TermsOk(ns, us)
  <2>1. ASSUME NEW j \in 1..Len(us)
        PROVE  us[j].op0 <= us[j].op1 /\ us[j].op1 \in Ops(ns) /\ ~IsZero(ns[us[j].op1])
    BY <1>3, <1>4, <1>5 DEF TermsOk
  <2>2. ASSUME NEW j \in 1..(Len(us) - 1) PROVE ltndx(us[j], us[j + 1])
    <3>1. j \in 1..Len(m.terms) /\ j + 1 \in 1..Len(m.terms) /\ j \in 1..(Len(m.terms) - 1)
      BY <1>3, <1>5
    <3>2. ltndx(m.terms[j], m.terms[j + 1]) BY <1>3, <3>1 DEF TermsOk
    <3> QED BY <1>4, <3>1, <3>2 DEF ltndx
  <2> QED BY <1>5, <2>1, <2>2 DEF TermsOk
<1>7. /\ n \in NodeType /\ n.terms = us /\ n.is_input = m.is_input /\ n.in_id = m.in_id
      /\ n.is_assert0 = m.is_assert0
  BY <1>3, <1>5 DEF NodeType
<1>8. n.is_assert0 => us # <<>> /\ us[1].k = 0
  <2> SUFFICES ASSUME m.is_assert0 PROVE us # <<>> /\ us[1].k = 0 BY <1>7
  <2>1. m.terms # <<>> /\ m.terms[1].k = 0 BY <1>2 DEF NodeOk
  <2>2. Len(m.terms) # 0 BY <1>3, <2>1
  <2>3. 1 \in 1..Len(m.terms) BY <1>3, <2>2 DEF Scaled
  <2>4. mulf(k, 0) = 0 BY Ring, TheModulus
  <2> QED BY <1>4, <1>5, <2>1, <2>2, <2>3, <2>4
<1>9. ASSUME NEW w, NEW X \in Inputs, Carries(ns, w) PROVE Meaning(us, w, X) = mulf(k, w[a][X])
  <2>1. Meaning(m.terms, w, X) = w[a][X] BY <1>2, <1>9
  <2>2. Meaning(us, w, X) = mulf(k, Meaning(m.terms, w, X)) BY <1>3, <1>4, <1>5, <1>9, MeaningScaled
  <2> QED BY <2>1, <2>2
<1> HIDE DEF n
<1>10. NodeOk(ns, n) /\ ~n.is_input BY <1>2, <1>6, <1>7, <1>8 DEF NodeOk
<1> QED BY <1>1, <1>7, <1>9, <1>10

(* r is what a call that should compute f returned *)
LEMMA KonstCall ==
  ASSUME NEW ns, Ok(ns), NEW k \in Elt
  PROVE  LET r == konst(ns, k)
         IN  /\ Returns(ns, r)
             /\ \A w : \A X \in Inputs : Carries(r.ns, w) => w[r.op][X] = k
<1> DEFINE n == TermNode(k, 0, 0)
<1>1. /\ NodeOk(ns, n) /\ ~n.is_input
      /\ \A w : \A X \in Inputs : Carries(ns, w) => Meaning(n.terms, w, X) = mulf(k, w[0][X])
  BY WireOfOne, LinearTerm
<1> HIDE DEF n
<1>2. Returns(ns, push_node(ns, n)) BY <1>1, PushNode
<1>3. ASSUME NEW w, NEW X \in Inputs, Carries(push_node(ns, n).ns, w)
      PROVE  w[push_node(ns, n).op][X] = k
  <2>1. Carries(ns, w) BY <1>2, <1>3, CarriesOld DEF Returns
  <2>2. w[push_node(ns, n).op][X] = Meaning(n.terms, w, X) BY <1>1, <1>3, PushedValue
  <2>3. w[0][X] = 1 BY <2>1, WireOfOne
  <2>4. mulf(k, 1) = k BY Ring, TheModulus
  <2> QED BY <1>1, <2>1, <2>2, <2>3, <2>4
<1>4. konst(ns, k) = push_node(ns, n) BY Zenon DEF konst, n
<1> QED BY <1>2, <1>3, <1>4

(* The empty sum carries zero.                                             *)
LEMMA ZeroWire ==
  ASSUME NEW ns, Ok(ns), NEW a \in Ops(ns), IsZero(ns[a]), NEW w, Carries(ns, w), NEW X \in Inputs
  PROVE  w[a][X] = 0
<1>1. ns[a].terms = <<>> /\ ~ns[a].is_input BY DEF IsZero
<1> QED BY <1>1, ValueInField, MeaningOfNone

(* mul(k, op) returns a wire that carries k times op.                      *)
LEMMA Mul2Call ==
  ASSUME NEW ns, Ok(ns), NEW k \in Elt, NEW a \in Ops(ns)
  PROVE  LET r == mul2(ns, k, a)
         IN  /\ Returns(ns, r)
             /\ \A w : \A X \in Inputs : Carries(r.ns, w) => w[r.op][X] = mulf(k, w[a][X])
<1>1. CASE k = 0
  <2>1. mul2(ns, k, a) = konst(ns, 0) BY <1>1, Zenon DEF mul2
  <2>2. /\ Returns(ns, konst(ns, 0))
        /\ \A w : \A X \in Inputs : Carries(konst(ns, 0).ns, w) => w[konst(ns, 0).op][X] = 0
    BY KonstCall, TheModulus
  <2>3. ASSUME NEW w, NEW X \in Inputs, Carries(konst(ns, 0).ns, w) PROVE mulf(0, w[a][X]) = 0
    <3>1. Carries(ns, w) BY <2>2, <2>3, CarriesOld DEF Returns
    <3> QED BY <3>1, ValueInField, Ring
  <2> QED BY <1>1, <2>1, <2>2, <2>3
<1>2. CASE k # 0 /\ (k = 1 \/ IsZero(ns[a]))
  <2>1. mul2(ns, k, a) = [ns |-> ns, op |-> a] BY <1>2, Zenon DEF mul2
  <2>2. ASSUME NEW w, NEW X \in Inputs, Carries(ns, w) PROVE w[a][X] = mulf(k, w[a][X])
    <3>1. w[a][X] \in Elt BY <2>2, ValueInField
    <3>2. CASE k = 1 BY <3>1, <3>2, Ring
    <3>3. CASE IsZero(ns[a])
      <4>1. w[a][X] = 0 BY <2>2, <3>3, ZeroWire
      <4> QED BY <4>1, Ring, TheModulus
    <3> QED BY <1>2, <3>2, <3>3
  <2> QED BY <2>1, <2>2, NothingNew
<1>3. CASE k # 0 /\ ~(k = 1 \/ IsZero(ns[a]))
  <2> DEFINE n == scale(ns, k, a)
  <2>1. mul2(ns, k, a) = push_node(ns, n) BY <1>3, Zenon DEF mul2
  <2>2. /\ NodeOk(ns, n) /\ ~n.is_input
        /\ \A w : \A X \in Inputs : Carries(ns, w) => Meaning(n.terms, w, X) = mulf(k, w[a][X])
    BY ScaledNode
  <2> HIDE DEF n
  <2>3. Returns(ns, push_node(ns, n)) BY <2>2, PushNode
  <2>4. ASSUME NEW w, NEW X \in Inputs, Carries(push_node(ns, n).ns, w)
        PROVE  w[push_node(ns, n).op][X] = mulf(k, w[a][X])
    <3>1. Carries(ns, w) BY <2>3, <2>4, CarriesOld DEF Returns
    <3>2. w[push_node(ns, n).op][X] = Meaning(n.terms, w, X) BY <2>2, <2>4, PushedValue
    <3> QED BY <2>2, <3>1, <3>2
  <2> QED BY <2>1, <2>3, <2>4
<1> QED BY <1>1, <1>2, <1>3

-----------------------------------------------------------------------------
(* Seen through linear terms *)
PeelStep(ns, f, i) ==
  IF linearp(ns[i]) /\ ~constant(ns[i])
  THEN LET r == f[ns[i].terms[1].op1]
       IN  [r EXCEPT !.k = mulf(@, ns[i].terms[1].k)]
  ELSE [k |-> 1, op |-> i]
Peels(ns, f, n) == f = [i \in 0..n |-> PeelStep(ns, f, i)]

(* A linear node carries a multiple of an earlier wire.                    *)
LEMMA FirstTerm ==
  ASSUME NEW ns, Ok(ns), NEW i \in Ops(ns), linearp(ns[i])
  PROVE  /\ ~ns[i].is_input /\ ns[i].terms[1].k \in Elt /\ ns[i].terms[1].op0 = 0
         /\ ns[i].terms[1].op1 \in Ops(ns) /\ ns[i].terms[1].op1 \in Nat
         /\ ns[i].terms[1].op1 < i /\ ~IsZero(ns[ns[i].terms[1].op1])
         /\ \A w : \A X \in Inputs :
              Carries(ns, w) => w[i][X] = mulf(ns[i].terms[1].k, w[ns[i].terms[1].op1][X])
<1> DEFINE t == ns[i].terms[1]   ts == ns[i].terms
<1>1. Len(ts) = 1 /\ t.op0 = 0 BY DEF linearp
<1>2. 1 \in 1..Len(ts) BY <1>1
<1>3. /\ ts \in Seq(TermType) /\ t.k \in Elt /\ t.op0 \in Ops(ns) /\ t.op1 \in Ops(ns) /\ t.op1 < i
      /\ ~IsZero(ns[t.op1])
  BY <1>2, NodeFacts
<1>4. ~ns[i].is_input
  <2>1. ns[i].is_input => ts = <<>> BY DEF Ok, Typed
  <2>2. Len(<<>>) = 0 OBVIOUS
  <2> QED BY <1>1, <2>1, <2>2
<1>5. t.op1 \in Nat BY <1>3, NodeFacts
<1>6. ASSUME NEW w, NEW X \in Inputs, Carries(ns, w) PROVE w[i][X] = mulf(t.k, w[t.op1][X])
  <2>1. TermsOk(ns, ts) BY NodesAreOk DEF NodeOk
  <2>2. TermValue(t, w, X) \in Elt BY <1>2, <1>6, <2>1, TermsInField
  <2>3. w[i][X] = TermValue(t, w, X) BY <1>1, <1>3, <1>4, <1>6, <2>2, ValueInField, MeaningOfOne
  <2>4. w[0][X] = 1 /\ w[t.op1][X] \in Elt BY <1>3, <1>6, WireOfOne, ValueInField
  <2>5. mulf(1, w[t.op1][X]) = w[t.op1][X] BY <2>4, Ring
  <2> QED BY <1>1, <2>3, <2>4, <2>5 DEF TermValue
<1> QED BY <1>1, <1>3, <1>4, <1>5, <1>6

(* The recursive function of Peel exists.                                  *)
LEMMA PeelExists ==
  ASSUME NEW ns, Ok(ns), NEW n \in Ops(ns)
  PROVE  \E f : Peels(ns, f, n)
<1> DEFINE S == {m \in Nat : m <= n => \E f : Peels(ns, f, m)}
<1>0. n \in Nat /\ \A j \in Nat : j <= n => j \in Ops(ns) BY NodeFacts
<1>1. ASSUME NEW m \in Nat, m <= n, NEW f, m # 0 => Peels(ns, f, m - 1)
      PROVE  \E g : Peels(ns, g, m)
  <2> DEFINE g == [i \in 0..m |-> IF i < m THEN f[i] ELSE PeelStep(ns, f, i)]
  <2>1. ASSUME NEW i \in 0..m PROVE g[i] = PeelStep(ns, g, i)
    <3>1. PeelStep(ns, g, i) = PeelStep(ns, f, i)
      <4>1. CASE linearp(ns[i]) /\ ~constant(ns[i])
        <5>1. i \in Ops(ns) BY <1>0, <1>1
        <5>2. ns[i].terms[1].op1 \in Nat /\ ns[i].terms[1].op1 < i BY <4>1, <5>1, FirstTerm
        <5>3. ns[i].terms[1].op1 \in 0..m /\ ns[i].terms[1].op1 < m BY <5>2
        <5>4. g[ns[i].terms[1].op1] = f[ns[i].terms[1].op1] BY <5>3
        <5> HIDE DEF g
        <5> QED BY <5>4, Zenon DEF PeelStep
      <4>2. CASE ~(linearp(ns[i]) /\ ~constant(ns[i])) BY <4>2, Zenon DEF PeelStep
      <4> QED BY <4>1, <4>2
    <3>2. CASE i < m
      <4>1. i \in 0..(m - 1) /\ m # 0 BY <3>2
      <4>2. f = [j \in 0..(m - 1) |-> PeelStep(ns, f, j)] BY <1>1, <4>1 DEF Peels
      <4>3. f[i] = PeelStep(ns, f, i) BY <4>1, <4>2, Zenon
      <4> QED BY <3>1, <3>2, <4>3, Zenon
    <3>3. CASE ~(i < m) BY <3>1, <3>3, Zenon
    <3> QED BY <3>2, <3>3
  <2>2. g = [i \in 0..m |-> g[i]] BY Zenon
  <2> HIDE DEF g
  <2>3. Peels(ns, g, m) BY <2>1, <2>2, Zenon DEF Peels
  <2> QED BY <2>3
<1>2. 0 \in S BY <1>0, <1>1
<1>3. ASSUME NEW m \in Nat, m \in S PROVE m + 1 \in S
  <2>1. CASE m + 1 <= n
    <3>1. PICK f : Peels(ns, f, m) BY <1>0, <1>3, <2>1
    <3>2. (m + 1) - 1 = m /\ m + 1 \in Nat OBVIOUS
    <3> HIDE DEF S
    <3>3. \E g : Peels(ns, g, m + 1) BY <1>1, <2>1, <3>1, <3>2
    <3> QED BY <3>2, <3>3 DEF S
  <2> QED BY <2>1
<1>4. n \in S
  <2>1. \A m \in Nat : m \in S BY <1>2, <1>3, L!Induction, Zenon
  <2> QED BY <1>0, <2>1
<1> QED BY <1>0, <1>4

(* Products may be regrouped: the constant found under the first factor,   *)
(* and under the second,                                                   *)
LEMMA ProductOfFour ==
  ASSUME NEW k \in Elt, NEW p \in Elt, NEW c \in Elt, NEW z \in Elt
  PROVE  mulf(mulf(mulf(k, p), c), z) = mulf(k, mulf(mulf(p, z), c))
<1>1. mulf(k, p) \in Elt /\ mulf(p, c) \in Elt /\ mulf(c, z) \in Elt BY ClosedField
<1>2. mulf(mulf(k, p), c) = mulf(k, mulf(p, c)) BY Ring
<1>3. mulf(mulf(k, mulf(p, c)), z) = mulf(k, mulf(mulf(p, c), z)) BY <1>1, Ring
<1>4. mulf(mulf(p, c), z) = mulf(p, mulf(c, z)) BY Ring
<1>5. mulf(c, z) = mulf(z, c) /\ mulf(mulf(p, z), c) = mulf(p, mulf(z, c)) BY Ring
<1> QED BY <1>2, <1>3, <1>4, <1>5

(* and the coefficients found under both.                                  *)
LEMMA ProductOfFive ==
  ASSUME NEW k \in Elt, NEW p \in Elt, NEW c \in Elt, NEW x \in Elt, NEW y \in Elt
  PROVE  mulf(mulf(mulf(k, p), c), mulf(x, y)) = mulf(k, mulf(mulf(p, x), mulf(c, y)))
<1>1. mulf(x, y) \in Elt /\ mulf(p, x) \in Elt BY ClosedField
<1>2. mulf(p, mulf(x, y)) = mulf(mulf(p, x), y) BY Ring
<1>3. mulf(mulf(mulf(p, x), y), c) = mulf(mulf(p, x), mulf(y, c)) BY <1>1, Ring
<1>4. mulf(y, c) = mulf(c, y) BY Ring
<1>5. mulf(mulf(mulf(k, p), c), mulf(x, y)) = mulf(k, mulf(mulf(p, mulf(x, y)), c)) BY <1>1, ProductOfFour
<1> QED BY <1>2, <1>3, <1>4, <1>5

PeelOk(ns, p, a) ==
  /\ p = [k |-> p.k, op |-> p.op] /\ p.k \in Elt /\ p.op \in Ops(ns)
  /\ \A w : \A X \in Inputs : Carries(ns, w) => w[a][X] = mulf(p.k, w[p.op][X])

(* Peeling a wire through linear nodes gives a coefficient and a wire      *)
(* whose product it carries.                                               *)
LEMMA Peeled ==
  ASSUME NEW ns, Ok(ns), NEW a \in Ops(ns)
  PROVE  PeelOk(ns, Peel(ns, a), a)
<1> DEFINE f == CHOOSE f : f = [i \in 0..a |->
        IF linearp(ns[i]) /\ ~constant(ns[i])
        THEN LET r == f[ns[i].terms[1].op1]
             IN  [r EXCEPT !.k = mulf(@, ns[i].terms[1].k)]
        ELSE [k |-> 1, op |-> i]]
<1>0. a \in Nat /\ \A j \in Nat : j <= a => j \in Ops(ns) BY NodeFacts
<1>1. Peel(ns, a) = f[a] BY Zenon DEF Peel
<1>2. Peels(ns, f, a)
  <2>1. \E ff : ff = [i \in 0..a |->
          IF linearp(ns[i]) /\ ~constant(ns[i])
          THEN LET r == ff[ns[i].terms[1].op1]
               IN  [r EXCEPT !.k = mulf(@, ns[i].terms[1].k)]
          ELSE [k |-> 1, op |-> i]]
    BY PeelExists, Zenon DEF Peels, PeelStep
  <2>2. f = [i \in 0..a |->
          IF linearp(ns[i]) /\ ~constant(ns[i])
          THEN LET r == f[ns[i].terms[1].op1]
               IN  [r EXCEPT !.k = mulf(@, ns[i].terms[1].k)]
          ELSE [k |-> 1, op |-> i]]
    BY <2>1, Zenon
  <2> HIDE DEF f
  <2> QED BY <2>2, Zenon DEF Peels, PeelStep
<1> HIDE DEF f
<1> DEFINE S == {m \in Nat : m <= a => \A i \in 0..m : PeelOk(ns, f[i], i)}
<1>3. ASSUME NEW i \in 0..a, \A j \in 0..(i - 1) : PeelOk(ns, f[j], j)
      PROVE  PeelOk(ns, f[i], i)
  <2>1. i \in Nat /\ i \in Ops(ns) BY <1>0
  <2>2. f[i] = PeelStep(ns, f, i) BY <1>2 DEF Peels
  <2>3. CASE linearp(ns[i]) /\ ~constant(ns[i])
    <3> DEFINE t == ns[i].terms[1]   r == f[t.op1]
    <3>1. /\ t.k \in Elt /\ t.op1 \in Nat /\ t.op1 < i
          /\ \A w : \A X \in Inputs : Carries(ns, w) => w[i][X] = mulf(t.k, w[t.op1][X])
      BY <2>1, <2>3, FirstTerm
    <3>2. PeelOk(ns, r, t.op1) BY <1>3, <2>1, <3>1
    <3>3. f[i] = [r EXCEPT !.k = mulf(@, t.k)] BY <2>2, <2>3, Zenon DEF PeelStep
    <3> HIDE DEF t, r
    <3>4. r = [k |-> r.k, op |-> r.op] /\ r.k \in Elt /\ r.op \in Ops(ns) BY <3>2 DEF PeelOk
    <3>5. f[i] = [k |-> mulf(r.k, t.k), op |-> r.op] BY <3>3, <3>4
    <3>6. mulf(r.k, t.k) \in Elt BY <3>1, <3>4, ClosedField
    <3>7. ASSUME NEW w, NEW X \in Inputs, Carries(ns, w)
          PROVE  w[i][X] = mulf(mulf(r.k, t.k), w[r.op][X])
      <4>1. w[i][X] = mulf(t.k, w[t.op1][X]) BY <3>1, <3>7
      <4>2. w[t.op1][X] = mulf(r.k, w[r.op][X]) BY <3>2, <3>7 DEF PeelOk
      <4>3. w[r.op][X] \in Elt BY <3>4, <3>7, ValueInField
      <4>4. mulf(t.k, mulf(r.k, w[r.op][X])) = mulf(mulf(t.k, r.k), w[r.op][X]) /\ mulf(t.k, r.k) = mulf(r.k, t.k)
        BY <3>1, <3>4, <4>3, Ring
      <4> QED BY <4>1, <4>2, <4>4
    <3> QED BY <3>4, <3>5, <3>6, <3>7 DEF PeelOk
  <2>4. CASE ~(linearp(ns[i]) /\ ~constant(ns[i]))
    <3>1. f[i] = [k |-> 1, op |-> i] BY <2>2, <2>4, Zenon DEF PeelStep
    <3>2. ASSUME NEW w, NEW X \in Inputs, Carries(ns, w) PROVE w[i][X] = mulf(1, w[i][X])
      BY <2>1, <3>2, ValueInField, Ring
    <3> QED BY <2>1, <3>1, <3>2, TheModulus DEF PeelOk
  <2> QED BY <2>3, <2>4
<1>4. 0 \in S
  <2>1. \A i \in 0..0 : i = 0 /\ i \in 0..a BY <1>0
  <2>2. \A j \in 0..(0 - 1) : FALSE OBVIOUS
  <2> QED BY <1>3, <2>1, <2>2
<1>5. ASSUME NEW m \in Nat, m \in S PROVE m + 1 \in S
  <2>1. CASE m + 1 <= a
    <3>1. \A i \in 0..m : PeelOk(ns, f[i], i) BY <1>0, <1>5, <2>1
    <3>2. m + 1 \in 0..a /\ (m + 1) - 1 = m BY <1>0, <2>1
    <3>3. PeelOk(ns, f[m + 1], m + 1) BY <1>3, <3>1, <3>2
    <3>4. \A i \in 0..(m + 1) : i \in 0..m \/ i = m + 1 OBVIOUS
    <3>5. \A i \in 0..(m + 1) : PeelOk(ns, f[i], i) BY <3>1, <3>3, <3>4
    <3> QED BY <3>5
  <2> QED BY <2>1
<1>6. a \in S
  <2>1. \A m \in Nat : m \in S BY <1>4, <1>5, L!Induction, Zenon
  <2> QED BY <1>0, <2>1
<1>7. PeelOk(ns, f[a], a) BY <1>0, <1>6
<1> QED BY <1>1, <1>7

(* A constant node carries its coefficient.                                *)
LEMMA ConstantWire ==
  ASSUME NEW ns, Ok(ns), NEW i \in Ops(ns), constant(ns[i]), NEW w, Carries(ns, w), NEW X \in Inputs
  PROVE  ns[i].terms[1].k \in Elt /\ w[i][X] = ns[i].terms[1].k
<1>1. linearp(ns[i]) /\ ns[i].terms[1].op1 = 0 BY DEF constant
<1>2. ns[i].terms[1].k \in Elt /\ w[i][X] = mulf(ns[i].terms[1].k, w[0][X]) BY <1>1, FirstTerm
<1>3. w[0][X] = 1 BY WireOfOne
<1>4. mulf(ns[i].terms[1].k, 1) = ns[i].terms[1].k BY <1>2, Ring, TheModulus
<1> QED BY <1>2, <1>3, <1>4

(* What mul3 decides about what it has peeled *)
Mul3Of(ns, k, a, b, p, q) ==
  IF IsZero(ns[p.op]) THEN [ns |-> ns, op |-> p.op]
  ELSE IF constant(ns[p.op]) THEN mul2(ns, mulf(k, Constant(ns, p)), b)
  ELSE IF IsZero(ns[q.op]) THEN [ns |-> ns, op |-> q.op]
  ELSE IF constant(ns[q.op]) THEN mul2(ns, mulf(mulf(k, p.k), Constant(ns, q)), p.op)
  ELSE push_node(ns, TermNode(mulf(mulf(k, p.k), q.k), p.op, q.op))

(* mul(k, op0, op1) returns a wire that carries the product, whatever was  *)
(* peeled, folded or found.                                                *)
LEMMA Mul3Call ==
  ASSUME NEW ns, Ok(ns), NEW k \in Elt, NEW a \in Ops(ns), NEW b \in Ops(ns)
  PROVE  LET r == mul3(ns, k, a, b)
         IN  /\ Returns(ns, r)
             /\ \A w : \A X \in Inputs : Carries(r.ns, w) => w[r.op][X] = mulf(k, mulf(w[a][X], w[b][X]))
<1> DEFINE p == Peel(ns, a)   q == Peel(ns, b)
<1>1. mul3(ns, k, a, b) = Mul3Of(ns, k, a, b, p, q) BY Zenon DEF mul3, Mul3Of
<1>2. PeelOk(ns, p, a) /\ PeelOk(ns, q, b) BY Peeled
<1> HIDE DEF p, q
<1>3. /\ p.k \in Elt /\ p.op \in Ops(ns) /\ q.k \in Elt /\ q.op \in Ops(ns)
      /\ mulf(k, p.k) \in Elt /\ mulf(mulf(k, p.k), q.k) \in Elt
  BY <1>2, ClosedField DEF PeelOk
<1>4. ASSUME NEW w, NEW X \in Inputs, Carries(ns, w)
      PROVE  /\ w[a][X] = mulf(p.k, w[p.op][X]) /\ w[b][X] = mulf(q.k, w[q.op][X])
             /\ w[a][X] \in Elt /\ w[b][X] \in Elt /\ w[p.op][X] \in Elt /\ w[q.op][X] \in Elt
  BY <1>2, <1>3, <1>4, ValueInField DEF PeelOk
<1> DEFINE Good(r) == /\ Returns(ns, r)
                      /\ \A w : \A X \in Inputs :
                           Carries(r.ns, w) => w[r.op][X] = mulf(k, mulf(w[a][X], w[b][X]))
<1>5. ASSUME IsZero(ns[p.op])
      PROVE  Good(Mul3Of(ns, k, a, b, p, q))
  <2>1. Mul3Of(ns, k, a, b, p, q) = [ns |-> ns, op |-> p.op] BY <1>5, Zenon DEF Mul3Of
  <2>2. ASSUME NEW w, NEW X \in Inputs, Carries(ns, w)
        PROVE  w[p.op][X] = mulf(k, mulf(w[a][X], w[b][X]))
    <3>1. w[p.op][X] = 0 BY <1>3, <1>5, <2>2, ZeroWire
    <3>2. mulf(p.k, 0) = 0 /\ mulf(0, w[b][X]) = 0 /\ mulf(k, 0) = 0 BY <1>3, <1>4, <2>2, Ring, TheModulus
    <3>3. w[a][X] = 0 BY <1>4, <2>2, <3>1, <3>2
    <3> QED BY <3>1, <3>2, <3>3
  <2> QED BY <1>3, <2>1, <2>2, NothingNew
<1>6. ASSUME ~IsZero(ns[p.op]) /\ constant(ns[p.op])
      PROVE  Good(Mul3Of(ns, k, a, b, p, q))
  <2> DEFINE c == Constant(ns, p)   r == mul2(ns, mulf(k, c), b)
  <2>1. Mul3Of(ns, k, a, b, p, q) = r BY <1>6, Zenon DEF Mul3Of
  <2>2. c \in Elt /\ mulf(k, c) \in Elt
    <3>1. ns[p.op].terms[1].k \in Elt BY <1>3, <1>6, FirstTerm DEF constant
    <3> QED BY <1>3, <3>1, ClosedField DEF Constant
  <2>3. ASSUME NEW w, NEW X \in Inputs, Carries(ns, w) PROVE w[a][X] = c
    <3>1. w[p.op][X] = ns[p.op].terms[1].k BY <1>3, <1>6, <2>3, ConstantWire
    <3> QED BY <1>4, <2>3, <3>1 DEF Constant
  <2> HIDE DEF c
  <2>4. /\ Returns(ns, r)
        /\ \A w : \A X \in Inputs : Carries(r.ns, w) => w[r.op][X] = mulf(mulf(k, c), w[b][X])
    BY <2>2, Mul2Call
  <2> HIDE DEF r
  <2>5. ASSUME NEW w, NEW X \in Inputs, Carries(r.ns, w)
        PROVE  w[r.op][X] = mulf(k, mulf(w[a][X], w[b][X]))
    <3>1. Carries(ns, w) BY <2>4, <2>5, CarriesOld DEF Returns
    <3>2. mulf(mulf(k, c), w[b][X]) = mulf(k, mulf(c, w[b][X])) BY <1>4, <2>2, <3>1, Ring
    <3> QED BY <2>3, <2>4, <2>5, <3>1, <3>2
  <2> QED BY <2>1, <2>4, <2>5
<1>7. ASSUME ~IsZero(ns[p.op]) /\ ~constant(ns[p.op]) /\ IsZero(ns[q.op])
      PROVE  Good(Mul3Of(ns, k, a, b, p, q))
  <2>1. Mul3Of(ns, k, a, b, p, q) = [ns |-> ns, op |-> q.op] BY <1>7, Zenon DEF Mul3Of
  <2>2. ASSUME NEW w, NEW X \in Inputs, Carries(ns, w)
        PROVE  w[q.op][X] = mulf(k, mulf(w[a][X], w[b][X]))
    <3>1. w[q.op][X] = 0 BY <1>3, <1>7, <2>2, ZeroWire
    <3>0. w[a][X] \in Elt BY <1>4, <2>2
    <3>2. mulf(q.k, 0) = 0 /\ mulf(w[a][X], 0) = 0 /\ mulf(k, 0) = 0 BY <1>3, <3>0, TimesZero
    <3>3. w[b][X] = 0 BY <1>4, <2>2, <3>1, <3>2
    <3> QED BY <3>1, <3>2, <3>3
  <2> QED BY <1>3, <2>1, <2>2, NothingNew
<1>8. ASSUME ~IsZero(ns[p.op]) /\ ~constant(ns[p.op]) /\ ~IsZero(ns[q.op]) /\ constant(ns[q.op])
      PROVE  Good(Mul3Of(ns, k, a, b, p, q))
  <2> DEFINE c == Constant(ns, q)   r == mul2(ns, mulf(mulf(k, p.k), c), p.op)
  <2>1. Mul3Of(ns, k, a, b, p, q) = r BY <1>8, Zenon DEF Mul3Of
  <2>2. c \in Elt /\ mulf(mulf(k, p.k), c) \in Elt
    <3>1. ns[q.op].terms[1].k \in Elt BY <1>3, <1>8, FirstTerm DEF constant
    <3>2. c \in Elt BY <1>3, <3>1, ClosedField DEF Constant
    <3> QED BY <1>3, <3>2, ClosedField
  <2>3. ASSUME NEW w, NEW X \in Inputs, Carries(ns, w) PROVE w[b][X] = c
    <3>1. w[q.op][X] = ns[q.op].terms[1].k BY <1>3, <1>8, <2>3, ConstantWire
    <3> QED BY <1>4, <2>3, <3>1 DEF Constant
  <2> HIDE DEF c
  <2>4. /\ Returns(ns, r)
        /\ \A w : \A X \in Inputs :
             Carries(r.ns, w) => w[r.op][X] = mulf(mulf(mulf(k, p.k), c), w[p.op][X])
    BY <1>3, <2>2, Mul2Call
  <2> HIDE DEF r
  <2>5. ASSUME NEW w, NEW X \in Inputs, Carries(r.ns, w)
        PROVE  w[r.op][X] = mulf(k, mulf(w[a][X], w[b][X]))
    <3>1. Carries(ns, w) BY <2>4, <2>5, CarriesOld DEF Returns
    <3>2. mulf(mulf(mulf(k, p.k), c), w[p.op][X]) = mulf(k, mulf(mulf(p.k, w[p.op][X]), c))
      <4>1. w[p.op][X] \in Elt BY <1>4, <3>1
      <4>2. p.k \in Elt BY <1>3
      <4>3. c \in Elt BY <2>2
      <4>4. \A z \in Elt : mulf(mulf(mulf(k, p.k), c), z) = mulf(k, mulf(mulf(p.k, z), c))
        BY <4>2, <4>3, ProductOfFour
      <4> QED BY <4>1, <4>4
    <3>3. w[a][X] = mulf(p.k, w[p.op][X]) /\ w[b][X] = c BY <1>4, <2>3, <3>1
    <3>4. w[r.op][X] = mulf(mulf(mulf(k, p.k), c), w[p.op][X]) BY <2>4, <2>5, Zenon
    <3> QED BY <3>2, <3>3, <3>4, Zenon
  <2> QED BY <2>1, <2>4, <2>5
<1>9. ASSUME ~IsZero(ns[p.op]) /\ ~constant(ns[p.op]) /\ ~IsZero(ns[q.op]) /\ ~constant(ns[q.op])
      PROVE  Good(Mul3Of(ns, k, a, b, p, q))
  <2> DEFINE c == mulf(mulf(k, p.k), q.k)   n == TermNode(c, p.op, q.op)   r == push_node(ns, n)
  <2>1. Mul3Of(ns, k, a, b, p, q) = r BY <1>9, Zenon DEF Mul3Of
  <2>2. /\ NodeOk(ns, n) /\ ~n.is_input
        /\ \A w : \A X \in Inputs :
             Carries(ns, w) => Meaning(n.terms, w, X) = mulf(c, mulf(w[p.op][X], w[q.op][X]))
    BY <1>3, <1>9, ATermNode
  <2> HIDE DEF n
  <2>3. Returns(ns, r) BY <2>2, PushNode
  <2>4. ASSUME NEW w, NEW X \in Inputs, Carries(r.ns, w)
        PROVE  w[r.op][X] = mulf(k, mulf(w[a][X], w[b][X]))
    <3>1. Carries(ns, w) BY <2>3, <2>4, CarriesOld DEF Returns
    <3>2. w[r.op][X] = Meaning(n.terms, w, X) BY <2>2, <2>4, PushedValue
    <3>3. w[r.op][X] = mulf(c, mulf(w[p.op][X], w[q.op][X])) BY <2>2, <3>1, <3>2
    <3>4. mulf(c, mulf(w[p.op][X], w[q.op][X])) = mulf(k, mulf(mulf(p.k, w[p.op][X]), mulf(q.k, w[q.op][X])))
      <4>1. w[p.op][X] \in Elt /\ w[q.op][X] \in Elt BY <1>4, <3>1
      <4>2. p.k \in Elt /\ q.k \in Elt BY <1>3
      <4>3. \A x, y \in Elt :
              mulf(mulf(mulf(k, p.k), q.k), mulf(x, y)) = mulf(k, mulf(mulf(p.k, x), mulf(q.k, y)))
        <5> DEFINE u == p.k   v == q.k
        <5>1. u \in Elt /\ v \in Elt BY <4>2
        <5> HIDE DEF u, v
        <5>2. ASSUME NEW x \in Elt, NEW y \in Elt
              PROVE  mulf(mulf(mulf(k, u), v), mulf(x, y)) = mulf(k, mulf(mulf(u, x), mulf(v, y)))
          BY <5>1, ProductOfFive
        <5> QED BY <5>2, Zenon DEF u, v
      <4> QED BY <4>1, <4>3
    <3>5. w[a][X] = mulf(p.k, w[p.op][X]) /\ w[b][X] = mulf(q.k, w[q.op][X]) BY <1>4, <3>1
    <3> HIDE DEF r, c
    <3> QED BY <3>3, <3>4, <3>5
  <2> HIDE DEF r
  <2> QED BY <2>1, <2>3, <2>4
<1>10. Good(Mul3Of(ns, k, a, b, p, q))
  <2> HIDE DEF Good
  <2> QED BY <1>5, <1>6, <1>7, <1>8, <1>9
<1> QED BY <1>1, <1>10

(* linear(k, op) returns a wire that carries k times op.                   *)
LEMMA LinearCall ==
  ASSUME NEW ns, Ok(ns), NEW k \in Elt, NEW a \in Ops(ns)
  PROVE  LET r == linear(ns, k, a)
         IN  /\ Returns(ns, r)
             /\ \A w : \A X \in Inputs : Carries(r.ns, w) => w[r.op][X] = mulf(k, w[a][X])
<1> DEFINE r == mul3(ns, k, 0, a)
<1>1. 0 \in Ops(ns) BY WireOfOne
<1>2. /\ Returns(ns, r)
      /\ \A w : \A X \in Inputs : Carries(r.ns, w) => w[r.op][X] = mulf(k, mulf(w[0][X], w[a][X]))
  BY <1>1, Mul3Call
<1>3. linear(ns, k, a) = r BY Zenon DEF linear
<1> HIDE DEF r
<1>4. ASSUME NEW w, NEW X \in Inputs, Carries(r.ns, w) PROVE w[r.op][X] = mulf(k, w[a][X])
  <2>1. Carries(ns, w) BY <1>2, <1>4, CarriesOld DEF Returns
  <2>2. w[0][X] = 1 /\ w[a][X] \in Elt BY <2>1, WireOfOne, ValueInField
  <2>3. mulf(1, w[a][X]) = w[a][X] BY <2>2, Ring
  <2> QED BY <1>2, <1>4, <2>2, <2>3
<1> QED BY <1>2, <1>3, <1>4

-----------------------------------------------------------------------------
(* merge: the terms taken so far are in order, before those still to come, *)
(* and sum up to what has been taken. *)
FitTerm(ns, t) == t \in TermType /\ t.op0 <= t.op1 /\ t.op1 \in Ops(ns) /\ ~IsZero(ns[t.op1])
TermValues(ts, w, X) == [j \in 1..Len(ts) |-> TermValue(ts[j], w, X)]
Behind(ts, t, i) == ts # <<>> /\ i < Len(t) => ltndx(ts[Len(ts)], t[i + 1])
Taken(ns, t0, t1, s, i) ==
  /\ s.i0 \in 0..Len(t0) /\ s.i1 \in 0..Len(t1) /\ s.i0 + s.i1 >= i
  /\ TermsOk(ns, s.terms)
  /\ Behind(s.terms, t0, s.i0) /\ Behind(s.terms, t1, s.i1)
  /\ \A w : \A X \in Inputs : Carries(ns, w) =>
       Meaning(s.terms, w, X) = addf(Partial(TermValues(t0, w, X), s.i0), Partial(TermValues(t1, w, X), s.i1))

(* Terms are totally ordered by their operands.                            *)
LEMMA OrderOfTerms ==
  ASSUME NEW a \in TermType, NEW b \in TermType
  PROVE  /\ ltndx(a, b) \/ eqndx(a, b) \/ ltndx(b, a)
         /\ \A c \in TermType : ltndx(a, b) /\ ltndx(b, c) => ltndx(a, c)
         /\ \A c \in TermType : eqndx(a, b) /\ ltndx(b, c) => ltndx(a, c)
<1>1. a.op0 \in Nat /\ a.op1 \in Nat /\ b.op0 \in Nat /\ b.op1 \in Nat BY DEF TermType
<1>2. \A c \in TermType : c.op0 \in Nat /\ c.op1 \in Nat BY DEF TermType
<1> QED BY <1>1, <1>2, SMT DEF ltndx, eqndx

(* The terms of a sum are over wires that are not empty sums.              *)
LEMMA TermsAreFit ==
  ASSUME NEW ns, NEW ts, TermsOk(ns, ts), NEW j \in 1..Len(ts)
  PROVE  FitTerm(ns, ts[j])
<1>1. ts[j] \in TermType BY DEF TermsOk
<1> QED BY <1>1 DEF TermsOk, FitTerm

(* A later term put at the end of a sum leaves it in order and adds its    *)
(* value.                                                                  *)
LEMMA OneTermMore ==
  ASSUME NEW ns, Ok(ns), NEW ts, TermsOk(ns, ts), NEW t, FitTerm(ns, t),
         ts # <<>> => ltndx(ts[Len(ts)], t)
  PROVE  /\ TermsOk(ns, Append(ts, t)) /\ Append(ts, t) # <<>>
         /\ Append(ts, t)[Len(Append(ts, t))] = t
         /\ \A w : \A X \in Inputs : Carries(ns, w) =>
              Meaning(Append(ts, t), w, X) = addf(Meaning(ts, w, X), TermValue(t, w, X))
<1> DEFINE us == Append(ts, t)
<1>1. ts \in Seq(TermType) /\ Len(ts) \in Nat /\ t \in TermType BY DEF TermsOk, FitTerm
<1>2. /\ us \in Seq(TermType) /\ Len(us) = Len(ts) + 1 /\ us[Len(ts) + 1] = t /\ us # <<>>
      /\ \A j \in 1..Len(ts) : us[j] = ts[j]
  <2>1. L!IsSeq(ts) BY <1>1 DEF L!IsSeq
  <2>2. /\ Len(us) = Len(ts) + 1 /\ us[Len(ts) + 1] = t
        /\ \A j \in 1..Len(ts) : us[j] = ts[j]
    BY <2>1, L!OneMore
  <2>3. us \in Seq(TermType) BY <1>1
  <2> HIDE DEF us
  <2>4. us # <<>>
    <3>1. Len(<<>>) = 0 OBVIOUS
    <3> QED BY <1>1, <2>2, <3>1
  <2> QED BY <2>2, <2>3, <2>4
<1> HIDE DEF us
<1>3. TermsOk(ns, us)
  <2>1. ASSUME NEW j \in 1..Len(us) PROVE FitTerm(ns, us[j])
    <3>1. j \in 1..Len(ts) \/ j = Len(ts) + 1 BY <1>1, <1>2
    <3>2. ASSUME j \in 1..Len(ts) PROVE FitTerm(ns, ts[j]) BY <3>2, TermsAreFit
    <3> QED BY <1>2, <3>1, <3>2
  <2>2. ASSUME NEW j \in 1..(Len(us) - 1) PROVE ltndx(us[j], us[j + 1])
    <3>1. j \in 1..Len(ts) BY <1>1, <1>2
    <3>2. CASE j = Len(ts)
      <4>1. ts # <<>> BY <3>1
      <4> QED BY <1>2, <3>1, <3>2, <4>1
    <3>3. CASE j # Len(ts)
      <4>1. j \in 1..(Len(ts) - 1) /\ j + 1 \in 1..Len(ts) BY <1>1, <3>1, <3>3
      <4>2. ltndx(ts[j], ts[j + 1]) BY <4>1 DEF TermsOk
      <4> QED BY <1>2, <3>1, <4>1, <4>2
    <3> QED BY <3>2, <3>3
  <2> QED BY <1>2, <2>1, <2>2 DEF TermsOk, FitTerm
<1>4. ASSUME NEW w, NEW X \in Inputs, Carries(ns, w)
      PROVE  Meaning(us, w, X) = addf(Meaning(ts, w, X), TermValue(t, w, X))
  <2> DEFINE g == [j \in 1..Len(ts) |-> TermValue(ts[j], w, X)]
             h == [j \in 1..Len(us) |-> TermValue(us[j], w, X)]
  <2>1. Meaning(ts, w, X) = Partial(g, Len(ts)) /\ Meaning(us, w, X) = Partial(h, Len(ts) + 1)
    BY <1>1, <1>2, MeaningIsPartial
  <2>2. \A j \in 1..Len(ts) : g[j] = h[j] BY <1>1, <1>2
  <2>3. h[Len(ts) + 1] = TermValue(t, w, X) BY <1>1, <1>2
  <2> HIDE DEF g, h
  <2>4. Partial(g, Len(ts)) = Partial(h, Len(ts)) BY <1>1, <2>2, PartialAgrees
  <2>5. Partial(h, Len(ts) + 1) = addf(Partial(h, Len(ts)), h[Len(ts) + 1]) BY <1>1, PartialSums
  <2> QED BY <2>1, <2>3, <2>4, <2>5
<1> QED BY <1>2, <1>3, <1>4 DEF us

(* t is taken, standing for n0 terms of one sum and n1 of the other *)
LEMMA TakeOne ==
  ASSUME NEW ns, Ok(ns), NEW t0, NEW t1, NEW s, NEW i \in Nat, Taken(ns, t0, t1, s, i),
         NEW n0 \in 0..1, NEW n1 \in 0..1, n0 + n1 > 0,
         s.i0 + n0 <= Len(t0), s.i1 + n1 <= Len(t1), Len(t0) \in Nat, Len(t1) \in Nat,
         t0 \in Seq(TermType), t1 \in Seq(TermType),
         NEW t, FitTerm(ns, t), s.terms # <<>> => ltndx(s.terms[Len(s.terms)], t),
         s.i0 + n0 < Len(t0) => ltndx(t, t0[(s.i0 + n0) + 1]),
         s.i1 + n1 < Len(t1) => ltndx(t, t1[(s.i1 + n1) + 1]),
         \A w : \A X \in Inputs : Carries(ns, w) =>
           addf(Partial(TermValues(t0, w, X), s.i0 + n0), Partial(TermValues(t1, w, X), s.i1 + n1))
             = addf(addf(Partial(TermValues(t0, w, X), s.i0), Partial(TermValues(t1, w, X), s.i1)),
                    TermValue(t, w, X))
  PROVE  Taken(ns, t0, t1,
               [i0 |-> s.i0 + n0, i1 |-> s.i1 + n1,
                terms |-> IF t.k = 0 THEN s.terms ELSE Append(s.terms, t)], i + 1)
<1> DEFINE us == IF t.k = 0 THEN s.terms ELSE Append(s.terms, t)
<1>1. TermsOk(ns, s.terms) /\ s.terms \in Seq(TermType) BY DEF Taken, TermsOk
<1>2. /\ TermsOk(ns, Append(s.terms, t)) /\ Append(s.terms, t) # <<>>
      /\ Append(s.terms, t)[Len(Append(s.terms, t))] = t
      /\ \A w : \A X \in Inputs : Carries(ns, w) =>
           Meaning(Append(s.terms, t), w, X) = addf(Meaning(s.terms, w, X), TermValue(t, w, X))
  BY <1>1, OneTermMore
<1>3. TermsOk(ns, us) BY <1>1, <1>2
<1>4. us # <<>> => us[Len(us)] \in TermType /\ (us[Len(us)] = t \/ ltndx(us[Len(us)], t))
  <2>1. t \in TermType BY DEF FitTerm
  <2>2. CASE t.k = 0
    <3>1. us = s.terms BY <2>2
    <3>2. s.terms # <<>> => Len(s.terms) \in 1..Len(s.terms) BY <1>1
    <3> HIDE DEF us
    <3> QED BY <1>1, <3>1, <3>2
  <2>3. CASE t.k # 0
    <3>1. us = Append(s.terms, t) BY <2>3
    <3> HIDE DEF us
    <3> QED BY <1>2, <2>1, <3>1
  <2> QED BY <2>2, <2>3
<1>5. ASSUME NEW u \in TermType, ltndx(t, u), us # <<>> PROVE ltndx(us[Len(us)], u)
  <2>1. t \in TermType BY DEF FitTerm
  <2> HIDE DEF us
  <2> QED BY <1>4, <1>5, <2>1, OrderOfTerms
<1>6. ASSUME NEW w, NEW X \in Inputs, Carries(ns, w)
      PROVE  Meaning(us, w, X) = addf(Meaning(s.terms, w, X), TermValue(t, w, X))
  <2>1. CASE t.k = 0
    <3>1. us = s.terms BY <2>1
    <3>2. Meaning(s.terms, w, X) \in Elt BY <1>1, <1>6, MeaningInField
    <3>3. TermValue(t, w, X) = 0
      <4>1. t.op0 \in Ops(ns) /\ t.op1 \in Ops(ns)
        <5>1. t.op0 \in Nat /\ t.op0 <= t.op1 /\ t.op1 \in Ops(ns) BY DEF FitTerm, TermType
        <5> QED BY <5>1, NodeFacts
      <4>2. mulf(w[t.op0][X], w[t.op1][X]) \in Elt BY <1>6, <4>1, ValueInField, ClosedField
      <4> QED BY <2>1, <4>2, TimesZero DEF TermValue
    <3>4. addf(Meaning(s.terms, w, X), 0) = Meaning(s.terms, w, X) BY <3>2, Ring, TheModulus
    <3> HIDE DEF us
    <3> QED BY <3>1, <3>3, <3>4
  <2>2. CASE t.k # 0
    <3>1. us = Append(s.terms, t) BY <2>2
    <3> HIDE DEF us
    <3> QED BY <1>2, <1>6, <3>1
  <2> QED BY <2>1, <2>2
<1> HIDE DEF us
<1> DEFINE r == [i0 |-> s.i0 + n0, i1 |-> s.i1 + n1, terms |-> us]
<1>7. s.i0 \in 0..Len(t0) /\ s.i1 \in 0..Len(t1) /\ s.i0 + s.i1 >= i BY DEF Taken
<1>8. r.i0 = s.i0 + n0 /\ r.i1 = s.i1 + n1 /\ r.terms = us OBVIOUS
<1> HIDE DEF r
<1>9. r.i0 \in 0..Len(t0) /\ r.i1 \in 0..Len(t1) /\ r.i0 + r.i1 >= i + 1
  <2>1. s.i0 + n0 \in 0..Len(t0) BY <1>7, SMT
  <2>2. s.i1 + n1 \in 0..Len(t1) BY <1>7, SMT
  <2>3. (s.i0 + n0) + (s.i1 + n1) >= i + 1 BY <1>7, SMT
  <2> QED BY <1>8, <2>1, <2>2, <2>3
<1>10. Behind(r.terms, t0, r.i0)
  <2> SUFFICES ASSUME us # <<>>, s.i0 + n0 < Len(t0) PROVE ltndx(us[Len(us)], t0[(s.i0 + n0) + 1])
    BY <1>8 DEF Behind
  <2>1. (s.i0 + n0) + 1 \in 1..Len(t0) BY <1>7
  <2>2. t0[(s.i0 + n0) + 1] \in TermType BY <2>1
  <2> QED BY <1>5, <2>2
<1>11. Behind(r.terms, t1, r.i1)
  <2> SUFFICES ASSUME us # <<>>, s.i1 + n1 < Len(t1) PROVE ltndx(us[Len(us)], t1[(s.i1 + n1) + 1])
    BY <1>8 DEF Behind
  <2>1. (s.i1 + n1) + 1 \in 1..Len(t1) BY <1>7
  <2>2. t1[(s.i1 + n1) + 1] \in TermType BY <2>1
  <2> QED BY <1>5, <2>2
<1>12. ASSUME NEW w, NEW X \in Inputs, Carries(ns, w)
       PROVE  Meaning(r.terms, w, X) = addf(Partial(TermValues(t0, w, X), r.i0), Partial(TermValues(t1, w, X), r.i1))
  <2>1. Meaning(s.terms, w, X) = addf(Partial(TermValues(t0, w, X), s.i0), Partial(TermValues(t1, w, X), s.i1))
    BY <1>12 DEF Taken
  <2> QED BY <1>6, <1>8, <1>12, <2>1
<1>13. Taken(ns, t0, t1, r, i + 1) BY <1>3, <1>8, <1>9, <1>10, <1>11, <1>12 DEF Taken
<1> QED BY <1>13 DEF r, us

(* Sums may be regrouped: one term taken from each addend, from the first, *)
(* from the second.                                                        *)
LEMMA SumOfFour ==
  ASSUME NEW p \in Elt, NEW q \in Elt, NEW a \in Elt, NEW b \in Elt
  PROVE  /\ addf(addf(p, a), addf(q, b)) = addf(addf(p, q), addf(a, b))
         /\ addf(addf(p, a), q) = addf(addf(p, q), a)
         /\ addf(p, addf(q, b)) = addf(addf(p, q), b)
<1>1. \A x \in Elt : addf(addf(p, a), x) = addf(p, addf(a, x)) BY Ring
<1>2. \A x \in Elt : addf(addf(p, q), x) = addf(p, addf(q, x)) BY Ring
<1>3. addf(q, b) \in Elt /\ addf(a, b) \in Elt BY ClosedField
<1>4. addf(a, addf(q, b)) = addf(addf(a, q), b) /\ addf(q, addf(a, b)) = addf(addf(q, a), b) BY Ring
<1>5. addf(a, q) = addf(q, a) BY Ring
<1> QED BY <1>1, <1>2, <1>3, <1>4, <1>5

(* Each step of the loop of merge() keeps the terms taken so far in order, *)
(* before those to come, and their meaning the sum of what was taken.      *)
LEMMA MergeStep ==
  ASSUME NEW ns, Ok(ns), NEW t0, NEW t1, TermsOk(ns, t0), TermsOk(ns, t1), NEW s, NEW i \in Nat,
         Taken(ns, t0, t1, s, i), i < Len(t0) + Len(t1)
  PROVE  Taken(ns, t0, t1, merge_step(t0, t1, s), i + 1)
<1> DEFINE a == t0[s.i0 + 1]   more0 == s.i0 < Len(t0)
           b == t1[s.i1 + 1]   more1 == s.i1 < Len(t1)
           Take(t, n0, n1) == [i0 |-> s.i0 + n0, i1 |-> s.i1 + n1,
                               terms |-> IF t.k = 0 THEN s.terms ELSE Append(s.terms, t)]
<1>1. /\ t0 \in Seq(TermType) /\ t1 \in Seq(TermType) /\ Len(t0) \in Nat /\ Len(t1) \in Nat
      /\ s.i0 \in 0..Len(t0) /\ s.i1 \in 0..Len(t1) /\ s.i0 + s.i1 >= i
      /\ s.i0 \in Nat /\ s.i1 \in Nat
  BY DEF TermsOk, Taken
<1>2. /\ more0 => FitTerm(ns, a) /\ a \in TermType
      /\ more1 => FitTerm(ns, b) /\ b \in TermType
  <2>1. (more0 => s.i0 + 1 \in 1..Len(t0)) /\ (more1 => s.i1 + 1 \in 1..Len(t1)) BY <1>1
  <2> QED BY <2>1, TermsAreFit DEF FitTerm
<1>3. /\ s.i0 + 1 < Len(t0) => ltndx(a, t0[(s.i0 + 1) + 1])
      /\ s.i1 + 1 < Len(t1) => ltndx(b, t1[(s.i1 + 1) + 1])
  <2>1. /\ s.i0 + 1 < Len(t0) => s.i0 + 1 \in 1..(Len(t0) - 1)
        /\ s.i1 + 1 < Len(t1) => s.i1 + 1 \in 1..(Len(t1) - 1)
    BY <1>1
  <2> QED BY <2>1 DEF TermsOk
<1>4. /\ s.terms # <<>> /\ more0 => ltndx(s.terms[Len(s.terms)], a)
      /\ s.terms # <<>> /\ more1 => ltndx(s.terms[Len(s.terms)], b)
  BY DEF Taken, Behind
<1>5. s.i0 + 0 = s.i0 /\ s.i1 + 0 = s.i1 BY <1>1
<1> DEFINE P0(w, X) == Partial(TermValues(t0, w, X), s.i0)
           P1(w, X) == Partial(TermValues(t1, w, X), s.i1)
<1>6. ASSUME NEW w, NEW X \in Inputs, Carries(ns, w)
      PROVE  /\ P0(w, X) \in Elt /\ P1(w, X) \in Elt
             /\ more0 => /\ TermValue(a, w, X) \in Elt
                         /\ Partial(TermValues(t0, w, X), s.i0 + 1) = addf(P0(w, X), TermValue(a, w, X))
             /\ more1 => /\ TermValue(b, w, X) \in Elt
                         /\ Partial(TermValues(t1, w, X), s.i1 + 1) = addf(P1(w, X), TermValue(b, w, X))
  <2> DEFINE g0 == TermValues(t0, w, X)   g1 == TermValues(t1, w, X)
  <2>1. \A j \in 1..Len(t0) : g0[j] = TermValue(t0[j], w, X) /\ g0[j] \in Elt
    BY <1>6, TermsInField DEF TermValues
  <2>2. \A j \in 1..Len(t1) : g1[j] = TermValue(t1[j], w, X) /\ g1[j] \in Elt
    BY <1>6, TermsInField DEF TermValues
  <2>3. Partial(g0, s.i0 + 1) = addf(Partial(g0, s.i0), g0[s.i0 + 1]) BY <1>1, PartialSums
  <2>4. Partial(g1, s.i1 + 1) = addf(Partial(g1, s.i1), g1[s.i1 + 1]) BY <1>1, PartialSums
  <2>5. (more0 => s.i0 + 1 \in 1..Len(t0)) /\ (more1 => s.i1 + 1 \in 1..Len(t1)) BY <1>1
  <2>6. (\A j \in 1..s.i0 : j \in 1..Len(t0)) /\ (\A j \in 1..s.i1 : j \in 1..Len(t1)) BY <1>1
  <2> HIDE DEF g0, g1
  <2>7. Partial(g0, s.i0) \in Elt BY <1>1, <2>1, <2>6, PartialInField
  <2>8. Partial(g1, s.i1) \in Elt BY <1>1, <2>2, <2>6, PartialInField
  <2> QED BY <2>1, <2>2, <2>3, <2>4, <2>5, <2>7, <2>8 DEF g0, g1
<1> HIDE DEF P0, P1
<1> DEFINE Adds(t, n0, n1) ==
      \A w : \A X \in Inputs : Carries(ns, w) =>
        addf(Partial(TermValues(t0, w, X), s.i0 + n0), Partial(TermValues(t1, w, X), s.i1 + n1))
          = addf(addf(Partial(TermValues(t0, w, X), s.i0), Partial(TermValues(t1, w, X), s.i1)),
                 TermValue(t, w, X))
<1>7. CASE ~more0 /\ ~more1
  <2>1. merge_step(t0, t1, s) = s BY <1>7, Zenon DEF merge_step
  <2>2. s.i0 + s.i1 >= i + 1 BY <1>1, <1>7
  <2>3. Taken(ns, t0, t1, s, i + 1) BY <2>2 DEF Taken
  <2> QED BY <2>1, <2>3
<1>8. CASE more0 /\ more1 /\ eqndx(a, b)
  <2> DEFINE t == [a EXCEPT !.k = addf(@, b.k)]
  <2>1. merge_step(t0, t1, s) = Take(t, 1, 1) BY <1>8, Zenon DEF merge_step
  <2>2. FitTerm(ns, a) /\ FitTerm(ns, b) /\ a \in TermType /\ b \in TermType BY <1>2, <1>8
  <2> HIDE DEF a, b
  <2>3. a.k \in Elt /\ b.k \in Elt /\ a.op0 = b.op0 /\ a.op1 = b.op1 BY <1>8, <2>2 DEF TermType, eqndx
  <2>4. addf(a.k, b.k) \in Elt BY <2>3, ClosedField
  <2>5. t.k = addf(a.k, b.k) /\ t.op0 = a.op0 /\ t.op1 = a.op1 /\ t \in TermType
    BY <2>2, <2>4 DEF TermType
  <2> HIDE DEF t
  <2>6. FitTerm(ns, t) BY <2>2, <2>5 DEF FitTerm
  <2>7. /\ s.terms # <<>> => ltndx(s.terms[Len(s.terms)], t)
        /\ s.i0 + 1 < Len(t0) => ltndx(t, t0[(s.i0 + 1) + 1])
        /\ s.i1 + 1 < Len(t1) => ltndx(t, t1[(s.i1 + 1) + 1])
    BY <1>3, <1>4, <1>8, <2>3, <2>5 DEF ltndx
  <2>8. Adds(t, 1, 1)
    <3> SUFFICES ASSUME NEW w, NEW X \in Inputs, Carries(ns, w)
                 PROVE  addf(Partial(TermValues(t0, w, X), s.i0 + 1), Partial(TermValues(t1, w, X), s.i1 + 1))
                          = addf(addf(P0(w, X), P1(w, X)), TermValue(t, w, X))
      BY DEF P0, P1
    <3>1. /\ P0(w, X) \in Elt /\ P1(w, X) \in Elt /\ TermValue(a, w, X) \in Elt /\ TermValue(b, w, X) \in Elt
          /\ Partial(TermValues(t0, w, X), s.i0 + 1) = addf(P0(w, X), TermValue(a, w, X))
          /\ Partial(TermValues(t1, w, X), s.i1 + 1) = addf(P1(w, X), TermValue(b, w, X))
      BY <1>6, <1>8
    <3> DEFINE v == mulf(w[a.op0][X], w[a.op1][X])
    <3>2. v \in Elt
      <4>1. a.op0 \in Ops(ns) /\ a.op1 \in Ops(ns)
        <5>1. a.op0 \in Nat /\ a.op0 <= a.op1 /\ a.op1 \in Ops(ns) BY <2>2 DEF FitTerm, TermType
        <5> QED BY <5>1, NodeFacts
      <4> QED BY <4>1, ValueInField, ClosedField
    <3>3. TermValue(a, w, X) = mulf(a.k, v) /\ TermValue(b, w, X) = mulf(b.k, v)
          /\ TermValue(t, w, X) = mulf(addf(a.k, b.k), v)
      BY <2>3, <2>5 DEF TermValue
    <3> HIDE DEF v
    <3>4. mulf(addf(a.k, b.k), v) = addf(mulf(a.k, v), mulf(b.k, v))
      <4>1. mulf(v, addf(a.k, b.k)) = addf(mulf(v, a.k), mulf(v, b.k)) BY <2>3, <3>2, Ring
      <4>2. mulf(v, addf(a.k, b.k)) = mulf(addf(a.k, b.k), v) BY <2>4, <3>2, Ring
      <4>3. mulf(v, a.k) = mulf(a.k, v) /\ mulf(v, b.k) = mulf(b.k, v) BY <2>3, <3>2, Ring
      <4> QED BY <4>1, <4>2, <4>3
    <3> QED BY <3>1, <3>3, <3>4, SumOfFour
  <2>9. s.i0 + 1 <= Len(t0) /\ s.i1 + 1 <= Len(t1) /\ 1 \in 0..1 /\ 1 + 1 > 0 BY <1>1, <1>8
  <2> HIDE DEF more0, more1, Take, Adds
  <2>10. Taken(ns, t0, t1, Take(t, 1, 1), i + 1)
    BY <1>1, <2>6, <2>7, <2>8, <2>9, TakeOne DEF Take, Adds
  <2> QED BY <2>1, <2>10
<1>9. CASE more0 /\ ~(more1 /\ eqndx(a, b)) /\ (more1 => ltndx(a, b))
  <2>1. merge_step(t0, t1, s) = Take(a, 1, 0) BY <1>9, Zenon DEF merge_step
  <2>2. FitTerm(ns, a) /\ a \in TermType BY <1>2, <1>9
  <2>3. /\ s.terms # <<>> => ltndx(s.terms[Len(s.terms)], a)
        /\ s.i0 + 1 < Len(t0) => ltndx(a, t0[(s.i0 + 1) + 1])
        /\ s.i1 + 0 < Len(t1) => ltndx(a, t1[(s.i1 + 0) + 1])
    BY <1>3, <1>4, <1>5, <1>9
  <2>4. Adds(a, 1, 0)
    <3> SUFFICES ASSUME NEW w, NEW X \in Inputs, Carries(ns, w)
                 PROVE  addf(Partial(TermValues(t0, w, X), s.i0 + 1), P1(w, X))
                          = addf(addf(P0(w, X), P1(w, X)), TermValue(a, w, X))
      BY <1>5 DEF P0, P1
    <3>1. /\ P0(w, X) \in Elt /\ P1(w, X) \in Elt /\ TermValue(a, w, X) \in Elt
          /\ Partial(TermValues(t0, w, X), s.i0 + 1) = addf(P0(w, X), TermValue(a, w, X))
      BY <1>6, <1>9
    <3> HIDE DEF a
    <3> QED BY <3>1, SumOfFour
  <2>5. s.i0 + 1 <= Len(t0) /\ s.i1 + 0 <= Len(t1) /\ 1 \in 0..1 /\ 0 \in 0..1 /\ 1 + 0 > 0 BY <1>1, <1>9
  <2> HIDE DEF more0, more1, Take, Adds, a, b
  <2>6. Taken(ns, t0, t1, Take(a, 1, 0), i + 1)
    BY <1>1, <2>2, <2>3, <2>4, <2>5, TakeOne DEF Take, Adds
  <2> QED BY <2>1, <2>6
<1>10. CASE more1 /\ ~(more0 /\ eqndx(a, b)) /\ ~(more0 /\ ltndx(a, b))
  <2>1. merge_step(t0, t1, s) = Take(b, 0, 1) BY <1>10, Zenon DEF merge_step
  <2>2. FitTerm(ns, b) /\ b \in TermType BY <1>2, <1>10
  <2>3. /\ s.terms # <<>> => ltndx(s.terms[Len(s.terms)], b)
        /\ s.i0 + 0 < Len(t0) => ltndx(b, t0[(s.i0 + 0) + 1])
        /\ s.i1 + 1 < Len(t1) => ltndx(b, t1[(s.i1 + 1) + 1])
    <3>1. more0 => ltndx(b, a) BY <1>2, <1>10, OrderOfTerms
    <3> QED BY <1>3, <1>4, <1>5, <1>10, <3>1
  <2>4. Adds(b, 0, 1)
    <3> SUFFICES ASSUME NEW w, NEW X \in Inputs, Carries(ns, w)
                 PROVE  addf(P0(w, X), Partial(TermValues(t1, w, X), s.i1 + 1))
                          = addf(addf(P0(w, X), P1(w, X)), TermValue(b, w, X))
      BY <1>5 DEF P0, P1
    <3>1. /\ P0(w, X) \in Elt /\ P1(w, X) \in Elt /\ TermValue(b, w, X) \in Elt
          /\ Partial(TermValues(t1, w, X), s.i1 + 1) = addf(P1(w, X), TermValue(b, w, X))
      BY <1>6, <1>10
    <3> HIDE DEF b
    <3> QED BY <3>1, SumOfFour
  <2>5. s.i0 + 0 <= Len(t0) /\ s.i1 + 1 <= Len(t1) /\ 1 \in 0..1 /\ 0 \in 0..1 /\ 0 + 1 > 0 BY <1>1, <1>10
  <2> HIDE DEF more0, more1, Take, Adds, a, b
  <2>6. Taken(ns, t0, t1, Take(b, 0, 1), i + 1)
    BY <1>1, <2>2, <2>3, <2>4, <2>5, TakeOne DEF Take, Adds
  <2> QED BY <2>1, <2>6
<1> HIDE DEF more0, more1, a, b
<1> QED BY <1>7, <1>8, <1>9, <1>10, Zenon

Merges(t0, t1, f, n) ==
  f = [i \in 0..n |-> IF i = 0 THEN [i0 |-> 0, i1 |-> 0, terms |-> <<>>]
                      ELSE merge_step(t0, t1, f[i - 1])]

(* The recursive function of merge_terms exists.                           *)
LEMMA MergeExists ==
  ASSUME NEW t0, NEW t1, NEW n \in Nat
  PROVE  \E f : Merges(t0, t1, f, n)
<1> DEFINE first == [i0 |-> 0, i1 |-> 0, terms |-> <<>>]
<1> HIDE DEF first
<1> DEFINE S == {m \in Nat : \E f : f = [i \in 0..m |-> IF i = 0 THEN first ELSE merge_step(t0, t1, f[i - 1])]}
<1>1. 0 \in S
  <2> DEFINE f == [k \in 0..0 |-> first]
  <2>1. f = [i \in 0..0 |-> IF i = 0 THEN first ELSE merge_step(t0, t1, f[i - 1])]
    <3>1. \A k \in 0..0 : k = 0 OBVIOUS
    <3> QED BY <3>1, Zenon
  <2> QED BY <2>1
<1>2. ASSUME NEW m \in Nat, m \in S PROVE m + 1 \in S
  <2>1. PICK f : f = [i \in 0..m |-> IF i = 0 THEN first ELSE merge_step(t0, t1, f[i - 1])] BY <1>2
  <2> DEFINE h == [k \in 0..(m + 1) |-> IF k \in 0..m THEN f[k] ELSE merge_step(t0, t1, f[k - 1])]
  <2>2. ASSUME NEW k \in 0..(m + 1)
        PROVE  h[k] = IF k = 0 THEN first ELSE merge_step(t0, t1, h[k - 1])
    <3>1. CASE k = 0
      <4>1. 0 \in 0..m /\ 0 \in 0..(m + 1) OBVIOUS
      <4>2. h[0] = f[0] BY <4>1
      <4>3. f[0] = first BY <2>1, <4>1
      <4> QED BY <3>1, <4>2, <4>3
    <3>2. CASE k # 0
      <4>1. k - 1 \in 0..m /\ k - 1 \in 0..(m + 1) BY <3>2
      <4>2. h[k - 1] = f[k - 1] BY <4>1
      <4>3. CASE k \in 0..m
        <5>1. h[k] = f[k] BY <4>3
        <5>2. f[k] = merge_step(t0, t1, f[k - 1]) BY <2>1, <3>2, <4>3
        <5> QED BY <3>2, <4>2, <5>1, <5>2
      <4>4. CASE k \notin 0..m
        <5>1. h[k] = merge_step(t0, t1, f[k - 1]) BY <4>4
        <5> QED BY <3>2, <4>2, <5>1
      <4> QED BY <4>3, <4>4
    <3> QED BY <3>1, <3>2
  <2>3. h = [k \in 0..(m + 1) |-> h[k]] BY Zenon
  <2> HIDE DEF h
  <2>4. h = [k \in 0..(m + 1) |-> IF k = 0 THEN first ELSE merge_step(t0, t1, h[k - 1])]
    BY <2>2, <2>3, Zenon
  <2> QED BY <2>4
<1>3. \A m \in Nat : m \in S
  <2> HIDE DEF S
  <2> QED BY <1>1, <1>2, L!Induction, Zenon
<1>4. \E f : f = [i \in 0..n |-> IF i = 0 THEN first ELSE merge_step(t0, t1, f[i - 1])] BY <1>3
<1> QED BY <1>4, Zenon DEF Merges, first

(* merge() of two sums in order is in order and means their sum.           *)
LEMMA MergedTerms ==
  ASSUME NEW ns, Ok(ns), NEW t0, NEW t1, TermsOk(ns, t0), TermsOk(ns, t1)
  PROVE  /\ TermsOk(ns, merge_terms(t0, t1))
         /\ \A w : \A X \in Inputs : Carries(ns, w) =>
              Meaning(merge_terms(t0, t1), w, X) = addf(Meaning(t0, w, X), Meaning(t1, w, X))
<1> DEFINE n == Len(t0) + Len(t1)
           m == CHOOSE f : f = [i \in 0..n |-> IF i = 0 THEN [i0 |-> 0, i1 |-> 0, terms |-> <<>>]
                                               ELSE merge_step(t0, t1, f[i - 1])]
<1>0. t0 \in Seq(TermType) /\ t1 \in Seq(TermType) /\ Len(t0) \in Nat /\ Len(t1) \in Nat /\ n \in Nat
  BY DEF TermsOk
<1>1. merge_terms(t0, t1) = m[n].terms BY Zenon DEF merge_terms
<1>2. Merges(t0, t1, m, n)
  <2> HIDE DEF n
  <2>1. \E f : f = [i \in 0..n |-> IF i = 0 THEN [i0 |-> 0, i1 |-> 0, terms |-> <<>>]
                                   ELSE merge_step(t0, t1, f[i - 1])]
    <3>1. \E f : Merges(t0, t1, f, n) BY <1>0, MergeExists
    <3> QED BY <3>1, Zenon DEF Merges
  <2>2. m = [i \in 0..n |-> IF i = 0 THEN [i0 |-> 0, i1 |-> 0, terms |-> <<>>]
                            ELSE merge_step(t0, t1, m[i - 1])]
    BY <2>1, Zenon
  <2> HIDE DEF m
  <2> QED BY <2>2, Zenon DEF Merges
<1> HIDE DEF m
<1> DEFINE S == {i \in Nat : i <= n => Taken(ns, t0, t1, m[i], i)}
<1>3. 0 \in S
  <2> DEFINE s == [i0 |-> 0, i1 |-> 0, terms |-> <<>>]
  <2>1. 0 \in 0..n BY <1>0
  <2>2. m[0] = s BY <1>2, <2>1, Zenon DEF Merges
  <2>3. s.i0 = 0 /\ s.i1 = 0 /\ s.terms = <<>> OBVIOUS
  <2> HIDE DEF s
  <2>4. TermsOk(ns, s.terms) BY <2>3, EmptyNode DEF NodeOk
  <2>5. Behind(s.terms, t0, s.i0) /\ Behind(s.terms, t1, s.i1) BY <2>3 DEF Behind
  <2>6. ASSUME NEW w, NEW X \in Inputs
        PROVE  Meaning(s.terms, w, X) = addf(Partial(TermValues(t0, w, X), s.i0), Partial(TermValues(t1, w, X), s.i1))
    <3>1. Partial(TermValues(t0, w, X), 0) = 0 /\ Partial(TermValues(t1, w, X), 0) = 0 BY PartialSums
    <3>2. addf(0, 0) = 0 BY Ring, TheModulus
    <3> QED BY <2>3, <3>1, <3>2, MeaningOfNone
  <2>7. s.i0 \in 0..Len(t0) /\ s.i1 \in 0..Len(t1) /\ s.i0 + s.i1 >= 0 BY <1>0, <2>3
  <2>8. Taken(ns, t0, t1, s, 0) BY <2>4, <2>5, <2>6, <2>7 DEF Taken
  <2> QED BY <2>2, <2>8
<1>4. ASSUME NEW i \in Nat, i \in S PROVE i + 1 \in S
  <2>1. CASE i + 1 <= n
    <3>1. Taken(ns, t0, t1, m[i], i) BY <1>0, <1>4, <2>1
    <3>2. i + 1 \in 0..n /\ i + 1 # 0 /\ (i + 1) - 1 = i /\ i < Len(t0) + Len(t1) BY <1>0, <2>1
    <3> HIDE DEF n
    <3>3. m[i + 1] = merge_step(t0, t1, m[i]) BY <1>2, <3>2 DEF Merges
    <3>4. Taken(ns, t0, t1, m[i + 1], i + 1) BY <3>1, <3>2, <3>3, MergeStep
    <3> QED BY <3>4
  <2> QED BY <2>1
<1>5. Taken(ns, t0, t1, m[n], n)
  <2>1. \A i \in Nat : i \in S
    <3> HIDE DEF S
    <3> QED BY <1>3, <1>4, L!Induction, Zenon
  <2> QED BY <1>0, <2>1
<1>6. m[n].i0 = Len(t0) /\ m[n].i1 = Len(t1)
  <2>1. m[n].i0 \in 0..Len(t0) /\ m[n].i1 \in 0..Len(t1) /\ m[n].i0 + m[n].i1 >= n BY <1>5 DEF Taken
  <2> QED BY <1>0, <2>1
<1>7. ASSUME NEW w, NEW X \in Inputs, Carries(ns, w)
      PROVE  Meaning(m[n].terms, w, X) = addf(Meaning(t0, w, X), Meaning(t1, w, X))
  <2>1. Meaning(m[n].terms, w, X) = addf(Partial(TermValues(t0, w, X), Len(t0)), Partial(TermValues(t1, w, X), Len(t1)))
    BY <1>5, <1>6, <1>7 DEF Taken
  <2>2. Meaning(t0, w, X) = Partial(TermValues(t0, w, X), Len(t0)) BY <1>0, MeaningIsPartial DEF TermValues
  <2>3. Meaning(t1, w, X) = Partial(TermValues(t1, w, X), Len(t1)) BY <1>0, MeaningIsPartial DEF TermValues
  <2> QED BY <2>1, <2>2, <2>3
<1>8. TermsOk(ns, m[n].terms) BY <1>5 DEF Taken
<1> QED BY <1>1, <1>7, <1>8

(* the merged node *)
LEMMA MergedNode ==
  ASSUME NEW ns, Ok(ns), NEW a \in Ops(ns), NEW b \in Ops(ns)
  PROVE  LET r == push_node(ns, merge(ns, a, b))
         IN  /\ Returns(ns, r)
             /\ \A w : \A X \in Inputs : Carries(r.ns, w) => w[r.op][X] = addf(w[a][X], w[b][X])
<1> DEFINE t0 == materialize_input(ns, a).terms
           t1 == materialize_input(ns, b).terms
           ts == merge_terms(t0, t1)
           r == push_node(ns, Node(ts))
<1>1. merge(ns, a, b) = Node(ts) BY Zenon DEF merge
<1>2. /\ TermsOk(ns, t0) /\ TermsOk(ns, t1)
      /\ \A w : \A X \in Inputs : Carries(ns, w) =>
           Meaning(t0, w, X) = w[a][X] /\ Meaning(t1, w, X) = w[b][X]
  <2>1. /\ NodeOk(ns, materialize_input(ns, a))
        /\ \A w : \A X \in Inputs : Carries(ns, w) => Meaning(t0, w, X) = w[a][X]
    BY Materialized
  <2>2. /\ NodeOk(ns, materialize_input(ns, b))
        /\ \A w : \A X \in Inputs : Carries(ns, w) => Meaning(t1, w, X) = w[b][X]
    BY Materialized
  <2>3. TermsOk(ns, t0) /\ TermsOk(ns, t1) BY <2>1, <2>2 DEF NodeOk
  <2> HIDE DEF t0, t1
  <2> QED BY <2>1, <2>2, <2>3
<1> HIDE DEF t0, t1
<1>3. /\ TermsOk(ns, ts)
      /\ \A w : \A X \in Inputs : Carries(ns, w) =>
           Meaning(ts, w, X) = addf(Meaning(t0, w, X), Meaning(t1, w, X))
  BY <1>2, MergedTerms
<1> HIDE DEF ts
<1>4. NodeOk(ns, Node(ts)) /\ ~Node(ts).is_input /\ Node(ts).terms = ts
  <2>1. ts \in Seq(TermType) BY <1>3 DEF TermsOk
  <2>2. /\ Node(ts) \in NodeType /\ Node(ts).terms = ts /\ Node(ts).is_input = FALSE
        /\ Node(ts).is_assert0 = FALSE
    BY <2>1, ANode
  <2> QED BY <1>3, <2>2 DEF NodeOk
<1>5. Returns(ns, r) BY <1>4, PushNode
<1>6. ASSUME NEW w, NEW X \in Inputs, Carries(r.ns, w) PROVE w[r.op][X] = addf(w[a][X], w[b][X])
  <2>1. Carries(ns, w) BY <1>5, <1>6, CarriesOld DEF Returns
  <2>2. w[r.op][X] = Meaning(ts, w, X) BY <1>4, <1>6, PushedValue
  <2> QED BY <1>2, <1>3, <2>1, <2>2
<1> QED BY <1>1, <1>5, <1>6

-----------------------------------------------------------------------------
(* Sums and the calls made of others *)

(* a second call on what the first returned *)
LEMMA ReturnsTwice ==
  ASSUME NEW ns, Ok(ns), NEW r, Returns(ns, r), NEW q, Returns(r.ns, q)
  PROVE  /\ Returns(ns, q) /\ Ok(r.ns)
         /\ \A i \in Ops(ns) : i \in Ops(r.ns)
         /\ \A w : Carries(q.ns, w) => Carries(r.ns, w) /\ Carries(ns, w)
<1>1. Ok(r.ns) /\ Ok(q.ns) /\ Extends(ns, r.ns) /\ Extends(r.ns, q.ns) BY DEF Returns
<1>2. Extends(ns, q.ns) BY <1>1, ExtendsTwice
<1>3. ASSUME NEW w, Carries(q.ns, w) PROVE Carries(r.ns, w) /\ Carries(ns, w)
  BY <1>1, <1>2, <1>3, CarriesOld
<1>4. \A i \in Ops(ns) : i \in Ops(r.ns) BY <1>1 DEF Extends
<1> QED BY <1>1, <1>2, <1>3, <1>4 DEF Returns

AddsUp(ns, r, a, b) ==
  /\ Returns(ns, r)
  /\ \A w : \A X \in Inputs : Carries(r.ns, w) => w[r.op][X] = addf(w[a][X], w[b][X])

(* add() returns a wire that carries the sum.                              *)
LEMMA AddCall ==
  ASSUME NEW ns, Ok(ns), NEW a \in Ops(ns), NEW b \in Ops(ns)
  PROVE  AddsUp(ns, add(ns, a, b), a, b)
<1> DEFINE r0 == linear(ns, 1, a)   r1 == linear(ns, 1, b)
<1>1. CASE IsZero(ns[a])
  <2>1. add(ns, a, b) = [ns |-> ns, op |-> b] BY <1>1, Zenon DEF add
  <2>2. ASSUME NEW w, NEW X \in Inputs, Carries(ns, w) PROVE w[b][X] = addf(w[a][X], w[b][X])
    <3>1. w[a][X] = 0 /\ w[b][X] \in Elt BY <1>1, <2>2, ZeroWire, ValueInField
    <3> QED BY <3>1, Ring
  <2> QED BY <2>1, <2>2, NothingNew DEF AddsUp
<1>2. CASE ~IsZero(ns[a]) /\ IsZero(ns[b])
  <2>1. add(ns, a, b) = [ns |-> ns, op |-> a] BY <1>2, Zenon DEF add
  <2>2. ASSUME NEW w, NEW X \in Inputs, Carries(ns, w) PROVE w[a][X] = addf(w[a][X], w[b][X])
    <3>1. w[b][X] = 0 /\ w[a][X] \in Elt BY <1>2, <2>2, ZeroWire, ValueInField
    <3>2. addf(0, w[a][X]) = w[a][X] /\ addf(w[a][X], 0) = addf(0, w[a][X]) BY <3>1, Ring, TheModulus
    <3> QED BY <3>1, <3>2
  <2> QED BY <2>1, <2>2, NothingNew DEF AddsUp
<1>3. CASE ~IsZero(ns[a]) /\ ~IsZero(ns[b]) /\ ns[a].depth < ns[b].depth
  <2> DEFINE q == push_node(r0.ns, merge(r0.ns, r0.op, b))
  <2>1. add(ns, a, b) = q BY <1>3, Zenon DEF add
  <2>2. /\ Returns(ns, r0)
        /\ \A w : \A X \in Inputs : Carries(r0.ns, w) => w[r0.op][X] = mulf(1, w[a][X])
    BY LinearCall, TheModulus
  <2> HIDE DEF r0
  <2>3. Ok(r0.ns) /\ r0.op \in Ops(r0.ns) /\ b \in Ops(r0.ns) BY <2>2 DEF Returns, Extends
  <2>4. /\ Returns(r0.ns, q)
        /\ \A w : \A X \in Inputs : Carries(q.ns, w) => w[q.op][X] = addf(w[r0.op][X], w[b][X])
    BY <2>3, MergedNode
  <2> HIDE DEF q
  <2>5. Returns(ns, q) /\ \A w : Carries(q.ns, w) => Carries(r0.ns, w) /\ Carries(ns, w)
    BY <2>2, <2>4, ReturnsTwice
  <2>6. ASSUME NEW w, NEW X \in Inputs, Carries(q.ns, w) PROVE w[q.op][X] = addf(w[a][X], w[b][X])
    <3>1. Carries(r0.ns, w) /\ Carries(ns, w) BY <2>5, <2>6
    <3>2. w[a][X] \in Elt BY <3>1, ValueInField
    <3>3. mulf(1, w[a][X]) = w[a][X] BY <3>2, Ring
    <3> QED BY <2>2, <2>4, <2>6, <3>1, <3>3
  <2> QED BY <2>1, <2>5, <2>6 DEF AddsUp
<1>4. CASE ~IsZero(ns[a]) /\ ~IsZero(ns[b]) /\ ~(ns[a].depth < ns[b].depth) /\ ns[b].depth < ns[a].depth
  <2> DEFINE q == push_node(r1.ns, merge(r1.ns, a, r1.op))
  <2>1. add(ns, a, b) = q BY <1>4, Zenon DEF add
  <2>2. /\ Returns(ns, r1)
        /\ \A w : \A X \in Inputs : Carries(r1.ns, w) => w[r1.op][X] = mulf(1, w[b][X])
    BY LinearCall, TheModulus
  <2> HIDE DEF r1
  <2>3. Ok(r1.ns) /\ r1.op \in Ops(r1.ns) /\ a \in Ops(r1.ns) BY <2>2 DEF Returns, Extends
  <2>4. /\ Returns(r1.ns, q)
        /\ \A w : \A X \in Inputs : Carries(q.ns, w) => w[q.op][X] = addf(w[a][X], w[r1.op][X])
    BY <2>3, MergedNode
  <2> HIDE DEF q
  <2>5. Returns(ns, q) /\ \A w : Carries(q.ns, w) => Carries(r1.ns, w) /\ Carries(ns, w)
    BY <2>2, <2>4, ReturnsTwice
  <2>6. ASSUME NEW w, NEW X \in Inputs, Carries(q.ns, w) PROVE w[q.op][X] = addf(w[a][X], w[b][X])
    <3>1. Carries(r1.ns, w) /\ Carries(ns, w) BY <2>5, <2>6
    <3>2. w[b][X] \in Elt BY <3>1, ValueInField
    <3>3. mulf(1, w[b][X]) = w[b][X] BY <3>2, Ring
    <3> QED BY <2>2, <2>4, <2>6, <3>1, <3>3
  <2> QED BY <2>1, <2>5, <2>6 DEF AddsUp
<1>5. CASE ~IsZero(ns[a]) /\ ~IsZero(ns[b]) /\ ~(ns[a].depth < ns[b].depth) /\ ~(ns[b].depth < ns[a].depth)
  <2> DEFINE q == push_node(ns, merge(ns, a, b))
  <2>1. add(ns, a, b) = q BY <1>5, Zenon DEF add
  <2>2. /\ Returns(ns, q)
        /\ \A w : \A X \in Inputs : Carries(q.ns, w) => w[q.op][X] = addf(w[a][X], w[b][X])
    BY MergedNode
  <2> HIDE DEF q
  <2> QED BY <2>1, <2>2 DEF AddsUp
<1> QED BY <1>1, <1>2, <1>3, <1>4, <1>5, Zenon

(* add after a call that computed the second summand *)
LEMMA AddAfter ==
  ASSUME NEW ns, Ok(ns), NEW a \in Ops(ns), NEW r, Returns(ns, r)
  PROVE  LET q == add(r.ns, a, r.op)
         IN  /\ Returns(ns, q)
             /\ \A w : Carries(q.ns, w) => /\ Carries(r.ns, w) /\ Carries(ns, w)
                                           /\ \A X \in Inputs : w[q.op][X] = addf(w[a][X], w[r.op][X])
<1> DEFINE q == add(r.ns, a, r.op)
<1>1. Ok(r.ns) /\ r.op \in Ops(r.ns) /\ a \in Ops(r.ns) BY DEF Returns, Extends
<1>2. AddsUp(r.ns, q, a, r.op) BY <1>1, AddCall
<1> HIDE DEF q
<1>3. Returns(r.ns, q) BY <1>2 DEF AddsUp
<1>4. Returns(ns, q) /\ \A w : Carries(q.ns, w) => Carries(r.ns, w) /\ Carries(ns, w)
  BY <1>3, ReturnsTwice
<1>5. \A w : Carries(q.ns, w) => /\ Carries(r.ns, w) /\ Carries(ns, w)
                                 /\ \A X \in Inputs : w[q.op][X] = addf(w[a][X], w[r.op][X])
  BY <1>2, <1>4 DEF AddsUp
<1> QED BY <1>4, <1>5 DEF q

(* sub() returns a wire that carries the difference.                       *)
LEMMA SubCall ==
  ASSUME NEW ns, Ok(ns), NEW a \in Ops(ns), NEW b \in Ops(ns)
  PROVE  LET q == sub(ns, a, b)
         IN  /\ Returns(ns, q)
             /\ \A w : \A X \in Inputs : Carries(q.ns, w) => w[q.op][X] = subf(w[a][X], w[b][X])
<1> DEFINE r == mul2(ns, P - 1, b)   q == add(r.ns, a, r.op)
<1>0. P - 1 \in Elt BY TheModulus, SMT DEF Elt
<1>1. sub(ns, a, b) = q BY Zenon DEF sub
<1>2. /\ Returns(ns, r)
      /\ \A w : \A X \in Inputs : Carries(r.ns, w) => w[r.op][X] = mulf(P - 1, w[b][X])
  BY <1>0, Mul2Call
<1> HIDE DEF r
<1>3. /\ Returns(ns, q)
      /\ \A w : Carries(q.ns, w) => /\ Carries(r.ns, w) /\ Carries(ns, w)
                                    /\ \A X \in Inputs : w[q.op][X] = addf(w[a][X], w[r.op][X])
  BY <1>2, AddAfter
<1> HIDE DEF q
<1>4. ASSUME NEW w, NEW X \in Inputs, Carries(q.ns, w) PROVE w[q.op][X] = subf(w[a][X], w[b][X])
  <2>1. Carries(r.ns, w) /\ Carries(ns, w) BY <1>3, <1>4
  <2>2. w[a][X] \in Elt /\ w[b][X] \in Elt BY <2>1, ValueInField
  <2>3. subf(w[a][X], w[b][X]) = addf(w[a][X], mulf(P - 1, w[b][X])) BY <2>2, Difference
  <2> QED BY <1>2, <1>3, <1>4, <2>1, <2>3
<1> QED BY <1>1, <1>3, <1>4

(* axpy() returns a wire that carries y + k x.                             *)
LEMMA AxpyCall ==
  ASSUME NEW ns, Ok(ns), NEW y \in Ops(ns), NEW k \in Elt, NEW x \in Ops(ns)
  PROVE  LET q == axpy(ns, y, k, x)
         IN  /\ Returns(ns, q)
             /\ \A w : \A X \in Inputs : Carries(q.ns, w) => w[q.op][X] = addf(w[y][X], mulf(k, w[x][X]))
<1>1. CASE k = 0
  <2>1. axpy(ns, y, k, x) = [ns |-> ns, op |-> y] BY <1>1, Zenon DEF axpy
  <2>2. ASSUME NEW w, NEW X \in Inputs, Carries(ns, w) PROVE w[y][X] = addf(w[y][X], mulf(0, w[x][X]))
    <3>1. w[y][X] \in Elt /\ w[x][X] \in Elt BY <2>2, ValueInField
    <3>2. mulf(0, w[x][X]) = 0 BY <3>1, TimesZero
    <3>3. addf(0, w[y][X]) = w[y][X] /\ addf(w[y][X], 0) = addf(0, w[y][X]) BY <3>1, Ring, TheModulus
    <3> QED BY <3>2, <3>3
  <2> QED BY <1>1, <2>1, <2>2, NothingNew
<1>2. CASE k # 0
  <2> DEFINE r == linear(ns, k, x)   q == add(r.ns, y, r.op)
  <2>1. axpy(ns, y, k, x) = q BY <1>2, Zenon DEF axpy
  <2>2. /\ Returns(ns, r)
        /\ \A w : \A X \in Inputs : Carries(r.ns, w) => w[r.op][X] = mulf(k, w[x][X])
    BY LinearCall
  <2> HIDE DEF r
  <2>3. /\ Returns(ns, q)
        /\ \A w : Carries(q.ns, w) => /\ Carries(r.ns, w) /\ Carries(ns, w)
                                      /\ \A X \in Inputs : w[q.op][X] = addf(w[y][X], w[r.op][X])
    BY <2>2, AddAfter
  <2> HIDE DEF q
  <2>4. \A w : \A X \in Inputs : Carries(q.ns, w) => w[q.op][X] = addf(w[y][X], mulf(k, w[x][X]))
    BY <2>2, <2>3
  <2> QED BY <2>1, <2>3, <2>4
<1> QED BY <1>1, <1>2

(* apy() returns a wire that carries y + k.                                *)
LEMMA ApyCall ==
  ASSUME NEW ns, Ok(ns), NEW y \in Ops(ns), NEW k \in Elt
  PROVE  LET q == apy(ns, y, k)
         IN  /\ Returns(ns, q)
             /\ \A w : \A X \in Inputs : Carries(q.ns, w) => w[q.op][X] = addf(w[y][X], k)
<1>1. CASE k = 0
  <2>1. apy(ns, y, k) = [ns |-> ns, op |-> y] BY <1>1, Zenon DEF apy
  <2>2. ASSUME NEW w, NEW X \in Inputs, Carries(ns, w) PROVE w[y][X] = addf(w[y][X], 0)
    <3>1. w[y][X] \in Elt BY <2>2, ValueInField
    <3> QED BY <3>1, Ring, TheModulus
  <2> QED BY <1>1, <2>1, <2>2, NothingNew
<1>2. CASE k # 0
  <2> DEFINE r == konst(ns, k)   q == add(r.ns, y, r.op)
  <2>1. apy(ns, y, k) = q BY <1>2, Zenon DEF apy
  <2>2. /\ Returns(ns, r)
        /\ \A w : \A X \in Inputs : Carries(r.ns, w) => w[r.op][X] = k
    BY KonstCall
  <2> HIDE DEF r
  <2>3. /\ Returns(ns, q)
        /\ \A w : Carries(q.ns, w) => /\ Carries(r.ns, w) /\ Carries(ns, w)
                                      /\ \A X \in Inputs : w[q.op][X] = addf(w[y][X], w[r.op][X])
    BY <2>2, AddAfter
  <2> HIDE DEF q
  <2>4. \A w : \A X \in Inputs : Carries(q.ns, w) => w[q.op][X] = addf(w[y][X], k)
    BY <2>2, <2>3
  <2> QED BY <2>1, <2>3, <2>4
<1> QED BY <1>1, <1>2

-----------------------------------------------------------------------------
(* Marks change nothing that a node computes. *)
LEMMA Marked ==
  ASSUME NEW ns, Ok(ns), NEW ms, Ops(ms) = Ops(ns),
         \A i \in Ops(ns) :
           /\ Same(ns[i], ms[i]) /\ ms[i] \in NodeType
           /\ ms[i].is_assert0 => ns[i].terms # <<>> /\ ns[i].terms[1].k = 0
  PROVE  Ok(ms) /\ Extends(ns, ms)
<1>1. Extends(ns, ms) BY DEF Extends
<1>2. Typed(ms)
  <2>1. \A i \in Ops(ns) : ns[i].is_input => ns[i].in_id \in 0..(MaxInputs - 1) /\ ns[i].terms = <<>>
    BY DEF Ok, Typed
  <2>2. /\ IsFiniteSet(Ops(ns)) /\ Ops(ns) = 0..(Cardinality(Ops(ns)) - 1) /\ 0 \in Ops(ns)
        /\ ns[0].is_input /\ ns[0].in_id = 0
    BY DEF Ok, Typed
  <2> QED BY <2>1, <2>2 DEF Typed, Same
<1>3. InOrder(ms)
  <2> SUFFICES ASSUME NEW i \in Ops(ms)
               PROVE /\ \A j \in DOMAIN ms[i].terms :
                          LET t == ms[i].terms[j] IN t.op0 <= t.op1 /\ t.op1 < i /\ ~IsZero(ms[t.op1])
                     /\ \A j \in 1..(Len(ms[i].terms) - 1) : ltndx(ms[i].terms[j], ms[i].terms[j + 1])
                     /\ ms[i].depth = DepthOf(ms, ms[i])
                     /\ ms[i].is_assert0 => ms[i].terms # <<>> /\ ms[i].terms[1].k = 0
    BY Zenon DEF InOrder
  <2>1. i \in Ops(ns) /\ Same(ns[i], ms[i]) OBVIOUS
  <2>2. ms[i].terms = ns[i].terms /\ ms[i].depth = ns[i].depth BY <2>1 DEF Same
  <2>3. /\ DOMAIN ns[i].terms = 1..Len(ns[i].terms)
        /\ \A j \in 1..Len(ns[i].terms) :
             LET t == ns[i].terms[j]
             IN  t.op0 \in Ops(ns) /\ t.op1 \in Ops(ns) /\ t.op0 <= t.op1 /\ t.op1 < i /\ ~IsZero(ns[t.op1])
    BY <2>1, NodeFacts
  <2>4. \A x \in Ops(ns) : ms[x].depth = ns[x].depth /\ (IsZero(ms[x]) <=> IsZero(ns[x]))
    BY DEF Same, IsZero
  <2>5. DepthOf(ns, ns[i]) = DepthOf(ms, ms[i])
    <3>1. \A t \in Seqs!ToSet(ns[i].terms) :
            ms[t.op0].depth = ns[t.op0].depth /\ ms[t.op1].depth = ns[t.op1].depth
      BY <2>3, <2>4 DEF Seqs!ToSet
    <3> QED BY <2>2, <3>1, SameDepth
  <2>6. /\ \A j \in 1..(Len(ns[i].terms) - 1) : ltndx(ns[i].terms[j], ns[i].terms[j + 1])
        /\ ns[i].depth = DepthOf(ns, ns[i])
    BY <2>1, Zenon DEF Ok, InOrder
  <2>7. ms[i].is_assert0 => ns[i].terms # <<>> /\ ns[i].terms[1].k = 0 BY <2>1
  <2> QED BY <2>2, <2>3, <2>4, <2>5, <2>6, <2>7
<1> QED BY <1>1, <1>2, <1>3 DEF Ok

(* What an assertion asserts *)
UnderStep(ns, f, i) ==
  IF IsZero(ns[i]) THEN -1
  ELSE IF ~linearp(ns[i]) THEN i
  ELSE IF ns[i].terms[1].k = 0 THEN -1
  ELSE f[ns[i].terms[1].op1]
Unders(ns, f, n) == f = [i \in 0..n |-> UnderStep(ns, f, i)]

(* The recursive function of assert0 exists.                               *)
LEMMA UnderExists ==
  ASSUME NEW ns, Ok(ns), NEW n \in Ops(ns)
  PROVE  \E f : Unders(ns, f, n)
<1> DEFINE S == {m \in Nat : m <= n => \E f : Unders(ns, f, m)}
<1>0. n \in Nat /\ \A j \in Nat : j <= n => j \in Ops(ns) BY NodeFacts
<1>1. ASSUME NEW m \in Nat, m <= n, NEW f, m # 0 => Unders(ns, f, m - 1)
      PROVE  \E g : Unders(ns, g, m)
  <2> DEFINE g == [i \in 0..m |-> IF i < m THEN f[i] ELSE UnderStep(ns, f, i)]
  <2>1. ASSUME NEW i \in 0..m PROVE g[i] = UnderStep(ns, g, i)
    <3>1. UnderStep(ns, g, i) = UnderStep(ns, f, i)
      <4>1. CASE linearp(ns[i])
        <5>1. i \in Ops(ns) BY <1>0, <1>1
        <5>2. ns[i].terms[1].op1 \in Nat /\ ns[i].terms[1].op1 < i BY <4>1, <5>1, FirstTerm
        <5>3. ns[i].terms[1].op1 \in 0..m /\ ns[i].terms[1].op1 < m BY <5>2
        <5>4. g[ns[i].terms[1].op1] = f[ns[i].terms[1].op1] BY <5>3
        <5> HIDE DEF g
        <5> QED BY <5>4, Zenon DEF UnderStep
      <4>2. CASE ~linearp(ns[i]) BY <4>2, Zenon DEF UnderStep
      <4> QED BY <4>1, <4>2
    <3>2. CASE i < m
      <4>1. i \in 0..(m - 1) /\ m # 0 BY <3>2
      <4>2. f = [j \in 0..(m - 1) |-> UnderStep(ns, f, j)] BY <1>1, <4>1 DEF Unders
      <4>3. f[i] = UnderStep(ns, f, i) BY <4>1, <4>2, Zenon
      <4> QED BY <3>1, <3>2, <4>3, Zenon
    <3>3. CASE ~(i < m) BY <3>1, <3>3, Zenon
    <3> QED BY <3>2, <3>3
  <2>2. g = [i \in 0..m |-> g[i]] BY Zenon
  <2> HIDE DEF g
  <2>3. Unders(ns, g, m) BY <2>1, <2>2, Zenon DEF Unders
  <2> QED BY <2>3
<1>2. 0 \in S BY <1>0, <1>1
<1>3. ASSUME NEW m \in Nat, m \in S PROVE m + 1 \in S
  <2>1. CASE m + 1 <= n
    <3>1. PICK f : Unders(ns, f, m) BY <1>0, <1>3, <2>1
    <3>2. (m + 1) - 1 = m /\ m + 1 \in Nat OBVIOUS
    <3> HIDE DEF S
    <3>3. \E g : Unders(ns, g, m + 1) BY <1>1, <2>1, <3>1, <3>2
    <3> QED BY <3>2, <3>3 DEF S
  <2> QED BY <2>1
<1>4. n \in S
  <2>1. \A m \in Nat : m \in S BY <1>2, <1>3, L!Induction, Zenon
  <2> QED BY <1>0, <2>1
<1> QED BY <1>0, <1>4

(* assert0() leaves the nodes in order, and what they compute unchanged.   *)
LEMMA AssertCall ==
  ASSUME NEW ns, Ok(ns), NEW op \in Ops(ns)
  PROVE  Ok(assert0(ns, op).ns) /\ Extends(ns, assert0(ns, op).ns)
<1> DEFINE f == CHOOSE f : f = [i \in 0..op |->
                  IF IsZero(ns[i]) THEN -1
                  ELSE IF ~linearp(ns[i]) THEN i
                  ELSE IF ns[i].terms[1].k = 0 THEN -1
                  ELSE f[ns[i].terms[1].op1]]
           n == Node(<<Term(0, 0, f[op])>>)
           r == push_node(ns, n)
<1>0. op \in Nat /\ \A j \in Nat : j <= op => j \in Ops(ns) BY NodeFacts
<1>1. assert0(ns, op) = IF f[op] = -1 THEN [ns |-> ns, op |-> op]
                        ELSE [r EXCEPT !.ns[r.op].is_assert0 = TRUE]
  BY Zenon DEF assert0
<1>2. Unders(ns, f, op)
  <2>1. \E ff : Unders(ns, ff, op) BY UnderExists
  <2>2. \E ff : ff = [i \in 0..op |->
                  IF IsZero(ns[i]) THEN -1
                  ELSE IF ~linearp(ns[i]) THEN i
                  ELSE IF ns[i].terms[1].k = 0 THEN -1
                  ELSE ff[ns[i].terms[1].op1]]
    BY <2>1, Zenon DEF Unders, UnderStep
  <2>3. f = [i \in 0..op |->
               IF IsZero(ns[i]) THEN -1
               ELSE IF ~linearp(ns[i]) THEN i
               ELSE IF ns[i].terms[1].k = 0 THEN -1
               ELSE f[ns[i].terms[1].op1]]
    BY <2>2, Zenon
  <2> HIDE DEF f
  <2> QED BY <2>3, Zenon DEF Unders, UnderStep
<1> HIDE DEF f
<1> DEFINE Fit(i) == f[i] = -1 \/ (f[i] \in Ops(ns) /\ ~IsZero(ns[f[i]]))
           S == {m \in Nat : m <= op => \A i \in 0..m : Fit(i)}
<1>3. ASSUME NEW i \in 0..op, \A j \in 0..(i - 1) : Fit(j) PROVE Fit(i)
  <2>1. i \in Ops(ns) /\ f[i] = UnderStep(ns, f, i) BY <1>0, <1>2 DEF Unders
  <2>2. CASE IsZero(ns[i]) BY <2>1, <2>2 DEF UnderStep
  <2>3. CASE ~IsZero(ns[i]) /\ ~linearp(ns[i])
    <3>1. f[i] = i BY <2>1, <2>3, Zenon DEF UnderStep
    <3> QED BY <2>1, <2>3, <3>1
  <2>4. CASE ~IsZero(ns[i]) /\ linearp(ns[i])
    <3>1. ns[i].terms[1].op1 \in 0..(i - 1)
      <4>1. ns[i].terms[1].op1 \in Nat /\ ns[i].terms[1].op1 < i BY <2>1, <2>4, FirstTerm
      <4> QED BY <4>1
    <3>2. Fit(ns[i].terms[1].op1) BY <1>3, <3>1
    <3>3. f[i] = -1 \/ f[i] = f[ns[i].terms[1].op1] BY <2>1, <2>4, Zenon DEF UnderStep
    <3> QED BY <3>2, <3>3
  <2> QED BY <2>2, <2>3, <2>4
<1>4. 0 \in S
  <2>1. \A i \in 0..0 : i = 0 /\ i \in 0..op BY <1>0
  <2>2. \A j \in 0..(0 - 1) : FALSE OBVIOUS
  <2> HIDE DEF Fit
  <2> QED BY <1>3, <2>1, <2>2
<1>5. ASSUME NEW m \in Nat, m \in S PROVE m + 1 \in S
  <2> HIDE DEF Fit
  <2>1. CASE m + 1 <= op
    <3>1. \A i \in 0..m : Fit(i) BY <1>0, <1>5, <2>1
    <3>2. m + 1 \in 0..op /\ (m + 1) - 1 = m BY <1>0, <2>1
    <3>3. Fit(m + 1) BY <1>3, <3>1, <3>2
    <3>4. \A i \in 0..(m + 1) : i \in 0..m \/ i = m + 1 OBVIOUS
    <3>5. \A i \in 0..(m + 1) : Fit(i) BY <3>1, <3>3, <3>4
    <3> QED BY <3>5
  <2> QED BY <2>1
<1>6. Fit(op)
  <2>1. \A m \in Nat : m \in S
    <3> HIDE DEF S
    <3> QED BY <1>4, <1>5, L!Induction, Zenon
  <2> QED BY <1>0, <2>1
<1>7. CASE f[op] = -1
  <2>1. assert0(ns, op).ns = ns BY <1>1, <1>7
  <2> QED BY <2>1, NothingNew DEF Returns
<1>8. CASE f[op] # -1
  <2>1. f[op] \in Ops(ns) /\ ~IsZero(ns[f[op]]) BY <1>6, <1>8
  <2>2. 0 \in Ops(ns) /\ ~IsZero(ns[0]) /\ 0 \in Elt BY WireOfOne, TheModulus
  <2>3. NodeOk(ns, n) /\ n.terms = <<Term(0, 0, f[op])>>
    <3>1. NodeOk(ns, n) BY <2>1, <2>2, OneNode
    <3> QED BY <3>1 DEF Node
  <2> HIDE DEF n
  <2>4. Returns(ns, r) /\ r.ns[r.op].terms = n.terms BY <2>3, PushNode
  <2>5. r.ns[r.op].terms # <<>> /\ r.ns[r.op].terms[1].k = 0 BY <2>3, <2>4 DEF Term
  <2>6. r = [ns |-> r.ns, op |-> r.op] BY DEF push_node
  <2> DEFINE ms == [r.ns EXCEPT ![r.op].is_assert0 = TRUE]
  <2>7. assert0(ns, op).ns = ms
    <3> HIDE DEF r
    <3> QED BY <1>1, <1>8, <2>6
  <2> HIDE DEF r
  <2>8. Ok(r.ns) /\ r.op \in Ops(r.ns) /\ Extends(ns, r.ns) BY <2>4 DEF Returns
  <2>9. Ops(ms) = Ops(r.ns) BY Zenon DEF Ops
  <2>10. ASSUME NEW i \in Ops(r.ns)
         PROVE  /\ Same(r.ns[i], ms[i]) /\ ms[i] \in NodeType
                /\ ms[i].is_assert0 => r.ns[i].terms # <<>> /\ r.ns[i].terms[1].k = 0
    <3>1. NodeOk(r.ns, r.ns[i]) BY <2>8, NodesAreOk
    <3>2. r.ns[i] \in NodeType BY <3>1 DEF NodeOk
    <3>3. CASE i = r.op
      <4>1. ms[i] = [r.ns[i] EXCEPT !.is_assert0 = TRUE] BY <3>3 DEF Ops
      <4> HIDE DEF ms
      <4>2. ms[i] \in NodeType /\ Same(r.ns[i], ms[i]) BY <3>2, <4>1 DEF NodeType, Same
      <4> QED BY <2>5, <3>3, <4>2
    <3>4. CASE i # r.op
      <4>1. ms[i] = r.ns[i] BY <3>4 DEF Ops
      <4> HIDE DEF ms
      <4> QED BY <3>1, <4>1 DEF NodeOk, Same
    <3> QED BY <3>3, <3>4
  <2> HIDE DEF ms
  <2>11. Ok(ms) /\ Extends(r.ns, ms) BY <2>8, <2>9, <2>10, Marked
  <2> QED BY <2>7, <2>8, <2>11, ExtendsTwice
<1> QED BY <1>7, <1>8

-----------------------------------------------------------------------------
(* The values of new nodes *)
LEMMA SameNodeValue ==
  ASSUME NEW n, n.terms \in Seq(TermType), NEW v, NEW w,
         \A j \in 1..Len(n.terms) : v[n.terms[j].op0] = w[n.terms[j].op0] /\ v[n.terms[j].op1] = w[n.terms[j].op1]
  PROVE  NodeValue(n, v) = NodeValue(n, w)
<1> DEFINE ts == n.terms
<1>1. \A X \in Inputs : Meaning(ts, v, X) = Meaning(ts, w, X) BY SameMeaning
<1>2. NodeValue(n, v) = [X \in Inputs |-> IF n.is_input THEN X[n.in_id] ELSE Meaning(ts, v, X)]
  BY Zenon DEF NodeValue, Meaning
<1>3. NodeValue(n, w) = [X \in Inputs |-> IF n.is_input THEN X[n.in_id] ELSE Meaning(ts, w, X)]
  BY Zenon DEF NodeValue, Meaning
<1> QED BY <1>1, <1>2, <1>3, Zenon

NewStep(ns, val, v, i) == IF i \in DOMAIN val THEN val[i] ELSE NodeValue(ns[i], v)

(* and so on earlier nodes only.                                           *)
LEMMA NewStepOfEarlier ==
  ASSUME NEW ns, Ok(ns), NEW val, NEW i \in Ops(ns), NEW v, NEW w,
         \A j \in 0..(i - 1) : v[j] = w[j]
  PROVE  NewStep(ns, val, v, i) = NewStep(ns, val, w, i)
<1>1. ns[i].terms \in Seq(TermType) BY NodeFacts
<1>2. ASSUME NEW j \in 1..Len(ns[i].terms)
      PROVE  v[ns[i].terms[j].op0] = w[ns[i].terms[j].op0] /\ v[ns[i].terms[j].op1] = w[ns[i].terms[j].op1]
  <2> DEFINE t == ns[i].terms[j]
  <2>1. t.op0 \in Ops(ns) /\ t.op1 \in Ops(ns) /\ t.op0 <= t.op1 /\ t.op1 < i BY NodeFacts
  <2>2. i \in Nat /\ t.op0 \in Nat /\ t.op1 \in Nat BY <2>1, NodeFacts
  <2>3. t.op0 \in 0..(i - 1) /\ t.op1 \in 0..(i - 1) BY <2>1, <2>2, SMT
  <2> QED BY <2>3
<1>3. NodeValue(ns[i], v) = NodeValue(ns[i], w) BY <1>1, <1>2, SameNodeValue
<1> QED BY <1>3, Zenon DEF NewStep

(* The recursive function of WithNew exists.                               *)
LEMMA NewExists ==
  ASSUME NEW ns, Ok(ns), NEW val
  PROVE  \E v : v = [i \in Ops(ns) |-> NewStep(ns, val, v, i)]
<1> DEFINE S == {m \in Nat : m <= Size(ns) => \E v : v = [i \in 0..(m - 1) |-> NewStep(ns, val, v, i)]}
<1>0. Size(ns) \in Nat /\ Ops(ns) = 0..(Size(ns) - 1) BY Numbered DEF Ok
<1>1. 0 \in S
  <2> DEFINE v == [i \in {} |-> 0]
  <2>1. 0..(0 - 1) = {} OBVIOUS
  <2>2. v = [i \in {} |-> NewStep(ns, val, v, i)] BY Zenon
  <2> QED BY <2>1, <2>2
<1>2. ASSUME NEW m \in Nat, m \in S PROVE m + 1 \in S
  <2>1. CASE m + 1 <= Size(ns)
    <3>1. PICK v : v = [i \in 0..(m - 1) |-> NewStep(ns, val, v, i)] BY <1>0, <1>2, <2>1
    <3> DEFINE g == [i \in 0..m |-> IF i < m THEN v[i] ELSE NewStep(ns, val, v, i)]
    <3>2. ASSUME NEW i \in 0..m PROVE g[i] = NewStep(ns, val, g, i)
      <4>1. i \in Ops(ns) BY <1>0, <2>1
      <4>2. \A j \in 0..(i - 1) : g[j] = v[j] OBVIOUS
      <4>3. NewStep(ns, val, g, i) = NewStep(ns, val, v, i)
        <5> HIDE DEF g
        <5> QED BY <4>1, <4>2, NewStepOfEarlier
      <4>4. CASE i < m
        <5>1. i \in 0..(m - 1) BY <4>4
        <5>2. v[i] = NewStep(ns, val, v, i) BY <3>1, <5>1, Zenon
        <5> QED BY <4>3, <4>4, <5>2, Zenon
      <4>5. CASE ~(i < m) BY <4>3, <4>5, Zenon
      <4> QED BY <4>4, <4>5
    <3>3. g = [i \in 0..m |-> g[i]] BY Zenon
    <3> HIDE DEF g
    <3>4. g = [i \in 0..m |-> NewStep(ns, val, g, i)] BY <3>2, <3>3, Zenon
    <3>5. (m + 1) - 1 = m /\ m + 1 \in Nat OBVIOUS
    <3> QED BY <3>4, <3>5
  <2> QED BY <2>1
<1>3. Size(ns) \in S
  <2>1. \A m \in Nat : m \in S
    <3> HIDE DEF S
    <3> QED BY <1>1, <1>2, L!Induction, Zenon
  <2> QED BY <1>0, <2>1
<1> QED BY <1>0, <1>3

(* a part of the values that is right as far as it goes *)
Partly(ns, val) ==
  \A i \in DOMAIN val :
    /\ i \in Ops(ns) /\ val[i] \in [Inputs -> Elt] /\ val[i] = NodeValue(ns[i], val)
    /\ \A j \in 0..i : j \in DOMAIN val

(* WithNew gives every node the value it computes and keeps those there    *)
(* were.                                                                   *)
LEMMA NewValues ==
  ASSUME NEW ns, Ok(ns), NEW val, Partly(ns, val)
  PROVE  LET w == WithNew(ns, val)
         IN  Carries(ns, w) /\ DOMAIN w = Ops(ns) /\ \A i \in DOMAIN val : w[i] = val[i]
<1> DEFINE w == CHOOSE v : v = [i \in Ops(ns) |-> IF i \in DOMAIN val THEN val[i] ELSE NodeValue(ns[i], v)]
<1>1. WithNew(ns, val) = w BY Zenon DEF WithNew
<1>2. w = [i \in Ops(ns) |-> NewStep(ns, val, w, i)]
  <2>1. \E v : v = [i \in Ops(ns) |-> NewStep(ns, val, v, i)] BY NewExists
  <2>2. \E v : v = [i \in Ops(ns) |-> IF i \in DOMAIN val THEN val[i] ELSE NodeValue(ns[i], v)]
    BY <2>1, Zenon DEF NewStep
  <2>3. w = [i \in Ops(ns) |-> IF i \in DOMAIN val THEN val[i] ELSE NodeValue(ns[i], w)]
    BY <2>2, Zenon
  <2> HIDE DEF w
  <2> QED BY <2>3, Zenon DEF NewStep
<1> HIDE DEF w
<1>3. DOMAIN w = Ops(ns) BY <1>2, Zenon
<1>4. ASSUME NEW i \in DOMAIN val PROVE w[i] = val[i] /\ i \in Ops(ns)
  <2>1. i \in Ops(ns) BY DEF Partly
  <2>2. w[i] = NewStep(ns, val, w, i) BY <1>2, <2>1, Zenon
  <2> QED BY <2>1, <2>2, Zenon DEF NewStep
<1>5. ASSUME NEW i \in Ops(ns) PROVE w[i] = NodeValue(ns[i], w)
  <2>1. w[i] = NewStep(ns, val, w, i) BY <1>2, Zenon
  <2>2. CASE i \in DOMAIN val
    <3>1. val[i] = NodeValue(ns[i], val) BY <2>2 DEF Partly
    <3>2. ns[i].terms \in Seq(TermType) BY NodeFacts
    <3>3. ASSUME NEW j \in 1..Len(ns[i].terms)
          PROVE  val[ns[i].terms[j].op0] = w[ns[i].terms[j].op0] /\ val[ns[i].terms[j].op1] = w[ns[i].terms[j].op1]
      <4> DEFINE t == ns[i].terms[j]
      <4>1. t.op0 \in Ops(ns) /\ t.op1 \in Ops(ns) /\ t.op0 <= t.op1 /\ t.op1 < i BY NodeFacts
      <4>2. i \in Nat /\ t.op0 \in Nat /\ t.op1 \in Nat BY <4>1, NodeFacts
      <4>3. t.op0 \in 0..i /\ t.op1 \in 0..i BY <4>1, <4>2, SMT
      <4>4. t.op0 \in DOMAIN val /\ t.op1 \in DOMAIN val BY <2>2, <4>3 DEF Partly
      <4> QED BY <1>4, <4>4
    <3>4. NodeValue(ns[i], val) = NodeValue(ns[i], w) BY <3>2, <3>3, SameNodeValue
    <3> QED BY <1>4, <2>2, <3>1, <3>4
  <2>3. CASE i \notin DOMAIN val BY <2>1, <2>3, Zenon DEF NewStep
  <2> QED BY <2>2, <2>3
<1> DEFINE InField(i) == w[i] \in [Inputs -> Elt]
           S == {m \in Nat : m < Size(ns) => \A i \in 0..m : InField(i)}
<1>6. ASSUME NEW i \in Ops(ns), \A j \in 0..(i - 1) : InField(j) PROVE InField(i)
  <2>1. ASSUME NEW X \in Inputs PROVE NodeValue(ns[i], w)[X] \in Elt
    <3>1. CASE ns[i].is_input
      <4>1. ns[i].in_id \in 0..(MaxInputs - 1) BY <3>1 DEF Ok, Typed
      <4>2. X[ns[i].in_id] \in Elt BY <4>1, InputsAreInField
      <4>3. NodeValue(ns[i], w)[X] = X[ns[i].in_id] BY <3>1, ValueOfNode
      <4> QED BY <4>2, <4>3
    <3>2. CASE ~ns[i].is_input
      <4> DEFINE ts == ns[i].terms   g == [j \in 1..Len(ts) |-> TermValue(ts[j], w, X)]
      <4>1. ts \in Seq(TermType) /\ Len(ts) \in Nat BY NodeFacts
      <4>2. ASSUME NEW j \in 1..Len(ts) PROVE g[j] \in Elt
        <5> DEFINE t == ts[j]
        <5>1. t.k \in Elt /\ t.op0 \in Ops(ns) /\ t.op1 \in Ops(ns) /\ t.op0 <= t.op1 /\ t.op1 < i BY NodeFacts
        <5>2. i \in Nat /\ t.op0 \in Nat /\ t.op1 \in Nat BY <5>1, NodeFacts
        <5>3. t.op0 \in 0..(i - 1) /\ t.op1 \in 0..(i - 1) BY <5>1, <5>2, SMT
        <5>4. w[t.op0][X] \in Elt /\ w[t.op1][X] \in Elt BY <1>6, <5>3
        <5>5. TermValue(t, w, X) \in Elt BY <5>1, <5>4, ClosedField DEF TermValue
        <5> QED BY <5>5
      <4>3. Meaning(ts, w, X) = Partial(g, Len(ts)) BY <4>1, MeaningIsPartial
      <4>4. NodeValue(ns[i], w)[X] = Meaning(ts, w, X) BY <3>2, ValueOfNode
      <4> HIDE DEF ts, g
      <4> QED BY <4>1, <4>2, <4>3, <4>4, PartialInField
    <3> QED BY <3>1, <3>2
  <2>2. NodeValue(ns[i], w) = [X \in Inputs |-> NodeValue(ns[i], w)[X]] BY Zenon DEF NodeValue
  <2>3. NodeValue(ns[i], w) \in [Inputs -> Elt] BY <2>1, <2>2
  <2> QED BY <1>5, <2>3
<1> HIDE DEF InField
<1>7. Size(ns) \in Nat /\ Ops(ns) = 0..(Size(ns) - 1) BY Numbered DEF Ok
<1>8. 0 \in S
  <2>1. \A i \in 0..0 : i = 0 OBVIOUS
  <2>2. \A j \in 0..(0 - 1) : FALSE OBVIOUS
  <2>3. 0 \in Ops(ns) BY DEF Ok, Typed
  <2> QED BY <1>6, <2>1, <2>2, <2>3
<1>9. ASSUME NEW m \in Nat, m \in S PROVE m + 1 \in S
  <2>1. CASE m + 1 < Size(ns)
    <3>1. \A i \in 0..m : InField(i) BY <1>7, <1>9, <2>1
    <3>2. m + 1 \in Ops(ns) /\ (m + 1) - 1 = m BY <1>7, <2>1
    <3>3. InField(m + 1) BY <1>6, <3>1, <3>2
    <3>4. \A i \in 0..(m + 1) : i \in 0..m \/ i = m + 1 OBVIOUS
    <3>5. \A i \in 0..(m + 1) : InField(i) BY <3>1, <3>3, <3>4
    <3> QED BY <3>5
  <2> QED BY <2>1
<1>10. ASSUME NEW i \in Ops(ns) PROVE InField(i)
  <2>1. \A m \in Nat : m \in S
    <3> HIDE DEF S
    <3> QED BY <1>8, <1>9, L!Induction, Zenon
  <2>2. i \in Nat /\ i < Size(ns) /\ i \in 0..i BY <1>7
  <2> QED BY <2>1, <2>2
<1>11. Carries(ns, w) BY <1>5, <1>10 DEF Carries, InField
<1> QED BY <1>1, <1>3, <1>4, <1>11

(* Nodes that differ in their marks carry the same values.                 *)
LEMMA OtherMarks ==
  ASSUME NEW ns, NEW ms, Extends(ns, ms), Ops(ms) = Ops(ns), NEW w, Carries(ns, w)
  PROVE  Carries(ms, w)
<1> SUFFICES ASSUME NEW i \in Ops(ms) PROVE w[i] \in [Inputs -> Elt] /\ w[i] = NodeValue(ms[i], w)
  BY DEF Carries
<1>1. i \in Ops(ns) /\ Same(ns[i], ms[i]) BY DEF Extends
<1>2. NodeValue(ns[i], w) = NodeValue(ms[i], w) BY <1>1, Zenon DEF Same, NodeValue
<1> QED BY <1>1, <1>2 DEF Carries

(* After a call, old wires carry what they did, new ones what they say. *)
LEMMA AfterCall ==
  ASSUME NEW ns, Ok(ns), NEW val, Carries(ns, val), DOMAIN val = Ops(ns),
         NEW ms, Ok(ms), Extends(ns, ms)
  PROVE  /\ Carries(ms, WithNew(ms, val)) /\ DOMAIN WithNew(ms, val) = Ops(ms)
         /\ \A i \in Ops(ns) : WithNew(ms, val)[i] = val[i]
<1>1. ASSUME NEW i \in Ops(ns)
      PROVE  /\ i \in Ops(ms) /\ val[i] \in [Inputs -> Elt] /\ val[i] = NodeValue(ms[i], val)
             /\ \A j \in 0..i : j \in Ops(ns)
  <2>1. i \in Ops(ms) /\ Same(ns[i], ms[i]) BY DEF Extends
  <2>2. NodeValue(ns[i], val) = NodeValue(ms[i], val) BY <2>1, Zenon DEF Same, NodeValue
  <2>3. \A j \in 0..i : j \in Ops(ns) BY NodeFacts
  <2> QED BY <2>1, <2>2, <2>3 DEF Carries
<1>2. Partly(ms, val) BY <1>1 DEF Partly
<1> QED BY <1>2, NewValues

-----------------------------------------------------------------------------
(* The inductive invariant: the nodes are of their types and in order, the *)
(* first of them carries 1, and value is what the nodes compute.           *)
CompilerInvariant ==
  /\ Ok(nodes) /\ Carries(nodes, value) /\ DOMAIN value = Ops(nodes)
  /\ ninput \in Nat /\ noutput \in Int /\ sound = TRUE

(* What a program begins with satisfies the invariant.                     *)
LEMMA InitIsSound == Init => CompilerInvariant
<1> SUFFICES ASSUME Init PROVE CompilerInvariant OBVIOUS
<1>1. Ok(nodes) BY StartsAssumption DEF Init, Ok
<1>2. Carries(nodes, value) /\ DOMAIN value = Ops(nodes)
  <2> DEFINE none == [i \in {} |-> 0]
  <2>1. Partly(nodes, none) BY DEF Partly
  <2>2. value = WithNew(nodes, none) BY DEF Init
  <2> HIDE DEF none
  <2> QED BY <1>1, <2>1, <2>2, NewValues
<1>3. ninput \in Nat
  <2> DEFINE S == {i \in Ops(nodes) : nodes[i].is_input}
  <2>1. IsFiniteSet(Ops(nodes)) BY <1>1 DEF Ok, Typed
  <2>2. IsFiniteSet(S)
    <3>1. S \in SUBSET Ops(nodes) OBVIOUS
    <3> HIDE DEF S
    <3> QED BY <2>1, <3>1, FS_Subset, Zenon
  <2>3. Cardinality(S) \in Nat
    <3> HIDE DEF S
    <3> QED BY <2>2, FS_CardinalityType, Zenon
  <2>4. ninput = Cardinality(S) BY DEF Init
  <2> QED BY <2>3, <2>4
<1>4. noutput = 0 /\ sound = TRUE BY DEF Init
<1> QED BY <1>1, <1>2, <1>3, <1>4 DEF CompilerInvariant

(* A call that returns a wire with the meaning it should have *)
LEMMA CallIsSound ==
  ASSUME CompilerInvariant, NEW STATE r, Returns(nodes, r),
         nodes' = r.ns, value' = WithNew(r.ns, value), ninput' \in Nat, noutput' \in Int,
         NEW STATE F, \A w : \A X \in Inputs :
                  Carries(r.ns, w) /\ (\A i \in Ops(nodes) : w[i] = value[i]) => w[r.op][X] = F[X],
         sound' = (sound /\ \A X \in Inputs : value'[r.op][X] = F[X])
  PROVE  CompilerInvariant'
<1>1. /\ Ok(nodes) /\ Carries(nodes, value) /\ DOMAIN value = Ops(nodes) /\ sound = TRUE
      /\ Ok(r.ns) /\ Extends(nodes, r.ns)
  BY DEF CompilerInvariant, Returns
<1>2. /\ Carries(r.ns, value') /\ DOMAIN value' = Ops(r.ns)
      /\ \A i \in Ops(nodes) : value'[i] = value[i]
  BY <1>1, AfterCall
<1>3. \A X \in Inputs : value'[r.op][X] = F[X] BY <1>2
<1>4. sound' = TRUE BY <1>1, <1>3
<1> QED BY <1>1, <1>2, <1>4 DEF CompilerInvariant

(* Every step keeps the invariant.                                         *)
LEMMA NextIsSound == CompilerInvariant /\ [Next]_vars => CompilerInvariant'
<1> SUFFICES ASSUME CompilerInvariant, [Next]_vars PROVE CompilerInvariant' OBVIOUS
<1>0. /\ Ok(nodes) /\ Carries(nodes, value) /\ DOMAIN value = Ops(nodes)
      /\ ninput \in Nat /\ noutput \in Int /\ sound = TRUE
  BY DEF CompilerInvariant
<1>k. \A k \in Coefs : k \in Elt BY CoefsAssumption
<1>1. ASSUME NEW a \in Ops(nodes), NEW b \in Ops(nodes), Add(a, b) PROVE CompilerInvariant'
  <2> DEFINE r == add(nodes, a, b)   F == [X \in Inputs |-> addf(value[a][X], value[b][X])]
  <2>1. AddsUp(nodes, r, a, b) BY <1>0, AddCall
  <2>2. /\ nodes' = r.ns /\ value' = WithNew(r.ns, value) /\ ninput' = ninput /\ noutput' = noutput
        /\ sound' = (sound /\ \A X \in Inputs : value'[r.op][X] = F[X])
    BY <1>1 DEF Add, Returned, quiet, Val
  <2> HIDE DEF r
  <2>3. Returns(nodes, r) BY <2>1 DEF AddsUp
  <2>4. \A w : \A X \in Inputs :
          Carries(r.ns, w) /\ (\A i \in Ops(nodes) : w[i] = value[i]) => w[r.op][X] = F[X]
    BY <2>1 DEF AddsUp
  <2> HIDE DEF F
  <2> QED BY <1>0, <2>2, <2>3, <2>4, CallIsSound
<1>2. ASSUME NEW a \in Ops(nodes), NEW b \in Ops(nodes), Sub(a, b) PROVE CompilerInvariant'
  <2> DEFINE r == sub(nodes, a, b)   F == [X \in Inputs |-> subf(value[a][X], value[b][X])]
  <2>1. /\ Returns(nodes, r)
        /\ \A w : \A X \in Inputs : Carries(r.ns, w) => w[r.op][X] = subf(w[a][X], w[b][X])
    BY <1>0, SubCall
  <2>2. /\ nodes' = r.ns /\ value' = WithNew(r.ns, value) /\ ninput' = ninput /\ noutput' = noutput
        /\ sound' = (sound /\ \A X \in Inputs : value'[r.op][X] = F[X])
    BY <1>2 DEF Sub, Returned, quiet, Val
  <2> HIDE DEF r
  <2>4. \A w : \A X \in Inputs :
          Carries(r.ns, w) /\ (\A i \in Ops(nodes) : w[i] = value[i]) => w[r.op][X] = F[X]
    BY <2>1
  <2> HIDE DEF F
  <2> QED BY <1>0, <2>1, <2>2, <2>4, CallIsSound
<1>3. ASSUME NEW a \in Ops(nodes), NEW b \in Ops(nodes), NEW k \in Coefs, Mul3(k, a, b)
      PROVE  CompilerInvariant'
  <2> DEFINE r == mul3(nodes, k, a, b)
             F == [X \in Inputs |-> mulf(k, mulf(value[a][X], value[b][X]))]
  <2>1. /\ Returns(nodes, r)
        /\ \A w : \A X \in Inputs : Carries(r.ns, w) => w[r.op][X] = mulf(k, mulf(w[a][X], w[b][X]))
    BY <1>0, <1>k, Mul3Call
  <2>2. /\ nodes' = r.ns /\ value' = WithNew(r.ns, value) /\ ninput' = ninput /\ noutput' = noutput
        /\ sound' = (sound /\ \A X \in Inputs : value'[r.op][X] = F[X])
    BY <1>3 DEF Mul3, Returned, quiet, Val
  <2> HIDE DEF r
  <2>4. \A w : \A X \in Inputs :
          Carries(r.ns, w) /\ (\A i \in Ops(nodes) : w[i] = value[i]) => w[r.op][X] = F[X]
    BY <2>1
  <2> HIDE DEF F
  <2> QED BY <1>0, <2>1, <2>2, <2>4, CallIsSound
<1>4. ASSUME NEW a \in Ops(nodes), NEW b \in Ops(nodes), NEW k \in Coefs, Axpy(a, k, b)
      PROVE  CompilerInvariant'
  <2> DEFINE r == axpy(nodes, a, k, b)
             F == [X \in Inputs |-> addf(value[a][X], mulf(k, value[b][X]))]
  <2>1. /\ Returns(nodes, r)
        /\ \A w : \A X \in Inputs : Carries(r.ns, w) => w[r.op][X] = addf(w[a][X], mulf(k, w[b][X]))
    BY <1>0, <1>k, AxpyCall
  <2>2. /\ nodes' = r.ns /\ value' = WithNew(r.ns, value) /\ ninput' = ninput /\ noutput' = noutput
        /\ sound' = (sound /\ \A X \in Inputs : value'[r.op][X] = F[X])
    BY <1>4 DEF Axpy, Returned, quiet, Val
  <2> HIDE DEF r
  <2>4. \A w : \A X \in Inputs :
          Carries(r.ns, w) /\ (\A i \in Ops(nodes) : w[i] = value[i]) => w[r.op][X] = F[X]
    BY <2>1
  <2> HIDE DEF F
  <2> QED BY <1>0, <2>1, <2>2, <2>4, CallIsSound
<1>5. ASSUME NEW a \in Ops(nodes), Assert0(a) PROVE CompilerInvariant'
  <2> DEFINE r == assert0(nodes, a)
  <2>1. Ok(r.ns) /\ Extends(nodes, r.ns) BY <1>0, AssertCall
  <2>2. /\ nodes' = r.ns /\ value' = WithNew(r.ns, value) /\ ninput' = ninput /\ noutput' = noutput
        /\ sound' = sound
    BY <1>5 DEF Assert0
  <2> HIDE DEF r
  <2>3. Carries(r.ns, value') /\ DOMAIN value' = Ops(r.ns) BY <1>0, <2>1, <2>2, AfterCall
  <2> QED BY <1>0, <2>1, <2>2, <2>3 DEF CompilerInvariant
<1>6. ASSUME NEW a \in Ops(nodes), OutputWire(a) PROVE CompilerInvariant'
  <2> DEFINE ms == output_internal(nodes, a, noutput)
  <2>1. nodes' = ms /\ value' = value /\ ninput' = ninput /\ noutput' = noutput + 1 /\ sound' = sound
    BY <1>6 DEF OutputWire
  <2>2. Ops(ms) = Ops(nodes) BY Zenon DEF output_internal, Ops
  <2>3. ASSUME NEW i \in Ops(nodes)
        PROVE  /\ Same(nodes[i], ms[i]) /\ ms[i] \in NodeType
               /\ ms[i].is_assert0 => nodes[i].terms # <<>> /\ nodes[i].terms[1].k = 0
    <3>1. NodeOk(nodes, nodes[i]) BY <1>0, NodesAreOk
    <3>2. nodes[i] \in NodeType BY <3>1 DEF NodeOk
    <3>3. CASE i = a
      <4>1. ms[i] = [nodes[i] EXCEPT !.is_output = TRUE, !.out_id = noutput]
        BY <3>3 DEF output_internal, Ops
      <4> HIDE DEF ms
      <4>2. ms[i] \in NodeType /\ Same(nodes[i], ms[i]) /\ ms[i].is_assert0 = nodes[i].is_assert0
        BY <1>0, <3>2, <4>1 DEF NodeType, Same
      <4> QED BY <3>1, <4>2 DEF NodeOk
    <3>4. CASE i # a
      <4>1. ms[i] = nodes[i] BY <3>4 DEF output_internal, Ops
      <4> HIDE DEF ms
      <4> QED BY <3>1, <4>1 DEF NodeOk, Same
    <3> QED BY <3>3, <3>4
  <2> HIDE DEF ms
  <2>4. Ok(ms) /\ Extends(nodes, ms) BY <1>0, <2>2, <2>3, Marked
  <2>5. Carries(ms, value) BY <1>0, <2>2, <2>4, OtherMarks
  <2> QED BY <1>0, <2>1, <2>2, <2>4, <2>5 DEF CompilerInvariant
<1>7. ASSUME NEW a \in Ops(nodes), NEW k \in Coefs, Mul(k, a) PROVE CompilerInvariant'
  <2> DEFINE r == mul2(nodes, k, a)   F == [X \in Inputs |-> mulf(k, value[a][X])]
  <2>1. /\ Returns(nodes, r)
        /\ \A w : \A X \in Inputs : Carries(r.ns, w) => w[r.op][X] = mulf(k, w[a][X])
    BY <1>0, <1>k, Mul2Call
  <2>2. /\ nodes' = r.ns /\ value' = WithNew(r.ns, value) /\ ninput' = ninput /\ noutput' = noutput
        /\ sound' = (sound /\ \A X \in Inputs : value'[r.op][X] = F[X])
    BY <1>7 DEF Mul, Returned, quiet, Val
  <2> HIDE DEF r
  <2>4. \A w : \A X \in Inputs :
          Carries(r.ns, w) /\ (\A i \in Ops(nodes) : w[i] = value[i]) => w[r.op][X] = F[X]
    BY <2>1
  <2> HIDE DEF F
  <2> QED BY <1>0, <2>1, <2>2, <2>4, CallIsSound
<1>8. ASSUME NEW a \in Ops(nodes), NEW k \in Coefs, Apy(a, k) PROVE CompilerInvariant'
  <2> DEFINE r == apy(nodes, a, k)   F == [X \in Inputs |-> addf(value[a][X], k)]
  <2>1. /\ Returns(nodes, r)
        /\ \A w : \A X \in Inputs : Carries(r.ns, w) => w[r.op][X] = addf(w[a][X], k)
    BY <1>0, <1>k, ApyCall
  <2>2. /\ nodes' = r.ns /\ value' = WithNew(r.ns, value) /\ ninput' = ninput /\ noutput' = noutput
        /\ sound' = (sound /\ \A X \in Inputs : value'[r.op][X] = F[X])
    BY <1>8 DEF Apy, Returned, quiet, Val
  <2> HIDE DEF r
  <2>4. \A w : \A X \in Inputs :
          Carries(r.ns, w) /\ (\A i \in Ops(nodes) : w[i] = value[i]) => w[r.op][X] = F[X]
    BY <2>1
  <2> HIDE DEF F
  <2> QED BY <1>0, <2>1, <2>2, <2>4, CallIsSound
<1>9. ASSUME NEW k \in Coefs, Konst(k) PROVE CompilerInvariant'
  <2> DEFINE r == konst(nodes, k)   F == [X \in Inputs |-> k]
  <2>1. /\ Returns(nodes, r)
        /\ \A w : \A X \in Inputs : Carries(r.ns, w) => w[r.op][X] = k
    BY <1>0, <1>k, KonstCall
  <2>2. /\ nodes' = r.ns /\ value' = WithNew(r.ns, value) /\ ninput' = ninput /\ noutput' = noutput
        /\ sound' = (sound /\ \A X \in Inputs : value'[r.op][X] = F[X])
    BY <1>9 DEF Konst, Returned, quiet, Val
  <2> HIDE DEF r
  <2>4. \A w : \A X \in Inputs :
          Carries(r.ns, w) /\ (\A i \in Ops(nodes) : w[i] = value[i]) => w[r.op][X] = F[X]
    BY <2>1
  <2> HIDE DEF F
  <2> QED BY <1>0, <2>1, <2>2, <2>4, CallIsSound
<1>10. CASE InputWire
  <2> DEFINE n == InputNode(ninput)   r == push_node(nodes, n)   F == [X \in Inputs |-> X[ninput]]
  <2>1. /\ n \in NodeType /\ n.terms = <<>> /\ n.is_input = TRUE /\ n.in_id = ninput
        /\ n.is_assert0 = FALSE /\ ninput \in 0..(MaxInputs - 1)
    <3>1. <<>> \in Seq(TermType) OBVIOUS
    <3> DEFINE m == Node(<<>>)
    <3>2. m \in NodeType /\ m.terms = <<>> /\ m.is_input = FALSE /\ m.is_assert0 = FALSE BY <3>1, ANode
    <3>3. n = [m EXCEPT !.is_input = TRUE, !.in_id = ninput] BY DEF InputNode
    <3>4. ninput \in 0..(MaxInputs - 1)
      <4>1. ninput < MaxInputs /\ MaxInputs \in Nat BY <1>10, MaxInputsAssumption DEF InputWire
      <4> QED BY <1>0, <4>1, SMT
    <3> HIDE DEF m, n
    <3> QED BY <3>2, <3>3, <3>4 DEF NodeType
  <2> HIDE DEF n
  <2>2. NodeOk(nodes, n)
    <3>1. TermsOk(nodes, <<>>) BY EmptyNode DEF NodeOk
    <3> QED BY <2>1, <3>1 DEF NodeOk
  <2>3. Returns(nodes, r) BY <1>0, <2>2, PushNode
  <2>4. /\ nodes' = r.ns /\ value' = WithNew(r.ns, value) /\ ninput' = ninput + 1 /\ noutput' = noutput
        /\ sound' = (sound /\ \A X \in Inputs : value'[r.op][X] = F[X])
    BY <1>10 DEF InputWire, Returned, n
  <2>5. \A w : \A X \in Inputs :
          Carries(r.ns, w) /\ (\A i \in Ops(nodes) : w[i] = value[i]) => w[r.op][X] = F[X]
    BY <1>0, <2>1, <2>2, PushedValue
  <2> HIDE DEF r, F
  <2> QED BY <1>0, <2>3, <2>4, <2>5, CallIsSound
<1>11. CASE PrivateInput \/ BeginFullField \/ UNCHANGED vars
  <2>1. nodes' = nodes /\ value' = value /\ ninput' = ninput /\ noutput' = noutput /\ sound' = sound
    BY <1>11 DEF PrivateInput, BeginFullField, vars
  <2> QED BY <1>0, <2>1 DEF CompilerInvariant
<1>12. CASE MkCircuit
  <2> DEFINE ub == compute_depth_ub(nodes)
             last == LastAssertions(nodes, ub)
             freed == [i \in Ops(nodes) |->
                         IF i \in last THEN [nodes[i] EXCEPT !.is_assert0 = FALSE] ELSE nodes[i]]
             tops == {nodes[i].terms[1].op1 : i \in last}
             ms == [i \in Ops(nodes) |-> IF i \in tops
                      THEN [freed[i] EXCEPT !.is_output = TRUE, !.out_id = kWireIdUndefined]
                      ELSE freed[i]]
  <2>1. Scheduled(nodes).nodes = ms
    <3>1. fixup_last_layer_assertions(nodes, ub) = ms BY Zenon DEF fixup_last_layer_assertions
    <3> HIDE DEF ms
    <3>2. Scheduled(nodes).nodes = fixup_last_layer_assertions(nodes, ub) BY DEF Scheduled
    <3> QED BY <3>1, <3>2
  <2>2. /\ nodes' = ms /\ value' = value /\ ninput' = ninput /\ sound' = sound
        /\ noutput' = noutput + Cardinality(last)
    <3> HIDE DEF ms
    <3> QED BY <1>12, <2>1 DEF MkCircuit
  <2>3. Cardinality(last) \in Nat
    <3>1. IsFiniteSet(Ops(nodes)) BY <1>0 DEF Ok, Typed
    <3>2. last \in SUBSET Ops(nodes) BY DEF LastAssertions
    <3> HIDE DEF last
    <3> QED BY <3>1, <3>2, FS_Subset, FS_CardinalityType, Zenon
  <2> HIDE DEF last, ub
  <2>4. Ops(ms) = Ops(nodes) BY Zenon DEF Ops
  <2>5. ASSUME NEW i \in Ops(nodes)
        PROVE  /\ Same(nodes[i], ms[i]) /\ ms[i] \in NodeType
               /\ ms[i].is_assert0 => nodes[i].terms # <<>> /\ nodes[i].terms[1].k = 0
    <3>1. NodeOk(nodes, nodes[i]) BY <1>0, NodesAreOk
    <3>2. nodes[i] \in NodeType BY <3>1 DEF NodeOk
    <3>3. freed[i] = IF i \in last THEN [nodes[i] EXCEPT !.is_assert0 = FALSE] ELSE nodes[i] OBVIOUS
    <3> HIDE DEF freed
    <3>4. /\ freed[i] \in NodeType /\ Same(nodes[i], freed[i])
          /\ freed[i].is_assert0 => nodes[i].is_assert0
      BY <3>2, <3>3 DEF NodeType, Same
    <3>5. ms[i] = IF i \in tops
                  THEN [freed[i] EXCEPT !.is_output = TRUE, !.out_id = kWireIdUndefined] ELSE freed[i]
      OBVIOUS
    <3> HIDE DEF ms, tops
    <3>6. kWireIdUndefined \in Int BY DEF kWireIdUndefined
    <3>7. /\ ms[i] \in NodeType /\ Same(freed[i], ms[i]) /\ ms[i].is_assert0 = freed[i].is_assert0
      BY <3>4, <3>5, <3>6 DEF NodeType, Same
    <3>8. Same(nodes[i], ms[i]) BY <3>4, <3>7 DEF Same
    <3> QED BY <3>1, <3>4, <3>7, <3>8 DEF NodeOk
  <2> HIDE DEF ms
  <2>6. Ok(ms) /\ Extends(nodes, ms) BY <1>0, <2>4, <2>5, Marked
  <2>7. Carries(ms, value) BY <1>0, <2>4, <2>6, OtherMarks
  <2>8. noutput' \in Int BY <1>0, <2>2, <2>3
  <2> QED BY <1>0, <2>2, <2>4, <2>6, <2>7, <2>8 DEF CompilerInvariant
<1> QED BY <1>1, <1>2, <1>3, <1>4, <1>5, <1>6, <1>7, <1>8, <1>9, <1>10, <1>11, <1>12 DEF Next, Build

(* Whatever a program calls and in whatever order, every call returns a    *)
(* wire that carries, for every assignment of the inputs, what the call    *)
(* stands for, and leaves the nodes in order, for every modulus, prime or  *)
(* not, every set of constants and every number of inputs, nodes and       *)
(* outputs.                                                                *)
THEOREM SimplifierTheorem == Spec => []SimplifierIsSound
<1>1. CompilerInvariant => SimplifierIsSound
  BY DEF CompilerInvariant, SimplifierIsSound, NodesAreOrdered, Ok
<1> QED BY <1>1, InitIsSound, NextIsSound, PTL DEF Spec

-----------------------------------------------------------------------------
(* Sorting.  Insertion, whatever the comparison, permutes. *)
OrderStep(before, k, x) ==
  Seqs!InsertAt(x, 1 + Cardinality({j \in DOMAIN x : <<k, x[j]>> \notin before}), k)
Orders(before, f, n) == f = [k \in 0..n |-> IF k = 0 THEN <<>> ELSE OrderStep(before, k, f[k - 1])]

(* The recursive function of Order exists. *)
LEMMA OrderExists ==
  ASSUME NEW before, NEW n \in Nat
  PROVE  \E f : Orders(before, f, n)
<1> DEFINE S == {m \in Nat : \E f : Orders(before, f, m)}
<1>1. 0 \in S
  <2> DEFINE f == [k \in 0..0 |-> <<>>]
  <2>1. Orders(before, f, 0)
    <3>1. \A k \in 0..0 : k = 0 OBVIOUS
    <3> QED BY <3>1, Zenon DEF Orders
  <2> QED BY <2>1
<1>2. ASSUME NEW m \in Nat, m \in S PROVE m + 1 \in S
  <2>1. PICK f : Orders(before, f, m) BY <1>2
  <2>0. \A k \in 0..m : f[k] = IF k = 0 THEN <<>> ELSE OrderStep(before, k, f[k - 1])
    BY <2>1, Zenon DEF Orders
  <2> DEFINE h == [k \in 0..(m + 1) |-> IF k \in 0..m THEN f[k] ELSE OrderStep(before, k, f[k - 1])]
  <2>2. ASSUME NEW k \in 0..(m + 1)
        PROVE  h[k] = IF k = 0 THEN <<>> ELSE OrderStep(before, k, h[k - 1])
    <3>1. h[k] = IF k \in 0..m THEN f[k] ELSE OrderStep(before, k, f[k - 1]) OBVIOUS
    <3>2. CASE k = 0
      <4>1. 0 \in 0..m OBVIOUS
      <4> QED BY <2>0, <3>1, <3>2, <4>1
    <3>3. CASE k # 0
      <4>1. k - 1 \in 0..m /\ k - 1 \in 0..(m + 1) BY <3>3
      <4>2. h[k - 1] = f[k - 1] BY <4>1
      <4> HIDE DEF h
      <4> QED BY <2>0, <3>1, <3>3, <4>2, Zenon
    <3> QED BY <3>2, <3>3
  <2> DEFINE e == [k \in 0..(m + 1) |-> IF k = 0 THEN <<>> ELSE OrderStep(before, k, h[k - 1])]
  <2>3. h = e
    <3>1. \A k \in 0..(m + 1) : h[k] = e[k] BY <2>2, Zenon
    <3> QED BY <3>1, Zenon
  <2>4. Orders(before, h, m + 1) BY <2>3, Zenon DEF Orders
  <2> QED BY <2>4
<1>3. \A k \in Nat : k \in S BY <1>1, <1>2, L!Induction, Zenon
<1> QED BY <1>3

(* Order is the last value of that function. *)
LEMMA OrderIs ==
  ASSUME NEW before, NEW n \in Nat
  PROVE  \E f : /\ Order(n, before) = f[n] /\ f[0] = <<>>
               /\ \A k \in 1..n : f[k] = OrderStep(before, k, f[k - 1])
<1> DEFINE g == CHOOSE f : f = [k \in 0..n |-> IF k = 0 THEN <<>> ELSE OrderStep(before, k, f[k - 1])]
<1>1. \E f : f = [k \in 0..n |-> IF k = 0 THEN <<>> ELSE OrderStep(before, k, f[k - 1])]
  BY OrderExists, Zenon DEF Orders
<1>2. g = [k \in 0..n |-> IF k = 0 THEN <<>> ELSE OrderStep(before, k, g[k - 1])] BY <1>1, Zenon
<1>3. Order(n, before) = g[n] BY Zenon DEF Order, OrderStep
<1> HIDE DEF g
<1>4. \A k \in 0..n : g[k] = IF k = 0 THEN <<>> ELSE OrderStep(before, k, g[k - 1]) BY <1>2, Zenon
<1>5. g[0] = <<>>
  <2>1. 0 \in 0..n OBVIOUS
  <2> QED BY <1>4, <2>1, Zenon
<1>6. \A k \in 1..n : k \in 0..n /\ k # 0 OBVIOUS
<1>7. \A k \in 1..n : g[k] = OrderStep(before, k, g[k - 1]) BY <1>4, <1>6, Zenon
<1> QED BY <1>3, <1>5, <1>7

(* t is o with e at place p *)
Inserted(t, o, p, e) ==
  /\ L!IsSeq(t) /\ Len(t) = Len(o) + 1 /\ p \in 1..(Len(o) + 1)
  /\ \A k \in 1..(p - 1) : t[k] = o[k]
  /\ t[p] = e
  /\ \A k \in p..Len(o) : t[k + 1] = o[k]

(* InsertAt puts an element before the p-th.                               *)
LEMMA InsertAtIs ==
  ASSUME NEW o, L!IsSeq(o), NEW p \in 1..(Len(o) + 1), NEW e
  PROVE  Inserted(Seqs!InsertAt(o, p, e), o, p, e)
<1> DEFINE a == SubSeq(o, 1, p - 1)   b == <<e>>   c == SubSeq(o, p, Len(o))
           t == (a \o b) \o c
<1>1. Len(o) \in Nat /\ p \in Nat BY L!LengthOfSequence
<1>2. PICK S : o \in Seq(S) BY DEF L!IsSeq
<1>3. a \in Seq(S) /\ Len(a) = p - 1 /\ \A k \in 1..(p - 1) : a[k] = o[k]
  BY <1>1, <1>2, SMT
<1>4. c \in Seq(S) /\ Len(c) = Len(o) + 1 - p /\ \A k \in 1..(Len(o) + 1 - p) : c[k] = o[p + k - 1]
  BY <1>1, <1>2, SMT
<1>5. b \in Seq({e}) /\ Len(b) = 1 /\ b[1] = e OBVIOUS
<1>6. L!IsSeq(a) /\ L!IsSeq(b) /\ L!IsSeq(c) BY <1>3, <1>4, <1>5, Zenon DEF L!IsSeq
<1>7. t = Seqs!InsertAt(o, p, e) BY DEF Seqs!InsertAt
<1> HIDE DEF a, b, c
<1>8. /\ L!IsSeq(a \o b) /\ Len(a \o b) = Len(a) + Len(b)
      /\ \A k \in 1..Len(a) : (a \o b)[k] = a[k]
      /\ \A k \in 1..Len(b) : (a \o b)[Len(a) + k] = b[k]
  BY <1>6, L!Concatenation
<1> DEFINE d == a \o b
<1> HIDE DEF d
<1>9. /\ L!IsSeq(d \o c) /\ Len(d \o c) = Len(d) + Len(c)
      /\ \A k \in 1..Len(d) : (d \o c)[k] = d[k]
      /\ \A k \in 1..Len(c) : (d \o c)[Len(d) + k] = c[k]
  BY <1>6, <1>8, L!Concatenation DEF d
<1>10. t = d \o c BY DEF d
<1> HIDE DEF t
<1>11. Len(d) = p /\ d[p] = e /\ \A k \in 1..(p - 1) : d[k] = o[k]
  <2>1. Len(d) = p BY <1>1, <1>3, <1>5, <1>8, SMT DEF d
  <2>2. d[(p - 1) + 1] = b[1] BY <1>3, <1>5, <1>8 DEF d
  <2>3. \A k \in 1..(p - 1) : d[k] = o[k] BY <1>3, <1>8 DEF d
  <2>4. (p - 1) + 1 = p BY <1>1
  <2> QED BY <1>5, <2>1, <2>2, <2>3, <2>4
<1>12. Len(t) = Len(o) + 1 BY <1>1, <1>4, <1>9, <1>10, <1>11, SMT
<1>13. \A k \in 1..p : k \in 1..Len(d) /\ t[k] = d[k] BY <1>9, <1>10, <1>11
<1>14. p \in 1..p /\ \A k \in 1..(p - 1) : k \in 1..p BY <1>1, SMT
<1>15. ASSUME NEW k \in p..Len(o) PROVE t[k + 1] = o[k]
  <2>1. (k - p) + 1 \in 1..(Len(o) + 1 - p) /\ p + ((k - p) + 1) = k + 1 /\ p + ((k - p) + 1) - 1 = k
    BY <1>1, SMT
  <2>2. t[p + ((k - p) + 1)] = c[(k - p) + 1] BY <1>4, <1>9, <1>10, <1>11, <2>1
  <2>3. c[(k - p) + 1] = o[p + ((k - p) + 1) - 1] BY <1>4, <2>1
  <2> QED BY <2>1, <2>2, <2>3
<1> QED BY <1>7, <1>9, <1>10, <1>11, <1>12, <1>13, <1>14, <1>15 DEF Inserted

(* The numbers from 1 to n in some order *)
Permutes(o, n) ==
  /\ L!IsSeq(o) /\ Len(o) = n /\ DOMAIN o = 1..n
  /\ \A k \in 1..n : o[k] \in 1..n
  /\ \A i, j \in 1..n : o[i] = o[j] => i = j
  /\ \A m \in 1..n : \E k \in 1..n : o[k] = m

(* The next number inserted somewhere leaves a permutation.                *)
LEMMA InsertedPermutes ==
  ASSUME NEW n \in Nat, NEW o, Permutes(o, n), NEW t, NEW p, Inserted(t, o, p, n + 1)
  PROVE  Permutes(t, n + 1)
<1>1. /\ L!IsSeq(t) /\ Len(t) = n + 1 /\ p \in 1..(n + 1)
      /\ \A k \in 1..(p - 1) : t[k] = o[k]
      /\ t[p] = n + 1
      /\ \A k \in p..n : t[k + 1] = o[k]
  BY DEF Inserted, Permutes
<1>2. /\ \A k \in 1..n : o[k] \in 1..n
      /\ \A i, j \in 1..n : o[i] = o[j] => i = j
      /\ \A m \in 1..n : \E k \in 1..n : o[k] = m
  BY DEF Permutes
<1>3. DOMAIN t = 1..(n + 1) BY <1>1, L!LengthOfSequence
<1> DEFINE at(k) == IF k < p THEN k ELSE k - 1
<1>4. ASSUME NEW k \in 1..(n + 1)
      PROVE  \/ k = p /\ t[k] = n + 1
             \/ k # p /\ at(k) \in 1..n /\ t[k] = o[at(k)]
  <2>1. CASE k = p BY <1>1, <2>1
  <2>2. CASE k < p
    <3>1. k \in 1..(p - 1) /\ k \in 1..n /\ at(k) = k BY <1>1, <2>2, SMT
    <3> HIDE DEF at
    <3> QED BY <1>1, <2>2, <3>1
  <2>3. CASE k > p
    <3>1. k - 1 \in p..n /\ k - 1 \in 1..n /\ at(k) = k - 1 /\ (k - 1) + 1 = k /\ k # p BY <1>1, <2>3, SMT
    <3>2. t[(k - 1) + 1] = o[k - 1] BY <1>1, <3>1
    <3> HIDE DEF at
    <3> QED BY <3>1, <3>2
  <2> QED BY <1>1, <2>1, <2>2, <2>3, SMT
<1>5. \A k \in 1..(n + 1) : t[k] \in 1..(n + 1)
  <2>1. \A x \in 1..n : x \in 1..(n + 1) /\ n + 1 \in 1..(n + 1) OBVIOUS
  <2>2. n + 1 \in 1..(n + 1) OBVIOUS
  <2> HIDE DEF at
  <2> QED BY <1>2, <1>4, <2>1, <2>2
<1>6. ASSUME NEW i \in 1..(n + 1), NEW j \in 1..(n + 1), t[i] = t[j] PROVE i = j
  <2>1. \A x \in 1..n : x # n + 1 OBVIOUS
  <2>2. (i # p /\ j # p) => at(i) = at(j)
    <3> HIDE DEF at
    <3> QED BY <1>2, <1>4, <1>6
  <2>3. i # p /\ j # p /\ at(i) = at(j) => i = j BY <1>1, SMT
  <2>4. i = p <=> j = p
    <3> HIDE DEF at
    <3> QED BY <1>2, <1>4, <1>6, <2>1
  <2> QED BY <2>2, <2>3, <2>4
<1>7. ASSUME NEW m \in 1..(n + 1) PROVE \E k \in 1..(n + 1) : t[k] = m
  <2>1. CASE m = n + 1 BY <1>1, <2>1
  <2>2. CASE m # n + 1
    <3>1. PICK k \in 1..n : o[k] = m
      <4>1. m \in 1..n BY <2>2
      <4> QED BY <1>2, <4>1
    <3>2. CASE k < p
      <4>1. k \in 1..(p - 1) /\ k \in 1..(n + 1) BY <1>1, <3>2, SMT
      <4> QED BY <1>1, <3>1, <4>1
    <3>3. CASE ~(k < p)
      <4>1. k \in p..n /\ k + 1 \in 1..(n + 1) BY <1>1, <3>3, SMT
      <4> QED BY <1>1, <3>1, <4>1
    <3> QED BY <3>2, <3>3
  <2> QED BY <2>1, <2>2
<1> QED BY <1>1, <1>3, <1>5, <1>6, <1>7 DEF Permutes

(* and adds to a sum over the numbers what belongs to it. *)
LEMMA InsertedSum ==
  ASSUME NEW n \in Nat, NEW o, Permutes(o, n), NEW t, NEW p, Inserted(t, o, p, n + 1),
         NEW g, \A k \in 1..(n + 1) : g[k] \in Elt
  PROVE  Partial([k \in 1..(n + 1) |-> g[t[k]]], n + 1)
           = addf(Partial([k \in 1..n |-> g[o[k]]], n), g[n + 1])
<1> DEFINE gt == [k \in 1..(n + 1) |-> g[t[k]]]   go == [k \in 1..n |-> g[o[k]]]
<1>1. /\ p \in 1..(n + 1)
      /\ \A k \in 1..(p - 1) : t[k] = o[k]
      /\ t[p] = n + 1
      /\ \A k \in p..n : t[k + 1] = o[k]
  BY DEF Inserted, Permutes
<1>2. \A k \in 1..n : o[k] \in 1..n BY DEF Permutes
<1>3. /\ \A k \in 1..(p - 1) : gt[k] = go[k]
      /\ gt[p] = g[n + 1]
      /\ \A k \in p..n : gt[k + 1] = go[k]
  <2>1. \A k \in 1..(p - 1) : k \in 1..n /\ k \in 1..(n + 1) BY <1>1, SMT
  <2>2. \A k \in p..n : k \in 1..n /\ k + 1 \in 1..(n + 1) BY <1>1, SMT
  <2> QED BY <1>1, <2>1, <2>2
<1>4. \A k \in 1..n : go[k] \in Elt
  <2>1. \A k \in 1..n : k \in 1..(n + 1) OBVIOUS
  <2> QED BY <1>2, <2>1
<1>5. g[n + 1] \in Elt
  <2>1. n + 1 \in 1..(n + 1) OBVIOUS
  <2> QED BY <2>1
<1> HIDE DEF gt, go
<1> DEFINE S == {q \in Nat : p - 1 <= q /\ q <= n =>
                                Partial(gt, q + 1) = addf(Partial(go, q), g[n + 1])}
<1>6. p - 1 \in Nat /\ p - 1 <= n /\ p \in Nat BY <1>1, SMT
<1>7. \A q \in 0..n : Partial(go, q) \in Elt
  <2> TAKE q \in 0..n
  <2>1. q \in Nat /\ \A k \in 1..q : k \in 1..n OBVIOUS
  <2> QED BY <1>4, <2>1, PartialInField
<1>8. Partial(gt, (p - 1) + 1) = addf(Partial(go, p - 1), g[n + 1])
  <2>1. Partial(gt, (p - 1) + 1) = addf(Partial(gt, p - 1), gt[(p - 1) + 1]) BY <1>6, PartialSums
  <2>2. Partial(gt, p - 1) = Partial(go, p - 1) BY <1>3, <1>6, PartialAgrees
  <2>3. (p - 1) + 1 = p BY <1>6
  <2> QED BY <1>3, <2>1, <2>2, <2>3
<1>9. ASSUME NEW q \in Nat, p - 1 <= q, q + 1 <= n, Partial(gt, q + 1) = addf(Partial(go, q), g[n + 1])
      PROVE  Partial(gt, (q + 1) + 1) = addf(Partial(go, q + 1), g[n + 1])
  <2>1. Partial(gt, (q + 1) + 1) = addf(Partial(gt, q + 1), gt[(q + 1) + 1]) BY PartialSums
  <2>2. q + 1 \in p..n /\ q + 1 \in 1..n /\ q \in 0..n BY <1>6, <1>9, SMT
  <2>3. gt[(q + 1) + 1] = go[q + 1] BY <1>3, <2>2
  <2>4. Partial(go, q + 1) = addf(Partial(go, q), go[q + 1]) BY PartialSums
  <2> DEFINE a == Partial(go, q)   b == go[q + 1]   c == g[n + 1]
  <2>5. a \in Elt /\ b \in Elt /\ c \in Elt BY <1>4, <1>5, <1>7, <2>2
  <2>6. addf(addf(a, c), b) = addf(addf(a, b), c)
    <3> HIDE DEF a, b, c
    <3>1. addf(addf(a, c), b) = addf(a, addf(c, b)) BY <2>5, Ring
    <3>2. addf(c, b) = addf(b, c) BY <2>5, Ring
    <3>3. addf(addf(a, b), c) = addf(a, addf(b, c)) BY <2>5, Ring
    <3> QED BY <3>1, <3>2, <3>3
  <2> QED BY <1>9, <2>1, <2>3, <2>4, <2>6
<1>10. 0 \in S
  <2>1. p - 1 <= 0 => p - 1 = 0 BY <1>6
  <2> QED BY <1>8, <2>1
<1>11. ASSUME NEW q \in Nat, q \in S PROVE q + 1 \in S
  <2> SUFFICES ASSUME p - 1 <= q + 1, q + 1 <= n
               PROVE  Partial(gt, (q + 1) + 1) = addf(Partial(go, q + 1), g[n + 1])
    OBVIOUS
  <2>1. CASE p - 1 = q + 1 BY <1>8, <2>1
  <2>2. CASE p - 1 # q + 1
    <3>1. p - 1 <= q /\ q <= n BY <1>6, <2>2
    <3> QED BY <1>9, <1>11, <3>1
  <2> QED BY <2>1, <2>2
<1>12. \A q \in Nat : q \in S
  <2> HIDE DEF S
  <2> QED BY <1>10, <1>11, L!Induction, Zenon
<1>13. Partial(gt, n + 1) = addf(Partial(go, n), g[n + 1])
  <2>1. n \in S BY <1>12
  <2> QED BY <1>6, <2>1
<1> QED BY <1>13 DEF gt, go

(* the places whose numbers m does not go before *)
NotAfter(before, m, o) == {j \in DOMAIN o : <<m, o[j]>> \notin before}

(* The step of Order inserts the next number.                              *)
LEMMA OrderInserts ==
  ASSUME NEW before, NEW n \in Nat, NEW o, Permutes(o, n)
  PROVE  LET C == NotAfter(before, n + 1, o)
         IN  /\ IsFiniteSet(C) /\ Cardinality(C) \in 0..n /\ C \in SUBSET (1..n)
             /\ Inserted(OrderStep(before, n + 1, o), o, 1 + Cardinality(C), n + 1)
<1> DEFINE C == NotAfter(before, n + 1, o)
<1>1. L!IsSeq(o) /\ Len(o) = n /\ DOMAIN o = 1..n BY DEF Permutes
<1>2. C \in SUBSET (1..n) BY <1>1 DEF NotAfter
<1>3. OrderStep(before, n + 1, o) = Seqs!InsertAt(o, 1 + Cardinality(C), n + 1) BY DEF OrderStep, NotAfter
<1> HIDE DEF C
<1>4. IsFiniteSet(1..n) /\ Cardinality(1..n) = n
  <2>1. 1 \in Int /\ n \in Int /\ (1 > n => n = 0) OBVIOUS
  <2>2. IsFiniteSet(1..n) /\ Cardinality(1..n) = IF 1 > n THEN 0 ELSE n - 1 + 1
    BY <2>1, FS_Interval, Zenon
  <2> QED BY <2>1, <2>2
<1>5. IsFiniteSet(C) /\ Cardinality(C) <= n BY <1>2, <1>4, FS_Subset
<1>6. Cardinality(C) \in Nat BY <1>5, FS_CardinalityType
<1>7. 1 + Cardinality(C) \in 1..(Len(o) + 1) BY <1>1, <1>5, <1>6
<1>8. Inserted(OrderStep(before, n + 1, o), o, 1 + Cardinality(C), n + 1)
  BY <1>1, <1>3, <1>7, InsertAtIs
<1> QED BY <1>2, <1>5, <1>6, <1>8 DEF C

(* An order is a permutation, over which sums are the same.                *)
LEMMA OrderPermutes ==
  ASSUME NEW before, NEW n \in Nat
  PROVE  /\ Permutes(Order(n, before), n)
         /\ \A g : (\A k \in 1..n : g[k] \in Elt)
                     => Partial([k \in 1..n |-> g[Order(n, before)[k]]], n) = Partial(g, n)
<1>1. PICK f : /\ Order(n, before) = f[n] /\ f[0] = <<>>
               /\ \A k \in 1..n : f[k] = OrderStep(before, k, f[k - 1])
  BY OrderIs
<1> DEFINE Has(m) == /\ Permutes(f[m], m)
                     /\ \A g : (\A k \in 1..m : g[k] \in Elt)
                                 => Partial([k \in 1..m |-> g[f[m][k]]], m) = Partial(g, m)
           S == {m \in Nat : m <= n => Has(m)}
<1>2. 0 \in S
  <2>1. Permutes(<<>>, 0)
    <3>1. <<>> \in Seq(Nat) /\ Len(<<>>) = 0 /\ DOMAIN <<>> = 1..0 /\ 1..0 = {} OBVIOUS
    <3>2. L!IsSeq(<<>>) BY <3>1, Zenon DEF L!IsSeq
    <3> QED BY <3>1, <3>2 DEF Permutes
  <2>2. \A g : Partial([k \in 1..0 |-> g[f[0][k]]], 0) = Partial(g, 0)
    <3> TAKE g
    <3> DEFINE h == [k \in 1..0 |-> g[f[0][k]]]
    <3> HIDE DEF h
    <3>1. 0 \in Nat OBVIOUS
    <3>2. Partial(h, 0) = 0 BY <3>1, PartialSums
    <3>3. Partial(g, 0) = 0 BY <3>1, PartialSums
    <3> QED BY <3>2, <3>3 DEF h
  <2> QED BY <1>1, <2>1, <2>2
<1>3. ASSUME NEW m \in Nat, m \in S PROVE m + 1 \in S
  <2> SUFFICES ASSUME m + 1 <= n PROVE Has(m + 1)
    <3> HIDE DEF Has
    <3> QED OBVIOUS
  <2>1. Has(m)
    <3> HIDE DEF Has
    <3> QED BY <1>3
  <2>2. f[m + 1] = OrderStep(before, m + 1, f[m])
    <3>1. m + 1 \in 1..n /\ (m + 1) - 1 = m OBVIOUS
    <3> QED BY <1>1, <3>1
  <2>3. PICK p : Inserted(f[m + 1], f[m], p, m + 1) BY <2>1, <2>2, OrderInserts
  <2>4. Permutes(f[m + 1], m + 1) BY <2>1, <2>3, InsertedPermutes
  <2>5. ASSUME NEW g, \A k \in 1..(m + 1) : g[k] \in Elt
        PROVE  Partial([k \in 1..(m + 1) |-> g[f[m + 1][k]]], m + 1) = Partial(g, m + 1)
    <3>1. Partial([k \in 1..(m + 1) |-> g[f[m + 1][k]]], m + 1)
            = addf(Partial([k \in 1..m |-> g[f[m][k]]], m), g[m + 1])
      BY <2>1, <2>3, <2>5, InsertedSum
    <3>2. Partial([k \in 1..m |-> g[f[m][k]]], m) = Partial(g, m) BY <2>1, <2>5
    <3>3. Partial(g, m + 1) = addf(Partial(g, m), g[m + 1]) BY PartialSums
    <3> QED BY <3>1, <3>2, <3>3
  <2> QED BY <2>4, <2>5
<1>4. Has(n)
  <2> HIDE DEF Has
  <2>1. \A m \in Nat : m \in S
    <3> HIDE DEF S
    <3> QED BY <1>2, <1>3, L!Induction, Zenon
  <2> QED BY <2>1
<1> QED BY <1>1, <1>4

(* Numbers of lower rank go before numbers of higher rank *)
Ranked(rk, o, n) == \A a, b \in 1..n : a < b => rk[o[a]] <= rk[o[b]]
Respects(before, rk, n) ==
  \A i, j \in 1..n : rk[i] < rk[j] => <<i, j>> \in before /\ <<j, i>> \notin before

(* The next number is inserted behind those of lower rank and before those *)
(* of higher rank.                                                         *)
LEMMA InsertedRanked ==
  ASSUME NEW before, NEW N \in Nat, NEW rk, \A k \in 1..N : rk[k] \in Int, Respects(before, rk, N),
         NEW n \in Nat, n + 1 <= N, NEW o, Permutes(o, n), Ranked(rk, o, n),
         NEW t, Inserted(t, o, 1 + Cardinality(NotAfter(before, n + 1, o)), n + 1)
  PROVE  Ranked(rk, t, n + 1)
<1> DEFINE C == NotAfter(before, n + 1, o)
           c == Cardinality(C)   p == 1 + c
<1>1. L!IsSeq(o) /\ Len(o) = n /\ DOMAIN o = 1..n /\ \A k \in 1..n : o[k] \in 1..n BY DEF Permutes
<1>2. IsFiniteSet(C) /\ c \in 0..n /\ C \in SUBSET (1..n)
  <2>1. IsFiniteSet(C) /\ Cardinality(C) \in 0..n /\ C \in SUBSET (1..n) BY OrderInserts
  <2> QED BY <2>1
<1>3. \A k \in 1..n : o[k] \in 1..N /\ rk[o[k]] \in Int
  <2>1. \A k \in 1..n : k \in 1..N OBVIOUS
  <2> QED BY <1>1, <2>1
<1>4. rk[n + 1] \in Int /\ n + 1 \in 1..N
  <2>1. n + 1 \in 1..N OBVIOUS
  <2> QED BY <2>1
<1>5. ASSUME NEW j \in 1..c PROVE j \in 1..n /\ rk[o[j]] <= rk[n + 1]
  <2>1. j \in 1..n BY <1>2, SMT
  <2> SUFFICES ASSUME rk[n + 1] < rk[o[j]] PROVE FALSE
    <3>1. rk[o[j]] \in Int BY <1>3, <2>1
    <3> QED BY <1>4, <2>1, <3>1
  <2>2. ASSUME NEW i \in C PROVE i \in 1..(j - 1)
    <3>1. i \in 1..n /\ <<n + 1, o[i]>> \notin before BY <1>1, <2>2 DEF NotAfter
    <3>2. ~(rk[n + 1] < rk[o[i]]) BY <1>3, <1>4, <3>1 DEF Respects
    <3>3. j < i => rk[o[j]] <= rk[o[i]] BY <2>1, <3>1 DEF Ranked
    <3>4. rk[o[i]] \in Int /\ rk[o[j]] \in Int BY <1>3, <2>1, <3>1
    <3>5. ~(j < i) /\ i # j BY <1>4, <3>2, <3>3, <3>4
    <3> QED BY <2>1, <3>1, <3>5
  <2>3. C \in SUBSET (1..(j - 1)) BY <2>2
  <2>4. IsFiniteSet(1..(j - 1)) /\ Cardinality(1..(j - 1)) = j - 1
    <3>1. 1 \in Int /\ j - 1 \in Int /\ (1 > j - 1 => j - 1 = 0) OBVIOUS
    <3>2. IsFiniteSet(1..(j - 1)) /\ Cardinality(1..(j - 1)) = IF 1 > j - 1 THEN 0 ELSE (j - 1) - 1 + 1
      BY <3>1, FS_Interval, Zenon
    <3> QED BY <3>1, <3>2
  <2> HIDE DEF C
  <2>5. c <= j - 1 BY <2>3, <2>4, FS_Subset
  <2> QED BY <1>2, <2>5
<1>6. ASSUME NEW j \in p..n PROVE j \in 1..n /\ rk[n + 1] <= rk[o[j]]
  <2>1. j \in 1..n /\ j > c BY <1>2, SMT
  <2> SUFFICES ASSUME rk[o[j]] < rk[n + 1] PROVE FALSE
    <3>1. rk[o[j]] \in Int BY <1>3, <2>1
    <3> QED BY <1>4, <2>1, <3>1
  <2>2. ASSUME NEW i \in 1..j PROVE i \in C
    <3>1. i \in 1..n BY <2>1
    <3>2. i < j => rk[o[i]] <= rk[o[j]] BY <2>1, <3>1 DEF Ranked
    <3>3. rk[o[i]] \in Int /\ rk[o[j]] \in Int BY <1>3, <2>1, <3>1
    <3>4. rk[o[i]] < rk[n + 1] BY <1>4, <3>2, <3>3
    <3>5. <<n + 1, o[i]>> \notin before BY <1>3, <1>4, <3>1, <3>4 DEF Respects
    <3> QED BY <1>1, <3>1, <3>5 DEF NotAfter
  <2>3. 1..j \in SUBSET C BY <2>2
  <2>4. Cardinality(1..j) = j
    <3>1. 1 \in Int /\ j \in Int /\ ~(1 > j) BY <2>1
    <3>2. Cardinality(1..j) = j - 1 + 1
      BY <3>1, FS_Interval, Zenon
    <3> QED BY <3>1, <3>2
  <2> HIDE DEF C
  <2>5. j <= c BY <1>2, <2>3, <2>4, FS_Subset
  <2> QED BY <1>2, <2>1, <2>5
<1> HIDE DEF C
<1>7. /\ p \in 1..(n + 1)
      /\ \A k \in 1..c : t[k] = o[k]
      /\ t[p] = n + 1
      /\ \A k \in p..n : t[k + 1] = o[k]
  <2>1. p - 1 = c BY <1>2
  <2> QED BY <1>1, <2>1 DEF Inserted, C
<1> HIDE DEF c
<1>8. c \in Nat /\ c <= n BY <1>2
<1>9. \A k \in 1..(n + 1) : k \in 1..c \/ k = p \/ (k - 1 \in p..n /\ (k - 1) + 1 = k)
  BY <1>8, SMT
<1> SUFFICES ASSUME NEW a \in 1..(n + 1), NEW b \in 1..(n + 1), a < b PROVE rk[t[a]] <= rk[t[b]]
  BY DEF Ranked
<1>10. CASE a \in 1..c /\ b \in 1..c
  <2>1. a \in 1..n /\ b \in 1..n BY <1>8, <1>10
  <2> QED BY <1>7, <1>10, <2>1 DEF Ranked
<1>11. CASE a \in 1..c /\ b = p BY <1>5, <1>7, <1>11
<1>12. CASE a \in 1..c /\ b - 1 \in p..n /\ (b - 1) + 1 = b
  <2>1. rk[t[a]] <= rk[n + 1] /\ rk[n + 1] <= rk[t[b]] BY <1>5, <1>6, <1>7, <1>12
  <2>2. rk[t[a]] \in Int /\ rk[t[b]] \in Int BY <1>3, <1>5, <1>6, <1>7, <1>12
  <2> QED BY <1>4, <2>1, <2>2
<1>13. CASE a = p /\ b - 1 \in p..n /\ (b - 1) + 1 = b BY <1>6, <1>7, <1>13
<1>14. CASE a - 1 \in p..n /\ (a - 1) + 1 = a /\ b - 1 \in p..n /\ (b - 1) + 1 = b
  <2>1. a - 1 < b - 1 /\ a - 1 \in 1..n /\ b - 1 \in 1..n BY <1>6, <1>14
  <2>2. t[a] = o[a - 1] /\ t[b] = o[b - 1] BY <1>7, <1>14
  <2> QED BY <2>1, <2>2 DEF Ranked
<1>15. /\ a = p => b \notin 1..c /\ b # p
       /\ a - 1 \in p..n => b \notin 1..c /\ b # p
  BY <1>8, SMT
<1> QED BY <1>9, <1>10, <1>11, <1>12, <1>13, <1>14, <1>15

(* An order that compares by rank first is by rank.                        *)
LEMMA OrderIsRanked ==
  ASSUME NEW before, NEW n \in Nat, NEW rk, \A k \in 1..n : rk[k] \in Int, Respects(before, rk, n)
  PROVE  Ranked(rk, Order(n, before), n)
<1>1. PICK f : /\ Order(n, before) = f[n] /\ f[0] = <<>>
               /\ \A k \in 1..n : f[k] = OrderStep(before, k, f[k - 1])
  BY OrderIs
<1> DEFINE Has(m) == Permutes(f[m], m) /\ Ranked(rk, f[m], m)
           S == {m \in Nat : m <= n => Has(m)}
<1>2. 0 \in S
  <2>1. Permutes(<<>>, 0)
    <3>1. <<>> \in Seq(Nat) /\ Len(<<>>) = 0 /\ DOMAIN <<>> = 1..0 /\ 1..0 = {} OBVIOUS
    <3>2. L!IsSeq(<<>>) BY <3>1, Zenon DEF L!IsSeq
    <3> QED BY <3>1, <3>2 DEF Permutes
  <2>2. Ranked(rk, f[0], 0) BY DEF Ranked
  <2> QED BY <1>1, <2>1, <2>2
<1>3. ASSUME NEW m \in Nat, m \in S PROVE m + 1 \in S
  <2> SUFFICES ASSUME m + 1 <= n PROVE Has(m + 1)
    <3> HIDE DEF Has
    <3> QED OBVIOUS
  <2>1. Has(m)
    <3> HIDE DEF Has
    <3> QED BY <1>3
  <2> DEFINE C == NotAfter(before, m + 1, f[m])
  <2>2. f[m + 1] = OrderStep(before, m + 1, f[m])
    <3>1. m + 1 \in 1..n /\ (m + 1) - 1 = m OBVIOUS
    <3> QED BY <1>1, <3>1
  <2>3. Inserted(f[m + 1], f[m], 1 + Cardinality(C), m + 1) BY <2>1, <2>2, OrderInserts
  <2>4. Permutes(f[m + 1], m + 1) BY <2>1, <2>3, InsertedPermutes
  <2>5. Ranked(rk, f[m + 1], m + 1) BY <2>1, <2>3, InsertedRanked
  <2> QED BY <2>4, <2>5
<1>4. Has(n)
  <2> HIDE DEF Has
  <2>1. \A m \in Nat : m \in S
    <3> HIDE DEF S
    <3> QED BY <1>2, <1>3, L!Induction, Zenon
  <2> QED BY <2>1
<1> QED BY <1>1, <1>4

(* A sequence in an order *)
InOrderOf(s, o) == [k \in DOMAIN s |-> s[o[k]]]

(* It has the elements of the sequence, each once.                         *)
LEMMA OrderedSequence ==
  ASSUME NEW s, L!IsSeq(s), NEW before
  PROVE  LET o == Order(Len(s), before)
         IN  /\ Permutes(o, Len(s)) /\ L!IsSeq(InOrderOf(s, o)) /\ Len(InOrderOf(s, o)) = Len(s)
             /\ \A k \in 1..Len(s) : o[k] \in 1..Len(s) /\ InOrderOf(s, o)[k] = s[o[k]]
<1> DEFINE o == Order(Len(s), before)   t == InOrderOf(s, o)
<1>1. Len(s) \in Nat /\ DOMAIN s = 1..Len(s) BY L!LengthOfSequence
<1>2. Permutes(o, Len(s)) BY <1>1, OrderPermutes
<1> HIDE DEF o
<1>3. t = [k \in 1..Len(s) |-> s[o[k]]] BY <1>1 DEF InOrderOf
<1> HIDE DEF t
<1>4. t = [k \in 1..Len(s) |-> t[k]] /\ \A k \in 1..Len(s) : t[k] = s[o[k]] BY <1>3
<1>5. L!IsSeq(t) /\ Len(t) = Len(s) BY <1>1, <1>4, L!SequenceOfLength
<1> QED BY <1>2, <1>4, <1>5 DEF Permutes, o, t

-----------------------------------------------------------------------------
(* Quads.  Terms with different corners are coalesced with none, and      *)
(* differences of corners are added up to the corners.                     *)
Spot == 0..(Corners - 1)
Cell == [g : Spot, h : Spot \X Spot, v : Elt]
Apart(s) == \A i, j \in 1..Len(s) : s[i].g = s[j].g /\ s[i].h = s[j].h => i = j

Coalescing(s, n) ==
  LET out[k \in 0..n] == IF k = 0 THEN <<>> ELSE Coalesced(out[k - 1], s[k]) IN out[n]
CoalesceStep(s, k, x) ==
  Coalesced(x, s[k])
Coalesces(s, f, n) == f = [k \in 0..n |-> IF k = 0 THEN <<>> ELSE CoalesceStep(s, k, f[k - 1])]

(* The recursive function of Coalescing exists. *)
LEMMA CoalesceExists ==
  ASSUME NEW s, NEW n \in Nat
  PROVE  \E f : Coalesces(s, f, n)
<1> DEFINE S == {m \in Nat : \E f : Coalesces(s, f, m)}
<1>1. 0 \in S
  <2> DEFINE f == [k \in 0..0 |-> <<>>]
  <2>1. Coalesces(s, f, 0)
    <3>1. \A k \in 0..0 : k = 0 OBVIOUS
    <3> QED BY <3>1, Zenon DEF Coalesces
  <2> QED BY <2>1
<1>2. ASSUME NEW m \in Nat, m \in S PROVE m + 1 \in S
  <2>1. PICK f : Coalesces(s, f, m) BY <1>2
  <2>0. \A k \in 0..m : f[k] = IF k = 0 THEN <<>> ELSE CoalesceStep(s, k, f[k - 1])
    BY <2>1, Zenon DEF Coalesces
  <2> DEFINE h == [k \in 0..(m + 1) |-> IF k \in 0..m THEN f[k] ELSE CoalesceStep(s, k, f[k - 1])]
  <2>2. ASSUME NEW k \in 0..(m + 1)
        PROVE  h[k] = IF k = 0 THEN <<>> ELSE CoalesceStep(s, k, h[k - 1])
    <3>1. h[k] = IF k \in 0..m THEN f[k] ELSE CoalesceStep(s, k, f[k - 1]) OBVIOUS
    <3>2. CASE k = 0
      <4>1. 0 \in 0..m OBVIOUS
      <4> QED BY <2>0, <3>1, <3>2, <4>1
    <3>3. CASE k # 0
      <4>1. k - 1 \in 0..m /\ k - 1 \in 0..(m + 1) BY <3>3
      <4>2. h[k - 1] = f[k - 1] BY <4>1
      <4> HIDE DEF h
      <4> QED BY <2>0, <3>1, <3>3, <4>2, Zenon
    <3> QED BY <3>2, <3>3
  <2> DEFINE e == [k \in 0..(m + 1) |-> IF k = 0 THEN <<>> ELSE CoalesceStep(s, k, h[k - 1])]
  <2>3. h = e
    <3>1. \A k \in 0..(m + 1) : h[k] = e[k] BY <2>2, Zenon
    <3> QED BY <3>1, Zenon
  <2>4. Coalesces(s, h, m + 1) BY <2>3, Zenon DEF Coalesces
  <2> QED BY <2>4
<1>3. \A k \in Nat : k \in S BY <1>1, <1>2, L!Induction, Zenon
<1> QED BY <1>3

(* Coalescing is the last value of that function. *)
LEMMA CoalesceIs ==
  ASSUME NEW s, NEW n \in Nat
  PROVE  \E f : /\ Coalescing(s, n) = f[n] /\ f[0] = <<>>
               /\ \A k \in 1..n : f[k] = CoalesceStep(s, k, f[k - 1])
<1> DEFINE g == CHOOSE f : f = [k \in 0..n |-> IF k = 0 THEN <<>> ELSE CoalesceStep(s, k, f[k - 1])]
<1>1. \E f : f = [k \in 0..n |-> IF k = 0 THEN <<>> ELSE CoalesceStep(s, k, f[k - 1])]
  BY CoalesceExists, Zenon DEF Coalesces
<1>2. g = [k \in 0..n |-> IF k = 0 THEN <<>> ELSE CoalesceStep(s, k, g[k - 1])] BY <1>1, Zenon
<1>3. Coalescing(s, n) = g[n] BY Zenon DEF Coalescing, CoalesceStep
<1> HIDE DEF g
<1>4. \A k \in 0..n : g[k] = IF k = 0 THEN <<>> ELSE CoalesceStep(s, k, g[k - 1]) BY <1>2, Zenon
<1>5. g[0] = <<>>
  <2>1. 0 \in 0..n OBVIOUS
  <2> QED BY <1>4, <2>1, Zenon
<1>6. \A k \in 1..n : k \in 0..n /\ k # 0 OBVIOUS
<1>7. \A k \in 1..n : g[k] = CoalesceStep(s, k, g[k - 1]) BY <1>4, <1>6, Zenon
<1> QED BY <1>3, <1>5, <1>7

(* Terms that differ in their corners stay as they are.                    *)
LEMMA NothingCoalesces ==
  ASSUME NEW s, L!IsSeq(s), Apart(s)
  PROVE  Coalescing(s, Len(s)) = s
<1>1. Len(s) \in Nat /\ DOMAIN s = 1..Len(s) BY L!LengthOfSequence
<1>2. PICK f : /\ Coalescing(s, Len(s)) = f[Len(s)] /\ f[0] = <<>>
               /\ \A k \in 1..Len(s) : f[k] = CoalesceStep(s, k, f[k - 1])
  BY <1>1, CoalesceIs
<1> DEFINE Has(m) == L!IsSeq(f[m]) /\ Len(f[m]) = m /\ \A k \in 1..m : f[m][k] = s[k]
           S == {m \in Nat : m <= Len(s) => Has(m)}
<1>3. 0 \in S
  <2>1. <<>> \in Seq(Nat) /\ Len(<<>>) = 0 OBVIOUS
  <2>2. L!IsSeq(<<>>) BY <2>1, Zenon DEF L!IsSeq
  <2> QED BY <1>2, <2>1, <2>2
<1>4. ASSUME NEW m \in Nat, m \in S PROVE m + 1 \in S
  <2> SUFFICES ASSUME m + 1 <= Len(s) PROVE Has(m + 1)
    <3> HIDE DEF Has
    <3> QED OBVIOUS
  <2> DEFINE o == f[m]
  <2>1. L!IsSeq(o) /\ Len(o) = m /\ \A k \in 1..m : o[k] = s[k] BY <1>1, <1>4
  <2>2. f[m + 1] = Coalesced(o, s[m + 1])
    <3>1. m + 1 \in 1..Len(s) /\ (m + 1) - 1 = m BY <1>1
    <3> QED BY <1>2, <3>1 DEF CoalesceStep
  <2> HIDE DEF o
  <2>3. ~(o # <<>> /\ Seqs!Last(o).h = s[m + 1].h /\ Seqs!Last(o).g = s[m + 1].g)
    <3> SUFFICES ASSUME o # <<>> PROVE ~(o[Len(o)].h = s[m + 1].h /\ o[Len(o)].g = s[m + 1].g)
      BY DEF Seqs!Last
    <3>1. Len(o) # 0
      <4>1. PICK T : o \in Seq(T) BY <2>1 DEF L!IsSeq
      <4> QED BY <4>1
    <3>2. m \in 1..m /\ m \in 1..Len(s) /\ m + 1 \in 1..Len(s) BY <1>1, <2>1, <3>1
    <3>3. o[Len(o)] = s[m] BY <2>1, <3>2
    <3> QED BY <3>2, <3>3 DEF Apart
  <2>4. f[m + 1] = Append(o, s[m + 1]) BY <2>2, <2>3 DEF Coalesced
  <2>5. /\ L!IsSeq(f[m + 1]) /\ Len(f[m + 1]) = m + 1
        /\ \A k \in 1..m : f[m + 1][k] = o[k]
        /\ f[m + 1][m + 1] = s[m + 1]
    BY <2>1, <2>4, L!OneMore
  <2>6. \A k \in 1..(m + 1) : k \in 1..m \/ k = m + 1 OBVIOUS
  <2> QED BY <2>1, <2>5, <2>6
<1>5. Has(Len(s))
  <2> HIDE DEF Has
  <2>1. \A m \in Nat : m \in S
    <3> HIDE DEF S
    <3> QED BY <1>3, <1>4, L!Induction, Zenon
  <2> QED BY <1>1, <2>1
<1>6. f[Len(s)] = s BY <1>5, L!SequenceEquality
<1> QED BY <1>2, <1>6

(* So the canonical form of ordered terms with different corners is an    *)
(* order of them.                                                          *)
LEMMA CanonicalIs ==
  ASSUME NEW raw \in Seq(Cell), Apart(raw), \A k \in 1..Len(raw) : ~(raw[k].h[1] > raw[k].h[2])
  PROVE  \E before : canonicalize(raw) = InOrderOf(raw, Order(Len(raw), before))
<1> DEFINE r == [k \in DOMAIN raw |-> Ordered(raw[k])]
           before == {p \in (DOMAIN r) \X (DOMAIN r) : Before(r[p[1]], r[p[2]])}
           s == Sorted(r, Before)
<1>1. canonicalize(raw) = Coalescing(s, Len(s)) BY Zenon DEF canonicalize, Coalescing
<1>2. s = [k \in DOMAIN r |-> r[Order(Len(r), before)[k]]] BY Zenon DEF Sorted
<1>3. r = raw
  <2>1. raw = [k \in DOMAIN raw |-> raw[k]] OBVIOUS
  <2>2. \A k \in DOMAIN raw : Ordered(raw[k]) = raw[k] BY DEF Ordered
  <2> QED BY <2>1, <2>2
<1> HIDE DEF r, before, s
<1>4. s = InOrderOf(raw, Order(Len(raw), before)) BY <1>2, <1>3 DEF InOrderOf
<1> DEFINE o == Order(Len(raw), before)
<1>5. L!IsSeq(raw) BY DEF L!IsSeq
<1>6. /\ Permutes(o, Len(raw)) /\ L!IsSeq(s) /\ Len(s) = Len(raw)
      /\ \A k \in 1..Len(raw) : o[k] \in 1..Len(raw) /\ s[k] = raw[o[k]]
  BY <1>4, <1>5, OrderedSequence
<1> HIDE DEF o
<1>7. Apart(s)
  <2> SUFFICES ASSUME NEW i \in 1..Len(s), NEW j \in 1..Len(s), s[i].g = s[j].g, s[i].h = s[j].h
               PROVE  i = j
    BY DEF Apart
  <2>1. o[i] \in 1..Len(raw) /\ o[j] \in 1..Len(raw) /\ s[i] = raw[o[i]] /\ s[j] = raw[o[j]] BY <1>6
  <2>2. o[i] = o[j] BY <2>1 DEF Apart
  <2>3. \A x, y \in 1..Len(raw) : o[x] = o[y] => x = y BY <1>6, Zenon DEF Permutes
  <2> QED BY <1>6, <2>2, <2>3
<1> QED BY <1>1, <1>4, <1>6, <1>7, NothingCoalesces

(* what const_iterator has after k terms *)
Walked(q, n) ==
  LET it[k \in 0..n] ==
        IF k = 0 THEN [g |-> 0, h |-> <<0, 0>>]
        ELSE [g |-> Wrap(it[k - 1].g + q[k].g),
              h |-> <<Wrap(it[k - 1].h[1] + q[k].h[1]), Wrap(it[k - 1].h[2] + q[k].h[2])>>]
  IN  it
WalkStep(q, k, x) ==
  [g |-> Wrap(x.g + q[k].g),
   h |-> <<Wrap(x.h[1] + q[k].h[1]), Wrap(x.h[2] + q[k].h[2])>>]
Walks(q, f, n) == f = [k \in 0..n |-> IF k = 0 THEN [g |-> 0, h |-> <<0, 0>>] ELSE WalkStep(q, k, f[k - 1])]

(* The recursive function of Walked exists. *)
LEMMA WalkExists ==
  ASSUME NEW q, NEW n \in Nat
  PROVE  \E f : Walks(q, f, n)
<1> DEFINE S == {m \in Nat : \E f : Walks(q, f, m)}
<1>1. 0 \in S
  <2> DEFINE f == [k \in 0..0 |-> [g |-> 0, h |-> <<0, 0>>]]
  <2>1. Walks(q, f, 0)
    <3>1. \A k \in 0..0 : k = 0 OBVIOUS
    <3> QED BY <3>1, Zenon DEF Walks
  <2> QED BY <2>1
<1>2. ASSUME NEW m \in Nat, m \in S PROVE m + 1 \in S
  <2>1. PICK f : Walks(q, f, m) BY <1>2
  <2>0. \A k \in 0..m : f[k] = IF k = 0 THEN [g |-> 0, h |-> <<0, 0>>] ELSE WalkStep(q, k, f[k - 1])
    BY <2>1, Zenon DEF Walks
  <2> DEFINE h == [k \in 0..(m + 1) |-> IF k \in 0..m THEN f[k] ELSE WalkStep(q, k, f[k - 1])]
  <2>2. ASSUME NEW k \in 0..(m + 1)
        PROVE  h[k] = IF k = 0 THEN [g |-> 0, h |-> <<0, 0>>] ELSE WalkStep(q, k, h[k - 1])
    <3>1. h[k] = IF k \in 0..m THEN f[k] ELSE WalkStep(q, k, f[k - 1]) OBVIOUS
    <3>2. CASE k = 0
      <4>1. 0 \in 0..m OBVIOUS
      <4> QED BY <2>0, <3>1, <3>2, <4>1
    <3>3. CASE k # 0
      <4>1. k - 1 \in 0..m /\ k - 1 \in 0..(m + 1) BY <3>3
      <4>2. h[k - 1] = f[k - 1] BY <4>1
      <4> HIDE DEF h
      <4> QED BY <2>0, <3>1, <3>3, <4>2, Zenon
    <3> QED BY <3>2, <3>3
  <2> DEFINE e == [k \in 0..(m + 1) |-> IF k = 0 THEN [g |-> 0, h |-> <<0, 0>>] ELSE WalkStep(q, k, h[k - 1])]
  <2>3. h = e
    <3>1. \A k \in 0..(m + 1) : h[k] = e[k] BY <2>2, Zenon
    <3> QED BY <3>1, Zenon
  <2>4. Walks(q, h, m + 1) BY <2>3, Zenon DEF Walks
  <2> QED BY <2>4
<1>3. \A k \in Nat : k \in S BY <1>1, <1>2, L!Induction, Zenon
<1> QED BY <1>3

(* Walked is the last value of that function. *)
LEMMA WalkIs ==
  ASSUME NEW q, NEW n \in Nat
  PROVE  \E f : /\ Walked(q, n) = f /\ f[0] = [g |-> 0, h |-> <<0, 0>>]
               /\ \A k \in 1..n : f[k] = WalkStep(q, k, f[k - 1])
<1> DEFINE g == CHOOSE f : f = [k \in 0..n |-> IF k = 0 THEN [g |-> 0, h |-> <<0, 0>>] ELSE WalkStep(q, k, f[k - 1])]
<1>1. \E f : f = [k \in 0..n |-> IF k = 0 THEN [g |-> 0, h |-> <<0, 0>>] ELSE WalkStep(q, k, f[k - 1])]
  BY WalkExists, Zenon DEF Walks
<1>2. g = [k \in 0..n |-> IF k = 0 THEN [g |-> 0, h |-> <<0, 0>>] ELSE WalkStep(q, k, g[k - 1])] BY <1>1, Zenon
<1>3. Walked(q, n) = g BY Zenon DEF Walked, WalkStep
<1> HIDE DEF g
<1>4. \A k \in 0..n : g[k] = IF k = 0 THEN [g |-> 0, h |-> <<0, 0>>] ELSE WalkStep(q, k, g[k - 1]) BY <1>2, Zenon
<1>5. g[0] = [g |-> 0, h |-> <<0, 0>>]
  <2>1. 0 \in 0..n OBVIOUS
  <2> QED BY <1>4, <2>1, Zenon
<1>6. \A k \in 1..n : k \in 0..n /\ k # 0 OBVIOUS
<1>7. \A k \in 1..n : g[k] = WalkStep(q, k, g[k - 1]) BY <1>4, <1>6, Zenon
<1> QED BY <1>3, <1>5, <1>7

(* A number below a modulus is its remainder, also with the modulus added. *)
LEMMA SmallRemainder ==
  ASSUME NEW m \in Nat, NEW x \in 0..(m - 1)
  PROVE  x % m = x /\ (m + x) % m = x
<1>1. m > 0 /\ m \in Int /\ x \in Int OBVIOUS
<1>2. ASSUME NEW y \in Nat, y = x \/ y = m + x PROVE y % m = x
  <2>1. /\ y \div m \in Int /\ y % m \in 0..(m - 1) /\ y = m * (y \div m) + (y % m)
    BY <1>1, <1>2, SMT
  <2> DEFINE q == y \div m   r == y % m
  <2> HIDE DEF q, r
  <2>2. q \in Int /\ r \in 0..(m - 1) /\ y = m * q + r BY <2>1 DEF q, r
  <2>3. r = x
    <3>1. CASE q <= -1
      <4>1. m * (-1 - q) \in Nat /\ m * (-1 - q) = -m - m * q /\ m * q \in Int BY <1>1, <2>2, <3>1, SMT
      <4> QED BY <1>1, <1>2, <2>2, <4>1, SMT
    <3>2. CASE q = 0
      <4>1. m * q = 0 BY <1>1, <3>2
      <4> QED BY <1>1, <1>2, <2>2, <4>1, SMT
    <3>3. CASE q = 1
      <4>1. m * q = m BY <1>1, <3>3
      <4> QED BY <1>1, <1>2, <2>2, <4>1, SMT
    <3>4. CASE q >= 2
      <4>1. m * (q - 2) \in Nat /\ m * (q - 2) = m * q - 2 * m /\ m * q \in Int BY <1>1, <2>2, <3>4, SMT
      <4> QED BY <1>1, <1>2, <2>2, <4>1, SMT
    <3> QED BY <2>2, <3>1, <3>2, <3>3, <3>4
  <2> QED BY <2>3 DEF r
<1>3. x \in Nat /\ m + x \in Nat OBVIOUS
<1> QED BY <1>2, <1>3

(* A difference of corners added to the first gives the second.            *)
LEMMA WrapReadsBack ==
  ASSUME NEW a \in Spot, NEW b \in Spot
  PROVE  Wrap(a) = a /\ Wrap(b + Wrap(a + (Corners - b))) = a
<1>1. Corners \in Nat BY CornersAssumption
<1>2. a \in 0..(Corners - 1) /\ b \in 0..(Corners - 1) BY DEF Spot
<1>3. Wrap(a) = a BY <1>1, <1>2, SmallRemainder DEF Wrap
<1>4. CASE a >= b
  <2>1. a - b \in 0..(Corners - 1) /\ a + (Corners - b) = Corners + (a - b) BY <1>1, <1>2, <1>4
  <2>2. (Corners + (a - b)) % Corners = a - b BY <1>1, <2>1, SmallRemainder
  <2>3. Wrap(a + (Corners - b)) = a - b BY <2>1, <2>2 DEF Wrap
  <2>4. b + (a - b) = a BY <1>2
  <2> QED BY <1>3, <2>3, <2>4
<1>5. CASE ~(a >= b)
  <2>1. a + (Corners - b) \in 0..(Corners - 1) BY <1>1, <1>2, <1>5
  <2>2. Wrap(a + (Corners - b)) = a + (Corners - b) BY <1>1, <2>1, SmallRemainder DEF Wrap
  <2>3. b + (a + (Corners - b)) = Corners + a BY <1>1, <1>2
  <2>4. (Corners + a) % Corners = a BY <1>1, <1>2, SmallRemainder
  <2> QED BY <1>3, <2>2, <2>3, <2>4 DEF Wrap
<1> QED BY <1>4, <1>5

(* Quad::const_iterator goes through the terms that were compressed.       *)
LEMMA IterateCompress ==
  ASSUME NEW ec \in Seq(Cell)
  PROVE  iterate(compress(ec)) = ec
<1> DEFINE q == compress(ec)
<1>1. Len(ec) \in Nat /\ DOMAIN ec = 1..Len(ec) OBVIOUS
<1>2. \A k \in 1..Len(ec) : /\ ec[k] \in Cell /\ ec[k].g \in Spot /\ ec[k].v \in Elt
                            /\ ec[k].h = <<ec[k].h[1], ec[k].h[2]>> /\ ec[k].h[1] \in Spot /\ ec[k].h[2] \in Spot
                            /\ ec[k] = [g |-> ec[k].g, h |-> ec[k].h, v |-> ec[k].v]
  <2> TAKE k \in 1..Len(ec)
  <2>1. ec[k] \in Cell BY <1>1
  <2> DEFINE e == ec[k]
  <2> HIDE DEF e
  <2>2. e \in Cell BY <2>1 DEF e
  <2>3. e.g \in Spot /\ e.v \in Elt /\ e.h \in Spot \X Spot BY <2>2 DEF Cell
  <2>4. e = [g |-> e.g, h |-> e.h, v |-> e.v] BY <2>2 DEF Cell
  <2>5. e.h = <<e.h[1], e.h[2]>> /\ e.h[1] \in Spot /\ e.h[2] \in Spot BY <2>3
  <2> QED BY <2>2, <2>3, <2>4, <2>5 DEF e
<1>3. \A k \in 1..Len(ec) :
        q[k] = IF k = 1 THEN ec[1]
               ELSE [g |-> Wrap(ec[k].g + (Corners - ec[k - 1].g)),
                     h |-> <<Wrap(ec[k].h[1] + (Corners - ec[k - 1].h[1])),
                             Wrap(ec[k].h[2] + (Corners - ec[k - 1].h[2]))>>,
                     v |-> ec[k].v]
  BY <1>1 DEF compress
<1>4. q = [k \in 1..Len(ec) |-> q[k]] BY <1>1 DEF compress
<1> HIDE DEF q
<1>5. Len(q) = Len(ec) /\ DOMAIN q = 1..Len(ec) BY <1>1, <1>4, L!SequenceOfLength
<1> DEFINE w == Walked(q, Len(ec))
<1>6. iterate(q) = [k \in 1..Len(ec) |-> [g |-> w[k].g, h |-> w[k].h, v |-> q[k].v]]
  <2>1. iterate(q) = [k \in DOMAIN q |-> [g |-> Walked(q, Len(q))[k].g, h |-> Walked(q, Len(q))[k].h, v |-> q[k].v]]
    BY Zenon DEF iterate, Walked
  <2> QED BY <1>5, <2>1
<1> HIDE DEF w
<1>7. w[0] = [g |-> 0, h |-> <<0, 0>>] /\ \A k \in 1..Len(ec) : w[k] = WalkStep(q, k, w[k - 1])
  <2>1. \E f : Walked(q, Len(ec)) = f /\ f[0] = [g |-> 0, h |-> <<0, 0>>]
               /\ \A k \in 1..Len(ec) : f[k] = WalkStep(q, k, f[k - 1])
    BY <1>1, WalkIs
  <2> QED BY <2>1 DEF w
<1> DEFINE S == {m \in Nat : m \in 1..Len(ec) =>
                   w[m].g = ec[m].g /\ w[m].h = ec[m].h /\ q[m].v = ec[m].v}
<1>8. 0 \in S OBVIOUS
<1>9. ASSUME NEW m \in Nat, m \in S PROVE m + 1 \in S
  <2> SUFFICES ASSUME m + 1 \in 1..Len(ec)
               PROVE  /\ w[m + 1].g = ec[m + 1].g /\ w[m + 1].h = ec[m + 1].h
                      /\ q[m + 1].v = ec[m + 1].v
    OBVIOUS
  <2>1. (m + 1) - 1 = m OBVIOUS
  <2>2. /\ w[m + 1].g = Wrap(w[m].g + q[m + 1].g)
        /\ w[m + 1].h = <<Wrap(w[m].h[1] + q[m + 1].h[1]), Wrap(w[m].h[2] + q[m + 1].h[2])>>
    <3>1. w[m + 1] = WalkStep(q, m + 1, w[m]) BY <1>7, <2>1
    <3> QED BY <3>1 DEF WalkStep
  <2> DEFINE e == ec[m + 1]
  <2>3. /\ e.g \in Spot /\ e.h = <<e.h[1], e.h[2]>> /\ e.h[1] \in Spot /\ e.h[2] \in Spot
    BY <1>2
  <2>4. CASE m = 0
    <3>1. q[m + 1] = e
      <4>1. m + 1 = 1 /\ 1 \in 1..Len(ec) BY <2>4
      <4>2. q[1] = ec[1] BY <1>3, <4>1
      <4> QED BY <4>1, <4>2
    <3>2. \A x \in Spot : 0 + x = x /\ Wrap(x) = x
      <4>1. \A x \in Spot : x \in Int BY CornersAssumption DEF Spot
      <4> QED BY <4>1, WrapReadsBack
    <3>3. w[m].g = 0 /\ w[m].h[1] = 0 /\ w[m].h[2] = 0 BY <1>7, <2>4
    <3> HIDE DEF e
    <3>4. w[m + 1].g = e.g /\ w[m + 1].h = e.h BY <2>2, <2>3, <3>1, <3>2, <3>3
    <3> QED BY <3>1, <3>4 DEF e
  <2>5. CASE m # 0
    <3>1. m \in 1..Len(ec) /\ m + 1 # 1 BY <2>5
    <3>2. w[m].g = ec[m].g /\ w[m].h = ec[m].h BY <1>9, <3>1
    <3>3. ec[m].g \in Spot /\ ec[m].h[1] \in Spot /\ ec[m].h[2] \in Spot BY <1>2, <3>1
    <3>4. /\ q[m + 1].g = Wrap(e.g + (Corners - ec[m].g))
          /\ q[m + 1].h[1] = Wrap(e.h[1] + (Corners - ec[m].h[1]))
          /\ q[m + 1].h[2] = Wrap(e.h[2] + (Corners - ec[m].h[2]))
          /\ q[m + 1].v = e.v
      <4>1. q[m + 1] = [g |-> Wrap(e.g + (Corners - ec[(m + 1) - 1].g)),
                        h |-> <<Wrap(e.h[1] + (Corners - ec[(m + 1) - 1].h[1])),
                                Wrap(e.h[2] + (Corners - ec[(m + 1) - 1].h[2]))>>,
                        v |-> e.v]
        BY <1>3, <3>1
      <4> HIDE DEF e
      <4> QED BY <2>1, <4>1
    <3> HIDE DEF e
    <3>5. w[m + 1].g = e.g BY <2>2, <2>3, <3>2, <3>3, <3>4, WrapReadsBack
    <3>6. Wrap(w[m].h[1] + q[m + 1].h[1]) = e.h[1] BY <2>3, <3>2, <3>3, <3>4, WrapReadsBack
    <3>7. Wrap(w[m].h[2] + q[m + 1].h[2]) = e.h[2] BY <2>3, <3>2, <3>3, <3>4, WrapReadsBack
    <3>8. w[m + 1].h = e.h BY <2>2, <2>3, <3>6, <3>7
    <3> QED BY <3>4, <3>5, <3>8 DEF e
  <2> QED BY <2>4, <2>5
<1>10. \A m \in 1..Len(ec) : w[m].g = ec[m].g /\ w[m].h = ec[m].h /\ q[m].v = ec[m].v
  <2>1. \A m \in Nat : m \in S
    <3> HIDE DEF S
    <3> QED BY <1>8, <1>9, L!Induction, Zenon
  <2> QED BY <2>1
<1>11. iterate(q) = [k \in 1..Len(ec) |-> ec[k]] BY <1>2, <1>6, <1>10
<1>12. ec = [k \in 1..Len(ec) |-> ec[k]] BY <1>1
<1> QED BY <1>11, <1>12 DEF q

-----------------------------------------------------------------------------
(* What is needed *)

(* A node is deeper than its operands.                                     *)
LEMMA Depths ==
  ASSUME NEW ns, Ok(ns), NEW i \in Ops(ns)
  PROVE  /\ ns[i].depth \in Nat
         /\ \A j \in 1..Len(ns[i].terms) :
              /\ ns[ns[i].terms[j].op0].depth \in Nat /\ ns[ns[i].terms[j].op0].depth < ns[i].depth
              /\ ns[ns[i].terms[j].op1].depth \in Nat /\ ns[ns[i].terms[j].op1].depth < ns[i].depth
         /\ ns[i].terms = <<>> => ns[i].depth = 0
         /\ Len(ns[i].terms) = 1 =>
              ns[i].depth = 1 + Upper(ns[ns[i].terms[1].op0].depth, ns[ns[i].terms[1].op1].depth)
<1> DEFINE n == ns[i]   ts == ns[i].terms
           h == [j \in 1..Len(ts) |-> 1 + Upper(ns[ts[j].op0].depth, ns[ts[j].op1].depth)]
           D == {0} \union {h[j] : j \in 1..Len(ts)}
<1>1. /\ n \in NodeType /\ ts \in Seq(TermType) /\ Len(ts) \in Nat /\ DOMAIN ts = 1..Len(ts)
      /\ \A j \in 1..Len(ts) : ts[j].op0 \in Ops(ns) /\ ts[j].op1 \in Ops(ns)
  BY NodeFacts
<1>2. \A x \in Ops(ns) : ns[x].depth \in Nat
  <2>1. \A x \in Ops(ns) : ns[x] \in NodeType BY NodeFacts
  <2> QED BY <2>1 DEF NodeType
<1>3. ASSUME NEW j \in 1..Len(ts)
      PROVE  /\ h[j] = 1 + Upper(ns[ts[j].op0].depth, ns[ts[j].op1].depth) /\ h[j] \in Nat
             /\ ns[ts[j].op0].depth < h[j] /\ ns[ts[j].op1].depth < h[j]
  <2>1. ns[ts[j].op0].depth \in Nat /\ ns[ts[j].op1].depth \in Nat BY <1>1, <1>2
  <2>2. h[j] = 1 + Upper(ns[ts[j].op0].depth, ns[ts[j].op1].depth) OBVIOUS
  <2> DEFINE d0 == ns[ts[j].op0].depth   d1 == ns[ts[j].op1].depth   x == h[j]
  <2>3. d0 \in Nat /\ d1 \in Nat /\ x = 1 + Upper(d0, d1) BY <2>1, <2>2, Zenon
  <2> HIDE DEF h, d0, d1, x, n, ts
  <2>4. x \in Nat /\ d0 < x /\ d1 < x BY <2>3, SMT DEF Upper
  <2> QED BY <2>2, <2>4, Zenon DEF d0, d1, x
<1>4. n.depth = CHOOSE x \in D : \A y \in D : x >= y
  <2>1. n.depth = DepthOf(ns, n) BY DEF Ok, InOrder
  <2>2. D = {0} \union {1 + Upper(ns[t.op0].depth, ns[t.op1].depth) : t \in Seqs!ToSet(n.terms)}
    <3>1. Seqs!ToSet(n.terms) = {ts[j] : j \in 1..Len(ts)} BY <1>1 DEF Seqs!ToSet
    <3>2. \A j \in 1..Len(ts) : h[j] = 1 + Upper(ns[ts[j].op0].depth, ns[ts[j].op1].depth) OBVIOUS
    <3> HIDE DEF h, ts, n
    <3>3. {1 + Upper(ns[t.op0].depth, ns[t.op1].depth) : t \in Seqs!ToSet(n.terms)} = {h[j] : j \in 1..Len(ts)}
      BY <3>1, <3>2
    <3> QED BY <3>3
  <2> QED BY <2>1, <2>2, Zenon DEF DepthOf, Seqs!Max
<1>5. \E m \in D : \A x \in D : m >= x
  <2>1. \A j \in 1..Len(ts) : h[j] \in Nat BY <1>3
  <2> HIDE DEF h
  <2> QED BY <1>1, <2>1, LargestExists, Zenon
<1>6. n.depth \in D /\ \A y \in D : n.depth >= y
  <2> HIDE DEF D, n
  <2> QED BY <1>4, <1>5
<1>7. n.depth \in Nat BY <1>2
<1>8. ASSUME NEW j \in 1..Len(ts)
      PROVE  /\ ns[ts[j].op0].depth \in Nat /\ ns[ts[j].op0].depth < n.depth
             /\ ns[ts[j].op1].depth \in Nat /\ ns[ts[j].op1].depth < n.depth
  <2>1. n.depth >= h[j]
    <3>1. h[j] \in D
      <4> HIDE DEF h
      <4> QED OBVIOUS
    <3> HIDE DEF D, h, n
    <3> QED BY <1>6, <3>1
  <2> DEFINE d0 == ns[ts[j].op0].depth   d1 == ns[ts[j].op1].depth   x == h[j]   y == n.depth
  <2>2. d0 \in Nat /\ d1 \in Nat /\ x \in Nat /\ y \in Nat /\ d0 < x /\ d1 < x /\ y >= x
    <3> HIDE DEF h
    <3> QED BY <1>1, <1>2, <1>3, <1>7, <2>1
  <2> HIDE DEF d0, d1, x, y
  <2>3. d0 \in Nat /\ d0 < y /\ d1 \in Nat /\ d1 < y BY <2>2
  <2> QED BY <2>3, Zenon DEF d0, d1, y
<1>9. ts = <<>> => n.depth = 0
  <2> SUFFICES ASSUME ts = <<>> PROVE n.depth = 0 OBVIOUS
  <2>1. Len(ts) = 0 OBVIOUS
  <2>2. D = {0}
    <3>1. 1..Len(ts) = {} BY <2>1
    <3> HIDE DEF h, ts
    <3> QED BY <3>1
  <2> HIDE DEF D, n
  <2> QED BY <1>6, <2>2
<1>10. Len(ts) = 1 => n.depth = 1 + Upper(ns[ts[1].op0].depth, ns[ts[1].op1].depth)
  <2>5. Len(ts) = 1 => h[1] = 1 + Upper(ns[ts[1].op0].depth, ns[ts[1].op1].depth)
    <3> HIDE DEF h, ts
    <3> QED BY <1>3
  <2> SUFFICES ASSUME Len(ts) = 1 PROVE n.depth = h[1]
    <3> HIDE DEF h, n
    <3> QED BY <2>5
  <2>1. 1 \in 1..Len(ts) /\ 1..Len(ts) = {1} OBVIOUS
  <2>2. D = {0, h[1]}
    <3> HIDE DEF h, ts
    <3> QED BY <2>1
  <2>3. h[1] \in Nat BY <1>3, <2>1
  <2>4. h[1] > 0
    <3>1. ns[ts[1].op0].depth \in Nat /\ ns[ts[1].op0].depth < h[1] BY <1>1, <1>2, <1>3, <2>1
    <3> HIDE DEF h
    <3> QED BY <2>3, <3>1
  <2> HIDE DEF D, n, h
  <2> QED BY <1>6, <2>2, <2>3, <2>4
<1> QED BY <1>7, <1>8, <1>9, <1>10

(* Node 0 is at depth 0.                                                   *)
LEMMA DepthOfOne == ASSUME NEW ns, Ok(ns) PROVE 0 \in Ops(ns) /\ ns[0].is_input /\ ns[0].depth = 0 /\ ns[0].terms = <<>>
<1>1. 0 \in Ops(ns) /\ ns[0].is_input /\ ns[0].terms = <<>> BY DEF Ok, Typed
<1> QED BY <1>1, Depths

(* outputs and assertions are within the layers *)
Within(ns, ub) ==
  /\ Ok(ns) /\ ub \in Nat /\ ub >= 1
  /\ \A i \in Ops(ns) : ns[i].is_output \/ ns[i].is_assert0 => ns[i].depth + 1 <= ub

(* what marking maintains: a node is needed in a layer above its own, up   *)
(* to the outputs; what is copied has the constant to be copied with; and  *)
(* only outputs and assertions are needed at the end                       *)
Needed(ns, ub, need) ==
  /\ need \in [Ops(ns) -> Nat]
  /\ \A i \in Ops(ns) : need[i] > 0 => ns[i].depth < need[i] /\ need[i] <= ub
  /\ \A i \in Ops(ns) : need[i] > ns[i].depth + 1 => need[0] >= need[i] - 1
  /\ ub >= 2 => \A i \in Ops(ns) : need[i] = ub => ns[i].is_output \/ ns[i].is_assert0

(* what a visit does for a node *)
Served(ns, ub, need, i) ==
  /\ ns[i].is_input => need[i] >= 1
  /\ ns[i].is_output => need[i] >= ub
  /\ ns[i].is_assert0 => need[i] >= ns[i].depth + 1
  /\ need[i] > 0 => \A j \in 1..Len(ns[i].terms) :
                      need[ns[i].terms[j].op0] >= ns[i].depth /\ need[ns[i].terms[j].op1] >= ns[i].depth

Raised(ns, need, m) == \A i \in Ops(ns) : need[i] <= m[i]

(* Marking a node in a layer above its own.                                *)
LEMMA Marking ==
  ASSUME NEW ns, NEW ub, Within(ns, ub), NEW need, Needed(ns, ub, need), NEW op \in Ops(ns), NEW d \in Nat,
         ns[op].depth < d, d <= ub, ub >= 2 /\ d = ub => ns[op].is_output \/ ns[op].is_assert0
  PROVE  LET m == mark_needed(ns, need, op, d)
         IN  /\ Needed(ns, ub, m) /\ Raised(ns, need, m) /\ m[op] >= d
             /\ \A i \in Ops(ns) : i # op /\ i # 0 => m[i] = need[i]
<1> DEFINE m == mark_needed(ns, need, op, d)
           a == [need EXCEPT ![op] = Upper(@, d)]
<1>1. 0 \in Ops(ns) /\ ns[0].depth = 0 BY DepthOfOne DEF Within
<1>2. \A i \in Ops(ns) : ns[i].depth \in Nat BY Depths DEF Within
<1>3. need \in [Ops(ns) -> Nat] /\ ub \in Nat /\ ub >= 1 BY DEF Needed, Within
<1>4. a \in [Ops(ns) -> Nat] /\ a[op] = Upper(need[op], d) /\ \A i \in Ops(ns) : i # op => a[i] = need[i]
  BY <1>3 DEF Upper
<1>5. m = IF d > ns[op].depth + 1 THEN [a EXCEPT ![0] = Upper(@, d - 1)] ELSE a BY DEF mark_needed
<1> HIDE DEF a, m
<1>6. m \in [Ops(ns) -> Nat]
  <2>1. CASE d > ns[op].depth + 1
    <3>1. d - 1 \in Nat BY <1>2, <2>1
    <3>2. Upper(a[0], d - 1) \in Nat BY <1>1, <1>4, <3>1 DEF Upper
    <3> QED BY <1>1, <1>4, <1>5, <2>1, <3>2
  <2> QED BY <1>4, <1>5, <2>1
<1>7. \A i \in Ops(ns) : i # 0 => m[i] = a[i] BY <1>4, <1>5
<1>8. IF d > ns[op].depth + 1 THEN m[0] = Upper(a[0], d - 1) ELSE m[0] = a[0] BY <1>1, <1>4, <1>5
<1>9. \A i \in Ops(ns) : need[i] \in Nat /\ a[i] \in Nat /\ m[i] \in Nat BY <1>3, <1>4, <1>6
<1>0. d > ns[op].depth + 1 => d - 1 \in Nat
  <2>1. ns[op].depth \in Nat BY <1>2
  <2> QED BY <2>1
<1>10. \A i \in Ops(ns) : IF i = op THEN a[i] = Upper(need[i], d) ELSE a[i] = need[i] BY <1>4
<1>11. Raised(ns, need, m)
  <2> SUFFICES ASSUME NEW i \in Ops(ns) PROVE need[i] <= m[i] BY DEF Raised
  <2>1. need[i] <= a[i] BY <1>9, <1>10 DEF Upper
  <2>2. a[i] <= m[i]
    <3>1. CASE i # 0 BY <1>7, <1>9, <3>1
    <3>2. CASE i = 0 /\ d > ns[op].depth + 1
      <4>1. d - 1 \in Nat BY <1>0, <3>2
      <4> QED BY <1>8, <1>9, <3>2, <4>1 DEF Upper
    <3>3. CASE i = 0 /\ ~(d > ns[op].depth + 1) BY <1>8, <1>9, <3>3
    <3> QED BY <3>1, <3>2, <3>3
  <2> QED BY <1>9, <2>1, <2>2
<1>12. m[op] >= d
  <2>1. a[op] >= d BY <1>9, <1>10 DEF Upper
  <2>2. a[op] <= m[op]
    <3>1. CASE op # 0 BY <1>7, <1>9, <3>1
    <3>2. CASE op = 0 /\ d > ns[op].depth + 1
      <4>1. d - 1 \in Nat BY <1>0, <3>2
      <4> QED BY <1>8, <1>9, <3>2, <4>1 DEF Upper
    <3>3. CASE op = 0 /\ ~(d > ns[op].depth + 1) BY <1>8, <1>9, <3>3
    <3> QED BY <3>1, <3>2, <3>3
  <2> QED BY <1>9, <2>1, <2>2
<1>13. \A i \in Ops(ns) : m[i] = need[i] \/ (i = op /\ m[i] = d) \/ (i = 0 /\ d > ns[op].depth + 1 /\ m[i] = d - 1)
  <2> TAKE i \in Ops(ns)
  <2>1. a[i] = need[i] \/ (i = op /\ a[i] = d) BY <1>10 DEF Upper
  <2>2. m[i] = a[i] \/ (i = 0 /\ d > ns[op].depth + 1 /\ m[i] = d - 1) BY <1>7, <1>8 DEF Upper
  <2> QED BY <2>1, <2>2
<1>14. Needed(ns, ub, m)
  <2>1. ASSUME NEW i \in Ops(ns), m[i] > 0 PROVE ns[i].depth < m[i] /\ m[i] <= ub
    <3>1. CASE m[i] = need[i] BY <2>1, <3>1 DEF Needed
    <3>2. CASE i = op /\ m[i] = d BY <3>2
    <3>3. CASE i = 0 /\ m[i] = d - 1 BY <1>1, <1>3, <2>1, <3>3
    <3> QED BY <1>13, <3>1, <3>2, <3>3
  <2>2. ASSUME NEW i \in Ops(ns), m[i] > ns[i].depth + 1 PROVE m[0] >= m[i] - 1
    <3>1. CASE m[i] = need[i]
      <4>1. need[0] >= m[i] - 1 BY <2>2, <3>1 DEF Needed
      <4>2. need[0] <= m[0] BY <1>1, <1>11 DEF Raised
      <4> QED BY <1>1, <1>9, <4>1, <4>2
    <3>2. CASE i = op /\ m[i] = d
      <4>1. m[0] = Upper(a[0], d - 1) /\ d - 1 \in Nat BY <1>0, <1>8, <2>2, <3>2
      <4> QED BY <1>1, <1>9, <3>2, <4>1 DEF Upper
    <3>3. CASE i = 0 BY <1>9, <3>3
    <3> QED BY <1>13, <3>1, <3>2, <3>3
  <2>3. ASSUME ub >= 2, NEW i \in Ops(ns), m[i] = ub PROVE ns[i].is_output \/ ns[i].is_assert0
    <3>1. CASE m[i] = need[i] BY <2>3, <3>1 DEF Needed
    <3>2. CASE i = op /\ m[i] = d BY <2>3, <3>2
    <3>3. CASE m[i] = d - 1 BY <1>3, <2>3, <3>3
    <3> QED BY <1>13, <3>1, <3>2, <3>3
  <2> QED BY <1>6, <2>1, <2>2, <2>3 DEF Needed
<1>15. \A i \in Ops(ns) : i # op /\ i # 0 => m[i] = need[i] BY <1>7, <1>10
<1> QED BY <1>11, <1>12, <1>14, <1>15 DEF m

OperandsMarked(ns, need, e, n) ==
  LET m[k \in 0..n] ==
        IF k = 0 THEN need
        ELSE mark_needed(ns, mark_needed(ns, m[k - 1], e.terms[k].op0, e.depth), e.terms[k].op1, e.depth)
  IN  m[n]
OperandStep(ns, need, e, k, x) ==
  mark_needed(ns, mark_needed(ns, x, e.terms[k].op0, e.depth), e.terms[k].op1, e.depth)
Operands(ns, need, e, f, n) == f = [k \in 0..n |-> IF k = 0 THEN need ELSE OperandStep(ns, need, e, k, f[k - 1])]

(* The recursive function of OperandsMarked exists. *)
LEMMA OperandExists ==
  ASSUME NEW ns, NEW need, NEW e, NEW n \in Nat
  PROVE  \E f : Operands(ns, need, e, f, n)
<1> DEFINE S == {m \in Nat : \E f : Operands(ns, need, e, f, m)}
<1>1. 0 \in S
  <2> DEFINE f == [k \in 0..0 |-> need]
  <2>1. Operands(ns, need, e, f, 0)
    <3>1. \A k \in 0..0 : k = 0 OBVIOUS
    <3> QED BY <3>1, Zenon DEF Operands
  <2> QED BY <2>1
<1>2. ASSUME NEW m \in Nat, m \in S PROVE m + 1 \in S
  <2>1. PICK f : Operands(ns, need, e, f, m) BY <1>2
  <2>0. \A k \in 0..m : f[k] = IF k = 0 THEN need ELSE OperandStep(ns, need, e, k, f[k - 1])
    BY <2>1, Zenon DEF Operands
  <2> DEFINE h == [k \in 0..(m + 1) |-> IF k \in 0..m THEN f[k] ELSE OperandStep(ns, need, e, k, f[k - 1])]
  <2>2. ASSUME NEW k \in 0..(m + 1)
        PROVE  h[k] = IF k = 0 THEN need ELSE OperandStep(ns, need, e, k, h[k - 1])
    <3>1. h[k] = IF k \in 0..m THEN f[k] ELSE OperandStep(ns, need, e, k, f[k - 1]) OBVIOUS
    <3>2. CASE k = 0
      <4>1. 0 \in 0..m OBVIOUS
      <4> QED BY <2>0, <3>1, <3>2, <4>1
    <3>3. CASE k # 0
      <4>1. k - 1 \in 0..m /\ k - 1 \in 0..(m + 1) BY <3>3
      <4>2. h[k - 1] = f[k - 1] BY <4>1
      <4> HIDE DEF h
      <4> QED BY <2>0, <3>1, <3>3, <4>2, Zenon
    <3> QED BY <3>2, <3>3
  <2> DEFINE again == [k \in 0..(m + 1) |-> IF k = 0 THEN need ELSE OperandStep(ns, need, e, k, h[k - 1])]
  <2>3. h = again
    <3>1. \A k \in 0..(m + 1) : h[k] = again[k] BY <2>2, Zenon
    <3> QED BY <3>1, Zenon
  <2>4. Operands(ns, need, e, h, m + 1) BY <2>3, Zenon DEF Operands
  <2> QED BY <2>4
<1>3. \A k \in Nat : k \in S BY <1>1, <1>2, L!Induction, Zenon
<1> QED BY <1>3

(* OperandsMarked is the last value of that function. *)
LEMMA OperandIs ==
  ASSUME NEW ns, NEW need, NEW e, NEW n \in Nat
  PROVE  \E f : /\ OperandsMarked(ns, need, e, n) = f[n] /\ f[0] = need
               /\ \A k \in 1..n : f[k] = OperandStep(ns, need, e, k, f[k - 1])
<1> DEFINE g == CHOOSE f : f = [k \in 0..n |-> IF k = 0 THEN need ELSE OperandStep(ns, need, e, k, f[k - 1])]
<1>1. \E f : f = [k \in 0..n |-> IF k = 0 THEN need ELSE OperandStep(ns, need, e, k, f[k - 1])]
  <2>1. \E f : Operands(ns, need, e, f, n) BY OperandExists, Zenon
  <2> QED BY <2>1, Zenon DEF Operands
<1>2. g = [k \in 0..n |-> IF k = 0 THEN need ELSE OperandStep(ns, need, e, k, g[k - 1])] BY <1>1, Zenon
<1>3. OperandsMarked(ns, need, e, n) = g[n] BY Zenon DEF OperandsMarked, OperandStep
<1> HIDE DEF g
<1>4. \A k \in 0..n : g[k] = IF k = 0 THEN need ELSE OperandStep(ns, need, e, k, g[k - 1]) BY <1>2, Zenon
<1>5. g[0] = need
  <2>1. 0 \in 0..n OBVIOUS
  <2> QED BY <1>4, <2>1, Zenon
<1>6. \A k \in 1..n : k \in 0..n /\ k # 0 OBVIOUS
<1>7. \A k \in 1..n : g[k] = OperandStep(ns, need, e, k, g[k - 1]) BY <1>4, <1>6, Zenon
<1> QED BY <1>3, <1>5, <1>7

(* Marking the operands of a needed node in the layer below it.            *)
LEMMA OperandsAreMarked ==
  ASSUME NEW ns, NEW ub, Within(ns, ub), NEW need, Needed(ns, ub, need), NEW i \in Ops(ns), need[i] > 0
  PROVE  LET m == NeedsOperands(ns, need, ns[i])
         IN  /\ Needed(ns, ub, m) /\ Raised(ns, need, m)
             /\ \A x \in Ops(ns) : x >= i /\ (x # 0 \/ i = 0) => m[x] = need[x]
             /\ \A j \in 1..Len(ns[i].terms) :
                  m[ns[i].terms[j].op0] >= ns[i].depth /\ m[ns[i].terms[j].op1] >= ns[i].depth
<1> DEFINE e == ns[i]   ts == ns[i].terms   d == ns[i].depth
<1>1. Ok(ns) /\ ub \in Nat BY DEF Within
<1>2. /\ Len(ts) \in Nat /\ i \in Nat
      /\ \A j \in 1..Len(ts) : /\ ts[j].op0 \in Ops(ns) /\ ts[j].op1 \in Ops(ns)
                               /\ ts[j].op0 <= ts[j].op1 /\ ts[j].op1 < i
  BY <1>1, NodeFacts
<1>3. /\ d \in Nat
      /\ \A j \in 1..Len(ts) : ns[ts[j].op0].depth < d /\ ns[ts[j].op1].depth < d
  BY <1>1, Depths
<1>4. d < ub
  <2>1. need[i] \in Nat /\ d < need[i] /\ need[i] <= ub BY DEF Needed
  <2> QED BY <1>1, <1>3, <2>1
<1>5. NeedsOperands(ns, need, e) = OperandsMarked(ns, need, e, Len(ts))
  BY Zenon DEF NeedsOperands, OperandsMarked
<1>6. PICK f : /\ OperandsMarked(ns, need, e, Len(ts)) = f[Len(ts)] /\ f[0] = need
               /\ \A k \in 1..Len(ts) : f[k] = OperandStep(ns, need, e, k, f[k - 1])
  <2>1. Len(ts) \in Nat BY <1>2
  <2> HIDE DEF e, ts
  <2> QED BY <2>1, OperandIs
<1> DEFINE Has(m, k) ==
             /\ Needed(ns, ub, m) /\ Raised(ns, need, m)
             /\ \A x \in Ops(ns) : x >= i /\ (x # 0 \/ i = 0) => m[x] = need[x]
             /\ \A j \in 1..k : m[ts[j].op0] >= d /\ m[ts[j].op1] >= d
           S == {k \in Nat : k <= Len(ts) => Has(f[k], k)}
<1>7. \A x \in Ops(ns) : x \in Nat /\ ns[x].depth \in Nat BY <1>1, NodeFacts, Depths
<1>8. 0 \in S
  <2>1. Raised(ns, need, need)
    <3>1. \A x \in Ops(ns) : need[x] \in Nat BY DEF Needed
    <3> QED BY <3>1 DEF Raised
  <2> QED BY <1>6, <2>1
<1>9. ASSUME NEW k \in Nat, k \in S PROVE k + 1 \in S
  <2> SUFFICES ASSUME k + 1 <= Len(ts) PROVE Has(f[k + 1], k + 1)
    <3> HIDE DEF Has
    <3> QED OBVIOUS
  <2>1. Has(f[k], k)
    <3> HIDE DEF Has
    <3> QED BY <1>9, <1>2
  <2> DEFINE t == ts[k + 1]   a == mark_needed(ns, f[k], t.op0, d)   b == mark_needed(ns, a, t.op1, d)
  <2>2. f[k + 1] = b
    <3>1. k + 1 \in 1..Len(ts) /\ (k + 1) - 1 = k BY <1>2
    <3>2. f[k + 1] = OperandStep(ns, need, e, k + 1, f[k]) BY <1>6, <3>1
    <3> QED BY <3>2 DEF OperandStep
  <2>3. /\ t.op0 \in Ops(ns) /\ t.op1 \in Ops(ns) /\ t.op0 <= t.op1 /\ t.op1 < i
        /\ ns[t.op0].depth < d /\ ns[t.op1].depth < d
    <3>1. k + 1 \in 1..Len(ts) BY <1>2
    <3> QED BY <1>2, <1>3, <3>1
  <2> HIDE DEF a, b, t
  <2>4. ~(ub >= 2 /\ d = ub) BY <1>1, <1>3, <1>4
  <2>5. d <= ub BY <1>1, <1>3, <1>4
  <2>6. /\ Needed(ns, ub, a) /\ Raised(ns, f[k], a) /\ a[t.op0] >= d
        /\ \A x \in Ops(ns) : x # t.op0 /\ x # 0 => a[x] = f[k][x]
    BY <1>3, <2>1, <2>3, <2>4, <2>5, Marking DEF a
  <2>7. /\ Needed(ns, ub, b) /\ Raised(ns, a, b) /\ b[t.op1] >= d
        /\ \A x \in Ops(ns) : x # t.op1 /\ x # 0 => b[x] = a[x]
    BY <1>3, <2>3, <2>4, <2>5, <2>6, Marking DEF b
  <2>8. \A x \in Ops(ns) : need[x] \in Nat /\ f[k][x] \in Nat /\ a[x] \in Nat /\ b[x] \in Nat
    BY <2>1, <2>6, <2>7 DEF Needed
  <2>9. \A x \in Ops(ns) : need[x] <= f[k][x] /\ f[k][x] <= a[x] /\ a[x] <= b[x]
    BY <2>1, <2>6, <2>7 DEF Raised
  <2>10. Raised(ns, need, b) BY <2>8, <2>9 DEF Raised
  <2>11. ASSUME NEW x \in Ops(ns), x >= i, x # 0 \/ i = 0 PROVE b[x] = need[x]
    <3>1. x # 0 /\ x # t.op0 /\ x # t.op1
      <4>1. t.op0 \in Nat /\ t.op1 \in Nat /\ x \in Nat BY <1>7, <2>3
      <4> QED BY <1>2, <2>3, <2>11, <4>1
    <3> QED BY <2>1, <2>6, <2>7, <2>11, <3>1
  <2>12. ASSUME NEW j \in 1..(k + 1) PROVE b[ts[j].op0] >= d /\ b[ts[j].op1] >= d
    <3>1. CASE j = k + 1
      <4>1. b[t.op0] >= d BY <1>3, <2>3, <2>6, <2>8, <2>9
      <4> QED BY <2>7, <3>1, <4>1 DEF t
    <3>2. CASE j # k + 1
      <4>1. j \in 1..k /\ j \in 1..Len(ts) BY <1>2, <3>2
      <4>2. ts[j].op0 \in Ops(ns) /\ ts[j].op1 \in Ops(ns) BY <1>2, <4>1
      <4>3. f[k][ts[j].op0] >= d /\ f[k][ts[j].op1] >= d BY <2>1, <4>1
      <4>4. \A y \in Ops(ns) : f[k][y] >= d => b[y] >= d BY <1>3, <2>8, <2>9
      <4> HIDE DEF ts, d
      <4> QED BY <4>2, <4>3, <4>4
    <3> QED BY <3>1, <3>2
  <2> QED BY <2>2, <2>7, <2>10, <2>11, <2>12
<1>10. Has(f[Len(ts)], Len(ts))
  <2> HIDE DEF Has
  <2>1. \A k \in Nat : k \in S
    <3> HIDE DEF S
    <3> QED BY <1>8, <1>9, L!Induction, Zenon
  <2> QED BY <1>2, <2>1
<1> QED BY <1>5, <1>6, <1>10

(* A visit serves a node, and spoils none that was visited before.         *)
LEMMA Visiting ==
  ASSUME NEW ns, NEW ub, Within(ns, ub), NEW need, Needed(ns, ub, need), NEW i \in Ops(ns),
         \A x \in Ops(ns) : x > i => Served(ns, ub, need, x)
  PROVE  LET m == Visit(ns, ub, need, i)
         IN  Needed(ns, ub, m) /\ \A x \in Ops(ns) : x >= i => Served(ns, ub, m, x)
<1> DEFINE e == ns[i]
           When(b, m, d) == IF b THEN mark_needed(ns, m, i, d) ELSE m
           a == When(e.is_input, need, 1)
           b == When(e.is_output, a, ub)
           c == When(e.is_assert0, b, e.depth + 1)
           v == IF c[i] = 0 THEN c ELSE NeedsOperands(ns, c, e)
<1>1. Visit(ns, ub, need, i) = v BY DEF Visit
<1>2. Ok(ns) /\ ub \in Nat /\ ub >= 1 BY DEF Within
<1>3. i \in Nat /\ e.depth \in Nat BY <1>2, NodeFacts, Depths
<1>4. \A x \in Ops(ns) : x \in Nat BY <1>2, NodeFacts
<1> DEFINE Kept(m, n) == Needed(ns, ub, n) /\ Raised(ns, m, n) /\ \A x \in Ops(ns) : x > i => n[x] = m[x]
<1>5. \A m : Needed(ns, ub, m) => Kept(m, m)
  <2> TAKE m
  <2> HAVE Needed(ns, ub, m)
  <2>1. \A x \in Ops(ns) : m[x] \in Nat BY DEF Needed
  <2>2. Raised(ns, m, m) BY <2>1 DEF Raised
  <2> QED BY <2>2
<1>6. ASSUME NEW m, Needed(ns, ub, m), NEW d \in Nat, e.depth < d, d <= ub,
             ub >= 2 /\ d = ub => e.is_output \/ e.is_assert0
      PROVE  Kept(m, mark_needed(ns, m, i, d)) /\ mark_needed(ns, m, i, d)[i] >= d
  <2> DEFINE k == mark_needed(ns, m, i, d)
  <2>1. /\ Needed(ns, ub, k) /\ Raised(ns, m, k) /\ k[i] >= d
        /\ \A x \in Ops(ns) : x # i /\ x # 0 => k[x] = m[x]
    BY <1>6, Marking
  <2> HIDE DEF k
  <2>2. \A x \in Ops(ns) : x > i => x # i /\ x # 0 BY <1>3, <1>4
  <2>3. \A x \in Ops(ns) : x > i => k[x] = m[x] BY <2>1, <2>2
  <2> QED BY <2>1, <2>3 DEF k
<1>7. Kept(need, a) /\ (e.is_input => a[i] >= 1)
  <2>1. CASE e.is_input
    <3>1. e.terms = <<>> BY <1>2, <2>1 DEF Ok, Typed
    <3>2. e.depth = 0 BY <1>2, <3>1, Depths
    <3>3. 1 \in Nat /\ e.depth < 1 /\ 1 <= ub /\ ~(ub >= 2 /\ 1 = ub) BY <1>2, <3>2
    <3> HIDE DEF Kept
    <3>4. Kept(need, mark_needed(ns, need, i, 1)) /\ mark_needed(ns, need, i, 1)[i] >= 1 BY <1>6, <3>3
    <3> QED BY <2>1, <3>4
  <2>2. CASE ~e.is_input
    <3>1. a = need BY <2>2
    <3> HIDE DEF Kept, a
    <3> QED BY <1>5, <2>2, <3>1
  <2> QED BY <2>1, <2>2
<1> HIDE DEF a
<1>8. Kept(a, b) /\ (e.is_output => b[i] >= ub)
  <2>0. Needed(ns, ub, a) BY <1>7
  <2>1. CASE e.is_output
    <3>1. e.depth + 1 <= ub BY <2>1 DEF Within
    <3>2. e.depth < ub /\ ub <= ub BY <1>2, <1>3, <3>1
    <3> HIDE DEF Kept
    <3>4. Kept(a, mark_needed(ns, a, i, ub)) /\ mark_needed(ns, a, i, ub)[i] >= ub BY <1>2, <1>6, <2>0, <2>1, <3>2
    <3> QED BY <2>1, <3>4
  <2>2. CASE ~e.is_output
    <3>1. b = a BY <2>2
    <3> HIDE DEF Kept, b
    <3> QED BY <1>5, <2>0, <2>2, <3>1
  <2> QED BY <2>1, <2>2
<1> HIDE DEF b
<1>9. Kept(b, c) /\ (e.is_assert0 => c[i] >= e.depth + 1)
  <2>0. Needed(ns, ub, b) BY <1>8
  <2>1. CASE e.is_assert0
    <3>1. e.depth + 1 <= ub BY <2>1 DEF Within
    <3>2. e.depth < e.depth + 1 /\ e.depth + 1 \in Nat BY <1>3
    <3> HIDE DEF Kept
    <3>4. Kept(b, mark_needed(ns, b, i, e.depth + 1)) /\ mark_needed(ns, b, i, e.depth + 1)[i] >= e.depth + 1
      BY <1>6, <2>0, <2>1, <3>1, <3>2
    <3> QED BY <2>1, <3>4
  <2>2. CASE ~e.is_assert0
    <3>1. c = b BY <2>2
    <3> HIDE DEF Kept, c
    <3> QED BY <1>5, <2>0, <2>2, <3>1
  <2> QED BY <2>1, <2>2
<1> HIDE DEF c
<1>10. /\ Kept(c, v) /\ v[i] = c[i]
       /\ v[i] > 0 => \A j \in 1..Len(e.terms) : v[e.terms[j].op0] >= e.depth /\ v[e.terms[j].op1] >= e.depth
  <2>0. Needed(ns, ub, c) /\ c[i] \in Nat
    <3>1. Needed(ns, ub, c) BY <1>9
    <3> QED BY <3>1 DEF Needed
  <2>1. CASE c[i] = 0
    <3>1. v = c BY <2>1
    <3> HIDE DEF Kept, v
    <3> QED BY <1>5, <2>0, <2>1, <3>1
  <2>2. CASE c[i] # 0
    <3>1. v = NeedsOperands(ns, c, e) BY <2>2
    <3>2. c[i] > 0 BY <2>0, <2>2
    <3> HIDE DEF v
    <3>3. /\ Needed(ns, ub, v) /\ Raised(ns, c, v)
          /\ \A x \in Ops(ns) : x >= i /\ (x # 0 \/ i = 0) => v[x] = c[x]
          /\ \A j \in 1..Len(e.terms) : v[e.terms[j].op0] >= e.depth /\ v[e.terms[j].op1] >= e.depth
      BY <2>0, <3>1, <3>2, OperandsAreMarked
    <3>4. ASSUME NEW x \in Ops(ns), x > i PROVE x >= i /\ x # 0
      <4>1. x \in Nat /\ i \in Nat BY <1>3, <1>4
      <4> QED BY <3>4, <4>1
    <3>5. i >= i /\ (i # 0 \/ i = 0) BY <1>3
    <3> QED BY <3>3, <3>4, <3>5
  <2> QED BY <2>1, <2>2
<1> HIDE DEF v
<1>11. \A x \in Ops(ns) : need[x] \in Nat /\ a[x] \in Nat /\ b[x] \in Nat /\ c[x] \in Nat /\ v[x] \in Nat
  BY <1>7, <1>8, <1>9, <1>10 DEF Needed
<1>12. \A x \in Ops(ns) : need[x] <= a[x] /\ a[x] <= b[x] /\ b[x] <= c[x] /\ c[x] <= v[x]
  BY <1>7, <1>8, <1>9, <1>10 DEF Raised
<1>13. \A x \in Ops(ns) : need[x] <= v[x] /\ (x > i => v[x] = need[x])
  <2> TAKE x \in Ops(ns)
  <2>1. need[x] <= v[x] BY <1>11, <1>12
  <2>2. x > i => v[x] = need[x] BY <1>7, <1>8, <1>9, <1>10
  <2> QED BY <2>1, <2>2
<1>14. Served(ns, ub, v, i)
  <2>1. e.is_input => v[i] >= 1 BY <1>7, <1>11, <1>12
  <2>2. e.is_output => v[i] >= ub
    <3> SUFFICES ASSUME e.is_output PROVE v[i] >= ub OBVIOUS
    <3>1. b[i] >= ub /\ ub \in Nat BY <1>2, <1>8
    <3>2. b[i] <= c[i] /\ c[i] <= v[i] /\ b[i] \in Nat /\ c[i] \in Nat /\ v[i] \in Nat BY <1>11, <1>12
    <3> QED BY <3>1, <3>2
  <2>3. e.is_assert0 => v[i] >= e.depth + 1 BY <1>9, <1>10
  <2> QED BY <1>10, <2>1, <2>2, <2>3 DEF Served
<1>15. ASSUME NEW x \in Ops(ns), x > i PROVE Served(ns, ub, v, x)
  <2>1. Served(ns, ub, need, x) /\ v[x] = need[x] BY <1>13, <1>15
  <2>2. ASSUME need[x] > 0, NEW j \in 1..Len(ns[x].terms)
        PROVE  v[ns[x].terms[j].op0] >= ns[x].depth /\ v[ns[x].terms[j].op1] >= ns[x].depth
    <3> DEFINE p == ns[x].terms[j].op0   q == ns[x].terms[j].op1   d == ns[x].depth
    <3>1. p \in Ops(ns) /\ q \in Ops(ns) BY <1>2, NodeFacts
    <3>2. d \in Nat BY <1>2, Depths
    <3>3. need[p] >= d /\ need[q] >= d BY <2>1, <2>2 DEF Served
    <3> HIDE DEF p, q, d
    <3>4. v[p] >= d /\ v[q] >= d BY <1>11, <1>13, <3>1, <3>2, <3>3
    <3> QED BY <3>4 DEF p, q, d
  <2> QED BY <2>1, <2>2 DEF Served
<1>16. \A x \in Ops(ns) : x >= i => x = i \/ x > i BY <1>3, <1>4
<1> QED BY <1>1, <1>10, <1>14, <1>15, <1>16

(* the first n visits of compute_needed, of the last of count nodes first *)
NeedsFrom(ns, ub, count, n) ==
  LET need[k \in 0..n] ==
        IF k = 0 THEN [i \in Ops(ns) |-> 0] ELSE Visit(ns, ub, need[k - 1], count - k)
  IN  need[n]

AfterVisit(ns, ub, count, k, x) ==
  Visit(ns, ub, x, count - k)
Visits(ns, ub, count, f, n) == f = [k \in 0..n |-> IF k = 0 THEN [i \in Ops(ns) |-> 0] ELSE AfterVisit(ns, ub, count, k, f[k - 1])]

(* The recursive function of NeedsFrom exists. *)
LEMMA VisitExists ==
  ASSUME NEW ns, NEW ub, NEW count, NEW n \in Nat
  PROVE  \E f : Visits(ns, ub, count, f, n)
<1> DEFINE S == {m \in Nat : \E f : Visits(ns, ub, count, f, m)}
<1>1. 0 \in S
  <2> DEFINE f == [k \in 0..0 |-> [i \in Ops(ns) |-> 0]]
  <2>1. Visits(ns, ub, count, f, 0)
    <3>1. \A k \in 0..0 : k = 0 OBVIOUS
    <3> QED BY <3>1, Zenon DEF Visits
  <2> QED BY <2>1
<1>2. ASSUME NEW m \in Nat, m \in S PROVE m + 1 \in S
  <2>1. PICK f : Visits(ns, ub, count, f, m) BY <1>2
  <2>0. \A k \in 0..m : f[k] = IF k = 0 THEN [i \in Ops(ns) |-> 0] ELSE AfterVisit(ns, ub, count, k, f[k - 1])
    BY <2>1, Zenon DEF Visits
  <2> DEFINE h == [k \in 0..(m + 1) |-> IF k \in 0..m THEN f[k] ELSE AfterVisit(ns, ub, count, k, f[k - 1])]
  <2>2. ASSUME NEW k \in 0..(m + 1)
        PROVE  h[k] = IF k = 0 THEN [i \in Ops(ns) |-> 0] ELSE AfterVisit(ns, ub, count, k, h[k - 1])
    <3>1. h[k] = IF k \in 0..m THEN f[k] ELSE AfterVisit(ns, ub, count, k, f[k - 1]) OBVIOUS
    <3>2. CASE k = 0
      <4>1. 0 \in 0..m OBVIOUS
      <4> QED BY <2>0, <3>1, <3>2, <4>1
    <3>3. CASE k # 0
      <4>1. k - 1 \in 0..m /\ k - 1 \in 0..(m + 1) BY <3>3
      <4>2. h[k - 1] = f[k - 1] BY <4>1
      <4> HIDE DEF h
      <4> QED BY <2>0, <3>1, <3>3, <4>2, Zenon
    <3> QED BY <3>2, <3>3
  <2> DEFINE again == [k \in 0..(m + 1) |-> IF k = 0 THEN [i \in Ops(ns) |-> 0] ELSE AfterVisit(ns, ub, count, k, h[k - 1])]
  <2>3. h = again
    <3>1. \A k \in 0..(m + 1) : h[k] = again[k] BY <2>2, Zenon
    <3> QED BY <3>1, Zenon
  <2>4. Visits(ns, ub, count, h, m + 1) BY <2>3, Zenon DEF Visits
  <2> QED BY <2>4
<1>3. \A k \in Nat : k \in S BY <1>1, <1>2, L!Induction, Zenon
<1> QED BY <1>3

(* NeedsFrom is the last value of that function. *)
LEMMA VisitIs ==
  ASSUME NEW ns, NEW ub, NEW count, NEW n \in Nat
  PROVE  \E f : /\ NeedsFrom(ns, ub, count, n) = f[n] /\ f[0] = [i \in Ops(ns) |-> 0]
               /\ \A k \in 1..n : f[k] = AfterVisit(ns, ub, count, k, f[k - 1])
<1> DEFINE g == CHOOSE f : f = [k \in 0..n |-> IF k = 0 THEN [i \in Ops(ns) |-> 0] ELSE AfterVisit(ns, ub, count, k, f[k - 1])]
<1>1. \E f : f = [k \in 0..n |-> IF k = 0 THEN [i \in Ops(ns) |-> 0] ELSE AfterVisit(ns, ub, count, k, f[k - 1])]
  <2>1. \E f : Visits(ns, ub, count, f, n) BY VisitExists, Zenon
  <2> QED BY <2>1, Zenon DEF Visits
<1>2. g = [k \in 0..n |-> IF k = 0 THEN [i \in Ops(ns) |-> 0] ELSE AfterVisit(ns, ub, count, k, g[k - 1])] BY <1>1, Zenon
<1>3. NeedsFrom(ns, ub, count, n) = g[n] BY Zenon DEF NeedsFrom, AfterVisit
<1> HIDE DEF g
<1>4. \A k \in 0..n : g[k] = IF k = 0 THEN [i \in Ops(ns) |-> 0] ELSE AfterVisit(ns, ub, count, k, g[k - 1]) BY <1>2, Zenon
<1>5. g[0] = [i \in Ops(ns) |-> 0]
  <2>1. 0 \in 0..n OBVIOUS
  <2> QED BY <1>4, <2>1, Zenon
<1>6. \A k \in 1..n : k \in 0..n /\ k # 0 OBVIOUS
<1>7. \A k \in 1..n : g[k] = AfterVisit(ns, ub, count, k, g[k - 1]) BY <1>4, <1>6, Zenon
<1> QED BY <1>3, <1>5, <1>7

(* What compute_needed leaves: every node is served. *)
LEMMA ComputeNeeded ==
  ASSUME NEW ns, NEW ub, Within(ns, ub)
  PROVE  LET need == compute_needed(ns, ub)
         IN  Needed(ns, ub, need) /\ \A x \in Ops(ns) : Served(ns, ub, need, x)
<1> DEFINE c == Size(ns)
<1>1. Ok(ns) /\ ub \in Nat /\ ub >= 1 BY DEF Within
<1>2. c \in Nat /\ Ops(ns) = 0..(c - 1) BY <1>1, Numbered DEF Ok
<1>3. compute_needed(ns, ub) = NeedsFrom(ns, ub, c, c) BY Zenon DEF compute_needed, NeedsFrom, Size
<1> HIDE DEF c
<1>4. PICK f : /\ NeedsFrom(ns, ub, c, c) = f[c] /\ f[0] = [i \in Ops(ns) |-> 0]
               /\ \A k \in 1..c : f[k] = AfterVisit(ns, ub, c, k, f[k - 1])
  BY <1>2, VisitIs
<1> DEFINE Has(k) == Needed(ns, ub, f[k]) /\ \A x \in Ops(ns) : x >= c - k => Served(ns, ub, f[k], x)
           S == {k \in Nat : k <= c => Has(k)}
<1>5. 0 \in S
  <2>1. Needed(ns, ub, f[0])
    <3>1. f[0] \in [Ops(ns) -> Nat] /\ \A i \in Ops(ns) : f[0][i] = 0 BY <1>4
    <3>2. \A i \in Ops(ns) : ns[i].depth \in Nat BY <1>1, Depths
    <3>3. \A i \in Ops(ns) : ~(0 > 0) /\ ~(0 > ns[i].depth + 1) /\ ~(ub >= 2 /\ 0 = ub) BY <1>1, <3>2
    <3> QED BY <3>1, <3>3 DEF Needed
  <2>2. \A x \in Ops(ns) : ~(x >= c - 0) BY <1>2
  <2> QED BY <2>1, <2>2
<1>6. ASSUME NEW k \in Nat, k \in S PROVE k + 1 \in S
  <2> SUFFICES ASSUME k + 1 <= c PROVE Has(k + 1)
    <3> HIDE DEF Has
    <3> QED OBVIOUS
  <2>1. Has(k)
    <3> HIDE DEF Has
    <3> QED BY <1>2, <1>6
  <2> DEFINE i == c - (k + 1)
  <2>2. i \in Ops(ns) BY <1>2
  <2>3. f[k + 1] = Visit(ns, ub, f[k], i)
    <3>1. k + 1 \in 1..c /\ (k + 1) - 1 = k BY <1>2
    <3>2. f[k + 1] = AfterVisit(ns, ub, c, k + 1, f[k]) BY <1>4, <3>1
    <3> QED BY <3>2 DEF AfterVisit
  <2>4. \A x \in Ops(ns) : x > i => x >= c - k BY <1>2
  <2>5. \A x \in Ops(ns) : x > i => Served(ns, ub, f[k], x) BY <2>1, <2>4
  <2> HIDE DEF i
  <2>6. Needed(ns, ub, f[k + 1]) /\ \A x \in Ops(ns) : x >= i => Served(ns, ub, f[k + 1], x)
    BY <2>1, <2>2, <2>3, <2>5, Visiting
  <2> QED BY <2>6 DEF i
<1>7. Has(c)
  <2> HIDE DEF Has
  <2>1. \A k \in Nat : k \in S
    <3> HIDE DEF S
    <3> QED BY <1>5, <1>6, L!Induction, Zenon
  <2> QED BY <1>2, <2>1
<1>8. \A x \in Ops(ns) : x >= c - c BY <1>2
<1> QED BY <1>3, <1>4, <1>7, <1>8

-----------------------------------------------------------------------------
(* The schedule *)
Living(ns, need, d) == {i \in Ops(ns) : Lives(ns, need, i, d)}

AliveUpTo(ns, need, d, n) ==
  LET lnodes[k \in 0..n] ==
        IF k = 0 THEN <<>>
        ELSE IF Lives(ns, need, k - 1, d) THEN Append(lnodes[k - 1], k - 1) ELSE lnodes[k - 1]
  IN  lnodes[n]

LiveOpStep(ns, need, d, k, x) ==
  IF Lives(ns, need, k - 1, d) THEN Append(x, k - 1) ELSE x
LiveOps(ns, need, d, f, n) == f = [k \in 0..n |-> IF k = 0 THEN <<>> ELSE LiveOpStep(ns, need, d, k, f[k - 1])]

(* The recursive function of AliveUpTo exists. *)
LEMMA LiveOpExists ==
  ASSUME NEW ns, NEW need, NEW d, NEW n \in Nat
  PROVE  \E f : LiveOps(ns, need, d, f, n)
<1> DEFINE S == {m \in Nat : \E f : LiveOps(ns, need, d, f, m)}
<1>1. 0 \in S
  <2> DEFINE f == [k \in 0..0 |-> <<>>]
  <2>1. LiveOps(ns, need, d, f, 0)
    <3>1. \A k \in 0..0 : k = 0 OBVIOUS
    <3> QED BY <3>1, Zenon DEF LiveOps
  <2> QED BY <2>1
<1>2. ASSUME NEW m \in Nat, m \in S PROVE m + 1 \in S
  <2>1. PICK f : LiveOps(ns, need, d, f, m) BY <1>2
  <2>0. \A k \in 0..m : f[k] = IF k = 0 THEN <<>> ELSE LiveOpStep(ns, need, d, k, f[k - 1])
    BY <2>1, Zenon DEF LiveOps
  <2> DEFINE h == [k \in 0..(m + 1) |-> IF k \in 0..m THEN f[k] ELSE LiveOpStep(ns, need, d, k, f[k - 1])]
  <2>2. ASSUME NEW k \in 0..(m + 1)
        PROVE  h[k] = IF k = 0 THEN <<>> ELSE LiveOpStep(ns, need, d, k, h[k - 1])
    <3>1. h[k] = IF k \in 0..m THEN f[k] ELSE LiveOpStep(ns, need, d, k, f[k - 1]) OBVIOUS
    <3>2. CASE k = 0
      <4>1. 0 \in 0..m OBVIOUS
      <4> QED BY <2>0, <3>1, <3>2, <4>1
    <3>3. CASE k # 0
      <4>1. k - 1 \in 0..m /\ k - 1 \in 0..(m + 1) BY <3>3
      <4>2. h[k - 1] = f[k - 1] BY <4>1
      <4> HIDE DEF h
      <4> QED BY <2>0, <3>1, <3>3, <4>2, Zenon
    <3> QED BY <3>2, <3>3
  <2> DEFINE again == [k \in 0..(m + 1) |-> IF k = 0 THEN <<>> ELSE LiveOpStep(ns, need, d, k, h[k - 1])]
  <2>3. h = again
    <3>1. \A k \in 0..(m + 1) : h[k] = again[k] BY <2>2, Zenon
    <3> QED BY <3>1, Zenon
  <2>4. LiveOps(ns, need, d, h, m + 1) BY <2>3, Zenon DEF LiveOps
  <2> QED BY <2>4
<1>3. \A k \in Nat : k \in S BY <1>1, <1>2, L!Induction, Zenon
<1> QED BY <1>3

(* AliveUpTo is the last value of that function. *)
LEMMA LiveOpIs ==
  ASSUME NEW ns, NEW need, NEW d, NEW n \in Nat
  PROVE  \E f : /\ AliveUpTo(ns, need, d, n) = f[n] /\ f[0] = <<>>
               /\ \A k \in 1..n : f[k] = LiveOpStep(ns, need, d, k, f[k - 1])
<1> DEFINE g == CHOOSE f : f = [k \in 0..n |-> IF k = 0 THEN <<>> ELSE LiveOpStep(ns, need, d, k, f[k - 1])]
<1>1. \E f : f = [k \in 0..n |-> IF k = 0 THEN <<>> ELSE LiveOpStep(ns, need, d, k, f[k - 1])]
  <2>1. \E f : LiveOps(ns, need, d, f, n) BY LiveOpExists, Zenon
  <2> QED BY <2>1, Zenon DEF LiveOps
<1>2. g = [k \in 0..n |-> IF k = 0 THEN <<>> ELSE LiveOpStep(ns, need, d, k, g[k - 1])] BY <1>1, Zenon
<1>3. AliveUpTo(ns, need, d, n) = g[n] BY Zenon DEF AliveUpTo, LiveOpStep
<1> HIDE DEF g
<1>4. \A k \in 0..n : g[k] = IF k = 0 THEN <<>> ELSE LiveOpStep(ns, need, d, k, g[k - 1]) BY <1>2, Zenon
<1>5. g[0] = <<>>
  <2>1. 0 \in 0..n OBVIOUS
  <2> QED BY <1>4, <2>1, Zenon
<1>6. \A k \in 1..n : k \in 0..n /\ k # 0 OBVIOUS
<1>7. \A k \in 1..n : g[k] = LiveOpStep(ns, need, d, k, g[k - 1]) BY <1>4, <1>6, Zenon
<1> QED BY <1>3, <1>5, <1>7

Increasing(s) == \A v, w \in 1..Len(s) : v < w => s[v] < s[w]

(* Alive has the ops that live at a depth, once each and in order.         *)
LEMMA AliveIs ==
  ASSUME NEW ns, Typed(ns), NEW need, NEW d
  PROVE  LET a == Alive(ns, need, d)
         IN  /\ L!IsSeq(a) /\ Len(a) \in Nat /\ DOMAIN a = 1..Len(a) /\ Len(a) <= Size(ns) /\ Increasing(a)
             /\ \A w \in 1..Len(a) : a[w] \in Living(ns, need, d)
             /\ \A i \in Living(ns, need, d) : \E w \in 1..Len(a) : a[w] = i
<1> DEFINE c == Size(ns)
<1>1. c \in Nat /\ Ops(ns) = 0..(c - 1) BY Numbered
<1>2. Alive(ns, need, d) = AliveUpTo(ns, need, d, c) BY Zenon DEF Alive, AliveUpTo, Size
<1> HIDE DEF c
<1>3. PICK f : /\ AliveUpTo(ns, need, d, c) = f[c] /\ f[0] = <<>>
               /\ \A k \in 1..c : f[k] = LiveOpStep(ns, need, d, k, f[k - 1])
  BY <1>1, LiveOpIs
<1> DEFINE Has(k) == /\ L!IsSeq(f[k]) /\ Len(f[k]) \in Nat /\ Len(f[k]) <= k /\ Increasing(f[k])
                     /\ \A w \in 1..Len(f[k]) : f[k][w] \in 0..(k - 1) /\ Lives(ns, need, f[k][w], d)
                     /\ \A i \in 0..(k - 1) : Lives(ns, need, i, d) => \E w \in 1..Len(f[k]) : f[k][w] = i
           S == {k \in Nat : k <= c => Has(k)}
<1>4. 0 \in S
  <2>1. <<>> \in Seq(Nat) /\ Len(<<>>) = 0 OBVIOUS
  <2>2. L!IsSeq(<<>>) BY <2>1, Zenon DEF L!IsSeq
  <2>3. 1..0 = {} /\ 0..(0 - 1) = {} OBVIOUS
  <2> QED BY <1>3, <2>1, <2>2, <2>3 DEF Increasing
<1>5. ASSUME NEW k \in Nat, k \in S PROVE k + 1 \in S
  <2> SUFFICES ASSUME k + 1 <= c PROVE Has(k + 1)
    <3> HIDE DEF Has
    <3> QED OBVIOUS
  <2>1. Has(k)
    <3> HIDE DEF Has
    <3> QED BY <1>1, <1>5
  <2> DEFINE o == f[k]   p == f[k + 1]
  <2>2. p = IF Lives(ns, need, k, d) THEN Append(o, k) ELSE o
    <3>1. k + 1 \in 1..c /\ (k + 1) - 1 = k BY <1>1
    <3>2. p = LiveOpStep(ns, need, d, k + 1, o) BY <1>3, <3>1
    <3> QED BY <3>1, <3>2 DEF LiveOpStep
  <2> HIDE DEF o, p
  <2>3. /\ L!IsSeq(o) /\ Len(o) \in Nat /\ Len(o) <= k /\ Increasing(o)
        /\ \A w \in 1..Len(o) : o[w] \in 0..(k - 1) /\ Lives(ns, need, o[w], d)
        /\ \A i \in 0..(k - 1) : Lives(ns, need, i, d) => \E w \in 1..Len(o) : o[w] = i
    BY <2>1 DEF o
  <2>4. (k + 1) - 1 = k /\ \A i \in 0..k : i \in 0..(k - 1) \/ i = k OBVIOUS
  <2>5. CASE ~Lives(ns, need, k, d)
    <3>1. p = o BY <2>2, <2>5
    <3>2. Len(p) \in Nat /\ Len(p) <= k + 1 BY <2>3, <3>1
    <3>3. \A w \in 1..Len(p) : p[w] \in 0..k /\ Lives(ns, need, p[w], d) BY <2>3, <3>1
    <3>4. \A i \in 0..k : Lives(ns, need, i, d) => \E w \in 1..Len(p) : p[w] = i BY <2>3, <2>4, <2>5, <3>1
    <3> QED BY <2>3, <2>4, <3>1, <3>2, <3>3, <3>4 DEF p
  <2>6. CASE Lives(ns, need, k, d)
    <3>1. p = Append(o, k) BY <2>2, <2>6
    <3>2. L!IsSeq(p) /\ Len(p) = Len(o) + 1 /\ p[Len(o) + 1] = k /\ \A w \in 1..Len(o) : p[w] = o[w]
      BY <2>3, <3>1, L!OneMore
    <3>3. \A w \in 1..Len(p) : w \in 1..Len(o) \/ w = Len(o) + 1 BY <2>3, <3>2
    <3>4. Len(p) \in Nat /\ Len(p) <= k + 1 BY <2>3, <3>2
    <3>5. Increasing(p)
      <4> SUFFICES ASSUME NEW v \in 1..Len(p), NEW w \in 1..Len(p), v < w PROVE p[v] < p[w] BY DEF Increasing
      <4>1. v \in 1..Len(o) BY <2>3, <3>2
      <4>2. p[v] = o[v] /\ o[v] \in 0..(k - 1) BY <2>3, <3>2, <4>1
      <4>3. CASE w \in 1..Len(o)
        <5>1. p[w] = o[w] BY <3>2, <4>3
        <5>2. o[v] < o[w] BY <2>3, <4>1, <4>3 DEF Increasing
        <5> QED BY <4>2, <5>1, <5>2
      <4>4. CASE w = Len(o) + 1
        <5>1. p[w] = k BY <3>2, <4>4
        <5> QED BY <4>2, <5>1
      <4> QED BY <3>3, <4>3, <4>4
    <3>6. ASSUME NEW w \in 1..Len(p) PROVE p[w] \in 0..k /\ Lives(ns, need, p[w], d)
      <4>1. CASE w \in 1..Len(o) BY <2>3, <3>2, <4>1
      <4>2. CASE w = Len(o) + 1
        <5>1. p[w] = k BY <3>2, <4>2
        <5>2. k \in 0..k OBVIOUS
        <5> QED BY <2>6, <5>1, <5>2
      <4> QED BY <3>3, <4>1, <4>2
    <3>7. ASSUME NEW i \in 0..k, Lives(ns, need, i, d) PROVE \E w \in 1..Len(p) : p[w] = i
      <4>1. CASE i \in 0..(k - 1)
        <5>1. PICK w \in 1..Len(o) : o[w] = i BY <2>3, <3>7, <4>1
        <5>2. w \in 1..Len(p) /\ p[w] = i BY <2>3, <3>2, <5>1
        <5> QED BY <5>2
      <4>2. CASE i = k
        <5>1. Len(o) + 1 \in 1..Len(p) BY <2>3, <3>2
        <5> QED BY <3>2, <4>2, <5>1
      <4> QED BY <2>4, <4>1, <4>2
    <3> QED BY <2>4, <3>2, <3>4, <3>5, <3>6, <3>7 DEF p
  <2> QED BY <2>5, <2>6
<1>6. Has(c)
  <2> HIDE DEF Has
  <2>1. \A k \in Nat : k \in S
    <3> HIDE DEF S
    <3> QED BY <1>4, <1>5, L!Induction, Zenon
  <2> QED BY <1>1, <2>1
<1> DEFINE a == f[c]
<1>7. a = Alive(ns, need, d) BY <1>2, <1>3
<1>8. /\ L!IsSeq(a) /\ Len(a) \in Nat /\ Len(a) <= Size(ns) /\ Increasing(a)
      /\ \A w \in 1..Len(a) : a[w] \in Ops(ns) /\ Lives(ns, need, a[w], d)
      /\ \A i \in Ops(ns) : Lives(ns, need, i, d) => \E w \in 1..Len(a) : a[w] = i
  BY <1>1, <1>6 DEF c
<1> HIDE DEF a
<1>9. DOMAIN a = 1..Len(a) BY <1>8, L!LengthOfSequence
<1> QED BY <1>7, <1>8, <1>9 DEF Living

(* Two places of Alive have two ops.                                       *)
LEMMA AliveOnce ==
  ASSUME NEW ns, Typed(ns), NEW need, NEW d, NEW v \in 1..Len(Alive(ns, need, d)),
         NEW w \in 1..Len(Alive(ns, need, d)), Alive(ns, need, d)[v] = Alive(ns, need, d)[w]
  PROVE  v = w
<1> DEFINE a == Alive(ns, need, d)
<1>1. Len(a) \in Nat /\ Increasing(a) /\ \A i \in 1..Len(a) : a[i] \in Living(ns, need, d) BY AliveIs
<1>2. \A i \in Ops(ns) : i \in Nat BY Numbered
<1> HIDE DEF a
<1>3. v \in 1..Len(a) /\ w \in 1..Len(a) /\ a[v] = a[w] BY DEF a
<1>4. a[v] \in Nat BY <1>1, <1>2, <1>3 DEF Living
<1>5. ~(v < w) /\ ~(w < v) BY <1>1, <1>3, <1>4 DEF Increasing
<1> QED BY <1>3, <1>5

(* The first of them is node 0 where it lives.                             *)
LEMMA FirstAlive ==
  ASSUME NEW ns, Typed(ns), NEW need, NEW d, Lives(ns, need, 0, d)
  PROVE  Alive(ns, need, d)[1] = 0
<1> DEFINE a == Alive(ns, need, d)
<1>1. /\ Len(a) \in Nat /\ Increasing(a) /\ \A i \in 1..Len(a) : a[i] \in Living(ns, need, d)
      /\ \A i \in Living(ns, need, d) : \E w \in 1..Len(a) : a[w] = i
  BY AliveIs
<1>2. \A i \in Ops(ns) : i \in Nat BY Numbered
<1>3. 0 \in Living(ns, need, d) BY DEF Living, Typed
<1> HIDE DEF a
<1>4. PICK w \in 1..Len(a) : a[w] = 0 BY <1>1, <1>3
<1>5. 1 \in 1..Len(a) BY <1>1
<1>6. a[1] \in Nat BY <1>1, <1>2, <1>5 DEF Living
<1>7. ~(1 < w) BY <1>1, <1>4, <1>5, <1>6 DEF Increasing
<1>8. w = 1 BY <1>1, <1>7
<1> QED BY <1>4, <1>8 DEF a

-----------------------------------------------------------------------------
(* Rows put together *)

(* Every element of parts put together is one of a part.                   *)
Covers(off, ss, f) ==
  /\ \A a, b \in 0..Len(ss) : a <= b => off[a] <= off[b]
  /\ \A r \in 1..Len(f) : \E i \in 1..Len(ss) : \E j \in 1..Len(ss[i]) :
       r = off[i - 1] + j /\ f[r] = ss[i][j]
(* So there is a part and a place in it for each place of the whole.       *)
LEMMA PartsCover ==
  ASSUME NEW ss, L!IsSeq(ss), \A i \in 1..Len(ss) : L!IsSeq(ss[i]), NEW off, NEW f, L!PartsAt(off, ss, f)
  PROVE  Covers(off, ss, f)
<1> DEFINE n == Len(ss)
<1>1. n \in Nat /\ \A i \in 1..n : Len(ss[i]) \in Nat BY L!LengthOfSequence
<1>2. /\ off[0] = 0 /\ \A i \in 0..n : off[i] \in Nat
      /\ \A i \in 1..n : off[i] = off[i - 1] + Len(ss[i])
      /\ Len(f) = off[n]
      /\ \A i \in 1..n : \A j \in 1..Len(ss[i]) : f[off[i - 1] + j] = ss[i][j]
  BY DEF L!PartsAt
<1> DEFINE S == {m \in Nat : m <= n =>
                   /\ \A a \in 0..m : off[a] <= off[m]
                   /\ \A r \in 1..off[m] : \E i \in 1..m : \E j \in 1..Len(ss[i]) : r = off[i - 1] + j}
<1> HIDE DEF n
<1>3. 0 \in S
  <2>1. \A a \in 0..0 : off[a] <= off[0] BY <1>2
  <2>2. 1..off[0] = {} BY <1>2
  <2> QED BY <2>1, <2>2
<1>4. ASSUME NEW m \in Nat, m \in S PROVE m + 1 \in S
  <2> SUFFICES ASSUME m + 1 <= n
               PROVE  /\ \A a \in 0..(m + 1) : off[a] <= off[m + 1]
                      /\ \A r \in 1..off[m + 1] : \E i \in 1..(m + 1) : \E j \in 1..Len(ss[i]) : r = off[i - 1] + j
    OBVIOUS
  <2>1. m + 1 \in 1..n /\ (m + 1) - 1 = m /\ m \in 0..n /\ m + 1 \in 0..n BY <1>1
  <2>2. off[m + 1] = off[m] + Len(ss[m + 1]) /\ off[m] \in Nat /\ off[m + 1] \in Nat /\ Len(ss[m + 1]) \in Nat
    BY <1>1, <1>2, <2>1
  <2>3. /\ \A a \in 0..m : off[a] <= off[m]
        /\ \A r \in 1..off[m] : \E i \in 1..m : \E j \in 1..Len(ss[i]) : r = off[i - 1] + j
    <3>1. m <= n BY <1>1
    <3> QED BY <1>4, <3>1
  <2>4. ASSUME NEW a \in 0..(m + 1) PROVE off[a] <= off[m + 1]
    <3>1. CASE a \in 0..m
      <4>1. off[a] \in Nat /\ off[a] <= off[m]
        <5>1. a \in 0..n BY <1>1, <3>1
        <5> QED BY <1>2, <2>3, <3>1, <5>1
      <4> QED BY <2>2, <4>1
    <3>2. CASE a = m + 1 BY <2>2, <3>2
    <3> QED BY <3>1, <3>2
  <2>5. ASSUME NEW r \in 1..off[m + 1]
        PROVE  \E i \in 1..(m + 1) : \E j \in 1..Len(ss[i]) : r = off[i - 1] + j
    <3>1. CASE r <= off[m]
      <4>1. r \in 1..off[m] BY <2>2, <3>1
      <4>2. PICK i \in 1..m : \E j \in 1..Len(ss[i]) : r = off[i - 1] + j BY <2>3, <4>1
      <4>3. i \in 1..(m + 1) OBVIOUS
      <4> QED BY <4>2, <4>3
    <3>2. CASE ~(r <= off[m])
      <4>1. r - off[m] \in 1..Len(ss[m + 1]) /\ r = off[m] + (r - off[m]) BY <2>2, <3>2
      <4>2. m + 1 \in 1..(m + 1) OBVIOUS
      <4> QED BY <2>1, <4>1, <4>2
    <3> QED BY <3>1, <3>2
  <2> QED BY <2>4, <2>5
<1>5. \A m \in Nat : m \in S
  <2> HIDE DEF S
  <2> QED BY <1>3, <1>4, L!Induction, Zenon
<1>6. ASSUME NEW a \in 0..n, NEW b \in 0..n, a <= b PROVE off[a] <= off[b]
  <2>1. b \in Nat /\ b <= n /\ a \in 0..b BY <1>1, <1>6
  <2> QED BY <1>5, <2>1
<1>7. ASSUME NEW r \in 1..Len(f)
      PROVE  \E i \in 1..n : \E j \in 1..Len(ss[i]) : r = off[i - 1] + j /\ f[r] = ss[i][j]
  <2>1. n <= n /\ n \in Nat /\ r \in 1..off[n] BY <1>1, <1>2
  <2>2. PICK i \in 1..n : \E j \in 1..Len(ss[i]) : r = off[i - 1] + j BY <1>5, <2>1
  <2>3. PICK j \in 1..Len(ss[i]) : r = off[i - 1] + j BY <2>2
  <2> QED BY <1>2, <2>3
<1> QED BY <1>6, <1>7 DEF n, Covers

(* Zeros add nothing.                                                      *)
LEMMA ZerosAddNothing ==
  ASSUME NEW h, NEW m \in Nat, NEW n \in Nat, m <= n, \A r \in 1..n : h[r] \in Elt,
         \A r \in 1..n : r > m => h[r] = 0
  PROVE  Partial(h, n) = Partial(h, m)
<1> DEFINE S == {k \in Nat : m + k <= n => Partial(h, m + k) = Partial(h, m)}
<1>1. 0 \in S
  <2>1. m + 0 = m OBVIOUS
  <2> QED BY <2>1
<1>2. ASSUME NEW k \in Nat, k \in S PROVE k + 1 \in S
  <2> SUFFICES ASSUME m + (k + 1) <= n PROVE Partial(h, m + (k + 1)) = Partial(h, m) OBVIOUS
  <2>1. m + k \in Nat /\ m + (k + 1) = (m + k) + 1 /\ (m + k) + 1 \in 1..n /\ (m + k) + 1 > m /\ m + k <= n OBVIOUS
  <2>2. Partial(h, m + k) = Partial(h, m) BY <1>2, <2>1
  <2>3. Partial(h, (m + k) + 1) = addf(Partial(h, m + k), h[(m + k) + 1]) BY <2>1, PartialSums
  <2>4. h[(m + k) + 1] = 0 BY <2>1
  <2>5. Partial(h, m) \in Elt
    <3>1. \A r \in 1..m : h[r] \in Elt
      <4>1. \A r \in 1..m : r \in 1..n OBVIOUS
      <4> QED BY <4>1
    <3> QED BY <3>1, PartialInField
  <2>6. addf(Partial(h, m), 0) = Partial(h, m) BY <2>5, Ring, TheModulus
  <2> QED BY <2>1, <2>2, <2>3, <2>4, <2>6
<1>3. \A k \in Nat : k \in S
  <2> HIDE DEF S
  <2> QED BY <1>1, <1>2, L!Induction, Zenon
<1>4. n - m \in Nat /\ m + (n - m) = n OBVIOUS
<1>5. n - m \in S BY <1>3, <1>4
<1> QED BY <1>4, <1>5

(* Values of which those outside one part are zero                         *)
Parts(ss) == L!IsSeq(ss) /\ \A i \in 1..Len(ss) : L!IsSeq(ss[i])
OnPart(h, n, lo, hi) ==
  /\ \A r \in 1..n : h[r] \in Elt
  /\ \A r \in 1..n : r <= lo \/ r > hi => h[r] = 0
SumIsPart(h, n, lo, c) == Partial(h, n) = Partial([j \in 1..c |-> h[lo + j]], c)
(* A sum over parts of which all but one are zero.                         *)
LEMMA PartSum ==
  ASSUME NEW ss, Parts(ss), NEW off, NEW f, L!PartsAt(off, ss, f),
         NEW i \in 1..Len(ss), NEW h, OnPart(h, Len(f), off[i - 1], off[i])
  PROVE  SumIsPart(h, Len(f), off[i - 1], Len(ss[i]))
<1> USE DEF Parts, OnPart, SumIsPart
<1> DEFINE n == Len(ss)   a == off[i - 1]   b == off[i]   c == Len(ss[i])
           g == [j \in 1..c |-> h[a + j]]
<1>1. n \in Nat /\ c \in Nat BY L!LengthOfSequence
<1>2. i - 1 \in 0..n /\ i \in 0..n BY <1>1
<1>3. a \in Nat /\ b \in Nat /\ b = a + c /\ b <= Len(f) /\ Len(f) \in Nat
  <2>1. /\ \A k \in 0..n : off[k] \in Nat /\ off[k] <= Len(f)
        /\ \A k \in 1..n : off[k] = off[k - 1] + Len(ss[k])
        /\ Len(f) = off[n]
    BY DEF L!PartsAt
  <2>2. n \in 0..n BY <1>1
  <2> QED BY <1>2, <2>1, <2>2
<1>4. /\ \A r \in 1..Len(f) : h[r] \in Elt
      /\ \A r \in 1..Len(f) : r <= a \/ r > b => h[r] = 0
  OBVIOUS
<1>5. \A j \in 1..c : g[j] = h[a + j] OBVIOUS
<1> HIDE DEF a, b, c, g
<1>6. Partial(h, a) = 0
  <2>1. \A r \in 1..a : r \in 1..Len(f) /\ r <= a /\ (r > 0 => r <= a) BY <1>1, <1>3
  <2>2. /\ \A r \in 1..a : h[r] \in Elt
        /\ \A r \in 1..a : r > 0 => h[r] = 0
    BY <1>4, <2>1
  <2>3. 0 \in Nat /\ 0 <= a BY <1>3
  <2>4. Partial(h, a) = Partial(h, 0) BY <1>3, <2>2, <2>3, ZerosAddNothing
  <2> QED BY <2>3, <2>4, PartialSums
<1> DEFINE S == {j \in Nat : j <= c => Partial(h, a + j) = Partial(g, j)}
<1>7. 0 \in S
  <2>1. a + 0 = a BY <1>3
  <2>2. Partial(g, 0) = 0 BY PartialSums
  <2> QED BY <1>6, <2>1, <2>2
<1>8. ASSUME NEW j \in Nat, j \in S PROVE j + 1 \in S
  <2> SUFFICES ASSUME j + 1 <= c PROVE Partial(h, a + (j + 1)) = Partial(g, j + 1) OBVIOUS
  <2>1. a + (j + 1) = (a + j) + 1 /\ a + j \in Nat /\ j <= c /\ j + 1 \in 1..c BY <1>1, <1>3
  <2>2. Partial(h, a + j) = Partial(g, j) BY <1>8, <2>1
  <2>3. Partial(h, (a + j) + 1) = addf(Partial(h, a + j), h[(a + j) + 1]) BY <2>1, PartialSums
  <2>4. Partial(g, j + 1) = addf(Partial(g, j), g[j + 1]) BY PartialSums
  <2>5. g[j + 1] = h[(a + j) + 1] BY <1>5, <2>1
  <2> QED BY <2>1, <2>2, <2>3, <2>4, <2>5
<1>9. \A j \in Nat : j \in S
  <2> HIDE DEF S
  <2> QED BY <1>7, <1>8, L!Induction, Zenon
<1>10. Partial(h, b) = Partial(g, c)
  <2>1. c \in S /\ c <= c BY <1>1, <1>9
  <2> QED BY <1>3, <2>1
<1>11. Partial(h, Len(f)) = Partial(h, b)
  <2>1. \A r \in 1..Len(f) : r > b => h[r] = 0 BY <1>4
  <2> QED BY <1>3, <1>4, <2>1, ZerosAddNothing
<1> QED BY <1>10, <1>11 DEF g, a, c

-----------------------------------------------------------------------------
(* Terms of a layer *)

NoZeroOperands(ns) ==
  \A i \in Ops(ns) : \A j \in 1..Len(ns[i].terms) :
    ~IsZero(ns[ns[i].terms[j].op0]) /\ ~IsZero(ns[ns[i].terms[j].op1])

(* nodes and what is needed of them, ready to be scheduled *)
Plan(ns, ub, need) ==
  /\ Within(ns, ub) /\ Needed(ns, ub, need) /\ \A x \in Ops(ns) : Served(ns, ub, need, x)
  /\ NoZeroOperands(ns) /\ Size(ns) <= Corners

(* What a living op is over lives one layer below.                         *)
LEMMA OperandsLive ==
  ASSUME NEW ns, NEW ub, NEW need, Plan(ns, ub, need), NEW d \in Nat, d >= 1, NEW i \in Living(ns, need, d)
  PROVE  IF IsCopy(ns, i, d)
         THEN i \in Living(ns, need, d - 1) /\ 0 \in Living(ns, need, d - 1)
         ELSE /\ ns[i].depth = d /\ ns[i].terms # <<>> /\ ~ns[i].is_input
              /\ \A j \in 1..Len(ns[i].terms) :
                   ns[i].terms[j].op0 \in Living(ns, need, d - 1) /\ ns[i].terms[j].op1 \in Living(ns, need, d - 1)
<1>1. Ok(ns) /\ ub \in Nat BY DEF Plan, Within
<1>2. need \in [Ops(ns) -> Nat] BY DEF Plan, Needed
<1>3. /\ i \in Ops(ns) /\ need[i] > 0 /\ ~IsZero(ns[i])
      /\ ns[i].depth = d \/ (ns[i].depth < d /\ d < need[i])
  BY DEF Living, Lives
<1>4. \A x \in Ops(ns) : ns[x].depth \in Nat /\ need[x] \in Nat BY <1>1, <1>2, Depths
<1>5. CASE IsCopy(ns, i, d)
  <2>1. ns[i].depth < d /\ d < need[i] BY <1>3, <1>4, <1>5 DEF IsCopy
  <2>2. ns[i].depth = d - 1 \/ (ns[i].depth < d - 1 /\ d - 1 < need[i]) BY <1>3, <1>4, <2>1
  <2>3. i \in Living(ns, need, d - 1) BY <1>3, <2>2 DEF Living, Lives
  <2>4. need[0] >= need[i] - 1 /\ 0 \in Ops(ns) /\ ns[0].depth = 0 /\ ns[0].is_input
    <3>1. need[i] > ns[i].depth + 1 BY <1>3, <1>4, <2>1
    <3>2. need[0] >= need[i] - 1 BY <1>3, <3>1 DEF Plan, Needed
    <3> QED BY <1>1, <3>2, DepthOfOne
  <2>5. need[0] > 0 /\ (0 = d - 1 \/ (0 < d - 1 /\ d - 1 < need[0])) BY <1>3, <1>4, <2>1, <2>4
  <2>6. 0 \in Living(ns, need, d - 1) BY <2>4, <2>5 DEF Living, Lives, IsZero
  <2> QED BY <1>5, <2>3, <2>6
<1>6. CASE ~IsCopy(ns, i, d)
  <2>1. ns[i].depth = d BY <1>3, <1>6 DEF IsCopy
  <2>2. ns[i].terms # <<>> BY <1>1, <1>3, <2>1, Depths
  <2>3. ~ns[i].is_input BY <1>1, <1>3, <2>2 DEF Ok, Typed
  <2>4. ASSUME NEW x \in Ops(ns), need[x] >= d, ns[x].depth < d, ~IsZero(ns[x])
        PROVE  x \in Living(ns, need, d - 1)
    <3>1. need[x] > 0 /\ (ns[x].depth = d - 1 \/ (ns[x].depth < d - 1 /\ d - 1 < need[x])) BY <1>4, <2>4
    <3> QED BY <2>4, <3>1 DEF Living, Lives
  <2>5. ASSUME NEW j \in 1..Len(ns[i].terms)
        PROVE  /\ ns[i].terms[j].op0 \in Living(ns, need, d - 1)
               /\ ns[i].terms[j].op1 \in Living(ns, need, d - 1)
    <3> DEFINE p == ns[i].terms[j].op0   q == ns[i].terms[j].op1
    <3>1. p \in Ops(ns) /\ q \in Ops(ns) BY <1>1, <1>3, NodeFacts
    <3>2. ns[p].depth < d /\ ns[q].depth < d BY <1>1, <1>3, <2>1, Depths
    <3>3. need[p] >= d /\ need[q] >= d
      <4>1. Served(ns, ub, need, i) BY <1>3 DEF Plan
      <4> QED BY <1>3, <2>1, <4>1 DEF Served
    <3>4. ~IsZero(ns[p]) /\ ~IsZero(ns[q]) BY <1>3 DEF Plan, NoZeroOperands
    <3> HIDE DEF p, q
    <3>5. p \in Living(ns, need, d - 1) /\ q \in Living(ns, need, d - 1) BY <2>4, <3>1, <3>2, <3>3, <3>4
    <3> QED BY <3>5 DEF p, q
  <2> QED BY <1>6, <2>1, <2>2, <2>3, <2>5
<1> QED BY <1>5, <1>6

(* The terms of a living op are over what lives below, in order, and mean  *)
(* what the op carries.                                                    *)
LEMMA LayerTerms ==
  ASSUME NEW ns, NEW ub, NEW need, Plan(ns, ub, need), NEW d \in Nat, d >= 1, NEW i \in Living(ns, need, d)
  PROVE  LET ts == lterms(ns, need, i, d)
         IN  /\ TermsOk(ns, ts)
             /\ \A j \in 1..Len(ts) : ts[j].op0 \in Living(ns, need, d - 1) /\ ts[j].op1 \in Living(ns, need, d - 1)
             /\ \A val : Carries(ns, val) => \A X \in Inputs : Meaning(ts, val, X) = val[i][X]
             /\ ts = IF IsCopy(ns, i, d) THEN <<[k |-> 1, op0 |-> 0, op1 |-> i]>> ELSE ns[i].terms
<1> DEFINE ts == lterms(ns, need, i, d)
<1>1. Ok(ns) BY DEF Plan, Within
<1>2. i \in Ops(ns) /\ ~IsZero(ns[i]) BY DEF Living, Lives
<1>3. CASE IsCopy(ns, i, d)
  <2> DEFINE t == [k |-> 1, op0 |-> 0, op1 |-> i]
  <2>1. i \in Living(ns, need, d - 1) /\ 0 \in Living(ns, need, d - 1) BY <1>3, OperandsLive
  <2>2. Alive(ns, need, d - 1)[1] = 0
    <3>1. Lives(ns, need, 0, d - 1) /\ Typed(ns) BY <1>1, <2>1 DEF Living, Ok
    <3> QED BY <3>1, FirstAlive
  <2>3. ts = <<t>> BY <1>3, <2>2 DEF lterms
  <2>4. t \in TermType /\ i \in Nat BY <1>1, <1>2, NodeFacts, TheModulus DEF TermType
  <2>5. t.k = 1 /\ t.op0 = 0 /\ t.op1 = i OBVIOUS
  <2> HIDE DEF t, ts
  <2>6. ts \in Seq(TermType) /\ Len(ts) = 1 /\ ts[1] = t BY <2>3, <2>4
  <2>7. 1..Len(ts) = {1} /\ 1..(Len(ts) - 1) = {} BY <2>6
  <2>8. TermsOk(ns, ts) BY <1>2, <2>4, <2>5, <2>6, <2>7 DEF TermsOk
  <2>9. ASSUME NEW val, Carries(ns, val), NEW X \in Inputs PROVE Meaning(ts, val, X) = val[i][X]
    <3>1. 0 \in Ops(ns) /\ val[i][X] \in Elt BY <1>1, <1>2, <2>9, ValueInField DEF Ok, Typed
    <3>2. val[0][X] = 1
      <4>1. ns[0].is_input /\ ns[0].in_id = 0 BY <1>1 DEF Ok, Typed
      <4> QED BY <2>9, <3>1, <4>1, ValueInField, InputsAreInField
    <3>3. TermValue(t, val, X) = val[i][X] /\ TermValue(t, val, X) \in Elt
      <4>1. mulf(1, mulf(1, val[i][X])) = val[i][X] BY <3>1, Ring
      <4> QED BY <2>5, <3>1, <3>2, <4>1 DEF TermValue
    <3> QED BY <2>6, <3>3, MeaningOfOne
  <2>10. \A j \in 1..Len(ts) : ts[j].op0 \in Living(ns, need, d - 1) /\ ts[j].op1 \in Living(ns, need, d - 1)
    BY <2>1, <2>5, <2>6, <2>7
  <2>11. ts = IF IsCopy(ns, i, d) THEN <<[k |-> 1, op0 |-> 0, op1 |-> i]>> ELSE ns[i].terms
    BY <1>3, <2>3 DEF t
  <2> QED BY <2>8, <2>9, <2>10, <2>11 DEF ts
<1>4. CASE ~IsCopy(ns, i, d)
  <2>1. ts = ns[i].terms BY <1>4 DEF lterms
  <2>2. /\ ~ns[i].is_input
        /\ \A j \in 1..Len(ns[i].terms) :
             ns[i].terms[j].op0 \in Living(ns, need, d - 1) /\ ns[i].terms[j].op1 \in Living(ns, need, d - 1)
    BY <1>4, OperandsLive
  <2>3. TermsOk(ns, ns[i].terms) BY <1>1, <1>2, NodesAreOk DEF NodeOk
  <2>4. ASSUME NEW val, Carries(ns, val), NEW X \in Inputs PROVE Meaning(ns[i].terms, val, X) = val[i][X]
    BY <1>2, <2>2, <2>4, ValueInField
  <2> QED BY <1>4, <2>1, <2>2, <2>3, <2>4
<1> QED BY <1>3, <1>4

(* numbers of the wires below: of each living op its own *)
Facing(below, live) ==
  /\ \A i \in live : below[i] \in Spot
  /\ \A i, j \in live : below[i] = below[j] => i = j

WireTerm == [k : Elt, op0 : Spot, op1 : Spot]

(* The numbers of wires are numbers.                                       *)
LEMMA SpotsAreNumbers == \A x \in Spot : x \in Nat
BY CornersAssumption DEF Spot

(* The two operands of a term are in order.                                *)
LEMMA OrderedTerm ==
  ASSUME NEW k \in Elt, NEW x \in Spot, NEW y \in Spot
  PROVE  LET t == Term(k, x, y)
         IN  /\ t \in WireTerm /\ t.k = k /\ t.op0 <= t.op1
             /\ (t.op0 = x /\ t.op1 = y) \/ (t.op0 = y /\ t.op1 = x)
<1>1. x \in Nat /\ y \in Nat BY SpotsAreNumbers
<1>2. CASE y < x
  <2>1. Term(k, x, y) = [k |-> k, op0 |-> y, op1 |-> x] BY <1>2 DEF Term
  <2> QED BY <1>1, <1>2, <2>1 DEF WireTerm
<1>3. CASE ~(y < x)
  <2>1. Term(k, x, y) = [k |-> k, op0 |-> x, op1 |-> y] BY <1>3 DEF Term
  <2> QED BY <1>1, <1>3, <2>1 DEF WireTerm
<1> QED BY <1>2, <1>3

(* Ordered pairs with the same members are the same.                       *)
LEMMA SamePair ==
  ASSUME NEW a \in Nat, NEW b \in Nat, NEW x \in Nat, NEW y \in Nat, a <= b, x <= y,
         (a = x /\ b = y) \/ (a = y /\ b = x)
  PROVE  a = x /\ b = y
OBVIOUS

(* Terms in strict order are in order at any distance, so none is twice.   *)
LEMMA StrictOrder ==
  ASSUME NEW ts \in Seq(TermType), \A j \in 1..(Len(ts) - 1) : ltndx(ts[j], ts[j + 1])
  PROVE  /\ \A a, b \in 1..Len(ts) : a < b => ltndx(ts[a], ts[b])
         /\ \A a, b \in 1..Len(ts) : eqndx(ts[a], ts[b]) => a = b
<1>1. Len(ts) \in Nat /\ \A j \in 1..Len(ts) : ts[j] \in TermType OBVIOUS
<1> DEFINE S == {m \in Nat : \A a \in 1..Len(ts) : a + (m + 1) <= Len(ts) => ltndx(ts[a], ts[a + (m + 1)])}
<1>2. 0 \in S
  <2> SUFFICES ASSUME NEW a \in 1..Len(ts), a + (0 + 1) <= Len(ts) PROVE ltndx(ts[a], ts[a + (0 + 1)]) OBVIOUS
  <2>1. a + (0 + 1) = a + 1 /\ a \in 1..(Len(ts) - 1) BY <1>1
  <2> QED BY <2>1
<1>3. ASSUME NEW m \in Nat, m \in S PROVE m + 1 \in S
  <2> SUFFICES ASSUME NEW a \in 1..Len(ts), a + ((m + 1) + 1) <= Len(ts)
               PROVE  ltndx(ts[a], ts[a + ((m + 1) + 1)])
    OBVIOUS
  <2> DEFINE b == a + (m + 1)
  <2>1. b \in 1..(Len(ts) - 1) /\ b \in 1..Len(ts) /\ b + 1 \in 1..Len(ts) /\ b + 1 = a + ((m + 1) + 1) BY <1>1
  <2>2. b <= Len(ts) BY <1>1, <2>1
  <2>3. ltndx(ts[a], ts[b]) BY <1>3, <2>2
  <2>4. ltndx(ts[b], ts[b + 1]) BY <2>1
  <2> HIDE DEF b
  <2>5. ts[a] \in TermType /\ ts[b] \in TermType /\ ts[b + 1] \in TermType BY <1>1, <2>1
  <2>6. ltndx(ts[a], ts[b + 1]) BY <2>3, <2>4, <2>5, OrderOfTerms
  <2> QED BY <2>1, <2>6
<1>4. \A m \in Nat : m \in S
  <2> HIDE DEF S
  <2> QED BY <1>2, <1>3, L!Induction, Zenon
<1>5. ASSUME NEW a \in 1..Len(ts), NEW b \in 1..Len(ts), a < b PROVE ltndx(ts[a], ts[b])
  <2>1. b - a - 1 \in Nat /\ a + ((b - a - 1) + 1) = b /\ b <= Len(ts) BY <1>1, <1>5
  <2>2. b - a - 1 \in S BY <1>4, <2>1
  <2> QED BY <2>1, <2>2
<1>6. ASSUME NEW a \in 1..Len(ts), NEW b \in 1..Len(ts), eqndx(ts[a], ts[b]) PROVE a = b
  <2>1. /\ ts[a].op0 \in Nat /\ ts[a].op1 \in Nat /\ ts[b].op0 \in Nat /\ ts[b].op1 \in Nat
    BY <1>1 DEF TermType
  <2>2. ~ltndx(ts[a], ts[b]) /\ ~ltndx(ts[b], ts[a]) BY <1>6, <2>1 DEF ltndx, eqndx
  <2>3. ~(a < b) /\ ~(b < a) BY <1>5, <2>2
  <2> QED BY <2>3
<1> QED BY <1>5, <1>6

(* terms over the numbers of the wires below, and the row they make *)
Renumbered(ts, below) == [j \in DOMAIN ts |-> Term(ts[j].k, below[ts[j].op0], below[ts[j].op1])]
RowOf(ts, below) == Sorted(Renumbered(ts, below), TermBefore)

(* terms in strict order over live ops *)
Over(ts, live) ==
  /\ ts \in Seq(TermType) /\ live \in SUBSET Nat
  /\ \A j \in 1..Len(ts) : ts[j].op0 \in live /\ ts[j].op1 \in live /\ ts[j].op0 <= ts[j].op1
  /\ \A j \in 1..(Len(ts) - 1) : ltndx(ts[j], ts[j + 1])

(* u is the row of ts, its terms in the order o *)
RowBy(u, ts, below, o) ==
  /\ Permutes(o, Len(ts)) /\ L!IsSeq(u) /\ Len(u) = Len(ts) /\ DOMAIN u = 1..Len(ts)
  /\ \A j \in 1..Len(u) : /\ o[j] \in 1..Len(ts)
                          /\ u[j] = Term(ts[o[j]].k, below[ts[o[j]].op0], below[ts[o[j]].op1])
                          /\ u[j] \in WireTerm /\ u[j].op0 <= u[j].op1 /\ u[j].k = ts[o[j]].k
                          /\ \/ u[j].op0 = below[ts[o[j]].op0] /\ u[j].op1 = below[ts[o[j]].op1]
                             \/ u[j].op0 = below[ts[o[j]].op1] /\ u[j].op1 = below[ts[o[j]].op0]
  /\ \A g : (\A k \in 1..Len(ts) : g[k] \in Elt)
              => Partial([k \in 1..Len(ts) |-> g[o[k]]], Len(ts)) = Partial(g, Len(ts))

(* A row has the terms in some order, and no two over the same wires.      *)
LEMMA RowIs ==
  ASSUME NEW live, NEW ts, Over(ts, live), NEW below, Facing(below, live)
  PROVE  LET u == RowOf(ts, below)
         IN  /\ \E o : RowBy(u, ts, below, o)
             /\ \A a, b \in 1..Len(u) : u[a].op0 = u[b].op0 /\ u[a].op1 = u[b].op1 => a = b
<1> DEFINE s == Renumbered(ts, below)   u == RowOf(ts, below)   n == Len(ts)
           before == {p \in (DOMAIN s) \X (DOMAIN s) : TermBefore(s[p[1]], s[p[2]])}
<1>1. n \in Nat /\ DOMAIN ts = 1..n /\ \A j \in 1..n : ts[j] \in TermType BY DEF Over
<1>2. u = [k \in DOMAIN s |-> s[Order(Len(s), before)[k]]] BY Zenon DEF RowOf, Sorted
<1>3. s = [j \in 1..n |-> s[j]] /\ \A j \in 1..n : s[j] = Term(ts[j].k, below[ts[j].op0], below[ts[j].op1])
  BY <1>1 DEF Renumbered
<1> HIDE DEF s, u, n, before
<1>4. L!IsSeq(s) /\ Len(s) = n /\ DOMAIN s = 1..n BY <1>1, <1>3, L!SequenceOfLength
<1> DEFINE o == Order(n, before)
<1>5. u = InOrderOf(s, Order(Len(s), before)) BY <1>2 DEF InOrderOf
<1>6. /\ Permutes(o, n) /\ L!IsSeq(u) /\ Len(u) = n
      /\ \A k \in 1..n : o[k] \in 1..n /\ u[k] = s[o[k]]
  BY <1>4, <1>5, OrderedSequence
<1>7. \A g : (\A k \in 1..n : g[k] \in Elt) => Partial([k \in 1..n |-> g[o[k]]], n) = Partial(g, n)
  BY <1>1, OrderPermutes
<1> HIDE DEF o
<1>8. DOMAIN u = 1..n BY <1>6, L!LengthOfSequence
<1>9. ASSUME NEW j \in 1..n
      PROVE  /\ ts[j].k \in Elt /\ ts[j].op0 \in live /\ ts[j].op1 \in live /\ ts[j].op0 <= ts[j].op1
             /\ ts[j].op0 \in Nat /\ ts[j].op1 \in Nat
             /\ below[ts[j].op0] \in Spot /\ below[ts[j].op1] \in Spot
  <2>1. ts[j].op0 \in live /\ ts[j].op1 \in live /\ ts[j].op0 <= ts[j].op1 BY DEF Over, n
  <2>2. ts[j].k \in Elt BY <1>1 DEF TermType
  <2>3. live \in SUBSET Nat BY DEF Over
  <2> QED BY <2>1, <2>2, <2>3 DEF Facing
<1>10. ASSUME NEW j \in 1..n
       PROVE  /\ u[j] = Term(ts[o[j]].k, below[ts[o[j]].op0], below[ts[o[j]].op1])
              /\ u[j] \in WireTerm /\ u[j].op0 <= u[j].op1 /\ u[j].k = ts[o[j]].k
              /\ \/ u[j].op0 = below[ts[o[j]].op0] /\ u[j].op1 = below[ts[o[j]].op1]
                 \/ u[j].op0 = below[ts[o[j]].op1] /\ u[j].op1 = below[ts[o[j]].op0]
  <2>1. o[j] \in 1..n /\ u[j] = s[o[j]] BY <1>6
  <2>2. u[j] = Term(ts[o[j]].k, below[ts[o[j]].op0], below[ts[o[j]].op1]) BY <1>3, <2>1
  <2>3. ts[o[j]].k \in Elt /\ below[ts[o[j]].op0] \in Spot /\ below[ts[o[j]].op1] \in Spot BY <1>9, <2>1
  <2> QED BY <2>2, <2>3, OrderedTerm
<1>11. RowBy(u, ts, below, o) BY <1>6, <1>7, <1>8, <1>10 DEF RowBy, n
<1>12. ASSUME NEW a \in 1..n, NEW b \in 1..n, u[a].op0 = u[b].op0, u[a].op1 = u[b].op1
       PROVE  a = b
  <2> DEFINE i == o[a]   j == o[b]
  <2>1. i \in 1..n /\ j \in 1..n BY <1>6
  <2> DEFINE p == ts[i].op0   q == ts[i].op1   x == ts[j].op0   y == ts[j].op1
  <2>2. /\ p \in live /\ q \in live /\ p <= q /\ p \in Nat /\ q \in Nat
        /\ x \in live /\ y \in live /\ x <= y /\ x \in Nat /\ y \in Nat
    BY <1>9, <2>1
  <2>3. /\ (u[a].op0 = below[p] /\ u[a].op1 = below[q]) \/ (u[a].op0 = below[q] /\ u[a].op1 = below[p])
        /\ (u[b].op0 = below[x] /\ u[b].op1 = below[y]) \/ (u[b].op0 = below[y] /\ u[b].op1 = below[x])
    BY <1>10
  <2>4. eqndx(ts[i], ts[j]) <=> p = x /\ q = y BY DEF eqndx
  <2> HIDE DEF i, j, p, q, x, y
  <2>5. \A v, w \in live : below[v] = below[w] => v = w BY DEF Facing
  <2>6. (p = x /\ q = y) \/ (p = y /\ q = x) BY <1>12, <2>2, <2>3, <2>5
  <2>7. p = x /\ q = y BY <2>2, <2>6, SamePair
  <2>8. i = j
    <3>1. ts \in Seq(TermType) /\ \A k \in 1..(Len(ts) - 1) : ltndx(ts[k], ts[k + 1]) BY DEF Over
    <3>2. \A v, w \in 1..Len(ts) : eqndx(ts[v], ts[w]) => v = w BY <3>1, StrictOrder
    <3> QED BY <2>1, <2>4, <2>7, <3>2 DEF n
  <2> QED BY <1>6, <2>8 DEF Permutes, i, j
<1> QED BY <1>6, <1>11, <1>12 DEF u

(* what a row carries on the wires below, as eval_quad multiplies *)
RowValues(u, W) == [j \in 1..Len(u) |-> mulf(mulf(u[j].k, W[u[j].op1]), W[u[j].op0])]

(* Factors in any order *)
LEMMA Factors ==
  ASSUME NEW k \in Elt, NEW v \in Elt, NEW w \in Elt
  PROVE  /\ mulf(mulf(k, w), v) = mulf(k, mulf(v, w))
         /\ mulf(mulf(k, v), w) = mulf(k, mulf(v, w))
         /\ mulf(mulf(k, w), v) \in Elt
<1>1. mulf(v, w) \in Elt /\ mulf(k, w) \in Elt /\ mulf(mulf(k, w), v) \in Elt BY ClosedField
<1>2. mulf(mulf(k, w), v) = mulf(k, mulf(w, v)) BY Ring
<1>3. mulf(w, v) = mulf(v, w) BY Ring
<1>4. mulf(mulf(k, v), w) = mulf(k, mulf(v, w)) BY Ring
<1> QED BY <1>1, <1>2, <1>3, <1>4

(* the numbered wires carry the values of their ops *)
OnWires(live, below, val, X, W) == \A i \in live : W[below[i]] = val[i][X] /\ val[i][X] \in Elt

(* what a row adds up to *)
AddsTo(u, W, v) == (\A j \in 1..Len(u) : RowValues(u, W)[j] \in Elt) /\ Partial(RowValues(u, W), Len(u)) = v

(* A row carries the meaning of its terms.                                 *)
LEMMA RowMeans ==
  ASSUME NEW live, NEW ts, Over(ts, live), NEW below, Facing(below, live), NEW val, NEW X, NEW W,
         OnWires(live, below, val, X, W)
  PROVE  AddsTo(RowOf(ts, below), W, Meaning(ts, val, X))
<1> DEFINE u == RowOf(ts, below)   n == Len(ts)
           g == [j \in 1..n |-> TermValue(ts[j], val, X)]
           h == RowValues(u, W)
<1>1. PICK o : RowBy(u, ts, below, o) BY RowIs
<1> HIDE DEF u
<1>2. n \in Nat /\ \A j \in 1..n : ts[j] \in TermType BY DEF Over
<1>3. ASSUME NEW j \in 1..n
      PROVE  /\ ts[j].k \in Elt /\ val[ts[j].op0][X] \in Elt /\ val[ts[j].op1][X] \in Elt
             /\ W[below[ts[j].op0]] = val[ts[j].op0][X] /\ W[below[ts[j].op1]] = val[ts[j].op1][X]
             /\ g[j] = mulf(ts[j].k, mulf(val[ts[j].op0][X], val[ts[j].op1][X])) /\ g[j] \in Elt
  <2>1. ts[j].op0 \in live /\ ts[j].op1 \in live BY DEF Over
  <2>2. ts[j].k \in Elt BY <1>2 DEF TermType
  <2>3. val[ts[j].op0][X] \in Elt /\ val[ts[j].op1][X] \in Elt BY <2>1 DEF OnWires
  <2>4. mulf(ts[j].k, mulf(val[ts[j].op0][X], val[ts[j].op1][X])) \in Elt BY <2>2, <2>3, ClosedField
  <2> QED BY <2>1, <2>2, <2>3, <2>4 DEF TermValue, OnWires
<1>4. Meaning(ts, val, X) = Partial(g, n) BY MeaningIsPartial DEF Over
<1> HIDE DEF g, n, h
<1>5. ASSUME NEW j \in 1..n PROVE h[j] = g[o[j]] /\ h[j] \in Elt
  <2> DEFINE i == o[j]   p == ts[i].op0   q == ts[i].op1
  <2>1. /\ i \in 1..n /\ u[j].k = ts[i].k
        /\ (u[j].op0 = below[p] /\ u[j].op1 = below[q]) \/ (u[j].op0 = below[q] /\ u[j].op1 = below[p])
    BY <1>1 DEF RowBy, n
  <2>2. h[j] = mulf(mulf(u[j].k, W[u[j].op1]), W[u[j].op0]) BY <1>1 DEF RowBy, h, RowValues, n
  <2>3. /\ ts[i].k \in Elt /\ val[p][X] \in Elt /\ val[q][X] \in Elt
        /\ W[below[p]] = val[p][X] /\ W[below[q]] = val[q][X] /\ g[i] = mulf(ts[i].k, mulf(val[p][X], val[q][X]))
        /\ g[i] \in Elt
    BY <1>3, <2>1
  <2> HIDE DEF i, p, q
  <2>4. h[j] = g[i]
    <3> DEFINE k == ts[i].k   v == val[p][X]   w == val[q][X]
    <3>1. /\ k \in Elt /\ v \in Elt /\ w \in Elt /\ g[i] = mulf(k, mulf(v, w))
          /\ h[j] = mulf(mulf(k, w), v) \/ h[j] = mulf(mulf(k, v), w)
      BY <2>1, <2>2, <2>3
    <3> HIDE DEF k, v, w
    <3>2. mulf(mulf(k, w), v) = mulf(k, mulf(v, w)) /\ mulf(mulf(k, v), w) = mulf(k, mulf(v, w))
      BY <3>1, Factors
    <3> QED BY <3>1, <3>2
  <2> QED BY <2>3, <2>4 DEF i
<1>6. Partial(h, n) = Partial(g, n)
  <2> DEFINE e == [k \in 1..n |-> g[o[k]]]
  <2>1. \A k \in 1..n : h[k] = e[k] BY <1>5
  <2>2. Partial(e, n) = Partial(g, n)
    <3>1. \A k \in 1..n : g[k] \in Elt BY <1>3
    <3> QED BY <1>1, <3>1 DEF RowBy, n
  <2> HIDE DEF e
  <2>3. Partial(h, n) = Partial(e, n) BY <1>2, <2>1, PartialAgrees
  <2> QED BY <2>2, <2>3
<1>7. Len(u) = n BY <1>1 DEF RowBy, n
<1> QED BY <1>4, <1>5, <1>6, <1>7 DEF u, h, AddsTo

-----------------------------------------------------------------------------
(* Layers *)
Entry(ns, need, ub, d, below, i) ==
  [id |-> desired_wire_id(ns[i], d, ub), op |-> i, copy |-> IsCopy(ns, i, d),
   terms |-> RowOf(lterms(ns, need, i, d), below)]
Entries(ns, need, ub, d, below) ==
  [w \in DOMAIN Alive(ns, need, d) |-> Entry(ns, need, ub, d, below, Alive(ns, need, d)[w])]

(* a layer has every living op once, with its number, its flag and its row *)
LayerOf(ns, need, ub, d, below, layer) ==
  /\ L!IsSeq(layer) /\ Len(layer) \in Nat /\ DOMAIN layer = 1..Len(layer) /\ Len(layer) <= Size(ns)
  /\ \A w \in 1..Len(layer) : /\ layer[w].op \in Living(ns, need, d)
                              /\ layer[w] = Entry(ns, need, ub, d, below, layer[w].op)
  /\ \A v, w \in 1..Len(layer) : layer[v].op = layer[w].op => v = w
  /\ \A i \in Living(ns, need, d) : \E w \in 1..Len(layer) : layer[w].op = i

Rank(id, top) == IF id = kWireIdUndefined THEN top ELSE id

(* A layer has an entry for each op that lives at its depth, and those     *)
(* with a wanted number first and in their order.                          *)
LEMMA RenamedIs ==
  ASSUME NEW ns, Typed(ns), NEW need, NEW ub, NEW d, NEW below
  PROVE  LET layer == Renamed(ns, need, ub, d, below)
         IN  /\ LayerOf(ns, need, ub, d, below, layer)
             /\ \A top \in Nat :
                  (\A i \in Living(ns, need, d) :
                     desired_wire_id(ns[i], d, ub) \in {kWireIdUndefined} \union 0..(top - 1))
                    => \A v, w \in 1..Len(layer) : v < w => Rank(layer[v].id, top) <= Rank(layer[w].id, top)
<1> DEFINE a == Alive(ns, need, d)   e == Entries(ns, need, ub, d, below)
           layer == Renamed(ns, need, ub, d, below)   n == Len(a)
           before == {p \in (DOMAIN e) \X (DOMAIN e) : NodeBefore(e[p[1]], e[p[2]])}
           Live == Living(ns, need, d)
<1>1. layer = [k \in DOMAIN e |-> e[Order(Len(e), before)[k]]]
  <2>1. layer = Sorted(e, NodeBefore) BY Zenon DEF Renamed, Entries, Entry, RowOf, Renumbered
  <2> QED BY <2>1, Zenon DEF Sorted
<1>2. /\ L!IsSeq(a) /\ n \in Nat /\ DOMAIN a = 1..n /\ n <= Size(ns)
      /\ \A w \in 1..n : a[w] \in Live
      /\ \A i \in Live : \E w \in 1..n : a[w] = i
  BY AliveIs
<1>3. \A v, w \in 1..n : a[v] = a[w] => v = w BY AliveOnce
<1>4. e = [w \in 1..n |-> e[w]] /\ \A w \in 1..n : e[w] = Entry(ns, need, ub, d, below, a[w])
  BY <1>2 DEF Entries
<1> HIDE DEF a, e, layer, n, before, Live
<1>5. L!IsSeq(e) /\ Len(e) = n /\ DOMAIN e = 1..n BY <1>2, <1>4, L!SequenceOfLength
<1> DEFINE o == Order(n, before)
<1>6. layer = InOrderOf(e, Order(Len(e), before)) BY <1>1 DEF InOrderOf
<1>7. /\ Permutes(o, n) /\ L!IsSeq(layer) /\ Len(layer) = n
      /\ \A k \in 1..n : o[k] \in 1..n /\ layer[k] = e[o[k]]
  BY <1>5, <1>6, OrderedSequence
<1>8. DOMAIN layer = 1..n BY <1>7, L!LengthOfSequence
<1>9. \A i : Entry(ns, need, ub, d, below, i).op = i /\ Entry(ns, need, ub, d, below, i).id = desired_wire_id(ns[i], d, ub)
  BY DEF Entry
<1>10. \A w \in 1..n : layer[w] = Entry(ns, need, ub, d, below, a[o[w]]) /\ layer[w].op = a[o[w]] /\ a[o[w]] \in Live
  BY <1>2, <1>4, <1>7, <1>9
<1>11. ASSUME NEW v \in 1..n, NEW w \in 1..n, layer[v].op = layer[w].op PROVE v = w
  <2>1. o[v] \in 1..n /\ o[w] \in 1..n /\ a[o[v]] = a[o[w]] BY <1>7, <1>10, <1>11
  <2>2. o[v] = o[w] BY <1>3, <2>1
  <2> QED BY <1>7, <2>2 DEF Permutes
<1>12. ASSUME NEW i \in Live PROVE \E w \in 1..n : layer[w].op = i
  <2>1. PICK v \in 1..n : a[v] = i BY <1>2, <1>12
  <2>2. PICK w \in 1..n : o[w] = v BY <1>7 DEF Permutes
  <2> QED BY <1>10, <2>1, <2>2
<1>13. LayerOf(ns, need, ub, d, below, layer)
  <2>1. L!IsSeq(layer) /\ Len(layer) = n /\ n \in Nat /\ DOMAIN layer = 1..n /\ n <= Size(ns)
    BY <1>2, <1>7, <1>8
  <2>2. \A w \in 1..n : layer[w].op \in Live /\ layer[w] = Entry(ns, need, ub, d, below, layer[w].op)
    <3> TAKE w \in 1..n
    <3>1. layer[w] = Entry(ns, need, ub, d, below, a[o[w]]) /\ layer[w].op = a[o[w]] /\ a[o[w]] \in Live
      BY <1>10
    <3> QED BY <3>1, Zenon
  <2>3. \A v, w \in 1..n : layer[v].op = layer[w].op => v = w BY <1>11
  <2>4. \A i \in Live : \E w \in 1..n : layer[w].op = i BY <1>12
  <2> QED BY <2>1, <2>2, <2>3, <2>4, Zenon DEF LayerOf, Live
<1>14. ASSUME NEW top \in Nat,
              \A i \in Live : desired_wire_id(ns[i], d, ub) \in {kWireIdUndefined} \union 0..(top - 1),
              NEW v \in 1..n, NEW w \in 1..n, v < w
       PROVE  Rank(layer[v].id, top) <= Rank(layer[w].id, top)
  <2> DEFINE rk == [k \in 1..n |-> Rank(e[k].id, top)]
  <2>1. ASSUME NEW k \in 1..n
        PROVE  /\ e[k].id = kWireIdUndefined \/ e[k].id \in 0..(top - 1)
               /\ rk[k] = Rank(e[k].id, top) /\ rk[k] \in Int
               /\ IF e[k].id = kWireIdUndefined THEN rk[k] = top ELSE rk[k] = e[k].id /\ rk[k] < top
    <3>1. e[k].id = desired_wire_id(ns[a[k]], d, ub) /\ a[k] \in Live BY <1>2, <1>4, <1>9
    <3>2. e[k].id \in {kWireIdUndefined} \union 0..(top - 1) BY <1>14, <3>1
    <3>3. rk[k] = Rank(e[k].id, top) OBVIOUS
    <3> HIDE DEF rk
    <3>4. e[k].id = kWireIdUndefined \/ e[k].id \in 0..(top - 1) BY <3>2
    <3>5. CASE e[k].id = kWireIdUndefined BY <3>3, <3>4, <3>5 DEF Rank
    <3>6. CASE e[k].id # kWireIdUndefined BY <3>3, <3>4, <3>6 DEF Rank
    <3> QED BY <3>3, <3>4, <3>5, <3>6
  <2> HIDE DEF rk
  <2>2. Respects(before, rk, n)
    <3> SUFFICES ASSUME NEW i \in 1..n, NEW j \in 1..n, rk[i] < rk[j]
                 PROVE  <<i, j>> \in before /\ <<j, i>> \notin before
      BY DEF Respects
    <3> DEFINE x == e[i]   y == e[j]
    <3>1. x.id # kWireIdUndefined /\ (y.id = kWireIdUndefined \/ x.id < y.id)
      <4>1. x.id # kWireIdUndefined
        <5> SUFFICES ASSUME x.id = kWireIdUndefined PROVE FALSE OBVIOUS
        <5>1. rk[i] = top /\ (rk[j] = top \/ rk[j] < top) /\ rk[j] \in Int BY <2>1
        <5> QED BY <5>1
      <4> QED BY <2>1, <4>1
    <3>2. NodeBefore(x, y)
      <4>1. {m \in {x, y} : m.id = kWireIdUndefined} # {x, y} BY <3>1
      <4> QED BY <3>1, <4>1 DEF NodeBefore
    <3>3. ~NodeBefore(y, x)
      <4>1. {m \in {y, x} : m.id = kWireIdUndefined} # {y, x} BY <3>1
      <4>2. ~(y.id # kWireIdUndefined /\ (x.id = kWireIdUndefined \/ y.id < x.id))
        <5>1. x.id # kWireIdUndefined /\ (y.id # kWireIdUndefined => x.id < y.id) BY <3>1
        <5>2. y.id # kWireIdUndefined => x.id \in Int /\ y.id \in Int BY <2>1, <5>1
        <5> QED BY <5>1, <5>2
      <4> QED BY <4>1, <4>2 DEF NodeBefore
    <3>4. <<i, j>> \in (DOMAIN e) \X (DOMAIN e) /\ <<j, i>> \in (DOMAIN e) \X (DOMAIN e) BY <1>5
    <3>5. <<i, j>>[1] = i /\ <<i, j>>[2] = j /\ <<j, i>>[1] = j /\ <<j, i>>[2] = i OBVIOUS
    <3>6. <<i, j>> \in before BY <3>2, <3>4, <3>5, Zenon DEF before
    <3>7. <<j, i>> \notin before BY <3>3, <3>5, Zenon DEF before
    <3> QED BY <3>6, <3>7
  <2>3. Ranked(rk, o, n)
    <3>1. \A k \in 1..n : rk[k] \in Int BY <2>1
    <3> QED BY <1>2, <2>2, <3>1, OrderIsRanked DEF o
  <2>4. rk[o[v]] <= rk[o[w]] BY <1>14, <2>3 DEF Ranked
  <2> QED BY <1>7, <2>1, <2>4
<1> QED BY <1>7, <1>13, <1>14 DEF layer, Live

(* Every living op of a layer has a number of its own.                     *)
LEMMA NumbersAre ==
  ASSUME NEW ns, Size(ns) <= Corners, Size(ns) \in Nat, NEW need, NEW ub, NEW d, NEW below, NEW layer,
         LayerOf(ns, need, ub, d, below, layer)
  PROVE  /\ Facing(Numbers(layer), Living(ns, need, d))
         /\ \A w \in 1..Len(layer) : Numbers(layer)[layer[w].op] = w - 1
<1>1. /\ Len(layer) \in Nat /\ DOMAIN layer = 1..Len(layer) /\ Len(layer) <= Size(ns)
      /\ \A v, w \in 1..Len(layer) : layer[v].op = layer[w].op => v = w
      /\ \A i \in Living(ns, need, d) : \E w \in 1..Len(layer) : layer[w].op = i
  BY DEF LayerOf
<1>2. ASSUME NEW w \in 1..Len(layer) PROVE Numbers(layer)[layer[w].op] = w - 1
  <2> DEFINE c == CHOOSE v \in DOMAIN layer : layer[v].op = layer[w].op
  <2>1. c \in 1..Len(layer) /\ layer[c].op = layer[w].op BY <1>1
  <2>2. c = w BY <1>1, <2>1
  <2>3. layer[w].op \in {layer[v].op : v \in DOMAIN layer} BY <1>1
  <2>4. Numbers(layer)[layer[w].op] = c - 1 BY <2>3, Zenon DEF Numbers
  <2> QED BY <2>2, <2>4
<1>3. ASSUME NEW i \in Living(ns, need, d) PROVE Numbers(layer)[i] \in Spot
  <2>1. PICK w \in 1..Len(layer) : layer[w].op = i BY <1>1
  <2>2. Numbers(layer)[i] = w - 1 BY <1>2, <2>1
  <2>3. w - 1 \in 0..(Corners - 1) BY <1>1, CornersAssumption
  <2> QED BY <2>2, <2>3 DEF Spot
<1>4. ASSUME NEW i \in Living(ns, need, d), NEW j \in Living(ns, need, d), Numbers(layer)[i] = Numbers(layer)[j]
      PROVE  i = j
  <2>1. PICK v \in 1..Len(layer) : layer[v].op = i BY <1>1
  <2>2. PICK w \in 1..Len(layer) : layer[w].op = j BY <1>1
  <2>3. v - 1 = w - 1 BY <1>2, <1>4, <2>1, <2>2
  <2>4. v = w BY <2>3
  <2> QED BY <2>1, <2>2, <2>4
<1> QED BY <1>2, <1>3, <1>4 DEF Facing

-----------------------------------------------------------------------------
(* The quad of a layer *)
QuadRow(layer, w) ==
  [j \in DOMAIN layer[w].terms |->
     [g |-> w - 1, h |-> <<layer[w].terms[j].op0, layer[w].terms[j].op1>>, v |-> layer[w].terms[j].k]]
QuadRows(layer) == [w \in DOMAIN layer |-> QuadRow(layer, w)]
RawQuad(layer) == L!FlattenSeq(QuadRows(layer))

(* rows of terms over different wires each *)
Tidied(row) ==
  /\ L!IsSeq(row) /\ Len(row) \in Nat /\ DOMAIN row = 1..Len(row)
  /\ \A j \in 1..Len(row) : row[j] \in WireTerm /\ row[j].op0 <= row[j].op1
  /\ \A a, b \in 1..Len(row) : row[a].op0 = row[b].op0 /\ row[a].op1 = row[b].op1 => a = b
GoodLayer(layer) ==
  /\ L!IsSeq(layer) /\ Len(layer) \in Nat /\ DOMAIN layer = 1..Len(layer) /\ Len(layer) <= Corners
  /\ \A w \in 1..Len(layer) : Tidied(layer[w].terms)

(* The terms of a quad row *)
LEMMA QuadRowIs ==
  ASSUME NEW layer, GoodLayer(layer), NEW w \in 1..Len(layer)
  PROVE  LET row == QuadRow(layer, w)   ts == layer[w].terms
         IN  /\ L!IsSeq(row) /\ Len(row) = Len(ts) /\ Len(row) \in Nat /\ row \in Seq(Cell)
             /\ \A j \in 1..Len(ts) : /\ row[j] \in Cell /\ row[j].g = w - 1 /\ row[j].v = ts[j].k
                                      /\ row[j].h = <<ts[j].op0, ts[j].op1>>
                                      /\ row[j].h[1] = ts[j].op0 /\ row[j].h[2] = ts[j].op1
<1> DEFINE row == QuadRow(layer, w)   ts == layer[w].terms
<1>1. Tidied(ts) BY DEF GoodLayer
<1>2. Len(ts) \in Nat /\ DOMAIN ts = 1..Len(ts) BY <1>1 DEF Tidied
<1>3. row = [j \in 1..Len(ts) |-> row[j]]
      /\ \A j \in 1..Len(ts) : row[j] = [g |-> w - 1, h |-> <<ts[j].op0, ts[j].op1>>, v |-> ts[j].k]
  BY <1>2 DEF QuadRow
<1>4. w - 1 \in Spot
  <2>1. Len(layer) \in Nat /\ Len(layer) <= Corners BY DEF GoodLayer
  <2> QED BY <2>1, CornersAssumption DEF Spot
<1> HIDE DEF row, ts
<1>5. L!IsSeq(row) /\ Len(row) = Len(ts) BY <1>2, <1>3, L!SequenceOfLength
<1>6. ASSUME NEW j \in 1..Len(ts)
      PROVE  /\ row[j] \in Cell /\ row[j].g = w - 1 /\ row[j].v = ts[j].k
             /\ row[j].h = <<ts[j].op0, ts[j].op1>> /\ row[j].h[1] = ts[j].op0 /\ row[j].h[2] = ts[j].op1
  <2>1. ts[j].k \in Elt /\ ts[j].op0 \in Spot /\ ts[j].op1 \in Spot
    <3>1. ts[j] \in WireTerm BY <1>1 DEF Tidied
    <3> QED BY <3>1 DEF WireTerm
  <2>2. row[j] = [g |-> w - 1, h |-> <<ts[j].op0, ts[j].op1>>, v |-> ts[j].k] BY <1>3
  <2> QED BY <1>4, <2>1, <2>2 DEF Cell
<1>7. row \in Seq(Cell)
  <2>1. row \in [1..Len(ts) -> Cell] BY <1>3, <1>6
  <2> QED BY <1>2, <2>1
<1> QED BY <1>2, <1>5, <1>6, <1>7 DEF row, ts

(* mkquad and const_iterator: the terms of all rows in some order.         *)
LEMMA QuadIs ==
  ASSUME NEW layer, GoodLayer(layer)
  PROVE  LET rows == QuadRows(layer)   raw == RawQuad(layer)   q == iterate(mkquad(layer))
         IN  /\ L!IsSeq(rows) /\ Len(rows) = Len(layer)
             /\ \A w \in 1..Len(rows) : rows[w] = QuadRow(layer, w) /\ L!IsSeq(rows[w])
             /\ raw \in Seq(Cell)
             /\ \E off : L!PartsAt(off, rows, raw)
             /\ \E before : q = InOrderOf(raw, Order(Len(raw), before))
<1> DEFINE rows == QuadRows(layer)   raw == RawQuad(layer)   q == iterate(mkquad(layer))   n == Len(layer)
<1>1. L!IsSeq(layer) /\ n \in Nat /\ DOMAIN layer = 1..n BY DEF GoodLayer
<1>2. rows = [w \in 1..n |-> rows[w]] /\ \A w \in 1..n : rows[w] = QuadRow(layer, w)
  BY <1>1 DEF QuadRows
<1>3. mkquad(layer) = compress(canonicalize(raw))
  <2>1. Seqs!FlattenSeq(QuadRows(layer)) = L!FlattenSeq(QuadRows(layer)) BY Zenon DEF Seqs!FlattenSeq, L!FlattenSeq
  <2>2. mkquad(layer) = compress(canonicalize(Seqs!FlattenSeq(QuadRows(layer))))
    BY Zenon DEF mkquad, QuadRows, QuadRow
  <2> QED BY <2>1, <2>2, Zenon DEF RawQuad
<1> HIDE DEF rows, n
<1>4. L!IsSeq(rows) /\ Len(rows) = n BY <1>1, <1>2, L!SequenceOfLength
<1>5. /\ \A w \in 1..n : L!IsSeq(rows[w]) /\ Len(rows[w]) = Len(layer[w].terms) /\ rows[w] \in Seq(Cell)
      /\ \A w \in 1..n : \A j \in 1..Len(rows[w]) :
           /\ rows[w][j] \in Cell /\ rows[w][j].g = w - 1
           /\ rows[w][j].h = <<layer[w].terms[j].op0, layer[w].terms[j].op1>>
           /\ rows[w][j].h[1] = layer[w].terms[j].op0 /\ rows[w][j].h[2] = layer[w].terms[j].op1
  BY <1>2, QuadRowIs DEF n
<1>6. raw = L!FlattenSeq(rows) BY DEF RawQuad, rows
<1> HIDE DEF raw
<1>7. raw \in Seq(Cell)
  <2>1. rows \in [1..n -> Seq(Cell)] BY <1>2, <1>5
  <2>2. rows \in Seq(Seq(Cell)) BY <1>1, <2>1
  <2> QED BY <1>6, <2>2, L!FlatteningIsTyped
<1>8. \A w \in 1..Len(rows) : L!IsSeq(rows[w]) BY <1>4, <1>5
<1>9. PICK off : L!PartsAt(off, rows, raw)
  <2> HIDE DEF rows
  <2> QED BY <1>4, <1>6, <1>8, L!FlatteningParts
<1>10. \A r \in 1..Len(raw) : \E w \in 1..n : \E j \in 1..Len(rows[w]) : r = off[w - 1] + j /\ raw[r] = rows[w][j]
  <2>1. L!IsSeq(rows) BY <1>4
  <2> HIDE DEF rows, raw, n
  <2>2. Covers(off, rows, raw) BY <1>8, <1>9, <2>1, PartsCover
  <2> QED BY <1>4, <2>2 DEF Covers
<1>11. Apart(raw)
  <2> SUFFICES ASSUME NEW r \in 1..Len(raw), NEW s \in 1..Len(raw), raw[r].g = raw[s].g, raw[r].h = raw[s].h
               PROVE  r = s
    BY DEF Apart
  <2>0. /\ \E x \in 1..n : \E j \in 1..Len(rows[x]) : r = off[x - 1] + j /\ raw[r] = rows[x][j]
        /\ \E x \in 1..n : \E j \in 1..Len(rows[x]) : s = off[x - 1] + j /\ raw[s] = rows[x][j]
    BY <1>10
  <2>a. PICK v \in 1..n : \E j \in 1..Len(rows[v]) : r = off[v - 1] + j /\ raw[r] = rows[v][j] BY <2>0
  <2>b. PICK w \in 1..n : \E j \in 1..Len(rows[w]) : s = off[w - 1] + j /\ raw[s] = rows[w][j] BY <2>0
  <2>1. PICK i \in 1..Len(rows[v]) : r = off[v - 1] + i /\ raw[r] = rows[v][i] BY <2>a
  <2>2. PICK j \in 1..Len(rows[w]) : s = off[w - 1] + j /\ raw[s] = rows[w][j] BY <2>b
  <2>3. v - 1 = w - 1 BY <1>5, <2>1, <2>2
  <2>4. v = w BY <2>3
  <2>5. /\ rows[v][i].h[1] = layer[v].terms[i].op0 /\ rows[v][i].h[2] = layer[v].terms[i].op1
        /\ rows[w][j].h[1] = layer[w].terms[j].op0 /\ rows[w][j].h[2] = layer[w].terms[j].op1
    BY <1>5, <2>1, <2>2
  <2>6. layer[v].terms[i].op0 = layer[v].terms[j].op0 /\ layer[v].terms[i].op1 = layer[v].terms[j].op1
    BY <2>1, <2>2, <2>4, <2>5
  <2>7. i \in 1..Len(layer[v].terms) /\ j \in 1..Len(layer[v].terms) BY <1>5, <2>1, <2>2, <2>4
  <2>8. Tidied(layer[v].terms) BY DEF GoodLayer, n
  <2>9. i = j BY <2>6, <2>7, <2>8 DEF Tidied
  <2> QED BY <2>1, <2>2, <2>4, <2>9
<1>12. \A r \in 1..Len(raw) : ~(raw[r].h[1] > raw[r].h[2])
  <2> TAKE r \in 1..Len(raw)
  <2>0. PICK w \in 1..n : \E j \in 1..Len(rows[w]) : raw[r] = rows[w][j] BY <1>10
  <2>1. PICK j \in 1..Len(rows[w]) : raw[r] = rows[w][j] BY <2>0
  <2>2. raw[r].h[1] = layer[w].terms[j].op0 /\ raw[r].h[2] = layer[w].terms[j].op1 BY <1>5, <2>1
  <2>3. j \in 1..Len(layer[w].terms) /\ Tidied(layer[w].terms) BY <1>5, <2>1 DEF GoodLayer, n
  <2>4. layer[w].terms[j] \in WireTerm /\ layer[w].terms[j].op0 <= layer[w].terms[j].op1 BY <2>3 DEF Tidied
  <2>5. layer[w].terms[j].op0 \in Nat /\ layer[w].terms[j].op1 \in Nat BY <2>4, SpotsAreNumbers DEF WireTerm
  <2> QED BY <2>2, <2>4, <2>5
<1>13. PICK before : canonicalize(raw) = InOrderOf(raw, Order(Len(raw), before))
  BY <1>7, <1>11, <1>12, CanonicalIs
<1>14. q = canonicalize(raw)
  <2>1. canonicalize(raw) \in Seq(Cell)
    <3>1. L!IsSeq(raw) /\ Len(raw) \in Nat BY <1>7 DEF L!IsSeq
    <3> DEFINE c == InOrderOf(raw, Order(Len(raw), before))
    <3>2. /\ L!IsSeq(c) /\ Len(c) = Len(raw)
          /\ \A k \in 1..Len(raw) : Order(Len(raw), before)[k] \in 1..Len(raw) /\ c[k] = raw[Order(Len(raw), before)[k]]
      BY <3>1, OrderedSequence
    <3>3. \A k \in 1..Len(raw) : c[k] \in Cell BY <1>7, <3>2
    <3> HIDE DEF c
    <3>4. c = [k \in 1..Len(raw) |-> c[k]] BY <3>2, L!LengthOfSequence
    <3>5. c \in [1..Len(raw) -> Cell] BY <3>3, <3>4
    <3>6. c \in Seq(Cell) BY <3>1, <3>5
    <3> QED BY <1>13, <3>6 DEF c
  <2> QED BY <1>3, <2>1, IterateCompress
<1>15. q = InOrderOf(raw, Order(Len(raw), before)) BY <1>13, <1>14
<1> QED BY <1>2, <1>4, <1>5, <1>7, <1>9, <1>15 DEF rows, raw, n

(* the terms without coefficient of a layer hold *)
RowsHold(layer, W) ==
  \A w \in 1..Len(layer) : \A j \in 1..Len(layer[w].terms) :
    layer[w].terms[j].k = 0 => mulf(W[layer[w].terms[j].op1], W[layer[w].terms[j].op0]) = 0

(* Evaluating a quad evaluates the rows of its layer.                      *)
LEMMA QuadMeans ==
  ASSUME NEW layer, GoodLayer(layer), NEW W,
         \A w \in 1..Len(layer) : \A j \in 1..Len(layer[w].terms) : RowValues(layer[w].terms, W)[j] \in Elt
  PROVE  LET q == iterate(mkquad(layer))
         IN  /\ \A g \in 0..(Len(layer) - 1) :
                  GateValue(q, W, g) = Partial(RowValues(layer[g + 1].terms, W), Len(layer[g + 1].terms))
             /\ AssertionsHold(q, W) <=> RowsHold(layer, W)
<1> DEFINE rows == QuadRows(layer)   raw == RawQuad(layer)   q == iterate(mkquad(layer))   n == Len(layer)
<1>1. /\ L!IsSeq(rows) /\ Len(rows) = n /\ \A w \in 1..n : rows[w] = QuadRow(layer, w) /\ L!IsSeq(rows[w])
      /\ raw \in Seq(Cell) /\ n \in Nat
  BY QuadIs DEF GoodLayer
<1>2. PICK off : L!PartsAt(off, rows, raw) BY QuadIs
<1>3. PICK before : q = InOrderOf(raw, Order(Len(raw), before)) BY QuadIs
<1>4. ASSUME NEW w \in 1..n
      PROVE  /\ Len(rows[w]) = Len(layer[w].terms) /\ Len(rows[w]) \in Nat
             /\ \A j \in 1..Len(rows[w]) : /\ rows[w][j].g = w - 1 /\ rows[w][j].v = layer[w].terms[j].k
                                           /\ rows[w][j].h[1] = layer[w].terms[j].op0
                                           /\ rows[w][j].h[2] = layer[w].terms[j].op1
  BY <1>1, QuadRowIs
<1>5. \A w \in 1..n : \A j \in 1..Len(rows[w]) :
        /\ RowValues(layer[w].terms, W)[j] \in Elt
        /\ RowValues(layer[w].terms, W)[j]
             = mulf(mulf(layer[w].terms[j].k, W[layer[w].terms[j].op1]), W[layer[w].terms[j].op0])
  BY <1>4 DEF RowValues
<1> DEFINE o == Order(Len(raw), before)   m == Len(raw)
<1>6. m \in Nat /\ L!IsSeq(raw) BY <1>1 DEF L!IsSeq
<1> HIDE DEF rows, raw, q, n
<1>7. /\ Permutes(o, m) /\ Len(q) = m /\ L!IsSeq(q) /\ \A k \in 1..m : o[k] \in 1..m /\ q[k] = raw[o[k]]
  BY <1>3, <1>6, OrderedSequence
<1>8. DOMAIN q = 1..m BY <1>7, L!LengthOfSequence
<1>9. \A g : (\A k \in 1..m : g[k] \in Elt) => Partial([k \in 1..m |-> g[o[k]]], m) = Partial(g, m)
  BY <1>6, OrderPermutes
<1> HIDE DEF o
<1>10. /\ \A a, b \in 0..n : a <= b => off[a] <= off[b]
       /\ \A r \in 1..m : \E w \in 1..n : \E j \in 1..Len(rows[w]) : r = off[w - 1] + j /\ raw[r] = rows[w][j]
  <2>0. L!IsSeq(rows) BY <1>1
  <2>1. \A w \in 1..Len(rows) : L!IsSeq(rows[w]) BY <1>1
  <2>2. /\ \A a, b \in 0..Len(rows) : a <= b => off[a] <= off[b]
        /\ \A r \in 1..Len(raw) : \E i \in 1..Len(rows) : \E j \in 1..Len(rows[i]) :
             r = off[i - 1] + j /\ raw[r] = rows[i][j]
    <3>1. Covers(off, rows, raw) BY <2>0, <1>2, <2>1, PartsCover
    <3> QED BY <3>1 DEF Covers
  <2> QED BY <1>1, <2>2 DEF m
<1>11. /\ \A i \in 0..n : off[i] \in Nat
       /\ \A i \in 1..n : off[i] = off[i - 1] + Len(rows[i])
       /\ m = off[n]
       /\ \A i \in 1..n : \A j \in 1..Len(rows[i]) : raw[off[i - 1] + j] = rows[i][j]
  BY <1>1, <1>2 DEF L!PartsAt, m
<1> HIDE DEF m
<1>12. ASSUME NEW g \in 0..(n - 1)
       PROVE  GateValue(q, W, g) = Partial(RowValues(layer[g + 1].terms, W), Len(layer[g + 1].terms))
  <2> DEFINE i == g + 1   e == [k \in 1..m |-> TermOf(q[k], W, g)]   h == [r \in 1..m |-> TermOf(raw[r], W, g)]
             u == [j \in 1..Len(rows[i]) |-> h[off[i - 1] + j]]   v == RowValues(layer[i].terms, W)
  <2>1. i \in 1..n /\ i - 1 = g BY <1>1
  <2>2. GateValue(q, W, g) = Partial(e, m)
    <3>1. GateValue(q, W, g) = Partial([k \in DOMAIN q |-> TermOf(q[k], W, g)], Len(q))
      BY Zenon DEF GateValue, Partial
    <3> QED BY <1>7, <1>8, <3>1
  <2>3. ASSUME NEW r \in 1..m
        PROVE  /\ h[r] = TermOf(raw[r], W, g) /\ h[r] \in Elt
               /\ r <= off[g] \/ r > off[i] => h[r] = 0
    <3>1. h[r] = TermOf(raw[r], W, g) OBVIOUS
    <3> HIDE DEF h
    <3>2. PICK w \in 1..n : \E j \in 1..Len(rows[w]) : r = off[w - 1] + j /\ raw[r] = rows[w][j] BY <1>10
    <3>3. PICK j \in 1..Len(rows[w]) : r = off[w - 1] + j /\ raw[r] = rows[w][j] BY <3>2
    <3>4. h[r] = IF w - 1 = g THEN v[j] ELSE 0
      <4>1. /\ rows[w][j].g = w - 1 /\ rows[w][j].v = layer[w].terms[j].k
            /\ rows[w][j].h[1] = layer[w].terms[j].op0 /\ rows[w][j].h[2] = layer[w].terms[j].op1
        BY <1>4, <3>3
      <4>2. h[r] = IF w - 1 = g
                   THEN mulf(mulf(layer[w].terms[j].k, W[layer[w].terms[j].op1]), W[layer[w].terms[j].op0]) ELSE 0
        BY <3>1, <3>3, <4>1 DEF TermOf
      <4>3. w - 1 = g => w = i OBVIOUS
      <4>4. RowValues(layer[w].terms, W)[j]
              = mulf(mulf(layer[w].terms[j].k, W[layer[w].terms[j].op1]), W[layer[w].terms[j].op0])
        BY <1>5, <3>3
      <4> QED BY <4>2, <4>3, <4>4
    <3>5. v[j] \in Elt \/ w - 1 # g BY <1>5, <2>1, <3>3
    <3>6. h[r] \in Elt BY <3>4, <3>5, TheModulus
    <3>7. ASSUME r <= off[g] \/ r > off[i] PROVE w - 1 # g
      <4> SUFFICES ASSUME w - 1 = g PROVE FALSE OBVIOUS
      <4>1. w = i /\ i - 1 \in 0..n /\ i \in 0..n BY <1>1, <2>1
      <4>2. off[i] = off[g] + Len(rows[i]) /\ off[g] \in Nat /\ Len(rows[i]) \in Nat BY <1>4, <1>11, <2>1, <4>1
      <4>3. r = off[g] + j /\ j \in 1..Len(rows[i]) BY <2>1, <3>3, <4>1
      <4> HIDE DEF i
      <4> QED BY <3>7, <4>2, <4>3
    <3> QED BY <3>1, <3>4, <3>6, <3>7
  <2>4. \A k \in 1..m : e[k] = h[o[k]] BY <1>7
  <2> HIDE DEF h
  <2>5. Partial(e, m) = Partial(h, m)
    <3> DEFINE p == [k \in 1..m |-> h[o[k]]]
    <3>1. \A k \in 1..m : e[k] = p[k] BY <2>4
    <3>2. Partial(p, m) = Partial(h, m) BY <1>9, <2>3
    <3> HIDE DEF e, p
    <3>3. Partial(e, m) = Partial(p, m) BY <1>6, <3>1, PartialAgrees
    <3> QED BY <3>2, <3>3
  <2> HIDE DEF e
  <2>6. Partial(h, m) = Partial(u, Len(rows[i]))
    <3>1. \A r \in 1..Len(raw) : h[r] \in Elt /\ (r <= off[i - 1] \/ r > off[i] => h[r] = 0)
      BY <2>1, <2>3 DEF m
    <3>2. \A w \in 1..Len(rows) : L!IsSeq(rows[w]) BY <1>1
    <3>3. i \in 1..Len(rows) BY <1>1, <2>1
    <3> HIDE DEF i
    <3>4. Partial(h, Len(raw)) = Partial([j \in 1..Len(rows[i]) |-> h[off[i - 1] + j]], Len(rows[i]))
      <4>1. Parts(rows) /\ L!PartsAt(off, rows, raw) BY <1>1, <1>2, <3>2 DEF Parts
      <4>2. OnPart(h, Len(raw), off[i - 1], off[i]) BY <3>1, Zenon DEF OnPart
      <4>3. SumIsPart(h, Len(raw), off[i - 1], Len(rows[i])) BY <3>3, <4>1, <4>2, PartSum
      <4> QED BY <4>3, Zenon DEF SumIsPart
    <3> QED BY <3>4 DEF m
  <2>7. Partial(u, Len(rows[i])) = Partial(v, Len(rows[i]))
    <3>1. ASSUME NEW j \in 1..Len(rows[i]) PROVE u[j] = v[j]
      <4>1. u[j] = h[off[i - 1] + j] OBVIOUS
      <4>2. off[i - 1] + j \in 1..m
        <5>1. off[i] = off[i - 1] + Len(rows[i]) /\ off[i - 1] \in Nat /\ Len(rows[i]) \in Nat
          <6>1. i - 1 \in 0..n BY <1>1, <2>1
          <6> QED BY <1>4, <1>11, <2>1, <6>1
        <5>2. off[i] <= off[n] /\ off[i] \in Nat /\ off[n] \in Nat
          <6>1. i \in 0..n /\ n \in 0..n /\ i <= n BY <1>1, <2>1
          <6> QED BY <1>10, <1>11, <6>1
        <5> HIDE DEF i
        <5> QED BY <1>11, <5>1, <5>2
      <4>3. raw[off[i - 1] + j] = rows[i][j] BY <1>11, <2>1
      <4>4. h[off[i - 1] + j] = TermOf(rows[i][j], W, g) BY <2>3, <4>2, <4>3
      <4>5. TermOf(rows[i][j], W, g) = v[j] BY <1>4, <1>5, <2>1 DEF TermOf
      <4> QED BY <4>1, <4>4, <4>5
    <3>2. Len(rows[i]) \in Nat BY <1>4, <2>1
    <3> HIDE DEF u, v
    <3> QED BY <3>1, <3>2, PartialAgrees
  <2>8. Len(rows[i]) = Len(layer[i].terms) BY <1>4, <2>1
  <2> QED BY <2>2, <2>5, <2>6, <2>7, <2>8
<1>13. AssertionsHold(q, W) <=> RowsHold(layer, W)
  <2>1. AssertionsHold(q, W) <=> \A k \in 1..m : q[k].v = 0 => mulf(W[q[k].h[2]], W[q[k].h[1]]) = 0
    <3>1. Seqs!ToSet(q) = {q[k] : k \in 1..m} BY <1>8 DEF Seqs!ToSet
    <3> QED BY <3>1 DEF AssertionsHold
  <2>2. ASSUME \A k \in 1..m : q[k].v = 0 => mulf(W[q[k].h[2]], W[q[k].h[1]]) = 0,
               NEW w \in 1..n, NEW j \in 1..Len(rows[w]), rows[w][j].v = 0
        PROVE  mulf(W[rows[w][j].h[2]], W[rows[w][j].h[1]]) = 0
    <3>1. off[w - 1] + j \in 1..m
      <4>1. off[w] = off[w - 1] + Len(rows[w]) /\ off[w - 1] \in Nat /\ Len(rows[w]) \in Nat
        <5>1. w - 1 \in 0..n BY <1>1
        <5> QED BY <1>4, <1>11, <5>1
      <4>2. off[w] <= off[n] /\ off[w] \in Nat /\ off[n] \in Nat
        <5>1. w \in 0..n /\ n \in 0..n /\ w <= n BY <1>1
        <5> QED BY <1>10, <1>11, <5>1
      <4> QED BY <1>11, <4>1, <4>2
    <3>2. PICK k \in 1..m : o[k] = off[w - 1] + j BY <1>7, <3>1 DEF Permutes
    <3>3. q[k] = rows[w][j] BY <1>7, <1>11, <3>2
    <3> QED BY <2>2, <3>3
  <2>3. ASSUME \A w \in 1..n : \A j \in 1..Len(rows[w]) :
                 rows[w][j].v = 0 => mulf(W[rows[w][j].h[2]], W[rows[w][j].h[1]]) = 0,
               NEW k \in 1..m, q[k].v = 0
        PROVE  mulf(W[q[k].h[2]], W[q[k].h[1]]) = 0
    <3>1. o[k] \in 1..m /\ q[k] = raw[o[k]] BY <1>7
    <3>2. PICK w \in 1..n : \E j \in 1..Len(rows[w]) : raw[o[k]] = rows[w][j] BY <1>10, <3>1
    <3>3. PICK j \in 1..Len(rows[w]) : raw[o[k]] = rows[w][j] BY <3>2
    <3> QED BY <2>3, <3>1, <3>3
  <2>4. RowsHold(layer, W) <=>
          \A w \in 1..n : \A j \in 1..Len(rows[w]) :
            rows[w][j].v = 0 => mulf(W[rows[w][j].h[2]], W[rows[w][j].h[1]]) = 0
    <3>1. ASSUME NEW w \in 1..n, NEW j \in 1..Len(rows[w])
          PROVE  /\ rows[w][j].v = layer[w].terms[j].k
                 /\ mulf(W[rows[w][j].h[2]], W[rows[w][j].h[1]])
                      = mulf(W[layer[w].terms[j].op1], W[layer[w].terms[j].op0])
      BY <1>4
    <3>2. RowsHold(layer, W) <=>
            \A w \in 1..n : \A j \in 1..Len(rows[w]) :
              layer[w].terms[j].k = 0 => mulf(W[layer[w].terms[j].op1], W[layer[w].terms[j].op0]) = 0
      <4>1. \A w \in 1..n : Len(rows[w]) = Len(layer[w].terms) BY <1>4
      <4> QED BY <4>1 DEF RowsHold, n
    <3> QED BY <3>1, <3>2
  <2> QED BY <2>1, <2>2, <2>3, <2>4
<1> QED BY <1>12, <1>13 DEF n, q

-----------------------------------------------------------------------------
(* A layer evaluated on the wires below *)
Evaluable(ns, need, ub, d, below, layer) ==
  /\ Plan(ns, ub, need) /\ d \in Nat /\ d >= 1 /\ Facing(below, Living(ns, need, d - 1))
  /\ LayerOf(ns, need, ub, d, below, layer)

(* The row of a living op *)
LEMMA LivingRow ==
  ASSUME NEW ns, NEW need, NEW ub, NEW d, NEW below, NEW layer, Evaluable(ns, need, ub, d, below, layer),
         NEW w \in 1..Len(layer)
  PROVE  LET i == layer[w].op   ts == lterms(ns, need, i, d)   live == Living(ns, need, d - 1)
         IN  /\ i \in Living(ns, need, d) /\ Over(ts, live) /\ Facing(below, live) /\ TermsOk(ns, ts)
             /\ layer[w].terms = RowOf(ts, below) /\ layer[w].copy = IsCopy(ns, i, d)
             /\ layer[w].id = desired_wire_id(ns[i], d, ub)
             /\ Tidied(layer[w].terms)
<1> DEFINE i == layer[w].op   ts == lterms(ns, need, i, d)   live == Living(ns, need, d - 1)
           u == layer[w].terms
<1>1. Plan(ns, ub, need) /\ d \in Nat /\ d >= 1 /\ Facing(below, live) BY DEF Evaluable
<1>2. i \in Living(ns, need, d) /\ layer[w] = Entry(ns, need, ub, d, below, i) BY DEF Evaluable, LayerOf
<1>3. u = RowOf(ts, below) /\ layer[w].copy = IsCopy(ns, i, d) /\ layer[w].id = desired_wire_id(ns[i], d, ub)
  BY <1>2 DEF Entry
<1> HIDE DEF i
<1>4. /\ TermsOk(ns, ts)
      /\ \A j \in 1..Len(ts) : ts[j].op0 \in live /\ ts[j].op1 \in live
  BY <1>1, <1>2, LayerTerms
<1>5. live \in SUBSET Nat
  <2>1. Ok(ns) BY <1>1 DEF Plan, Within
  <2>2. \A x \in Ops(ns) : x \in Nat BY <2>1, NodeFacts
  <2> QED BY <2>2 DEF Living
<1> HIDE DEF ts, live, u
<1>6. Over(ts, live) BY <1>4, <1>5 DEF Over, TermsOk
<1>7. /\ \E o : RowBy(u, ts, below, o)
      /\ \A a, b \in 1..Len(u) : u[a].op0 = u[b].op0 /\ u[a].op1 = u[b].op1 => a = b
  BY <1>1, <1>3, <1>6, RowIs
<1>8. Tidied(u)
  <2>1. PICK o : RowBy(u, ts, below, o) BY <1>7
  <2>2. L!IsSeq(u) /\ Len(u) = Len(ts) /\ DOMAIN u = 1..Len(ts) BY <2>1 DEF RowBy
  <2>3. Len(u) \in Nat BY <2>2, L!LengthOfSequence
  <2>4. \A j \in 1..Len(u) : u[j] \in WireTerm /\ u[j].op0 <= u[j].op1 BY <2>1, Zenon DEF RowBy
  <2> QED BY <1>7, <2>2, <2>3, <2>4 DEF Tidied
<1> QED BY <1>1, <1>2, <1>3, <1>4, <1>6, <1>8 DEF i, ts, live, u

(* A layer has rows over different wires, so that its terms are distinct.  *)
LEMMA LayerIsGood ==
  ASSUME NEW ns, NEW need, NEW ub, NEW d, NEW below, NEW layer, Evaluable(ns, need, ub, d, below, layer)
  PROVE  GoodLayer(layer) /\ \A w \in DOMAIN layer : uniq(layer[w].terms)
<1>1. /\ L!IsSeq(layer) /\ Len(layer) \in Nat /\ DOMAIN layer = 1..Len(layer) /\ Len(layer) <= Size(ns)
  BY DEF Evaluable, LayerOf
<1>2. Size(ns) <= Corners /\ Size(ns) \in Nat /\ Corners \in Nat
  BY Numbered, CornersAssumption DEF Evaluable, Plan, Within, Ok
<1>3. Len(layer) <= Corners BY <1>1, <1>2
<1>4. \A w \in 1..Len(layer) : Tidied(layer[w].terms) BY LivingRow
<1>5. GoodLayer(layer) BY <1>1, <1>3, <1>4 DEF GoodLayer
<1>6. ASSUME NEW w \in 1..Len(layer) PROVE uniq(layer[w].terms)
  <2> DEFINE u == layer[w].terms
  <2>1. Tidied(u) BY <1>4
  <2> HIDE DEF u
  <2>2. ASSUME NEW j \in 1..(Len(u) - 1), u[j] = u[j + 1] PROVE FALSE
    <3>1. Len(u) \in Nat BY <2>1 DEF Tidied
    <3>2. j \in 1..Len(u) /\ j + 1 \in 1..Len(u) /\ j # j + 1 BY <3>1
    <3> QED BY <2>1, <2>2, <3>2 DEF Tidied
  <2> QED BY <2>2 DEF uniq, u
<1> QED BY <1>1, <1>5, <1>6

(* the terms without coefficient of what is computed at a depth *)
ChecksHold(ns, need, d, val, X) ==
  \A i \in Living(ns, need, d) : ~IsCopy(ns, i, d) =>
    \A j \in 1..Len(ns[i].terms) :
      ns[i].terms[j].k = 0 => mulf(val[ns[i].terms[j].op0][X], val[ns[i].terms[j].op1][X]) = 0

(* the term r has the product of the i-th of ts                            *)
TermStands(r, ts, i, W, val, X) ==
  /\ i \in 1..Len(ts) /\ r.k = ts[i].k
  /\ mulf(W[r.op1], W[r.op0]) = mulf(val[ts[i].op0][X], val[ts[i].op1][X])

(* A layer computes what its ops carry and asserts what they assert.       *)
LEMMA LayerMeans ==
  ASSUME NEW ns, NEW need, NEW ub, NEW d, NEW below, NEW layer, Evaluable(ns, need, ub, d, below, layer),
         NEW val, Carries(ns, val), NEW X \in Inputs, NEW W,
         \A i \in Living(ns, need, d - 1) : W[below[i]] = val[i][X]
  PROVE  LET q == iterate(mkquad(layer))
         IN  /\ \A w \in 1..Len(layer) : GateValue(q, W, w - 1) = val[layer[w].op][X]
             /\ AssertionsHold(q, W) <=> ChecksHold(ns, need, d, val, X)
<1> DEFINE q == iterate(mkquad(layer))   live == Living(ns, need, d - 1)   n == Len(layer)
           Ts(i) == lterms(ns, need, i, d)
<1>1. Plan(ns, ub, need) /\ d \in Nat /\ d >= 1 /\ Ok(ns) BY DEF Evaluable, Plan, Within
<1>2. GoodLayer(layer) /\ n \in Nat BY LayerIsGood DEF GoodLayer
<1>3. \A i \in live : W[below[i]] = val[i][X] /\ val[i][X] \in Elt
  <2> TAKE i \in live
  <2>1. i \in Ops(ns) BY DEF Living
  <2> QED BY <2>1, ValueInField
<1>4. ASSUME NEW w \in 1..n
      PROVE  LET i == layer[w].op
             IN  /\ i \in Living(ns, need, d) /\ Over(Ts(i), live) /\ Facing(below, live)
                 /\ layer[w].terms = RowOf(Ts(i), below)
                 /\ \A j \in 1..Len(layer[w].terms) : RowValues(layer[w].terms, W)[j] \in Elt
                 /\ Partial(RowValues(layer[w].terms, W), Len(layer[w].terms)) = val[i][X]
  <2> DEFINE i == layer[w].op   ts == Ts(i)
  <2>1. i \in Living(ns, need, d) /\ Over(ts, live) /\ Facing(below, live) /\ layer[w].terms = RowOf(ts, below)
    BY LivingRow
  <2> HIDE DEF i
  <2>2. Meaning(ts, val, X) = val[i][X] BY <1>1, <2>1, LayerTerms
  <2> HIDE DEF ts, live
  <2>4. Over(ts, live) /\ Facing(below, live) BY <2>1
  <2>5. OnWires(live, below, val, X, W) BY <1>3 DEF OnWires
  <2>3. AddsTo(RowOf(ts, below), W, Meaning(ts, val, X)) BY <2>4, <2>5, RowMeans, Zenon
  <2>6. AddsTo(layer[w].terms, W, val[i][X]) BY <2>1, <2>2, <2>3
  <2> QED BY <2>1, <2>6 DEF i, ts, AddsTo
<1>5. /\ \A g \in 0..(n - 1) :
           GateValue(q, W, g) = Partial(RowValues(layer[g + 1].terms, W), Len(layer[g + 1].terms))
      /\ AssertionsHold(q, W) <=> RowsHold(layer, W)
  BY <1>2, <1>4, QuadMeans
<1>6. ASSUME NEW w \in 1..n PROVE GateValue(q, W, w - 1) = val[layer[w].op][X]
  <2>1. w - 1 \in 0..(n - 1) /\ (w - 1) + 1 = w BY <1>2
  <2>2. GateValue(q, W, w - 1) = Partial(RowValues(layer[w].terms, W), Len(layer[w].terms)) BY <1>5, <2>1
  <2> QED BY <1>4, <2>2
<1> HIDE DEF q
<1>7. ASSUME NEW w \in 1..n, NEW o, RowBy(layer[w].terms, Ts(layer[w].op), below, o), NEW j \in 1..Len(layer[w].terms)
      PROVE  TermStands(layer[w].terms[j], Ts(layer[w].op), o[j], W, val, X)
  <2> DEFINE i == layer[w].op   u == layer[w].terms   ts == Ts(i)   t == ts[o[j]]
  <2>1. /\ o[j] \in 1..Len(ts) /\ u[j].k = t.k
        /\ (u[j].op0 = below[t.op0] /\ u[j].op1 = below[t.op1]) \/ (u[j].op0 = below[t.op1] /\ u[j].op1 = below[t.op0])
    BY <1>7 DEF RowBy
  <2>2. t.op0 \in live /\ t.op1 \in live
    <3>1. Over(ts, live) BY <1>4
    <3> HIDE DEF ts, live
    <3> QED BY <2>1, <3>1 DEF Over
  <2> HIDE DEF t, u, live
  <2>3. /\ W[below[t.op0]] = val[t.op0][X] /\ val[t.op0][X] \in Elt
        /\ W[below[t.op1]] = val[t.op1][X] /\ val[t.op1][X] \in Elt
    BY <1>3, <2>2
  <2>4. mulf(val[t.op1][X], val[t.op0][X]) = mulf(val[t.op0][X], val[t.op1][X]) BY <2>3, Ring
  <2> QED BY <2>1, <2>3, <2>4 DEF t, u, TermStands
<1>8. ASSUME NEW w \in 1..n PROVE \E o : RowBy(layer[w].terms, Ts(layer[w].op), below, o)
  <2>1. Over(Ts(layer[w].op), live) /\ Facing(below, live) /\ layer[w].terms = RowOf(Ts(layer[w].op), below) BY <1>4
  <2> HIDE DEF live
  <2> QED BY <2>1, RowIs
<1>9. \A i \in Living(ns, need, d) :
        Ts(i) = IF IsCopy(ns, i, d) THEN <<[k |-> 1, op0 |-> 0, op1 |-> i]>> ELSE ns[i].terms
  BY <1>1, LayerTerms
<1> HIDE DEF Ts
<1>10. ASSUME RowsHold(layer, W) PROVE ChecksHold(ns, need, d, val, X)
  <2> SUFFICES ASSUME NEW i \in Living(ns, need, d), ~IsCopy(ns, i, d), NEW j \in 1..Len(ns[i].terms),
                      ns[i].terms[j].k = 0
               PROVE  mulf(val[ns[i].terms[j].op0][X], val[ns[i].terms[j].op1][X]) = 0
    BY DEF ChecksHold
  <2>1. PICK w \in 1..n : layer[w].op = i BY DEF Evaluable, LayerOf
  <2>2. PICK o : RowBy(layer[w].terms, Ts(i), below, o) BY <1>8, <2>1
  <2>3. Ts(i) = ns[i].terms BY <1>9
  <2>4. PICK a \in 1..Len(Ts(i)) : o[a] = j BY <2>2, <2>3 DEF RowBy, Permutes
  <2>5. a \in 1..Len(layer[w].terms) BY <2>2, <2>4 DEF RowBy
  <2>8. RowBy(layer[w].terms, Ts(layer[w].op), below, o) BY <2>1, <2>2
  <2>9. /\ layer[w].terms[a].k = Ts(layer[w].op)[o[a]].k
        /\ mulf(W[layer[w].terms[a].op1], W[layer[w].terms[a].op0])
             = mulf(val[Ts(layer[w].op)[o[a]].op0][X], val[Ts(layer[w].op)[o[a]].op1][X])
    <3> DEFINE v == layer[w].terms   s == Ts(layer[w].op)
    <3>1. RowBy(v, s, below, o) /\ a \in 1..Len(v) BY <2>5, <2>8, Zenon
    <3>2. TermStands(v[a], s, o[a], W, val, X) BY <1>7, <3>1, Zenon
    <3> QED BY <3>2, Zenon DEF TermStands
  <2>10. Ts(layer[w].op)[o[a]] = ns[i].terms[j] BY <2>1, <2>3, <2>4
  <2>6. /\ layer[w].terms[a].k = ns[i].terms[j].k
        /\ mulf(W[layer[w].terms[a].op1], W[layer[w].terms[a].op0])
             = mulf(val[ns[i].terms[j].op0][X], val[ns[i].terms[j].op1][X])
    BY <2>9, <2>10
  <2>7. mulf(W[layer[w].terms[a].op1], W[layer[w].terms[a].op0]) = 0 BY <1>10, <2>5, <2>6 DEF RowsHold
  <2> QED BY <2>6, <2>7
<1>11. ASSUME ChecksHold(ns, need, d, val, X) PROVE RowsHold(layer, W)
  <2> SUFFICES ASSUME NEW w \in 1..n, NEW j \in 1..Len(layer[w].terms), layer[w].terms[j].k = 0
               PROVE  mulf(W[layer[w].terms[j].op1], W[layer[w].terms[j].op0]) = 0
    BY DEF RowsHold
  <2> DEFINE i == layer[w].op
  <2>1. PICK o : RowBy(layer[w].terms, Ts(i), below, o) BY <1>8
  <2>2. /\ o[j] \in 1..Len(Ts(i)) /\ layer[w].terms[j].k = Ts(i)[o[j]].k
        /\ mulf(W[layer[w].terms[j].op1], W[layer[w].terms[j].op0])
             = mulf(val[Ts(i)[o[j]].op0][X], val[Ts(i)[o[j]].op1][X])
    <3>1. TermStands(layer[w].terms[j], Ts(i), o[j], W, val, X) BY <1>7, <2>1, Zenon
    <3> QED BY <3>1, Zenon DEF TermStands
  <2>3. i \in Living(ns, need, d) BY <1>4
  <2>4. Ts(i) = IF IsCopy(ns, i, d) THEN <<[k |-> 1, op0 |-> 0, op1 |-> i]>> ELSE ns[i].terms BY <1>9, <2>3
  <2> HIDE DEF i
  <2>5. CASE IsCopy(ns, i, d)
    <3> DEFINE t == [k |-> 1, op0 |-> 0, op1 |-> i]
    <3>1. Ts(i) = <<t>> /\ t.k = 1 BY <2>4, <2>5
    <3> HIDE DEF t
    <3>2. Len(Ts(i)) = 1 /\ Ts(i)[1] = t BY <3>1
    <3>3. o[j] = 1 BY <2>2, <3>2
    <3>4. layer[w].terms[j].k = 1 BY <2>2, <3>1, <3>2, <3>3
    <3> QED BY <3>4
  <2>6. CASE ~IsCopy(ns, i, d)
    <3>1. Ts(i) = ns[i].terms BY <2>4, <2>6
    <3>2. ns[i].terms[o[j]].k = 0 BY <2>2, <3>1
    <3>3. mulf(val[ns[i].terms[o[j]].op0][X], val[ns[i].terms[o[j]].op1][X]) = 0
      BY <1>11, <2>2, <2>3, <2>6, <3>1, <3>2 DEF ChecksHold
    <3> QED BY <2>2, <3>1, <3>3
  <2> QED BY <2>5, <2>6
<1> QED BY <1>5, <1>6, <1>10, <1>11 DEF q

-----------------------------------------------------------------------------
(* All layers *)
AtInputs(ns, need, ub) == [i \in Seqs!ToSet(Alive(ns, need, 0)) |-> desired_wire_id(ns[i], 0, ub)]

(* the first n layers of assign_wire_ids *)
AssignTo(ns, need, ub, n) ==
  LET r[k \in 0..n] ==
        IF k = 0
        THEN [layers |-> <<>>, status |-> "done",
              below |-> [i \in Seqs!ToSet(Alive(ns, need, 0)) |-> desired_wire_id(ns[i], 0, ub)]]
        ELSE NextLayer(ns, need, ub, k, r[k - 1])
  IN  r[n]
AssignStep(ns, need, ub, k, x) ==
  NextLayer(ns, need, ub, k, x)
Assigns(ns, need, ub, f, n) == f = [k \in 0..n |-> IF k = 0 THEN [layers |-> <<>>, status |-> "done", below |-> AtInputs(ns, need, ub)] ELSE AssignStep(ns, need, ub, k, f[k - 1])]

(* The recursive function of AssignTo exists. *)
LEMMA AssignExists ==
  ASSUME NEW ns, NEW need, NEW ub, NEW n \in Nat
  PROVE  \E f : Assigns(ns, need, ub, f, n)
<1> DEFINE S == {m \in Nat : \E f : Assigns(ns, need, ub, f, m)}
<1>1. 0 \in S
  <2> DEFINE f == [k \in 0..0 |-> [layers |-> <<>>, status |-> "done", below |-> AtInputs(ns, need, ub)]]
  <2>1. Assigns(ns, need, ub, f, 0)
    <3>1. \A k \in 0..0 : k = 0 OBVIOUS
    <3> QED BY <3>1, Zenon DEF Assigns
  <2> QED BY <2>1
<1>2. ASSUME NEW m \in Nat, m \in S PROVE m + 1 \in S
  <2>1. PICK f : Assigns(ns, need, ub, f, m) BY <1>2
  <2>0. \A k \in 0..m : f[k] = IF k = 0 THEN [layers |-> <<>>, status |-> "done", below |-> AtInputs(ns, need, ub)] ELSE AssignStep(ns, need, ub, k, f[k - 1])
    BY <2>1, Zenon DEF Assigns
  <2> DEFINE h == [k \in 0..(m + 1) |-> IF k \in 0..m THEN f[k] ELSE AssignStep(ns, need, ub, k, f[k - 1])]
  <2>2. ASSUME NEW k \in 0..(m + 1)
        PROVE  h[k] = IF k = 0 THEN [layers |-> <<>>, status |-> "done", below |-> AtInputs(ns, need, ub)] ELSE AssignStep(ns, need, ub, k, h[k - 1])
    <3>1. h[k] = IF k \in 0..m THEN f[k] ELSE AssignStep(ns, need, ub, k, f[k - 1]) OBVIOUS
    <3>2. CASE k = 0
      <4>1. 0 \in 0..m OBVIOUS
      <4> QED BY <2>0, <3>1, <3>2, <4>1
    <3>3. CASE k # 0
      <4>1. k - 1 \in 0..m /\ k - 1 \in 0..(m + 1) BY <3>3
      <4>2. h[k - 1] = f[k - 1] BY <4>1
      <4> HIDE DEF h
      <4> QED BY <2>0, <3>1, <3>3, <4>2, Zenon
    <3> QED BY <3>2, <3>3
  <2> DEFINE again == [k \in 0..(m + 1) |-> IF k = 0 THEN [layers |-> <<>>, status |-> "done", below |-> AtInputs(ns, need, ub)] ELSE AssignStep(ns, need, ub, k, h[k - 1])]
  <2>3. h = again
    <3>1. \A k \in 0..(m + 1) : h[k] = again[k] BY <2>2, Zenon
    <3> QED BY <3>1, Zenon
  <2>4. Assigns(ns, need, ub, h, m + 1) BY <2>3, Zenon DEF Assigns
  <2> QED BY <2>4
<1>3. \A k \in Nat : k \in S BY <1>1, <1>2, L!Induction, Zenon
<1> QED BY <1>3

(* AssignTo is the last value of that function. *)
LEMMA AssignIs ==
  ASSUME NEW ns, NEW need, NEW ub, NEW n \in Nat
  PROVE  \E f : /\ AssignTo(ns, need, ub, n) = f[n] /\ f[0] = [layers |-> <<>>, status |-> "done", below |-> AtInputs(ns, need, ub)]
               /\ \A k \in 1..n : f[k] = AssignStep(ns, need, ub, k, f[k - 1])
<1> DEFINE g == CHOOSE f : f = [k \in 0..n |-> IF k = 0 THEN [layers |-> <<>>, status |-> "done", below |-> AtInputs(ns, need, ub)] ELSE AssignStep(ns, need, ub, k, f[k - 1])]
<1>1. \E f : f = [k \in 0..n |-> IF k = 0 THEN [layers |-> <<>>, status |-> "done", below |-> AtInputs(ns, need, ub)] ELSE AssignStep(ns, need, ub, k, f[k - 1])]
  <2>1. \E f : Assigns(ns, need, ub, f, n) BY AssignExists, Zenon
  <2> QED BY <2>1, Zenon DEF Assigns
<1>2. g = [k \in 0..n |-> IF k = 0 THEN [layers |-> <<>>, status |-> "done", below |-> AtInputs(ns, need, ub)] ELSE AssignStep(ns, need, ub, k, g[k - 1])] BY <1>1, Zenon
<1>3. AssignTo(ns, need, ub, n) = g[n] BY Zenon DEF AssignTo, AtInputs, AssignStep
<1> HIDE DEF g
<1>4. \A k \in 0..n : g[k] = IF k = 0 THEN [layers |-> <<>>, status |-> "done", below |-> AtInputs(ns, need, ub)] ELSE AssignStep(ns, need, ub, k, g[k - 1]) BY <1>2, Zenon
<1>5. g[0] = [layers |-> <<>>, status |-> "done", below |-> AtInputs(ns, need, ub)]
  <2>1. 0 \in 0..n OBVIOUS
  <2> QED BY <1>4, <2>1, Zenon
<1>6. \A k \in 1..n : k \in 0..n /\ k # 0 OBVIOUS
<1>7. \A k \in 1..n : g[k] = AssignStep(ns, need, ub, k, g[k - 1]) BY <1>4, <1>6, Zenon
<1> QED BY <1>3, <1>5, <1>7

(* the first n layers of a circuit run *)
RunTo(c, X, n) ==
  LET r[k \in 0..n] == IF k = 0 THEN [ok |-> TRUE, W |-> X] ELSE RunLayer(c, k, r[k - 1])
  IN  r[n]
RunStep(c, X, k, x) ==
  RunLayer(c, k, x)
Runs(c, X, f, n) == f = [k \in 0..n |-> IF k = 0 THEN [ok |-> TRUE, W |-> X] ELSE RunStep(c, X, k, f[k - 1])]

(* The recursive function of RunTo exists. *)
LEMMA RunExists ==
  ASSUME NEW c, NEW X, NEW n \in Nat
  PROVE  \E f : Runs(c, X, f, n)
<1> DEFINE S == {m \in Nat : \E f : Runs(c, X, f, m)}
<1>1. 0 \in S
  <2> DEFINE f == [k \in 0..0 |-> [ok |-> TRUE, W |-> X]]
  <2>1. Runs(c, X, f, 0)
    <3>1. \A k \in 0..0 : k = 0 OBVIOUS
    <3> QED BY <3>1, Zenon DEF Runs
  <2> QED BY <2>1
<1>2. ASSUME NEW m \in Nat, m \in S PROVE m + 1 \in S
  <2>1. PICK f : Runs(c, X, f, m) BY <1>2
  <2>0. \A k \in 0..m : f[k] = IF k = 0 THEN [ok |-> TRUE, W |-> X] ELSE RunStep(c, X, k, f[k - 1])
    BY <2>1, Zenon DEF Runs
  <2> DEFINE h == [k \in 0..(m + 1) |-> IF k \in 0..m THEN f[k] ELSE RunStep(c, X, k, f[k - 1])]
  <2>2. ASSUME NEW k \in 0..(m + 1)
        PROVE  h[k] = IF k = 0 THEN [ok |-> TRUE, W |-> X] ELSE RunStep(c, X, k, h[k - 1])
    <3>1. h[k] = IF k \in 0..m THEN f[k] ELSE RunStep(c, X, k, f[k - 1]) OBVIOUS
    <3>2. CASE k = 0
      <4>1. 0 \in 0..m OBVIOUS
      <4> QED BY <2>0, <3>1, <3>2, <4>1
    <3>3. CASE k # 0
      <4>1. k - 1 \in 0..m /\ k - 1 \in 0..(m + 1) BY <3>3
      <4>2. h[k - 1] = f[k - 1] BY <4>1
      <4> HIDE DEF h
      <4> QED BY <2>0, <3>1, <3>3, <4>2, Zenon
    <3> QED BY <3>2, <3>3
  <2> DEFINE again == [k \in 0..(m + 1) |-> IF k = 0 THEN [ok |-> TRUE, W |-> X] ELSE RunStep(c, X, k, h[k - 1])]
  <2>3. h = again
    <3>1. \A k \in 0..(m + 1) : h[k] = again[k] BY <2>2, Zenon
    <3> QED BY <3>1, Zenon
  <2>4. Runs(c, X, h, m + 1) BY <2>3, Zenon DEF Runs
  <2> QED BY <2>4
<1>3. \A k \in Nat : k \in S BY <1>1, <1>2, L!Induction, Zenon
<1> QED BY <1>3

(* f[k] is what runs through the first k layers give. *)
RunsBy(c, X, n, f) ==
  /\ RunTo(c, X, n) = f[n] /\ f[0] = [ok |-> TRUE, W |-> X]
  /\ \A k \in 1..n : f[k] = RunStep(c, X, k, f[k - 1])
(* RunTo is the last value of that function. *)
LEMMA RunIs ==
  ASSUME NEW c, NEW X, NEW n \in Nat
  PROVE  \E f : RunsBy(c, X, n, f)
<1> USE DEF RunsBy
<1> DEFINE g == CHOOSE f : f = [k \in 0..n |-> IF k = 0 THEN [ok |-> TRUE, W |-> X] ELSE RunStep(c, X, k, f[k - 1])]
<1>1. \E f : f = [k \in 0..n |-> IF k = 0 THEN [ok |-> TRUE, W |-> X] ELSE RunStep(c, X, k, f[k - 1])]
  <2>1. \E f : Runs(c, X, f, n) BY RunExists, Zenon
  <2> QED BY <2>1, Zenon DEF Runs
<1>2. g = [k \in 0..n |-> IF k = 0 THEN [ok |-> TRUE, W |-> X] ELSE RunStep(c, X, k, g[k - 1])] BY <1>1, Zenon
<1>3. RunTo(c, X, n) = g[n] BY Zenon DEF RunTo, RunStep
<1> HIDE DEF g
<1>4. \A k \in 0..n : g[k] = IF k = 0 THEN [ok |-> TRUE, W |-> X] ELSE RunStep(c, X, k, g[k - 1]) BY <1>2, Zenon
<1>5. g[0] = [ok |-> TRUE, W |-> X]
  <2>1. 0 \in 0..n OBVIOUS
  <2> QED BY <1>4, <2>1, Zenon
<1>6. \A k \in 1..n : k \in 0..n /\ k # 0 OBVIOUS
<1>7. \A k \in 1..n : g[k] = RunStep(c, X, k, g[k - 1]) BY <1>4, <1>6, Zenon
<1> QED BY <1>3, <1>5, <1>7

(* inputs are numbered apart *)
InputsApart(ns) ==
  \A i, j \in Ops(ns) : ns[i].is_input /\ ns[j].is_input /\ ns[i].in_id = ns[j].in_id => i = j

(* At depth 0 inputs live, under their numbers. *)
LEMMA InputsLive ==
  ASSUME NEW ns, NEW ub, NEW need, Plan(ns, ub, need), InputsApart(ns)
  PROVE  LET below == AtInputs(ns, need, ub)   live == Living(ns, need, 0)
         IN  /\ Facing(below, live)
             /\ \A i \in live : ns[i].is_input /\ below[i] = ns[i].in_id /\ ns[i].in_id \in 0..(MaxInputs - 1)
<1> DEFINE below == AtInputs(ns, need, ub)   live == Living(ns, need, 0)   a == Alive(ns, need, 0)
<1>1. Ok(ns) /\ Typed(ns) BY DEF Plan, Within, Ok
<1>2. ASSUME NEW i \in live
      PROVE  ns[i].is_input /\ below[i] = ns[i].in_id /\ ns[i].in_id \in 0..(MaxInputs - 1)
  <2>1. i \in Ops(ns) /\ Lives(ns, need, i, 0) BY DEF Living
  <2>2. ns[i].depth \in Nat BY <1>1, <2>1, Depths
  <2>3. ns[i].depth = 0 BY <2>1, <2>2 DEF Lives
  <2>4. ns[i].terms = <<>>
    <3> SUFFICES ASSUME ns[i].terms # <<>> PROVE FALSE OBVIOUS
    <3>1. Len(ns[i].terms) \in Nat /\ ns[i].terms \in Seq(TermType) BY <1>1, <2>1, NodeFacts
    <3>2. 1 \in 1..Len(ns[i].terms) BY <3>1
    <3>3. /\ ns[ns[i].terms[1].op0].depth \in Nat /\ ns[ns[i].terms[1].op0].depth < ns[i].depth
      BY <1>1, <2>1, <3>2, Depths
    <3> QED BY <2>3, <3>3
  <2>5. ns[i].is_input BY <2>1, <2>4 DEF Lives, IsZero
  <2>6. ns[i].in_id \in 0..(MaxInputs - 1) BY <1>1, <2>1, <2>5 DEF Typed
  <2>7. PICK w \in 1..Len(a) : a[w] = i BY <1>1, AliveIs
  <2>8. DOMAIN a = 1..Len(a) BY <1>1, AliveIs
  <2> HIDE DEF a
  <2>9. i \in Seqs!ToSet(a) BY <2>7, <2>8 DEF Seqs!ToSet
  <2>10. below[i] = desired_wire_id(ns[i], 0, ub) BY <2>9 DEF AtInputs, a
  <2> QED BY <2>5, <2>6, <2>10 DEF desired_wire_id
<1>3. \A i \in live : i \in Ops(ns) BY DEF Living
<1> HIDE DEF below, live
<1>4. \A i \in live : below[i] \in Spot
  <2>1. MaxInputs \in Nat /\ Corners \in Nat /\ MaxInputs <= Corners BY CornersAssumption, MaxInputsAssumption
  <2>2. \A x \in 0..(MaxInputs - 1) : x \in Spot BY <2>1 DEF Spot
  <2> QED BY <1>2, <2>2
<1>5. \A i, j \in live : below[i] = below[j] => i = j BY <1>2, <1>3 DEF InputsApart
<1> QED BY <1>2, <1>4, <1>5 DEF Facing, below, live

(* the numbers layer e is over *)
BelowOf(ns, need, ub, layers, e) == IF e = 1 THEN AtInputs(ns, need, ub) ELSE Numbers(layers[e - 1])

(* layers that are each evaluable over the one before *)
Chain(ns, need, ub, layers) ==
  /\ L!IsSeq(layers) /\ Len(layers) \in Nat
  /\ \A e \in 1..Len(layers) :
       /\ Evaluable(ns, need, ub, e, BelowOf(ns, need, ub, layers, e), layers[e])
       /\ LayerCheck(layers[e]) = "done"
(* a layer that fails a check *)
Fails(ns, need, ub, check) ==
  \E e \in Nat : \E below :
    LET layer == Renamed(ns, need, ub, e, below)
    IN  Evaluable(ns, need, ub, e, below, layer) /\ LayerCheck(layer) = check /\ e + 1 <= ub /\ check # "done"
(* what is assigned after d layers *)
Assigned(ns, need, ub, d, r) ==
  IF r.status = "done"
  THEN /\ Chain(ns, need, ub, r.layers) /\ Len(r.layers) = d
       /\ r.below = BelowOf(ns, need, ub, r.layers, d + 1) /\ Facing(r.below, Living(ns, need, d))
  ELSE Fails(ns, need, ub, r.status)

(* One layer more. *)
LEMMA OneLayer ==
  ASSUME NEW ns, NEW ub, NEW need, Plan(ns, ub, need), NEW d \in Nat, d + 2 <= ub,
         NEW r, Assigned(ns, need, ub, d, r)
  PROVE  Assigned(ns, need, ub, d + 1, NextLayer(ns, need, ub, d + 1, r))
<1> DEFINE layer == Renamed(ns, need, ub, d + 1, r.below)
           next == [layers |-> Append(r.layers, layer), below |-> Numbers(layer), status |-> LayerCheck(layer)]
<1>1. Typed(ns) /\ Size(ns) <= Corners /\ Size(ns) \in Nat /\ ub \in Nat BY Numbered DEF Plan, Within, Ok
<1>2. NextLayer(ns, need, ub, d + 1, r) = IF r.status # "done" THEN r ELSE next BY Zenon DEF NextLayer
<1>3. CASE r.status # "done" BY <1>2, <1>3 DEF Assigned
<1>4. CASE r.status = "done"
  <2>1. /\ Chain(ns, need, ub, r.layers) /\ Len(r.layers) = d
        /\ r.below = BelowOf(ns, need, ub, r.layers, d + 1) /\ Facing(r.below, Living(ns, need, d))
    BY <1>4 DEF Assigned
  <2>2. LayerOf(ns, need, ub, d + 1, r.below, layer) BY <1>1, RenamedIs
  <2>3. Evaluable(ns, need, ub, d + 1, r.below, layer)
    <3>1. d + 1 \in Nat /\ d + 1 >= 1 /\ (d + 1) - 1 = d OBVIOUS
    <3> HIDE DEF layer
    <3> QED BY <2>1, <2>2, <3>1 DEF Evaluable
  <2>4. Facing(Numbers(layer), Living(ns, need, d + 1))
    <3> HIDE DEF layer
    <3> QED BY <1>1, <2>2, NumbersAre
  <2> HIDE DEF layer
  <2>5. /\ next.layers = Append(r.layers, layer) /\ next.below = Numbers(layer) /\ next.status = LayerCheck(layer)
    OBVIOUS
  <2> HIDE DEF next
  <2>6. CASE LayerCheck(layer) # "done"
    <3>1. Fails(ns, need, ub, LayerCheck(layer))
      <4>1. d + 1 \in Nat /\ (d + 1) + 1 <= ub BY <1>1
      <4> QED BY <2>3, <2>6, <4>1 DEF Fails, layer
    <3> QED BY <1>2, <1>4, <2>5, <2>6, <3>1 DEF Assigned
  <2>7. CASE LayerCheck(layer) = "done"
    <3> DEFINE ls == next.layers
    <3>1. L!IsSeq(r.layers) /\ Len(r.layers) = d BY <2>1 DEF Chain
    <3>2. L!IsSeq(ls) /\ Len(ls) = d + 1 /\ ls[d + 1] = layer /\ \A e \in 1..d : ls[e] = r.layers[e]
      BY <2>5, <3>1, L!OneMore
    <3> HIDE DEF ls
    <3>3. ASSUME NEW e \in 1..(d + 1) PROVE BelowOf(ns, need, ub, ls, e) = BelowOf(ns, need, ub, r.layers, e)
      <4>1. CASE e = 1 BY <4>1 DEF BelowOf
      <4>2. CASE e # 1
        <5>1. e - 1 \in 1..d BY <4>2
        <5> QED BY <3>2, <4>2, <5>1 DEF BelowOf
      <4> QED BY <4>1, <4>2
    <3>4. ASSUME NEW e \in 1..(d + 1)
          PROVE  /\ Evaluable(ns, need, ub, e, BelowOf(ns, need, ub, ls, e), ls[e])
                 /\ LayerCheck(ls[e]) = "done"
      <4>1. CASE e \in 1..d
        <5>1. e \in 1..Len(r.layers) BY <3>1, <4>1
        <5>2. /\ Evaluable(ns, need, ub, e, BelowOf(ns, need, ub, r.layers, e), r.layers[e])
              /\ LayerCheck(r.layers[e]) = "done"
          BY <2>1, <5>1 DEF Chain
        <5> QED BY <3>2, <3>3, <4>1, <5>2
      <4>2. CASE e = d + 1
        <5>1. ls[e] = layer /\ BelowOf(ns, need, ub, ls, e) = r.below BY <2>1, <3>2, <3>3, <4>2
        <5> QED BY <2>3, <2>7, <4>2, <5>1
      <4> QED BY <4>1, <4>2
    <3>5. Chain(ns, need, ub, ls) BY <3>2, <3>4 DEF Chain
    <3>6. next.below = BelowOf(ns, need, ub, ls, (d + 1) + 1)
      <4>1. (d + 1) + 1 # 1 /\ ((d + 1) + 1) - 1 = d + 1 OBVIOUS
      <4>2. BelowOf(ns, need, ub, ls, (d + 1) + 1) = Numbers(ls[d + 1]) BY <4>1 DEF BelowOf
      <4> QED BY <2>5, <3>2, <4>2
    <3>7. NextLayer(ns, need, ub, d + 1, r) = next BY <1>2, <1>4
    <3> QED BY <2>4, <2>5, <2>7, <3>2, <3>5, <3>6, <3>7 DEF Assigned, ls
  <2> QED BY <2>6, <2>7
<1> QED BY <1>3, <1>4

(* What assign_wire_ids returns: layers each evaluable over the one        *)
(* before, or a check that an evaluable layer fails.                       *)
LEMMA AssignedLayers ==
  ASSUME NEW ns, NEW ub, NEW need, Plan(ns, ub, need), InputsApart(ns)
  PROVE  Assigned(ns, need, ub, ub - 1, assign_wire_ids(ns, need, ub))
<1>1. ub \in Nat /\ ub >= 1 /\ ub - 1 \in Nat BY DEF Plan, Within
<1>2. assign_wire_ids(ns, need, ub) = AssignTo(ns, need, ub, ub - 1) BY Zenon DEF assign_wire_ids, AssignTo
<1>3. PICK f : /\ AssignTo(ns, need, ub, ub - 1) = f[ub - 1]
               /\ f[0] = [layers |-> <<>>, status |-> "done", below |-> AtInputs(ns, need, ub)]
               /\ \A k \in 1..(ub - 1) : f[k] = AssignStep(ns, need, ub, k, f[k - 1])
  BY <1>1, AssignIs
<1> DEFINE S == {m \in Nat : m <= ub - 1 => Assigned(ns, need, ub, m, f[m])}
<1>4. 0 \in S
  <2> DEFINE r == f[0]
  <2>1. r.status = "done" /\ r.layers = <<>> /\ r.below = AtInputs(ns, need, ub) BY <1>3
  <2> HIDE DEF r
  <2>2. Len(r.layers) = 0 /\ L!IsSeq(r.layers) BY <2>1 DEF L!IsSeq
  <2>3. Chain(ns, need, ub, r.layers) BY <2>2 DEF Chain
  <2>4. r.below = BelowOf(ns, need, ub, r.layers, 0 + 1)
    <3>1. 0 + 1 = 1 OBVIOUS
    <3> QED BY <2>1, <3>1 DEF BelowOf
  <2>5. Facing(r.below, Living(ns, need, 0)) BY <2>1, InputsLive
  <2>6. Assigned(ns, need, ub, 0, r) BY <2>1, <2>2, <2>3, <2>4, <2>5 DEF Assigned
  <2> QED BY <2>6 DEF r
<1>5. ASSUME NEW m \in Nat, m \in S PROVE m + 1 \in S
  <2> SUFFICES ASSUME m + 1 <= ub - 1 PROVE Assigned(ns, need, ub, m + 1, f[m + 1]) OBVIOUS
  <2>1. Assigned(ns, need, ub, m, f[m]) BY <1>1, <1>5
  <2>2. m + 1 \in 1..(ub - 1) /\ (m + 1) - 1 = m /\ m + 2 <= ub BY <1>1
  <2>3. f[m + 1] = NextLayer(ns, need, ub, m + 1, f[m]) BY <1>3, <2>2 DEF AssignStep
  <2> QED BY <2>1, <2>2, <2>3, OneLayer
<1>6. \A m \in Nat : m \in S BY <1>4, <1>5, L!Induction, Zenon
<1>7. Assigned(ns, need, ub, ub - 1, f[ub - 1]) BY <1>1, <1>6
<1> QED BY <1>2, <1>3, <1>7

-----------------------------------------------------------------------------
(* A circuit run *)
Built(c, layers) ==
  /\ c.nl = Len(layers)
  /\ c.nl > 0 => c.nv = Len(layers[c.nl])
  /\ \A k \in 1..c.nl : c.l[k].quad = mkquad(layers[c.nl + 1 - k])
  /\ \A k \in 1..(c.nl - 1) : c.l[k].nw = Len(layers[c.nl - k])

(* Circuit() counts the layers from the outputs.                           *)
LEMMA CircuitIs ==
  ASSUME NEW layers, Len(layers) \in Nat, NEW nin
  PROVE  Built(Circuit(layers, nin), layers)
<1> DEFINE nl == Len(layers)   c == Circuit(layers, nin)
           Wires(d) == IF d = 0 THEN nin ELSE Len(layers[d])
           l == [k \in 1..nl |-> [nw |-> Wires(nl - k), logw |-> lg(Wires(nl - k)), quad |-> mkquad(layers[nl + 1 - k])]]
<1>1. c.nl = nl /\ c.nv = Wires(nl) /\ c.l = l BY Zenon DEF Circuit
<1>2. \A k \in 1..nl : l[k].nw = Wires(nl - k) /\ l[k].quad = mkquad(layers[nl + 1 - k]) OBVIOUS
<1> HIDE DEF c, l
<1>3. nl > 0 => c.nv = Len(layers[nl]) BY <1>1
<1>4. \A k \in 1..(nl - 1) : k \in 1..nl /\ nl - k # 0 OBVIOUS
<1> HIDE DEF nl
<1>5. \A k \in 1..(nl - 1) : c.l[k].nw = Len(layers[nl - k]) BY <1>1, <1>2, <1>4
<1> QED BY <1>1, <1>2, <1>3, <1>5 DEF Built, c, nl

(* the wires above layer d carry its ops, and all so far asserted holds *)
Carried(ns, need, layers, val, X, d, r) ==
  /\ r.ok <=> \A e \in 1..d : ChecksHold(ns, need, e, val, X)
  /\ d > 0 => DOMAIN r.W = 0..(Len(layers[d]) - 1)
  /\ d > 0 => \A w \in 1..Len(layers[d]) : r.W[w - 1] = val[layers[d][w].op][X]
(* the wires layer e is over carry the ops that live there *)
Fed(ns, need, ub, layers, val, X, e, W) ==
  \A i \in Living(ns, need, e - 1) : W[BelowOf(ns, need, ub, layers, e)[i]] = val[i][X]

(* What is carried feeds the next layer.                                   *)
LEMMA CarriedFeeds ==
  ASSUME NEW ns, NEW ub, NEW need, Plan(ns, ub, need), InputsApart(ns), NEW layers, Chain(ns, need, ub, layers),
         NEW val, Carries(ns, val), NEW X \in Inputs, NEW d \in 0..Len(layers), NEW r,
         Carried(ns, need, layers, val, X, d, r), d = 0 => r.W = X
  PROVE  Fed(ns, need, ub, layers, val, X, d + 1, r.W)
<1>1. (d + 1) - 1 = d /\ d \in Nat /\ Ok(ns) BY DEF Chain, Plan, Within
<1> SUFFICES ASSUME NEW i \in Living(ns, need, d)
             PROVE  r.W[BelowOf(ns, need, ub, layers, d + 1)[i]] = val[i][X]
  BY <1>1 DEF Fed
<1>2. CASE d = 0
  <2>1. /\ ns[i].is_input /\ AtInputs(ns, need, ub)[i] = ns[i].in_id /\ ns[i].in_id \in 0..(MaxInputs - 1)
        /\ i \in Ops(ns)
    BY <1>2, InputsLive DEF Living
  <2>2. val[i][X] = X[ns[i].in_id] BY <2>1, ValueInField
  <2>3. d + 1 = 1 BY <1>2
  <2> QED BY <1>2, <2>1, <2>2, <2>3 DEF BelowOf
<1>3. CASE d # 0
  <2>1. d \in 1..Len(layers) /\ d + 1 # 1 /\ d > 0 BY <1>1, <1>3
  <2>2. LayerOf(ns, need, ub, d, BelowOf(ns, need, ub, layers, d), layers[d]) BY <2>1 DEF Chain, Evaluable
  <2>3. PICK w \in 1..Len(layers[d]) : layers[d][w].op = i BY <2>2 DEF LayerOf
  <2>4. Size(ns) <= Corners /\ Size(ns) \in Nat BY Numbered DEF Plan, Within, Ok
  <2>5. Numbers(layers[d])[i] = w - 1 BY <2>2, <2>3, <2>4, NumbersAre
  <2>6. BelowOf(ns, need, ub, layers, d + 1) = Numbers(layers[d]) BY <1>1, <2>1 DEF BelowOf
  <2>7. r.W[w - 1] = val[layers[d][w].op][X] BY <2>1 DEF Carried
  <2> QED BY <2>3, <2>5, <2>6, <2>7
<1> QED BY <1>2, <1>3

(* One layer run.                                                          *)
LEMMA LayerRuns ==
  ASSUME NEW ns, NEW ub, NEW need, Plan(ns, ub, need), InputsApart(ns), NEW layers, Chain(ns, need, ub, layers),
         NEW c, Built(c, layers), NEW val, Carries(ns, val), NEW X \in Inputs, NEW d \in Nat, d + 1 <= Len(layers),
         NEW r, Carried(ns, need, layers, val, X, d, r), d = 0 => r.W = X
  PROVE  Carried(ns, need, layers, val, X, d + 1, RunLayer(c, d + 1, r))
<1> DEFINE nl == Len(layers)   j == d + 1   k == c.nl + 1 - j   layer == layers[j]   q == iterate(mkquad(layer))
           next == RunLayer(c, j, r)
<1>1. nl \in Nat /\ j \in 1..nl /\ d \in 0..nl /\ c.nl = nl /\ j > 0 BY DEF Chain, Built
<1>2. k \in 1..nl /\ nl + 1 - k = j /\ (k = 1 => j = nl) BY <1>1
<1>3. c.l[k].quad = mkquad(layer) BY <1>1, <1>2 DEF Built
<1>4. (IF k = 1 THEN c.nv ELSE c.l[k - 1].nw) = Len(layer)
  <2>1. CASE k = 1
    <3>1. c.nv = Len(layers[nl]) BY <1>1 DEF Built
    <3>2. layer = layers[nl] BY <1>2, <2>1
    <3> QED BY <2>1, <3>1, <3>2
  <2>2. CASE k # 1
    <3>1. k - 1 \in 1..(nl - 1) /\ nl - (k - 1) = j BY <1>1, <1>2, <2>2
    <3>2. c.l[k - 1].nw = Len(layers[nl - (k - 1)]) BY <1>1, <3>1 DEF Built
    <3> QED BY <2>2, <3>1, <3>2
  <2> QED BY <2>1, <2>2
<1>5. /\ next.ok = (r.ok /\ AssertionsHold(q, r.W))
      /\ next.W = [g \in 0..(Len(layer) - 1) |-> GateValue(q, r.W, g)]
  BY <1>3, <1>4, Zenon DEF RunLayer
<1>6. Evaluable(ns, need, ub, j, BelowOf(ns, need, ub, layers, j), layer) BY <1>1 DEF Chain
<1>7. \A i \in Living(ns, need, j - 1) : r.W[BelowOf(ns, need, ub, layers, j)[i]] = val[i][X]
  BY <1>1, CarriedFeeds DEF Fed
<1>8. Len(layer) \in Nat BY <1>6 DEF Evaluable, LayerOf
<1> HIDE DEF next, layer, k
<1>9. /\ \A w \in 1..Len(layer) : GateValue(q, r.W, w - 1) = val[layer[w].op][X]
      /\ AssertionsHold(q, r.W) <=> ChecksHold(ns, need, j, val, X)
  BY <1>6, <1>7, LayerMeans
<1> HIDE DEF q
<1>10. \A w \in 1..Len(layer) : next.W[w - 1] = val[layer[w].op][X]
  <2> TAKE w \in 1..Len(layer)
  <2>1. w - 1 \in 0..(Len(layer) - 1) BY <1>8
  <2> QED BY <1>5, <1>9, <2>1
<1>11. DOMAIN next.W = 0..(Len(layer) - 1) BY <1>5
<1>12. next.ok <=> \A e \in 1..j : ChecksHold(ns, need, e, val, X)
  <2>1. \A e \in 1..j : e \in 1..d \/ e = j BY <1>1
  <2>2. j \in 1..j /\ \A e \in 1..d : e \in 1..j BY <1>1
  <2>3. r.ok <=> \A e \in 1..d : ChecksHold(ns, need, e, val, X) BY DEF Carried
  <2> QED BY <1>5, <1>9, <2>1, <2>2, <2>3
<1> QED BY <1>10, <1>11, <1>12 DEF Carried, next, layer

(* A circuit computes what the ops of its last layer carry, and asserts    *)
(* what the ops of all layers assert.                                      *)
LEMMA CircuitRuns ==
  ASSUME NEW ns, NEW ub, NEW need, Plan(ns, ub, need), InputsApart(ns), NEW layers, Chain(ns, need, ub, layers),
         NEW c, Built(c, layers), NEW val, Carries(ns, val), NEW X \in Inputs
  PROVE  Carried(ns, need, layers, val, X, Len(layers), RunCircuit(c, X))
<1> DEFINE nl == Len(layers)
<1>1. nl \in Nat /\ c.nl = nl BY DEF Chain, Built
<1>2. RunCircuit(c, X) = RunTo(c, X, nl) BY <1>1, Zenon DEF RunCircuit, RunTo
<1>3. PICK f : /\ RunTo(c, X, nl) = f[nl] /\ f[0] = [ok |-> TRUE, W |-> X]
               /\ \A k \in 1..nl : f[k] = RunStep(c, X, k, f[k - 1])
  <2> HIDE DEF nl
  <2>1. \E f : RunsBy(c, X, nl, f) BY <1>1, RunIs
  <2> QED BY <2>1, Zenon DEF RunsBy
<1> DEFINE S == {m \in Nat : m <= nl => Carried(ns, need, layers, val, X, m, f[m])}
<1>4. 0 \in S
  <2>1. f[0].ok = TRUE BY <1>3
  <2>2. Carried(ns, need, layers, val, X, 0, f[0]) BY <2>1 DEF Carried
  <2> QED BY <2>2
<1>5. ASSUME NEW m \in Nat, m \in S PROVE m + 1 \in S
  <2> SUFFICES ASSUME m + 1 <= nl PROVE Carried(ns, need, layers, val, X, m + 1, f[m + 1]) OBVIOUS
  <2>1. Carried(ns, need, layers, val, X, m, f[m]) BY <1>1, <1>5
  <2>2. m + 1 \in 1..nl /\ (m + 1) - 1 = m BY <1>1
  <2>3. f[m + 1] = RunLayer(c, m + 1, f[m]) BY <1>3, <2>2 DEF RunStep
  <2>4. m = 0 => f[m].W = X BY <1>3
  <2> QED BY <2>1, <2>2, <2>3, <2>4, LayerRuns
<1>6. \A m \in Nat : m \in S BY <1>4, <1>5, L!Induction, Zenon
<1>7. Carried(ns, need, layers, val, X, nl, f[nl]) BY <1>1, <1>6
<1> QED BY <1>2, <1>3, <1>7

-----------------------------------------------------------------------------
(* What mkcircuit() schedules *)
Needs(n) == IF n.is_output THEN 1 + n.depth ELSE IF n.is_assert0 THEN n.depth ELSE 0

(* compute_depth_ub: no less than any output or assertion needs. *)
LEMMA DepthBound ==
  ASSUME NEW ns, Ok(ns)
  PROVE  compute_depth_ub(ns) \in Nat /\ \A i \in Ops(ns) : Needs(ns[i]) <= compute_depth_ub(ns)
<1> DEFINE h == [j \in 1..Size(ns) |-> Needs(ns[j - 1])]
           D == {0} \union {h[j] : j \in 1..Size(ns)}
           E == {0} \union {Needs(ns[i]) : i \in Ops(ns)}
<1>1. Size(ns) \in Nat /\ Ops(ns) = 0..(Size(ns) - 1) BY Numbered DEF Ok
<1>2. \A i \in Ops(ns) : Needs(ns[i]) \in Nat
  <2> TAKE i \in Ops(ns)
  <2>1. ns[i].depth \in Nat BY Depths
  <2> QED BY <2>1 DEF Needs
<1>3. \A j \in 1..Size(ns) : h[j] \in Nat
  <2> TAKE j \in 1..Size(ns)
  <2>1. j - 1 \in Ops(ns) BY <1>1
  <2> QED BY <1>2, <2>1
<1>4. D = E
  <2>1. \A j \in 1..Size(ns) : j - 1 \in Ops(ns) /\ h[j] = Needs(ns[j - 1]) BY <1>1
  <2>2. \A i \in Ops(ns) : i + 1 \in 1..Size(ns) /\ h[i + 1] = Needs(ns[i])
    <3> TAKE i \in Ops(ns)
    <3>1. i + 1 \in 1..Size(ns) /\ (i + 1) - 1 = i BY <1>1
    <3> QED BY <3>1
  <2> HIDE DEF h
  <2> QED BY <2>1, <2>2
<1>5. compute_depth_ub(ns) = CHOOSE x \in E : \A y \in E : x >= y BY Zenon DEF compute_depth_ub, Seqs!Max, Needs
<1>6. \E m \in D : \A x \in D : m >= x
  <2> HIDE DEF h
  <2> QED BY <1>1, <1>3, LargestExists, Zenon
<1> DEFINE top == CHOOSE x \in E : \A y \in E : x >= y
<1>7. top \in E /\ \A y \in E : top >= y BY <1>4, <1>6, Zenon
<1>8. \A y \in E : y \in Nat BY <1>2
<1>9. \A i \in Ops(ns) : Needs(ns[i]) \in E OBVIOUS
<1> HIDE DEF top, E
<1>10. top \in Nat /\ \A i \in Ops(ns) : Needs(ns[i]) <= top BY <1>2, <1>7, <1>8, <1>9
<1> QED BY <1>5, <1>10 DEF top

(* the nodes with their last assertions turned into outputs *)
Freed(ns, ub) == {i \in Ops(ns) : ~ns[i].is_output /\ ns[i].is_assert0 /\ ns[i].depth = ub}
Topped(ns, ub) == {ns[i].terms[1].op1 : i \in Freed(ns, ub)}

(* fixup_last_layer_assertions changes marks only. *)
LEMMA FixedMarks ==
  ASSUME NEW ns, Ok(ns), NEW ub, NEW ms, ms = fixup_last_layer_assertions(ns, ub)
  PROVE  /\ Ops(ms) = Ops(ns) /\ Ok(ms) /\ Extends(ns, ms)
         /\ \A i \in Ops(ns) :
              /\ Same(ns[i], ms[i])
              /\ ms[i].is_assert0 = (ns[i].is_assert0 /\ i \notin Freed(ns, ub))
              /\ ms[i].is_output = (ns[i].is_output \/ i \in Topped(ns, ub))
              /\ ms[i].out_id = IF i \in Topped(ns, ub) THEN kWireIdUndefined ELSE ns[i].out_id
<1> DEFINE last == LastAssertions(ns, ub)
           freed == [i \in Ops(ns) |->
                       IF i \in last THEN [ns[i] EXCEPT !.is_assert0 = FALSE] ELSE ns[i]]
           tops == {ns[i].terms[1].op1 : i \in last}
           gs == [i \in Ops(ns) |-> IF i \in tops
                    THEN [freed[i] EXCEPT !.is_output = TRUE, !.out_id = kWireIdUndefined]
                    ELSE freed[i]]
<1>1. ms = gs BY Zenon DEF fixup_last_layer_assertions
<1>2. last = Freed(ns, ub) /\ tops = Topped(ns, ub) BY DEF LastAssertions, Freed, Topped
<1>3. Ops(ms) = Ops(ns) BY <1>1, Zenon DEF Ops
<1>4. ASSUME NEW i \in Ops(ns)
      PROVE  /\ Same(ns[i], ms[i]) /\ ms[i] \in NodeType
             /\ ms[i].is_assert0 => ns[i].terms # <<>> /\ ns[i].terms[1].k = 0
             /\ ms[i].is_assert0 = (ns[i].is_assert0 /\ i \notin last)
             /\ ms[i].is_output = (ns[i].is_output \/ i \in tops)
             /\ ms[i].out_id = IF i \in tops THEN kWireIdUndefined ELSE ns[i].out_id
  <2>1. NodeOk(ns, ns[i]) BY NodesAreOk
  <2>2. ns[i] \in NodeType BY <2>1 DEF NodeOk
  <2>3. freed[i] = IF i \in last THEN [ns[i] EXCEPT !.is_assert0 = FALSE] ELSE ns[i] OBVIOUS
  <2>4. gs[i] = IF i \in tops
                THEN [freed[i] EXCEPT !.is_output = TRUE, !.out_id = kWireIdUndefined] ELSE freed[i]
    OBVIOUS
  <2> HIDE DEF freed, gs, tops, last
  <2>5. freed[i] \in NodeType /\ Same(ns[i], freed[i]) /\ freed[i].is_assert0 = (ns[i].is_assert0 /\ i \notin last)
        /\ freed[i].is_output = ns[i].is_output /\ freed[i].out_id = ns[i].out_id
    <3>1. CASE i \in last BY <2>2, <2>3, <3>1 DEF NodeType, Same
    <3>2. CASE i \notin last
      <4>1. ns[i].is_assert0 \in BOOLEAN BY <2>2 DEF NodeType
      <4> QED BY <2>2, <2>3, <3>2, <4>1 DEF Same
    <3> QED BY <3>1, <3>2
  <2>6. kWireIdUndefined \in Int BY DEF kWireIdUndefined
  <2>7. /\ gs[i] \in NodeType /\ Same(freed[i], gs[i]) /\ gs[i].is_assert0 = freed[i].is_assert0
        /\ gs[i].is_output = (freed[i].is_output \/ i \in tops)
        /\ gs[i].out_id = IF i \in tops THEN kWireIdUndefined ELSE freed[i].out_id
    <3>1. CASE i \in tops BY <2>5, <2>4, <2>6, <3>1 DEF NodeType, Same
    <3>2. CASE i \notin tops
      <4>1. freed[i].is_output \in BOOLEAN BY <2>5 DEF NodeType
      <4> QED BY <2>5, <2>4, <3>2, <4>1 DEF Same
    <3> QED BY <3>1, <3>2
  <2>8. Same(ns[i], gs[i]) BY <2>5, <2>7 DEF Same
  <2>9. gs[i].is_assert0 => ns[i].is_assert0 BY <2>5, <2>7
  <2>10. gs[i].is_assert0 = (ns[i].is_assert0 /\ i \notin last) BY <2>5, <2>7
  <2>11. gs[i].is_output = (ns[i].is_output \/ i \in tops) BY <2>5, <2>7
  <2>12. gs[i].out_id = IF i \in tops THEN kWireIdUndefined ELSE ns[i].out_id BY <2>5, <2>7
  <2> QED BY <1>1, <2>1, <2>7, <2>8, <2>9, <2>10, <2>11, <2>12 DEF NodeOk
<1> HIDE DEF last, tops, gs
<1>5. Ok(ms) /\ Extends(ns, ms) BY <1>3, <1>4, Marked
<1> QED BY <1>2, <1>3, <1>4, <1>5

-----------------------------------------------------------------------------
(* Programs *)
AssertedIn(ns, op) == \E i \in Ops(ns) : ns[i].is_assert0 /\ ns[i].terms[1].op1 = op

(* terms without coefficient assert what is asserted *)
ZeroTerms(ns, asserted) ==
  \A i \in Ops(ns) : \A j \in 1..Len(ns[i].terms) :
    ns[i].terms[j].k = 0 =>
      Len(ns[i].terms) = 1 /\ ns[i].terms[1].op0 = 0 /\ ns[i].terms[1].op1 \in asserted
(* every output is shown, or carries a multiple of what is *)
ShownMultiple(ns, sh, i) ==
  \E j \in 1..Len(sh) : \E k \in Elt :
    \A w : Carries(ns, w) => \A X \in Inputs : w[i][X] = mulf(k, w[sh[j]][X])
OutputsAreShown(ns, sh) ==
  /\ L!IsSeq(sh) /\ \A j \in 1..Len(sh) : sh[j] \in Ops(ns) /\ ns[sh[j]].is_output
  /\ \A i \in Ops(ns) : ns[i].is_output => ShownMultiple(ns, sh, i)

(* An assertion is a single term without coefficient over the constant. *)
LEMMA AnAssertion ==
  ASSUME NEW ns, Ok(ns), NEW asserted, ZeroTerms(ns, asserted), NEW i \in Ops(ns), ns[i].is_assert0
  PROVE  /\ Len(ns[i].terms) = 1 /\ 1 \in 1..Len(ns[i].terms) /\ ns[i].terms # <<>>
         /\ ns[i].terms[1].k = 0 /\ ns[i].terms[1].op0 = 0
         /\ ns[i].terms[1].op1 \in asserted /\ ns[i].terms[1].op1 \in Ops(ns)
         /\ ~IsZero(ns[ns[i].terms[1].op1])
         /\ ns[i].depth = ns[ns[i].terms[1].op1].depth + 1 /\ ns[ns[i].terms[1].op1].depth \in Nat
         /\ ~IsZero(ns[i])
<1>1. ns[i].terms # <<>> /\ ns[i].terms[1].k = 0 BY DEF Ok, InOrder
<1>2. Len(ns[i].terms) \in Nat /\ ns[i].terms \in Seq(TermType) BY NodeFacts
<1>3. 1 \in 1..Len(ns[i].terms) BY <1>1, <1>2
<1>4. Len(ns[i].terms) = 1 /\ ns[i].terms[1].op0 = 0 /\ ns[i].terms[1].op1 \in asserted
  BY <1>1, <1>3 DEF ZeroTerms
<1>5. ns[i].terms[1].op1 \in Ops(ns) /\ ~IsZero(ns[ns[i].terms[1].op1]) BY <1>3, NodeFacts
<1>6. ns[ns[i].terms[1].op1].depth \in Nat BY <1>5, Depths
<1>7. ns[i].depth = 1 + Upper(ns[ns[i].terms[1].op0].depth, ns[ns[i].terms[1].op1].depth) BY <1>4, Depths
<1>8. ns[ns[i].terms[1].op0].depth = 0 BY <1>4, DepthOfOne
<1>9. Upper(0, ns[ns[i].terms[1].op1].depth) = ns[ns[i].terms[1].op1].depth BY <1>6 DEF Upper
<1>10. ns[i].depth = ns[ns[i].terms[1].op1].depth + 1 BY <1>6, <1>7, <1>8, <1>9
<1> QED BY <1>1, <1>3, <1>4, <1>5, <1>6, <1>10 DEF IsZero

(* what there is to schedule: nodes, and what is asserted and shown of them *)
Program(ns, asserted, sh) ==
  /\ Ok(ns) /\ InputsApart(ns) /\ NoZeroOperands(ns) /\ Size(ns) <= Corners
  /\ ZeroTerms(ns, asserted) /\ OutputsAreShown(ns, sh)
  /\ \A op \in asserted : AssertedIn(ns, op)

(* Fixed nodes are within the layers, ready to be scheduled. *)
LEMMA FixedIsPlan ==
  ASSUME NEW ns, NEW asserted, NEW sh, Program(ns, asserted, sh), NEW ub, ub = compute_depth_ub(ns), ub >= 1,
         NEW ms, ms = fixup_last_layer_assertions(ns, ub)
  PROVE  Plan(ms, ub, compute_needed(ms, ub)) /\ InputsApart(ms)
<1>1. Ok(ns) /\ NoZeroOperands(ns) /\ Size(ns) <= Corners /\ ZeroTerms(ns, asserted) /\ InputsApart(ns)
  BY DEF Program
<1>2. ub \in Nat /\ \A i \in Ops(ns) : Needs(ns[i]) <= ub BY <1>1, DepthBound
<1>3. /\ Ops(ms) = Ops(ns) /\ Ok(ms)
      /\ \A i \in Ops(ns) :
           /\ Same(ns[i], ms[i])
           /\ ms[i].is_assert0 = (ns[i].is_assert0 /\ i \notin Freed(ns, ub))
           /\ ms[i].is_output = (ns[i].is_output \/ i \in Topped(ns, ub))
  BY <1>1, FixedMarks
<1>4. ASSUME NEW i \in Ops(ms), ms[i].is_output \/ ms[i].is_assert0 PROVE ms[i].depth + 1 <= ub
  <2>1. i \in Ops(ns) /\ ms[i].depth = ns[i].depth /\ ns[i].depth \in Nat BY <1>1, <1>3, Depths DEF Same
  <2>2. Needs(ns[i]) <= ub BY <1>2, <2>1
  <2>3. CASE ns[i].is_output BY <1>2, <2>1, <2>2, <2>3 DEF Needs
  <2>4. CASE ms[i].is_output /\ ~ns[i].is_output
    <3>1. i \in Topped(ns, ub) BY <1>3, <2>1, <2>4
    <3>2. PICK a \in Freed(ns, ub) : i = ns[a].terms[1].op1 BY <3>1 DEF Topped
    <3>3. a \in Ops(ns) /\ ns[a].is_assert0 /\ ns[a].depth = ub BY <3>2 DEF Freed
    <3>4. ns[a].depth = ns[i].depth + 1 BY <1>1, <3>2, <3>3, AnAssertion
    <3> QED BY <2>1, <3>3, <3>4
  <2>5. CASE ms[i].is_assert0 /\ ~ns[i].is_output
    <3>1. ns[i].is_assert0 /\ i \notin Freed(ns, ub) BY <1>3, <2>1, <2>5
    <3>2. ns[i].depth # ub BY <2>1, <2>5, <3>1 DEF Freed
    <3>3. ns[i].depth <= ub BY <2>2, <2>5, <3>1 DEF Needs
    <3> QED BY <1>2, <2>1, <3>2, <3>3
  <2> QED BY <1>4, <2>3, <2>4, <2>5
<1>5. Within(ms, ub) BY <1>2, <1>3, <1>4 DEF Within
<1>6. NoZeroOperands(ms)
  <2> SUFFICES ASSUME NEW i \in Ops(ns), NEW j \in 1..Len(ms[i].terms)
               PROVE  ~IsZero(ms[ms[i].terms[j].op0]) /\ ~IsZero(ms[ms[i].terms[j].op1])
    BY <1>3 DEF NoZeroOperands
  <2>1. ms[i].terms = ns[i].terms BY <1>3 DEF Same
  <2>2. ns[i].terms[j].op0 \in Ops(ns) /\ ns[i].terms[j].op1 \in Ops(ns) BY <1>1, <2>1, NodeFacts
  <2>3. ~IsZero(ns[ns[i].terms[j].op0]) /\ ~IsZero(ns[ns[i].terms[j].op1]) BY <1>1, <2>1 DEF NoZeroOperands
  <2>4. \A x \in Ops(ns) : IsZero(ms[x]) <=> IsZero(ns[x]) BY <1>3 DEF Same, IsZero
  <2> QED BY <2>1, <2>2, <2>3, <2>4
<1>7. Size(ms) <= Corners BY <1>1, <1>3 DEF Size
<1>8. InputsApart(ms)
  <2>1. \A i \in Ops(ns) : ms[i].is_input = ns[i].is_input /\ ms[i].in_id = ns[i].in_id BY <1>3 DEF Same
  <2> QED BY <1>1, <1>3, <2>1 DEF InputsApart
<1> QED BY <1>5, <1>6, <1>7, <1>8, ComputeNeeded DEF Plan

(* An output that is not an empty sum lives in the last layer. *)
LEMMA OutputLives ==
  ASSUME NEW ns, NEW ub, NEW need, Plan(ns, ub, need), NEW i \in Ops(ns), ns[i].is_output, ~IsZero(ns[i])
  PROVE  i \in Living(ns, need, ub - 1)
<1>1. ns[i].depth \in Nat /\ ub \in Nat /\ ns[i].depth + 1 <= ub BY Depths DEF Plan, Within
<1>2. need[i] >= ub /\ need[i] \in Nat BY DEF Plan, Served, Needed
<1>3. need[i] > 0 /\ (ns[i].depth = ub - 1 \/ (ns[i].depth < ub - 1 /\ ub - 1 < need[i])) BY <1>1, <1>2
<1> QED BY <1>3 DEF Living, Lives

(* What lives there is an output or an assertion. *)
LEMMA LastAreOutputs ==
  ASSUME NEW ns, NEW ub, NEW need, Plan(ns, ub, need), ub >= 2, NEW i \in Living(ns, need, ub - 1)
  PROVE  i \in Ops(ns) /\ (ns[i].is_output \/ ns[i].is_assert0)
<1>1. i \in Ops(ns) /\ Lives(ns, need, i, ub - 1) BY DEF Living
<1>2. ns[i].depth \in Nat /\ ub \in Nat BY <1>1, Depths DEF Plan, Within
<1>3. need[i] \in Nat /\ need[i] > 0 BY <1>1 DEF Plan, Needed, Lives
<1>4. ns[i].depth < need[i] /\ need[i] <= ub BY <1>1, <1>3 DEF Plan, Needed
<1>5. need[i] = ub BY <1>1, <1>2, <1>3, <1>4 DEF Lives
<1> QED BY <1>1, <1>5 DEF Plan, Needed

(* a circuit of the layers of fixed nodes *)
Compiled(ns, asserted, sh, ub, ms, need, layers, c) ==
  /\ Program(ns, asserted, sh) /\ ub = compute_depth_ub(ns) /\ ub \in Nat /\ ub >= 2
  /\ ms = fixup_last_layer_assertions(ns, ub) /\ need = compute_needed(ms, ub)
  /\ Chain(ms, need, ub, layers) /\ Len(layers) = ub - 1 /\ Built(c, layers)

(* What a compiled circuit carries *)
LEMMA CompiledRuns ==
  ASSUME NEW ns, NEW asserted, NEW sh, NEW ub, NEW ms, NEW need, NEW layers, NEW c,
         Compiled(ns, asserted, sh, ub, ms, need, layers, c), NEW val, Carries(ns, val), NEW X \in Inputs
  PROVE  LET r == RunCircuit(c, X)   last == layers[ub - 1]
         IN  /\ r.ok <=> \A e \in 1..(ub - 1) : ChecksHold(ms, need, e, val, X)
             /\ DOMAIN r.W = 0..(Len(last) - 1) /\ Len(last) \in Nat
             /\ \A w \in 1..Len(last) : r.W[w - 1] = val[last[w].op][X] /\ last[w].op \in Living(ms, need, ub - 1)
             /\ \A i \in Living(ms, need, ub - 1) : \E w \in 1..Len(last) : last[w].op = i
<1>1. Plan(ms, ub, need) /\ InputsApart(ms) /\ ub \in Nat /\ ub >= 2
  <2>1. ub >= 1 BY DEF Compiled
  <2> QED BY <2>1, FixedIsPlan DEF Compiled
<1>2. Carries(ms, val)
  <2>1. Ops(ms) = Ops(ns) /\ Extends(ns, ms) BY FixedMarks DEF Compiled, Program
  <2> QED BY <2>1, OtherMarks
<1>3. Chain(ms, need, ub, layers) /\ Len(layers) = ub - 1 /\ Built(c, layers) BY DEF Compiled
<1> DEFINE r == RunCircuit(c, X)   last == layers[ub - 1]
<1>4. Carried(ms, need, layers, val, X, ub - 1, r)
  <2>1. Carried(ms, need, layers, val, X, Len(layers), RunCircuit(c, X)) BY <1>1, <1>2, <1>3, CircuitRuns
  <2> QED BY <1>3, <2>1
<1>5. ub - 1 > 0 /\ ub - 1 \in 1..(ub - 1) BY <1>1
<1>6. LayerOf(ms, need, ub, ub - 1, BelowOf(ms, need, ub, layers, ub - 1), last) BY <1>3, <1>5 DEF Chain, Evaluable
<1> HIDE DEF r, last
<1>7. /\ r.ok <=> \A e \in 1..(ub - 1) : ChecksHold(ms, need, e, val, X)
      /\ DOMAIN r.W = 0..(Len(last) - 1)
      /\ \A w \in 1..Len(last) : r.W[w - 1] = val[last[w].op][X]
  BY <1>4, <1>5 DEF Carried, last
<1> QED BY <1>6, <1>7 DEF LayerOf, r, last

(* The circuit is satisfied by what satisfies the program: by what makes   *)
(* every assertion and every output shown zero.                            *)
LEMMA SatisfiedIff ==
  ASSUME NEW ns, NEW asserted, NEW sh, NEW ub, NEW ms, NEW need, NEW layers, NEW c,
         Compiled(ns, asserted, sh, ub, ms, need, layers, c), NEW val, Carries(ns, val), NEW X \in Inputs
  PROVE  LET r == RunCircuit(c, X)
         IN  (r.ok /\ \A g \in DOMAIN r.W : r.W[g] = 0)
               <=> ((\A op \in asserted : val[op][X] = 0) /\ \A j \in 1..Len(sh) : val[sh[j]][X] = 0)
<1> DEFINE r == RunCircuit(c, X)   last == layers[ub - 1]
<1>1. Plan(ms, ub, need) /\ ub \in Nat /\ ub >= 2 /\ ub - 1 >= 1
  <2>1. ub >= 1 /\ ub \in Nat /\ ub - 1 >= 1 /\ ub >= 2 BY DEF Compiled
  <2> QED BY <2>1, FixedIsPlan DEF Compiled
<1>2. /\ r.ok <=> \A e \in 1..(ub - 1) : ChecksHold(ms, need, e, val, X)
      /\ DOMAIN r.W = 0..(Len(last) - 1) /\ Len(last) \in Nat
      /\ \A w \in 1..Len(last) : r.W[w - 1] = val[last[w].op][X] /\ last[w].op \in Living(ms, need, ub - 1)
      /\ \A i \in Living(ms, need, ub - 1) : \E w \in 1..Len(last) : last[w].op = i
  BY CompiledRuns
<1> HIDE DEF r, last
<1>3. /\ Ok(ns) /\ ZeroTerms(ns, asserted) /\ OutputsAreShown(ns, sh)
      /\ \A op \in asserted : AssertedIn(ns, op)
  BY DEF Compiled, Program
<1>4. /\ Ops(ms) = Ops(ns) /\ Ok(ms)
      /\ \A i \in Ops(ns) :
           /\ Same(ns[i], ms[i])
           /\ ms[i].is_assert0 = (ns[i].is_assert0 /\ i \notin Freed(ns, ub))
           /\ ms[i].is_output = (ns[i].is_output \/ i \in Topped(ns, ub))
  BY <1>3, FixedMarks DEF Compiled
<1>5. \A i \in Ops(ns) : ms[i].terms = ns[i].terms /\ ms[i].depth = ns[i].depth /\ (IsZero(ms[i]) <=> IsZero(ns[i]))
  BY <1>4 DEF Same, IsZero
<1>6. (\A g \in DOMAIN r.W : r.W[g] = 0) <=> \A i \in Living(ms, need, ub - 1) : val[i][X] = 0
  <2>1. ASSUME \A g \in DOMAIN r.W : r.W[g] = 0, NEW i \in Living(ms, need, ub - 1) PROVE val[i][X] = 0
    <3>1. PICK w \in 1..Len(last) : last[w].op = i BY <1>2
    <3>2. w - 1 \in DOMAIN r.W BY <1>2, <3>1
    <3> QED BY <1>2, <2>1, <3>1, <3>2
  <2>2. ASSUME \A i \in Living(ms, need, ub - 1) : val[i][X] = 0, NEW g \in DOMAIN r.W PROVE r.W[g] = 0
    <3>1. g + 1 \in 1..Len(last) /\ (g + 1) - 1 = g BY <1>2
    <3>2. r.W[(g + 1) - 1] = val[last[g + 1].op][X] /\ last[g + 1].op \in Living(ms, need, ub - 1) BY <1>2, <3>1
    <3> QED BY <2>2, <3>1, <3>2
  <2> QED BY <2>1, <2>2
<1>7. \A i \in Ops(ns) : val[i][X] \in Elt BY ValueInField
<1>8. ASSUME \A op \in asserted : val[op][X] = 0, \A j \in 1..Len(sh) : val[sh[j]][X] = 0
      PROVE  r.ok /\ \A i \in Living(ms, need, ub - 1) : val[i][X] = 0
  <2>1. ASSUME NEW e \in 1..(ub - 1) PROVE ChecksHold(ms, need, e, val, X)
    <3> SUFFICES ASSUME NEW i \in Living(ms, need, e), NEW j \in 1..Len(ms[i].terms), ms[i].terms[j].k = 0
                 PROVE  mulf(val[ms[i].terms[j].op0][X], val[ms[i].terms[j].op1][X]) = 0
      BY DEF ChecksHold
    <3>1. i \in Ops(ns) /\ ms[i].terms = ns[i].terms BY <1>4, <1>5 DEF Living
    <3>2. Len(ns[i].terms) = 1 /\ ns[i].terms[1].op1 \in asserted BY <1>3, <3>1 DEF ZeroTerms
    <3>3. j = 1 BY <3>1, <3>2
    <3>4. ns[i].terms[1].op0 \in Ops(ns) BY <1>3, <3>1, <3>3, NodeFacts
    <3>5. val[ns[i].terms[1].op1][X] = 0 /\ val[ns[i].terms[1].op0][X] \in Elt BY <1>7, <1>8, <3>2, <3>4
    <3>6. mulf(val[ns[i].terms[1].op0][X], 0) = 0 BY <3>5, TimesZero
    <3> QED BY <3>1, <3>3, <3>5, <3>6
  <2>2. ASSUME NEW i \in Living(ms, need, ub - 1) PROVE val[i][X] = 0
    <3>1. i \in Ops(ns) /\ (ms[i].is_output \/ ms[i].is_assert0) BY <1>1, <1>4, LastAreOutputs
    <3>2. CASE ns[i].is_output
      <4>1. ShownMultiple(ns, sh, i) BY <1>3, <3>1, <3>2 DEF OutputsAreShown
      <4>2. PICK j \in 1..Len(sh) : \E k \in Elt :
              \A w : Carries(ns, w) => \A Y \in Inputs : w[i][Y] = mulf(k, w[sh[j]][Y])
        BY <4>1 DEF ShownMultiple
      <4>3. PICK k \in Elt : \A w : Carries(ns, w) => \A Y \in Inputs : w[i][Y] = mulf(k, w[sh[j]][Y]) BY <4>2
      <4>4. val[i][X] = mulf(k, val[sh[j]][X]) BY <4>3
      <4> QED BY <1>8, <4>3, <4>4, TimesZero
    <3>3. CASE i \in Topped(ns, ub)
      <4>1. PICK a \in Freed(ns, ub) : i = ns[a].terms[1].op1 BY <3>3 DEF Topped
      <4>2. a \in Ops(ns) /\ ns[a].is_assert0 BY <4>1 DEF Freed
      <4>3. i \in asserted BY <1>3, <4>1, <4>2, AnAssertion
      <4> QED BY <1>8, <4>3
    <3>4. CASE ms[i].is_assert0
      <4>1. ns[i].is_assert0 BY <1>4, <3>1, <3>4
      <4>2. /\ Len(ns[i].terms) = 1 /\ ns[i].terms[1].op1 \in asserted /\ 1 \in 1..Len(ns[i].terms)
            /\ ns[i].terms[1].k = 0 /\ ns[i].terms # <<>>
        BY <1>3, <3>1, <4>1, AnAssertion
      <4>3. TermsOk(ns, ns[i].terms) /\ ns[i].terms \in Seq(TermType) BY <1>3, <3>1, NodesAreOk DEF NodeOk, TermsOk
      <4>4. TermValue(ns[i].terms[1], val, X) = 0
        <5>1. mulf(val[ns[i].terms[1].op0][X], val[ns[i].terms[1].op1][X]) \in Elt BY <1>3, <4>2, <4>3, TermsInField
        <5> QED BY <4>2, <5>1, TimesZero DEF TermValue
      <4>5. Meaning(ns[i].terms, val, X) = 0 BY <4>2, <4>3, <4>4, MeaningOfOne, TheModulus
      <4>6. ~ns[i].is_input BY <1>3, <3>1, <4>2 DEF Ok, Typed
      <4> QED BY <3>1, <4>5, <4>6, ValueInField
    <3> QED BY <1>4, <3>1, <3>2, <3>3, <3>4
  <2> QED BY <1>2, <2>1, <2>2
<1>9. ASSUME r.ok, \A i \in Living(ms, need, ub - 1) : val[i][X] = 0
      PROVE  (\A op \in asserted : val[op][X] = 0) /\ \A j \in 1..Len(sh) : val[sh[j]][X] = 0
  <2>1. ASSUME NEW i \in Ops(ns), ms[i].is_output PROVE val[i][X] = 0
    <3>1. CASE IsZero(ns[i])
      <4>1. val[i][X] = Meaning(<<>>, val, X) BY <3>1, ValueInField DEF IsZero
      <4> QED BY <4>1, MeaningOfNone
    <3>2. CASE ~IsZero(ns[i])
      <4>1. i \in Living(ms, need, ub - 1) BY <1>1, <1>4, <1>5, <2>1, <3>2, OutputLives
      <4> QED BY <1>9, <4>1
    <3> QED BY <3>1, <3>2
  <2>2. ASSUME NEW j \in 1..Len(sh) PROVE val[sh[j]][X] = 0
    <3>1. sh[j] \in Ops(ns) /\ ns[sh[j]].is_output BY <1>3 DEF OutputsAreShown
    <3> QED BY <1>4, <2>1, <3>1
  <2>3. ASSUME NEW op \in asserted PROVE val[op][X] = 0
    <3>1. AssertedIn(ns, op) BY <1>3
    <3>2. PICK a \in Ops(ns) : ns[a].is_assert0 /\ ns[a].terms[1].op1 = op BY <3>1 DEF AssertedIn
    <3>3. /\ ns[a].terms[1].k = 0 /\ ns[a].terms[1].op0 = 0 /\ op \in Ops(ns) /\ 1 \in 1..Len(ns[a].terms)
          /\ ns[a].depth = ns[op].depth + 1 /\ ns[op].depth \in Nat /\ ~IsZero(ns[a])
      BY <1>3, <3>2, AnAssertion
    <3>4. CASE a \in Freed(ns, ub)
      <4>1. op \in Topped(ns, ub) BY <3>2, <3>4 DEF Topped
      <4> QED BY <1>4, <2>1, <3>3, <4>1
    <3>5. CASE a \notin Freed(ns, ub)
      <4> DEFINE e == ns[a].depth
      <4>1. ms[a].is_assert0 /\ ms[a].depth = e /\ ms[a].terms = ns[a].terms /\ ~IsZero(ms[a])
        BY <1>4, <1>5, <3>2, <3>3, <3>5
      <4>2. e \in Nat /\ e >= 1 BY <3>3
      <4>3. e + 1 <= ub BY <1>1, <1>4, <4>1 DEF Plan, Within
      <4>4. e \in 1..(ub - 1) BY <1>1, <4>2, <4>3
      <4>5. need[a] >= e + 1 /\ need[a] \in Nat BY <1>1, <1>4, <4>1 DEF Plan, Served, Needed
      <4>6. need[a] > 0 BY <4>2, <4>5
      <4>7. a \in Living(ms, need, e) BY <1>4, <4>1, <4>6 DEF Living, Lives
      <4>8. ~IsCopy(ms, a, e) BY <4>1, <4>2 DEF IsCopy
      <4>9. ChecksHold(ms, need, e, val, X) BY <1>2, <1>9, <4>4
      <4>10. 1 \in 1..Len(ms[a].terms) /\ ms[a].terms[1].k = 0 BY <3>3, <4>1
      <4>11. mulf(val[ms[a].terms[1].op0][X], val[ms[a].terms[1].op1][X]) = 0
        BY <4>7, <4>8, <4>9, <4>10 DEF ChecksHold
      <4>12. mulf(val[0][X], val[op][X]) = 0 BY <3>2, <3>3, <4>1, <4>11
      <4>13. val[0][X] = 1
        <5>1. 0 \in Ops(ns) /\ ns[0].is_input /\ ns[0].in_id = 0 BY <1>3 DEF Ok, Typed
        <5>2. val[0][X] = X[0] BY <5>1, ValueInField
        <5> QED BY <5>2, InputsAreInField
      <4>14. mulf(1, val[op][X]) = val[op][X] BY <1>7, <3>3, Ring
      <4> QED BY <4>12, <4>13, <4>14
    <3> QED BY <3>4, <3>5
  <2> QED BY <2>2, <2>3
<1> QED BY <1>6, <1>8, <1>9 DEF r

-----------------------------------------------------------------------------
(* Tidy programs *)
(* Numbers that increase from at least 1 are no less than their places. *)
LEMMA Climbs ==
  ASSUME NEW n \in Nat, NEW f, \A k \in 1..n : f[k] \in Int /\ f[k] >= 1, \A k \in 1..(n - 1) : f[k] < f[k + 1]
  PROVE  \A k \in 1..n : f[k] >= k
<1> DEFINE S == {m \in Nat : m + 1 <= n => f[m + 1] >= m + 1}
<1>1. 0 \in S
  <2>1. 0 + 1 <= n => 0 + 1 \in 1..n OBVIOUS
  <2> QED BY <2>1
<1>2. ASSUME NEW m \in Nat, m \in S PROVE m + 1 \in S
  <2> SUFFICES ASSUME (m + 1) + 1 <= n PROVE f[(m + 1) + 1] >= (m + 1) + 1 OBVIOUS
  <2>1. m + 1 \in 1..(n - 1) /\ m + 1 \in 1..n /\ (m + 1) + 1 \in 1..n OBVIOUS
  <2>2. f[m + 1] >= m + 1 /\ f[m + 1] < f[(m + 1) + 1] /\ f[m + 1] \in Int /\ f[(m + 1) + 1] \in Int BY <1>2, <2>1
  <2> QED BY <2>2
<1>3. \A m \in Nat : m \in S BY <1>1, <1>2, L!Induction, Zenon
<1> TAKE k \in 1..n
<1>4. k - 1 \in Nat /\ (k - 1) + 1 = k /\ k <= n OBVIOUS
<1>5. k - 1 \in S BY <1>3, <1>4
<1> QED BY <1>4, <1>5

(* Numbers of 1..n that increase are their places. *)
LEMMA ClimbsAll ==
  ASSUME NEW n \in Nat, NEW f, \A k \in 1..n : f[k] \in 1..n, \A k \in 1..(n - 1) : f[k] < f[k + 1]
  PROVE  \A k \in 1..n : f[k] = k
<1>1. \A k \in 1..n : f[k] >= k
  <2>1. \A k \in 1..n : f[k] \in Int /\ f[k] >= 1 OBVIOUS
  <2> QED BY <2>1, Climbs
<1> DEFINE h == [k \in 1..n |-> (n + 1) - f[(n + 1) - k]]
<1>2. \A k \in 1..n : h[k] >= k
  <2>1. ASSUME NEW k \in 1..n PROVE h[k] \in Int /\ h[k] >= 1
    <3>1. (n + 1) - k \in 1..n OBVIOUS
    <3>2. f[(n + 1) - k] \in 1..n BY <3>1
    <3> QED BY <3>2
  <2>2. ASSUME NEW k \in 1..(n - 1) PROVE h[k] < h[k + 1]
    <3> DEFINE j == (n + 1) - (k + 1)
    <3>1. j \in 1..(n - 1) /\ j \in 1..n /\ j + 1 \in 1..n /\ (n + 1) - k = j + 1 /\ k \in 1..n /\ k + 1 \in 1..n OBVIOUS
    <3>2. f[j] < f[j + 1] /\ f[j] \in Int /\ f[j + 1] \in Int BY <3>1
    <3>3. h[k] = (n + 1) - f[(n + 1) - k] /\ h[k + 1] = (n + 1) - f[(n + 1) - (k + 1)] BY <3>1
    <3>4. h[k] = (n + 1) - f[j + 1] /\ h[k + 1] = (n + 1) - f[j] BY <3>1, <3>3
    <3> HIDE DEF j, h
    <3> QED BY <3>2, <3>4
  <2> HIDE DEF h
  <2> QED BY <2>1, <2>2, Climbs
<1> TAKE k \in 1..n
<1>3. (n + 1) - k \in 1..n /\ (n + 1) - ((n + 1) - k) = k OBVIOUS
<1>4. h[(n + 1) - k] = (n + 1) - f[k] /\ h[(n + 1) - k] >= (n + 1) - k
  <2>1. h[(n + 1) - k] = (n + 1) - f[(n + 1) - ((n + 1) - k)] BY <1>3
  <2> QED BY <1>2, <1>3, <2>1
<1>5. f[k] \in 1..n /\ f[k] >= k BY <1>1
<1> HIDE DEF h
<1>6. (n + 1) - f[k] >= (n + 1) - k BY <1>4
<1> QED BY <1>5, <1>6

(* Ops with the same row have the same terms. *)
LEMMA SameRows ==
  ASSUME NEW live, NEW ts, Over(ts, live), NEW us, Over(us, live), NEW below, Facing(below, live),
         RowOf(ts, below) = RowOf(us, below)
  PROVE  ts = us
<1> DEFINE u == RowOf(ts, below)   n == Len(ts)
<1>1. \E o : RowBy(u, ts, below, o) BY RowIs
<1>2. \E p : RowBy(u, us, below, p) BY RowIs
<1> HIDE DEF u
<1>3. PICK o : RowBy(u, ts, below, o) BY <1>1
<1>4. PICK p : RowBy(u, us, below, p) BY <1>2
<1>5. n \in Nat /\ Len(u) = n /\ Len(us) = n BY <1>3, <1>4 DEF RowBy, Over
<1>6. ASSUME NEW a \in 1..n PROVE o[a] \in 1..n /\ p[a] \in 1..n /\ ts[o[a]] = us[p[a]]
  <2> DEFINE t == ts[o[a]]   v == us[p[a]]
  <2>1. /\ o[a] \in 1..n /\ u[a].k = t.k
        /\ \/ u[a].op0 = below[t.op0] /\ u[a].op1 = below[t.op1]
           \/ u[a].op0 = below[t.op1] /\ u[a].op1 = below[t.op0]
    BY <1>3, <1>5 DEF RowBy
  <2>2. /\ p[a] \in 1..n /\ u[a].k = v.k
        /\ \/ u[a].op0 = below[v.op0] /\ u[a].op1 = below[v.op1]
           \/ u[a].op0 = below[v.op1] /\ u[a].op1 = below[v.op0]
    BY <1>4, <1>5 DEF RowBy
  <2>3. t \in TermType /\ t.op0 \in live /\ t.op1 \in live /\ t.op0 <= t.op1 BY <2>1 DEF Over
  <2>4. v \in TermType /\ v.op0 \in live /\ v.op1 \in live /\ v.op0 <= v.op1
    BY <1>5, <2>2 DEF Over
  <2> HIDE DEF t, v
  <2>5. t.op0 \in Nat /\ t.op1 \in Nat /\ v.op0 \in Nat /\ v.op1 \in Nat BY <2>3, <2>4 DEF TermType
  <2>6. (t.op0 = v.op0 /\ t.op1 = v.op1) \/ (t.op0 = v.op1 /\ t.op1 = v.op0)
    BY <2>1, <2>2, <2>3, <2>4 DEF Facing
  <2>7. t.op0 = v.op0 /\ t.op1 = v.op1 BY <2>3, <2>4, <2>5, <2>6, SamePair
  <2>8. t = v
    <3>1. t.k = v.k BY <2>1, <2>2
    <3>2. \A x \in TermType : x = [k |-> x.k, op0 |-> x.op0, op1 |-> x.op1] BY DEF TermType
    <3>3. t = [k |-> t.k, op0 |-> t.op0, op1 |-> t.op1] /\ v = [k |-> v.k, op0 |-> v.op0, op1 |-> v.op1]
      BY <2>3, <2>4, <3>2
    <3> QED BY <2>7, <3>1, <3>3, Zenon
  <2> QED BY <2>1, <2>2, <2>8 DEF t, v
<1> DEFINE At(j) == CHOOSE a \in 1..n : o[a] = j
           f == [j \in 1..n |-> p[At(j)]]
<1>7. ASSUME NEW j \in 1..n PROVE f[j] \in 1..n /\ ts[j] = us[f[j]]
  <2>1. \E a \in 1..n : o[a] = j BY <1>3 DEF RowBy, Permutes
  <2>2. At(j) \in 1..n /\ o[At(j)] = j BY <2>1
  <2>3. f[j] = p[At(j)] OBVIOUS
  <2> HIDE DEF At, f
  <2> QED BY <1>6, <2>2, <2>3
<1> HIDE DEF f
<1>8. ASSUME NEW j \in 1..(n - 1) PROVE f[j] < f[j + 1]
  <2>1. j \in 1..n /\ j + 1 \in 1..n BY <1>5
  <2>2. f[j] \in 1..n /\ f[j + 1] \in 1..n /\ ts[j] = us[f[j]] /\ ts[j + 1] = us[f[j + 1]] BY <1>7, <2>1
  <2>3. ltndx(ts[j], ts[j + 1]) BY DEF Over
  <2>4. us[f[j]] \in TermType /\ us[f[j + 1]] \in TermType BY <1>5, <2>2 DEF Over
  <2>5. \A a, b \in 1..n : a < b => ltndx(us[a], us[b]) BY <1>5, StrictOrder DEF Over
  <2> DEFINE x == us[f[j]]   y == us[f[j + 1]]
  <2>6. ltndx(x, y) /\ x.op0 \in Nat /\ x.op1 \in Nat /\ y.op0 \in Nat /\ y.op1 \in Nat
    BY <2>2, <2>3, <2>4 DEF TermType
  <2>7. f[j + 1] < f[j] => ltndx(y, x) BY <2>2, <2>5
  <2>8. f[j + 1] = f[j] => y = x OBVIOUS
  <2> HIDE DEF x, y
  <2>9. ~ltndx(y, x) /\ y # x BY <2>6 DEF ltndx
  <2>10. f[j] \in Int /\ f[j + 1] \in Int BY <2>2
  <2> QED BY <2>7, <2>8, <2>9, <2>10
<1>9. \A j \in 1..n : f[j] = j
  <2>1. \A j \in 1..n : f[j] \in 1..n BY <1>7
  <2> HIDE DEF n
  <2> QED BY <1>5, <1>8, <2>1, ClimbsAll
<1>10. \A j \in 1..n : ts[j] = us[j] BY <1>7, <1>9
<1>11. L!IsSeq(ts) /\ L!IsSeq(us) BY DEF Over, L!IsSeq
<1> QED BY <1>5, <1>10, <1>11, L!SequenceEquality

(* nodes over the same terms are the same *)
NoTwins(ns) ==
  \A i, j \in Ops(ns) : ~ns[i].is_input /\ ~ns[j].is_input /\ ns[i].terms = ns[j].terms => i = j
(* the outputs are the wires shown, numbered, and no assertions *)
TidyNodes(ns, asserted, sh) ==
  /\ \A j \in 1..Len(sh) : ns[sh[j]].out_id = j - 1 /\ ~IsZero(ns[sh[j]]) /\ sh[j] \notin asserted
  /\ \A i \in Ops(ns) : ns[i].is_output => \E j \in 1..Len(sh) : sh[j] = i
  /\ NoTwins(ns)

(* Nodes without twins have no twins in a layer. *)
LEMMA NoTwinRows ==
  ASSUME NEW ns, NEW need, NEW ub, NEW d, NEW below, NEW layer, Evaluable(ns, need, ub, d, below, layer), NoTwins(ns)
  PROVE  uniq([w \in DOMAIN layer |-> <<layer[w].copy, layer[w].terms>>])
<1> DEFINE n == Len(layer)   s == [w \in DOMAIN layer |-> <<layer[w].copy, layer[w].terms>>]
           live == Living(ns, need, d - 1)   Ts(i) == lterms(ns, need, i, d)
<1>1. n \in Nat /\ DOMAIN layer = 1..n BY DEF Evaluable, LayerOf
<1>2. Len(s) = n
  <2>1. s = [w \in 1..n |-> s[w]] BY <1>1
  <2> HIDE DEF s
  <2> QED BY <1>1, <2>1, L!SequenceOfLength
<1> SUFFICES ASSUME NEW v \in 1..(n - 1), s[v] = s[v + 1] PROVE FALSE BY <1>2 DEF uniq
<1> DEFINE i == layer[v].op   j == layer[v + 1].op
<1>3. v \in 1..n /\ v + 1 \in 1..n /\ v # v + 1 BY <1>1
<1>4. layer[v].copy = layer[v + 1].copy /\ layer[v].terms = layer[v + 1].terms
  <2>1. s[v] = <<layer[v].copy, layer[v].terms>> /\ s[v + 1] = <<layer[v + 1].copy, layer[v + 1].terms>> BY <1>1, <1>3
  <2> QED BY <2>1
<1>5. /\ i \in Living(ns, need, d) /\ Over(Ts(i), live) /\ Facing(below, live)
      /\ layer[v].terms = RowOf(Ts(i), below) /\ layer[v].copy = IsCopy(ns, i, d)
  BY <1>3, LivingRow
<1>6. /\ j \in Living(ns, need, d) /\ Over(Ts(j), live)
      /\ layer[v + 1].terms = RowOf(Ts(j), below) /\ layer[v + 1].copy = IsCopy(ns, j, d)
  BY <1>3, LivingRow
<1>7. i # j BY <1>3 DEF Evaluable, LayerOf
<1> HIDE DEF i, j, live, s
<1>8. Ts(i) = Ts(j) BY <1>4, <1>5, <1>6, SameRows
<1>9. IsCopy(ns, i, d) = IsCopy(ns, j, d) BY <1>4, <1>5, <1>6
<1>10. Plan(ns, ub, need) /\ d \in Nat /\ d >= 1 BY DEF Evaluable
<1>11. /\ Ts(i) = IF IsCopy(ns, i, d) THEN <<[k |-> 1, op0 |-> 0, op1 |-> i]>> ELSE ns[i].terms
       /\ Ts(j) = IF IsCopy(ns, j, d) THEN <<[k |-> 1, op0 |-> 0, op1 |-> j]>> ELSE ns[j].terms
  BY <1>5, <1>6, <1>10, LayerTerms
<1> HIDE DEF Ts
<1>12. CASE IsCopy(ns, i, d)
  <2>1. <<[k |-> 1, op0 |-> 0, op1 |-> i]>> = <<[k |-> 1, op0 |-> 0, op1 |-> j]>> BY <1>8, <1>9, <1>11, <1>12
  <2> DEFINE t == [k |-> 1, op0 |-> 0, op1 |-> i]   u == [k |-> 1, op0 |-> 0, op1 |-> j]
  <2>2. t.op1 = i /\ u.op1 = j /\ <<t>> = <<u>> BY <2>1
  <2> HIDE DEF t, u
  <2>3. t = u BY <2>2
  <2> QED BY <1>7, <2>2, <2>3
<1>13. CASE ~IsCopy(ns, i, d)
  <2>1. ns[i].terms = ns[j].terms BY <1>8, <1>9, <1>11, <1>13
  <2>2. ns[i].terms # <<>> /\ ~ns[i].is_input /\ ~ns[j].is_input BY <1>5, <1>6, <1>9, <1>10, <1>13, OperandsLive
  <2>3. i \in Ops(ns) /\ j \in Ops(ns) BY <1>5, <1>6 DEF Living
  <2> QED BY <1>7, <2>1, <2>2, <2>3 DEF NoTwins
<1> QED BY <1>12, <1>13

(* numbers of outputs at the places at, by rank *)
ByRank(layer, at, n) ==
  /\ Len(layer) \in Nat /\ \A j \in 1..n : at[j] \in 1..Len(layer) /\ layer[at[j]].id = j - 1
  /\ \A w \in 1..Len(layer) : layer[w].id = kWireIdUndefined \/ \E j \in 1..n : at[j] = w /\ layer[w].id = j - 1
  /\ \A v, w \in 1..Len(layer) : v < w => Rank(layer[v].id, n) <= Rank(layer[w].id, n)

(* A layer with the numbers of the outputs, by rank, has them in place. *)
LEMMA NumbersInPlace ==
  ASSUME NEW n \in Nat, NEW layer, NEW at, ByRank(layer, at, n)
  PROVE  \A w \in 1..Len(layer) : layer[w].id \in {kWireIdUndefined, w - 1}
<1>0. /\ Len(layer) \in Nat /\ \A j \in 1..n : at[j] \in 1..Len(layer) /\ layer[at[j]].id = j - 1
      /\ \A w \in 1..Len(layer) : layer[w].id = kWireIdUndefined \/ \E j \in 1..n : at[j] = w /\ layer[w].id = j - 1
      /\ \A v, w \in 1..Len(layer) : v < w => Rank(layer[v].id, n) <= Rank(layer[w].id, n)
  BY DEF ByRank
<1> DEFINE rk == [w \in 1..Len(layer) |-> Rank(layer[w].id, n)]
<1>1. ASSUME NEW j \in 1..n PROVE rk[at[j]] = j - 1 /\ at[j] \in 1..Len(layer)
  <2>1. layer[at[j]].id = j - 1 /\ j - 1 # kWireIdUndefined BY <1>0 DEF kWireIdUndefined
  <2> QED BY <1>0, <2>1 DEF Rank
<1>2. ASSUME NEW w \in 1..Len(layer) PROVE rk[w] = n \/ \E j \in 1..n : at[j] = w /\ rk[w] = j - 1
  <2>1. CASE layer[w].id = kWireIdUndefined BY <2>1 DEF Rank
  <2>2. CASE \E j \in 1..n : at[j] = w /\ layer[w].id = j - 1 BY <1>1, <2>2
  <2> QED BY <1>0, <2>1, <2>2
<1>3. \A v, w \in 1..Len(layer) : v < w => rk[v] <= rk[w] BY <1>0
<1> HIDE DEF rk
<1>4. \A w \in 1..Len(layer) : rk[w] \in Int BY <1>2
<1>5. ASSUME NEW i \in 1..n, NEW j \in 1..n, i < j PROVE at[i] < at[j]
  <2> SUFFICES ASSUME ~(at[i] < at[j]) PROVE FALSE OBVIOUS
  <2>1. at[i] \in 1..Len(layer) /\ at[j] \in 1..Len(layer) /\ rk[at[i]] = i - 1 /\ rk[at[j]] = j - 1 BY <1>1
  <2>2. at[j] < at[i] \/ at[j] = at[i] BY <2>1
  <2>3. rk[at[j]] <= rk[at[i]]
    <3>1. CASE at[j] < at[i] BY <1>3, <2>1, <3>1
    <3>2. CASE at[j] = at[i] BY <2>1, <3>2
    <3> QED BY <2>2, <3>1, <3>2
  <2>4. j - 1 <= i - 1 BY <2>1, <2>3
  <2>5. i \in Int /\ j \in Int /\ i < j BY <1>5
  <2> QED BY <2>4, <2>5
<1>6. ASSUME NEW k \in 1..n PROVE at[k] = k
  <2>1. at[k] >= k
    <3>1. \A j \in 1..n : at[j] \in Int /\ at[j] >= 1 BY <1>1
    <3>2. \A j \in 1..(n - 1) : j \in 1..n /\ j + 1 \in 1..n /\ j < j + 1 OBVIOUS
    <3>3. \A j \in 1..(n - 1) : at[j] < at[j + 1] BY <1>5, <3>2
    <3> QED BY <3>1, <3>3, Climbs
  <2> DEFINE m == at[k]   q == [v \in 1..m |-> rk[v] + 1]
  <2>2. m \in Nat /\ m \in 1..Len(layer) /\ rk[m] = k - 1
    <3>1. at[k] \in 1..Len(layer) /\ rk[at[k]] = k - 1 BY <1>1
    <3> QED BY <3>1
  <2> HIDE DEF m
  <2>3. ASSUME NEW v \in 1..m PROVE v \in 1..Len(layer) /\ rk[v] <= k - 1 /\ \E j \in 1..n : at[j] = v /\ rk[v] = j - 1
    <3>1. v \in 1..Len(layer) BY <2>2
    <3>2. rk[v] \in Int /\ rk[v] <= k - 1
      <4>1. v < m \/ v = m BY <2>2
      <4>2. rk[v] \in Int BY <1>4, <3>1
      <4>3. CASE v < m BY <1>3, <2>2, <3>1, <4>2, <4>3
      <4>4. CASE v = m BY <2>2, <4>2, <4>4
      <4> QED BY <4>1, <4>3, <4>4, <4>2
    <3>3. rk[v] # n BY <3>2
    <3> QED BY <1>2, <3>1, <3>2, <3>3
  <2>4. ASSUME NEW v \in 1..(m - 1) PROVE rk[v] < rk[v + 1]
    <3>1. v \in 1..m /\ v + 1 \in 1..m /\ v < v + 1 BY <2>2
    <3>2. PICK i \in 1..n : at[i] = v /\ rk[v] = i - 1 BY <2>3, <3>1
    <3>3. PICK j \in 1..n : at[j] = v + 1 /\ rk[v + 1] = j - 1 BY <2>3, <3>1
    <3>4. rk[v] <= rk[v + 1]
      <4>1. v \in 1..Len(layer) /\ v + 1 \in 1..Len(layer) BY <2>3, <3>1
      <4> QED BY <1>3, <3>1, <4>1
    <3>5. i # j BY <3>1, <3>2, <3>3
    <3>6. i - 1 <= j - 1 BY <3>2, <3>3, <3>4
    <3>7. i - 1 < j - 1 BY <3>5, <3>6
    <3> QED BY <3>2, <3>3, <3>7
  <2>5. \A v \in 1..m : q[v] \in Int /\ q[v] >= 1
    <3> TAKE v \in 1..m
    <3>1. PICK j \in 1..n : rk[v] = j - 1 BY <2>3
    <3> QED BY <3>1
  <2>6. \A v \in 1..(m - 1) : q[v] < q[v + 1]
    <3> TAKE v \in 1..(m - 1)
    <3>1. v \in 1..m /\ v + 1 \in 1..m BY <2>2
    <3>2. rk[v] < rk[v + 1] /\ q[v] = rk[v] + 1 /\ q[v + 1] = rk[v + 1] + 1 BY <2>4, <3>1
    <3>3. rk[v] \in Int /\ rk[v + 1] \in Int BY <1>4, <2>3, <3>1
    <3> HIDE DEF q
    <3> QED BY <3>2, <3>3
  <2>7. m \in 1..m /\ q[m] = k BY <2>2
  <2> HIDE DEF q
  <2>8. q[m] >= m BY <2>2, <2>5, <2>6, <2>7, Climbs
  <2>9. m >= k BY <2>1 DEF m
  <2> QED BY <2>2, <2>7, <2>8, <2>9 DEF m
<1> TAKE w \in 1..Len(layer)
<1>7. CASE layer[w].id = kWireIdUndefined BY <1>7
<1>8. CASE \E j \in 1..n : at[j] = w /\ layer[w].id = j - 1
  <2>1. PICK j \in 1..n : at[j] = w /\ layer[w].id = j - 1 BY <1>8
  <2>2. j = w BY <1>6, <2>1
  <2> QED BY <2>1, <2>2
<1> QED BY <1>0, <1>7, <1>8

(* What the layers of a tidy program number is what it shows. *)
LEMMA TidyIds ==
  ASSUME NEW ns, NEW asserted, NEW sh, Program(ns, asserted, sh), TidyNodes(ns, asserted, sh),
         NEW ub, NEW ms, ms = fixup_last_layer_assertions(ns, ub), NEW e \in Nat, e >= 1, NEW i \in Ops(ns)
  PROVE  LET id == desired_wire_id(ms[i], e, ub)
         IN  /\ id = kWireIdUndefined \/ (e + 1 = ub /\ \E j \in 1..Len(sh) : sh[j] = i /\ id = j - 1)
             /\ e + 1 = ub => \A j \in 1..Len(sh) : sh[j] = i => ms[i].is_output /\ ~IsZero(ms[i]) /\ id = j - 1
<1> DEFINE id == desired_wire_id(ms[i], e, ub)
<1>1. Ok(ns) /\ ZeroTerms(ns, asserted) /\ OutputsAreShown(ns, sh) BY DEF Program
<1>2. /\ Same(ns[i], ms[i])
      /\ ms[i].is_output = (ns[i].is_output \/ i \in Topped(ns, ub))
      /\ ms[i].out_id = IF i \in Topped(ns, ub) THEN kWireIdUndefined ELSE ns[i].out_id
  BY <1>1, FixedMarks
<1>3. id = IF ms[i].is_output /\ e + 1 = ub THEN ms[i].out_id ELSE kWireIdUndefined BY DEF desired_wire_id
<1>4. i \in Topped(ns, ub) => i \in asserted
  <2> SUFFICES ASSUME i \in Topped(ns, ub) PROVE i \in asserted OBVIOUS
  <2>1. PICK a \in Freed(ns, ub) : i = ns[a].terms[1].op1 BY DEF Topped
  <2>2. a \in Ops(ns) /\ ns[a].is_assert0 BY <2>1 DEF Freed
  <2> QED BY <1>1, <2>1, <2>2, AnAssertion
<1>5. IsZero(ms[i]) <=> IsZero(ns[i]) BY <1>2 DEF Same, IsZero
<1> HIDE DEF id
<1>6. ASSUME NEW j \in 1..Len(sh), sh[j] = i, e + 1 = ub PROVE ms[i].is_output /\ ~IsZero(ms[i]) /\ id = j - 1
  <2>1. ns[i].out_id = j - 1 /\ ~IsZero(ns[i]) /\ i \notin asserted BY <1>6 DEF TidyNodes
  <2>2. ns[i].is_output BY <1>1, <1>6 DEF OutputsAreShown
  <2> QED BY <1>2, <1>3, <1>4, <1>5, <1>6, <2>1, <2>2
<1>7. ASSUME id # kWireIdUndefined PROVE e + 1 = ub /\ \E j \in 1..Len(sh) : sh[j] = i /\ id = j - 1
  <2>1. ms[i].is_output /\ e + 1 = ub /\ id = ms[i].out_id BY <1>3, <1>7
  <2>2. i \notin Topped(ns, ub) /\ ns[i].is_output BY <1>2, <1>7, <2>1
  <2>3. PICK j \in 1..Len(sh) : sh[j] = i BY <2>2 DEF TidyNodes
  <2> QED BY <1>6, <2>1, <2>3
<1> QED BY <1>6, <1>7 DEF id

(* The layers of a tidy program pass the checks of the scheduler. *)
LEMMA TidyLayerPasses ==
  ASSUME NEW ns, NEW asserted, NEW sh, Program(ns, asserted, sh), TidyNodes(ns, asserted, sh),
         NEW ub, NEW ms, ms = fixup_last_layer_assertions(ns, ub), NEW need, NEW e, NEW below,
         NEW layer, layer = Renamed(ms, need, ub, e, below), Evaluable(ms, need, ub, e, below, layer)
  PROVE  LayerCheck(layer) = "done"
<1>1. Ok(ns) /\ OutputsAreShown(ns, sh) BY DEF Program
<1>2. Plan(ms, ub, need) /\ e \in Nat /\ e >= 1 /\ LayerOf(ms, need, ub, e, below, layer) BY DEF Evaluable
<1>3. /\ Ops(ms) = Ops(ns) /\ Ok(ms)
      /\ \A i \in Ops(ns) : Same(ns[i], ms[i])
  BY <1>1, FixedMarks
<1>4. NoTwins(ms)
  <2>1. \A i \in Ops(ns) : ms[i].terms = ns[i].terms /\ ms[i].is_input = ns[i].is_input BY <1>3 DEF Same
  <2>2. NoTwins(ns) BY DEF TidyNodes
  <2> QED BY <1>3, <2>1, <2>2 DEF NoTwins
<1>5. \A w \in DOMAIN layer : uniq(layer[w].terms) BY LayerIsGood
<1>6. uniq([w \in DOMAIN layer |-> <<layer[w].copy, layer[w].terms>>]) BY <1>4, NoTwinRows
<1>7. Len(layer) \in Nat /\ DOMAIN layer = 1..Len(layer) BY <1>2 DEF LayerOf
<1>8. \A w \in 1..Len(layer) :
        layer[w].op \in Living(ms, need, e) /\ layer[w].op \in Ops(ns) /\ layer[w].id = desired_wire_id(ms[layer[w].op], e, ub)
  <2> TAKE w \in 1..Len(layer)
  <2>1. layer[w].op \in Living(ms, need, e) /\ layer[w].id = desired_wire_id(ms[layer[w].op], e, ub) BY LivingRow
  <2> QED BY <1>3, <2>1 DEF Living
<1>9. \A w \in DOMAIN layer : layer[w].id \in {kWireIdUndefined, w - 1}
  <2>1. CASE e + 1 # ub
    <3> SUFFICES ASSUME NEW w \in 1..Len(layer) PROVE layer[w].id = kWireIdUndefined BY <1>7
    <3>1. desired_wire_id(ms[layer[w].op], e, ub) = kWireIdUndefined BY <1>2, <1>8, <2>1, TidyIds
    <3> QED BY <1>8, <3>1
  <2>2. CASE e + 1 = ub
    <3> DEFINE n == Len(sh)   at == [j \in 1..n |-> CHOOSE w \in 1..Len(layer) : layer[w].op = sh[j]]
    <3>1. n \in Nat BY <1>1, L!LengthOfSequence DEF OutputsAreShown
    <3>2. ASSUME NEW j \in 1..n PROVE \E w \in 1..Len(layer) : layer[w].op = sh[j]
      <4>1. sh[j] \in Ops(ns) BY <1>1, <3>1 DEF OutputsAreShown
      <4>2. ms[sh[j]].is_output /\ ~IsZero(ms[sh[j]]) BY <1>2, <2>2, <4>1, TidyIds
      <4>3. sh[j] \in Living(ms, need, ub - 1) BY <1>2, <1>3, <4>1, <4>2, OutputLives
      <4>4. ub - 1 = e
        <5>1. ub \in Nat BY <1>2 DEF Plan, Within
        <5> QED BY <1>2, <2>2, <5>1
      <4> QED BY <1>2, <4>3, <4>4 DEF LayerOf
    <3>3. ASSUME NEW j \in 1..n PROVE at[j] \in 1..Len(layer) /\ layer[at[j]].op = sh[j] BY <3>2
    <3> HIDE DEF at, n
    <3>4. ASSUME NEW j \in 1..n PROVE layer[at[j]].id = j - 1
      <4>1. sh[j] \in Ops(ns) BY <1>1, <3>4 DEF OutputsAreShown, n
      <4>2. desired_wire_id(ms[sh[j]], e, ub) = j - 1 BY <1>2, <2>2, <3>4, <4>1, TidyIds DEF n
      <4> QED BY <1>8, <3>3, <4>2
    <3>5. ASSUME NEW w \in 1..Len(layer)
          PROVE  layer[w].id = kWireIdUndefined \/ \E j \in 1..n : at[j] = w /\ layer[w].id = j - 1
      <4>1. desired_wire_id(ms[layer[w].op], e, ub) = kWireIdUndefined
              \/ \E j \in 1..n : sh[j] = layer[w].op /\ desired_wire_id(ms[layer[w].op], e, ub) = j - 1
        BY <1>2, <1>8, TidyIds DEF n
      <4>2. ASSUME NEW j \in 1..n, sh[j] = layer[w].op PROVE at[j] = w
        <5>1. at[j] \in 1..Len(layer) /\ layer[at[j]].op = layer[w].op BY <3>3, <4>2
        <5> QED BY <1>2, <5>1 DEF LayerOf
      <4> QED BY <1>8, <4>1, <4>2
    <3>6. \A i \in Living(ms, need, e) : desired_wire_id(ms[i], e, ub) \in {kWireIdUndefined} \union 0..(n - 1)
      <4> TAKE i \in Living(ms, need, e)
      <4>1. i \in Ops(ns) BY <1>3 DEF Living
      <4>2. desired_wire_id(ms[i], e, ub) = kWireIdUndefined
              \/ \E j \in 1..n : sh[j] = i /\ desired_wire_id(ms[i], e, ub) = j - 1
        BY <1>2, <4>1, TidyIds DEF n
      <4>3. \A j \in 1..n : j - 1 \in 0..(n - 1) BY <3>1
      <4> QED BY <4>2, <4>3
    <3>7. \A v, w \in 1..Len(layer) : v < w => Rank(layer[v].id, n) <= Rank(layer[w].id, n)
      <4>1. Typed(ms) BY <1>3 DEF Ok
      <4> QED BY <3>1, <3>6, <4>1, RenamedIs
    <3>8. \A w \in 1..Len(layer) : layer[w].id \in {kWireIdUndefined, w - 1}
      <4>1. \A j \in 1..n : at[j] \in 1..Len(layer) /\ layer[at[j]].id = j - 1 BY <3>3, <3>4
      <4>2. ByRank(layer, at, n) BY <1>7, <3>5, <3>7, <4>1 DEF ByRank
      <4> QED BY <3>1, <4>2, NumbersInPlace
    <3> QED BY <1>7, <3>8
  <2> QED BY <2>1, <2>2
<1> QED BY <1>5, <1>6, <1>9 DEF LayerCheck

(* The outputs of the circuit of a tidy program are what it shows. *)
LEMMA ShownInPlace ==
  ASSUME NEW ns, NEW asserted, NEW sh, NEW ub, NEW ms, NEW need, NEW layers, NEW c,
         Compiled(ns, asserted, sh, ub, ms, need, layers, c), TidyNodes(ns, asserted, sh),
         NEW val, Carries(ns, val), NEW X \in Inputs, NEW j \in 1..Len(sh)
  PROVE  RunCircuit(c, X).W[j - 1] = val[sh[j]][X]
<1> DEFINE last == layers[ub - 1]   r == RunCircuit(c, X)
<1>1. Program(ns, asserted, sh) /\ ms = fixup_last_layer_assertions(ns, ub) /\ ub \in Nat /\ ub >= 2 BY DEF Compiled
<1>2. Ok(ns) /\ OutputsAreShown(ns, sh) BY <1>1 DEF Program
<1>3. ub - 1 \in Nat /\ ub - 1 >= 1 /\ (ub - 1) + 1 = ub /\ ub - 1 \in 1..(ub - 1) BY <1>1
<1>4. /\ Evaluable(ms, need, ub, ub - 1, BelowOf(ms, need, ub, layers, ub - 1), last)
      /\ LayerCheck(last) = "done"
  BY <1>3 DEF Compiled, Chain
<1>5. /\ \A w \in 1..Len(last) : r.W[w - 1] = val[last[w].op][X]
      /\ \A i \in Living(ms, need, ub - 1) : \E w \in 1..Len(last) : last[w].op = i
  BY CompiledRuns
<1> HIDE DEF last, r
<1>6. sh[j] \in Ops(ns) BY <1>2 DEF OutputsAreShown
<1>7. /\ ms[sh[j]].is_output /\ ~IsZero(ms[sh[j]])
      /\ desired_wire_id(ms[sh[j]], ub - 1, ub) = j - 1
  BY <1>1, <1>3, <1>6, TidyIds
<1>8. Plan(ms, ub, need) /\ LayerOf(ms, need, ub, ub - 1, BelowOf(ms, need, ub, layers, ub - 1), last) BY <1>4 DEF Evaluable
<1>9. sh[j] \in Living(ms, need, ub - 1)
  <2>1. Ops(ms) = Ops(ns) BY <1>1, <1>2, FixedMarks
  <2> QED BY <1>6, <1>7, <1>8, <2>1, OutputLives
<1>10. PICK w \in 1..Len(last) : last[w].op = sh[j] BY <1>5, <1>9
<1>11. last[w].id = j - 1 /\ DOMAIN last = 1..Len(last) /\ Len(last) \in Nat
  <2>1. last[w].id = desired_wire_id(ms[last[w].op], ub - 1, ub) BY <1>4, LivingRow
  <2> QED BY <1>7, <1>8, <1>10, <2>1 DEF LayerOf
<1>12. last[w].id \in {kWireIdUndefined, w - 1}
  <2>1. ~\E v \in DOMAIN last : last[v].id \notin {kWireIdUndefined, v - 1} BY <1>4 DEF LayerCheck
  <2> QED BY <1>11, <2>1
<1>13. w - 1 = j - 1
  <2>1. Len(sh) \in Nat BY <1>2, L!LengthOfSequence DEF OutputsAreShown
  <2>2. j - 1 # kWireIdUndefined BY <2>1 DEF kWireIdUndefined
  <2> QED BY <1>11, <1>12, <2>2
<1> QED BY <1>5, <1>10, <1>13 DEF r

(* what the circuit of a program computes *)
Computes(c, ns, asserted, sh) ==
  \A val : Carries(ns, val) => \A X \in Inputs :
    LET q == RunCircuit(c, X)
    IN  /\ (q.ok /\ \A g \in DOMAIN q.W : q.W[g] = 0)
             <=> ((\A op \in asserted : val[op][X] = 0) /\ \A j \in 1..Len(sh) : val[sh[j]][X] = 0)
        /\ TidyNodes(ns, asserted, sh) => \A j \in 1..Len(sh) : q.W[j - 1] = val[sh[j]][X]

(* Circuits of layers compute the program. *)
LEMMA CompiledComputes ==
  ASSUME NEW ns, NEW asserted, NEW sh, NEW ub, NEW ms, NEW need, NEW layers, NEW c,
         Compiled(ns, asserted, sh, ub, ms, need, layers, c)
  PROVE  Computes(c, ns, asserted, sh)
<1> SUFFICES ASSUME NEW val, Carries(ns, val), NEW X \in Inputs
             PROVE  LET q == RunCircuit(c, X)
                    IN  /\ (q.ok /\ \A g \in DOMAIN q.W : q.W[g] = 0)
                             <=> ((\A op \in asserted : val[op][X] = 0) /\ \A j \in 1..Len(sh) : val[sh[j]][X] = 0)
                        /\ TidyNodes(ns, asserted, sh) => \A j \in 1..Len(sh) : q.W[j - 1] = val[sh[j]][X]
  BY DEF Computes
<1> DEFINE q == RunCircuit(c, X)
<1>1. (q.ok /\ \A g \in DOMAIN q.W : q.W[g] = 0)
        <=> ((\A op \in asserted : val[op][X] = 0) /\ \A j \in 1..Len(sh) : val[sh[j]][X] = 0)
  BY SatisfiedIff
<1>2. TidyNodes(ns, asserted, sh) => \A j \in 1..Len(sh) : q.W[j - 1] = val[sh[j]][X]
  BY ShownInPlace
<1> QED BY <1>1, <1>2

(* mkcircuit() returns a circuit that computes the program, or stops: at   *)
(* no layer if nothing is shown or asserted, at a check that tidy programs *)
(* pass otherwise.                                                         *)
LEMMA ScheduledIs ==
  ASSUME NEW ns, NEW asserted, NEW sh, Program(ns, asserted, sh)
  PROVE  LET r == Scheduled(ns)
         IN  /\ r.status \in {"done", "lnodes.at", "renamed_at_d not unique", "wid == lnpi.desired_wire_id"}
             /\ TidyNodes(ns, asserted, sh) => r.status \in {"done", "lnodes.at"}
             /\ r.status = "lnodes.at" => sh = <<>> /\ \A i \in Ops(r.nodes) : ~r.nodes[i].is_assert0
             /\ r.status = "done" =>
                  Len(r.layers) \in Nat
                  /\ \A c : Built(c, r.layers) /\ Len(r.layers) > 0 => Computes(c, ns, asserted, sh)
<1> DEFINE ub == compute_depth_ub(ns)
           ms == fixup_last_layer_assertions(ns, ub)
           need == compute_needed(ms, ub)
           a == assign_wire_ids(ms, need, ub)
           r == Scheduled(ns)
<1>1. Ok(ns) /\ ZeroTerms(ns, asserted) /\ OutputsAreShown(ns, sh) BY DEF Program
<1>2. ub \in Nat /\ \A i \in Ops(ns) : Needs(ns[i]) <= ub BY <1>1, DepthBound
<1>3. Ops(ms) = Ops(ns) /\ \A i \in Ops(ns) : ms[i].is_assert0 = (ns[i].is_assert0 /\ i \notin Freed(ns, ub))
  BY <1>1, FixedMarks
<1>4. CASE ub = 0
  <2>1. r = [nodes |-> ms, layers |-> <<>>, status |-> "lnodes.at"] BY <1>4 DEF Scheduled
  <2>2. r.status = "lnodes.at" /\ r.nodes = ms BY <2>1
  <2>3. ASSUME NEW i \in Ops(ns) PROVE ~ns[i].is_output /\ ~ns[i].is_assert0
    <3>1. ns[i].depth \in Nat /\ Needs(ns[i]) <= 0 BY <1>1, <1>2, <1>4, Depths
    <3>2. ~ns[i].is_output BY <3>1 DEF Needs
    <3>3. CASE ns[i].is_assert0
      <4>1. ns[i].depth = ns[ns[i].terms[1].op1].depth + 1 /\ ns[ns[i].terms[1].op1].depth \in Nat
        BY <1>1, <3>3, AnAssertion
      <4> QED BY <3>1, <3>2, <3>3, <4>1 DEF Needs
    <3> QED BY <3>2, <3>3
  <2>4. sh = <<>>
    <3>1. L!IsSeq(sh) /\ \A j \in 1..Len(sh) : sh[j] \in Ops(ns) /\ ns[sh[j]].is_output BY <1>1 DEF OutputsAreShown
    <3>2. Len(sh) \in Nat /\ DOMAIN sh = 1..Len(sh) BY <3>1, L!LengthOfSequence
    <3>3. 1..Len(sh) = {} BY <2>3, <3>1
    <3>4. Len(sh) = 0 BY <3>2, <3>3
    <3>5. sh = [k \in 1..Len(sh) |-> sh[k]] BY <3>1, L!LengthOfSequence DEF L!IsSeq
    <3>6. sh = [k \in {} |-> sh[k]] BY <3>3, <3>5
    <3>7. <<>> = [k \in {} |-> sh[k]] OBVIOUS
    <3> QED BY <3>6, <3>7
  <2>5. \A i \in Ops(r.nodes) : ~r.nodes[i].is_assert0 BY <1>3, <2>2, <2>3
  <2> QED BY <2>2, <2>4, <2>5
<1>5. CASE ub # 0
  <2>1. r = [nodes |-> ms, layers |-> a.layers, status |-> a.status] BY <1>5, Zenon DEF Scheduled
  <2>2. ub >= 1 BY <1>2, <1>5
  <2> HIDE DEF ub, ms, need, a, r
  <2>3. r.status = a.status /\ r.layers = a.layers /\ r.nodes = ms BY <2>1
  <2>4. Plan(ms, ub, need) /\ InputsApart(ms) BY <2>2, FixedIsPlan DEF ub, ms, need
  <2>5. Assigned(ms, need, ub, ub - 1, a) BY <2>4, AssignedLayers DEF a
  <2>6. CASE a.status = "done"
    <3>1. Chain(ms, need, ub, a.layers) /\ Len(a.layers) = ub - 1 BY <2>5, <2>6 DEF Assigned
    <3>2. ASSUME NEW c, Built(c, a.layers), Len(a.layers) > 0 PROVE Computes(c, ns, asserted, sh)
      <4>1. ub \in Nat /\ ub >= 2 BY <1>2, <3>1, <3>2
      <4>2. Compiled(ns, asserted, sh, ub, ms, need, a.layers, c)
        BY <3>1, <3>2, <4>1 DEF Compiled, ub, ms, need
      <4> QED BY <4>2, CompiledComputes
    <3>3. Len(a.layers) \in Nat BY <3>1 DEF Chain
    <3> QED BY <2>3, <2>6, <3>2, <3>3 DEF r
  <2>7. CASE a.status # "done"
    <3>1. Fails(ms, need, ub, a.status) BY <2>5, <2>7 DEF Assigned
    <3>2. PICK e \in Nat : \E below :
            LET layer == Renamed(ms, need, ub, e, below)
            IN  Evaluable(ms, need, ub, e, below, layer) /\ LayerCheck(layer) = a.status
      BY <3>1 DEF Fails
    <3>3. PICK below :
            LET layer == Renamed(ms, need, ub, e, below)
            IN  Evaluable(ms, need, ub, e, below, layer) /\ LayerCheck(layer) = a.status
      BY <3>2
    <3> DEFINE layer == Renamed(ms, need, ub, e, below)
    <3>4. Evaluable(ms, need, ub, e, below, layer) /\ LayerCheck(layer) = a.status BY <3>3
    <3>5. TidyNodes(ns, asserted, sh) => LayerCheck(layer) = "done" BY <3>4, TidyLayerPasses DEF ms
    <3> HIDE DEF layer
    <3>6. \A w \in DOMAIN layer : uniq(layer[w].terms) BY <3>4, LayerIsGood
    <3>7. LayerCheck(layer) \in {"renamed_at_d not unique", "wid == lnpi.desired_wire_id", "done"}
      BY <3>6 DEF LayerCheck
    <3>8. a.status \in {"renamed_at_d not unique", "wid == lnpi.desired_wire_id"} /\ ~TidyNodes(ns, asserted, sh)
      BY <2>7, <3>4, <3>5, <3>7
    <3> QED BY <2>3, <3>8 DEF r
  <2> QED BY <2>6, <2>7
<1> QED BY <1>4, <1>5
=============================================================================
