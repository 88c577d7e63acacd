------------------------------- MODULE MCAlgebra ------------------------------
(* Two machines that do not interact, in one run: the life of a quadratic  *)
(* form (QuadBinding) and calls of the algebra kernels (Algebra).          *)
(*                                                                         *)
(* Words of two to four bits: the generic step on primes near the ends of  *)
(* their limbs, with limbs never written all zeros or all ones, primes of  *)
(* the special forms, and fields of a single word.                         *)
EXTENDS Algebra


MCField(kind, w, k, m, half, z, optimized, garbage) ==
  [kind |-> kind, w |-> w, B |-> 2 ^ w, k |-> k, m |-> m, half |-> half, z |-> z,
   optimized_mul |-> optimized,
   garbage |-> IF garbage THEN (2 ^ (w * ((2 * k) + 1))) - 1 ELSE 0,
   kMaxStringLen |-> 3, negm |-> 0, exact_bits |-> 0, raw_half |-> 0, mprime |-> 0,
   rsquare |-> 0, zero |-> 0, one |-> 0, two |-> 0, mone |-> 0, inverse_of_two |-> 0,
   points |-> <<>>, inv_small |-> <<>>]

Primes(lo, hi) == {p \in lo..hi : \A d \in 2..(p - 1) : p % d # 0}

MCPrimeFields ==
  {MCField("generic", 3, 2, p, 0, 0, o, g) : p \in {7, 37, 59, 61}, o \in BOOLEAN, g \in BOOLEAN}
  \cup {MCField("generic", 4, 1, p, 0, 0, FALSE, TRUE) : p \in {7, 11, 13}}
  \cup {MCField("generic", 2, 3, p, 0, 0, FALSE, TRUE) : p \in {11, 47, 61}}
  \cup {MCField("p256", 2, 4, 199, 1, 0, o, TRUE) : o \in BOOLEAN}
  \cup {MCField("p128", 4, 2, 193, 0, 2, TRUE, TRUE), MCField("p256k1", 3, 2, 61, 0, 3, TRUE, TRUE),
        MCField("p384", 2, 6, 4073, 1, 0, FALSE, TRUE), MCField("p521", 3, 2, 31, 0, 2, FALSE, TRUE)}

MCResidues(m) ==
  IF m < 16 THEN 0..(m - 1)
  ELSE {0, 1, 2, m \div 2, (m \div 2) + 1, m - 2, m - 1} \cup {((i * i) * 37) % m : i \in 1..6}

MCStrings ==
  {<<>>} \cup [1..1 -> {0, 7, 15}] \cup [1..2 -> {0, 3, 9, -1}] \cup [1..3 -> {0, 3, 9, 15}]
  \cup {<<0, 0, 0, 1>>}

MCPolys ==
  {{}, {0}, {1}, {0, 1}, 0..7, {8}, {0, 8}, {15}, 0..15, {2 * i : i \in 0..7},
   {(2 * i) + 1 : i \in 0..7}, {2, 4, 5, 9, 12}, {1, 3, 4, 8, 10, 11, 14}}

MCExtensions == {<<n, m>> \in {1, 2, 3, 4, 5, 8, 9} \X {1, 2, 3, 5, 8, 9, 16} : n <= m}
MCCosetExtensions == {<<n, m>> \in (1..9) \X {2, 5, 9, 13, 16} : n <= m}

-----------------------------------------------------------------------------
(* Seven terms over four input wires and two output wires, three of them on  *)
(* the same hands and one an assertion; every order of up to four.           *)
Pool ==
  {[g |-> 0, h |-> <<0, 3>>, v |-> 2], [g |-> 0, h |-> <<3, 0>>, v |-> 5],
   [g |-> 1, h |-> <<3, 0>>, v |-> 1], [g |-> 1, h |-> <<1, 2>>, v |-> 0],
   [g |-> 0, h |-> <<2, 2>>, v |-> 3], [g |-> 1, h |-> <<3, 2>>, v |-> 4],
   [g |-> 0, h |-> <<1, 1>>, v |-> 5]}

Distinct(s) == \A j, k \in DOMAIN s : j # k => s[j] # s[k]

MCForms == {s \in UNION {[1..n -> Pool] : n \in 1..4} : Distinct(s)}

MCDraw(s, k) == ((s * k * k) + (3 * k) + s) % 7

VARIABLES pc, raw, ec, q, seed, hq, step

form == <<pc, raw, ec, q, seed, hq, step>>

Q == INSTANCE QuadBinding WITH
       P <- 7, Width <- 3, Corners <- 8, logv <- 1, logw <- 2,
       Raws <- MCForms, Seeds <- {0, 1, 2, 4, 5}, Draw <- MCDraw

FormOff ==
  pc = "off" /\ raw = <<>> /\ ec = <<>> /\ q = <<>> /\ seed = 0 /\ hq = <<>> /\ step = 0

MCInit == (Q!Init /\ Off) \/ (FormOff /\ Init)
MCNext == (Q!Next /\ UNCHANGED vars) \/ (Next /\ UNCHANGED form)
MCSpec == MCInit /\ [][MCNext]_<<form, vars>>

(* The canonical form of the terms, and the value of the form at every     *)
(* round: see QuadBinding                                                  *)
FormsAreFunctions == Q!CanonicalForm /\ Q!BindingIsEvaluation
================================================================================
