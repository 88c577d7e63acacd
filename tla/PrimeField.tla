----------------------------- MODULE PrimeField -----------------------------
(***************************************************************************)
(* Arithmetic in a prime field as its users see it: class FpGeneric of     *)
(* src/lib/algebra/fp_generic.h without the Montgomery representation, and *)
(* interpolation over the evaluation points 0, 1, 2, ... (poly_evaluation_ *)
(* point(i) = of_scalar(i)).                                               *)
(***************************************************************************)
EXTENDS Naturals

CONSTANT P    \* the modulus

ASSUME ModulusAssumption == P \in Nat /\ P > 1

Elt == 0..(P - 1)

addf(a, b) == (a + b) % P
subf(a, b) == (a + (P - b)) % P

mulf(a, b) == (a * b) % P
invertf(a) == CHOOSE b \in Elt : mulf(a, b) = 1 % P

(* f(0) + ... + f(n - 1): the loops of Blas *)
Sum(n, f(_)) ==
  LET s[k \in 0..n] == IF k = 0 THEN 0 ELSE addf(s[k - 1], f(k - 1)) IN s[n]

(* The i-th Lagrange polynomial through 0, ..., n - 1 at x *)
Lagrange(n, i, x) ==
  LET l[k \in 0..n] ==
        IF k = 0 THEN 1
        ELSE IF k - 1 = i THEN l[k - 1]
        ELSE mulf(l[k - 1],
                  mulf(subf(x, k - 1), invertf(subf(i, k - 1))))
  IN  l[n]
=============================================================================
