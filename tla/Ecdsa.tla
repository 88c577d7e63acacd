---------------------------------- MODULE Ecdsa --------------------------------
(***************************************************************************)
(* Verification of an ECDSA signature in a circuit: VerifyCircuit and      *)
(* VerifyWitness3 of src/lib/circuits/ecdsa.  Both walk the bits of the    *)
(* exponents (e, r, -s) from the highest one and add g, pk and R to the    *)
(* sum so far; the witness holds the sums and the circuit asserts them.    *)
(*                                                                         *)
(* A proof is an assignment of the wires: the one VerifyWitness3 computes  *)
(* ("cli"), or any other ("any"), which the model chooses as the circuit   *)
(* reads it.  The first assertion that fails ends the run in "rejected".   *)
(***************************************************************************)
EXTENDS EllipticCurve, TLC

VARIABLES
  pc, role,
  C,         \* the curve
  key,       \* pk_x, pk_y
  args,      \* e, r, s as given to compute_witness
  wit,       \* R, pre, and by turns the advice b and the sums int
  i,         \* the turn of either loop
  acc,       \* aX, aY, aZ
  exps,      \* e_bits, r_bits, s_bits so far, as numbers
  e          \* the public input

ecdsaVars == <<role, C, key, args, wit, i, acc, exps, e>>

TopBit(x, t) == (x \div (2 ^ (C.k - 1 - t))) % 2
At1(p) == <<p[1], p[2], 1>>

(* the eight points by index: bit 0 stands for g, bit 1 for pk, bit 2 for R *)
Table(w) ==
  LET p == w.pre
  IN  <<zero, generator(C), At1(key), At1(p.gpk), At1(w.R), At1(p.gr), At1(p.rpk), At1(p.grpk)>>

-----------------------------------------------------------------------------
(* compute_witness *)
Inverse(s) == IF s % C.n = 0 THEN 0 ELSE CHOOSE t \in 1..(C.n - 1) : (s * t) % C.n = 1
NegS == (C.n - (args.s % C.n)) % C.n

Divided(p) ==
  LET z == IF p[3] = 0 THEN 0 ELSE invertf(p[3]) IN <<mulf(p[1], z), mulf(p[2], z)>>

(* R has r for its x and the y of g e/s + pk r/s *)
StartWitness ==
  /\ pc = "compute"
  /\ LET over(x) == (x * Inverse(args.s)) % C.n
         pr == normalize(bos_coster(C, (0 :> [p |-> generator(C), s |-> over(args.e)])
                                       @@ (1 :> [p |-> At1(key), s |-> over(args.r)])))
         R == <<args.r % P, pr[2]>>
         Sum2(p, q) == Divided(addE(C, At1(p), At1(q)))
         gr == Sum2(C.g, R)
     IN  wit' = [R |-> R, b |-> <<>>, int |-> <<>>,
                 pre |-> [gpk |-> Sum2(C.g, key), gr |-> gr,
                          rpk |-> Sum2(key, R), grpk |-> Sum2(gr, key)]]
  /\ i' = 0 /\ acc' = zero /\ pc' = "witness"
  /\ UNCHANGED <<role, C, key, args, exps, e>>

WitnessTurn ==
  /\ pc = "witness"
  /\ i < C.k
  /\ LET b == TopBit(args.e, i) + (2 * TopBit(args.r, i)) + (4 * TopBit(NegS, i))
         sum == addE(C, IF i > 0 THEN doubleE(C, acc) ELSE acc, Table(wit)[b + 1])
     IN  /\ acc' = sum
         /\ wit' = [wit EXCEPT !.b = Append(@, b), !.int = Append(@, sum)]
  /\ i' = i + 1
  /\ UNCHANGED <<pc, role, C, key, args, exps, e>>

EndWitness(next) ==
  /\ pc = "witness"
  /\ i = C.k
  /\ pc' = IF acc[1] = 0 /\ acc[3] = 0 THEN next ELSE "bad signature"
  /\ UNCHANGED ecdsaVars

-----------------------------------------------------------------------------
(* The circuit's formulas, complete for every a *)
(* mutant: the product with a is left out of the doubled slope *)
circuit_doubleENoA(p) ==
  LET f == addf(mulf(C.a, k(2, M(p, p, 1, 3))), mulf(k3b(C), M(p, p, 3, 3)))
      low == subf(M(p, p, 2, 2), f)
      high == addf(M(p, p, 2, 2), f)
      t == addf(mulf(C.a, subf(M(p, p, 1, 1), mulf(C.a, M(p, p, 3, 3)))),
                mulf(k3b(C), k(2, M(p, p, 1, 3))))
  IN  <<subf(mulf(k(2, M(p, p, 1, 2)), low), mulf(k(2, M(p, p, 2, 3)), t)),
        addf(mulf(low, high), mulf(k(3, M(p, p, 1, 1)), t)),
        k(8, mulf(M(p, p, 2, 3), M(p, p, 2, 2)))>>

circuit_doubleE(p) ==
  LET azz == mulf(C.a, M(p, p, 3, 3))
      f == addf(mulf(C.a, k(2, M(p, p, 1, 3))), mulf(k3b(C), M(p, p, 3, 3)))
      low == subf(M(p, p, 2, 2), f)
      high == addf(M(p, p, 2, 2), f)
      t == addf(mulf(C.a, subf(M(p, p, 1, 1), azz)), mulf(k3b(C), k(2, M(p, p, 1, 3))))
  IN  <<subf(mulf(k(2, M(p, p, 1, 2)), low), mulf(k(2, M(p, p, 2, 3)), t)),
        addf(mulf(low, high), mulf(addf(k(3, M(p, p, 1, 1)), azz), t)),
        k(8, mulf(M(p, p, 2, 3), M(p, p, 2, 2)))>>

circuit_addE(p, q) ==
  LET azz == mulf(C.a, M(p, q, 3, 3))
      f == addf(mulf(C.a, S(p, q, 1, 3)), mulf(k3b(C), M(p, q, 3, 3)))
      low == subf(M(p, q, 2, 2), f)
      high == addf(M(p, q, 2, 2), f)
      t == addf(mulf(k3b(C), S(p, q, 1, 3)), mulf(C.a, subf(M(p, q, 1, 1), azz)))
      slope == addf(k(3, M(p, q, 1, 1)), azz)
  IN  <<subf(mulf(S(p, q, 1, 2), low), mulf(S(p, q, 2, 3), t)),
        addf(mulf(low, high), mulf(slope, t)),
        addf(mulf(S(p, q, 2, 3), high), mulf(S(p, q, 1, 2), slope))>>

point_equality(p, xy) == p[1] = mulf(p[3], xy[1]) /\ p[2] = mulf(p[3], xy[2])

(* the entries of the table that the wires may hold *)
Entry(p, computed) ==
  {xy \in (IF role = "cli" THEN {computed} ELSE Elt \X Elt) : point_equality(p, xy)}

CheckTable ==
  /\ pc = "table"
  /\ LET R == At1(wit.R)
         g == generator(C)
         Tables == {t \in
           [gpk : Entry(circuit_addE(g, At1(key)), wit.pre.gpk),
            gr : Entry(circuit_addE(R, g), wit.pre.gr),
            rpk : Entry(circuit_addE(R, At1(key)), wit.pre.rpk),
            grpk : UNION {Entry(circuit_addE(g, At1(rpk)), wit.pre.grpk) :
                            rpk \in Entry(circuit_addE(R, At1(key)), wit.pre.rpk)}] :
             point_equality(circuit_addE(g, At1(t.rpk)), t.grpk)}
     IN  \/ /\ Tables = {}
            /\ pc' = "rejected" /\ UNCHANGED <<wit, i, acc, exps>>
         \/ /\ \E t \in Tables : wit' = [wit EXCEPT !.pre = t]
            /\ i' = 0 /\ acc' = zero /\ exps' = <<0, 0, 0>>
            /\ pc' = "turn"
  /\ UNCHANGED <<role, C, key, args, e>>

(* bit_plucker_point, and the muxers as what they do on these points *)
Point(b) == subf((2 * b) % P, 7 % P)

(* One turn: the advice must be one of the eight points, and the sum the   *)
(* one the wires hold.                                                     *)
Turn ==
  /\ pc = "turn"
  /\ i < C.k
  /\ \E v \in IF role = "cli" THEN {Point(wit.b[i + 1])} ELSE Elt :
       IF \A b \in 0..7 : Point(b) # v
       THEN pc' = "rejected" /\ UNCHANGED <<acc, exps>>
       ELSE LET b == CHOOSE c \in 0..7 : Point(c) = v
                sum == circuit_addE(IF i > 0 THEN circuit_doubleE(acc) ELSE acc, Table(wit)[b + 1])
            IN  /\ acc' = sum
                /\ exps' = [n \in 1..3 |-> (2 * exps[n]) + ((b \div (2 ^ (n - 1))) % 2)]
                /\ pc' = IF role = "cli" /\ i < C.k - 1 /\ wit.int[i + 1] # sum
                         THEN "rejected" ELSE pc
  /\ i' = i + 1
  /\ UNCHANGED <<role, C, key, args, wit, e>>

assert_nonzero(x) == \E inv \in Elt : mulf(x, inv) = 1

(* mutant: r is not compared with the order *)
AssertSignatureAnyR(public) ==
  /\ acc[1] = 0 /\ acc[3] = 0
  /\ exps[1] % P = public
  /\ exps[2] % P = wit.R[1]
  /\ is_on_curve(C, key[1], key[2]) /\ is_on_curve(C, wit.R[1], wit.R[2])
  /\ assert_nonzero(wit.R[1]) /\ assert_nonzero(exps[3] % P) /\ assert_nonzero(key[1])
  /\ exps[3] < C.n

(* The assertions after the loop.  The bits of an exponent are compared as *)
(* a field element, and those of r and -s as a number with the order.      *)
AssertSignature(public) ==
  /\ acc[1] = 0 /\ acc[3] = 0
  /\ exps[1] % P = public
  /\ exps[2] % P = wit.R[1]
  /\ is_on_curve(C, key[1], key[2]) /\ is_on_curve(C, wit.R[1], wit.R[2])
  /\ assert_nonzero(wit.R[1]) /\ assert_nonzero(exps[3] % P) /\ assert_nonzero(key[1])
  /\ exps[2] < C.n /\ exps[3] < C.n

EndTurns(next) ==
  /\ pc = "turn"
  /\ i = C.k
  /\ \E public \in IF role = "cli" THEN {e} ELSE Elt :
       IF AssertSignature(public) THEN e' = public /\ pc' = next
       ELSE pc' = "rejected" /\ UNCHANGED e
  /\ UNCHANGED <<role, C, key, args, wit, i, acc, exps>>
================================================================================
