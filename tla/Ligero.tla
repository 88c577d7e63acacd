-------------------------------- MODULE Ligero --------------------------------
(***************************************************************************)
(* The Ligero argument for linear constraints A w = b and quadratic        *)
(* constraints w[x] * w[y] = w[z] over a committed witness:                *)
(* LigeroProver, LigeroVerifier, LigeroCommon and LigeroTranscript of      *)
(* src/lib/ligero.                                                         *)
(*                                                                         *)
(* The prover lays the witness out in a tableau whose rows are codewords   *)
(* [r random | w witnesses | redundancy], commits to the columns past      *)
(* dblock, answers three challenges with combinations of the rows and      *)
(* opens nreq columns.  The verifier replays the challenges and compares.  *)
(* A challenge is a draw from a transcript: the verifier gets the prover's *)
(* if its transcript began with the same writes and draws, and any other   *)
(* otherwise.                                                              *)
(***************************************************************************)
EXTENDS PrimeField, LigeroLayout, Sequences, TLC

CONSTANTS
  block_enc, rateinv, nreq,
  Statements,       \* [nw, nl, llterm, lqc, wit]: constraints, a witness
  Seeds,            \* of the prover's random engine
  Noise(_, _, _),   \* its element for a seed, a row and a column
  Vectors(_),       \* the challenges of n elements that are drawn
  Openings          \* the column lists that are drawn

VARIABLES
  pc,
  st, seed,      \* the statement, the randomness
  tableau,       \* rows of block_enc elements
  proof,         \* LigeroCommitment and LigeroProof
  tp,            \* the prover's transcript: <<what, value>>
  want,          \* the b of the verifier
  altered,       \* what the channel changed
  tv,            \* the verifier's transcript
  why            \* the verifier's answer, or the message of a check

vars == <<pc, st, seed, tableau, proof, tp, want, altered, tv, why>>

-----------------------------------------------------------------------------
(* Dimensions *)
args == [nw |-> st.nw, nq |-> Len(st.lqc), rateinv |-> rateinv, nreq |-> nreq]
w == W(args, block_enc)
r == nreq
block == Block(args, block_enc)
dblock == DBlock(args, block_enc)
block_ext == block_enc - dblock
nwrow == NwRow(args, block_enc)
nqtriples == NqTriples(args, block_enc)
nwqrow == NwqRow(args, block_enc)
nrow == NRow(args, block_enc)
ildt == 0
idot == 1
iquad == 2
iw == 3
iqx == iw + nwrow
iqy == iqx + nqtriples
iqz == iqy + nqtriples

-----------------------------------------------------------------------------
Basis == [n \in 1..block_enc |->
           [i \in 0..(n - 1) |-> [x \in 0..(block_enc - 1) |-> Lagrange(n, i, x)]]]

(* A row of which the first n elements are given *)
Interpolate(n, y) ==
  [x \in 0..(block_enc - 1) |->
     IF x < n THEN y[x] ELSE Sum(n, LAMBDA i : mulf(y[i], Basis[n][i][x]))]

Random(i, n) == [j \in 0..(n - 1) |-> Noise(seed, i, j)]

LowDegreeRow == Interpolate(block, Random(ildt, block))

(* The witness part of the dot-product blinding row sums to zero. *)
DotRow ==
  LET raw == Random(idot, dblock)
      sum == Sum(w, LAMBDA j : raw[r + j])
  IN  Interpolate(dblock, [raw EXCEPT ![r] = subf(@, sum)])

(* The witness part of the quadratic blinding row is zero. *)
QuadRow ==
  Interpolate(dblock,
    [j \in 0..(dblock - 1) |-> IF j \in r..(block - 1) THEN 0 ELSE Noise(seed, iquad, j)])

(* Random elements, then elem(k) for the k-th position of the group of     *)
(* rows that starts at i0; positions from n on are zero                    *)
Row(i0, i, n, elem(_)) ==
  Interpolate(block,
    [j \in 0..(block - 1) |->
       IF j < r THEN Noise(seed, i0 + i, j)
       ELSE LET k == (i * w) + (j - r) IN IF k < n THEN elem(k) ELSE 0])

WitnessRow(i) == Row(iw, i, st.nw, LAMBDA k : st.wit[k])

(* the operands of the k-th quadratic constraint *)
Operands == <<"x", "y", "z">>
operand(k, t) == st.lqc[k + 1][Operands[t + 1]]

QuadraticRow(t, i) ==
  Row(iqx + (t * nqtriples), i, Len(st.lqc), LAMBDA k : st.wit[operand(k, t)])

Satisfied ==
  \A k \in 1..Len(st.lqc) :
    st.wit[st.lqc[k].z] = mulf(st.wit[st.lqc[k].x], st.wit[st.lqc[k].y])

Panic(message) == pc' = "panic" /\ why' = message

-----------------------------------------------------------------------------
(* Prover *)
Init ==
  /\ pc = "blinding"
  /\ st \in Statements /\ seed \in Seeds
  /\ tableau = <<>> /\ proof = <<>> /\ tp = <<>> /\ tv = <<>>
  /\ want = <<>> /\ altered = <<"none", 0>> /\ why = "none"

verifierVars == <<want, altered, tv>>

LayoutBlindingRows ==
  /\ pc = "blinding"
  /\ tableau' = (ildt :> LowDegreeRow @@ idot :> DotRow @@ iquad :> QuadRow)
  /\ pc' = "witness"
  /\ UNCHANGED <<st, seed, proof, tp, why, verifierVars>>

LayoutWitnessRows ==
  /\ pc = "witness"
  /\ tableau' = tableau @@ [i \in iw..(iqx - 1) |-> WitnessRow(i - iw)]
  /\ pc' = "quadratic"
  /\ UNCHANGED <<st, seed, proof, tp, why, verifierVars>>

LayoutQuadraticRows ==
  /\ pc = "quadratic"
  /\ IF Satisfied
     THEN /\ tableau' = tableau @@
               [i \in iqx..(nrow - 1) |->
                  QuadraticRow((i - iqx) \div nqtriples, (i - iqx) % nqtriples)]
          /\ pc' = "commit"
          /\ UNCHANGED why
     ELSE Panic("invalid quadratic constraints") /\ UNCHANGED tableau
  /\ UNCHANGED <<st, seed, proof, tp, verifierVars>>

Column(j) == [i \in 0..(nrow - 1) |-> tableau[i][dblock + j]]

(* A leaf is the hash of a nonce of its own and a column. *)
Leaf(nonce, column) == <<nonce, column>>

Commit ==
  /\ pc = "commit"
  /\ proof' = [root |-> [j \in 0..(block_ext - 1) |-> Leaf(j, Column(j))]]
  /\ tp' = <<<<"root", proof'.root>>>>
  /\ pc' = "theorem"
  /\ UNCHANGED <<st, seed, tableau, why, verifierVars>>

(* hash_of_llterm *)
Theorem == <<"theorem", st.llterm>>

WriteTheorem ==
  /\ pc = "theorem"
  /\ tp' = Append(tp, Theorem)
  /\ pc' = "ldt"
  /\ UNCHANGED <<st, seed, tableau, proof, why, verifierVars>>

LowDegreeProof(u) ==
  [j \in 0..(block - 1) |->
     addf(tableau[ildt][j],
          Sum(nwqrow, LAMBDA i : mulf(u[i], tableau[iw + i][j])))]

ProveLowDegree ==
  /\ pc = "ldt"
  /\ \E u \in Vectors(nwqrow) :
       /\ proof' = proof @@ [y_ldt |-> LowDegreeProof(u)]
       /\ tp' = Append(tp, <<"u_ldt", u>>)
  /\ pc' = "dot"
  /\ UNCHANGED <<st, seed, tableau, why, verifierVars>>

(* The coefficients of the witness and quadratic rows in the combination   *)
(* of all constraints: a linear term ...                                   *)
Linear(alphal, k) ==
  Sum(Len(st.llterm), LAMBDA l :
    LET term == st.llterm[l + 1]
    IN  IF term.w = k THEN mulf(term.k, alphal[term.c]) ELSE 0)

(* ... the copies of witnesses in the quadratic rows ...                   *)
Copied(alphaq, k) ==
  LET q == k - (nwrow * w)
      span == nqtriples * w
  IN  IF k >= nwrow * w /\ q % span < Len(st.lqc)
      THEN alphaq[(3 * (q % span)) + (q \div span)] ELSE 0

(* mutant: the products are not routed *)
RoutedFactors(alphaq, k) ==
  Sum(3 * Len(st.lqc), LAMBDA t :
    IF t % 3 < 2 /\ operand(t \div 3, t % 3) = k THEN alphaq[t] ELSE 0)

(* ... and, subtracted, the witnesses that were copied.                    *)
Routed(alphaq, k) ==
  Sum(3 * Len(st.lqc), LAMBDA t :
    IF operand(t \div 3, t % 3) = k THEN alphaq[t] ELSE 0)

InnerProductVector(alphal, alphaq) ==
  [k \in 0..((nwqrow * w) - 1) |->
     subf(addf(Linear(alphal, k), Copied(alphaq, k)), Routed(alphaq, k))]

(* Row i of A, with zeros for the random elements *)
Aext(A, i) ==
  Interpolate(block,
    [j \in 0..(block - 1) |-> IF j < r THEN 0 ELSE A[(i * w) + (j - r)]])

DotProof(A) ==
  LET ext == [i \in 0..(nwqrow - 1) |-> Aext(A, i)]
  IN  [j \in 0..(dblock - 1) |->
         addf(tableau[idot][j],
              Sum(nwqrow, LAMBDA i : mulf(ext[i][j], tableau[iw + i][j])))]

ProveDot ==
  /\ pc = "dot"
  /\ \E alphal \in Vectors(st.nl), alphaq \in Vectors(3 * Len(st.lqc)) :
       /\ proof' = proof @@ [y_dot |-> DotProof(InnerProductVector(alphal, alphaq))]
       /\ tp' = tp \o <<<<"alphal", alphal>>, <<"alphaq", alphaq>>>>
  /\ pc' = "quad"
  /\ UNCHANGED <<st, seed, tableau, why, verifierVars>>

QuadraticProof(u) ==
  [j \in 0..(dblock - 1) |->
     addf(tableau[iquad][j],
          Sum(nqtriples, LAMBDA i :
            mulf(u[i], subf(tableau[iqz + i][j],
                            mulf(tableau[iqx + i][j], tableau[iqy + i][j])))))]

ProveQuadratic ==
  /\ pc = "quad"
  /\ \E u \in Vectors(nqtriples) :
       LET y == QuadraticProof(u) IN
       IF \A j \in r..(block - 1) : y[j] = 0
       THEN /\ proof' = proof @@
                 [y_quad_0 |-> [j \in 0..(r - 1) |-> y[j]],
                  y_quad_2 |-> [j \in 0..(dblock - block - 1) |-> y[block + j]]]
            /\ tp' = Append(tp, <<"u_quad", u>>)
            /\ pc' = "respond"
            /\ UNCHANGED why
       ELSE Panic("W part is nonzero") /\ UNCHANGED <<proof, tp>>
  /\ UNCHANGED <<st, seed, tableau, verifierVars>>

Responses(p) ==
  <<<<"y_ldt", p.y_ldt>>, <<"y_dot", p.y_dot>>,
    <<"y_quad_0", p.y_quad_0>>, <<"y_quad_2", p.y_quad_2>>>>

(* The answers are written, the columns drawn and opened. *)
Open ==
  /\ pc = "respond"
  /\ \E idx \in Openings :
       /\ proof' = proof @@
            [req |-> [i \in 0..(nrow - 1) |->
                        [k \in 0..(nreq - 1) |-> tableau[i][dblock + idx[k]]]],
             nonce |-> idx]
       /\ tp' = tp \o Responses(proof) \o <<<<"idx", idx>>>>
  /\ tableau' = <<>>
  /\ pc' = "transit"
  /\ UNCHANGED <<st, seed, why, verifierVars>>

-----------------------------------------------------------------------------
(* The verifier's b is A * wit, or differs from it in one constraint.  The *)
(* channel changes one element of the proof, the commitment, or nothing.   *)
Product ==
  [c \in 0..(st.nl - 1) |->
     Sum(Len(st.llterm), LAMBDA l :
       LET term == st.llterm[l + 1]
       IN  IF term.c = c THEN mulf(term.k, st.wit[term.w]) ELSE 0)]

Wants == {Product} \cup {[Product EXCEPT ![c] = addf(@, 1)] : c \in 0..(st.nl - 1)}

Alterations ==
  {<<"none", 0>>, <<"root", 0>>}
    \cup {<<y, j>> : y \in {"y_ldt"}, j \in 0..(block - 1)}
    \cup {<<y, j>> : y \in {"y_dot"}, j \in 0..(dblock - 1)}
    \cup {<<y, j>> : y \in {"y_quad_0"}, j \in 0..(r - 1)}
    \cup {<<y, j>> : y \in {"y_quad_2"}, j \in 0..(dblock - block - 1)}
    \cup {<<y, i>> : y \in {"req"}, i \in 0..(nrow - 1)}

Alter(a) ==
  IF a[1] = "none" THEN proof
  ELSE IF a[1] = "root"
  THEN [proof EXCEPT !.root = [j \in DOMAIN @ |-> Leaf(block_ext, @[j][2])]]
  ELSE IF a[1] = "req" THEN [proof EXCEPT !.req[a[2]][0] = addf(@, 1)]
  ELSE [proof EXCEPT ![a[1]][a[2]] = addf(@, 1)]

Transit ==
  /\ pc = "transit"
  /\ \E a \in Alterations, b \in Wants :
       /\ a[1] = "none" \/ b = Product
       /\ altered' = a /\ proof' = Alter(a) /\ want' = b
  /\ pc' = "receive"
  /\ UNCHANGED <<st, seed, tableau, tp, tv, why>>

-----------------------------------------------------------------------------
(* Verifier *)
proverVars == <<st, seed, tableau, proof, tp, want, altered>>

(* What the verifier may draw: the prover's challenge if its transcript    *)
(* says the same so far                                                    *)
Draw(choices) ==
  IF tv = SubSeq(tp, 1, Len(tv)) THEN {tp[Len(tv) + 1][2]} ELSE choices

Drawn(what) == LET i == CHOOSE i \in 1..Len(tv) : tv[i][1] = what IN tv[i][2]

ReceiveCommitment ==
  /\ pc = "receive"
  /\ tv' = <<<<"root", proof.root>>>>
  /\ pc' = "replay theorem"
  /\ UNCHANGED <<proverVars, why>>

ReplayTheorem ==
  /\ pc = "replay theorem"
  /\ tv' = Append(tv, Theorem)
  /\ pc' = "replay ldt"
  /\ UNCHANGED <<proverVars, why>>

Replay(from, to, what, choices) ==
  /\ pc = from
  /\ \E c \in Draw(choices) : tv' = Append(tv, <<what, c>>)
  /\ pc' = to
  /\ UNCHANGED <<proverVars, why>>

ReplayLowDegree == Replay("replay ldt", "replay alphal", "u_ldt", Vectors(nwqrow))
ReplayLinear == Replay("replay alphal", "replay alphaq", "alphal", Vectors(st.nl))
ReplayRouting == Replay("replay alphaq", "replay quad", "alphaq", Vectors(3 * Len(st.lqc)))
ReplayQuadratic == Replay("replay quad", "responses", "u_quad", Vectors(nqtriples))

ReplayResponses ==
  /\ pc = "responses"
  /\ tv' = tv \o Responses(proof)
  /\ pc' = "replay idx"
  /\ UNCHANGED <<proverVars, why>>

ReplayOpening == Replay("replay idx", "check merkle", "idx", Openings)

(* One check: on to the next one, or the answer *)
Check(from, to, holds, message) ==
  /\ pc = from
  /\ IF holds
     THEN /\ pc' = to
          /\ why' = IF to = "done" THEN "ok" ELSE why
     ELSE pc' = "done" /\ why' = message
  /\ UNCHANGED <<proverVars, tv>>

(* The leaves are recomputed from the nonces and columns received; module  *)
(* MerkleTree shows that the tree accepts the committed leaves only.       *)
MerkleCheck ==
  LET idx == Drawn("idx") IN
  Check("check merkle", "check ldt",
        \A k \in 0..(nreq - 1) :
          Leaf(proof.nonce[k], [i \in 0..(nrow - 1) |-> proof.req[i][k]])
            = proof.root[idx[k]],
        "merkle_check failed")

(* Blas::gather at the opened columns *)
Gather(row) ==
  LET idx == Drawn("idx") IN [k \in 0..(nreq - 1) |-> row[dblock + idx[k]]]

(* interpolate_req_columns *)
AtOpened(n, y) == Gather(Interpolate(n, y))

LowDegreeCheck ==
  LET u == Drawn("u_ldt")
      yp == AtOpened(block, proof.y_ldt)
  IN  Check("check ldt", "check dot",
            \A k \in 0..(nreq - 1) :
              yp[k] = addf(proof.req[ildt][k],
                           Sum(nwqrow, LAMBDA i : mulf(u[i], proof.req[iw + i][k]))),
            "low_degree_check failed")

DotCheck ==
  LET A == InnerProductVector(Drawn("alphal"), Drawn("alphaq"))
      Areq == [i \in 0..(nwqrow - 1) |-> Gather(Aext(A, i))]
      yp == AtOpened(dblock, proof.y_dot)
  IN  Check("check dot", "check product",
            \A k \in 0..(nreq - 1) :
              yp[k] = addf(proof.req[idot][k],
                           Sum(nwqrow, LAMBDA i : mulf(Areq[i][k], proof.req[iw + i][k]))),
            "dot_check failed")

DotProductCheck ==
  Check("check product", "check quad",
        Sum(st.nl, LAMBDA c : mulf(want[c], Drawn("alphal")[c]))
          = Sum(w, LAMBDA j : proof.y_dot[r + j]),
        "wrong dot product")

QuadraticCheck ==
  LET u == Drawn("u_quad")
      y == [j \in 0..(dblock - 1) |->
              IF j < r THEN proof.y_quad_0[j]
              ELSE IF j < block THEN 0 ELSE proof.y_quad_2[j - block]]
      yp == AtOpened(dblock, y)
  IN  Check("check quad", "done",
            \A k \in 0..(nreq - 1) :
              yp[k] = addf(proof.req[iquad][k],
                           Sum(nqtriples, LAMBDA i :
                             mulf(u[i],
                                  subf(proof.req[iqz + i][k],
                                       mulf(proof.req[iqx + i][k],
                                            proof.req[iqy + i][k]))))),
            "quadratic_check failed")

-----------------------------------------------------------------------------
Next ==
  \/ LayoutBlindingRows \/ LayoutWitnessRows \/ LayoutQuadraticRows
  \/ Commit \/ WriteTheorem \/ ProveLowDegree \/ ProveDot \/ ProveQuadratic \/ Open
  \/ Transit
  \/ ReceiveCommitment \/ ReplayTheorem
  \/ ReplayLowDegree \/ ReplayLinear \/ ReplayRouting \/ ReplayQuadratic
  \/ ReplayResponses \/ ReplayOpening
  \/ MerkleCheck \/ LowDegreeCheck \/ DotCheck \/ DotProductCheck
  \/ QuadraticCheck

Spec == Init /\ [][Next]_vars

-----------------------------------------------------------------------------
(* The proof of an unaltered run is accepted if and only if the linear     *)
(* constraints, combined with the challenges, hold for the witness; and if *)
(* they do not, the dot product is what fails.  A true statement is thus   *)
(* always accepted.                                                        *)
LinearDecides ==
  pc = "done" /\ altered[1] = "none" =>
    LET alphal == Drawn("alphal") IN
    why = IF Sum(st.nl, LAMBDA c : mulf(alphal[c], want[c]))
               = Sum(st.nl, LAMBDA c : mulf(alphal[c], Product[c]))
          THEN "ok" ELSE "wrong dot product"

(* A proof with one element of an answer or of an opened column changed,   *)
(* or another commitment, is not accepted, whatever the challenges.        *)
AlteredIsRejected == pc = "done" /\ altered[1] # "none" => why # "ok"

(* The prover panics if and only if a quadratic constraint does not hold   *)
(* for the witness, and then in the layout: the check of the zero part of  *)
(* y_quad never fires.                                                     *)
PanicsOnBadWitness ==
  /\ pc = "panic" => why = "invalid quadratic constraints"
  /\ pc \notin {"blinding", "witness", "quadratic", "panic"} => Satisfied

(* What LigeroProver::prove and LigeroVerifier::verify decide between them: *)
(* a run that nobody altered is accepted just when the witness satisfies    *)
(* the statement, and no altered one is.                                    *)
AcceptedIffLinear == LinearDecides /\ AlteredIsRejected /\ PanicsOnBadWitness
==============================================================================
