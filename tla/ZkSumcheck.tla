------------------------------- MODULE ZkSumcheck ------------------------------
(***************************************************************************)
(* The padded sumcheck and the constraints it turns into: ZkProver,        *)
(* ZkVerifier and ZkCommon of src/lib/zk over ProverLayers and             *)
(* VerifierLayers of src/lib/sumcheck, for circuits of one copy.           *)
(*                                                                         *)
(* The prover commits to its private inputs and to a random pad, evaluates *)
(* the circuit and sends every sumcheck element minus its pad.  Prover and *)
(* verifier then run the same code over the padded proof and collect one   *)
(* linear constraint a w = b per layer, and one for the inputs, on what    *)
(* was committed; module Ligero takes these from here.  Beside the padded  *)
(* proof the model carries what the sumcheck verifier without padding      *)
(* makes of the proof when the pads are added back.                        *)
(*                                                                         *)
(* Layers count from 1, the output layer, to Len(l), the input layer; hand *)
(* 0 is 1 here.  A polynomial of a round is <<p(0), p(2)>>.  Challenges    *)
(* are the prover's as long as the two transcripts were written alike, and *)
(* others from then on (modules FiatShamir and ZkProtocol).                *)
(***************************************************************************)
EXTENDS Quad

CONSTANTS
  Instances,        \* [cir, com, inp]: circuit, inputs committed and proved
  Seeds,            \* [pad, ch, fresh]
  Noise(_, _),      \* the element of a seed and a number
  Deltas            \* what the channel adds to an element

VARIABLES
  pc, role,
  st, seed, number,            \* the instance; the elements drawn so far
  witness, pads, wires,        \* ZkProver::witness_, pad_ and inputs
  proof, bound_quad, cube,     \* Proof, ProofAux; sums the rounds start from
  ly, step, cl, ch, wh, hq,    \* the loops, claims, challenges and arrays
  got, pub, same, changed,     \* the proof received; are the transcripts alike
  expr, pi, rows, prows,       \* ConstraintBuilder; constraints of both sides
  claim, verdict               \* the verifier without padding

proverVars == <<witness, pads, wires, proof, bound_quad, cube, wh, hq>>
channelVars == <<role, got, pub, same, changed, prows>>
constraintVars == <<expr, pi, rows, claim, verdict>>
vars == <<pc, st, seed, number, ly, step, cl, ch, proverVars, channelVars, constraintVars>>

cir == st.cir
nl == Len(cir.l)
layer == cir.l[ly]
logw == layer.logw
npriv == cir.ninputs - cir.npub_in
hand == (step % 2) + 1
round == step \div 2
Challenge(s, n) == Noise(IF s THEN seed.ch ELSE seed.fresh, n)
Drawn(k) == Challenge(same, number + k)
NoPoint == [k \in {} |-> 0]

-----------------------------------------------------------------------------
(* Commitment *)
Init ==
  /\ st \in Instances /\ seed \in Seeds
  /\ witness = [i \in 1..npriv |-> st.com[cir.npub_in + i - 1]]
  /\ pads = <<>> /\ wires = [k \in {nl} |-> st.inp]
  /\ proof = <<>> /\ bound_quad = <<>> /\ cube = <<>>
  /\ role = "prover" /\ ly = 1 /\ step = 0 /\ number = 0
  /\ cl = [claim |-> <<0, 0>>, logv |-> 0, g |-> <<NoPoint, NoPoint>>]
  /\ ch = [alpha |-> 0, beta |-> 0, hb |-> <<NoPoint, NoPoint>>]
  /\ wh = <<NoPoint, NoPoint>> /\ hq = <<>>
  /\ got = <<>> /\ pub = [i \in 0..(cir.npub_in - 1) |-> st.inp[i]]
  /\ same = TRUE /\ changed = <<"none">>
  /\ expr = [known |-> 0, symbolic |-> NoPoint] /\ pi = 0
  /\ rows = <<>> /\ prows = <<>> /\ claim = 0 /\ verdict = "ok"
  /\ pc = "pad"

(* mutant: both hands of a round use the same pad *)
FillPadOnce ==
  /\ pc = "pad"
  /\ LET rng == [n \in 1..((4 * logw) + 2) |-> Noise(seed.pad, number + n)]
         wc == <<rng[(4 * logw) + 1], rng[(4 * logw) + 2]>>
     IN  /\ pads' = Append(pads,
              [hp |-> [h \in 1..2 |-> [j \in 0..(logw - 1) |->
                         <<rng[(4 * j) + 1], rng[(4 * j) + 2]>>]],
               wc |-> wc])
         /\ witness' = witness \o rng \o <<mulf(wc[1], wc[2])>>
         /\ number' = number + Len(rng)
  /\ IF ly < nl THEN ly' = ly + 1 /\ UNCHANGED pc ELSE pc' = "eval" /\ UNCHANGED ly
  /\ UNCHANGED <<st, seed, step, cl, ch, wires, proof, bound_quad, cube, wh, hq,
                 channelVars, constraintVars>>

(* Random elements for round, hand and point in this order, two for the    *)
(* claims, and the product of these, each appended to the witness          *)
FillPad ==
  /\ pc = "pad"
  /\ LET rng == [n \in 1..((4 * logw) + 2) |-> Noise(seed.pad, number + n)]
         wc == <<rng[(4 * logw) + 1], rng[(4 * logw) + 2]>>
     IN  /\ pads' = Append(pads,
              [hp |-> [h \in 1..2 |-> [j \in 0..(logw - 1) |->
                         <<rng[(4 * j) + (2 * h) - 1], rng[(4 * j) + (2 * h)]>>]],
               wc |-> wc])
         /\ witness' = witness \o rng \o <<mulf(wc[1], wc[2])>>
         /\ number' = number + Len(rng)
  /\ IF ly < nl THEN ly' = ly + 1 /\ UNCHANGED pc ELSE pc' = "eval" /\ UNCHANGED ly
  /\ UNCHANGED <<st, seed, step, cl, ch, wires, proof, bound_quad, cube, wh, hq,
                 channelVars, constraintVars>>

-----------------------------------------------------------------------------
(* Evaluation *)
(* eval_quad of one layer, from the input layer down to the output, which  *)
(* must be zero                                                            *)
Eval ==
  /\ pc = "eval"
  /\ LET W == wires[ly]
         nv == IF ly > 1 THEN cir.l[ly - 1].nw ELSE cir.nv
         V == [g \in 0..(nv - 1) |-> GateValue(layer.quad, W, g)]
     IN  IF ~AssertionsHold(layer.quad, W)
         THEN pc' = "failed" /\ UNCHANGED <<ly, wires>>
         ELSE IF ly > 1
         THEN wires' = ((ly - 1) :> V) @@ wires /\ ly' = ly - 1 /\ UNCHANGED pc
         ELSE /\ pc' = IF \A g \in DOMAIN V : V[g] = 0 THEN "circuit" ELSE "failed"
              /\ UNCHANGED <<ly, wires>>
  /\ UNCHANGED <<st, seed, number, step, cl, ch, witness, pads, proof, bound_quad, cube,
                 wh, hq, channelVars, constraintVars>>

-----------------------------------------------------------------------------
(* Proof *)
(* the claims at the start: zero, at one random point for both hands       *)
FirstClaims ==
  LET G == [k \in 0..(cir.logv - 1) |-> Challenge(same, k)]
  IN  [claim |-> <<0, 0>>, logv |-> cir.logv, g |-> <<G, G>>]

BeginCircuit ==
  /\ pc = "circuit"
  /\ cl' = FirstClaims /\ number' = cir.logv
  /\ ly' = 1 /\ pc' = "layer"
  /\ UNCHANGED <<st, seed, step, ch, proverVars, channelVars, constraintVars>>

LayerChallenge == [alpha |-> Drawn(0), beta |-> Drawn(1), hb |-> <<NoPoint, NoPoint>>]

BeginLayer ==
  /\ pc = "layer"
  /\ ch' = LayerChallenge /\ number' = number + 2
  /\ hq' = bind_g(layer.quad, cl.logv, cl.g[1], cl.g[2], ch'.alpha, ch'.beta)
  /\ wh' = <<wires[ly], wires[ly]>>
  /\ proof' = Append(proof, [hp |-> <<NoPoint, NoPoint>>, wc |-> <<0, 0>>])
  /\ cube' = Append(cube, <<>>)
  /\ step' = 0 /\ pc' = "round"
  /\ UNCHANGED <<st, seed, ly, cl, witness, pads, wires, bound_quad,
                 channelVars, constraintVars>>

at_corners(D, n, k) == IF k < n THEN D[k] ELSE 0

(* the third value of the line through two corners *)
Extended(D, n, k) ==
  LET f0 == at_corners(D, n, k)
      f1 == at_corners(D, n, k + 1)
  IN  addf(f1, subf(f1, f0))

size_h(h) == ceilshr(layer.nw, IF h < hand THEN round + 1 ELSE round)

(* QW[l] = SUM_{r} Q[l,r] W[r] *)
QW(other) ==
  [p \in 0..(size_h(hand) - 1) |->
     Seqs!FoldLeft(LAMBDA s, c :
       IF c.h[hand] = p THEN addf(s, mulf(c.v, wh[other][c.h[other]])) ELSE s, 0, hq)]

(* SUM_{l} QW[l] W[l] at 0 and 2 *)
RoundPoly ==
  LET n == size_h(hand)
      D == wh[hand]
      qw == QW(3 - hand)
      halves == (n + 1) \div 2
  IN  <<Sum(halves, LAMBDA k : mulf(D[2 * k], qw[2 * k])),
        Sum(halves, LAMBDA k : mulf(Extended(D, n, 2 * k), Extended(qw, n, 2 * k)))>>

CubeSum == Seqs!FoldLeft(LAMBDA s, c :
             addf(s, mulf(c.v, mulf(wh[1][c.h[1]], wh[2][c.h[2]]))), 0, hq)

Round ==
  /\ pc = "round"
  /\ step < 2 * logw
  /\ LET pad == pads[ly].hp[hand][round]
         poly == <<subf(RoundPoly[1], pad[1]), subf(RoundPoly[2], pad[2])>>
         rnd == Drawn(0)
     IN  /\ proof' = [proof EXCEPT ![ly].hp[hand] = (round :> poly) @@ @]
         /\ ch' = [ch EXCEPT !.hb[hand] = (round :> rnd) @@ @]
         /\ wh' = [wh EXCEPT ![hand] = bind(rnd, @, size_h(hand))]
         /\ hq' = bind_h(hq, rnd, hand)
  /\ cube' = [cube EXCEPT ![ly] = Append(@, CubeSum)]
  /\ number' = number + 1 /\ step' = step + 1
  /\ UNCHANGED <<pc, st, seed, ly, cl, witness, pads, wires, bound_quad,
                 channelVars, constraintVars>>

EndLayer ==
  /\ pc = "round"
  /\ step = 2 * logw
  /\ IF ~IsScalar(hq) THEN pc' = "panic" /\ UNCHANGED <<ly, cl, proof, bound_quad>>
     ELSE /\ LET pad == pads[ly].wc
             IN  proof' = [proof EXCEPT ![ly].wc = <<subf(wh[1][0], pad[1]),
                                                     subf(wh[2][0], pad[2])>>]
          /\ bound_quad' = Append(bound_quad, scalar(hq))
          /\ cl' = [cl EXCEPT !.logv = logw, !.g = ch.hb]
          /\ IF ly < nl THEN ly' = ly + 1 /\ pc' = "layer" ELSE pc' = "proved" /\ UNCHANGED ly
  /\ UNCHANGED <<st, seed, number, step, ch, witness, pads, wires, cube, wh, hq,
                 channelVars, constraintVars>>

-----------------------------------------------------------------------------
(* PadLayout.  Without overlap index 0 is the first pad of a layer's round *)
(* polynomials, with overlap it is the first claim pad of the layer before *)
poly_pad(r, point) == (2 * r) + (IF point = 2 THEN 1 ELSE 0)
claim_pad(lw, n) == poly_pad(2 * lw, 0) + n
layer_size(lw) == claim_pad(lw, 3)
ovp_claim_pad_m1(n) == n
ovp_poly_pad(r, point) == 3 + poly_pad(r, point)
ovp_claim_pad(lw, n) == 3 + claim_pad(lw, n)
ovp_layer_size(lw) == ovp_claim_pad(lw, 3)

(* setup_lqc: in every layer the third claim pad is the product of the     *)
(* first two.                                                              *)
lqc ==
  LET start[k \in 1..nl] ==
        IF k = 1 THEN npriv ELSE start[k - 1] + layer_size(cir.l[k - 1].logw)
  IN  [k \in 1..nl |-> [n \in 0..2 |-> start[k] + claim_pad(cir.l[k].logw, n)]]

-----------------------------------------------------------------------------
(* Expression *)
Zero(n) == [known |-> 0, symbolic |-> [k \in 0..(n - 1) |-> 0]]
scale(e, k) ==
  [known |-> mulf(e.known, k), symbolic |-> [j \in DOMAIN e.symbolic |-> mulf(e.symbolic[j], k)]]
axpy(e, var, known_value, k) ==
  [known |-> addf(e.known, mulf(k, known_value)),
   symbolic |-> [e.symbolic EXCEPT ![var] = addf(@, k)]]
axmy(e, var, known_value, k) ==
  [known |-> subf(e.known, mulf(k, known_value)),
   symbolic |-> [e.symbolic EXCEPT ![var] = subf(@, k)]]

(* ConstraintBuilder *)
first(lw, alpha, claims) ==
  axpy(axpy(Zero(ovp_layer_size(lw)), ovp_claim_pad_m1(0), claims[1], 1 % P),
       ovp_claim_pad_m1(1), claims[2], alpha)

(* dot_interpolation::coef *)
coef(x) == [k \in 0..2 |-> Lagrange(3, k, x)]

(* mutant: p(1) is taken from the known part only *)
nextKnown(e, r, lag, tr) ==
  LET p1 == [e EXCEPT !.known = subf(@, tr[1])]
      at1 == scale(p1, lag[1])
      at0 == axpy(at1, ovp_poly_pad(r, 0), tr[1], lag[0])
  IN  axpy(at0, ovp_poly_pad(r, 2), tr[2], lag[2])

(* the claim of the next round: p(1) is the claim minus p(0) *)
next(e, r, lag, tr) ==
  LET p1 == axmy(e, ovp_poly_pad(r, 0), tr[1], 1 % P)
      at1 == scale(p1, lag[1])
      at0 == axpy(at1, ovp_poly_pad(r, 0), tr[1], lag[0])
  IN  axpy(at0, ovp_poly_pad(r, 2), tr[2], lag[2])

(* claim = eqq W[R] W[L], with the pads on the left.  The first layer has  *)
(* no claim pads before it.                                                *)
finalize(e, lw, wc, eqq, k, at) ==
  LET lhs == [e.symbolic EXCEPT
                ![ovp_claim_pad(lw, 0)] = subf(@, mulf(eqq, wc[2])),
                ![ovp_claim_pad(lw, 1)] = subf(@, mulf(eqq, wc[1])),
                ![ovp_claim_pad(lw, 2)] = subf(@, eqq)]
      from == IF k = 1 THEN ovp_poly_pad(0, 0) ELSE ovp_claim_pad_m1(0)
      base == ovp_poly_pad(0, 0)
  IN  [lhs |-> [j \in ((at + from) - base)..((at + ovp_layer_size(lw) - 1) - base) |->
                  lhs[(j + base) - at]],
       rhs |-> subf(mulf(eqq, mulf(wc[1], wc[2])), e.known)]

(* <eq0 + alpha eq1, inputs> = W_r + alpha W_l, the public part on the     *)
(* right                                                                   *)
input_constraint(c, alpha, wc, at) ==
  LET eq0 == filleq(c.logv, cir.ninputs, c.g[1])
      eq1 == filleq(c.logv, cir.ninputs, c.g[2])
      b == [i \in DOMAIN eq0 |-> addf(eq0[i], mulf(alpha, eq1[i]))]
      claim_pad_m1 == at - ovp_poly_pad(0, 0)
      private == [i \in 0..(npriv - 1) |-> b[i + cir.npub_in]]
      claims == (claim_pad_m1 :> subf(0, 1) @@ (claim_pad_m1 + 1) :> subf(0, alpha))
  IN  [lhs |-> private @@ claims,
       rhs |-> subf(addf(wc[1], mulf(alpha, wc[2])),
                    Sum(cir.npub_in, LAMBDA i : mulf(b[i], pub[i])))]

-----------------------------------------------------------------------------
(* The verifier without padding, on the proof with the pads added *)
PlainPoly(h, r) ==
  <<addf(got[ly].hp[h][r][1], pads[ly].hp[h][r][1]),
    addf(got[ly].hp[h][r][2], pads[ly].hp[h][r][2])>>
PlainClaims(k) ==
  <<addf(got[k].wc[1], pads[k].wc[1]), addf(got[k].wc[2], pads[k].wc[2])>>

(* to_poly(t1).eval_lagrange: Newton's differences over 0, 1, 2 *)
eval_lagrange(p0, p1, p2, x) ==
  LET d == subf(p1, p0)
      dd == mulf(subf(subf(p2, p1), d), invertf(2 % P))
  IN  addf(mulf(addf(mulf(dd, subf(x, 1)), d), x), p0)

BoundQuad(c, h) ==
  LET b[k \in 0..(2 * logw)] ==
        IF k = 0 THEN bind_g(layer.quad, c.logv, c.g[1], c.g[2], h.alpha, h.beta)
        ELSE bind_h(b[k - 1], h.hb[((k - 1) % 2) + 1][(k - 1) \div 2], ((k - 1) % 2) + 1)
  IN  b[2 * logw]

-----------------------------------------------------------------------------
(* verifier_constraints: the prover over its own proof, then the verifier  *)
StartConstraints ==
  /\ pc \in {"proved", "received"}
  /\ IF pc = "proved" THEN got' = proof /\ UNCHANGED same
     ELSE UNCHANGED got /\ same' = (pub = [i \in 0..(cir.npub_in - 1) |-> st.inp[i]])
  /\ cl' = [claim |-> <<0, 0>>, logv |-> cir.logv,
            g |-> LET G == [k \in 0..(cir.logv - 1) |-> Challenge(same', k)] IN <<G, G>>]
  /\ number' = cir.logv
  /\ ly' = 1 /\ pi' = npriv /\ rows' = <<>> /\ verdict' = "ok"
  /\ pc' = "v.layer"
  /\ UNCHANGED <<st, seed, step, ch, proverVars, role, pub, changed, prows, expr, claim>>

StartLayer ==
  /\ pc = "v.layer"
  /\ ch' = LayerChallenge /\ number' = number + 2
  /\ expr' = first(logw, ch'.alpha, cl.claim)
  /\ claim' = LET c == IF ly = 1 THEN <<0, 0>> ELSE PlainClaims(ly - 1)
              IN  addf(c[1], mulf(ch'.alpha, c[2]))
  /\ step' = 0 /\ pc' = "v.round"
  /\ UNCHANGED <<st, seed, ly, cl, proverVars, channelVars, pi, rows, verdict>>

CheckRound ==
  /\ pc = "v.round"
  /\ step < 2 * logw
  /\ LET poly == got[ly].hp[hand][round]
         plain == PlainPoly(hand, round)
         alike == same /\ poly = proof[ly].hp[hand][round]
         rnd == Challenge(alike, number)
     IN  /\ same' = alike
         /\ ch' = [ch EXCEPT !.hb[hand] = (round :> rnd) @@ @]
         /\ expr' = next(expr, step, coef(rnd), poly)
         /\ claim' = eval_lagrange(plain[1], subf(claim, plain[1]), plain[2], rnd)
  /\ number' = number + 1 /\ step' = step + 1
  /\ UNCHANGED <<pc, st, seed, ly, cl, proverVars, role, got, pub, changed, prows,
                 pi, rows, verdict>>

FinishLayer ==
  /\ pc = "v.round"
  /\ step = 2 * logw
  /\ LET wc == got[ly].wc
         quad == IF role = "prover" THEN bound_quad[ly]
                 ELSE bind_gh_all(layer.quad, cl.logv, cl.g[1], cl.g[2], ch.alpha, ch.beta,
                                  logw, ch.hb[1], ch.hb[2])
         plain == mulf(scalar(BoundQuad(cl, ch)),
                       mulf(PlainClaims(ly)[1], PlainClaims(ly)[2]))
     IN  /\ rows' = Append(rows, finalize(expr, logw, wc, quad, ly, pi))
         /\ same' = (same /\ wc = proof[ly].wc)
         /\ cl' = [claim |-> wc, logv |-> logw, g |-> ch.hb]
         /\ verdict' = IF verdict = "ok" /\ plain # claim
                       THEN "got != claim (layer)" ELSE verdict
  /\ pi' = pi + layer_size(logw)
  /\ IF ly < nl THEN ly' = ly + 1 /\ pc' = "v.layer" ELSE pc' = "v.input" /\ UNCHANGED ly
  /\ UNCHANGED <<st, seed, number, step, ch, proverVars, role, got, pub, changed, prows,
                 expr, claim>>

(* The last constraint; the plain verifier binds the inputs themselves.    *)
FinishInput ==
  /\ pc = "v.input"
  /\ LET alpha == Drawn(0)
         X == [i \in 0..(cir.ninputs - 1) |->
                 IF i < cir.npub_in THEN pub[i] ELSE st.com[i]]
         at(h) == bind_all(cl.logv, X, cir.ninputs, cl.g[h])
         c == PlainClaims(nl)
     IN  /\ rows' = Append(rows, input_constraint(cl, alpha, got[nl].wc, pi))
         /\ verdict' =
              IF verdict = "ok" /\ addf(at(1), mulf(alpha, at(2))) # addf(c[1], mulf(alpha, c[2]))
              THEN "got != cl.claim[hand]" ELSE verdict
  /\ number' = number + 1
  /\ IF role = "prover" THEN prows' = rows' /\ pc' = "sent"
     ELSE pc' = "decided" /\ UNCHANGED prows
  /\ UNCHANGED <<st, seed, ly, step, cl, ch, proverVars, role, got, pub, same, changed,
                 expr, pi, claim>>

(* what the channel may change: an element of the proof, or the public     *)
(* inputs the verifier has                                                 *)
Alterations ==
  {<<"none">>}
  \union {<<"pub", i>> : i \in DOMAIN pub}
  \union {<<"wc", k, h>> : k \in 1..nl, h \in 1..2}
  \union UNION {{<<"hp", k, h, r, x>> : h \in 1..2, r \in 0..(cir.l[k].logw - 1), x \in 1..2} :
                 k \in 1..nl}

Transit ==
  /\ pc = "sent"
  /\ \E c \in Alterations, d \in Deltas :
       /\ changed' = c
       /\ pub' = IF c[1] = "pub" THEN [pub EXCEPT ![c[2]] = addf(@, d)] ELSE pub
       /\ got' = CASE c[1] = "wc" -> [got EXCEPT ![c[2]].wc[c[3]] = addf(@, d)]
                   [] c[1] = "hp" -> [got EXCEPT ![c[2]].hp[c[3]][c[4]][c[5]] = addf(@, d)]
                   [] OTHER -> got
  /\ role' = "verifier" /\ pc' = "received"
  /\ UNCHANGED <<st, seed, number, ly, step, cl, ch, proverVars, same, prows, constraintVars>>

Next ==
  \/ FillPad \/ Eval \/ BeginCircuit \/ BeginLayer \/ Round \/ EndLayer
  \/ StartConstraints \/ StartLayer \/ CheckRound \/ FinishLayer \/ FinishInput
  \/ Transit

Spec == Init /\ [][Next]_vars

-----------------------------------------------------------------------------
Holds(row) ==
  LET s[n \in 0..Len(witness)] ==
        IF n = 0 THEN 0
        ELSE IF (n - 1) \in DOMAIN row.lhs
        THEN addf(s[n - 1], mulf(row.lhs[n - 1], witness[n]))
        ELSE s[n - 1]
  IN  s[Len(witness)] = row.rhs

Honest == changed = <<"none">> /\ st.com = st.inp

(* An honest proof is accepted: the committed witness satisfies every      *)
(* constraint of both sides, with the pads at the places PadLayout gives   *)
(* them, and the quadratic ones of setup_lqc, and no check stops the       *)
(* prover.                                                                 *)
HonestIsAccepted ==
  /\ pc # "panic"
  /\ Honest => \A k \in DOMAIN rows : Holds(rows[k])
  /\ Len(pads) = nl =>
       \A k \in 1..nl : witness[lqc[k][2] + 1] = mulf(witness[lqc[k][0] + 1],
                                                      witness[lqc[k][1] + 1])

(* Both sides build the same system: the prover, with the coefficients it  *)
(* saved while proving, the rows that the verifier computes from the       *)
(* circuit.                                                                *)
SameConstraints ==
  role = "verifier" /\ changed = <<"none">> =>
    \A k \in DOMAIN rows : rows[k] = prows[k]

(* The constraints are the sumcheck verifier: they speak of committed      *)
(* elements, both sides build the same ones, and whatever proof arrives,   *)
(* with whatever challenges and committed inputs, they hold exactly if the *)
(* verifier without padding accepts the proof with the pads added back.    *)
ConstraintsAreVerifier ==
  /\ \A k \in DOMAIN rows : \A j \in DOMAIN rows[k].lhs : (j + 1) \in DOMAIN witness
  /\ SameConstraints
  /\ (\A k \in DOMAIN rows : Holds(rows[k])) <=> verdict = "ok"

(* In every round of an honest run the claim of the verifier is the sum    *)
(* the prover still had to prove: the form over the wires not yet bound.   *)
ClaimIsCubeSum ==
  pc = "v.round" /\ step < 2 * logw /\ changed = <<"none">> => claim = cube[ly][step + 1]
================================================================================
