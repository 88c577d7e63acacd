------------------------------- MODULE QuadBinding -----------------------------
(***************************************************************************)
(* The life of one layer's quadratic form in a sumcheck: the terms the     *)
(* compiler gives are brought into canonical form and compressed; the      *)
(* prover binds the output wires and then, round by round, one bit of each *)
(* hand, until one coefficient is left.                                    *)
(***************************************************************************)
EXTENDS Quad

CONSTANTS
  Raws,          \* sequences of terms
  logv, logw,    \* bits of an output wire, of an input wire
  Seeds,         \* of the challenges
  Draw(_, _)     \* the challenge of a seed and a number

VARIABLES
  pc,
  raw,      \* the terms given
  ec,       \* EQuad
  q,        \* Quad
  seed,
  hq,       \* HQuad
  step      \* bindings of hands done

vars == <<pc, raw, ec, q, seed, hq, step>>

G0 == [k \in 0..(logv - 1) |-> Draw(seed, k)]
G1 == [k \in 0..(logv - 1) |-> Draw(seed, logv + k)]
alpha == Draw(seed, 2 * logv)
beta == Draw(seed, (2 * logv) + 1)
Challenge(s) == Draw(seed, (2 * logv) + 2 + s)
H(hand) == [k \in 0..(logw - 1) |-> Challenge((2 * k) + hand - 1)]

Init ==
  /\ raw \in Raws /\ seed \in Seeds
  /\ ec = <<>> /\ q = <<>> /\ hq = <<>> /\ step = 0
  /\ pc = "raw"

Canonicalize ==
  /\ pc = "raw"
  /\ ec' = canonicalize(raw)
  /\ pc' = "canonical"
  /\ UNCHANGED <<raw, q, seed, hq, step>>

Compress ==
  /\ pc = "canonical"
  /\ q' = compress(ec)
  /\ pc' = "quad"
  /\ UNCHANGED <<raw, ec, seed, hq, step>>

BindG ==
  /\ pc = "quad"
  /\ hq' = bind_g(iterate(q), logv, G0, G1, alpha, beta)
  /\ pc' = "hands"
  /\ UNCHANGED <<raw, ec, q, seed, step>>

(* for each round, for each hand *)
BindH ==
  /\ pc = "hands"
  /\ step < 2 * logw
  /\ hq' = bind_h(hq, Challenge(step), (step % 2) + 1)
  /\ step' = step + 1
  /\ UNCHANGED <<pc, raw, ec, q, seed>>

Scalar ==
  /\ pc = "hands"
  /\ step = 2 * logw
  /\ pc' = IF IsScalar(hq) THEN "scalar" ELSE "panic"
  /\ UNCHANGED <<raw, ec, q, seed, hq, step>>

Next == Canonicalize \/ Compress \/ BindG \/ BindH \/ Scalar

Spec == Init /\ [][Next]_vars

-----------------------------------------------------------------------------
Wires == 0..((2 ^ logw) - 1)

(* EQ[I, x] from its definition, a product over the bits of x *)
EQ(size, I, x) ==
  LET e[k \in 0..size] ==
        IF k = 0 THEN 1 % P
        ELSE mulf(e[k - 1], IF Bit(x, k - 1) = 1 THEN I[k - 1] ELSE subf(1, I[k - 1]))
  IN  e[size]

Total(S, v(_)) ==
  LET t[k \in 0..Len(S)] == IF k = 0 THEN 0 ELSE addf(t[k - 1], v(S[k])) IN t[Len(S)]

(* The bits of the hands, the left one's above the right one's *)
Interleaved(h) ==
  LET m[k \in 0..logw] ==
        IF k = 0 THEN 0
        ELSE m[k - 1] + ((4 ^ (k - 1)) * (Bit(h[1], k - 1) + (2 * Bit(h[2], k - 1))))
  IN  m[logw]

(* canonicalize keeps the form and leaves strictly increasing terms: the   *)
(* comparison by carries through one word sorts by interleaved bits, and   *)
(* the terms it makes neighbours are the ones coalesce has to find.        *)
CanonicalForm ==
  pc = "canonical" =>
    /\ \A k \in 1..(Len(ec) - 1) :
         \/ Interleaved(ec[k].h) < Interleaved(ec[k + 1].h)
         \/ ec[k].h = ec[k + 1].h /\ ec[k].g < ec[k + 1].g
    /\ \A g \in 0..((2 ^ logv) - 1), a, b \in Wires :
         a <= b =>
           Total(ec, LAMBDA t : IF t.g = g /\ t.h = <<a, b>> THEN t.v ELSE 0) =
           Total(raw, LAMBDA t : IF t.g = g /\ t.h \in {<<a, b>>, <<b, a>>} THEN t.v ELSE 0)

Bound(hand) == (step + 2 - hand) \div 2

(* At every round a corner of the HQuad is the form's value at the         *)
(* challenges drawn so far, no pair of hands occurs twice, and none that   *)
(* has a term is missing.                                                  *)
HQuadIsPartialValue ==
  pc = "hands" =>
    LET shift(t, hand) == t.h[hand] \div (2 ^ Bound(hand))
        value(t) ==
          mulf(prep_v(t.v, addf(EQ(logv, G0, t.g), mulf(alpha, EQ(logv, G1, t.g))), beta),
               mulf(EQ(Bound(1), H(1), t.h[1] % (2 ^ Bound(1))),
                    EQ(Bound(2), H(2), t.h[2] % (2 ^ Bound(2)))))
    IN  /\ \A j, k \in DOMAIN hq : j # k => hq[j].h # hq[k].h
        /\ {hq[k].h : k \in DOMAIN hq} = {<<shift(ec[k], 1), shift(ec[k], 2)>> : k \in DOMAIN ec}
        /\ \A k \in DOMAIN hq :
             hq[k].v = Total(ec, LAMBDA t : IF <<shift(t, 1), shift(t, 2)>> = hq[k].h
                                            THEN value(t) ELSE 0)

(* The checks of scalar never fire: the prover ends with one coefficient,  *)
(* and it is the one the verifier of a proof computes in one pass.         *)
OneCoefficientIsLeft ==
  /\ pc # "panic"
  /\ pc = "scalar" =>
       scalar(hq) = bind_gh_all(iterate(q), logv, G0, G1, alpha, beta, logw, H(1), H(2))

(* Binding the outputs and the hands is evaluation of the form, at every   *)
(* round and at the end.                                                   *)
BindingIsEvaluation == HQuadIsPartialValue /\ OneCoefficientIsLeft
================================================================================
