----------------------------- MODULE ZkProtocol -----------------------------
(***************************************************************************)
(* The order in which a prover and a verifier of one circuit use the       *)
(* Fiat-Shamir transcript: src/lib/zk (ZkProver, ZkVerifier, ZkCommon),    *)
(* src/lib/sumcheck (ProverLayers, TranscriptSumcheck) and src/lib/ligero. *)
(*                                                                         *)
(* Each method is the sequence of writes and draws it makes.  A transcript *)
(* is what was written (log) and how many elements were drawn since the    *)
(* last write (pos): module FiatShamir shows that nothing else determines  *)
(* a challenge.  The circuits have one copy (logc = 0), as both sides      *)
(* require.                                                                *)
(***************************************************************************)
EXTENDS Naturals, Sequences, SequencesExt

CONSTANTS
  Logw,          \* Logw[c]: rounds of each layer of circuit c
  MaxBindings,   \* Proof::kMaxBindings
  Witnesses,     \* Witnesses[c]: private inputs of circuit c
  BlockW         \* BlockW[req]: LigeroParam::w for that many opened columns

-----------------------------------------------------------------------------
(* Transcripts *)

NewTranscript(init) == [log |-> <<[what |-> "init", val |-> init]>>, pos |-> 0]

Put(what, val) == [op |-> "write", what |-> what, val |-> val]
Draw(n) == [op |-> "draw", n |-> n]

Do(ts, o) ==
  IF o.op = "write"
  THEN [log |-> Append(ts.log, [what |-> o.what, val |-> o.val]), pos |-> 0]
  ELSE [log |-> ts.log, pos |-> ts.pos + o.n]

After(ts, ops) == FoldLeft(Do, ts, ops)

(* Where the draws of ops find the transcript: how much was written, how   *)
(* much drawn.  With the log these are the challenges.                     *)
Challenges(ts, ops) ==
  LET Here(acc, o) ==
        [ts |-> Do(acc.ts, o),
         at |-> IF o.op = "draw"
                THEN Append(acc.at, <<Len(acc.ts.log), acc.ts.pos, o.n>>)
                ELSE acc.at]
  IN  FoldLeft(Here, [ts |-> ts, at |-> <<>>], ops)

(* The challenges an answer belongs to *)
Answers(ts, ops) ==
  LET run == Challenges(ts, ops) IN [log |-> run.ts.log, at |-> run.at]

-----------------------------------------------------------------------------
(* Sumcheck *)

NL(c) == Len(Logw[c])

(* mutant: the public inputs are not absorbed *)
InitializeSumcheckNoPub(c, id, pub) ==
  <<Put("id", id), Put("outputs", 0), Put("zeros", c)>>

(* initialize_sumcheck_fiat_shamir *)
InitializeSumcheck(c, id, pub) ==
  <<Put("id", id), Put("pub", pub), Put("outputs", 0), Put("zeros", c)>>

BeginCircuit == <<Draw(MaxBindings), Draw(MaxBindings)>>

(* mutant: beta is not drawn *)
BeginLayerAlpha == <<Draw(1)>>

BeginLayer == <<Draw(1), Draw(1)>>

(* round(): p(0) and p(2) are written, p(1) is implied *)
Round(poly) == <<Put("p0", poly), Put("p2", poly), Draw(1)>>

WriteClaims(wc) == <<Put("wc", wc)>>

(* ProverLayers::layer; a proof is [poly, wc], one value for all layers *)
ProverLayer(logw, pr) ==
  FlattenSeq([k \in 1..(2 * logw) |-> Round(pr.poly)]) \o WriteClaims(pr.wc)

(* ProverLayers::prove *)
ProverLayers(c, pr) ==
  BeginCircuit
  \o FlattenSeq([ly \in 1..NL(c) |->
                   <<Draw(1), Draw(1)>> \o ProverLayer(Logw[c][ly], pr)])

(* ZkCommon::verifier_constraints up to the claims on the inputs *)
ReplayLayers(c, pr) ==
  BeginCircuit
  \o FlattenSeq([ly \in 1..NL(c) |->
       BeginLayer
       \o FlattenSeq([k \in 1..(2 * Logw[c][ly]) |-> Round(pr.poly)])
       \o WriteClaims(pr.wc)])

(* the challenge that binds the inputs *)
InputBinding == <<Draw(1)>>

VerifierConstraints(c, pr) == ReplayLayers(c, pr) \o InputBinding

(* one constraint for each layer and one for the inputs *)
NumConstraints(c) == NL(c) + 1

-----------------------------------------------------------------------------
(* The commitment covers the witness, then the pad of each layer: p(0) and *)
(* p(2) of each round and hand, the two claims and their product.          *)
LayerSize(logw) == 4 * logw + 3
PadSize(c) == FoldLeft(LAMBDA acc, logw : acc + LayerSize(logw), 0, Logw[c])

CeilDiv(a, b) == (a + b - 1) \div b

NqTriples(c, req) == CeilDiv(NL(c), BlockW[req])
NwqRow(c, req) ==
  CeilDiv(Witnesses[c] + PadSize(c), BlockW[req]) + 3 * NqTriples(c, req)

(* LigeroTranscript::write_commitment *)
WriteCommitment(root) == <<Put("root", root)>>

(* LigeroProver::prove: u_ldt, alphal, alphaq, u_quad, then the responses, *)
(* then the opened columns                                                 *)
LigeroProve(c, req, y) ==
  <<Put("hash_of_A", 0), Draw(NwqRow(c, req)),
    Draw(NumConstraints(c)), Draw(3 * NL(c)), Draw(NqTriples(c, req)),
    Put("y_ldt", y), Put("y_dot", y), Put("y_quad_0", y), Put("y_quad_2", y),
    Draw(req)>>

(* the replay at the beginning of LigeroVerifier::verify *)
LigeroReplay(c, req, y) ==
  <<Put("hash_of_A", 0), Draw(NwqRow(c, req)),
    Draw(NumConstraints(c))>>
  \o <<Draw(3 * NL(c)), Draw(NqTriples(c, req))>>
  \o <<Put("y_ldt", y), Put("y_dot", y), Put("y_quad_0", y), Put("y_quad_2", y)>>
  \o <<Draw(req)>>
=============================================================================
