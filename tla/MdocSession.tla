---------------------------- MODULE MdocSession ----------------------------
(***************************************************************************)
(* One presentment of a mobile document with src/lib/circuits/mdoc: the    *)
(* wallet calls run_mdoc_prover(), the bytes travel, the reader calls      *)
(* run_mdoc_verifier() (mdoc_zk.cc).  Two circuits are proved over one     *)
(* transcript: "hash" (the requested attributes are in a document that is  *)
(* valid now) and "sig" (the issuer signed that document, the device key   *)
(* in it signed the session).  Six MACs under a key av that both sides     *)
(* draw after the two commitments tie the circuits to the same document.   *)
(*                                                                         *)
(* The proof systems are ideal: a verifier accepts a proof exactly if its  *)
(* commitment is to some witness, every message answers the challenges the *)
(* verifier draws, and that witness satisfies the circuit with the         *)
(* verifier's public inputs.  Whose proof it is makes no difference: what  *)
(* arrives may be the wallet's, changed in any way, or made by another     *)
(* holder of other documents, one for each circuit.  The order of the      *)
(* transcript is that of module ZkProtocol.                                *)
(***************************************************************************)
EXTENDS ZkProtocol, FiniteSets

CONSTANTS
  ProverCalls,   \* the arguments run_mdoc_prover() is called with
  VerifierCalls(_),  \* the arguments of the verifier, given the prover's
  Arrivals(_, _),    \* what may arrive instead of the wallet's proof (see
                     \* Transit), given that proof and the reader's call
  None

Circ == {"hash", "sig"}

(* A call is a record.  circuit: [n, v, bytes], the number of attributes   *)
(* and the version it was generated for, and whether the bytes parse; spec:*)
(* the version of the ZkSpec, whose block_enc follows from it (the same up  *)
(* to version 6); pk, tr, docType, now: values; attrs: a sequence of        *)
(* [ns, id, value, long, cbor]; null, small: an argument is missing, or    *)
(* too small; mdoc (prover): see Relation below; alloc: malloc() succeeds. *)

(* Circuits come from the table kZkSpecs, which ends at four attributes.   *)
(* What is counted on is less: from this many attributes on, a circuit of  *)
(* one version could have as many inputs as one of another version has for *)
(* another number of attributes.                                           *)
MaxAttributes == 96

Counted(a) ==
  /\ a.spec \in Nat /\ a.circuit.v \in Nat /\ a.circuit.n \in 0..MaxAttributes
  /\ Len(a.attrs) \in Nat /\ DOMAIN a.attrs = 1..Len(a.attrs)

(* A document has a sequence of pairs, ids with values. *)
IsDocument(m) ==
  /\ Len(m.attrs) \in Nat /\ DOMAIN m.attrs = 1..Len(m.attrs)
  /\ \A k \in DOMAIN m.attrs : m.attrs[k] = <<m.attrs[k][1], m.attrs[k][2]>>

ASSUME CallsAssumption ==
  \A a \in ProverCalls :
    Counted(a) /\ IsDocument(a.mdoc) /\ \A b \in VerifierCalls(a) : Counted(b)

ASSUME NoneAssumption == None \notin {"ap", "SUCCESS"}

(* Each circuit has a layer with a round. *)
ASSUME LayersAssumption ==
  \A c \in Circ :
    /\ Len(Logw[c]) \in Nat /\ DOMAIN Logw[c] = 1..Len(Logw[c])
    /\ \A ly \in DOMAIN Logw[c] : Logw[c][ly] \in Nat
    /\ \E ly \in DOMAIN Logw[c] : Logw[c][ly] > 0

VARIABLES
  pc,
  p,        \* arguments of the prover
  v,        \* arguments of the verifier
  retP, retV,   \* what they return
  tp, tv,   \* the transcripts of both
  wit,      \* ProverState and what was committed
  pub,      \* pub[c]: public part of the dense array W of the prover
  zk,       \* zk[c]: the ZkProof of each circuit
  av,       \* the MAC key both sides drew
  tst,      \* answers of the sumcheck on the cloned transcript
  sent,     \* *prf
  got,      \* what the verifier parsed
  arrived,  \* the bytes it came in: their framing, and the circuit and
            \* version whose lengths they have
  ok        \* what the two ZkVerifiers return

proverVars == <<p, retP, tp, wit, pub, zk, tst, sent>>
verifierVars == <<v, retV, tv, got, arrived, ok>>
vars == <<pc, proverVars, verifierVars, av>>

-----------------------------------------------------------------------------
(* Layout of the inputs of the circuits *)

(* getHashMacIndex *)
GetHashMacIndex(n, version) ==
  n * 8 * (96 + (IF version < 7 THEN 1 ELSE 2)) + 160 + 1
SigMacIndex == 4

(* fill_attribute: 96 bytes and one length, or two from version 7 on *)
AttributeInputs(version) == 96 * 8 + (IF version >= 7 THEN 8 + 8 ELSE 8)

(* fill_attributes: the constant one, the attributes, the time.  The MACs  *)
(* come next.                                                              *)
HashMacPosition(n, version) == 1 + n * AttributeInputs(version) + 20 * 8

(* fill_signature_inputs: one, pkX, pkY, e *)
SigMacPosition == 1 + 1 + 1 + 1

(* six MACs and av: elements in one field, bits in the other *)
NPubHash(n, version) == HashMacPosition(n, version) + 7
NPubSig == SigMacPosition + 7 * 128

ShaInputs == (48 + 64 + 64 + 8) * 8
ShaBlocks(version) == IF version <= 6 THEN 35 ELSE 40

(* MdocHashWitness::fill_witness, after e and the device key *)
HashWitness(n, version) ==
  3 * 256 + 8 + (ShaBlocks(version) * 64 - 18) * 8
  + ShaBlocks(version) * ShaInputs + 4 * 12
  + n * (2 * 64 * 8 + 2 * ShaInputs + 5 * 12
         + IF version >= 7 THEN 7 * 12 + 8 ELSE 0)

SubfieldInputs(n, version) == NPubHash(n, version) + HashWitness(n, version)

(* With other attributes or another version than the circuit was made for  *)
(* the filler runs past the inputs, or leaves the last ones (the MAC keys, *)
(* which are no subfield elements) where subfield elements belong.         *)
FillerOverflows(c, n, version) ==
  SubfieldInputs(n, version) > SubfieldInputs(c.n, c.v)
KeysInSubfieldPart(c, n, version) ==
  SubfieldInputs(n, version) < SubfieldInputs(c.n, c.v)

-----------------------------------------------------------------------------
(* What the circuits check.  A document m is [parse, big, attrs, valid,    *)
(* issuer, docType, tr]: whether it parses, is too big, its attributes (a  *)
(* sequence of pairs of an id and a value, of all namespaces), the times   *)
(* at which it is valid, the key that signed it, and the session its       *)
(* device key signed.                                                      *)

Common(m) == [e |-> m, dpk |-> m]

(* MACReference::compute for e, dpkx, dpky *)
Macs(key, ap, x) == [key |-> key, ap |-> ap, x |-> x]

(* The attribute of that id.  The first one is taken, whatever its         *)
(* namespace.                                                              *)
Matching(m, id) == SelectInSeq(m.attrs, LAMBDA x : x[1] = id)

(* mutant: the MACs are left to the other circuit *)
HashRelationNoMacs(pb, w) ==
  /\ \A i \in DOMAIN pb.attrs :
       LET k == Matching(w.m, pb.attrs[i].id)
       IN  k # 0 /\ pb.attrs[i].value = w.m.attrs[k][2]
  /\ pb.now \in w.m.valid

HashRelation(pb, w) ==
  /\ \A i \in DOMAIN pb.attrs :
       LET k == Matching(w.m, pb.attrs[i].id)
       IN  k # 0 /\ pb.attrs[i].value = w.m.attrs[k][2]
  /\ pb.now \in w.m.valid
  /\ pb.macs = Macs(pb.av, w.ap, Common(w.m))

SigRelation(pb, w) ==
  /\ pb.pk = w.m.issuer
  /\ pb.e2 = <<w.m.tr, w.m.docType>>
  /\ pb.macs = Macs(pb.av, w.ap, Common(w.m))

Satisfied(c, pb, w) == IF c = "hash" THEN HashRelation(pb, w) ELSE SigRelation(pb, w)

Zero == [key |-> None, ap |-> None, x |-> None]

(* fill_public_inputs, and the same part of fill_witness *)
Public(c, a, e2, macs, key) ==
  IF c = "hash"
  THEN [attrs |-> a.attrs, now |-> a.now, macs |-> macs, av |-> key]
  ELSE [pk |-> a.pk, e2 |-> e2, macs |-> macs, av |-> key]

(* kLigeroNreq and kLigeroNreqv7; the rate changes with it *)
NReq(version) == IF version < 7 THEN 128 ELSE 132

-----------------------------------------------------------------------------
(* The first of a list of checks that fails decides what is returned. *)
FirstFailure(checks) ==
  LET failed == {i \in DOMAIN checks : checks[i][1]}
  IN  IF failed = {} THEN "OK"
      ELSE checks[CHOOSE i \in failed : \A j \in failed : i <= j][2]

SameNamespace(attrs) == \A i \in DOMAIN attrs : attrs[i].ns = attrs[1].ns

(* Before the witness is computed *)
ProverArguments(a) == FirstFailure(<<
  <<a.null, "NULL_INPUT">>,
  <<a.pk = "unparsable", "INVALID_INPUT">>,
  <<~SameNamespace(a.attrs), "INVALID_INPUT">>,
  <<a.circuit.bytes = "corrupt", "CIRCUIT_PARSING_FAILURE">>,
  <<a.circuit.bytes = "no sig", "CIRCUIT_PARSING_FAILURE">>,
  <<a.circuit.bytes = "no hash", "HASH_PARSING_FAILURE">> >>)

TooLong(a) == a.spec < 7 /\ \E i \in DOMAIN a.attrs : a.attrs[i].long
Found(a) == \A i \in DOMAIN a.attrs : Matching(a.mdoc, a.attrs[i].id) # 0

(* fill_witness, in its order *)
WitnessChecks(a) == FirstFailure(<<
  <<TooLong(a), "ATTRIBUTE_TOO_LONG">>,
  <<~a.mdoc.parse, "PARSE_FAILURE">>,
  <<a.spec < 4, "VERSION_NOT_SUPPORTED">>,
  <<a.mdoc.big, "TAGGED_MSO_TOO_BIG">>,
  <<~Found(a), "ATTRIBUTE_NOT_FOUND">>,
  <<a.mdoc.issuer # a.pk, "SIGNATURE_FAILURE">>,
  <<a.mdoc.tr # a.tr, "DEVICE_SIGNATURE_FAILURE">>,
  <<FillerOverflows(a.circuit, Len(a.attrs), a.spec), "aborted">> >>)

VerifierArguments(a) == FirstFailure(<<
  <<a.null, "NULL_INPUT">>,
  <<a.pk = "unparsable", "INVALID_INPUT">>,
  <<~SameNamespace(a.attrs), "INVALID_INPUT">>,
  <<\E i \in DOMAIN a.attrs : ~a.attrs[i].cbor, "INVALID_CBOR">>,
  <<a.small \/ a.attrs = <<>>, "ARGUMENTS_TOO_SMALL">>,
  <<a.circuit.bytes # "good", "CIRCUIT_PARSING_FAILURE">> >>)

-----------------------------------------------------------------------------
(* run_mdoc_prover *)

ReturnP(code) ==
  /\ retP' = code
  /\ pc' = IF code = "SUCCESS" THEN "transit" ELSE "end"

CheckArgumentsP ==
  /\ pc = "arguments"
  /\ \/ /\ ProverArguments(p) = "OK"
        /\ pc' = "witness" /\ UNCHANGED retP
     \/ /\ ProverArguments(p) # "OK"
        /\ ReturnP(ProverArguments(p))
  /\ UNCHANGED <<p, tp, wit, pub, zk, tst, sent, verifierVars, av>>

(* fill_witness, the Transcript, and the ZkProofs with their parameters *)
FillWitness ==
  /\ pc = "witness"
  /\ \/ /\ WitnessChecks(p) = "OK"
        /\ wit' = [m |-> p.mdoc, ap |-> "ap"]
        /\ pub' = [c \in Circ |->
                     Public(c, p, <<p.tr, p.mdoc.docType>>, Zero, None)]
        /\ tp' = NewTranscript(p.tr)
        /\ pc' = "commit hash"
        /\ UNCHANGED retP
     \/ /\ WitnessChecks(p) # "OK"
        /\ ReturnP(WitnessChecks(p))
        /\ UNCHANGED <<wit, pub, tp>>
  /\ UNCHANGED <<p, zk, tst, sent, verifierVars, av>>

(* the root of the Merkle tree over the tableau of that witness *)
Root(c, w) == [c |-> c, w |-> w]

Commit(c, next) ==
  /\ zk' = [zk EXCEPT ![c].root = Root(c, wit)]
  /\ tp' = After(tp, WriteCommitment(Root(c, wit)))
  /\ pc' = next
  /\ UNCHANGED <<p, retP, wit, pub, tst, sent, verifierVars, av>>

CommitHash ==
  /\ pc = "commit hash"
  /\ ~KeysInSubfieldPart(p.circuit, Len(p.attrs), p.spec)
  /\ Commit("hash", "commit sig")

(* "element not in subfield" *)
CommitHashAborts ==
  /\ pc = "commit hash"
  /\ KeysInSubfieldPart(p.circuit, Len(p.attrs), p.spec)
  /\ ReturnP("aborted")
  /\ UNCHANGED <<p, tp, wit, pub, zk, tst, sent, verifierVars, av>>

CommitSig == pc = "commit sig" /\ Commit("sig", "macs")

GenerateMacKey(ts) == Answers(ts, <<Draw(1)>>)

(* update_macs writes av and the MACs where the constants say.  In another *)
(* place they would leave the zeros of fill_witness.                       *)
UpdateMacs(c, pb, macs, key) ==
  IF \/ c = "hash" /\ GetHashMacIndex(Len(p.attrs), p.spec)
                        = HashMacPosition(Len(p.attrs), p.spec)
     \/ c = "sig" /\ SigMacIndex = SigMacPosition
  THEN [pb EXCEPT !.macs = macs, !.av = key]
  ELSE pb

ComputeMacs ==
  /\ pc = "macs"
  /\ LET key == GenerateMacKey(tp)
         macs == Macs(key, wit.ap, Common(wit.m))
     IN /\ av' = [av EXCEPT !.prover = key]
        /\ pub' = [c \in Circ |-> UpdateMacs(c, pub[c], macs, key)]
        /\ zk' = [zk EXCEPT !.macs = macs]
  /\ tp' = After(tp, <<Draw(1)>>)
  /\ pc' = "prove hash"
  /\ UNCHANGED <<p, retP, wit, tst, sent, verifierVars>>

(* ZkProver::prove, first part: absorb the statement, evaluate the circuit *)
(* on the dense array; a wrong witness ends here.                          *)
EvalCircuit(c, next) ==
  /\ tp' = After(tp, InitializeSumcheck(c, p.circuit, pub[c]))
  /\ IF Satisfied(c, pub[c], wit)
     THEN pc' = next /\ UNCHANGED retP
     ELSE ReturnP("GENERAL_FAILURE")
  /\ UNCHANGED <<p, wit, pub, zk, tst, sent, verifierVars, av>>

EvalHash == pc = "prove hash" /\ EvalCircuit("hash", "sumcheck hash")
EvalSig == pc = "prove sig" /\ EvalCircuit("sig", "sumcheck sig")

(* What a prover says who answers the challenges right is one value for    *)
(* each circuit, whoever he is and whatever his witness.                   *)
Polys(c) == [poly |-> <<"poly", c>>, wc |-> <<"wc", c>>]

(* the padded sumcheck, on a clone of the transcript that is then dropped  *)
Sumcheck(c) ==
  /\ tst' = [tst EXCEPT ![c] = Answers(tp, ProverLayers(c, Polys(c)))]
  /\ UNCHANGED tp

SumcheckOf(c, next) ==
  /\ Sumcheck(c)
  /\ zk' = [zk EXCEPT ![c].poly = Polys(c).poly, ![c].wc = Polys(c).wc]
  /\ pc' = next
  /\ UNCHANGED <<p, retP, wit, pub, sent, verifierVars, av>>

SumcheckHash == pc = "sumcheck hash" /\ SumcheckOf("hash", "ligero hash")
SumcheckSig == pc = "sumcheck sig" /\ SumcheckOf("sig", "ligero sig")

Responses(c) == <<"y", c>>
Columns(c) == <<"req", c>>

(* The constraints on the committed pad are assembled by replaying the     *)
(* verifier on the original transcript, then Ligero proves them.           *)
ProveLigero(c, next) ==
  LET con == Answers(tp, ReplayLayers(c, zk[c]))
      ts == After(tp, VerifierConstraints(c, zk[c]))
      lig == Answers(ts, LigeroProve(c, NReq(p.spec), Responses(c)))
  IN /\ zk' = [zk EXCEPT ![c].y = Responses(c), ![c].req = Columns(c),
                         ![c].sumcheck = tst[c], ![c].constraints = con,
                         ![c].ligero = lig]
     /\ tp' = After(ts, LigeroProve(c, NReq(p.spec), Responses(c)))
     /\ pc' = next
     /\ UNCHANGED <<p, retP, wit, pub, tst, sent, verifierVars, av>>

LigeroHash == pc = "ligero hash" /\ ProveLigero("hash", "prove sig")
LigeroSig == pc = "ligero sig" /\ ProveLigero("sig", "serialise")

(* write both proofs, malloc, copy *)
Serialise ==
  /\ pc = "serialise"
  /\ IF p.alloc
     THEN sent' = zk /\ ReturnP("SUCCESS")
     ELSE ReturnP("MEMORY_ALLOCATION_FAILURE") /\ UNCHANGED sent
  /\ UNCHANGED <<p, tp, wit, pub, zk, tst, verifierVars, av>>

-----------------------------------------------------------------------------
(* A proof has the MACs, and for each circuit a commitment, the messages   *)
(* and the challenges that each of them answers.                           *)
ProofFields == {"root", "poly", "wc", "y", "req", "sumcheck", "constraints", "ligero"}
IsProof(proof) ==
  /\ DOMAIN proof = Circ \union {"macs"}
  /\ \A c \in Circ : DOMAIN proof[c] = ProofFields

(* "cut hash": the bytes end in the first proof *)
Framings == {"whole", "cut hash", "cut sig", "extra"}

AsBytes(framing, a, proof) ==
  [framing |-> framing, circuit |-> a.circuit, spec |-> a.spec, proof |-> proof]

(* The reader calls the verifier with its own view of the session.  What   *)
(* it is given are the bytes of the wallet or any other bytes of a proof.  *)
Transit ==
  /\ pc = "transit"
  /\ v' \in VerifierCalls(p)
  /\ \E q \in Arrivals(sent, v') \union {AsBytes("whole", p, sent)} :
       /\ q.framing \in Framings /\ IsProof(q.proof)
       /\ got' = q.proof
       /\ arrived' = [framing |-> q.framing, circuit |-> q.circuit, spec |-> q.spec]
  /\ pc' = "verifier"
  /\ UNCHANGED <<proverVars, retV, tv, ok, av>>

-----------------------------------------------------------------------------
(* run_mdoc_verifier *)

ReturnV(code) == retV' = code /\ pc' = "end"

CheckArgumentsV ==
  /\ pc = "verifier"
  /\ \/ VerifierArguments(v) = "OK" /\ pc' = "parse" /\ UNCHANGED retV
     \/ VerifierArguments(v) # "OK" /\ ReturnV(VerifierArguments(v))
  /\ UNCHANGED <<proverVars, v, tv, got, arrived, ok, av>>

(* The lengths read are those the bytes were written with. *)
Aligned == v.circuit = arrived.circuit /\ NReq(v.spec) = NReq(arrived.spec)

Misread(proof) ==
  [proof EXCEPT !["hash"].y = <<"misread", "hash">>, !["sig"].y = <<"misread", "sig">>]

(* What the two reads may end with.  With other lengths than the writer's  *)
(* the outcome depends on the bytes.                                       *)
ParseErrors ==
  IF ~Aligned THEN {"HASH_PARSING_FAILURE", "SIGNATURE_PARSING_FAILURE", "OK"}
  ELSE IF arrived.framing = "cut hash" THEN {"HASH_PARSING_FAILURE"}
  ELSE IF arrived.framing \in {"cut sig", "extra"} THEN {"SIGNATURE_PARSING_FAILURE"}
  ELSE {"OK"}

(* the six MACs, the hash proof, the signature proof, nothing after them *)
ParseProof ==
  /\ pc = "parse"
  /\ \E err \in ParseErrors :
       IF err = "OK"
       THEN /\ got' = IF Aligned THEN got ELSE Misread(got)
            /\ pc' = "receive"
            /\ UNCHANGED retV
       ELSE ReturnV(err) /\ UNCHANGED got
  /\ UNCHANGED <<proverVars, v, tv, arrived, ok, av>>

(* the Transcript, both commitments, the MAC key *)
Receive ==
  LET t1 == After(NewTranscript(v.tr), WriteCommitment(got["hash"].root))
      t2 == After(t1, WriteCommitment(got["sig"].root))
  IN /\ av' = [av EXCEPT !.verifier = GenerateMacKey(t2)]
     /\ tv' = After(t2, <<Draw(1)>>)

ReceiveCommitments ==
  /\ pc = "receive"
  /\ Receive
  /\ pc' = "public"
  /\ UNCHANGED <<proverVars, v, retV, got, arrived, ok>>

VerifierPublic(c) == Public(c, v, <<v.tr, v.docType>>, got.macs, av.verifier)

(* The attributes before the first that is too long, which ends the filling *)
Fitting(a) ==
  SelectInSeq(Append(a.attrs, [long |-> TRUE]), LAMBDA x : x.long) - 1

(* fill_public_inputs checks each write against the size npub_in of the    *)
(* array; then the caller compares the number of writes with it.           *)
PublicInputsChecks(a) ==
  LET filled == IF TooLong(a) THEN 1 + Fitting(a) * AttributeInputs(a.spec)
                              ELSE NPubHash(Len(a.attrs), a.spec)
      npub == NPubHash(a.circuit.n, a.circuit.v)
  IN  FirstFailure(<< <<filled > npub, "aborted">>,
                      <<TooLong(a), "GENERAL_FAILURE">>,
                      <<filled # npub, "ATTRIBUTE_NUMBER_MISMATCH">> >>)

FillPublicInputs ==
  /\ pc = "public"
  /\ \/ PublicInputsChecks(v) = "OK" /\ pc' = "verify hash" /\ UNCHANGED retV
     \/ PublicInputsChecks(v) # "OK" /\ ReturnV(PublicInputsChecks(v))
  /\ UNCHANGED <<proverVars, v, tv, got, arrived, ok, av>>

(* ZkVerifier::verify: what its transcript went through *)
Statement(c) == After(tv, InitializeSumcheck(c, v.circuit, VerifierPublic(c)))
Constrained(c) == After(Statement(c), VerifierConstraints(c, got[c]))

(* What the columns are checked against was committed to some witness. *)
IsCommitment(c, root) == root = Root(c, root.w) /\ IsDocument(root.w.m)

(* The ideal verifier.  The columns are those of the commitment, every     *)
(* response answers the challenges drawn here, and the constraints hold of *)
(* what was committed.                                                     *)
Accept(c) ==
  /\ IsCommitment(c, got[c].root) /\ got[c].req = Columns(c)
  /\ got[c].ligero = Answers(Constrained(c), LigeroReplay(c, NReq(v.spec), got[c].y))
  /\ got[c].y = Responses(c)
  /\ LET con == Answers(Statement(c), ReplayLayers(c, got[c]))
     IN got[c].sumcheck = con /\ got[c].constraints = con
  /\ got[c].poly = Polys(c).poly /\ got[c].wc = Polys(c).wc
  /\ Satisfied(c, VerifierPublic(c), got[c].root.w)

VerifyOf(c) ==
  /\ ok' = [ok EXCEPT ![c] = Accept(c)]
  /\ tv' = After(Constrained(c), LigeroReplay(c, NReq(v.spec), got[c].y))
  /\ UNCHANGED <<proverVars, v, got, arrived, av>>

VerifyHash ==
  /\ pc = "verify hash"
  /\ VerifyOf("hash")
  /\ pc' = "verify sig"
  /\ UNCHANGED retV

(* mutant: one of the two proofs is enough *)
VerdictEither == ok'["hash"] \/ ok'["sig"]

Verdict == ok'["hash"] /\ ok'["sig"]

VerifySig ==
  /\ pc = "verify sig"
  /\ VerifyOf("sig")
  /\ ReturnV(IF Verdict THEN "SUCCESS" ELSE "GENERAL_FAILURE")

-----------------------------------------------------------------------------
NoProof ==
  LET empty == [root |-> None, poly |-> None, wc |-> None, y |-> None,
                req |-> None, sumcheck |-> None, constraints |-> None,
                ligero |-> None]
  IN [macs |-> Zero, hash |-> empty, sig |-> empty]

Init ==
  /\ pc = "arguments"
  /\ p \in ProverCalls
  /\ v = None /\ retP = None /\ retV = None
  /\ tp = NewTranscript(None) /\ tv = NewTranscript(None)
  /\ wit = None /\ pub = None
  /\ zk = NoProof /\ sent = NoProof /\ got = NoProof
  /\ av = [prover |-> None, verifier |-> None]
  /\ tst = [c \in Circ |-> None]
  /\ arrived = [framing |-> None, circuit |-> None, spec |-> None]
  /\ ok = [c \in Circ |-> FALSE]

Next ==
  \/ CheckArgumentsP \/ FillWitness
  \/ CommitHash \/ CommitHashAborts \/ CommitSig \/ ComputeMacs
  \/ EvalHash \/ SumcheckHash \/ LigeroHash
  \/ EvalSig \/ SumcheckSig \/ LigeroSig
  \/ Serialise
  \/ Transit
  \/ CheckArgumentsV \/ ParseProof \/ ReceiveCommitments \/ FillPublicInputs
  \/ VerifyHash \/ VerifySig

Spec == Init /\ [][Next]_vars

-----------------------------------------------------------------------------
(* What arrived is what the wallet sent. *)
Untouched ==
  got = sent /\ arrived = [framing |-> "whole", circuit |-> p.circuit, spec |-> p.spec]

(* The reader asks for what the wallet proved. *)
SameSession ==
  /\ v.circuit = p.circuit /\ v.spec = p.spec
  /\ v.pk = p.pk /\ v.tr = p.tr /\ v.attrs = p.attrs /\ v.now = p.now
  /\ v.docType = p.mdoc.docType
  /\ VerifierArguments(v) = "OK"
  /\ Untouched

(* Completeness: whenever the prover returns success, the verifier called  *)
(* with the same session accepts, for every version and number of          *)
(* attributes.                                                             *)
HonestAccepted == pc = "end" /\ retV # None /\ SameSession => retV = "SUCCESS"

Requested(a) == {<<a.attrs[i].id, a.attrs[i].value>> : i \in DOMAIN a.attrs}
UniqueIds(m) == \A i, j \in DOMAIN m.attrs : m.attrs[i][1] = m.attrs[j][1] => i = j

(* The reader's statement, in its own words: the document was signed by    *)
(* that key, is of that type, is valid at that time, has those values, and *)
(* its device signed that session.                                         *)
Truth(m) ==
  /\ m.issuer = v.pk /\ m.docType = v.docType /\ m.tr = v.tr
  /\ v.now \in m.valid
  /\ Requested(v) \subseteq ToSet(m.attrs)
  /\ Len(v.attrs) = v.circuit.n

(* Soundness of the composition, whoever made the proof: success means     *)
(* that both circuits were proved of one document and that the reader's    *)
(* statement is true of it.  Each circuit only checks its part, of the     *)
(* witness it was committed to.                                            *)
AcceptedIsTrue ==
  retV = "SUCCESS" =>
    /\ got["hash"].root.w.m = got["sig"].root.w.m
    /\ Truth(got["hash"].root.w.m)

(* Who cannot prove, answers nothing else than the wallet did. *)
WalletAnswers ==
  \A c \in Circ : \A f \in {"sumcheck", "constraints", "ligero"} : got[c][f] = sent[c][f]

(* What the reader has is, field by field, what the wallet sent. *)
AsSent ==
  /\ got.macs = sent.macs
  /\ \A c \in Circ : \A f \in ProofFields : got[c][f] = sent[c][f]

(* An accepted proof is nobody's altered copy: bytes missing or left over  *)
(* are noticed, and with the answers of the wallet the commitments, the    *)
(* MACs and every message are those it published, of its document.         *)
AcceptedIsUnaltered ==
  retV = "SUCCESS" =>
    /\ arrived.framing = "whole"
    /\ WalletAnswers => AsSent /\ got["hash"].root.w.m = p.mdoc

(* wrong_witness in mdoc_zk_test.cc: a wallet gets a proof exactly if the  *)
(* prover returns success, and then of a true statement.                   *)
ProvedIsTrue ==
  /\ (sent # NoProof) = (retP = "SUCCESS")
  /\ sent # NoProof =>
       Requested(p) \subseteq ToSet(p.mdoc.attrs) /\ p.now \in p.mdoc.valid

(* What success means to either side: the wallet has a proof, of a true    *)
(* statement; to the reader its statement is true of one document, and the *)
(* proof is the wallet's unless its maker could answer by himself.         *)
AcceptanceMeansTruth == ProvedIsTrue /\ AcceptedIsTrue /\ AcceptedIsUnaltered

(* The MAC key is drawn after both commitments: the challenge contains the *)
(* root of every tree the proofs are checked against.  This is what keeps  *)
(* the keys the prover committed to independent of it.                     *)
KeyAfterCommitments ==
  retV = "SUCCESS" =>
    \A c \in Circ :
      \E k \in DOMAIN av.verifier.log :
        av.verifier.log[k].what = "root" /\ av.verifier.log[k].val = got[c].root

(* The columns are opened after everything else was said: the last         *)
(* challenge of each proof contains its root, its public inputs, its       *)
(* sumcheck messages and its four responses.                               *)
ColumnsDrawnLast ==
  retV = "SUCCESS" =>
    \A c \in Circ :
      LET lig == got[c].ligero
          n == lig.at[Len(lig.at)][1]
          Said(what, val) ==
            \E k \in 1..n : lig.log[k].what = what /\ lig.log[k].val = val
      IN /\ Said("root", got[c].root)
         /\ Said("pub", VerifierPublic(c))
         /\ Said("p2", got[c].poly) /\ Said("wc", got[c].wc)
         /\ \A y \in {"y_ldt", "y_dot", "y_quad_0", "y_quad_2"} : Said(y, got[c].y)

(* A wallet whose document has what is asked, under ids that occur in one  *)
(* namespace only, gets its proof.  The MACs are written into the dense    *)
(* arrays after the commitment, at places computed by two constants far    *)
(* from fill_witness: they must agree with the room it left, for every     *)
(* version and number of attributes.                                       *)
HonestProverSucceeds ==
  pc \in {"transit", "end"} /\ ProverArguments(p) = "OK" /\ WitnessChecks(p) = "OK"
    /\ p.circuit.n = Len(p.attrs) /\ (p.circuit.v >= 7) = (p.spec >= 7)
    /\ p.now \in p.mdoc.valid /\ p.alloc
    /\ Requested(p) \subseteq ToSet(p.mdoc.attrs)
    /\ UniqueIds(p.mdoc)
  => retP = "SUCCESS"

(* Both ends of an honest session: the wallet gets its proof, and the      *)
(* reader accepts what the wallet got.                                     *)
HonestSession == HonestProverSucceeds /\ HonestAccepted

(* Both drawings that soundness rests on come late enough.                 *)
DrawnInOrder == KeyAfterCommitments /\ ColumnsDrawnLast

(* A reader that asks for another number of attributes than the circuit    *)
(* has is told so (attr_mismatch in mdoc_zk_test.cc).                      *)
MismatchIsReported ==
  pc = "end" /\ retV # None /\ Untouched /\ v.spec = p.spec
    /\ v.circuit = p.circuit /\ Len(v.attrs) # v.circuit.n
    /\ VerifierArguments(v) = "OK"
  => retV = "ATTRIBUTE_NUMBER_MISMATCH"
=============================================================================
