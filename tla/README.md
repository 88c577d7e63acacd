# Longfellow-ZK in TLA+

TLA+ models, TLC runs and TLAPS proofs for the zero-knowledge library under
`src/lib` and for the mobile-document (mdoc) presentment built on it. The
library proves in zero knowledge that a committed witness satisfies a layered
arithmetic circuit: a padded sumcheck reduces the circuit to linear and
quadratic constraints, and the Ligero argument proves those about a committed
tableau. All challenges come from a Fiat-Shamir transcript.

Paths below are relative to `src/lib` unless they begin with `src/`.

## 1. The system

    compiler ──► Circuit ──► circuit format ──► both parties
                                                     │
    wallet: run_mdoc_prover                reader: run_mdoc_verifier
        │  fills W, MACs                       │  fills the public inputs
        ▼                                      ▼
    ZkProver ── commit, prove ──► ZkProof ── bytes ──► ZkVerifier
        │ sumcheck on a clone of the transcript        │ same constraints
        ▼                                              ▼
    LigeroProver ─ MerkleCommitment           LigeroVerifier ─ Merkle check
        └────────────── Transcript (one per party) ───────────┘

| component | state | operations | what makes it hard | what makes it correct |
|---|---|---|---|---|
| `random/transcript.h` | running hash, keyed stream and its read pointer | typed writes, `bytes`, `elt`, `clone` | any sequence of writes, draws and clones; draws cut across blocks | the stream is a function of the messages and of the bytes drawn since; never repeated; the encoding of messages is injective |
| `merkle/` | heap of digests, list of openings | build, compressed proof, verify | n not a power of two; prover and verifier walk the heap in code of their own | complete, binding, proof determined by the leaves, length bounded as the parser assumes |
| `ligero/ligero_param.h` | dimensions | `layout` in a search or once, `sanity` | early returns that leave fields half set; unsigned differences | no object from a failed layout, dimensions consistent, the search finds the minimum |
| `ligero/` prover, verifier | tableau, transcript | `commit`, `prove`, `verify` | two copies of the order of challenges; offsets of three groups of rows; partly filled rows | accepts exactly satisfied statements, refuses a changed element |
| `sumcheck/` quad, layers | sorted terms, half-bound arrays | canonicalize, bind, round, evaluate | odd lengths, in-place tables, merging of neighbours | each form is the partial evaluation of the terms |
| `zk/` prover, verifier, common | pads, constraint rows | `fill_pad`, `commit`, `prove`, `setup_lqc`, `verifier_constraints` | index arithmetic that must agree in four places; two passes over a cloned transcript | both sides have the same constraints, satisfied exactly if the sumcheck verifier accepts |
| `zk/zk_proof.h` | buffer position, run-length state | `write`, `read` | lengths from the buffer, alternating runs | round trip, no read past the end, termination |
| `circuits/mdoc/mdoc_zk.cc` | arguments, two circuits, one transcript | `run_mdoc_prover`, `run_mdoc_verifier` | one proof string for two circuits tied by MACs; version-dependent layout; some twenty return codes | an accepted proof means the statement the reader asked about |
| `circuits/compiler/` | nodes, subexpression table | builder calls, `mkcircuit` | simplifications that look through nodes; nodes changed after they were hashed; copies | the circuit is equivalent to the program, and independent of call order |
| `proto/` | byte position, delta table and cache | `to_bytes`, `from_bytes` | three-byte numbers, signed differences, a lossy cache | round trip within the limits; an enforced identifier binds |
| `algebra/` prime fields | constants of the field | field operations, import, sampling, dot products | carries, Montgomery form, a reduction step for each prime, limbs never initialised | equal to arithmetic modulo the prime |
| `algebra/` transforms, convolutions, Reed-Solomon | tables of roots and inverses | `fftb`, `r2hc`, `interpolate`, three convolutions, Nussbaumer's | in-place recursion, padding that wraps, the order of the CRT basis | evaluation of a polynomial, and its extension |
| `gf2k/` | basis of the subfield, subspace polynomials | field operations, counters, additive transform | Euclid in a word too small for the modulus; sizes that are no power of two | equal to polynomials modulo `Poly`; extension is evaluation |
| `ec/` | none | addition, doubling, scalar multiplication, Bos-Coster | three sets of formulas chosen by `a` | the group law |
| `circuits/ecdsa` | sum so far, bits so far | witness and circuit, bit by bit | the circuit trusts nothing the witness says; scalars and coordinates of different sizes | accepts exactly valid signatures |
| `circuits/hidden_pk` | key, advice, address | witness, circuit, command | numbers read modulo p and as bits | the address is that of a key with a valid signature |
| `random/random.h` | none | `nat`, `choose` | rejection, in-place swaps | every set of columns is equally likely |
| `circuits/logic` | none | gates, adders, scans, routing, pluckers, counters | one wire is a bit in four representations; prefix trees and rounds of unequal size; two characteristics | a gadget says what it is named for, an assertion stops exactly what it should |
| `circuits/mac` | key halves, unpacked bits | compute, witness, assert | the same message in two fields | a MAC is accepted for one message only |
| `circuits/sha` | blocks, intermediate hashes | pad, witness, assert | the number of blocks is a witness | an accepted hash is that of the padded message |
| `cbor/host_decoder.h` | position | recursive descent, lookups | counts of four widths, nested lengths | the tree is the one the bytes spell; a query finds the first pair with the key |
| `circuits/mdoc/mdoc_hash.h`, `mdoc_witness.h` | indices into the document | parse, order the pairs, assert | places, lengths and order are witnesses; headers of one and two bytes | what is opened is what the issuer signed |
| `circuits/cbor_parser*` | counters of the open containers at every byte | witness, assert, statements about text, numbers and pairs | structure is claimed byte by byte, places are witnesses | no witness makes other items of the same bytes |
| `src/reference/verifier-service` | circuit table | HTTP handlers | untrusted JSON/CBOR | passes to the verifier what the client sent |

Nothing in the library is multi-threaded and nothing is persisted. What
interleaves are the operations on transcripts and their clones, the caller's
calls of the circuit builder, and the two parties of a session, whose only link
is a byte string that may be cut, extended, changed or replaced. `PROJECT.json` lists
every component, also the ones without a module and why, and the hazards with
the line where each one bites.

## 2. Modules

| module | models | uses |
|---|---|---|
| `FiatShamir` | `transcript.h`: one action per typed write, `clone`, and one per byte drawn | |
| `MerkleTree` | `merkle_tree.h`, `merkle_commitment.h`: one action per turn of each loop over the heap | |
| `LigeroLayout` | the formulas of `layout()` | |
| `LigeroParam` | both constructors of `LigeroParam`, one action per call of `layout()`, and `sanity()` | `LigeroLayout` |
| `PrimeField` | field arithmetic and Lagrange interpolation | |
| `Ligero` | prover, channel and verifier, one action per challenge | `PrimeField`, `LigeroLayout` |
| `Sampling` | `RandomEngine::nat` and `choose`, one action per draw taken or refused | `Loops` |
| `Quad` | `Eqs` (`raw_eq2`, `filleq`), `Dense::bind`; `EQuad`, `Quad`, `HQuad`, the Morton order, evaluation of a layer | `PrimeField` |
| `QuadBinding` | the life of one layer's quadratic form | `Quad` |
| `ZkSumcheck` | pads, padded sumcheck, constraints of both sides, and beside them the unpadded verifier | `Quad` |
| `ZkProtocol` | the order of writes and draws of both sides | |
| `MdocSession` | `run_mdoc_prover`, the channel, `run_mdoc_verifier` | `ZkProtocol` |
| `CborByteDecoder` | `decode_one_v8` of both parsers | |
| `CborParser` | `cbor.h` and `cbor_witness.h` of `cbor_parser_v2`: the honest witness, and any other, one action per position | `CborByteDecoder`, `Loops` |
| `HostDecoder` | `CborDoc`: decoding, the three lookups, index, position, length | |
| `MdocHash` | parsing of attributes and MSO, `compute_witness`, the hash circuit of version 7 | `HostDecoder`, `CborByteDecoder` |
| `ProofIO` | `ZkProof::write` and `read` | |
| `Compiler` | `QuadCircuit` and `Scheduler`: one action per builder call, and `mkcircuit` | `Quad` |
| `EllipticCurve` | `elliptic_curve.h`: every formula, normalisation, scalar multiplication | `PrimeField` |
| `Ecdsa` | `VerifyWitness3` and `VerifyCircuit`: one action per turn of either loop and per assertion | `EllipticCurve` |
| `HiddenPk` | `HiddenPKWitness`, `HiddenPKCircuit` and the command `hidden_pk_prove` | `Ecdsa` |
| `Logic` | `Logic`: bits, gates, vectors, adders, multipliers, comparisons, scans, assertions | `Loops` |
| `Gadgets` | routing, polynomials, pluckers, counters, `BitAdder`, `Memcmp`, `Unary`, the MAC: one action per kind of call | `Logic` |
| `Sha256` | `FlatSHA256Witness` and `FlatSHA256Circuit` | `Loops` |
| `Loops` | loops over arrays, for the kernels | |
| `Montgomery` | `FpGeneric`, the reduction step of each prime, `Nat` | `Loops` |
| `Gf2k` | `GF2_128`, carry-less products by integer products; the additive transform and its extension | |
| `Fft` | complex and real transforms, `FFTInterpolation`, the quadratic extension | `Loops` |
| `ReedSolomon` | `FFTConvolution`, `FFTExtConvolution`, `CRTConvolution`, Newton forms, batch inversion, `ReedSolomon`, `Nussbaumer` | `Fft` |
| `Algebra` | calls of the kernels, one action per kind of call, after the constructors | the kernels |
| `CircuitIO` | `CircuitWriter`, `CircuitReader`, the identifier | `Quad` |
| `MC...` | instances for TLC | |
| `SequenceLemmas` | induction over numbers, facts about `SequencesExt` | |
| `...Proofs` | theorems, section 4; `CircuitProofs` on `Compiler` (after `CompilerProofs`) and `CircuitIO` | `SequenceLemmas` |

State and actions carry the names of the code. A loop whose turns read state
that earlier turns wrote is one action per turn (Merkle heap, opened cells of a
proof, layers and rounds of the sumcheck, terms of a circuit file); a loop that
is a map or a sum is an operator. A failing `check()` ends in a state whose
`pc`, `status` or `why` names it, and nothing follows. Values that the C++ code
leaves uninitialised are chosen freely (`Garbage` in `LigeroParam`).

Abstractions, and what carries them:

* **Hashes and PRF are ideal.** A hash is its input, a stream byte is (key,
  block, offset). `FiatShamir` keeps tags, lengths and data bytes in one small
  alphabet, so that ambiguity between them would show.
* **Challenges.** `FiatShamir` shows that a challenge is a function of the
  messages absorbed and the bytes drawn since. `Ligero`, `ZkSumcheck` and
  `MdocSession` use just that: a verifier gets the prover's challenge if its
  transcript was used alike, and any other otherwise.
* **Columns and roots.** `Ligero` compares opened columns with what was
  committed; that a Merkle opening binds is `MerkleTree`.
* **Fields** are the integers modulo a small prime, with interpolation by
  definition. Which rows may hold subfield elements only affects their
  randomness and their encoding; the encoding is in `ProofIO`.
* **Wires** of `Gadgets`, `Sha256` and `MdocHash` carry the values that the
  gates compute, as `evaluation_backend.h` has them, and a circuit is the
  relation that its assertions state; that the compiler builds the same function
  out of the same calls is `Compiler`. Words have four bits, `gf2_128_mul` is the
  same multiplication for a short polynomial: its table of taps is derived from
  the polynomial (`taps`), and x^128 + x^7 + x^2 + x + 1 gives the table of
  `logic.h:537`.
* **The circuits of mdoc** are relations between the document, the request and
  the MAC key in `MdocSession`; `MdocHash` has the hash circuit over bytes and
  indices, `Gadgets` the MAC, `Ecdsa` the signature. In `MdocSession` a proof,
  whoever made it, is accepted exactly if each commitment is to some witness,
  every message answers the challenges that the reader draws, and the witness
  satisfies the relation with the public inputs of the reader. That an accepted
  proof has such a witness is the soundness of the proof system, which is
  assumed; on small instances `Ligero` and `ZkSumcheck` show it of the protocol
  below. A message that answers its challenges right is one value per circuit. Nothing
  after the parsing looks at the namespace of an attribute (`mdoc_witness.h:93`), so
  documents in `MdocSession` have none, and no property says from which namespace a
  value comes.
* **What arrives.** `MerkleTree`, `ProofIO` and `MdocSession` take what the other
  side receives from a constant operator, `Arrivals`. The modules and their
  theorems assume nothing of it but that it yields sequences of digests, sequences of
  bytes, or records with the fields of a proof; the runs give it a finite value.
  In `Ligero`, `ZkSumcheck` and `CircuitIO` what arrives has at most one change.
* **One copy.** `ZkProof::write` and the zero-knowledge prover admit circuits
  of one copy only (`logc = 0`), so rounds over copies are not modelled.
* **Words** of the algebra kernels have two to four bits, so that every carry
  happens; base cases are reached and left at 2 (`kBasecase`) and 1
  (`kTransposeBasecase`). Limbs that the code never writes are parameters.
* **Keccak** is ideal in `HiddenPk`: a hash is the two numbers that the bytes
  spell. The proof system is what `ZkSumcheck` and `Ligero` show.
* **Bytes** are digits in a small base with fewer bytes per number, so that the
  limits of the formats are reached.

## 3. Runs

All runs take `-workers 2` and end within five minutes. `CHECK_DEADLOCK FALSE`
is set because every model is of calls that return.

| run | instance | states | question |
|---|---|---|---|
| `fiat_shamir` | two transcripts, one a clone; 3 data bytes, lengths 0, 1, 3; blocks of 2 bytes, 2 blocks | 1.0 M | is a challenge determined by, and bound to, what was absorbed |
| `merkle_tree` | trees of 1 to 5 leaves, up to 3 openings, any leaves claimed; every change of one digest or of the length, two digests exchanged, or all replaced | 4.5 M | does the verifier accept exactly the committed leaves |
| `ligero_param` | 192 argument tuples, dimensions up to 128, three contents of uninitialised fields | 79 K | are the dimensions consistent and minimal |
| `zk` | three machines side by side: the argument over the field of 11, 5 statements, every pair of columns, every change of one element; the sumcheck of two circuits of two layers, 15 instances, 28 sets of random elements, every change of one element; the sampler with every buffer of bytes | 1.1 M | is a proof accepted exactly if the statement holds; do both sides build the same constraints, and are they the sumcheck verifier; is every set of columns equally likely |
| `algebra` | two machines side by side: quadratic forms of up to 4 of 7 terms over the field of 7; and calls of the kernels: 28 instances of a prime field, a field of 2^16 elements with a subfield of 16, transforms of up to 32, extensions of up to 16, convolutions without roots of unity of up to 32 | 63 K | is every stored form the partial value of the terms; is each kernel what its definition says |
| `proof_io` | 4 opened cells of either kind, every path length, every one-byte change, cut and extension, and buffers that repeat one byte | 170 K | does the reader follow the writer, stay inside the buffer, and end |
| `mdoc_session` | three machines side by side: circuits of 1 and 2 attributes, versions 6 and 7, the honest session, every single deviation, and the proofs of another holder who commits to any two of three pairs of a document and MAC keys, one for each circuit; the decoder on trees of depth three in every width and on every three bytes of a set of 21; the hash circuit on documents of two items with identifiers of 1, 23 and 30 bytes, the pairs in every order, and every place in reach | 1.2 M | who is told what, and what does acceptance mean; does the decoder read what the bytes spell; is what is opened what was signed |
| `compiler` | programs of up to 4 nodes and 2 outputs, or 5 and 1; over the powers of an input, 1 more node and 2 outputs, or 2 and 1; field of 3; beside it 7 circuits at the limits of the file, every one-byte change, cut, extension | 154 K | is the circuit the program, whatever the order of its calls; does a reader get the circuit that was written, or none |
| `circuits` | four machines side by side: every call of a gadget on words of up to four bits, over the primes 13 and 251 and GF(2^4); SHA-256 over words of four bits, every length up to 3 blocks, every witness one change away; two curves over the field of 13 (a = 0 and a = -3), every command of a set, every assignment of the witness by another prover; CBOR documents of up to 27 bytes with the honest witness, and 523 byte strings of 3 to 12 with every witness | 395 K | is a gadget what it is named for; what does an accepted hash, MAC or signature mean; what can a witness make of a document |
| `mdoc_mismatch` | as `mdoc_session` | | *violation*: a reader with too many attributes is told so |
| `map_entry` | as `circuits` | | *violation*: a pair of a map is stated by its key and its value |
| `long_names` | as `mdoc_session` | | *violation*: a wallet can prove an attribute whatever its identifier |

Why the bounds suffice for what the runs ask:

* Five leaves is the first tree with leaves on two levels and an inner node
  whose children straddle them; three openings contain adjacent, distant and
  repeated positions. Beyond that the theorems of section 4 take over.
* Two stream blocks of two bytes hold every kind of draw: inside a block, across
  a boundary, up to and past the last one. Chunks of two zeros and lengths up to
  three give `write0` an exact, a short and a missing last chunk.
* In `zk`, `nw` and `nq` are and are not multiples of `w`, so that the last
  row of each group is full in some statements and partly filled in others.
* In `algebra` and `zk` arrays of the quadratic form have lengths 3 and
  4, so that a missing partner occurs; the forms of `algebra` have a corner
  twice. The circuits of `zk` contain assertions and two layers, so that the rows of
  neighbours overlap in their claim pads.
* The transforms are linear and the convolutions bilinear over their field, so
  unit vectors and powers of the points stand for all inputs of a size (the
  convolutions of `nussbaumer.h` from 8 elements on are given four pairs of
  vectors; a product of 32, with base cases at 4 and 2 in place of 64 and 4, is
  the smallest that calls its own transform again); the
  convolution modulo several primes is not, because it passes through integers,
  and is also called with the largest elements. Sizes go past both base cases
  and past sizes that are no power of two. Elements of the prime fields are the
  ends of the range, both middles and a few between; each prime has the form
  that its reduction step needs. The basis of the CRT is 17, 41, 73 with roots
  of order 8, which bounds `m` by 8 there (`Admissible`).
* In `circuits` the primes hold one and two words, since a gadget that adds
  words is used below the characteristic and at it. `assert_sum` is a sum modulo
  2^w, as its callers use it; sizes of the scans and of the rounds of a shift go
  past powers of two on both sides. Messages of SHA-256 go from empty past the
  length whose padding needs another block, up to those that no longer fit.
* In `mdoc_session` the other holder has the wallet's document, signed by the
  issuer the reader trusts, and one with other values and another issuer, so that
  some of his proofs are accepted, and those that prove the values of one document
  and the signature of another only the MACs stand against.
* In `mdoc_session` the bytes of the inputs to the decoder begin every kind of
  item in every width of its count, and a date is two bytes. The documents of
  the hash circuit contain random bytes and values that look like pairs, so that
  a holder has something to point at.
* The parser has four counters, so containers nest up to three deep in a document
  that is supported, and the documents go one and two deeper. The first counters
  of another prover are below the number of positions: one that is not cannot come
  down to zero (`FirstCounters`). The strings of all witnesses begin or end every
  kind of item, and the long ones have maps in maps, in arrays and as keys.
* The curves of `circuits`: the first curve has an order below p, like secp256k1, and bits
  beyond p, so that a number has two spellings; the second has an order above p
  and is given no r of p or more.
* In `compiler`, a copy wire over more than one layer needs depth three: the
  last two starts give the program the powers of an input. Its constraint
  `InputsFirst` only removes programs that declare inputs after computing.
* `MaxLog`, `MaxOut`, `MaxReq`, `MaxInputs`, the `limit` of a program and the
  lengths in `QuadBinding` are bounds of the models, not of the code. `MaxSize`,
  `MaxBlocks`, `MaxRunLen`, `KMaxLayers` and their like are constants of the code
  with small values.

**Fairness.** Only `ProofIO` needs it: `WF_vars(Next)` says that a call of
`write()` or `read()` runs to its end, which holds for a function on one thread.
The other modules have safety properties only; their loops count down.

**The violation runs.** `mdoc_mismatch` is a disagreement between the code and a
test that expects `MDOC_VERIFIER_ATTRIBUTE_NUMBER_MISMATCH` of a reader whose
attributes do not fit the circuit: with too many of them the process aborts in
`DenseFiller` before the comparison. `long_names`: `fill_attribute` gives the
circuit of version 7 the length of an encoded identifier with one byte of header,
and everything else counts two from 24 bytes on, so that no honest proof of, say,
`issuing_authority_unicode` is accepted. `map_entry`: `assert_map_entry` of the
parser circuit compares counters at three places of the prover's choice. Anything
inside the j-th value of a map has the counters asked of that value, and an empty
map, taken one level too high, has those of the array around it, whose next items
pass for its pair. `StatedIsInPair` says what does hold: key and value of a map
that is not empty are in the key and in the value of that pair.

Smaller disagreements met while reading, without a run of their own:
`mdoc_zk.cc:517` lists the document type in a byte layout that does not contain
it; `mdoc_zk.cc:585` says the version of a `ZkSpec` is not used, and lines 609
and 678 use it; `ZkProof::size()` (`zk_proof.h:78`) is not an upper bound of what
`write()` emits (it counts no nonces and no run lengths); a comment in
`ligero_test.cc:296` aims at the check `block_enc < dblock`, which theorem
`DblockCheckIsDead` shows never to decide; `circuit_maker.cc` optimises
`block_enc` for the parameters of the older versions also for version 7; `zk_proof.h:56` says
that a run has at most 2^25 elements and `write()` (line 164) emits runs of that
length, which `read()` (line 312) refuses; `hidden_pk_circuit.h:78` says that the
bits faithfully encode the key, but the 256 bits are compared modulo p, so a
coordinate below 2^256 - p has two spellings (the property `AcceptedIsRelation`
says so); `convolution.h` (lines 31, 77 and 153) promises the first m entries of
the product, but with a padding below m + n - 1 the first n - 1 of them have
wrapped, which is harmless because `ReedSolomon` reads from n on;
`FFTExtConvolution` with a padding of one writes element 1 of an array of one
element (`Admissible`); the circuit of `ecdsa` does not assert that e is not zero
(`verify_circuit.h:87`); `addE` for a general a doubles when only the second
coordinates agree, and a general a is used by a test only (no run instantiates it);
`CborDoc::length()` aborts for arrays, maps and negative numbers and is called
for every element of a document, also for those not asked for, so that a wallet
whose document discloses `driving_privileges` stops (`MdocHash` has this as a
state of its own); `CborDoc::decode` adds `offset` to the header position of an
item and not to the position of its string (every caller passes zero), accepts
bytes after the document, and `length()` takes for granted that counts are in
the fewest bytes; `transform_and_witness_message` does not check that the padded
message fits the array, which its caller checks for the MSO (`mdoc_witness.h:744`)
and not for an attribute, of which two blocks hold 119 bytes; the result of
`vleq(nb, kMaxSHABlocks)` in `mdoc_hash.h:186` is not used, so that the number of
blocks is bounded only by the selection in `assert_hash`; the circuit compares
the low eight bits of the lengths of identifier and value only; a device key
whose second coordinate comes before the first is found by the parser and refused
by the circuit. In the parser circuit the counters after the first byte are not
checked against that byte (`cbor.h:266`): a document that is one map followed by
other items may be read as a map of another size, which a caller excludes by the
padding or by the end of the document; `assert_bool_at` cannot be used with the
witness there is, because `compute_witnesses` stops at every special value (`cbor_witness.h:245`);
`assert_date_before_at` and its sibling pass `B[2]` for an address (line 459) and
compile only because nothing instantiates them, so `CborParser` has no dates.

## 4. Proofs

Seven modules of theorems and one of lemmas about sequences, checked by `tlapm`
without assumptions beyond the named `ASSUME`s of the modules they are about:
26716 obligations. Each follows the same pattern: an inductive invariant, one
lemma per action that it is kept, and the theorems from it. 19 of the runs'
properties are theorems.

* **`FiatShamirProofs`** (`TypeCorrect`, `ChallengesAreReplayable`,
  `ChallengesAreFresh`, `BlockLimit`, `ChallengesBind`, `EncodingIsInjective`),
  for any alphabet, lengths, block size and number of blocks. `StreamPosition` is
  not inductive by itself: the next byte is right only if the read pointer and the
  block counter are where the number of bytes drawn puts them (`BlocksUsed`,
  `BlocksInRange`), and it is new only if every byte handed out lies behind that
  point (`OutBehind`). `EncodingIsInjective` reads the hashed bytes from the front:
  tag and length say where the message ends (`OneReading`, `EncodingReads`), so a
  sequence of bytes divides into typed writes in one way (`DividedOnce`, by
  induction on its length), and what a transcript hashed is so divided (`Absorbed`).
* **`MerkleTreeProofs`** (`TypeCorrect`, `RootAlwaysInTree`, `HonestAccepted`,
  `OnlyCommittedAccepted`, `ProofIsUnique`, `ProofIsBounded`), for every number of
  leaves, every list of openings and every sequence of digests received (any length,
  any digests; a digest is its preimage, so that two preimages never collide). There
  is one invariant per loop: what is built, marked, emitted, read and recomputed for the nodes above
  the index, and the equations of the earlier loops kept along. Binding comes from
  the recomputation: a node whose digest matches the committed one has children
  that match. `HonestAccepted` and `ProofIsUnique` compare the position in the
  proof at which the generator and the reader meet each node (history variable
  `at`). `ProofIsBounded`: each digest of the proof is the sibling of a node on the
  way from an opened leaf to the root (`MarkedIsOnAWay`), a way has as many nodes as
  the number of leaves has halvings, and the root has no sibling.
* **`LigeroParamProofs`** (`TypeCorrect`, `NoObjectFromAFailedSearch`,
  `ObjectsAreWellFormed`, `DblockCheckIsDead`, `SearchFindsSmallest`), for all sizes
  and arguments with a rate of at least one whose first block fits
  (`ArgsAssumption`). The lemmas follow `layout()`: which differences are natural
  once the checks before them passed, that the rate leaves room for `dblock`, and
  that an accepted layout has the documented dimensions. For the search the
  invariant `Smallest` says that the best so far is below everything tried, and
  `Doubling` that what was tried are the powers of two below the current one.
* **`MdocSessionProofs`**. First, for all circuits, the order of writes and draws
  (`ProverReplays`, `LigeroReplays`, `LastDrawIsLast`): both are lists, and the lists
  of prover and verifier are the same, layer by layer and round by round.
  `ProverReplays` needs a round somewhere: the verifier of a circuit without any
  would write nothing where the prover does. Then the session (`SuccessMeansTruth`,
  `DrawingsAreLate`, `HonestSessionSucceeds`), for every circuit, document, pair of
  calls (`CallsAssumption`) and proof that arrives, in whatever framing, whoever made
  it. `SuccessMeansTruth` rests on the ideal verifier (the witness of each accepted
  circuit satisfies it) and on the MACs: both circuits have the MACs of the proof,
  under the key that was drawn, so they are about one document, and the reader's
  statement is the conjunction of the two. Whose proof it is cannot matter, except
  for one with the answers of the wallet: answers name the log they were drawn after,
  whose second, third and fifth entries are the commitments and the public inputs
  (`AnswersName`, from `FirstWritesComeFirst`), so it is the wallet's in every field
  (`AcceptedWasSent`). `IInv` says of
  each place in the two functions what the checks passed so far mean: `WalletInv`,
  `HandOver`, `ReaderInv`. `ReaderTranscript` and `WalletTranscript` say what each
  transcript holds; acceptance makes them agree, which puts every draw behind the
  writes it must depend on. `HonestSessionSucceeds` needs that the number of public
  inputs tells the version and the number of attributes
  (`SameVersionSameLayout`). It does only below 97 attributes: 98 attributes of
  version 6 fill as many inputs as 97 of version 7. `MaxAttributes` therefore is 96;
  the circuits in `zk_spec.cc` have four.
* **`ProofIOProofs`** (`ReaderIsSafe`, `WhatIsWrittenIsRead`), for every field,
  digit base, list of layers, size of the Ligero vectors and mix of full-field and
  subfield cells. `ReaderIsSafe` is about every sequence of bytes that may arrive; it
  is the invariant `Inside`: positions are within
  the buffer and the columns, and both proofs have their types. For
  `WhatIsWrittenIsRead` the writer leaves a trail, the places it passed (section,
  cell, kind of run, position in the buffer) with the bytes between them; the reader
  is on that trail at every step and holds what the writer had behind it
  (`OnTrail`). `RoundTrip` has the two conditions under which the code keeps the
  promise: no run has 2^25 elements (`ShortRuns`; `write()` emits such a run and
  `read()` refuses it) and the path has an admissible length (`PathInRange`). That
  the paths of honest proofs do have one is `ProofIsBounded`.
* **`CircuitProofs`**, the file (`FileTheorem`, `FollowHolds`), for all widths of bytes and
  numbers (`WidthsAssumption`: an element fits its bytes), corners that hold every
  number of the file and divide the range of `size_t` (`RangesAssumption`) and lists
  of circuits that the rest of the library could evaluate (`CircuitsAssumption`).
  `Inside` is the invariant of a reader of a file as it was written, cut, extended or
  with one byte changed: what is read so far is a
  circuit with an unfinished last layer, the table has what each term refers to, and
  the terms add up to wires that were checked before they became differences
  (`ReadSoFar`). Differences are modulo the corners and indices modulo the range of
  `size_t`; that one divides the other is what makes the sums agree
  (`CornerReadsBack`). It gives `AcceptedIsCircuit`, and `EnforcedIdBinds` with it.
  `Follow` is the invariant of a reader of an unaltered file: `next` is the place in
  the file (`At`, the layout) of the constant, layer or term that comes next, and
  what was read is what was written up to there (`Followed`). Below it are that
  digits read back (`ReadsBack`), that a coefficient is found at the number it was
  stored under (`KloadIs`), and that `dedup` returns an entry of the table that holds
  the difference it was asked for, whichever slot it was in (`DedupIs`).
* **`CompilerProofs`** (`SimplifierTheorem`), for every modulus above one, prime or
  not, every set of constants, every number of inputs and every program the builder
  may have been given before (`StartsAssumption`: its nodes are typed and in
  order); `FieldAssumption` is not used.
  `SimplifierIsSound` says of each call only that it was right when it returned; the
  invariant `CompilerInvariant` says what the calls rely on: nodes are numbered
  without gaps, terms are over earlier nodes that are not empty sums, in strict
  order and with the right depth (`Ok`), node 0 carries 1, and `value` is what the
  nodes compute (`Carries`). A call is an operator on lists of nodes; a lemma for
  each (`Mul2Call`, `Mul3Call`, `AddCall`, `SubCall`, `AxpyCall`, `ApyCall`,
  `KonstCall`, `AssertCall`) says that it extends the list and returns a wire with
  the right value under every assignment of values to nodes that agrees with what
  they compute. Below them are `PushNode` (a node found by its hash has the same
  terms, whatever was marked since), `Peeled` (seen through linear nodes, a wire is
  a coefficient times another) and `MergeStep`, the invariant of the loop of
  `merge()`: the terms taken are in order, come before those left, and sum to what
  was taken; and the laws of the ring of integers modulo `P`. What an assertion node
  computes is never used, only that it stays a node in order.
* **`CircuitProofs`**, the scheduler (`CircuitTheorem`), for every prime modulus
  (`FieldAssumption`: no divisors of zero), every number of inputs and nodes that
  corners can number (`CornersAssumption`), every program, and every program the
  builder may have been given before as long as it asserted and showed nothing
  (`Untouched`). Half of it is in `CompilerProofs` and speaks of one list of nodes, as
  `mkcircuit()` finds it (`Program`). `compute_needed` is shown to mark every operand
  of what it marks at the depth where it is read, and the constant under every copy
  (`Plan`, `ComputeNeeded`). A layer is `Evaluable` over the one below when its
  terms are over wires that are alive there; then sorting, numbering,
  `canonicalize`, `compress` and `iterate` leave a quad whose sum at each wire is
  what the node computes and whose checks are the assertions of that layer
  (`LayerMeans`; the rows of the nodes are the parts of the sorted array, `PartsCover`,
  and no two terms of a row are over the same wires, so that nothing coalesces). Layer by
  layer this gives `CircuitRuns`: a run of the circuit carries on every wire the
  value of its node. `SatisfiedIff` is then about what lives where: an assertion is
  alive in the layer above the wire it asserts, or is made an output if that layer
  does not exist, and every output is alive in the last layer. That the numbers
  of outputs are the places the sort gives them (`NumbersInPlace`), and that no two
  nodes of a layer are alike after renaming (`SameRows`, `NoTwinRows`), is what tidy
  programs need to pass the checks. The other half is the invariant
  `ProgramInvariant`: while a program is built, inputs are numbered apart, terms
  without coefficient occur in assertions only, what is asserted has an assertion
  node, each output carries a multiple of a wire that was shown (another wire may be
  folded onto the node of one, so "is shown" would not be inductive), and until a
  tidy program shows its first output all nodes have the hash they were entered
  under and are pairwise different (`Frames`). There is one lemma for each call that
  it is kept, along the calls of `push_node` it makes.
* **`SequenceLemmas`**: induction over the natural numbers from the
  well-foundedness of their order, for a set instead of a predicate (`LeastNumber`,
  `Induction`), and what the operators of `SequencesExt` return. Facts that need
  induction over sequences go through it: a recursive function is fixed by its
  equations, level by level.

The type invariants of `FiatShamir` and `MerkleTree` and the freshness of stream
bytes (`NoByteTwice`) are only proved and checked by no run. What stays with TLC:

* liveness (`Terminates` of `ProofIO`), out of the prover's reach;
* properties of modules that reach a `RECURSIVE` operator or `Bitwise`, which the
  SMT backend does not take: `Fft`, `Montgomery`, `Gf2k`, `Gadgets`, `Sha256`,
  `Ecdsa`, `HostDecoder` and what is built on them (`FormsAreFunctions`,
  `FieldsAreFields`, `TransformsAreEvaluation`, `ExtensionIsEvaluation`,
  `LogicIsExact`, `RoutingIsShift`, `EncodingsAgree`, `MacBinds`,
  `ShaProvesPreimage`, `AcceptedIsRelation`, `CommandIsExact`, `DecoderIsExact`,
  `OpenedIsSigned`);
* statements about one field or one set of columns at a time, where the general
  one is the soundness of a polynomial argument and only holds up to a
  probability: `AcceptedIffLinear`, `HonestIsAccepted`, `ConstraintsAreVerifier`,
  `ClaimIsCubeSum`, `ChoiceIsUniform`;
* the independence of the order of calls (`OrderIndependent`), for which the sort
  would have to be shown to give two lists of the same nodes the same order, and the
  parser (`ParserIsExact`); nothing puts these two out of reach.

## 5. Not modelled

* The first parser circuit (`cbor_parser`), which computes with segmented scans
  what the second takes from witnesses; base64 and JWT. No circuit of the mdoc
  session uses them (it uses their byte decoder, `CborByteDecoder`).
* The hash circuit of version 6, and the signature circuit as a whole: ideal
  relations of `MdocSession`; its parts are `Ecdsa` and `Gadgets`.
* `algebra`: `fp24`, which only tests use; the 32-bit forms of the reduction steps and the assembler forms of the sums; the
  forms of `gf2k` with carry-less multiplication instructions.
* The engine behind `RandomEngine` of the prover, a call of the operating system.
* The parsing of the outer document down to its items: `MdocSession` takes its
  result, `MdocHash` begins at the items and the MSO.
* The Go service, command-line drivers, logging, compression of circuits.
* The stand-alone sumcheck protocol and circuits of several copies.
* Telemetry of the compiler and a second `mkcircuit()` on one builder.

## 6. Plan

Done, in this order: `FiatShamir`, `MerkleTree`, `ProofIO`, `MdocSession` with
`ZkProtocol`, `LigeroParam`, `Ligero`, `Quad` with `QuadBinding`, `ZkSumcheck`,
`Compiler`, `CircuitIO`; proofs about the first, the second and `LigeroParam`;
`EllipticCurve`, `Ecdsa`, `HiddenPk`; the algebra kernels; `Logic`, `Gadgets`,
`Sha256`, `Sampling`, `HostDecoder`, `MdocHash`, `CborParser`, each beside the machine it serves.

Also done: proofs about sessions, the order of writes and draws, the formats of
proofs and circuits, the encoding of messages, the length of Merkle proofs and the search for
parameters, the simplifications and the scheduler of the compiler; Nussbaumer's
convolution.

Next, proving: `choose` as an invariant of its loop (`Sampling`: the numbers
chosen are distinct and below n for every k and n); that pad indices of neighbouring layers overlap only in the
claim pads (`ZkSumcheck`).

Extending the model further: the hash circuit of version 6.
