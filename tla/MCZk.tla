--------------------------------- MODULE MCZk ---------------------------------
(* The two halves of the proof system and the draw that both rest on, as   *)
(* machines that do not interact, in one run: the argument for the         *)
(* constraints (Ligero), the sumcheck that makes them (ZkSumcheck) and     *)
(* the drawing of the columns that are opened (Sampling).                  *)
(*                                                                         *)
(* Ligero: rows of eleven elements of which two are random, two witnesses  *)
(* and four can be opened: three witnesses leave a row half empty, three   *)
(* quadratic constraints need two triples of rows.                         *)
EXTENDS Ligero

Term(c, x, k) == [c |-> c, w |-> x, k |-> k]
Lqc(x, y, z) == [x |-> x, y |-> y, z |-> z]
Vec(seq) == [i \in 0..(Len(seq) - 1) |-> seq[i + 1]]

One(wit) ==
  [nw |-> 3, nl |-> 2, wit |-> Vec(wit),
   llterm |-> <<Term(0, 0, 1), Term(0, 1, 1), Term(1, 2, 3), Term(0, 2, 10), Term(0, 2, 2)>>,
   lqc |-> <<Lqc(0, 1, 2)>>]

Three(wit) ==
  [nw |-> 3, nl |-> 1, wit |-> Vec(wit),
   llterm |-> <<Term(0, 2, 4)>>,
   lqc |-> <<Lqc(0, 1, 2), Lqc(0, 0, 0), Lqc(2, 0, 1)>>]

None(wit) ==
  [nw |-> 5, nl |-> 2, wit |-> Vec(wit), llterm |-> <<Term(0, 4, 1), Term(1, 1, 5)>>,
   lqc |-> <<>>]

MCStatements ==
  {One(<<2, 3, 6>>), One(<<2, 3, 5>>), Three(<<1, 7, 7>>), Three(<<1, 7, 6>>),
   None(<<1, 0, 10, 4, 9>>)}

MCNoise(s, i, j) == ((s * ((3 * i) + (5 * j) + 1)) + (i * j * j)) % P

(* two vectors, one without zeros *)
MCVectors(n) ==
  {[i \in 0..(n - 1) |-> (i + 1) % P], [i \in 0..(n - 1) |-> (7 * i * i) % P]}

MCOpenings == {Vec(<<i, j>>) : i \in 0..3, j \in 0..3} \ {Vec(<<i, i>>) : i \in 0..3}

-----------------------------------------------------------------------------
(* Columns drawn from bytes of four values, up to three of six              *)
VARIABLES number, count, array, drawn, refused
drawVars == <<number, count, array, drawn, refused>>

D == INSTANCE Sampling WITH
       Byte <- 4, MaxN <- 6, MaxRejects <- 1, n <- number, k <- count, A <- array,
       res <- drawn, rejects <- refused

-----------------------------------------------------------------------------
(* ZkSumcheck: two circuits of two layers: x * x = a with two input bits,   *)
(* and x * y = z, y * z = 0 with an assertion x * z = 0 on three inputs.    *)
Q == INSTANCE Quad WITH P <- 7, Width <- 4, Corners <- 16
Gate(g, a, b, v) == [g |-> g, h |-> <<a, b>>, v |-> v]
Layer(nw, lw, terms) == [nw |-> nw, logw |-> lw, quad |-> Q!canonicalize(terms)]

(* inputs 1, a | x *)
OneSquare ==
  [nv |-> 1, logv |-> 0, ninputs |-> 3, npub_in |-> 2,
   l |-> <<Layer(2, 1, <<Gate(0, 0, 1, 3)>>),
           Layer(3, 2, <<Gate(1, 2, 2, 1), Gate(0, 0, 0, 2), Gate(1, 1, 0, 6)>>)>>]

(* inputs 1 | x, y, z *)
TwoProducts ==
  [nv |-> 2, logv |-> 1, ninputs |-> 4, npub_in |-> 1,
   l |-> <<Layer(3, 2, <<Gate(0, 0, 1, 1), Gate(1, 2, 0, 3), Gate(0, 2, 2, 0)>>),
           Layer(4, 2, <<Gate(0, 0, 0, 1), Gate(1, 1, 2, 1), Gate(1, 3, 0, 6),
                         Gate(2, 2, 3, 1), Gate(0, 1, 3, 0)>>)>>]

Instance(c, inp, com) == [cir |-> c, inp |-> Vec(inp), com |-> Vec(com)]

ZkInstances ==
  {Instance(OneSquare, <<1, a, x>>, <<1, a, x>>) : a \in {2, 3}, x \in {3, 4}}
  \union {Instance(OneSquare, <<1, 2, 3>>, <<1, 2, y>>) : y \in {0, 4}}
  \union {Instance(TwoProducts, <<1, x, y, z>>, <<1, x, y, z>>) :
            x \in {0, 2}, y \in {0, 3}, z \in {0, 5}}
  \union {Instance(TwoProducts, <<1, 0, 3, 0>>, <<1, 1, 3, 0>>)}

ZkNoise(s, k) == ((s * k * k) + (3 * k) + (s \div 2)) % 7

ZkSeeds ==
  {[pad |-> p, ch |-> c, fresh |-> f] : p \in {0, 3}, c \in 0..6, f \in {3, 6}}

VARIABLES
  z_pc, role, z_st, z_seed, z_number, witness, pads, wires, z_proof,
  bound_quad, cube, ly, step, cl, ch, wh, hq, got, pub, same, changed,
  expr, pi, rows, prows, claim, verdict
sumVars ==
  <<z_pc, role, z_st, z_seed, z_number, witness, pads, wires, z_proof,
    bound_quad, cube, ly, step, cl, ch, wh, hq, got, pub, same, changed,
    expr, pi, rows, prows, claim, verdict>>

S == INSTANCE ZkSumcheck WITH
       P <- 7, Width <- 4, Corners <- 16, Instances <- ZkInstances, Seeds <- ZkSeeds,
       Noise <- ZkNoise, Deltas <- {1, 5}, pc <- z_pc, st <- z_st, seed <- z_seed,
       number <- z_number, proof <- z_proof

-----------------------------------------------------------------------------
DrawOff == number = 0 /\ count = 0 /\ array = <<>> /\ drawn = <<>> /\ refused = 0
(* provers that have stopped *)
ProofOff ==
  /\ pc = "panic" /\ st = <<>> /\ seed = 0 /\ tableau = <<>> /\ proof = <<>> /\ tp = <<>>
  /\ want = <<>> /\ altered = <<"none">> /\ tv = <<>> /\ why = "invalid quadratic constraints"
SumOff ==
  /\ z_pc = "off" /\ role = "off" /\ z_st = <<>> /\ z_seed = 0 /\ z_number = 0
  /\ witness = <<>> /\ pads = <<>> /\ wires = <<>> /\ z_proof = <<>> /\ bound_quad = <<>>
  /\ cube = <<>> /\ ly = 0 /\ step = 0 /\ cl = <<>> /\ ch = <<>> /\ wh = <<>>
  /\ hq = <<>> /\ got = <<>> /\ pub = <<>> /\ same = TRUE /\ changed = <<"off">>
  /\ expr = <<>> /\ pi = 0 /\ rows = <<>> /\ prows = <<>> /\ claim = 0 /\ verdict = "off"

MCInit ==
  \/ Init /\ DrawOff /\ SumOff
  \/ ProofOff /\ D!Init /\ SumOff
  \/ ProofOff /\ DrawOff /\ S!Init
MCNext ==
  \/ Next /\ UNCHANGED <<drawVars, sumVars>>
  \/ D!Next /\ UNCHANGED <<vars, sumVars>>
  \/ S!Next /\ UNCHANGED <<vars, drawVars>>
MCSpec == MCInit /\ [][MCNext]_<<vars, drawVars, sumVars>>

(* Every choice of columns is drawn by as many streams: see Sampling *)
ChoiceIsUniform == (number # 0) => D!ChoiceIsUniform
(* The machine of the sumcheck is the one that runs *)
Sums == z_pc # "off"
(* Honest proofs satisfy the constraints of both sides: see ZkSumcheck *)
HonestIsAccepted == Sums => S!HonestIsAccepted
(* The constraints are the verifier without padding: see ZkSumcheck *)
ConstraintsAreVerifier == Sums => S!ConstraintsAreVerifier
(* The claims are the sums over the wires not yet bound: see ZkSumcheck *)
ClaimIsCubeSum == Sums => S!ClaimIsCubeSum
==============================================================================
