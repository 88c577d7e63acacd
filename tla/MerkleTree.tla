---------------------------- MODULE MerkleTree ----------------------------
(***************************************************************************)
(* The Merkle tree of src/lib/merkle/merkle_tree.h and the commitment      *)
(* built on it (merkle_commitment.h): a prover commits to n leaves, opens  *)
(* a list of positions with one compressed proof, and a verifier that      *)
(* holds the root checks the leaves it is shown.  The tree is a heap: node *)
(* k has children 2k and 2k+1, the leaves are nodes n..2n-1, the root is   *)
(* node 1.  Each loop over the inner nodes runs i = n-1, ..., 1 and is one *)
(* action per turn.                                                        *)
(*                                                                         *)
(* SHA-256 is ideal: the digest of two digests is the pair of them.  A     *)
(* leaf digest stands for the hash of a nonce and a column.                *)
(***************************************************************************)
EXTENDS Naturals, Sequences

CONSTANTS
  Sizes,         \* numbers of leaves
  LeafDigest,    \* what a leaf may hash to
  Zero,          \* Digest{}
  MaxReq,        \* bound: length of the list of positions of an opening
  Arrivals(_, _) \* the proofs that may arrive where this one was sent and
                 \* these digests exist

ASSUME SizesAssumption == Sizes \subseteq Nat \ {0}
ASSUME MaxReqAssumption == MaxReq \in Nat

VARIABLES
  pc,        \* the loop that runs
  i,         \* its index
  n,         \* n_ of both sides
  leaf,      \* the leaves the prover committed to
  layers,    \* MerkleTree::layers_
  pos,       \* pos[0..np)
  tree,      \* compressed_merkle_proof_tree(n, pos, np)
  proof,     \* the compressed proof
  at,        \* history: at[k] is the length of proof when node k's turn came
  claim,     \* leaves[0..np) as the verifier hashed them
  recv,      \* the proof as the verifier received it
  sz,        \* digests of recv read
  seen,      \* the verifier's layers
  defined,   \* the verifier's defined
  verdict    \* what verify_compressed_proof returns

prover   == <<leaf, layers>>
opening  == <<n, pos, tree>>
verifier == <<claim, recv, sz, seen, defined, verdict>>
vars == <<pc, i, prover, opening, proof, at, verifier>>

Nodes == 0..(2 * n - 1)

Hash2(l, r) == <<l, r>>

(* merkle_tree_len(n): halvings of 2n-1 down to 1, plus one *)
Halvings[k \in Nat] == IF k > 1 THEN 1 + Halvings[k \div 2] ELSE 0
MerkleTreeLenShort(k) == Halvings[2 * k - 1]   \* mutant: off by one
MerkleTreeLen(k) == 1 + Halvings[2 * k - 1]

-----------------------------------------------------------------------------
(* The check()s of compressed_merkle_proof_tree *)
Undefined(p) ==
  \/ p = <<>>
  \/ \E a \in DOMAIN p : p[a] >= n
  \/ \E a, b \in DOMAIN p : a # b /\ p[a] = p[b]

(* mutant: the other child is not tried *)
ChildLeft(k) == 2 * k

(* The child of a tree node that is not in the tree goes into the proof. *)
Child(k) == IF tree[2 * k] THEN 2 * k + 1 ELSE 2 * k
MissingAlways(k) == tree[k]   \* mutant: also a child that can be deduced
Missing(k) == tree[k] /\ ~tree[Child(k)]

-----------------------------------------------------------------------------
(* MerkleTree::build_tree, one turn *)
BuildNode ==
  /\ pc = "build" /\ i > 0
  /\ layers' = [layers EXCEPT ![i] = Hash2(layers[2 * i], layers[2 * i + 1])]
  /\ i' = i - 1
  /\ UNCHANGED <<pc, leaf, opening, proof, at, verifier>>

Built ==
  /\ pc = "build" /\ i = 0
  /\ pc' = "open"
  /\ UNCHANGED <<i, prover, opening, proof, at, verifier>>

(* MerkleCommitment::open on a list of positions: mark the leaves *)
Open ==
  /\ pc = "open"
  /\ \E np \in 0..MaxReq : \E p \in [1..np -> 0..n] :
       /\ ~Undefined(p)
       /\ pos' = p
       /\ tree' = [k \in Nodes |-> \E a \in DOMAIN p : k = p[a] + n]
  /\ pc' = "tree" /\ i' = n - 1
  /\ UNCHANGED <<n, prover, proof, at, verifier>>

(* no positions, a position that is no leaf, a position twice *)
OpenUndefined ==
  /\ pc = "open"
  /\ \E np \in 0..MaxReq : \E p \in [1..np -> 0..n] : Undefined(p)
  /\ pc' = "aborted"
  /\ UNCHANGED <<i, prover, opening, proof, at, verifier>>

TreeNode ==
  /\ pc = "tree" /\ i > 0
  /\ tree' = [tree EXCEPT ![i] = tree[2 * i] \/ tree[2 * i + 1]]
  /\ i' = i - 1
  /\ UNCHANGED <<pc, n, pos, prover, proof, at, verifier>>

TreeDone ==
  /\ pc = "tree" /\ i = 0
  /\ pc' = "generate" /\ i' = n - 1
  /\ UNCHANGED <<prover, opening, proof, at, verifier>>

(* generate_compressed_proof, one turn *)
GenerateNode ==
  /\ pc = "generate" /\ i > 0
  /\ proof' = IF Missing(i) THEN Append(proof, layers[Child(i)]) ELSE proof
  /\ at' = [at EXCEPT ![i] = Len(proof)]
  /\ i' = i - 1
  /\ UNCHANGED <<pc, prover, opening, verifier>>

IsSequence(q) == q \in Seq({q[k] : k \in DOMAIN q})

(* The verifier gets leaves and a proof, the prover's or any others.       *)
(* Nothing is assumed of Arrivals, only that a proof is a sequence.  The   *)
(* verifier computes the same tree from the same n and pos.                *)
Receive ==
  /\ pc = "generate" /\ i = 0
  /\ claim' \in [DOMAIN pos -> LeafDigest]
  /\ \E q \in Arrivals(proof, LeafDigest \union {layers[k] : k \in 1..(2 * n - 1)})
              \union {proof} :
       IsSequence(q) /\ recv' = q
  /\ pc' = "read" /\ i' = n - 1
  /\ UNCHANGED <<prover, opening, proof, at, sz, seen, defined, verdict>>

(* verify_compressed_proof: read the proof, one turn *)
ReadNode ==
  /\ pc = "read" /\ i > 0
  /\ Missing(i) => sz < Len(recv)
  /\ IF Missing(i)
     THEN /\ seen' = [seen EXCEPT ![Child(i)] = recv[sz + 1]]
          /\ defined' = [defined EXCEPT ![Child(i)] = TRUE]
          /\ sz' = sz + 1
     ELSE UNCHANGED <<seen, defined, sz>>
  /\ i' = i - 1
  /\ UNCHANGED <<pc, prover, opening, proof, at, claim, recv, verdict>>

TooShort ==
  /\ pc = "read" /\ i > 0
  /\ Missing(i) /\ sz >= Len(recv)
  /\ verdict' = FALSE
  /\ pc' = "done"
  /\ UNCHANGED <<i, prover, opening, proof, at, claim, recv, sz, seen, defined>>

(* set layers at all leaves in pos *)
SetLeaves ==
  /\ pc = "read" /\ i = 0
  /\ seen' = [k \in Nodes |-> IF \E a \in DOMAIN pos : k = pos[a] + n
                              THEN claim[CHOOSE a \in DOMAIN pos : k = pos[a] + n]
                              ELSE seen[k]]
  /\ defined' = [k \in Nodes |-> defined[k] \/ \E a \in DOMAIN pos : k = pos[a] + n]
  /\ pc' = "recompute" /\ i' = n - 1
  /\ UNCHANGED <<prover, opening, proof, at, claim, recv, sz, verdict>>

Recomputable(k) == defined[2 * k] /\ defined[2 * k + 1]

RecomputeNode ==
  /\ pc = "recompute" /\ i > 0
  /\ IF Recomputable(i)
     THEN /\ seen' = [seen EXCEPT ![i] = Hash2(seen[2 * i], seen[2 * i + 1])]
          /\ defined' = [defined EXCEPT ![i] = TRUE]
     ELSE UNCHANGED <<seen, defined>>
  /\ i' = i - 1
  /\ UNCHANGED <<pc, prover, opening, proof, at, claim, recv, sz, verdict>>

(* mutant: any root the verifier could recompute is accepted *)
AcceptDefined == defined[1]

(* root_ is the digest build_tree returned *)
Accept == defined[1] /\ layers[1] = seen[1]

Decide ==
  /\ pc = "recompute" /\ i = 0
  /\ verdict' = Accept
  /\ pc' = "done"
  /\ UNCHANGED <<i, prover, opening, proof, at, claim, recv, sz, seen, defined>>

Init ==
  /\ pc = "build"
  /\ n \in Sizes
  /\ i = n - 1
  /\ leaf \in [0..(n - 1) -> LeafDigest]
  /\ layers = [k \in Nodes |-> IF k >= n THEN leaf[k - n] ELSE Zero]
  /\ pos = <<>>
  /\ tree = [k \in Nodes |-> FALSE]
  /\ proof = <<>>
  /\ at = [k \in Nodes |-> 0]
  /\ claim = <<>> /\ recv = <<>> /\ sz = 0
  /\ seen = [k \in Nodes |-> Zero]
  /\ defined = [k \in Nodes |-> FALSE]
  /\ verdict = FALSE

Next ==
  \/ BuildNode \/ Built
  \/ Open \/ OpenUndefined \/ TreeNode \/ TreeDone
  \/ GenerateNode \/ Receive
  \/ ReadNode \/ TooShort \/ SetLeaves \/ RecomputeNode \/ Decide

Spec == Init /\ [][Next]_vars

-----------------------------------------------------------------------------
(* The bound on what arrives in the instances that are checked: the proof  *)
(* with one digest changed, one more, the last one gone, two exchanged, or *)
(* all of them another one                                                 *)
Changed(p, known) ==
  {[p EXCEPT ![a] = d] : a \in DOMAIN p, d \in known}
  \union {Append(p, d) : d \in known}
  \union {SubSeq(p, 1, Len(p) - 1)}
  \union {[p EXCEPT ![a] = p[b], ![b] = p[a]] : a, b \in DOMAIN p}
  \union {[a \in DOMAIN p |-> d] : d \in known}

-----------------------------------------------------------------------------
(* The loops stay inside the heap and the proof is read within its length. *)
TypeOK ==
  /\ pc \in {"build", "open", "aborted", "tree", "generate", "read",
             "recompute", "done"}
  /\ n \in Sizes
  /\ i \in 0..(n - 1)
  /\ leaf \in [0..(n - 1) -> LeafDigest]
  /\ DOMAIN layers = Nodes /\ DOMAIN seen = Nodes
  /\ pos \in Seq(0..(n - 1))
  /\ tree \in [Nodes -> BOOLEAN] /\ defined \in [Nodes -> BOOLEAN]
  /\ at \in [Nodes -> Nat]
  /\ sz \in 0..Len(recv)
  /\ verdict \in BOOLEAN

Honest == recv = proof /\ claim = [a \in DOMAIN pos |-> leaf[pos[a]]]

(* The tree always reaches the root: the final check() of                  *)
(* compressed_merkle_proof_tree, for every n (also no power of two) and    *)
(* every list of positions.                                                *)
RootInTree == pc \in {"generate", "read", "recompute", "done"} => tree[1]

(* Completeness: the verifier accepts what generate_compressed_proof made  *)
(* for the committed leaves.  The proof is never too short, and every node *)
(* the verifier needs can be recomputed.                                   *)
Completeness == pc = "done" /\ Honest => verdict

(* Binding: an accepted opening shows exactly the committed leaves,        *)
(* whatever proof came with it.                                            *)
Binding ==
  pc = "done" /\ verdict => \A a \in DOMAIN pos : claim[a] = leaf[pos[a]]

(* An accepted proof starts with the honest one: what follows it is not    *)
(* read.                                                                   *)
ProofDetermined ==
  pc = "done" /\ verdict =>
    Len(recv) >= Len(proof) /\ \A a \in DOMAIN proof : recv[a] = proof[a]

(* The comment on MerkleProof::path: its size is below nreq times the      *)
(* length merkle_commitment_len() gives, the bound the proof parser uses.  *)
ProofBounded ==
  pos # <<>> => Len(proof) < Len(pos) * MerkleTreeLen(n)
=============================================================================
