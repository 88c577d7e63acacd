------------------------- MODULE MerkleTreeProofs -------------------------
(***************************************************************************)
(* The verifier of src/lib/merkle/merkle_tree.h accepts every honest       *)
(* opening and no other leaves, for every number of leaves (any n > 0, not *)
(* only powers of two) and every list of positions.                        *)
(***************************************************************************)
EXTENDS MerkleTree, SequenceLemmas, SequenceTheorems, FiniteSetTheorems, TLAPS

Inner == 1..(n - 1)
Heap == 1..(2 * n - 1)
OpenLeaf(k) == \E a \in DOMAIN pos : k = pos[a] + n

(* The digests of the committed tree *)
Committed == {layers[k] : k \in Nodes}

Opened == pc \in {"tree", "generate", "read", "recompute", "done"}
Marked == pc \in {"generate", "read", "recompute", "done"}
Generated == pc \in {"read", "recompute", "done"}

Types ==
  /\ TypeOK
  /\ layers = [k \in Nodes |-> layers[k]]
  /\ seen = [k \in Nodes |-> seen[k]]
  /\ proof \in Seq(Committed)
  /\ IsSequence(recv)

(* Until the verifier runs, its state is empty. *)
Fresh ==
  /\ ~Generated => recv = <<>> /\ sz = 0 /\ \A k \in Nodes : ~defined[k]
  /\ ~Marked => proof = <<>>

(* The committed tree *)
InvBuild ==
  /\ \A k \in Heap : k >= n => layers[k] = leaf[k - n]
  /\ \A k \in Inner : (pc # "build" \/ k > i) =>
       layers[k] = Hash2(layers[2 * k], layers[2 * k + 1])

(* The nodes above an opened leaf.  While the loop runs, one of the nodes  *)
(* i+1..2i+1, the children still to be looked at, is marked.               *)
InvTree ==
  Opened =>
    /\ ~Undefined(pos)
    /\ \A k \in Heap : k >= n => (tree[k] <=> OpenLeaf(k))
    /\ \A k \in Inner : (pc # "tree" \/ k > i) =>
         (tree[k] <=> tree[2 * k] \/ tree[2 * k + 1])
    /\ pc = "tree" => \E k \in (i + 1)..(2 * i + 1) : tree[k]
    /\ Marked => tree[1]

(* Digests in the proof before the turn of node k *)
Position(k) ==
  IF k = n - 1 THEN 0 ELSE IF Missing(k + 1) THEN at[k + 1] + 1 ELSE at[k + 1]

(* What generate_compressed_proof has written *)
Passed(k) == pc # "generate" \/ k > i
InvProof ==
  Marked =>
    /\ \A k \in Inner : Passed(k) => at[k] = Position(k)
    /\ \A k \in Inner : Passed(k) /\ Missing(k) =>
         at[k] < Len(proof) /\ proof[at[k] + 1] = layers[Child(k)]
    /\ Len(proof) = Position(IF pc = "generate" THEN i ELSE 0)
    /\ \A a \in 1..Len(proof) : \E k \in Inner :
         Passed(k) /\ Missing(k) /\ a = at[k] + 1

(* A defined node of the verifier is in the tree or came with the proof. *)
DefinedKnown ==
  \A k \in Heap : defined[k] => tree[k] \/ \E p \in Inner : Missing(p) /\ k = Child(p)

(* What the verifier has read: it is where the prover was at this node. *)
InvRead ==
  pc = "read" =>
    /\ sz = Position(i)
    /\ DefinedKnown
    /\ \A k \in Heap : defined[k] => ~tree[k]
    /\ \A k \in Inner : k > i /\ Missing(k) =>
         defined[Child(k)] /\ at[k] < Len(recv) /\ seen[Child(k)] = recv[at[k] + 1]

(* Nodes whose agreement with the committed tree implies that all agree *)
Frontier(k) ==
  defined[k] /\ (k = 1 \/ \E p \in Inner : p <= i /\ (k = 2 * p \/ k = 2 * p + 1))
Agrees(k) == seen[k] = layers[k]

(* What the verifier has recomputed *)
InvRecompute ==
  pc = "recompute" =>
    /\ sz = Len(proof)
    /\ DefinedKnown
    /\ \A k \in Inner : k <= i /\ defined[k] => ~tree[k]
    /\ \A k \in Heap : (k >= n \/ k > i) /\ tree[k] => defined[k]
    /\ \A a \in DOMAIN pos : seen[pos[a] + n] = claim[a]
    /\ \A k \in Inner : Missing(k) =>
         defined[Child(k)] /\ at[k] < Len(recv) /\ seen[Child(k)] = recv[at[k] + 1]
    /\ Honest => \A k \in Heap : defined[k] => Agrees(k)
    /\ (\A k \in Heap : Frontier(k) => Agrees(k))
         => \A k \in Heap : defined[k] => Agrees(k)

InvDone == Completeness /\ Binding /\ ProofDetermined

IInv ==
  /\ Types /\ Fresh /\ InvBuild /\ InvTree /\ InvProof
  /\ InvRead /\ InvRecompute /\ InvDone

-----------------------------------------------------------------------------
(* n is positive and the heap's index sets nest. *)
LEMMA HeapFacts ==
  ASSUME TypeOK
  PROVE  /\ n \in Nat /\ n > 0 /\ i \in Nat /\ i < n
         /\ Nodes \subseteq Nat /\ Heap \subseteq Nodes /\ Inner \subseteq Heap
         /\ \A k \in Inner : 2 * k \in Heap /\ 2 * k + 1 \in Heap /\ Child(k) \in Heap
  BY SizesAssumption DEF TypeOK, Nodes, Heap, Inner, Child

(* The opened positions are leaves. *)
LEMMA Positions ==
  ASSUME TypeOK, NEW a \in DOMAIN pos
  PROVE  pos[a] \in Nat /\ pos[a] < n
<1>1. pos \in Seq(0..(n - 1)) /\ n \in Nat
  BY HeapFacts DEF TypeOK
<1>2. a \in 1..Len(pos)
  BY <1>1
<1>3. pos[a] \in 0..(n - 1)
  BY <1>1, <1>2, ElementOfSeq
<1> QED BY <1>1, <1>3

(* Every node but the root is a child of an inner node. *)
LEMMA Parent ==
  ASSUME TypeOK, NEW k \in Heap, k # 1
  PROVE  \E p \in Inner : p < k /\ (k = 2 * p \/ k = 2 * p + 1)
<1>1. k \div 2 \in Inner /\ k \div 2 < k
      /\ (k = 2 * (k \div 2) \/ k = 2 * (k \div 2) + 1)
  BY HeapFacts DEF Heap, Inner
<1> QED BY <1>1

(* Initially every part of the invariant holds. *)
LEMMA InitIInv == Init => IInv
<1> SUFFICES ASSUME Init PROVE IInv
  OBVIOUS
<1>1. n \in Nat /\ n > 0 /\ n \in Sizes
  BY SizesAssumption DEF Init
<1>2. TypeOK
  BY <1>1, EmptySeq DEF Init, TypeOK, Nodes
<1>3. Types
  <2>1. proof \in Seq(Committed) /\ IsSequence(recv)
    BY EmptySeq DEF Init, IsSequence
  <2> QED BY <1>2, <2>1 DEF Init, Types
<1>4. InvBuild
  BY <1>1 DEF Init, InvBuild, Heap, Inner, Nodes
<1> QED
  BY <1>3, <1>4 DEF Init, IInv, Fresh, InvTree, InvProof, InvRead, InvRecompute,
     InvDone, Opened, Marked, Generated, Completeness, Binding, ProofDetermined

-----------------------------------------------------------------------------
(* build_tree keeps the invariant. *)
LEMMA BuildStep == ASSUME IInv, BuildNode \/ Built PROVE IInv'
<1>0. /\ pc = "build" /\ pc' \in {"build", "open"}
      /\ UNCHANGED <<n, leaf, pos, tree, proof, at, claim, recv, sz, seen, defined, verdict>>
  BY DEF BuildNode, Built, opening, verifier, prover
<1>1. i' \in 0..(n - 1) /\ layers' = [k \in Nodes |-> layers'[k]]
  BY HeapFacts DEF IInv, Types, BuildNode, Built, prover
<1>2. proof' = <<>> /\ recv' = <<>>
  BY <1>0 DEF IInv, Fresh, Marked, Generated
<1>3. TypeOK'
  BY <1>0, <1>1 DEF IInv, Types, TypeOK, Nodes
<1>4. Types'
  <2>1. proof' \in Seq(Committed') /\ IsSequence(recv')
    BY <1>2, EmptySeq DEF IsSequence
  <2> QED BY <1>0, <1>1, <1>3, <2>1 DEF IInv, Types, Nodes
<1>5. InvBuild'
  <2>1. n' = n /\ Nodes' = Nodes /\ Heap' = Heap /\ Inner' = Inner
    BY <1>0 DEF Nodes, Heap, Inner
  <2>h. /\ n \in Nat /\ n > 0 /\ i \in Nat /\ i < n
        /\ Nodes \subseteq Nat /\ Heap \subseteq Nodes /\ Inner \subseteq Heap
        /\ \A k \in Inner : 2 * k \in Heap /\ 2 * k + 1 \in Heap
    BY HeapFacts DEF IInv, Types
  <2>b. /\ \A k \in Heap : k >= n => layers[k] = leaf[k - n]
        /\ \A k \in Inner : k > i => layers[k] = Hash2(layers[2 * k], layers[2 * k + 1])
    BY <1>0 DEF IInv, InvBuild
  <2>2. CASE Built
    <3>1. i = 0 /\ layers' = layers /\ \A k \in Inner : k > i
      BY <2>2 DEF Built, prover, Inner
    <3> QED BY <1>0, <2>1, <2>b, <3>1 DEF InvBuild
  <2>3. CASE BuildNode
    <3>1. /\ pc' = "build" /\ i > 0 /\ i' = i - 1
          /\ layers' = [layers EXCEPT ![i] = Hash2(layers[2 * i], layers[2 * i + 1])]
      BY <1>0, <2>3 DEF BuildNode
    <3>2. i \in Inner /\ i \in Nodes
      BY <3>1, HeapFacts DEF IInv, Types, Inner
    <3>3. /\ layers'[i] = Hash2(layers[2 * i], layers[2 * i + 1])
          /\ \A k \in Nodes : k # i => layers'[k] = layers[k]
      BY <3>1, <3>2 DEF IInv, Types
    <3>4. \A k \in Heap : k >= n => layers'[k] = leaf[k - n]
      BY <2>h, <2>b, <3>2, <3>3
    <3>5. ASSUME NEW k \in Inner, k > i - 1
          PROVE  layers'[k] = Hash2(layers'[2 * k], layers'[2 * k + 1])
      <4>1. 2 * k \in Nodes /\ 2 * k + 1 \in Nodes /\ k \in Nat /\ k > 0
        BY <2>h DEF Inner
      <4>2. layers'[2 * k] = layers[2 * k] /\ layers'[2 * k + 1] = layers[2 * k + 1]
        BY <2>h, <3>3, <3>5, <4>1
      <4>3. CASE k = i
        BY <3>3, <4>2, <4>3
      <4>4. CASE k # i
        <5>1. k > i /\ k \in Nodes
          BY <2>h, <3>5, <4>1, <4>4
        <5> QED BY <2>b, <3>3, <4>2, <4>4, <5>1
      <4> QED BY <4>3, <4>4
    <3> QED BY <1>0, <2>1, <3>1, <3>4, <3>5 DEF InvBuild
  <2> QED BY <2>2, <2>3
<1>6. Fresh'
  BY <1>0, <1>2 DEF IInv, Fresh, Generated, Marked, Nodes
<1> QED
  BY <1>0, <1>4, <1>5, <1>6 DEF IInv, InvTree, InvProof, InvRead,
     InvRecompute, InvDone, Opened, Marked, Completeness, Binding, ProofDetermined

(* What stays when neither the committed tree nor n changes *)
LEMMA BuiltStays ==
  ASSUME IInv, UNCHANGED <<n, leaf, layers>>, pc # "build", pc' # "build"
  PROVE  /\ InvBuild' /\ Committed' = Committed
         /\ Nodes' = Nodes /\ Heap' = Heap /\ Inner' = Inner
  BY DEF IInv, InvBuild, Committed, Nodes, Heap, Inner

(* Marking the opened leaves keeps the invariant. *)
LEMMA OpenStep == ASSUME IInv, Open PROVE IInv'
<1>1. /\ pc = "open" /\ pc' = "tree" /\ i' = n - 1
      /\ UNCHANGED <<n, leaf, layers, proof, at, claim, recv, sz, seen, defined, verdict>>
  BY DEF Open, prover, verifier
<1>2. PICK np \in 0..MaxReq : \E p \in [1..np -> 0..n] :
        /\ ~Undefined(p) /\ pos' = p
        /\ tree' = [k \in Nodes |-> \E a \in DOMAIN p : k = p[a] + n]
  BY DEF Open
<1>3. PICK p \in [1..np -> 0..n] :
        /\ ~Undefined(p) /\ pos' = p
        /\ tree' = [k \in Nodes |-> \E a \in DOMAIN p : k = p[a] + n]
  BY <1>2
<1>4. np \in Nat /\ DOMAIN p = 1..np /\ n \in Nat /\ n > 0
  BY MaxReqAssumption, HeapFacts DEF IInv, Types
<1>5. np # 0
  BY <1>3, <1>4 DEF Undefined
<1>6. p \in [1..np -> 0..(n - 1)]
  BY <1>3, <1>4 DEF Undefined
<1>7. pos' \in Seq(0..(n - 1))
  BY <1>3, <1>4, <1>6
<1>8. Nodes' = Nodes /\ Heap' = Heap /\ Inner' = Inner /\ Committed' = Committed /\ InvBuild'
  BY <1>1, BuiltStays
<1>9. tree' \in [Nodes -> BOOLEAN]
  BY <1>3
<1>10. Types'
  BY <1>1, <1>4, <1>7, <1>8, <1>9 DEF IInv, Types, TypeOK
<1>11. InvTree'
  <2>1. Undefined(pos)' <=> Undefined(p)
    BY <1>1, <1>3 DEF Undefined
  <2>2. \A k \in Heap : tree'[k] <=> OpenLeaf(k)'
    BY <1>1, <1>3, HeapFacts DEF IInv, Types, OpenLeaf
  <2>3. ~\E k \in Inner' : k > i'
    BY <1>1, <1>4, <1>8 DEF Inner
  <2>4. p[1] + n \in n..(2 * n - 1) /\ 1 \in DOMAIN p
    BY <1>4, <1>5, <1>6
  <2>5. tree'[p[1] + n]
    BY <1>3, <1>4, <2>4 DEF Nodes
  <2>6. \E k \in (i' + 1)..(2 * i' + 1) : tree'[k]
    BY <1>1, <1>4, <2>4, <2>5
  <2> QED BY <1>1, <1>3, <1>8, <2>1, <2>2, <2>3, <2>6 DEF InvTree, Opened, Marked
<1> QED
  BY <1>1, <1>8, <1>10, <1>11 DEF IInv, Fresh, Generated, Marked, InvProof, InvRead,
     InvRecompute, InvDone, Completeness, Binding, ProofDetermined

(* Marking the path to the root keeps the invariant. *)
LEMMA TreeStep == ASSUME IInv, TreeNode PROVE IInv'
<1>1. /\ pc = "tree" /\ pc' = "tree" /\ i > 0 /\ i' = i - 1
      /\ UNCHANGED <<n, pos, leaf, layers, proof, at, claim, recv, sz, seen, defined, verdict>>
      /\ tree' = [tree EXCEPT ![i] = tree[2 * i] \/ tree[2 * i + 1]]
  BY DEF TreeNode, prover, verifier
<1>2. Nodes' = Nodes /\ Heap' = Heap /\ Inner' = Inner /\ Committed' = Committed /\ InvBuild'
  BY <1>1, BuiltStays
<1>3. i \in Inner /\ i \in Nodes /\ n \in Nat /\ i \in Nat /\ i < n
  BY <1>1, HeapFacts DEF IInv, Types, Inner
<1>4. /\ tree'[i] <=> tree[2 * i] \/ tree[2 * i + 1]
      /\ \A k \in Nodes : k # i => tree'[k] = tree[k]
  BY <1>1, <1>3 DEF IInv, Types, TypeOK
<1>5. tree' \in [Nodes -> BOOLEAN]
  <2>1. (tree[2 * i] \/ tree[2 * i + 1]) \in BOOLEAN
    OBVIOUS
  <2> QED BY <1>1, <2>1 DEF IInv, Types, TypeOK
<1>6. Types'
  BY <1>1, <1>2, <1>3, <1>5 DEF IInv, Types, TypeOK
<1>7. InvTree'
  <2>1. ~Undefined(pos)'
    BY <1>1 DEF IInv, InvTree, Opened, Undefined
  <2>2. ASSUME NEW k \in Heap, k >= n PROVE tree'[k] <=> OpenLeaf(k)'
    <3>1. k # i /\ k \in Nodes
      BY <1>3, <2>2, HeapFacts DEF IInv, Types
    <3>2. OpenLeaf(k)' <=> OpenLeaf(k)
      BY <1>1 DEF OpenLeaf
    <3> QED BY <1>1, <1>4, <2>2, <3>1, <3>2 DEF IInv, InvTree, Opened
  <2>3. ASSUME NEW k \in Inner, k > i - 1
        PROVE  tree'[k] <=> tree'[2 * k] \/ tree'[2 * k + 1]
    <3>1. 2 * k \in Nodes /\ 2 * k + 1 \in Nodes /\ k \in Nodes /\ k \in Nat /\ k > 0
      BY HeapFacts DEF IInv, Types, Inner
    <3>2. tree'[2 * k] = tree[2 * k] /\ tree'[2 * k + 1] = tree[2 * k + 1]
      BY <1>3, <1>4, <2>3, <3>1
    <3>3. CASE k = i
      BY <1>4, <3>2, <3>3
    <3>4. CASE k # i
      <4>1. k > i
        BY <1>3, <2>3, <3>1, <3>4
      <4>2. tree[k] <=> tree[2 * k] \/ tree[2 * k + 1]
        BY <1>1, <4>1 DEF IInv, InvTree, Opened
      <4> QED BY <1>4, <3>1, <3>2, <3>4, <4>2
    <3> QED BY <3>3, <3>4
  <2>4. \E k \in (i' + 1)..(2 * i' + 1) : tree'[k]
    <3>1. PICK k \in (i + 1)..(2 * i + 1) : tree[k]
      BY <1>1 DEF IInv, InvTree, Opened
    <3>2. k \in Nodes /\ k # i
      BY <1>3 DEF Nodes
    <3>3. tree'[k]
      BY <1>4, <3>1, <3>2
    <3>4. CASE k <= 2 * i - 1
      BY <1>1, <1>3, <3>3, <3>4
    <3>5. CASE k = 2 * i \/ k = 2 * i + 1
      <4>1. tree'[i]
        BY <1>4, <3>1, <3>5
      <4>2. i \in (i' + 1)..(2 * i' + 1)
        BY <1>1, <1>3
      <4> QED BY <4>1, <4>2
    <3> QED BY <1>3, <3>4, <3>5
  <2> QED BY <1>1, <1>2, <2>1, <2>2, <2>3, <2>4 DEF InvTree, Opened, Marked
<1> QED
  BY <1>1, <1>2, <1>6, <1>7 DEF IInv, Fresh, Generated, Marked, InvProof, InvRead,
     InvRecompute, InvDone, Completeness, Binding, ProofDetermined

(* Leaving the loop, the root is in the tree and nothing is written yet. *)
LEMMA TreeDoneStep == ASSUME IInv, TreeDone PROVE IInv'
<1>1. /\ pc = "tree" /\ pc' = "generate" /\ i = 0 /\ i' = n - 1
      /\ UNCHANGED <<n, pos, tree, leaf, layers, proof, at, claim, recv, sz, seen, defined, verdict>>
  BY DEF TreeDone, prover, verifier, opening
<1>2. Nodes' = Nodes /\ Heap' = Heap /\ Inner' = Inner /\ Committed' = Committed /\ InvBuild'
  BY <1>1, BuiltStays
<1>3. n \in Nat /\ n > 0
  BY HeapFacts DEF IInv, Types
<1>4. Types'
  BY <1>1, <1>2, <1>3 DEF IInv, Types, TypeOK
<1>5. InvTree'
  <2>1. tree[1]
    BY <1>1 DEF IInv, InvTree, Opened
  <2>2. \A k \in Inner : k > 0
    BY <1>3 DEF Inner
  <2>3. \A k : OpenLeaf(k)' <=> OpenLeaf(k)
    BY <1>1 DEF OpenLeaf
  <2>4. Undefined(pos)' <=> Undefined(pos)
    BY <1>1 DEF Undefined
  <2> QED BY <1>1, <1>2, <2>1, <2>2, <2>3, <2>4 DEF IInv, InvTree, Opened, Marked
<1>6. proof' = <<>> /\ Len(proof') = 0
  BY <1>1 DEF IInv, Fresh, Marked
<1>7. InvProof'
  <2>1. ~\E k \in Inner' : k > i'
    BY <1>1, <1>2, <1>3 DEF Inner
  <2>2. Position(i)' = 0
    BY <1>1 DEF Position
  <2>3. Position(i') = 0
    BY <1>1 DEF Position
  <2> QED BY <1>1, <1>6, <2>1, <2>2, <2>3 DEF InvProof, Passed, Position
<1> QED
  BY <1>1, <1>2, <1>4, <1>5, <1>7 DEF IInv, Fresh, Generated, Marked, InvRead,
     InvRecompute, InvDone, Completeness, Binding, ProofDetermined

(* What stays once the tree is marked *)
LEMMA MarkedStays ==
  ASSUME IInv, UNCHANGED <<n, pos, tree, leaf, layers>>, Marked, Marked'
  PROVE  /\ InvBuild' /\ InvTree' /\ Committed' = Committed
         /\ Nodes' = Nodes /\ Heap' = Heap /\ Inner' = Inner
         /\ \A k : /\ Child(k)' = Child(k) /\ (Missing(k)' <=> Missing(k))
                   /\ (OpenLeaf(k)' <=> OpenLeaf(k))
<1>1. pc # "build" /\ pc' # "build" /\ pc # "tree" /\ pc' # "tree" /\ Opened /\ Opened'
  BY DEF Marked, Opened
<1>2. /\ InvBuild' /\ Committed' = Committed
      /\ Nodes' = Nodes /\ Heap' = Heap /\ Inner' = Inner
  BY <1>1, BuiltStays
<1>3. \A k : OpenLeaf(k)' <=> OpenLeaf(k)
  BY DEF OpenLeaf
<1>4. Undefined(pos)' <=> Undefined(pos)
  BY DEF Undefined
<1>5. \A k : Child(k)' = Child(k) /\ (Missing(k)' <=> Missing(k))
  BY DEF Child, Missing
<1>6. InvTree'
  BY <1>1, <1>2, <1>3, <1>4 DEF IInv, InvTree, Marked
<1> QED BY <1>2, <1>3, <1>5, <1>6

-----------------------------------------------------------------------------
(* Writing the proof keeps the invariant. *)
LEMMA GenerateStep == ASSUME IInv, GenerateNode PROVE IInv'
<1>1. /\ pc = "generate" /\ pc' = "generate" /\ i > 0 /\ i' = i - 1
      /\ UNCHANGED <<n, pos, tree, leaf, layers, claim, recv, sz, seen, defined, verdict>>
      /\ proof' = IF Missing(i) THEN Append(proof, layers[Child(i)]) ELSE proof
      /\ at' = [at EXCEPT ![i] = Len(proof)]
  BY DEF GenerateNode, prover, opening, verifier
<1>2. /\ InvBuild' /\ InvTree' /\ Committed' = Committed
      /\ Nodes' = Nodes /\ Heap' = Heap /\ Inner' = Inner
      /\ \A k : Child(k)' = Child(k) /\ (Missing(k)' <=> Missing(k))
  BY <1>1, MarkedStays DEF Marked
<1>3. /\ n \in Nat /\ n > 0 /\ i \in Nat /\ i < n /\ i \in Inner /\ i \in Nodes
      /\ Inner \subseteq Nodes
      /\ Child(i) \in Nodes
  BY <1>1, HeapFacts DEF IInv, Types, Inner
<1>4. proof \in Seq(Committed) /\ Len(proof) \in Nat /\ layers[Child(i)] \in Committed
  BY <1>3 DEF IInv, Types, Committed
<1>5. proof' \in Seq(Committed)
  BY <1>1, <1>4
<1>6. at' \in [Nodes -> Nat] /\ at'[i] = Len(proof)
      /\ \A k \in Nodes : k # i => at'[k] = at[k]
  BY <1>1, <1>3, <1>4 DEF IInv, Types, TypeOK
<1>7. Types'
  BY <1>1, <1>2, <1>3, <1>5, <1>6 DEF IInv, Types, TypeOK
<1>8. /\ \A k \in Inner : k > i => at[k] = Position(k)
      /\ \A k \in Inner : k > i /\ Missing(k) =>
           at[k] < Len(proof) /\ proof[at[k] + 1] = layers[Child(k)]
      /\ Len(proof) = Position(i)
      /\ \A a \in 1..Len(proof) : \E k \in Inner : k > i /\ Missing(k) /\ a = at[k] + 1
  BY <1>1 DEF IInv, InvProof, Passed, Marked
<1>9. \A k \in Inner : k >= i => Position(k)' = Position(k)
  <2> SUFFICES ASSUME NEW k \in Inner, k >= i PROVE Position(k)' = Position(k)
    OBVIOUS
  <2>1. CASE k = n - 1
    BY <1>1, <2>1 DEF Position
  <2>2. CASE k # n - 1
    <3>1. k + 1 \in Nodes /\ k + 1 # i
      BY <1>3, <2>2 DEF Inner, Nodes
    <3>2. at'[k + 1] = at[k + 1]
      BY <1>6, <3>1
    <3> QED BY <1>1, <1>2, <2>2, <3>2 DEF Position
  <2> QED BY <2>1, <2>2
<1>10. Position(i)' = IF Missing(i) THEN Len(proof) + 1 ELSE Len(proof)
  <2>1. i' # n' - 1 /\ i' + 1 = i
    BY <1>1, <1>3
  <2> QED BY <1>1, <1>2, <1>6, <2>1 DEF Position
<1>11. Len(proof') = Position(i)'
  BY <1>1, <1>4, <1>10
<1>12. \A a \in 1..Len(proof) : proof'[a] = proof[a]
  BY <1>1, <1>4
<1>13. ASSUME NEW k \in Inner, k > i - 1
       PROVE  /\ at'[k] = Position(k)'
              /\ Missing(k)' => at'[k] < Len(proof') /\ proof'[at'[k] + 1] = layers'[Child(k)']
  <2>1. CASE k = i
    <3>1. at'[k] = Position(k)'
      <4>1. Position(k)' = Position(k)
        BY <1>3, <1>9, <2>1
      <4> QED BY <1>6, <1>8, <2>1, <4>1
    <3>2. Missing(k) => proof' = Append(proof, layers[Child(k)])
      BY <1>1, <2>1
    <3>3. ASSUME Missing(k)
          PROVE  Len(proof') = Len(proof) + 1 /\ proof'[Len(proof) + 1] = layers[Child(k)]
      <4>1. layers[Child(k)] \in Committed
        BY <1>4, <2>1
      <4> QED BY <1>4, <3>2, <3>3, <4>1
    <3>4. at'[k] = Len(proof) /\ layers' = layers
      BY <1>1, <1>6, <2>1
    <3> QED BY <1>2, <1>4, <3>1, <3>3, <3>4
  <2>2. CASE k # i
    <3>1. k > i /\ k \in Nodes
      BY <1>3, <1>13, <2>2 DEF Inner
    <3>2. at'[k] = at[k] /\ at[k] \in Nat
      BY <1>6, <2>2, <3>1 DEF IInv, Types, TypeOK
    <3>3. at'[k] = Position(k)'
      BY <1>8, <1>9, <1>3, <3>1, <3>2 DEF Inner
    <3>4. Len(proof') >= Len(proof) /\ Len(proof') \in Nat
      BY <1>1, <1>4
    <3>5. ASSUME Missing(k)
          PROVE  at'[k] < Len(proof') /\ proof'[at'[k] + 1] = layers'[Child(k)']
      <4>1. at[k] < Len(proof) /\ proof[at[k] + 1] = layers[Child(k)]
        BY <1>8, <3>1, <3>5
      <4>2. at[k] + 1 \in 1..Len(proof)
        BY <1>4, <3>2, <4>1
      <4> QED BY <1>1, <1>2, <1>4, <1>12, <3>2, <3>4, <4>1, <4>2
    <3> QED BY <1>2, <3>3, <3>5
  <2> QED BY <2>1, <2>2
<1>14. ASSUME NEW a \in 1..Len(proof')
       PROVE  \E k \in Inner : k > i - 1 /\ Missing(k)' /\ a = at'[k] + 1
  <2>1. CASE a \in 1..Len(proof)
    <3>1. PICK k \in Inner : k > i /\ Missing(k) /\ a = at[k] + 1
      BY <1>8, <2>1
    <3>2. k > i - 1 /\ at'[k] = at[k]
      BY <1>3, <1>6, <3>1 DEF Inner
    <3> QED BY <1>2, <3>1, <3>2
  <2>2. CASE a \notin 1..Len(proof)
    <3>1. Missing(i) /\ a = Len(proof) + 1
      BY <1>1, <1>4, <2>2
    <3> QED BY <1>2, <1>3, <1>6, <3>1
  <2> QED BY <2>1, <2>2
<1>15. InvProof'
  <2>1. Position(IF pc = "generate" THEN i ELSE 0)' = Position(i)'
    BY <1>1 DEF Position
  <2> QED BY <1>1, <1>2, <1>11, <1>13, <1>14, <2>1 DEF InvProof, Passed
<1> QED
  BY <1>1, <1>2, <1>7, <1>15 DEF IInv, Fresh, Generated, Marked, InvRead,
     InvRecompute, InvDone, Completeness, Binding, ProofDetermined

(* What stays once the proof is written *)
LEMMA ProofStays ==
  ASSUME IInv, UNCHANGED <<n, pos, tree, leaf, layers, proof, at>>, Generated, Generated'
  PROVE  /\ InvProof' /\ InvBuild' /\ InvTree'
         /\ Nodes' = Nodes /\ Heap' = Heap /\ Inner' = Inner /\ Committed' = Committed
         /\ \A k : /\ Child(k)' = Child(k) /\ (Missing(k)' <=> Missing(k))
                   /\ Position(k)' = Position(k)
<1>1. Marked /\ Marked' /\ pc # "generate" /\ pc' # "generate"
  BY DEF Generated, Marked
<1>2. /\ InvBuild' /\ InvTree' /\ Committed' = Committed
      /\ Nodes' = Nodes /\ Heap' = Heap /\ Inner' = Inner
      /\ \A k : Child(k)' = Child(k) /\ (Missing(k)' <=> Missing(k))
  BY <1>1, MarkedStays
<1>3. \A k : Position(k)' = Position(k)
  BY <1>2 DEF Position
<1>4. InvProof'
  BY <1>1, <1>2, <1>3 DEF IInv, InvProof, Passed
<1> QED BY <1>2, <1>3, <1>4

(* The verifier starts with nothing read. *)
LEMMA ReceiveStep == ASSUME IInv, Receive PROVE IInv'
<1>1. /\ pc = "generate" /\ pc' = "read" /\ i = 0 /\ i' = n - 1
      /\ UNCHANGED <<n, pos, tree, leaf, layers, proof, at, sz, seen, defined, verdict>>
      /\ IsSequence(recv')
  BY DEF Receive, prover, opening
<1>2. /\ InvBuild' /\ InvTree' /\ Committed' = Committed
      /\ Nodes' = Nodes /\ Heap' = Heap /\ Inner' = Inner
      /\ \A k : Child(k)' = Child(k) /\ (Missing(k)' <=> Missing(k))
  BY <1>1, MarkedStays DEF Marked
<1>3. n \in Nat /\ n > 0
  BY HeapFacts DEF IInv, Types
<1>5. sz = 0 /\ \A k \in Nodes : ~defined[k]
  BY <1>1 DEF IInv, Fresh, Generated
<1>6. sz' \in 0..Len(recv')
  <2>1. Len(recv') \in Nat
    BY <1>1 DEF IsSequence
  <2> QED BY <1>1, <1>5, <2>1
<1>7. Types'
  BY <1>1, <1>2, <1>3, <1>6 DEF IInv, Types, TypeOK
<1>8. \A k : Position(k)' = Position(k)
  BY <1>1, <1>2 DEF Position
<1>9. InvProof'
  <2>1. \A k \in Inner : k > 0
    BY <1>3 DEF Inner
  <2> QED BY <1>1, <1>2, <1>8, <2>1 DEF IInv, InvProof, Passed, Marked
<1>10. InvRead'
  <2>1. ~\E k \in Inner' : k > i'
    BY <1>1, <1>2, <1>3 DEF Inner
  <2>2. Position(i') = 0 /\ Position(i)' = 0
    BY <1>1 DEF Position
  <2>3. \A k \in Heap' : ~defined'[k]
    BY <1>1, <1>2, <1>5, HeapFacts DEF IInv, Types
  <2> QED BY <1>1, <1>5, <2>1, <2>2, <2>3 DEF InvRead, DefinedKnown
<1> QED
  BY <1>1, <1>2, <1>7, <1>9, <1>10 DEF IInv, Fresh, Generated, Marked,
     InvRecompute, InvDone, Completeness, Binding, ProofDetermined

-----------------------------------------------------------------------------
(* Reading the proof keeps the invariant: the verifier is always at the    *)
(* digest the prover wrote for the node whose turn it is.                  *)
LEMMA ReadStep == ASSUME IInv, ReadNode PROVE IInv'
<1>1. /\ pc = "read" /\ pc' = "read" /\ i > 0 /\ i' = i - 1
      /\ UNCHANGED <<n, pos, tree, leaf, layers, proof, at, claim, recv, verdict>>
      /\ Missing(i) => sz < Len(recv)
      /\ Missing(i) => /\ seen' = [seen EXCEPT ![Child(i)] = recv[sz + 1]]
                       /\ defined' = [defined EXCEPT ![Child(i)] = TRUE]
                       /\ sz' = sz + 1
      /\ ~Missing(i) => UNCHANGED <<seen, defined, sz>>
  BY DEF ReadNode, prover, opening
<1>2. /\ InvProof' /\ InvBuild' /\ InvTree' /\ Committed' = Committed
      /\ Nodes' = Nodes /\ Heap' = Heap /\ Inner' = Inner
      /\ \A k : /\ Child(k)' = Child(k) /\ (Missing(k)' <=> Missing(k))
                /\ Position(k)' = Position(k)
  BY <1>1, ProofStays DEF Generated
<1>3. /\ n \in Nat /\ n > 0 /\ i \in Nat /\ i < n /\ i \in Inner /\ i \in Nodes
      /\ Inner \subseteq Heap /\ Heap \subseteq Nodes
      /\ \A k \in Inner : Child(k) \in Heap
  BY <1>1, HeapFacts DEF IInv, Types, Inner
<1>4. /\ sz = Position(i) /\ DefinedKnown
      /\ \A k \in Heap : defined[k] => ~tree[k]
      /\ \A k \in Inner : k > i /\ Missing(k) =>
           defined[Child(k)] /\ at[k] < Len(recv) /\ seen[Child(k)] = recv[at[k] + 1]
  BY <1>1 DEF IInv, InvRead
<1>5. at[i] = sz
  BY <1>1, <1>3, <1>4 DEF IInv, InvProof, Passed, Marked
<1>6. sz \in Nat /\ Len(recv) \in Nat /\ sz <= Len(recv)
  BY DEF IInv, Types, TypeOK
<1>7. Types'
  <2>1. seen' = [k \in Nodes |-> seen'[k]] /\ defined' \in [Nodes -> BOOLEAN]
    BY <1>1, <1>3 DEF IInv, Types, TypeOK
  <2>2. sz' \in 0..Len(recv)
    BY <1>1, <1>6
  <2> QED BY <1>1, <1>2, <1>3, <2>1, <2>2 DEF IInv, Types, TypeOK
<1>8. sz' = Position(i)'
  <2>1. i' # n' - 1 /\ i' + 1 = i
    BY <1>1, <1>3
  <2> QED BY <1>1, <1>2, <1>5, <2>1 DEF Position
<1>9. \A k \in Heap : defined'[k] => defined[k] \/ (Missing(i) /\ k = Child(i))
  BY <1>1, <1>3 DEF IInv, Types, TypeOK
<1>10. DefinedKnown'
  BY <1>1, <1>2, <1>3, <1>4, <1>9 DEF DefinedKnown
<1>11. \A k \in Heap : defined'[k] => ~tree[k]
  BY <1>4, <1>9 DEF Missing
<1>12. \A k \in Inner : k # i => Child(k) # Child(i)
  BY <1>3 DEF Child, Inner
<1>13. ASSUME NEW k \in Inner, k > i - 1, Missing(k)
       PROVE  defined'[Child(k)] /\ at[k] < Len(recv) /\ seen'[Child(k)] = recv[at[k] + 1]
  <2>0. k \in Nat
    BY <1>3 DEF Inner
  <2>1. Child(k) \in Nodes /\ k \in Nat
    BY <1>3, <2>0
  <2>2. CASE k = i
    BY <1>1, <1>5, <1>13, <2>1, <2>2 DEF IInv, Types, TypeOK
  <2>3. CASE k # i
    <3>1. k > i
      BY <1>3, <1>13, <2>1, <2>3
    <3>2. defined[Child(k)] /\ at[k] < Len(recv) /\ seen[Child(k)] = recv[at[k] + 1]
      BY <1>4, <1>13, <3>1
    <3>3. Child(k) # Child(i)
      BY <1>12, <2>3
    <3>4. defined'[Child(k)] = defined[Child(k)] /\ seen'[Child(k)] = seen[Child(k)]
      BY <1>1, <2>1, <3>3 DEF IInv, Types, TypeOK
    <3> QED BY <3>2, <3>4
  <2> QED BY <2>2, <2>3
<1>14. InvRead'
  <2>1. Position(i)' = Position(i')
    BY <1>2
  <2> QED BY <1>1, <1>2, <1>8, <1>10, <1>11, <1>13 DEF InvRead
<1> QED
  BY <1>1, <1>2, <1>7, <1>14 DEF IInv, Fresh, Generated, Marked,
     InvRecompute, InvDone, Completeness, Binding, ProofDetermined

(* A proof is called too short only if it is not the honest one. *)
LEMMA TooShortStep == ASSUME IInv, TooShort PROVE IInv'
<1>1. /\ pc = "read" /\ pc' = "done" /\ i > 0 /\ Missing(i) /\ sz >= Len(recv)
      /\ UNCHANGED <<n, i, pos, tree, leaf, layers, proof, at, claim, recv, sz, seen, defined>>
      /\ verdict' = FALSE
  BY DEF TooShort, prover, opening
<1>2. /\ InvProof' /\ InvBuild' /\ InvTree' /\ Committed' = Committed /\ Nodes' = Nodes
  BY <1>1, ProofStays DEF Generated
<1>3. Types'
  BY <1>1, <1>2 DEF IInv, Types, TypeOK
<1>4. i \in Inner
  BY <1>1, HeapFacts DEF IInv, Types, Inner
<1>5. at[i] = sz /\ at[i] < Len(proof)
  BY <1>1, <1>4 DEF IInv, InvProof, InvRead, Passed, Marked
<1>6. Len(recv) \in Nat /\ Len(proof) \in Nat /\ sz \in Nat
  BY DEF IInv, Types, TypeOK
<1>7. recv # proof
  BY <1>1, <1>5, <1>6
<1>8. ~Honest'
  BY <1>1, <1>7 DEF Honest
<1> QED
  BY <1>1, <1>2, <1>3, <1>8 DEF IInv, Fresh, Generated, Marked, InvRead,
     InvRecompute, InvDone, Completeness, Binding, ProofDetermined

(* Placing the opened leaves keeps the invariant. *)
LEMMA SetLeavesStep == ASSUME IInv, SetLeaves PROVE IInv'
<1>1. /\ pc = "read" /\ pc' = "recompute" /\ i = 0 /\ i' = n - 1
      /\ UNCHANGED <<n, pos, tree, leaf, layers, proof, at, claim, recv, sz, verdict>>
      /\ seen' = [k \in Nodes |-> IF \E a \in DOMAIN pos : k = pos[a] + n
                              THEN claim[CHOOSE a \in DOMAIN pos : k = pos[a] + n]
                              ELSE seen[k]]
      /\ defined' = [k \in Nodes |-> defined[k] \/ \E a \in DOMAIN pos : k = pos[a] + n]
  BY DEF SetLeaves, prover, opening
<1>2. /\ InvProof' /\ InvBuild' /\ InvTree' /\ Committed' = Committed
      /\ Nodes' = Nodes /\ Heap' = Heap /\ Inner' = Inner
      /\ \A k : /\ Child(k)' = Child(k) /\ (Missing(k)' <=> Missing(k))
                /\ Position(k)' = Position(k)
  BY <1>1, ProofStays DEF Generated
<1>3. /\ n \in Nat /\ n > 0 /\ Inner \subseteq Heap /\ Heap \subseteq Nodes /\ Nodes \subseteq Nat
      /\ \A k \in Inner : Child(k) \in Heap /\ k > 0
  BY HeapFacts DEF IInv, Types, Inner
<1>4. /\ \A k \in Nodes : defined'[k] <=> defined[k] \/ OpenLeaf(k)
      /\ \A k \in Nodes : ~OpenLeaf(k) => seen'[k] = seen[k]
  BY <1>1 DEF OpenLeaf
<1>5. /\ sz = Position(i) /\ DefinedKnown
      /\ \A k \in Heap : defined[k] => ~tree[k]
      /\ \A k \in Inner : Missing(k) =>
           defined[Child(k)] /\ at[k] < Len(recv) /\ seen[Child(k)] = recv[at[k] + 1]
  BY <1>1, <1>3 DEF IInv, InvRead
<1>6. /\ ~Undefined(pos) /\ pos \in Seq(0..(n - 1))
      /\ \A k \in Heap : k >= n => (tree[k] <=> OpenLeaf(k))
  BY <1>1 DEF IInv, InvTree, Opened, Types, TypeOK
<1>7. \A a \in DOMAIN pos : pos[a] + n \in Heap /\ pos[a] + n >= n /\ OpenLeaf(pos[a] + n)
  BY <1>3, <1>6 DEF Heap, OpenLeaf
<1>8. \A a \in DOMAIN pos : seen'[pos[a] + n] = claim[a]
  <2> SUFFICES ASSUME NEW a \in DOMAIN pos PROVE seen'[pos[a] + n] = claim[a]
    OBVIOUS
  <2> DEFINE c == CHOOSE b \in DOMAIN pos : pos[a] + n = pos[b] + n
  <2>1. c \in DOMAIN pos /\ pos[a] + n = pos[c] + n
    OBVIOUS
  <2>2. pos[a] \in Nat /\ pos[c] \in Nat
    BY <2>1, Positions DEF IInv, Types
  <2>3. c = a
    BY <1>3, <1>6, <2>1, <2>2 DEF Undefined
  <2>4. pos[a] + n \in Nodes
    BY <1>3, <1>7
  <2>5. seen'[pos[a] + n] = claim[c]
    BY <1>1, <2>4
  <2> QED BY <2>3, <2>5
<1>9. \A k \in Heap : OpenLeaf(k) => tree[k] /\ k >= n
  BY <1>3, <1>6, <1>7 DEF OpenLeaf
<1>10. Types'
  BY <1>1, <1>2, <1>3 DEF IInv, Types, TypeOK
<1>11. sz' = Len(proof')
  <2>1. Len(proof) = Position(0)
    BY <1>1 DEF IInv, InvProof, Marked
  <2> QED BY <1>1, <1>5, <2>1
<1>12. DefinedKnown'
  <2> SUFFICES ASSUME NEW k \in Heap, defined'[k]
               PROVE  tree[k] \/ \E p \in Inner : Missing(p) /\ k = Child(p)
    BY <1>1, <1>2 DEF DefinedKnown
  <2>1. defined[k] \/ OpenLeaf(k)
    BY <1>3, <1>4
  <2> QED BY <1>5, <1>9, <2>1 DEF DefinedKnown
<1>13. \A k \in Inner : defined'[k] => ~tree[k]
  <2>1. \A k \in Inner : k < n
    BY <1>3 DEF Inner
  <2> QED BY <1>3, <1>4, <1>5, <1>9, <2>1 DEF Inner
<1>14. \A k \in Heap : (k >= n \/ k > n - 1) /\ tree[k] => defined'[k]
  BY <1>3, <1>4, <1>6 DEF Heap
<1>15. \A k \in Inner : Missing(k) =>
         defined'[Child(k)] /\ at[k] < Len(recv) /\ seen'[Child(k)] = recv[at[k] + 1]
  BY <1>3, <1>4, <1>5, <1>9 DEF Missing
<1>16. ASSUME Honest', NEW k \in Heap, defined'[k] PROVE seen'[k] = layers[k]
  <2>1. recv = proof /\ claim = [a \in DOMAIN pos |-> leaf[pos[a]]]
    BY <1>1, <1>16 DEF Honest
  <2>2. CASE OpenLeaf(k)
    <3>1. PICK a \in DOMAIN pos : k = pos[a] + n
      BY <2>2 DEF OpenLeaf
    <3>2. seen'[k] = leaf[pos[a]] /\ pos[a] \in Nat
      <4>1. seen'[k] = claim[a]
        BY <1>8, <3>1
      <4> QED BY <2>1, <4>1, Positions DEF IInv, Types
    <3>3. layers[k] = leaf[k - n] /\ k - n = pos[a]
      BY <1>3, <1>7, <3>1, <3>2 DEF IInv, InvBuild
    <3> QED BY <3>2, <3>3
  <2>3. CASE ~OpenLeaf(k)
    <3>1. defined[k] /\ seen'[k] = seen[k] /\ ~tree[k]
      BY <1>3, <1>4, <1>5, <1>16, <2>3
    <3>2. PICK p \in Inner : Missing(p) /\ k = Child(p)
      BY <1>5, <3>1 DEF DefinedKnown
    <3>3. seen[k] = proof[at[p] + 1]
      BY <1>5, <2>1, <3>2
    <3>4. proof[at[p] + 1] = layers[k]
      BY <1>1, <3>2 DEF IInv, InvProof, Passed, Marked
    <3> QED BY <3>1, <3>3, <3>4
  <2> QED BY <2>2, <2>3
<1>17. \A k \in Heap : defined'[k] => Frontier(k)'
  <2> SUFFICES ASSUME NEW k \in Heap, defined'[k], k # 1
               PROVE  \E p \in Inner' : p <= i' /\ (k = 2 * p \/ k = 2 * p + 1)
    BY DEF Frontier
  <2>1. PICK p \in Inner : k = 2 * p \/ k = 2 * p + 1
    BY Parent DEF IInv, Types
  <2>2. p <= n - 1
    BY <1>3 DEF Inner
  <2> QED BY <1>1, <1>2, <2>1, <2>2
<1>18. InvRecompute'
  <2>1. \A k \in Heap' : Agrees(k)' <=> seen'[k] = layers'[k]
    BY DEF Agrees
  <2>2. /\ sz' = Len(proof') /\ DefinedKnown'
        /\ \A k \in Inner' : k <= i' /\ defined'[k] => ~tree'[k]
        /\ \A k \in Heap' : (k >= n' \/ k > i') /\ tree'[k] => defined'[k]
    BY <1>1, <1>2, <1>11, <1>12, <1>13, <1>14
  <2>3. /\ \A a \in DOMAIN pos' : seen'[pos'[a] + n'] = claim'[a]
        /\ \A k \in Inner' : Missing(k)' =>
             defined'[Child(k)'] /\ at'[k] < Len(recv') /\ seen'[Child(k)'] = recv'[at'[k] + 1]
    <3>1. \A a \in DOMAIN pos' : seen'[pos'[a] + n'] = claim'[a]
      BY <1>1, <1>8
    <3>2. ASSUME NEW k \in Inner, Missing(k)
          PROVE  defined'[Child(k)'] /\ at'[k] < Len(recv') /\ seen'[Child(k)'] = recv'[at'[k] + 1]
      BY <1>1, <1>2, <1>15, <3>2
    <3> QED BY <1>2, <3>1, <3>2
  <2>4. Honest' => \A k \in Heap' : defined'[k] => Agrees(k)'
    BY <1>1, <1>2, <1>16, <2>1
  <2>5. (\A k \in Heap' : Frontier(k)' => Agrees(k)')
          => \A k \in Heap' : defined'[k] => Agrees(k)'
    BY <1>2, <1>17
  <2> QED BY <2>2, <2>3, <2>4, <2>5 DEF InvRecompute
<1> QED
  BY <1>1, <1>2, <1>10, <1>18 DEF IInv, Fresh, Generated, Marked, InvRead,
     InvDone, Completeness, Binding, ProofDetermined

(* Recomputing a node keeps the invariant. *)
LEMMA RecomputeStep == ASSUME IInv, RecomputeNode PROVE IInv'
<1>1. /\ pc = "recompute" /\ pc' = "recompute" /\ i > 0 /\ i' = i - 1
      /\ UNCHANGED <<n, pos, tree, leaf, layers, proof, at, claim, recv, sz, verdict>>
      /\ Recomputable(i) =>
           /\ seen' = [seen EXCEPT ![i] = Hash2(seen[2 * i], seen[2 * i + 1])]
           /\ defined' = [defined EXCEPT ![i] = TRUE]
      /\ ~Recomputable(i) => UNCHANGED <<seen, defined>>
  BY DEF RecomputeNode, prover, opening
<1>2. /\ InvProof' /\ InvBuild' /\ InvTree' /\ Committed' = Committed
      /\ Nodes' = Nodes /\ Heap' = Heap /\ Inner' = Inner
      /\ \A k : /\ Child(k)' = Child(k) /\ (Missing(k)' <=> Missing(k))
                /\ Position(k)' = Position(k)
  BY <1>1, ProofStays DEF Generated
<1>3. /\ n \in Nat /\ n > 0 /\ i \in Nat /\ i < n /\ i \in Inner /\ i \in Heap /\ i \in Nodes
      /\ Inner \subseteq Heap /\ Heap \subseteq Nodes
      /\ \A k \in Inner : Child(k) \in Heap /\ k > 0 /\ 2 * k \in Heap /\ 2 * k + 1 \in Heap
      /\ \A k \in Heap : k \in Nat
  BY <1>1, HeapFacts DEF IInv, Types, Inner, Heap
<1>4. /\ sz = Len(proof) /\ DefinedKnown
      /\ \A k \in Inner : k <= i /\ defined[k] => ~tree[k]
      /\ \A k \in Heap : (k >= n \/ k > i) /\ tree[k] => defined[k]
      /\ \A a \in DOMAIN pos : seen[pos[a] + n] = claim[a]
      /\ \A k \in Inner : Missing(k) =>
           defined[Child(k)] /\ at[k] < Len(recv) /\ seen[Child(k)] = recv[at[k] + 1]
      /\ Honest => \A k \in Heap : defined[k] => Agrees(k)
      /\ (\A k \in Heap : Frontier(k) => Agrees(k))
           => \A k \in Heap : defined[k] => Agrees(k)
  BY <1>1 DEF IInv, InvRecompute
<1>5. tree[i] <=> tree[2 * i] \/ tree[2 * i + 1]
  BY <1>1, <1>3 DEF IInv, InvTree, Opened
(* A child of i is defined exactly if i is in the tree. *)
<1>6. ASSUME defined[2 * i] \/ defined[2 * i + 1] PROVE tree[i]
  <2>1. PICK k \in Heap : (k = 2 * i \/ k = 2 * i + 1) /\ defined[k]
    BY <1>3, <1>6
  <2>2. CASE tree[k]
    BY <1>5, <2>1, <2>2
  <2>3. CASE \E p \in Inner : Missing(p) /\ k = Child(p)
    <3>1. PICK p \in Inner : Missing(p) /\ k = Child(p)
      BY <2>3
    <3>2. p \in Nat
      BY <1>3
    <3>3. p = i
      BY <1>3, <2>1, <3>1, <3>2 DEF Child
    <3> QED BY <3>1, <3>3 DEF Missing
  <2> QED BY <1>4, <2>1, <2>2, <2>3 DEF DefinedKnown
<1>7. tree[i] => Recomputable(i)
  <2> SUFFICES ASSUME tree[i] PROVE defined[2 * i] /\ defined[2 * i + 1]
    BY DEF Recomputable
  <2>1. 2 * i > i /\ 2 * i + 1 > i
    BY <1>1, <1>3
  <2>2. Missing(i) => defined[Child(i)]
    BY <1>3, <1>4
  <2>3. /\ tree[2 * i] => defined[2 * i]
        /\ tree[2 * i + 1] => defined[2 * i + 1]
    BY <1>3, <1>4, <2>1
  <2> QED BY <1>5, <2>2, <2>3 DEF Missing, Child
<1>8. Recomputable(i) <=> tree[i]
  BY <1>6, <1>7 DEF Recomputable
<1>9. Types'
  <2>1. seen' = [k \in Nodes |-> seen'[k]] /\ defined' \in [Nodes -> BOOLEAN]
    BY <1>1, <1>3 DEF IInv, Types, TypeOK
  <2>2. i' \in 0..(n' - 1)
    BY <1>1, <1>3
  <2>3. DOMAIN seen' = Nodes'
    BY <1>2, <2>1
  <2>4. TypeOK'
    BY <1>1, <1>2, <2>1, <2>2, <2>3 DEF IInv, Types, TypeOK
  <2> QED BY <1>1, <1>2, <2>1, <2>4 DEF IInv, Types
<1>10. /\ \A k \in Nodes : k # i => (defined'[k] <=> defined[k]) /\ seen'[k] = seen[k]
       /\ tree[i] => defined'[i] /\ seen'[i] = Hash2(seen[2 * i], seen[2 * i + 1])
       /\ ~tree[i] => (defined'[i] <=> defined[i]) /\ seen'[i] = seen[i]
  BY <1>1, <1>3, <1>8 DEF IInv, Types, TypeOK
<1>11. DefinedKnown'
  <2> SUFFICES ASSUME NEW k \in Heap, defined'[k]
               PROVE  tree[k] \/ \E p \in Inner : Missing(p) /\ k = Child(p)
    BY <1>1, <1>2 DEF DefinedKnown
  <2>1. tree[k] \/ defined[k]
    BY <1>3, <1>10
  <2> QED BY <1>4, <2>1 DEF DefinedKnown
<1>12. \A k \in Inner : k <= i - 1 /\ defined'[k] => ~tree[k]
  <2> SUFFICES ASSUME NEW k \in Inner, k <= i - 1, defined'[k] PROVE ~tree[k]
    OBVIOUS
  <2>1. k # i /\ k <= i /\ k \in Nodes
    BY <1>3
  <2> QED BY <1>4, <1>10, <2>1
<1>13. \A k \in Heap : (k >= n \/ k > i - 1) /\ tree[k] => defined'[k]
  <2> SUFFICES ASSUME NEW k \in Heap, k >= n \/ k > i - 1, tree[k] PROVE defined'[k]
    OBVIOUS
  <2>1. CASE k = i
    BY <1>10, <2>1
  <2>2. CASE k # i
    <3>1. (k >= n \/ k > i) /\ k \in Nodes
      BY <1>3, <2>2
    <3> QED BY <1>4, <1>10, <2>2, <3>1
  <2> QED BY <2>1, <2>2
<1>14. \A a \in DOMAIN pos : seen'[pos[a] + n] = claim[a]
  <2> SUFFICES ASSUME NEW a \in DOMAIN pos PROVE seen'[pos[a] + n] = claim[a]
    OBVIOUS
  <2>1. pos[a] \in Nat /\ pos[a] < n
    BY Positions DEF IInv, Types
  <2>2. pos[a] + n \in Nodes /\ pos[a] + n # i
    BY <1>3, <2>1 DEF Nodes
  <2> QED BY <1>4, <1>10, <2>2
<1>15. \A k \in Inner : Missing(k) =>
         defined'[Child(k)] /\ at[k] < Len(recv) /\ seen'[Child(k)] = recv[at[k] + 1]
  <2> SUFFICES ASSUME NEW k \in Inner, Missing(k)
               PROVE defined'[Child(k)] /\ at[k] < Len(recv) /\ seen'[Child(k)] = recv[at[k] + 1]
    OBVIOUS
  <2>1. Child(k) \in Nodes /\ ~tree[Child(k)]
    BY <1>3 DEF Missing
  <2>2. defined[Child(k)] /\ at[k] < Len(recv) /\ seen[Child(k)] = recv[at[k] + 1]
    BY <1>4
  <2>3. CASE Child(k) = i
    BY <1>10, <2>1, <2>2, <2>3
  <2>4. CASE Child(k) # i
    BY <1>10, <2>1, <2>2, <2>4
  <2> QED BY <2>3, <2>4
<1>16. layers[i] = Hash2(layers[2 * i], layers[2 * i + 1])
  BY <1>1, <1>3 DEF IInv, InvBuild
<1>17. ASSUME Honest', NEW k \in Heap, defined'[k] PROVE seen'[k] = layers[k]
  <2>1. \A m \in Heap : defined[m] => seen[m] = layers[m]
    BY <1>1, <1>4, <1>17 DEF Honest, Agrees
  <2>2. CASE k = i /\ tree[i]
    <3>1. seen[2 * i] = layers[2 * i] /\ seen[2 * i + 1] = layers[2 * i + 1]
      BY <1>3, <1>8, <2>1, <2>2 DEF Recomputable
    <3> QED BY <1>10, <1>16, <2>2, <3>1
  <2>3. CASE ~(k = i /\ tree[i])
    BY <1>3, <1>10, <1>17, <2>1, <2>3
  <2> QED BY <2>2, <2>3
<1>18. ASSUME \A k \in Heap : Frontier(k)' => seen'[k] = layers[k]
       PROVE  \A k \in Heap : defined'[k] => seen'[k] = layers[k]
  <2>1. ASSUME tree[i] PROVE /\ seen'[i] = layers[i]
                             /\ seen[2 * i] = layers[2 * i]
                             /\ seen[2 * i + 1] = layers[2 * i + 1]
    <3>0. PICK j \in Heap : j = i
      BY <1>3
    <3>1. Frontier(j)'
      <4>1. defined'[j]
        BY <1>10, <2>1, <3>0
      <4>2. CASE j = 1
        BY <4>1, <4>2 DEF Frontier
      <4>3. CASE j # 1
        <5>1. PICK p \in Inner : p < j /\ (j = 2 * p \/ j = 2 * p + 1)
          BY <4>3, Parent DEF IInv, Types
        <5>2. p <= i - 1
          BY <1>3, <3>0, <5>1
        <5> QED BY <1>1, <1>2, <4>1, <5>1, <5>2 DEF Frontier
      <4> QED BY <4>2, <4>3
    <3>2. seen'[i] = layers[i]
      BY <1>18, <3>0, <3>1
    <3> QED BY <1>10, <1>16, <2>1, <3>2 DEF Hash2
  <2>2. ASSUME NEW k \in Heap, Frontier(k) PROVE seen[k] = layers[k]
    <3>1. CASE tree[i] /\ (k = 2 * i \/ k = 2 * i + 1)
      BY <2>1, <3>1
    <3>2. CASE ~(tree[i] /\ (k = 2 * i \/ k = 2 * i + 1))
      <4>1. defined[k]
        BY <2>2 DEF Frontier
      <4>2. ~(k = 2 * i \/ k = 2 * i + 1)
        BY <1>6, <3>2, <4>1
      <4>3. k = 1 \/ \E p \in Inner : p <= i - 1 /\ (k = 2 * p \/ k = 2 * p + 1)
        BY <1>3, <2>2, <4>2 DEF Frontier
      <4>4. CASE k = i /\ tree[i]
        BY <1>3, <1>4, <4>1, <4>4
      <4>5. CASE ~(k = i /\ tree[i])
        <5>1. (defined'[k] <=> defined[k]) /\ seen'[k] = seen[k]
          BY <1>3, <1>10, <4>5
        <5>2. Frontier(k)'
          BY <1>1, <1>2, <4>1, <4>3, <5>1 DEF Frontier
        <5> QED BY <1>18, <5>1, <5>2
      <4> QED BY <4>4, <4>5
    <3> QED BY <3>1, <3>2
  <2>3. \A k \in Heap : defined[k] => seen[k] = layers[k]
    BY <1>4, <2>2 DEF Agrees
  <2>4. ASSUME NEW k \in Heap, defined'[k] PROVE seen'[k] = layers[k]
    <3>1. CASE k = i /\ tree[i]
      BY <2>1, <3>1
    <3>2. CASE ~(k = i /\ tree[i])
      BY <1>3, <1>10, <2>3, <2>4, <3>2
    <3> QED BY <3>1, <3>2
  <2> QED BY <2>4
<1>19. InvRecompute'
  <2>1. \A k : Agrees(k)' <=> seen'[k] = layers[k]
    BY <1>1 DEF Agrees
  <2>2. /\ sz' = Len(proof') /\ DefinedKnown'
        /\ \A k \in Inner' : k <= i' /\ defined'[k] => ~tree'[k]
        /\ \A k \in Heap' : (k >= n' \/ k > i') /\ tree'[k] => defined'[k]
    BY <1>1, <1>2, <1>4, <1>11, <1>12, <1>13
  <2>3. /\ \A a \in DOMAIN pos' : seen'[pos'[a] + n'] = claim'[a]
        /\ \A k \in Inner' : Missing(k)' =>
             defined'[Child(k)'] /\ at'[k] < Len(recv') /\ seen'[Child(k)'] = recv'[at'[k] + 1]
    BY <1>1, <1>2, <1>14, <1>15
  <2>4. Honest' => \A k \in Heap' : defined'[k] => Agrees(k)'
    BY <1>2, <1>17, <2>1
  <2>5. (\A k \in Heap' : Frontier(k)' => Agrees(k)')
          => \A k \in Heap' : defined'[k] => Agrees(k)'
    BY <1>2, <1>18, <2>1
  <2> QED BY <2>2, <2>3, <2>4, <2>5 DEF InvRecompute
<1> QED
  BY <1>1, <1>2, <1>9, <1>19 DEF IInv, Fresh, Generated, Marked, InvRead,
     InvDone, Completeness, Binding, ProofDetermined

(* At the root the agreement decides: what the verifier accepts is what    *)
(* was committed, and what was committed it accepts.                       *)
LEMMA DecideStep == ASSUME IInv, Decide PROVE IInv'
<1>1. /\ pc = "recompute" /\ pc' = "done" /\ i = 0 /\ verdict' = Accept
      /\ UNCHANGED <<n, i, pos, tree, leaf, layers, proof, at, claim, recv, sz, seen, defined>>
  BY DEF Decide, prover, opening
<1>2. InvProof' /\ InvBuild' /\ InvTree' /\ Committed' = Committed /\ Nodes' = Nodes
  BY <1>1, ProofStays DEF Generated
<1>3. /\ n \in Nat /\ n > 0 /\ Inner \subseteq Heap /\ 1 \in Heap
      /\ \A k \in Inner : Child(k) \in Heap /\ k > 0
      /\ \A k \in Heap : k \in Nat /\ k > 0
  BY HeapFacts DEF IInv, Types, Inner, Heap
<1>4. /\ sz = Len(proof)
      /\ \A k \in Heap : tree[k] => defined[k]
      /\ \A a \in DOMAIN pos : seen[pos[a] + n] = claim[a]
      /\ \A k \in Inner : Missing(k) =>
           defined[Child(k)] /\ at[k] < Len(recv) /\ seen[Child(k)] = recv[at[k] + 1]
      /\ Honest => \A k \in Heap : defined[k] => Agrees(k)
      /\ (\A k \in Heap : Frontier(k) => Agrees(k))
           => \A k \in Heap : defined[k] => Agrees(k)
  BY <1>1, <1>3 DEF IInv, InvRecompute
<1>5. Accept \in BOOLEAN
  <2>1. defined[1] \in BOOLEAN
    BY <1>3, HeapFacts DEF IInv, Types, TypeOK
  <2> QED BY <2>1 DEF Accept
<1>6. Types'
  BY <1>1, <1>2, <1>5 DEF IInv, Types, TypeOK
<1>7. Honest => Accept
  <2>1. tree[1]
    BY <1>1 DEF IInv, InvTree, Opened, Marked
  <2> QED BY <1>3, <1>4, <2>1 DEF Accept, Agrees
<1>8. ASSUME Accept PROVE \A k \in Heap : defined[k] => seen[k] = layers[k]
  <2>1. ASSUME NEW k \in Heap, Frontier(k) PROVE Agrees(k)
    <3>1. k = 1
      BY <1>1, <1>3, <2>1 DEF Frontier
    <3> QED BY <1>8, <3>1 DEF Accept, Agrees
  <2> QED BY <1>4, <2>1 DEF Agrees
<1>9. ASSUME Accept, NEW a \in DOMAIN pos PROVE claim[a] = leaf[pos[a]]
  <2>1. pos[a] \in Nat /\ pos[a] < n
    BY Positions DEF IInv, Types
  <2>2. pos[a] + n \in Heap /\ pos[a] + n >= n /\ (pos[a] + n) - n = pos[a]
    BY <1>3, <2>1 DEF Heap
  <2>3. tree[pos[a] + n]
    BY <1>1, <2>2 DEF IInv, InvTree, Opened, OpenLeaf
  <2>4. seen[pos[a] + n] = layers[pos[a] + n]
    BY <1>4, <1>8, <1>9, <2>2, <2>3
  <2>5. layers[pos[a] + n] = leaf[pos[a]]
    BY <2>2 DEF IInv, InvBuild
  <2> QED BY <1>4, <2>4, <2>5
<1>10. ASSUME Accept, NEW a \in DOMAIN proof PROVE recv[a] = proof[a]
  <2>1. a \in 1..Len(proof)
    BY DEF IInv, Types
  <2>2. PICK k \in Inner : Missing(k) /\ a = at[k] + 1
    BY <1>1, <2>1 DEF IInv, InvProof, Marked
  <2>3. proof[a] = layers[Child(k)]
    BY <1>1, <2>2 DEF IInv, InvProof, Marked, Passed
  <2>4. defined[Child(k)] /\ seen[Child(k)] = recv[a]
    BY <1>4, <2>2
  <2> QED BY <1>3, <1>8, <1>10, <2>3, <2>4
<1>11. Len(recv) >= Len(proof)
  BY <1>4 DEF IInv, Types, TypeOK
<1>12. Honest' <=> Honest
  BY <1>1 DEF Honest
<1>13. InvDone'
  BY <1>1, <1>7, <1>9, <1>10, <1>11, <1>12 DEF InvDone, Completeness, Binding, ProofDetermined
<1> QED
  BY <1>1, <1>2, <1>6, <1>13 DEF IInv, Fresh, Generated, Marked, InvRead, InvRecompute

-----------------------------------------------------------------------------
(* Giving up on an undefined opening changes nothing. *)
LEMMA OpenUndefinedStep == ASSUME IInv, OpenUndefined PROVE IInv'
<1>1. /\ pc = "open" /\ pc' = "aborted"
      /\ UNCHANGED <<n, i, pos, tree, leaf, layers, proof, at, claim, recv, sz, seen, defined, verdict>>
  BY DEF OpenUndefined, prover, opening, verifier
<1>2. InvBuild' /\ Committed' = Committed /\ Nodes' = Nodes
  BY <1>1, BuiltStays
<1>3. Types'
  BY <1>1, <1>2 DEF IInv, Types, TypeOK
<1> QED
  BY <1>1, <1>2, <1>3 DEF IInv, Fresh, Generated, Marked, Opened, InvTree, InvProof, InvRead,
     InvRecompute, InvDone, Completeness, Binding, ProofDetermined

(* Every step keeps the invariant. *)
LEMMA NextIInv == IInv /\ [Next]_vars => IInv'
<1> SUFFICES ASSUME IInv, [Next]_vars PROVE IInv'
  OBVIOUS
<1>1. CASE UNCHANGED vars
  <2>1. UNCHANGED <<pc, i, n, leaf, layers, pos, tree, proof, at, claim, recv, sz, seen,
                    defined, verdict>>
    BY <1>1 DEF vars, prover, opening, verifier
  <2>2. Types' /\ Fresh'
    BY <2>1 DEF IInv, Types, TypeOK, Nodes, Committed, Fresh, Generated, Marked
  <2>3. InvBuild'
    BY <2>1 DEF IInv, InvBuild, Heap, Inner
  <2>4. InvTree'
    <3>1. \A k : OpenLeaf(k)' <=> OpenLeaf(k)
      BY <2>1 DEF OpenLeaf
    <3> QED BY <2>1, <3>1 DEF IInv, InvTree, Opened, Marked, Heap, Inner, Undefined
  <2>5. \A k : /\ Child(k)' = Child(k) /\ (Missing(k)' <=> Missing(k))
               /\ Position(k)' = Position(k) /\ (Passed(k)' <=> Passed(k))
    BY <2>1 DEF Child, Missing, Position, Passed
  <2>6. InvProof'
    BY <2>1, <2>5 DEF IInv, InvProof, Marked, Inner
  <2>7. DefinedKnown' <=> DefinedKnown
    BY <2>1, <2>5 DEF DefinedKnown, Heap, Inner
  <2>8. InvRead'
    BY <2>1, <2>5, <2>7 DEF IInv, InvRead, Heap, Inner
  <2>9. \A k : (Frontier(k)' <=> Frontier(k)) /\ (Agrees(k)' <=> Agrees(k))
    BY <2>1 DEF Frontier, Agrees, Inner
  <2>10. InvRecompute'
    BY <2>1, <2>5, <2>7, <2>9 DEF IInv, InvRecompute, Heap, Inner, Honest
  <2>11. InvDone'
    BY <2>1 DEF IInv, InvDone, Completeness, Binding, ProofDetermined, Honest
  <2> QED BY <2>2, <2>3, <2>4, <2>6, <2>8, <2>10, <2>11 DEF IInv
<1> QED
  BY <1>1, BuildStep, OpenStep, OpenUndefinedStep, TreeStep, TreeDoneStep, GenerateStep,
     ReceiveStep, ReadStep, TooShortStep, SetLeavesStep, RecomputeStep, DecideStep DEF Next

(* The invariant holds in every reachable state. *)
LEMMA Invariance == Spec => []IInv
<1>1. Init => IInv
  BY InitIInv
<1>2. IInv /\ [Next]_vars => IInv'
  BY NextIInv
<1> QED BY <1>1, <1>2, PTL DEF Spec

(* The loops over the heap stay inside it, for every number of leaves. *)
THEOREM TypeCorrect == Spec => []TypeOK
<1>1. IInv => TypeOK
  BY DEF IInv, Types
<1> QED BY <1>1, Invariance, PTL

(* The assertion tree[1] of compressed_merkle_proof_tree never fails. *)
THEOREM RootAlwaysInTree == Spec => []RootInTree
<1>1. IInv => RootInTree
  BY DEF IInv, InvTree, RootInTree, Opened, Marked
<1> QED BY <1>1, Invariance, PTL

(* Every honest opening is accepted. *)
THEOREM HonestAccepted == Spec => []Completeness
<1>1. IInv => Completeness
  BY DEF IInv, InvDone
<1> QED BY <1>1, Invariance, PTL

(* Only the committed leaves are accepted. *)
THEOREM OnlyCommittedAccepted == Spec => []Binding
<1>1. IInv => Binding
  BY DEF IInv, InvDone
<1> QED BY <1>1, Invariance, PTL

(* An accepted proof begins with the honest one. *)
THEOREM ProofIsUnique == Spec => []ProofDetermined
<1>1. IInv => ProofDetermined
  BY DEF IInv, InvDone
<1> QED BY <1>1, Invariance, PTL

-----------------------------------------------------------------------------
(* Halvings, as far as m *)
HalvedTo(m, f) ==
  /\ f \in [0..m -> Nat]
  /\ \A k \in 0..m : f[k] = IF k > 1 THEN 1 + f[k \div 2] ELSE 0

(* There are such values for every m, *)
LEMMA HalvedToExists == \A m \in Nat : \E f : HalvedTo(m, f)
<1> DEFINE S == {m \in Nat : \E f : HalvedTo(m, f)}
<1>1. 0 \in S
  <2>1. HalvedTo(0, [k \in 0..0 |-> 0]) BY DEF HalvedTo
  <2> QED BY <2>1
<1>2. ASSUME NEW m \in Nat, m \in S PROVE m + 1 \in S
  <2>1. PICK f : HalvedTo(m, f) BY <1>2
  <2> DEFINE g == [k \in 0..(m + 1) |-> IF k = m + 1 THEN IF k > 1 THEN 1 + f[k \div 2] ELSE 0
                                        ELSE f[k]]
  <2>2. \A k \in 0..(m + 1) : k > 1 => k \div 2 \in 0..m OBVIOUS
  <2>3. g \in [0..(m + 1) -> Nat] BY <2>1, <2>2 DEF HalvedTo
  <2>4. \A k \in 0..m : g[k] = f[k] OBVIOUS
  <2>5. \A k \in 0..(m + 1) : g[k] = IF k > 1 THEN 1 + g[k \div 2] ELSE 0
    BY <2>1, <2>2, <2>4 DEF HalvedTo
  <2> HIDE DEF g
  <2>6. HalvedTo(m + 1, g) BY <2>3, <2>5 DEF HalvedTo
  <2> QED BY <2>6
<1> HIDE DEF S
<1>3. \A m \in Nat : m \in S BY <1>1, <1>2, Induction
<1> QED BY <1>3 DEF S

(* and only one for each number. *)
LEMMA HalvedToAgree ==
  ASSUME NEW m \in Nat, NEW f, HalvedTo(m, f), NEW o \in Nat, NEW g, HalvedTo(o, g)
  PROVE  \A k \in Nat : k <= m /\ k <= o => f[k] = g[k]
<1> DEFINE S == {j \in Nat : \A k \in 0..j : k <= m /\ k <= o => f[k] = g[k]}
<1>1. 0 \in S BY DEF HalvedTo
<1>2. ASSUME NEW j \in Nat, j \in S PROVE j + 1 \in S
  <2> SUFFICES ASSUME j + 1 <= m, j + 1 <= o PROVE f[j + 1] = g[j + 1] BY <1>2
  <2>1. CASE j + 1 > 1
    <3>1. (j + 1) \div 2 \in 0..j /\ (j + 1) \div 2 <= m /\ (j + 1) \div 2 <= o BY <2>1
    <3>2. f[(j + 1) \div 2] = g[(j + 1) \div 2] BY <1>2, <3>1
    <3>3. j + 1 \in 0..m /\ j + 1 \in 0..o OBVIOUS
    <3> QED BY <2>1, <3>2, <3>3 DEF HalvedTo
  <2>2. CASE ~(j + 1 > 1)
    <3>1. j + 1 \in 0..m /\ j + 1 \in 0..o OBVIOUS
    <3> QED BY <2>2, <3>1 DEF HalvedTo
  <2> QED BY <2>1, <2>2
<1>3. \A j \in Nat : j \in S
  <2> HIDE DEF S
  <2> QED BY <1>1, <1>2, Induction
<1> QED BY <1>3

(* The loop of merkle_tree_len computes what its definition says. *)
LEMMA HalvingsIs ==
  /\ Halvings \in [Nat -> Nat]
  /\ \A k \in Nat : Halvings[k] = IF k > 1 THEN 1 + Halvings[k \div 2] ELSE 0
<1> DEFINE to(m) == CHOOSE f : HalvedTo(m, f)
           H == [k \in Nat |-> to(k)[k]]
<1>1. \A m \in Nat : HalvedTo(m, to(m)) BY HalvedToExists, Zenon
<1> HIDE DEF to
<1>2. \A k \in Nat : H[k] = to(k)[k] OBVIOUS
<1>3. ASSUME NEW k \in Nat PROVE H[k] \in Nat /\ H[k] = IF k > 1 THEN 1 + H[k \div 2] ELSE 0
  <2>1. HalvedTo(k, to(k)) BY <1>1
  <2>2. k \in 0..k OBVIOUS
  <2>3. to(k)[k] \in Nat /\ to(k)[k] = IF k > 1 THEN 1 + to(k)[k \div 2] ELSE 0
    BY <2>1, <2>2 DEF HalvedTo
  <2>4. CASE k > 1
    <3>1. k \div 2 \in Nat /\ k \div 2 <= k BY <2>4
    <3>2. HalvedTo(k \div 2, to(k \div 2)) BY <1>1, <3>1
    <3> DEFINE h == k \div 2
    <3>3. h \in Nat /\ h <= k /\ h <= h BY <3>1
    <3> HIDE DEF h
    <3>4. to(k)[h] = to(h)[h]
      <4>1. HalvedTo(h, to(h)) BY <3>2 DEF h
      <4> QED BY <2>1, <4>1, <3>3, HalvedToAgree
    <3>5. to(k)[h] = H[h] BY <1>2, <3>3, <3>4
    <3> QED BY <1>2, <2>3, <2>4, <3>5 DEF h
  <2>5. CASE ~(k > 1) BY <1>2, <2>3, <2>5
  <2> QED BY <2>4, <2>5
<1>4. H = [k \in Nat |-> IF k > 1 THEN 1 + H[k \div 2] ELSE 0]
  <2>1. H = [k \in Nat |-> H[k]] OBVIOUS
  <2> HIDE DEF H
  <2> QED BY <1>3, <2>1, Zenon
<1>5. Halvings = [k \in Nat |-> IF k > 1 THEN 1 + Halvings[k \div 2] ELSE 0]
  <2> HIDE DEF H
  <2>1. \E f : f = [k \in Nat |-> IF k > 1 THEN 1 + f[k \div 2] ELSE 0] BY <1>4, Zenon
  <2> QED BY <2>1, Zenon DEF Halvings
<1>6. \A k \in Nat : Halvings[k] = IF k > 1 THEN 1 + Halvings[k \div 2] ELSE 0
  BY <1>5, Zenon
<1> DEFINE S == {j \in Nat : \A k \in 0..j : Halvings[k] \in Nat}
<1>7. 0 \in S BY <1>6
<1>8. ASSUME NEW j \in Nat, j \in S PROVE j + 1 \in S
  <2>1. CASE j + 1 > 1
    <3>1. (j + 1) \div 2 \in 0..j BY <2>1
    <3>2. Halvings[(j + 1) \div 2] \in Nat BY <1>8, <3>1
    <3>3. Halvings[j + 1] \in Nat BY <1>6, <2>1, <3>2
    <3> QED BY <1>8, <3>3
  <2>2. CASE ~(j + 1 > 1)
    <3>1. Halvings[j + 1] \in Nat BY <1>6, <2>2
    <3> QED BY <1>8, <3>1
  <2> QED BY <2>1, <2>2
<1>9. \A j \in Nat : j \in S
  <2> HIDE DEF S
  <2> QED BY <1>7, <1>8, Induction
<1>10. \A k \in Nat : Halvings[k] \in Nat BY <1>9
<1>11. Halvings = [k \in Nat |-> Halvings[k]] BY <1>5, <1>6, Zenon
<1> QED BY <1>6, <1>10, <1>11

(* More leaves do not have fewer levels. *)
LEMMA HalvingsGrow ==
  \A l \in Nat : \A k \in Nat : k <= l => Halvings[k] <= Halvings[l]
<1> DEFINE S == {j \in Nat : \A l \in 0..j : \A k \in 0..l : Halvings[k] <= Halvings[l]}
<1>1. 0 \in S BY HalvingsIs
<1>2. ASSUME NEW j \in Nat, j \in S PROVE j + 1 \in S
  <2> SUFFICES ASSUME NEW k \in 0..(j + 1) PROVE Halvings[k] <= Halvings[j + 1]
    BY <1>2
  <2>1. Halvings[j + 1] \in Nat /\ Halvings[k] \in Nat BY HalvingsIs
  <2>2. CASE k > 1
    <3>1. k \div 2 \in 0..((j + 1) \div 2) /\ (j + 1) \div 2 \in 0..j /\ j + 1 > 1 BY <2>2
    <3>2. Halvings[k \div 2] <= Halvings[(j + 1) \div 2] BY <1>2, <3>1
    <3>3. Halvings[k] = 1 + Halvings[k \div 2] BY <2>2, HalvingsIs
    <3>4. Halvings[j + 1] = 1 + Halvings[(j + 1) \div 2] BY <3>1, HalvingsIs
    <3>5. Halvings[(j + 1) \div 2] \in Nat /\ Halvings[k \div 2] \in Nat BY <3>1, HalvingsIs
    <3> QED BY <3>2, <3>3, <3>4, <3>5
  <2>3. CASE ~(k > 1)
    <3>1. Halvings[k] = 0 BY <2>3, HalvingsIs
    <3> QED BY <2>1, <3>1
  <2> QED BY <2>2, <2>3
<1>3. \A j \in Nat : j \in S
  <2> HIDE DEF S
  <2> QED BY <1>1, <1>2, Induction
<1> QED BY <1>3

-----------------------------------------------------------------------------
(* The way from a leaf to the root, as far as m steps *)
Way(x, m, f) ==
  /\ f \in [0..m -> Nat] /\ f[0] = x
  /\ \A d \in 0..m : d < m => f[d + 1] = f[d] \div 2

(* Every node has one. *)
LEMMA WayExists == ASSUME NEW x \in Nat PROVE \A m \in Nat : \E f : Way(x, m, f)
<1> DEFINE S == {m \in Nat : \E f : Way(x, m, f)}
<1>1. 0 \in S
  <2>1. Way(x, 0, [d \in 0..0 |-> x]) BY DEF Way
  <2> QED BY <2>1
<1>2. ASSUME NEW m \in Nat, m \in S PROVE m + 1 \in S
  <2>1. PICK f : Way(x, m, f) BY <1>2
  <2> DEFINE g == [d \in 0..(m + 1) |-> IF d = m + 1 THEN f[m] \div 2 ELSE f[d]]
  <2>2. \A d \in 0..m : g[d] = f[d] /\ f[d] \in Nat BY <2>1 DEF Way
  <2>3. g[m + 1] = f[m] \div 2 /\ f[m] \div 2 \in Nat BY <2>2
  <2>4. g \in [0..(m + 1) -> Nat]
    <3>1. \A d \in 0..(m + 1) : d \in 0..m \/ d = m + 1 OBVIOUS
    <3>2. \A d \in 0..(m + 1) : g[d] \in Nat
      <4> HIDE DEF g
      <4> QED BY <2>2, <2>3, <3>1
    <3> QED BY <3>2
  <2>5. \A d \in 0..(m + 1) : d < m + 1 => g[d + 1] = g[d] \div 2
    <3> SUFFICES ASSUME NEW d \in 0..m PROVE g[d + 1] = g[d] \div 2
      <4>1. \A d \in 0..(m + 1) : d < m + 1 => d \in 0..m OBVIOUS
      <4> HIDE DEF g
      <4> QED BY <4>1
    <3>1. CASE d = m BY <2>2, <2>3, <3>1
    <3>2. CASE d < m
      <4>1. d + 1 \in 0..m BY <3>2
      <4> HIDE DEF g
      <4> QED BY <2>1, <2>2, <3>2, <4>1 DEF Way
    <3> QED BY <3>1, <3>2
  <2>6. g[0] = x BY <2>1, <2>2 DEF Way
  <2> HIDE DEF g
  <2>7. Way(x, m + 1, g) BY <2>4, <2>5, <2>6 DEF Way
  <2> QED BY <2>7
<1> HIDE DEF S
<1>3. \A m \in Nat : m \in S BY <1>1, <1>2, Induction
<1> QED BY <1>3 DEF S

(* Levels above the leaves, and the way of each opened leaf through them *)
Above == Halvings[2 * n - 1]
WayOf(a) == CHOOSE f : Way(pos[a] + n, Above, f)

(* Each marked node is on the way of an opened leaf, and a node that has   *)
(* Halvings[k] nodes above it is not nearer to the leaf than that leaves.  *)
LEMMA MarkedIsOnAWay ==
  ASSUME TypeOK, InvTree, Marked
  PROVE  \A k \in Heap : tree[k] =>
           \E a \in DOMAIN pos : \E d \in 0..Above : WayOf(a)[d] = k /\ Halvings[k] + d <= Above
<1>1. n \in Nat /\ n > 0 BY HeapFacts
<1>2. Above \in Nat
  <2>1. 2 * n - 1 \in Nat BY <1>1
  <2> QED BY <2>1, HalvingsIs DEF Above
<1>3. \A a \in DOMAIN pos : pos[a] \in Nat /\ pos[a] < n /\ pos[a] + n \in Nat
  BY <1>1, Positions
<1>4. \A a \in DOMAIN pos : Way(pos[a] + n, Above, WayOf(a))
  <2> SUFFICES ASSUME NEW a \in DOMAIN pos PROVE Way(pos[a] + n, Above, WayOf(a)) OBVIOUS
  <2>1. \E f : Way(pos[a] + n, Above, f) BY <1>2, <1>3, WayExists
  <2> QED BY <2>1, Zenon DEF WayOf
<1> DEFINE On(k) ==
             \E a \in DOMAIN pos : \E d \in 0..Above : WayOf(a)[d] = k /\ Halvings[k] + d <= Above
           S == {j \in Nat : \A k \in Heap : k + j >= 2 * n - 1 /\ tree[k] => On(k)}
<1>5. ASSUME NEW k \in Heap, k >= n, tree[k] PROVE On(k)
  <2>1. PICK a \in DOMAIN pos : k = pos[a] + n
    BY <1>5 DEF InvTree, Opened, Marked, OpenLeaf
  <2>2. WayOf(a)[0] = k BY <1>4, <2>1 DEF Way
  <2>3. Halvings[k] + 0 <= Above
    <3>1. k \in Nat /\ 2 * n - 1 \in Nat /\ k <= 2 * n - 1 BY <1>1 DEF Heap
    <3>2. Halvings[k] <= Halvings[2 * n - 1] BY <3>1, HalvingsGrow
    <3>3. Halvings[k] \in Nat BY <3>1, HalvingsIs
    <3> QED BY <3>2, <3>3 DEF Above
  <2>4. 0 \in 0..Above BY <1>2
  <2> QED BY <2>1, <2>2, <2>3, <2>4
<1>6. ASSUME NEW k \in Inner, NEW c \in Heap, c = 2 * k \/ c = 2 * k + 1, On(c) PROVE On(k)
  <2>1. PICK a \in DOMAIN pos, d \in 0..Above : WayOf(a)[d] = c /\ Halvings[c] + d <= Above
    BY <1>6
  <2>2. k \in Nat /\ c \in Nat /\ c > 1 /\ c \div 2 = k BY <1>1, <1>6 DEF Inner
  <2>3. Halvings[c] = 1 + Halvings[k] /\ Halvings[k] \in Nat BY <2>2, HalvingsIs
  <2>4. d + 1 \in 0..Above /\ d < Above /\ Halvings[k] + (d + 1) <= Above BY <1>2, <2>1, <2>3
  <2>5. WayOf(a)[d + 1] = k BY <1>4, <2>1, <2>2, <2>4 DEF Way
  <2> QED BY <2>4, <2>5
<1> HIDE DEF On
<1>7. 0 \in S
  <2>1. \A k \in Heap : k + 0 >= 2 * n - 1 => k >= n BY <1>1 DEF Heap
  <2> QED BY <1>5, <2>1
<1>8. ASSUME NEW j \in Nat, j \in S PROVE j + 1 \in S
  <2> SUFFICES ASSUME NEW k \in Heap, k + (j + 1) >= 2 * n - 1, tree[k] PROVE On(k) OBVIOUS
  <2>1. CASE k >= n BY <1>5, <2>1
  <2>2. CASE k < n
    <3>1. k \in Inner BY <1>1, <2>2 DEF Inner, Heap
    <3>2. 2 * k \in Heap /\ 2 * k + 1 \in Heap BY <3>1, HeapFacts
    <3>3. 2 * k + j >= 2 * n - 1 /\ (2 * k + 1) + j >= 2 * n - 1
      BY <1>1, <3>1 DEF Inner
    <3>4. pc # "tree" BY DEF Marked
    <3>5. tree[2 * k] \/ tree[2 * k + 1]
      BY <3>1, <3>4 DEF InvTree, Opened, Marked
    <3>6. tree[2 * k] => On(2 * k) BY <1>8, <3>2, <3>3
    <3>7. tree[2 * k + 1] => On(2 * k + 1) BY <1>8, <3>2, <3>3
    <3> QED BY <1>6, <3>1, <3>2, <3>5, <3>6, <3>7
  <2> QED BY <1>1, <2>1, <2>2 DEF Heap
<1>9. \A j \in Nat : j \in S
  <2> HIDE DEF S
  <2> QED BY <1>7, <1>8, Induction
<1>10. 2 * n - 1 \in S
  <2>1. 2 * n - 1 \in Nat BY <1>1
  <2> QED BY <1>9, <2>1
<1>11. \A k \in Heap : k + (2 * n - 1) >= 2 * n - 1 BY <1>1 DEF Heap
<1>12. \A k \in Heap : tree[k] => On(k) BY <1>10, <1>11
<1> QED BY <1>12 DEF On

(* Each opened leaf has at most one node in the proof for each level above *)
(* it.                                                                     *)
LEMMA ProofIsShort ==
  ASSUME TypeOK, Types, InvTree, InvProof, Marked
  PROVE  Len(proof) <= Len(pos) * Above
<1>1. n \in Nat /\ n > 0 BY HeapFacts
<1>2. Above \in Nat
  <2>1. 2 * n - 1 \in Nat BY <1>1
  <2> QED BY <2>1, HalvingsIs DEF Above
<1>3. Len(pos) \in Nat /\ DOMAIN pos = 1..Len(pos) BY DEF TypeOK
<1>4. Len(proof) \in Nat BY DEF Types
<1>5. CASE Len(proof) = 0
  <2>1. Len(pos) * Above >= 0 BY <1>2, <1>3
  <2> QED BY <1>5, <2>1
<1>6. CASE Len(proof) > 0
  <2> DEFINE P == 1..Len(pos)   L == 1..Above   N == 1..Len(proof)
             h == [w \in P \X L |-> IF WayOf(w[1])[w[2]] \in Inner
                                       /\ at[WayOf(w[1])[w[2]]] + 1 \in N
                                    THEN at[WayOf(w[1])[w[2]]] + 1 ELSE 1]
  <2>1. 1 \in N BY <1>4, <1>6
  <2>2. h \in [P \X L -> N] BY <2>1
  <2>3. ASSUME NEW a \in N PROVE \E w \in P \X L : h[w] = a
    <3>1. PICK k \in Inner : Missing(k) /\ a = at[k] + 1 BY DEF InvProof
    <3>2. k \in Heap /\ tree[k] BY <3>1, HeapFacts DEF Missing
    <3>3. PICK b \in DOMAIN pos, d \in 0..Above : WayOf(b)[d] = k
      BY <3>2, MarkedIsOnAWay
    <3>4. d # 0
      <4>1. pos[b] \in Nat BY Positions
      <4>2. pos[b] + n \in Nat BY <1>1, <4>1
      <4>3. \E f : Way(pos[b] + n, Above, f) BY <1>2, <4>2, WayExists
      <4>4. Way(pos[b] + n, Above, WayOf(b)) BY <4>3, Zenon DEF WayOf
      <4>5. WayOf(b)[0] = pos[b] + n BY <4>4 DEF Way
      <4> QED BY <1>1, <3>3, <4>1, <4>5 DEF Inner
    <3>5. d \in L /\ b \in P BY <1>2, <1>3, <3>4
    <3>6. <<b, d>> \in P \X L /\ <<b, d>>[1] = b /\ <<b, d>>[2] = d BY <3>5
    <3>7. h[<<b, d>>] = a BY <3>1, <3>3, <3>6
    <3> QED BY <3>6, <3>7
  <2> HIDE DEF h
  <2>4. h \in Surjection(P \X L, N) BY <2>2, <2>3 DEF Surjection
  <2>5. /\ IsFiniteSet(P) /\ Cardinality(P) = Len(pos)
        /\ IsFiniteSet(L) /\ Cardinality(L) = Above
        /\ Cardinality(N) = Len(proof)
    <3>1. 1 \in Int /\ Len(pos) \in Int /\ Above \in Int /\ Len(proof) \in Int
      BY <1>2, <1>3, <1>4
    <3>2. \A b \in Int : IsFiniteSet(1..b) /\ Cardinality(1..b) = IF 1 > b THEN 0 ELSE b - 1 + 1
      BY FS_Interval
    <3>3. \A b \in Nat : IsFiniteSet(1..b) /\ Cardinality(1..b) = b BY <3>2
    <3> QED BY <1>2, <1>3, <1>4, <3>3
  <2> HIDE DEF P, L, N
  <2>6. IsFiniteSet(P \X L) /\ Cardinality(P \X L) = Cardinality(P) * Cardinality(L)
    BY <2>5, FS_Product
  <2>7. Cardinality(N) <= Cardinality(P \X L) BY <2>4, <2>6, FS_Surjection
  <2> QED BY <2>5, <2>6, <2>7
<1> QED BY <1>4, <1>5, <1>6

(* The bound the proof parser uses, for every number of leaves *)
THEOREM ProofIsBounded == Spec => []ProofBounded
<1>1. IInv => ProofBounded
  <2> SUFFICES ASSUME IInv, pos # <<>> PROVE Len(proof) < Len(pos) * MerkleTreeLen(n)
    BY DEF ProofBounded
  <2>1. TypeOK BY DEF IInv, Types
  <2>2. n \in Nat /\ n > 0 BY <2>1, HeapFacts
  <2>3. Above \in Nat
    <3>1. 2 * n - 1 \in Nat BY <2>2
    <3> QED BY <3>1, HalvingsIs DEF Above
  <2>4. Len(pos) \in Nat /\ Len(pos) > 0 BY <2>1 DEF TypeOK
  <2>5. Len(proof) <= Len(pos) * Above
    <3>1. CASE Marked BY <2>1, <3>1, ProofIsShort DEF IInv
    <3>2. CASE ~Marked
      <4>1. Len(proof) = 0 BY <3>2 DEF IInv, Fresh
      <4>2. Len(pos) * Above >= 0 BY <2>3, <2>4
      <4> QED BY <4>1, <4>2
    <3> QED BY <3>1, <3>2
  <2>6. Len(proof) \in Nat BY DEF IInv, Types
  <2>7. Len(pos) * (1 + Above) = Len(pos) + Len(pos) * Above BY <2>3, <2>4
  <2>8. Len(pos) * Above \in Nat BY <2>3, <2>4
  <2> QED BY <2>4, <2>5, <2>6, <2>7, <2>8 DEF MerkleTreeLen, Above
<1> QED BY <1>1, Invariance, PTL
=============================================================================
