------------------------- MODULE LigeroParamProofs -------------------------
(***************************************************************************)
(* For every size of the fields and for all arguments with a rate: an      *)
(* object of module LigeroParam that gets through its constructor has the  *)
(* dimensions it documents, and can be opened.                             *)
(***************************************************************************)
EXTENDS LigeroParam, FiniteSetTheorems, TLAPS

-----------------------------------------------------------------------------
(* Division with remainder. *)
LEMMA Division ==
  ASSUME NEW n \in Nat, NEW d \in Nat, d > 0
  PROVE  n \div d \in Nat /\ n = (d * (n \div d)) + (n % d) /\ n % d \in 0..(d - 1)
OBVIOUS

(* ceildiv rounds up. *)
LEMMA CeilDivRoundsUp ==
  ASSUME NEW a \in Nat, NEW b \in Nat, b > 0
  PROVE  /\ CeilDiv(a, b) \in Nat
         /\ a <= CeilDiv(a, b) * b
         /\ CeilDiv(a, b) * b < a + b
<1> DEFINE n == a + (b - 1)
<1>1. n \in Nat OBVIOUS
<1>2. n \div b \in Nat /\ n = (b * (n \div b)) + (n % b) /\ n % b \in 0..(b - 1)
  BY <1>1, Division
<1> DEFINE q == n \div b
<1>3. b * q = q * b /\ q * b \in Nat BY <1>2, SMT
<1> HIDE DEF q
<1> QED BY <1>2, <1>3, SMT DEF CeilDiv, q

(* The length of a Merkle proof is a number. *)
LEMMA MerkleTreeLenIsNat == ASSUME NEW n \in Nat PROVE MerkleTreeLen(n) \in Nat
<1> DEFINE S == {k \in 0..28 : ((2 * n) - 1) \div (2 ^ k) > 1}
<1>1. IsFiniteSet(0..28)
  <2>1. 0 \in Int /\ 28 \in Int OBVIOUS
  <2> QED BY <2>1, FS_Interval, Zenon
<1>2. IsFiniteSet(S) BY <1>1, FS_Subset
<1>3. Cardinality(S) \in Nat BY <1>2, FS_CardinalityType
<1> QED BY <1>3 DEF MerkleTreeLen

(* Past the check of the rate a row holds a double block and, at a rate of *)
(* one or more, as many columns again as a block.                          *)
LEMMA BlockFits ==
  ASSUME NEW a \in Args, NEW be \in Nat, be + 1 >= 2 + a.rateinv
  PROVE  /\ Block(a, be) \in Nat /\ Block(a, be) >= 1
         /\ DBlock(a, be) \in Nat /\ DBlock(a, be) + Block(a, be) <= be
<1> DEFINE d == 2 + a.rateinv
           q == (be + 1) \div d
<1>1. a.rateinv \in Nat /\ a.rateinv >= 1 BY ArgsAssumption
<1>2. d \in Nat /\ d > 0 /\ be + 1 \in Nat BY <1>1
<1> HIDE DEF d
<1>3. q \in Nat /\ be + 1 = (d * q) + ((be + 1) % d) /\ (be + 1) % d \in 0..(d - 1)
  BY <1>2, Division
<1>4. q >= 1
  <2> SUFFICES ASSUME q = 0 PROVE FALSE BY <1>3
  <2>1. d * q = 0 BY <1>2
  <2> QED BY <1>1, <1>2, <1>3, <2>1 DEF d
<1> HIDE DEF q
<1>5. d * q = (2 * q) + (a.rateinv * q) BY <1>1, <1>3, SMT DEF d
<1>6. a.rateinv * q >= q BY <1>1, <1>3, SMT
<1>7. (2 * q) + q <= be + 1 BY <1>1, <1>2, <1>3, <1>5, <1>6
<1>8. Block(a, be) = q BY DEF Block, q, d
<1> QED BY <1>3, <1>4, <1>7, <1>8 DEF DBlock

(* A quotient is positive and below it the product stays below. *)
LEMMA TableauIsSmaller ==
  ASSUME NEW rows \in Nat, NEW be \in Nat, be > 0, rows < MaxSize \div be
  PROVE  rows * be < MaxSize
<1> DEFINE q == MaxSize \div be
<1>1. MaxSize \in Nat BY SizesAreNaturals
<1>2. q \in Nat /\ MaxSize = (be * q) + (MaxSize % be) /\ MaxSize % be \in 0..(be - 1)
  BY <1>1, Division
<1> HIDE DEF q
<1>3. rows + 1 <= q BY <1>2 DEF q
<1>4. (rows + 1) * be <= q * be BY <1>2, <1>3, SMT
<1>5. (rows + 1) * be = (rows * be) + be /\ q * be = be * q /\ rows * be \in Nat
  BY <1>2, SMT
<1> QED BY <1>1, <1>2, <1>4, <1>5

-----------------------------------------------------------------------------
(* The dimensions of a layout that passed every check. *)
Dims(a, g) ==
  /\ g.block = a.nreq + g.w /\ a.nreq <= g.w
  /\ g.dblock = (2 * g.block) - 1 /\ g.block_enc = g.dblock + g.block_ext
  /\ a.nw <= g.nwrow * g.w /\ g.nwrow * g.w < a.nw + g.w
  /\ a.nq <= g.nqtriples * g.w /\ g.nqtriples * g.w < a.nq + g.w
  /\ g.nrow = 3 + g.nwqrow /\ g.nwqrow = g.nwrow + (3 * g.nqtriples)
  /\ g.nrow * g.block_enc < MaxSize
  /\ g.block_ext >= a.nreq /\ g.block_ext >= 1

(* What the arguments are. *)
LEMMA ArgTypes ==
  ASSUME NEW a \in Args
  PROVE  /\ a.nw \in Nat /\ a.nq \in Nat /\ a.nreq \in Nat
         /\ a.rateinv \in Nat /\ a.rateinv >= 1
         /\ 2 * (a.rateinv + 1) <= MaxSize
         /\ 2 * (a.rateinv + 1) <= SubfieldSize
BY ArgsAssumption

(* The check of the double block never decides: its condition contradicts  *)
(* the check of the rate, which comes first.                               *)
LEMMA ReasonType ==
  ASSUME NEW a \in Args, NEW be \in Nat
  PROVE  Reason(a, be) \in {"subfield", "rate", "r", "w", "tableau", "ok"}
<1>1. CASE be + 1 >= 2 + a.rateinv
  <2>1. DBlock(a, be) + Block(a, be) <= be /\ DBlock(a, be) \in Nat /\ Block(a, be) \in Nat
    BY <1>1, BlockFits
  <2>2. ~(be < DBlock(a, be)) BY <2>1
  <2> QED BY <2>2 DEF Reason
<1>2. CASE ~(be + 1 >= 2 + a.rateinv)
  <2>1. be + 1 < 2 + a.rateinv BY <1>2, ArgTypes
  <2> QED BY <2>1 DEF Reason
<1> QED BY <1>1, <1>2

(* What the checks that passed say. *)
LEMMA ChecksPassed ==
  ASSUME NEW a \in Args, NEW be \in Nat
  PROVE  /\ Reason(a, be) \notin {"subfield", "rate"} =>
               be + 1 >= 2 + a.rateinv /\ be <= MaxSize
         /\ Reason(a, be) \notin {"subfield", "rate", "r"} => Block(a, be) >= a.nreq
         /\ Reason(a, be) \in {"tableau", "ok"} => W(a, be) >= a.nreq
         /\ Reason(a, be) = "ok" => NRow(a, be) < MaxSize \div be
<1>1. a.rateinv \in Nat /\ a.nreq \in Nat BY ArgTypes
<1>2. MaxSize \in Nat BY SizesAreNaturals
<1>3. Reason(a, be) \notin {"subfield", "rate"} =>
        be + 1 >= 2 + a.rateinv /\ be <= MaxSize
  BY <1>1, <1>2 DEF Reason
<1> SUFFICES ASSUME be + 1 >= 2 + a.rateinv
             PROVE  /\ Reason(a, be) \notin {"subfield", "rate", "r"} => Block(a, be) >= a.nreq
                    /\ Reason(a, be) \in {"tableau", "ok"} => W(a, be) >= a.nreq
                    /\ Reason(a, be) = "ok" => NRow(a, be) < MaxSize \div be
  BY <1>3
<1>4. Block(a, be) \in Nat /\ Block(a, be) >= 1 BY BlockFits
<1>5. Reason(a, be) \notin {"subfield", "rate", "r"} => Block(a, be) >= a.nreq
  BY <1>1, <1>4 DEF Reason
<1>6. W(a, be) \in Int BY <1>1, <1>4 DEF W
<1>7. Reason(a, be) \in {"tableau", "ok"} => W(a, be) >= a.nreq
  BY <1>1, <1>6 DEF Reason
<1>8. ASSUME Reason(a, be) = "ok" PROVE NRow(a, be) < MaxSize \div be
  <2>1. W(a, be) >= a.nreq /\ Block(a, be) >= a.nreq BY <1>5, <1>7, <1>8
  <2>2. W(a, be) \in Nat /\ W(a, be) > 0 BY <2>1, <1>1, <1>4 DEF W
  <2>3. NRow(a, be) \in Nat
    <3>1. a.nw \in Nat /\ a.nq \in Nat BY ArgTypes
    <3>2. NwRow(a, be) \in Nat /\ NqTriples(a, be) \in Nat
      BY <2>2, <3>1, CeilDivRoundsUp DEF NwRow, NqTriples
    <3> QED BY <3>2 DEF NRow, NwqRow
  <2>4. MaxSize \div be \in Nat BY <1>1, <1>2, Division
  <2> QED BY <1>8, <2>3, <2>4 DEF Reason
<1> QED BY <1>5, <1>7, <1>8

(* The values computed after the second check of the witnesses. *)
LEMMA ComputedTypes ==
  ASSUME NEW a \in Args, NEW be \in Nat, Reason(a, be) \in {"tableau", "ok"}
  PROVE  /\ be >= 1 /\ Block(a, be) \in Nat /\ W(a, be) \in Nat /\ W(a, be) > 0
         /\ DBlock(a, be) \in Nat /\ W(a, be) <= DBlock(a, be)
         /\ be - DBlock(a, be) \in Nat /\ be - DBlock(a, be) >= Block(a, be)
         /\ NwRow(a, be) \in Nat /\ NqTriples(a, be) \in Nat
         /\ NwqRow(a, be) \in Nat /\ NRow(a, be) \in Nat
         /\ MerkleTreeLen(be - DBlock(a, be)) \in Nat
<1>1. a.rateinv \in Nat /\ a.nreq \in Nat /\ a.nw \in Nat /\ a.nq \in Nat BY ArgTypes
<1>2. be + 1 >= 2 + a.rateinv /\ Block(a, be) >= a.nreq /\ W(a, be) >= a.nreq
  BY ChecksPassed
<1>3. /\ Block(a, be) \in Nat /\ Block(a, be) >= 1
      /\ DBlock(a, be) \in Nat /\ DBlock(a, be) + Block(a, be) <= be
  BY <1>2, BlockFits
<1>4. W(a, be) \in Nat /\ W(a, be) > 0 /\ W(a, be) <= DBlock(a, be)
  BY <1>1, <1>2, <1>3 DEF W, DBlock
<1>5. be >= 1 /\ be - DBlock(a, be) \in Nat /\ be - DBlock(a, be) >= Block(a, be)
  BY <1>3
<1>6. NwRow(a, be) \in Nat /\ NqTriples(a, be) \in Nat
  BY <1>1, <1>4, CeilDivRoundsUp DEF NwRow, NqTriples
<1>7. NwqRow(a, be) \in Nat /\ NRow(a, be) \in Nat BY <1>6 DEF NwqRow, NRow
<1>8. MerkleTreeLen(be - DBlock(a, be)) \in Nat BY <1>5, MerkleTreeLenIsNat
<1> QED BY <1>3, <1>4, <1>5, <1>6, <1>7, <1>8

(* A call of layout() leaves natural numbers in the fields. *)
LEMMA LayoutType ==
  ASSUME NEW a \in Args, NEW be \in Nat, NEW old \in [Fields -> Nat]
  PROVE  AfterLayout(a, be, old) \in [Fields -> Nat]
<1> DEFINE reason == Reason(a, be)
<1>1. reason \in {"subfield", "rate", "r", "w", "tableau", "ok"} BY ReasonType
<1> SUFFICES ASSUME NEW field \in Fields, field \in Assigned(reason)
             PROVE  Computed(a, be, field) \in Nat
  BY DEF AfterLayout
<1>2. CASE reason \in {"subfield", "rate"}
  BY <1>2 DEF Assigned, Computed
<1>3. CASE reason \in {"r", "w"}
  <2>1. be + 1 >= 2 + a.rateinv BY <1>3, ChecksPassed
  <2>2. Block(a, be) \in Nat BY <2>1, BlockFits
  <2>3. reason = "w" => W(a, be) \in Nat
    BY <2>2, ChecksPassed, ArgTypes DEF W
  <2>4. field \in {"block_enc", "block"} \/ (reason = "w" /\ field = "w")
    BY <1>3 DEF Assigned
  <2> QED BY <2>2, <2>3, <2>4 DEF Computed
<1>4. CASE reason \in {"tableau", "ok"}
  BY <1>4, ComputedTypes DEF Fields, Computed
<1> QED BY <1>1, <1>2, <1>3, <1>4

(* layout() returns at most SIZE_MAX, and less only if its checks pass. *)
LEMMA SizeType ==
  ASSUME NEW a \in Args, NEW be \in Nat
  PROVE  /\ Size(a, be) \in 0..SizeMax
         /\ Size(a, be) < SizeMax => Reason(a, be) = "ok"
<1>1. SizeMax \in Nat BY SizesAreNaturals
<1>2. CASE Reason(a, be) = "ok"
  <2> DEFINE half == MerkleTreeLen(be - DBlock(a, be)) \div 2
  <2>1. half \in Nat BY <1>2, ComputedTypes, Division
  <2> HIDE DEF half
  <2>2. /\ DigestBytes \in Nat /\ EltBytes \in Nat /\ NonceBytes \in Nat
        /\ SubfieldBytes \in Nat /\ a.nreq \in Nat
    BY SizesAreNaturals, ArgTypes
  <2>3. /\ Block(a, be) \in Nat /\ DBlock(a, be) \in Nat /\ NRow(a, be) \in Nat
        /\ DBlock(a, be) - W(a, be) \in Nat
    BY <1>2, ComputedTypes
  <2>4. /\ half * a.nreq * DigestBytes \in Nat
        /\ Block(a, be) * EltBytes \in Nat
        /\ DBlock(a, be) * EltBytes \in Nat
        /\ (DBlock(a, be) - W(a, be)) * EltBytes \in Nat
        /\ a.nreq * NonceBytes \in Nat
        /\ NRow(a, be) * a.nreq * SubfieldBytes \in Nat
    BY <2>1, <2>2, <2>3, SMT
  <2>5. SizeEstimate(a, be) \in Nat BY <2>2, <2>4 DEF SizeEstimate, half
  <2> QED BY <1>1, <1>2, <2>5 DEF Size
<1>3. CASE Reason(a, be) # "ok" BY <1>1, <1>3 DEF Size
<1> QED BY <1>2, <1>3

(* A layout that passes every check has the dimensions. *)
LEMMA LayoutDims ==
  ASSUME NEW a \in Args, NEW be \in Nat, NEW old \in [Fields -> Nat],
         Reason(a, be) = "ok"
  PROVE  Dims(a, AfterLayout(a, be, old))
<1> DEFINE g == AfterLayout(a, be, old)
<1>1. \A field \in Fields : g[field] = Computed(a, be, field)
  BY DEF AfterLayout, Assigned
<1>2. /\ g.block_enc = be /\ g.block = Block(a, be) /\ g.w = W(a, be)
      /\ g.dblock = DBlock(a, be) /\ g.block_ext = be - DBlock(a, be)
      /\ g.nwrow = NwRow(a, be) /\ g.nqtriples = NqTriples(a, be)
      /\ g.nwqrow = NwqRow(a, be) /\ g.nrow = NRow(a, be)
  BY <1>1 DEF Fields, Computed
<1> HIDE DEF g
<1>3. a.nreq \in Nat /\ a.nw \in Nat /\ a.nq \in Nat BY ArgTypes
<1>4. /\ be >= 1 /\ Block(a, be) \in Nat /\ W(a, be) \in Nat /\ W(a, be) > 0
      /\ DBlock(a, be) \in Nat /\ be - DBlock(a, be) >= Block(a, be)
      /\ NwRow(a, be) \in Nat /\ NqTriples(a, be) \in Nat
      /\ NwqRow(a, be) \in Nat /\ NRow(a, be) \in Nat
  BY ComputedTypes
<1>5. W(a, be) >= a.nreq /\ NRow(a, be) < MaxSize \div be BY ChecksPassed
<1>6. /\ Block(a, be) = a.nreq + W(a, be) /\ a.nreq <= W(a, be)
      /\ DBlock(a, be) = (2 * Block(a, be)) - 1
      /\ be = DBlock(a, be) + (be - DBlock(a, be))
      /\ be - DBlock(a, be) >= a.nreq /\ be - DBlock(a, be) >= 1
  BY <1>3, <1>4, <1>5 DEF W, DBlock
<1>7. /\ a.nw <= NwRow(a, be) * W(a, be) /\ NwRow(a, be) * W(a, be) < a.nw + W(a, be)
      /\ a.nq <= NqTriples(a, be) * W(a, be)
      /\ NqTriples(a, be) * W(a, be) < a.nq + W(a, be)
  BY <1>3, <1>4, CeilDivRoundsUp DEF NwRow, NqTriples
<1>8. /\ NRow(a, be) = 3 + NwqRow(a, be)
      /\ NwqRow(a, be) = NwRow(a, be) + (3 * NqTriples(a, be))
  BY <1>4 DEF NRow, NwqRow
<1>9. NRow(a, be) * be < MaxSize
  BY <1>4, <1>5, TableauIsSmaller
<1> HIDE DEF g
<1>10. Dims(a, g) BY <1>2, <1>6, <1>7, <1>8, <1>9 DEF Dims
<1> QED BY <1>10 DEF g

-----------------------------------------------------------------------------
(* The search: once it is past the first power of two that holds a block,  *)
(* the fields hold a block, and the best layout passed every check unless  *)
(* none did.                                                               *)
Searching ==
  /\ e >= 1
  /\ e >= 2 * (args.rateinv + 1) => f.block >= 1
  /\ best = 1 \/ Reason(args, best) = "ok"

IInv ==
  /\ TypeOK
  /\ why # "dblock"
  /\ pc = "search" => Searching
  /\ pc = "sanity" => (why = "ok" /\ Dims(args, f)) \/ f.block_enc <= f.block
  /\ pc = "constructed" => why = "ok" /\ Dims(args, f)

(* No call has been made yet.                                              *)
LEMMA InitIInv == Init => IInv
<1> SUFFICES ASSUME Init PROVE IInv OBVIOUS
<1> USE DEF Init
<1>1. f \in [Fields -> Nat] BY SizesAreNaturals
<1>2. TypeOK BY <1>1, SizesAreNaturals DEF TypeOK, Reasons
<1>3. Searching BY ArgTypes DEF Searching
<1> QED BY <1>2, <1>3 DEF IInv

(* A call of layout() for the next block_enc keeps what is known of the    *)
(* best one.                                                               *)
LEMMA TryKeeps == ASSUME IInv, Try PROVE IInv'
<1> USE DEF IInv, TypeOK, Try
<1>1. args \in Args /\ e \in Nat /\ e >= 1 /\ f \in [Fields -> Nat] BY DEF Searching
<1>2. /\ args.rateinv \in Nat /\ args.rateinv >= 1
      /\ 2 * (args.rateinv + 1) <= MaxSize /\ 2 * (args.rateinv + 1) <= SubfieldSize
  BY <1>1, ArgTypes
<1>3. f' \in [Fields -> Nat] BY <1>1, LayoutType
<1>4. why' \in Reasons /\ why' # "dblock" BY <1>1, ReasonType DEF Reasons
<1>5. /\ min' \in 0..SizeMax /\ best' \in Nat
      /\ best' = 1 \/ Reason(args, best') = "ok"
  <2>1. /\ Size(args, e) \in 0..SizeMax
        /\ Size(args, e) < SizeMax => Reason(args, e) = "ok"
    BY <1>1, SizeType
  <2>2. SizeMax \in Nat BY SizesAreNaturals
  <2>3. best = 1 \/ Reason(args, best) = "ok" BY DEF Searching
  <2> QED BY <1>1, <2>1, <2>2, <2>3 DEF Keep
<1>6. e' \in Nat /\ e' >= 1 BY <1>1
<1>7. ASSUME e' >= 2 * (args.rateinv + 1) PROVE f'.block >= 1
  <2>1. e >= args.rateinv + 1 BY <1>1, <1>2, <1>7
  <2>2. Block(args, e) \in Nat /\ Block(args, e) >= 1 BY <1>1, <1>2, <2>1, BlockFits
  <2>3. "block" \in Fields BY DEF Fields
  <2>4. CASE "block" \in Assigned(Reason(args, e))
    BY <2>2, <2>3, <2>4 DEF AfterLayout, Computed
  <2>5. CASE "block" \notin Assigned(Reason(args, e))
    <3>1. Reason(args, e) \in {"subfield", "rate"}
      BY <1>1, <2>5, ReasonType DEF Assigned, Fields
    <3>2. MaxSize \in Nat /\ SubfieldSize \in Nat BY SizesAreNaturals
    <3>3. ~(e + 1 < 2 + args.rateinv) BY <1>1, <1>2, <2>1
    <3>4. e < 2 * (args.rateinv + 1) => ~(e >= SubfieldSize)
      BY <1>1, <1>2, <3>2
    <3>5. ~(e > MaxSize) /\ ~(args.rateinv > MaxSize) BY <1>1, <1>2, <3>2
    <3>6. ~(e < 2 * (args.rateinv + 1))
      BY <1>1, <3>1, <3>3, <3>4, <3>5 DEF Reason
    <3>7. f.block >= 1 BY <1>1, <1>2, <3>6 DEF Searching
    <3>8. f'.block = f.block BY <2>3, <2>5 DEF AfterLayout
    <3> QED BY <3>7, <3>8
  <2> QED BY <2>4, <2>5
<1>8. Searching' BY <1>5, <1>6, <1>7 DEF Searching
<1> QED BY <1>1, <1>3, <1>4, <1>5, <1>6, <1>8

(* So does the last call of the loop, for the best one,                    *)
LEMMA RecomputeKeeps == ASSUME IInv, Recompute PROVE IInv'
<1> USE DEF IInv, TypeOK, Recompute
<1>1. /\ args \in Args /\ best \in Nat /\ e \in Nat /\ f \in [Fields -> Nat]
      /\ Searching
  OBVIOUS
<1>2. f' \in [Fields -> Nat] BY <1>1, LayoutType
<1>3. why' \in Reasons /\ why' # "dblock" BY <1>1, ReasonType DEF Reasons
<1>4. (why' = "ok" /\ Dims(args, f')) \/ f'.block_enc <= f'.block
  <2>1. CASE Reason(args, best) = "ok" BY <1>1, <2>1, LayoutDims
  <2>2. CASE Reason(args, best) # "ok"
    <3>1. best = 1 BY <1>1, <2>2 DEF Searching
    <3>2. args.rateinv \in Nat /\ args.rateinv >= 1 /\ 2 * (args.rateinv + 1) <= MaxSize
      BY <1>1, ArgTypes
    <3>3. Reason(args, 1) \in {"subfield", "rate"}
      BY <3>2 DEF Reason
    <3>4. f'.block_enc = 1 /\ f'.block = f.block
      BY <3>1, <3>3 DEF AfterLayout, Assigned, Computed, Fields
    <3>5. MaxSize \in Nat BY SizesAreNaturals
    <3>6. f.block >= 1 BY <1>1, <3>2, <3>5 DEF Searching
    <3>7. f'.block_enc <= f'.block BY <3>4, <3>6
    <3> QED BY <3>7
  <2> QED BY <2>1, <2>2
<1> QED BY <1>1, <1>2, <1>3, <1>4

(* and the one call of the other constructor.                              *)
LEMMA GivenKeeps == ASSUME IInv, LayoutGiven PROVE IInv'
<1> USE DEF IInv, TypeOK
<1>1. args \in Args /\ f \in [Fields -> Nat] /\ Given \subseteq Nat
  BY SizesAreNaturals
<1>2. PICK be \in Given :
        /\ f' = AfterLayout(args, be, f)
        /\ why' = Reason(args, be)
        /\ pc' = IF Size(args, be) < SizeMax THEN "sanity" ELSE "panic"
  BY DEF LayoutGiven
<1>3. be \in Nat BY <1>1
<1>4. f' \in [Fields -> Nat] BY <1>1, <1>2, <1>3, LayoutType
<1>5. why' \in Reasons /\ why' # "dblock" BY <1>1, <1>2, <1>3, ReasonType DEF Reasons
<1>6. pc' = "sanity" => why' = "ok" /\ Dims(args, f')
  <2>1. pc' = "sanity" => Reason(args, be) = "ok" BY <1>1, <1>2, <1>3, SizeType
  <2> QED BY <1>1, <1>2, <1>3, <2>1, LayoutDims
<1>7. pc' \in {"sanity", "panic"} /\ UNCHANGED <<args, e, min, best>>
  BY <1>2 DEF LayoutGiven
<1> QED BY <1>1, <1>4, <1>5, <1>6, <1>7

(* sanity() changes nothing.                                               *)
LEMMA SanityKeeps == ASSUME IInv, Sanity PROVE IInv'
<1> USE DEF IInv, TypeOK, Sanity
<1>1. f.block_enc \in Nat /\ f.block \in Nat BY DEF Fields
<1>2. Sane => f.block_enc > f.block BY DEF Sane
<1>3. Sane => why = "ok" /\ Dims(args, f) BY <1>1, <1>2
<1> QED BY <1>3

(* Every step keeps the invariant. *)
LEMMA Invariance == Spec => []IInv
<1>1. IInv /\ [Next]_vars => IInv'
  <2> SUFFICES ASSUME IInv, [Next]_vars PROVE IInv' OBVIOUS
  <2>1. CASE UNCHANGED vars
    BY <2>1 DEF vars, IInv, TypeOK, Searching
  <2> QED BY <2>1, TryKeeps, RecomputeKeeps, GivenKeeps, SanityKeeps DEF Next
<1> QED BY InitIInv, <1>1, PTL DEF Spec

(* Every field of the object is a natural number at every step: none of    *)
(* the unsigned differences of layout() wraps.                             *)
THEOREM TypeCorrect == Spec => []TypeOK
<1>1. IInv => TypeOK BY DEF IInv
<1> QED BY Invariance, <1>1, PTL

(* An object is only made from a layout that passed every check, though    *)
(* the search ignores what its last call of layout() returns.              *)
THEOREM NoObjectFromAFailedSearch == Spec => []FailedSearchPanics
<1>1. IInv => FailedSearchPanics BY DEF IInv, FailedSearchPanics
<1> QED BY Invariance, <1>1, PTL

(* An object has the dimensions the comment at the head of the file draws, *)
(* and as many columns to open as will be opened, so that the assertion of *)
(* gen_idx() in ligero_transcript.h holds.                                 *)
THEOREM ObjectsAreWellFormed == Spec => []WellFormed
<1>1. IInv => WellFormed BY DEF IInv, Dims, WellFormed
<1> QED BY Invariance, <1>1, PTL

(* The check of the double block in layout() is dead code for callers with *)
(* a rate.                                                                 *)
THEOREM DblockCheckIsDead == Spec => []DblockNeverDecides
<1>1. IInv => DblockNeverDecides BY DEF IInv, DblockNeverDecides
<1> QED BY Invariance, <1>1, PTL

-----------------------------------------------------------------------------
(* The powers of two the search may try *)
PowersOfTwo ==
  {1, 2, 4, 8, 16, 32, 64, 128, 256, 512, 1024, 2048, 4096, 8192, 16384,
   32768, 65536, 131072, 262144, 524288, 1048576, 2097152, 4194304,
   8388608, 16777216, 33554432, 67108864, 134217728, 268435456}

(* They are these. *)
LEMMA PowersAre == Powers \subseteq PowersOfTwo /\ 1 \in PowersOfTwo
<1>1. \A k \in 0..28 :
       k = 0 \/ k = 1 \/ k = 2 \/ k = 3 \/ k = 4 \/ k = 5 \/ k = 6 \/
       k = 7 \/ k = 8 \/ k = 9 \/ k = 10 \/ k = 11 \/ k = 12 \/ k = 13 \/
       k = 14 \/ k = 15 \/ k = 16 \/ k = 17 \/ k = 18 \/ k = 19 \/
       k = 20 \/ k = 21 \/ k = 22 \/ k = 23 \/ k = 24 \/ k = 25 \/
       k = 26 \/ k = 27 \/ k = 28
  OBVIOUS
<1>2. 2 ^ 0 = 1 /\ 2 ^ 1 = 2 /\ 2 ^ 2 = 4 /\ 2 ^ 3 = 8 /\ 2 ^ 4 = 16 /\
  2 ^ 5 = 32 /\ 2 ^ 6 = 64 /\ 2 ^ 7 = 128 /\ 2 ^ 8 = 256 /\ 2 ^ 9 = 512 /\
  2 ^ 10 = 1024 /\ 2 ^ 11 = 2048 /\ 2 ^ 12 = 4096 /\ 2 ^ 13 = 8192 /\
  2 ^ 14 = 16384 /\ 2 ^ 15 = 32768 /\ 2 ^ 16 = 65536 /\ 2 ^ 17 = 131072 /\
  2 ^ 18 = 262144 /\ 2 ^ 19 = 524288 /\ 2 ^ 20 = 1048576 /\
  2 ^ 21 = 2097152 /\ 2 ^ 22 = 4194304 /\ 2 ^ 23 = 8388608 /\
  2 ^ 24 = 16777216 /\ 2 ^ 25 = 33554432 /\ 2 ^ 26 = 67108864 /\
  2 ^ 27 = 134217728 /\ 2 ^ 28 = 268435456
  OBVIOUS
<1>3. \A k \in 0..28 : 2 ^ k \in PowersOfTwo
  <2> SUFFICES ASSUME NEW k \in 0..28 PROVE 2 ^ k \in PowersOfTwo OBVIOUS
  <2>1. 2 ^ 0 \in PowersOfTwo /\ 2 ^ 1 \in PowersOfTwo /\
       2 ^ 2 \in PowersOfTwo /\ 2 ^ 3 \in PowersOfTwo /\
       2 ^ 4 \in PowersOfTwo /\ 2 ^ 5 \in PowersOfTwo /\
       2 ^ 6 \in PowersOfTwo /\ 2 ^ 7 \in PowersOfTwo /\
       2 ^ 8 \in PowersOfTwo /\ 2 ^ 9 \in PowersOfTwo /\
       2 ^ 10 \in PowersOfTwo /\ 2 ^ 11 \in PowersOfTwo /\
       2 ^ 12 \in PowersOfTwo /\ 2 ^ 13 \in PowersOfTwo /\
       2 ^ 14 \in PowersOfTwo /\ 2 ^ 15 \in PowersOfTwo /\
       2 ^ 16 \in PowersOfTwo /\ 2 ^ 17 \in PowersOfTwo /\
       2 ^ 18 \in PowersOfTwo /\ 2 ^ 19 \in PowersOfTwo /\
       2 ^ 20 \in PowersOfTwo /\ 2 ^ 21 \in PowersOfTwo /\
       2 ^ 22 \in PowersOfTwo /\ 2 ^ 23 \in PowersOfTwo /\
       2 ^ 24 \in PowersOfTwo /\ 2 ^ 25 \in PowersOfTwo /\
       2 ^ 26 \in PowersOfTwo /\ 2 ^ 27 \in PowersOfTwo /\
       2 ^ 28 \in PowersOfTwo
    BY <1>2 DEF PowersOfTwo
  <2> HIDE DEF PowersOfTwo
  <2> QED BY <1>1, <2>1, Zenon
<1> QED BY <1>3 DEF Powers, PowersOfTwo

(* There is none between one and the next. *)
LEMMA Doubling ==
  /\ \A p \in PowersOfTwo : 2 * p \in PowersOfTwo \/ 2 * p > 268435456
  /\ \A p, q \in PowersOfTwo : q < 2 * p => q <= p
  /\ \A p \in PowersOfTwo : p \in Nat /\ p >= 1 /\ p <= 268435456
BY DEF PowersOfTwo

(* What the search has found among the powers below e, and that the other  *)
(* constructor does not search *)
Smallest ==
  /\ \A p \in PowersOfTwo :
       p < e => /\ min <= Size(args, p)
                /\ p < best => min < Size(args, p)
  /\ e \in PowersOfTwo \/ e > 268435456
  /\ e = 1 => best = 1 /\ min = SizeMax
  /\ e > 1 => best < e /\ min = Size(args, best)
  /\ pc = "given" => e = 1
  /\ pc \in {"sanity", "constructed"} /\ e > 1 => f.block_enc = best
  /\ e >= 1

(* Nothing was tried yet. *)
LEMMA InitSmallest == Init => Smallest
<1> SUFFICES ASSUME Init PROVE Smallest OBVIOUS
<1>1. e = 1 /\ best = 1 /\ min = SizeMax /\ pc \in {"search", "given"} BY DEF Init
<1> QED BY <1>1, PowersAre, Doubling DEF Smallest

(* A turn compares with the best one; the other steps find e as it is. *)
LEMMA NextSmallest == IInv /\ Smallest /\ [Next]_vars => Smallest'
<1> SUFFICES ASSUME IInv, Smallest, [Next]_vars PROVE Smallest' OBVIOUS
<1>1. args \in Args /\ e \in Nat /\ best \in Nat /\ min \in Nat /\ SizeMax \in Nat
  BY SizesAreNaturals DEF IInv, TypeOK
<1>2. \A be \in Nat : Size(args, be) \in 0..SizeMax BY <1>1, SizeType
<1>3. \A be \in Nat : Size(args, be) \in Nat /\ Size(args, be) <= SizeMax BY <1>1, <1>2
<1>4. CASE Try
  <2>1. /\ pc = "search" /\ pc' = pc /\ args' = args /\ e' = 2 * e
        /\ best' = IF Size(args, e) < min THEN e ELSE best
        /\ min' = IF Size(args, e) < min THEN Size(args, e) ELSE min
    BY <1>4 DEF Try, Keep
  <2>2. Size(args, e) \in Nat /\ Size(args, e) <= SizeMax BY <1>1, <1>3
  <2>3. e >= 1 BY DEF Smallest
  <2>4. e' > 1 /\ best' < e' /\ min' = Size(args, best')
    BY <1>1, <2>1, <2>2, <2>3 DEF Smallest
  <2>5. e' \in PowersOfTwo \/ e' > 268435456
    BY <1>1, <2>1, Doubling DEF Smallest
  <2>6. ASSUME NEW p \in PowersOfTwo, p < e'
        PROVE  /\ min' <= Size(args, p)
               /\ p < best' => min' < Size(args, p)
    <3>1. p \in Nat /\ p <= 268435456 BY Doubling
    <3>2. p < e \/ p = e
      <4>1. CASE e \in PowersOfTwo
        <5>1. p <= e BY <2>1, <2>6, <4>1, Doubling
        <5> QED BY <1>1, <3>1, <5>1
      <4>2. CASE e > 268435456 BY <1>1, <3>1, <4>2
      <4> QED BY <4>1, <4>2 DEF Smallest
    <3>3. Size(args, p) \in Nat BY <1>3, <3>1
    <3>4. CASE p < e
      <4>1. min <= Size(args, p) /\ (p < best => min < Size(args, p))
        BY <3>4 DEF Smallest
      <4> QED BY <1>1, <2>1, <2>2, <3>1, <3>3, <4>1
    <3>5. CASE p = e
      <4>1. best <= e BY <1>1, <2>3 DEF Smallest
      <4> QED BY <1>1, <2>1, <2>2, <3>1, <3>3, <3>5, <4>1
    <3> QED BY <3>2, <3>4, <3>5
  <2> QED BY <2>1, <2>4, <2>5, <2>6 DEF Smallest
<1>5. CASE Recompute
  <2>1. /\ UNCHANGED <<args, e, min, best>> /\ pc' = "sanity" /\ f' = AfterLayout(args, best, f)
    BY <1>5 DEF Recompute
  <2>2. "block_enc" \in Fields BY DEF Fields
  <2>3. Reason(args, best) \in {"subfield", "rate", "r", "w", "tableau", "ok"}
    BY <1>1, ReasonType
  <2>4. "block_enc" \in Assigned(Reason(args, best)) BY <2>3 DEF Assigned, Fields
  <2>5. f'["block_enc"] = Computed(args, best, "block_enc")
    BY <2>1, <2>2, <2>4 DEF AfterLayout
  <2>6. f'.block_enc = best BY <2>5 DEF Computed
  <2> QED BY <2>1, <2>6 DEF Smallest
<1>6. CASE LayoutGiven
  <2>1. UNCHANGED <<args, e, min, best>> /\ pc = "given" /\ pc' \in {"sanity", "panic"}
    BY <1>6 DEF LayoutGiven
  <2>2. e = 1 BY <2>1 DEF Smallest
  <2> QED BY <2>1, <2>2 DEF Smallest
<1>7. CASE Sanity
  <2>1. UNCHANGED <<args, f, e, min, best>> /\ pc = "sanity" /\ pc' \in {"constructed", "panic"}
    BY <1>7 DEF Sanity
  <2> QED BY <2>1 DEF Smallest
<1>8. CASE UNCHANGED vars
  BY <1>8 DEF vars, Smallest
<1> QED BY <1>4, <1>5, <1>6, <1>7, <1>8 DEF Next

(* The search returns the smallest estimate, at the first power of two     *)
(* that has it.                                                            *)
THEOREM SearchFindsSmallest == Spec => []BestIsMinimal
<1>1. IInv /\ Smallest => BestIsMinimal
  <2> SUFFICES ASSUME IInv, Smallest, pc = "constructed", e > MaxSize
               PROVE  /\ f.block_enc = best
                      /\ \A p \in Powers : /\ Size(args, best) <= Size(args, p)
                                           /\ p < best => Size(args, best) < Size(args, p)
    BY DEF BestIsMinimal
  <2>1. args \in Args /\ e \in Nat /\ MaxSize \in Nat BY SizesAreNaturals DEF IInv, TypeOK
  <2>2. e > 1 BY <2>1, ArgTypes
  <2>3. f.block_enc = best /\ min = Size(args, best) BY <2>2 DEF Smallest
  <2>4. ASSUME NEW p \in Powers
        PROVE  /\ Size(args, best) <= Size(args, p)
               /\ p < best => Size(args, best) < Size(args, p)
    <3>1. p \in PowersOfTwo BY PowersAre
    <3>2. p \in Nat /\ p <= MaxSize BY <2>1 DEF Powers
    <3>3. p < e BY <2>1, <3>2
    <3> QED BY <2>3, <3>1, <3>3 DEF Smallest
  <2> QED BY <2>3, <2>4
<1>2. IInv /\ Smallest /\ [Next]_vars => Smallest' BY NextSmallest
<1> QED BY <1>1, <1>2, InitSmallest, Invariance, PTL DEF Spec
=============================================================================
