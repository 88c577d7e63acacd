---------------------------- MODULE LigeroParam ----------------------------
(***************************************************************************)
(* struct LigeroParam of src/lib/ligero/ligero_param.h: the dimensions of  *)
(* the tableau that is committed to.  A row has block_enc elements: r      *)
(* random ones and w witnesses (a block), enough more for products (up to  *)
(* dblock) and block_ext columns that can be opened.                       *)
(*                                                                         *)
(* layout(e) fills the fields in for block_enc = e and returns an estimate *)
(* of the proof size, or SIZE_MAX from one of its checks, with the fields  *)
(* after that check as they were.  One constructor tries every power of    *)
(* two and keeps the best; the other one is given block_enc.               *)
(***************************************************************************)
EXTENDS LigeroLayout

CONSTANTS
  MaxSize,        \* 2^28, a bound on every dimension
  SizeMax,        \* SIZE_MAX
  SubfieldSize,   \* elements of the subfield, 2^(8 * kSubFieldBytes)
  EltBytes,       \* Field::kBytes
  SubfieldBytes,  \* Field::kSubFieldBytes
  DigestBytes,    \* Digest::kLength
  NonceBytes,     \* MerkleNonce::kLength
  Args,           \* the (nw, nq, rateinv, nreq) of the callers
  Given,          \* the block_enc of the callers
  Garbage         \* what uninitialised fields may hold

ASSUME SizesAreNaturals ==
  /\ MaxSize \in Nat /\ SizeMax \in Nat \ {0} /\ SubfieldSize \in Nat
  /\ EltBytes \in Nat /\ SubfieldBytes \in Nat
  /\ DigestBytes \in Nat /\ NonceBytes \in Nat
  /\ Given \subseteq Nat /\ Garbage \subseteq Nat

(* The callers have a rate, and the search meets a power of two that can   *)
(* hold a block at that rate.                                              *)
ASSUME ArgsAssumption ==
  /\ Args \subseteq [nw : Nat, nq : Nat, rateinv : Nat, nreq : Nat]
  /\ \A a \in Args : /\ a.rateinv >= 1
                     /\ 2 * (a.rateinv + 1) <= MaxSize
                     /\ 2 * (a.rateinv + 1) <= SubfieldSize

VARIABLES
  pc,
  args,
  f,       \* the computed fields
  e,       \* loop variable of the search
  min,     \* min_proof_size
  best,    \* best_block_enc
  why      \* the check the last layout() returned from, or "ok"

vars == <<pc, args, f, e, min, best, why>>

Fields == {"block_enc", "block", "w", "dblock", "block_ext", "nwrow",
           "nqtriples", "nwqrow", "nrow", "mc_pathlen"}

-----------------------------------------------------------------------------
(* The values layout() assigns when it gets that far *)
Computed(a, be, field) ==
  CASE field = "block_enc" -> be
    [] field = "block" -> Block(a, be)
    [] field = "w" -> W(a, be)
    [] field = "dblock" -> DBlock(a, be)
    [] field = "block_ext" -> be - DBlock(a, be)
    [] field = "nwrow" -> NwRow(a, be)
    [] field = "nqtriples" -> NqTriples(a, be)
    [] field = "nwqrow" -> NwqRow(a, be)
    [] field = "nrow" -> NRow(a, be)
    [] field = "mc_pathlen" -> MerkleTreeLen(be - DBlock(a, be))

(* mutant: the block need not hold the random elements *)
ReasonNoR(a, be) ==
  IF SubfieldSize <= MaxSize /\ be >= SubfieldSize THEN "subfield"
  ELSE IF be > MaxSize \/ a.rateinv > MaxSize \/ be + 1 < 2 + a.rateinv THEN "rate"
  ELSE IF W(a, be) < a.nreq THEN "w"
  ELSE IF be < DBlock(a, be) THEN "dblock"
  ELSE IF NRow(a, be) >= MaxSize \div be THEN "tableau"
  ELSE "ok"

(* The first check of layout() that fails *)
Reason(a, be) ==
  IF SubfieldSize <= MaxSize /\ be >= SubfieldSize THEN "subfield"
  ELSE IF be > MaxSize \/ a.rateinv > MaxSize \/ be + 1 < 2 + a.rateinv THEN "rate"
  ELSE IF Block(a, be) < a.nreq THEN "r"
  ELSE IF W(a, be) < a.nreq THEN "w"
  ELSE IF be < DBlock(a, be) THEN "dblock"
  ELSE IF NRow(a, be) >= MaxSize \div be THEN "tableau"
  ELSE "ok"

(* What was assigned before the return *)
Assigned(reason) ==
  CASE reason \in {"subfield", "rate"} -> {"block_enc"}
    [] reason = "r" -> {"block_enc", "block"}
    [] reason = "w" -> {"block_enc", "block", "w"}
    [] reason = "dblock" -> {"block_enc", "block", "w", "dblock"}
    [] reason = "tableau" -> Fields \ {"mc_pathlen"}
    [] OTHER -> Fields

AfterLayout(a, be, old) ==
  [field \in Fields |->
     IF field \in Assigned(Reason(a, be)) THEN Computed(a, be, field)
                                          ELSE old[field]]

(* commitment, Merkle openings, y_ldt, y_dot, y_quad, nonces, columns *)
SizeEstimate(a, be) ==
  DigestBytes
  + ((MerkleTreeLen(be - DBlock(a, be)) \div 2) * a.nreq * DigestBytes)
  + (Block(a, be) * EltBytes)
  + (DBlock(a, be) * EltBytes)
  + ((DBlock(a, be) - W(a, be)) * EltBytes)
  + (a.nreq * NonceBytes)
  + (NRow(a, be) * a.nreq * SubfieldBytes)

(* What layout() returns *)
Size(a, be) ==
  IF Reason(a, be) = "ok" /\ SizeEstimate(a, be) < SizeMax
  THEN SizeEstimate(a, be) ELSE SizeMax

-----------------------------------------------------------------------------
Init ==
  /\ pc \in {"search", "given"}
  /\ args \in Args
  /\ f \in {[field \in Fields |-> g] : g \in Garbage}
  /\ e = 1 /\ min = SizeMax /\ best = 1 /\ why = "none"

(* mutant: the minimum is not updated *)
KeepFirst(size) == /\ best' = IF size < min THEN e ELSE best
                   /\ UNCHANGED min

Keep(size) == /\ best' = IF size < min THEN e ELSE best
              /\ min' = IF size < min THEN size ELSE min

(* one turn of the search *)
Try ==
  /\ pc = "search" /\ e <= MaxSize
  /\ f' = AfterLayout(args, e, f)
  /\ why' = Reason(args, e)
  /\ Keep(Size(args, e))
  /\ e' = 2 * e
  /\ UNCHANGED <<pc, args>>

(* layout(best_block_enc); its result is not looked at *)
Recompute ==
  /\ pc = "search" /\ e > MaxSize
  /\ f' = AfterLayout(args, best, f)
  /\ why' = Reason(args, best)
  /\ pc' = "sanity"
  /\ UNCHANGED <<args, e, min, best>>

(* the constructor with block_enc *)
LayoutGiven ==
  /\ pc = "given"
  /\ \E be \in Given :
       /\ f' = AfterLayout(args, be, f)
       /\ why' = Reason(args, be)
       /\ pc' = IF Size(args, be) < SizeMax THEN "sanity" ELSE "panic"
  /\ UNCHANGED <<args, e, min, best>>

(* rows: three for blinding, the witnesses, the quadratic triples *)
iw == 3
iq == iw + f.nwrow

(* mutant: only the rows are counted *)
SaneRows == f.nrow = iq + (3 * f.nqtriples)

Sane == f.block_enc > f.block /\ f.nrow = iq + (3 * f.nqtriples)

Sanity ==
  /\ pc = "sanity"
  /\ \/ Sane /\ pc' = "constructed"
     \/ ~Sane /\ pc' = "panic"
  /\ UNCHANGED <<args, f, e, min, best, why>>

Next == Try \/ Recompute \/ LayoutGiven \/ Sanity

Spec == Init /\ [][Next]_vars

-----------------------------------------------------------------------------
Reasons == {"none", "subfield", "rate", "r", "w", "dblock", "tableau", "ok"}

(* Every field holds a natural number: the differences do not wrap. *)
TypeOK ==
  /\ pc \in {"search", "given", "sanity", "constructed", "panic"}
  /\ args \in Args
  /\ f \in [Fields -> Nat]
  /\ e \in Nat /\ min \in 0..SizeMax /\ best \in Nat
  /\ why \in Reasons

(* A search in which every layout() fails leaves in the object what        *)
(* several failed calls assigned, and goes on to sanity(): the checks      *)
(* there stop it.  No object is made from a layout that failed.            *)
FailedSearchPanics == pc = "constructed" => why = "ok"

(* The dimensions of a constructed object: a block is its random elements  *)
(* and its witnesses, at least half of them witnesses; a row is a double   *)
(* block and the columns that can be opened; the witness rows hold the     *)
(* witnesses and the triples the constraints, none of them empty; the      *)
(* tableau is smaller than MaxSize.  Beyond the double block there are as  *)
(* many columns as are opened, and one at least: what gen_idx() asserts    *)
(* and the Merkle tree needs, and nothing in layout() compares.            *)
WellFormed ==
  pc = "constructed" =>
    /\ f.block = args.nreq + f.w /\ args.nreq <= f.w
    /\ f.dblock = (2 * f.block) - 1 /\ f.block_enc = f.dblock + f.block_ext
    /\ args.nw <= f.nwrow * f.w /\ f.nwrow * f.w < args.nw + f.w
    /\ args.nq <= f.nqtriples * f.w /\ f.nqtriples * f.w < args.nq + f.w
    /\ f.nrow = 3 + f.nwqrow /\ f.nwqrow = f.nwrow + (3 * f.nqtriples)
    /\ f.nrow * f.block_enc < MaxSize
    /\ f.block_ext >= args.nreq /\ f.block_ext >= 1

(* "Should be true for any reasonable rateinv, but check anyway": the      *)
(* check of the double block never decides.                                *)
DblockNeverDecides == why # "dblock"

Powers == {2 ^ k : k \in 0..28} \intersect 1..MaxSize

(* The search returns the power of two with the smallest estimate, the     *)
(* first one if there are several.                                         *)
BestIsMinimal ==
  pc = "constructed" /\ e > MaxSize =>
    /\ f.block_enc = best
    /\ \A p \in Powers : /\ Size(args, best) <= Size(args, p)
                         /\ p < best => Size(args, best) < Size(args, p)

=============================================================================
