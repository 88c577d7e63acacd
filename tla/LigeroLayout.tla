---------------------------- MODULE LigeroLayout ----------------------------
(***************************************************************************)
(* The dimensions of the Ligero tableau as layout() of                     *)
(* src/lib/ligero/ligero_param.h computes them from the arguments a (nw    *)
(* witnesses, nq quadratic constraints, rateinv, nreq opened columns) and  *)
(* a row length be.                                                        *)
(***************************************************************************)
EXTENDS Naturals, FiniteSets

(* mutant: rounds down *)
CeilDivDown(a, b) == a \div b

CeilDiv(a, b) == (a + (b - 1)) \div b

(* merkle_tree_len: one more than the halvings that leave more than one.   *)
(* There are at most 2^28 leaves.                                          *)
MerkleTreeLen(n) ==
  1 + Cardinality({k \in 0..28 : ((2 * n) - 1) \div (2 ^ k) > 1})

Block(a, be) == (be + 1) \div (2 + a.rateinv)

W(a, be) == Block(a, be) - a.nreq
DBlock(a, be) == (2 * Block(a, be)) - 1
NwRow(a, be) == CeilDiv(a.nw, W(a, be))
NqTriples(a, be) == CeilDiv(a.nq, W(a, be))
NwqRow(a, be) == NwRow(a, be) + (3 * NqTriples(a, be))
NRow(a, be) == NwqRow(a, be) + 3
=============================================================================
