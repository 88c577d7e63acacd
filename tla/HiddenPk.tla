---------------------------------- MODULE HiddenPk -----------------------------
(***************************************************************************)
(* The hidden-key relation of src/lib/circuits/hidden_pk: a signature      *)
(* under a key that hashes to an address.  HiddenPKCircuit adds to module  *)
(* Ecdsa the bits of the key and the hash of its bytes, HiddenPKWitness    *)
(* fills its wires, and hidden_pk_prove.cc is the command that takes a key *)
(* and a signature and prints a proof.                                     *)
(*                                                                         *)
(* Keccak-256 is ideal: a hash is its input, the two numbers that the 64   *)
(* bytes spell.  A prover proves exactly if its witness satisfies the      *)
(* circuit, and an honest proof is accepted (modules ZkSumcheck, Ligero).  *)
(***************************************************************************)
EXTENDS Ecdsa

CONSTANTS
  Commands,     \* [C, pkX, pkY, e, r, s]: arguments of the command
  Wirings         \* [C, key, R]: what another prover puts on the first wires

VARIABLES
  eth_addr,     \* the public address
  printed       \* the address the command prints

vars == <<pc, ecdsaVars, eth_addr, printed>>

none == <<>>

Init ==
  /\ \/ /\ role = "cli"
        /\ \E c \in Commands :
             /\ C = c.C /\ key = <<c.pkX % P, c.pkY % P>>
             /\ args = [e |-> c.e, r |-> c.r, s |-> c.s]
             /\ e = c.e % P
        /\ wit = none /\ pc = "compute"
     \/ /\ role = "any"
        /\ \E w \in Wirings :
             /\ C = w.C /\ key = w.key
             /\ wit = [R |-> w.R, b |-> <<>>, int |-> <<>>,
                       pre |-> [gpk |-> none, gr |-> none, rpk |-> none, grpk |-> none]]
        /\ args = none /\ e = none /\ pc = "table"
  /\ i = 0 /\ acc = zero /\ exps = <<0, 0, 0>>
  /\ eth_addr = none /\ printed = none

keccak256(bits) == bits

(* eth_address_bytes: the hash of the coordinates as numbers below p *)
FillPublic ==
  /\ pc = "fill"
  /\ eth_addr' = keccak256(key)
  /\ pc' = "table"
  /\ UNCHANGED <<ecdsaVars, printed>>

(* as_scalar_large: k bits spell a coordinate as an element of the field *)
Bits(x, y) ==
  IF role = "cli" THEN {<<x, y>>}
  ELSE {bits \in (0..((2 ^ C.k) - 1)) \X (0..((2 ^ C.k) - 1)) : bits[1] % P = x /\ bits[2] % P = y}

AssertAddress ==
  /\ pc = "address"
  /\ \E bits \in Bits(key[1], key[2]) :
       IF role = "cli" /\ keccak256(bits) # eth_addr
       THEN pc' = "rejected" /\ UNCHANGED eth_addr
       ELSE eth_addr' = keccak256(bits) /\ pc' = "accepted"
  /\ UNCHANGED <<ecdsaVars, printed>>

(* prove, write, read and verify, then the line on the output *)
Prove ==
  /\ role = "cli"
  /\ pc \in {"accepted", "rejected"}
  /\ IF pc = "accepted" THEN pc' = "printed" /\ printed' = keccak256(key)
     ELSE pc' = "proof generation failed" /\ UNCHANGED printed
  /\ UNCHANGED <<ecdsaVars, eth_addr>>

Next ==
  \/ (StartWitness \/ WitnessTurn \/ EndWitness("fill")) /\ UNCHANGED <<eth_addr, printed>>
  \/ FillPublic
  \/ (CheckTable \/ Turn \/ EndTurns("address")) /\ UNCHANGED <<eth_addr, printed>>
  \/ AssertAddress
  \/ Prove

Spec == Init /\ [][Next]_vars

-----------------------------------------------------------------------------
(* ECDSA by its definition, on the affine group *)
Multiple(n) == AffineMult(C, C.g, n)
IsKey(pk) == \E n \in 1..(C.n - 1) : Multiple(n) = pk
Log(pk) == CHOOSE n \in 1..(C.n - 1) : Multiple(n) = pk

EcdsaVerify(pk, r, s, hash) ==
  /\ IsKey(pk)
  /\ r \in 1..(C.n - 1) /\ s \in 1..(C.n - 1)
  /\ LET R == Multiple(((hash + (r * Log(pk))) * Inverse(s)) % C.n)
     IN  R # Infinity /\ R[1] % C.n = r

(* What an accepted proof of anybody says.  The bits on the wires are not  *)
(* compared with p, so for coordinates below 2^k - p there are two         *)
(* spellings, and likewise two exponents for such an e: the key spells to  *)
(* the address modulo p, and signs a message that is e modulo p.  The      *)
(* relation in the header of hidden_pk_circuit.h asks for equality.        *)
AcceptedIsRelation ==
  role = "any" /\ pc = "accepted" =>
    /\ <<eth_addr[1] % P, eth_addr[2] % P>> = key
    /\ \E m \in 0..((2 ^ C.k) - 1), s \in 1..(C.n - 1) :
         m % P = e /\ EcdsaVerify(key, wit.R[1], s, m)

(* The table has no room for the point at infinity, and x = 0 no inverse *)
Degenerate ==
  LET d == Log(key)
      t == Log(wit.R)
  IN  \/ key[1] = 0
      \/ \E sum \in {1 + d, 1 + t, t + d, 1 + t + d} : sum % C.n = 0

(* The command prints exactly the proofs of valid signatures, with the     *)
(* address of the key.  r must be the x of R itself and not only equal to  *)
(* it modulo the order, and s may be given unreduced.  In particular the   *)
(* sums of the witness, computed by the formulas for a = 0 and a = -3, are *)
(* those of the circuit coordinate by coordinate.                          *)
CommandIsExact ==
  /\ pc = "printed" => printed = key /\ eth_addr = key
  /\ role = "cli" /\ pc \in {"printed", "bad signature", "proof generation failed"} =>
       (pc = "printed" <=>
          /\ EcdsaVerify(key, args.r, args.s % C.n, args.e)
          /\ IsKey(wit.R) /\ ~Degenerate)
================================================================================
