---------------------------- MODULE CborByteDecoder ----------------------------
(***************************************************************************)
(* What a circuit reads from one byte, if an item of CBOR begins there:    *)
(* CborByteDecoder of src/lib/circuits/cbor_parser and CborByteDecoder2 of *)
(* src/lib/circuits/cbor_parser_v2, which are the same text.  A length or  *)
(* count that stands in the next byte is left to the caller.               *)
(***************************************************************************)
EXTENDS Integers

decode_one_v8(v) ==
  LET type  == v \div 32
      count == v % 32
      stringp == type \in {2, 3}
      count24_27 == count \in 24..27
      simple_specialp == type = 7 /\ count \in 20..23
      base == IF count < 24 THEN 1 ELSE 1 + 2 ^ (count % 4)
  IN  [atomp |-> type \in {0, 1}, stringp |-> stringp, itemsp |-> type \in {4, 5},
       specialp |-> type = 7, tagp |-> type = 6, arrayp |-> type = 4, mapp |-> type = 5,
       simple_specialp |-> simple_specialp, count |-> count, count24_27 |-> count24_27,
       length_plus_next_v8 |-> stringp /\ count = 24,
       count_is_next_v8 |-> type \in {4, 5} /\ count = 24,
       invalid |-> \/ type = 7 /\ ~simple_specialp
                   \/ ~(count <= 24 \/ (type \in {0, 1, 6} /\ count24_27)),
       length |-> base + IF stringp /\ count < 24 THEN count ELSE 0]
================================================================================
