------------------------------- MODULE CborParser ------------------------------
(***************************************************************************)
(* The circuit that parses CBOR, and the witness for it: cbor.h and        *)
(* cbor_witness.h of src/lib/circuits/cbor_parser_v2.                      *)
(*                                                                         *)
(* Of every byte the prover says whether an item begins there (header),    *)
(* which of the nested containers it belongs to (sel), how many bytes the  *)
(* item still has (slen_next) and how many items every open container      *)
(* still wants (cc_next).  The circuit checks that each position follows   *)
(* from the one before, and statements about a document (this is the j-th  *)
(* pair of that map) are comparisons of the counters at a few positions,   *)
(* whose indices are witnesses too.                                        *)
(*                                                                         *)
(* A counter is a number: module Gadgets shows that both encodings are.    *)
(* Bytes count from 0.  A product whose inverse is a witness is the        *)
(* statement that no factor is zero.                                       *)
(***************************************************************************)
EXTENDS CborByteDecoder, Loops, Sequences, FiniteSets, Functions

CONSTANTS kNCounters, \* containers inside one another
          Documents,  \* [bytes, len] that compute_witnesses is given
          Inputs,     \* the bytes for which a prover tries other witnesses
          Strings     \* the texts that statements are about

VARIABLES in,         \* the bytes, from 0
          input_len,  \* of which are the document, at the end
          pw,         \* the witness of the positions so far
          stage       \* "document", "computed", "aborted" or "search"

vars == <<in, input_len, pw, stage>>

n == Cardinality(DOMAIN in)
Levels == 0..(kNCounters - 1)
Positions == 0..(n - 1)
bd(i) == decode_one_v8(in[i])

-----------------------------------------------------------------------------
(* The circuit.  An element past the end is not looked at.                 *)
length(i) ==
  bd(i).length + IF bd(i).length_plus_next_v8 /\ i + 1 < n THEN in[i + 1] ELSE 0
count(i) == IF bd(i).count_is_next_v8 /\ i + 1 < n THEN in[i + 1] ELSE bd(i).count

(* Items follow each other to the end of the bytes *)
assert_decode(ws, i) ==
  LET slen == IF i = 0 THEN 0 ELSE ws[i - 1].slen_next
      last == i = n - 1
  IN  /\ ws[i].header => ~bd(i).invalid
      /\ ws[i].header /\ last => ~bd(i).count_is_next_v8 /\ ~bd(i).length_plus_next_v8
      /\ ws[i].slen_next = IF ws[i].header THEN length(i) ELSE slen - 1
      /\ ws[i].header <=> (i = 0 \/ slen = 1)
      /\ last => ws[i].slen_next = 1

opens(i) == bd(i).tagp \/ bd(i).itemsp
selected(w) == IF w.header THEN w.sel ELSE {}

(* An item is counted where it stands; a container or a tag opens the next *)
(* level.                                                                  *)
counters_next(cc, w, i) ==
  LET newc == CASE bd(i).arrayp -> count(i) [] bd(i).mapp -> 2 * count(i) [] OTHER -> 1
  IN  [l \in Levels |->
         IF opens(i) /\ l - 1 \in selected(w) THEN newc
         ELSE IF l \in selected(w) THEN cc[l] - 1 ELSE cc[l]]
overflow(w, i) == opens(i) /\ kNCounters - 1 \in selected(w)

(* The counters of the first position are not checked.                     *)
assert_counter_updates(ws, i) ==
  i > 0 => /\ ~overflow(ws[i], i)
           /\ ws[i].cc_next = counters_next(ws[i - 1].cc_next, ws[i], i)

(* The innermost container that wants an item is the one that gets it, and *)
(* all are full in the end.                                                *)
assert_parse(ws, i) ==
  /\ assert_counter_updates(ws, i)
  /\ Cardinality(ws[i].sel) <= 1
  /\ ws[i].header => ws[i].sel # {}
  /\ i = 0 => 0 \in ws[i].sel
  /\ i > 0 => \A l \in ws[i].sel :
                /\ ws[i - 1].cc_next[l] # 0
                /\ \A k \in Levels : k > l => ws[i - 1].cc_next[k] = 0
  /\ i = n - 1 => \A l \in Levels : ws[i].cc_next[l] = 0

decode_and_assert_decode_and_parse(ws) ==
  \A i \in Positions : assert_decode(ws, i) /\ assert_parse(ws, i)

-----------------------------------------------------------------------------
(* Statements about a document that was parsed                             *)
assert_header(j) == j \in Positions /\ pw[j].header
assert_map_header(j) == assert_header(j) /\ bd(j).mapp

(* mutant: the counters of the enclosing containers are not compared *)
assert_map_entryAnywhere(m, level, k, v, j) ==
  LET c(i) == pw[i].cc_next
  IN  /\ assert_map_header(m) /\ assert_header(k) /\ assert_header(v)
      /\ c(m)[level + 1] = c(k)[level + 1] + (2 * j) + 1
      /\ c(m)[level + 1] = c(v)[level + 1] + (2 * j) + 2
      /\ \A l \in (level + 2)..(kNCounters - 1) : c(m)[l] = 0

assert_map_entry(m, level, k, v, j) ==
  LET c(i) == pw[i].cc_next
  IN  /\ assert_map_header(m) /\ assert_header(k) /\ assert_header(v)
      /\ \A l \in 0..level : c(m)[l] = c(k)[l] /\ c(m)[l] = c(v)[l]
      /\ c(m)[level + 1] = c(k)[level + 1] + (2 * j) + 1
      /\ c(m)[level + 1] = c(v)[level + 1] + (2 * j) + 2
      /\ \A l \in (level + 2)..(kNCounters - 1) : c(m)[l] = 0

(* The bytes from j on, or a value that is no byte *)
shift(j) == [t \in 0..24 |-> IF j + t < n THEN in[j + t] ELSE 256]

(* Long strings and numbers are refused when the circuit is made: there is *)
(* no circuit that states them.                                            *)
one_byte(u) == u < 24

assert_text_at(j, s) ==
  /\ one_byte(Len(s))
  /\ assert_header(j) /\ shift(j)[0] = 96 + Len(s)
  /\ \A t \in DOMAIN s : shift(j)[t] = s[t]
assert_atom_at(j, expected) == assert_header(j) /\ shift(j)[0] = expected
assert_unsigned_at(j, u) == one_byte(u) /\ assert_atom_at(j, u)
assert_negative_at(j, u) == one_byte(u) /\ assert_atom_at(j, 32 + u)
assert_bool_at(j, val) == assert_atom_at(j, (7 * 32) + IF val THEN 21 ELSE 20)

assert_input_starts_at(jroot, len) ==
  /\ len <= n /\ jroot < n /\ jroot + len = n
  /\ \A i \in 0..(jroot - 1) : in[i] = 0

-----------------------------------------------------------------------------
(* The witness of an honest prover; Abort is what a failed check returns   *)
Abort == [cc |-> <<>>, slen |-> -1]

item_length(i) ==
  LET kind  == in[i] \div 32
      small == in[i] % 32
  IN  CASE kind \in {0, 1, 6} /\ small < 24 -> 1
        [] kind \in {0, 1, 6} /\ small \in 24..27 -> 1 + 2 ^ (small - 24)
        [] kind \in {4, 5} /\ small < 24 -> 1
        [] kind \in {4, 5} /\ small = 24 -> 2
        [] kind \in {2, 3} /\ small < 24 -> 1 + small
        [] kind \in {2, 3} /\ small = 24 /\ i + 1 < n -> 2 + in[i + 1]
        [] OTHER -> -1
next_slen(slen, i) == IF slen = 1 THEN item_length(i) ELSE slen - 1

decode_count(i) ==
  CASE in[i] % 32 < 24 -> in[i] % 32
    [] in[i] % 32 = 24 /\ i + 1 < n -> in[i + 1]
    [] OTHER -> -1

(* The innermost counter that is not zero, if there is one *)
isel(cc) == {l \in Levels : cc[l] # 0 /\ \A k \in Levels : k > l => cc[k] = 0}

(* One position: the counters and the length after it.  A container at the *)
(* last level is the overflow that both passes check.                      *)
Advance(i, at) ==
  LET kind  == in[i] \div 32
      level == isel(at.cc)
      items == CASE kind = 6 -> 1
                 [] kind \in {4, 5} /\ level # {} -> (kind - 3) * decode_count(i)
                 [] OTHER -> 0
      slen  == next_slen(at.slen, i)
  IN  IF at = Abort \/ slen < 0 THEN Abort
      ELSE IF at.slen # 1 THEN [at EXCEPT !.slen = slen]
      ELSE IF items < 0 \/ (kind \in {4, 5, 6} /\ kNCounters - 1 \in level) THEN Abort
      ELSE [slen |-> slen,
            cc |-> Table([l \in Levels |->
                            IF kind \in {4, 5, 6} /\ l - 1 \in level THEN items
                            ELSE IF l \in level THEN at.cc[l] - 1 ELSE at.cc[l]])]

(* A pass that starts with so many items wanted outside of all containers *)
Pass(wanted) ==
  LET st[i \in 0..n] ==
        IF i = 0 THEN [slen |-> 1, cc |-> [l \in Levels |-> IF l = 0 THEN wanted ELSE 0]]
        ELSE Advance(i - 1, st[i - 1])
  IN  st

(* mutant: the second pass starts as the first *)
compute_witnessesOnce ==
  LET st == Pass(n + 1)
  IN  [i \in Positions |->
         [header |-> st[i].slen = 1, sel |-> isel(st[i].cc),
          slen_next |-> st[i + 1].slen, cc_next |-> st[i + 1].cc]]

(* The first pass finds the number of items outside of all containers *)
compute_witnesses ==
  LET st == Pass((n + 1) - Pass(n + 1)[n].cc[0])
  IN  [i \in Positions |->
         [header |-> st[i].slen = 1, sel |-> isel(st[i].cc),
          slen_next |-> st[i + 1].slen, cc_next |-> st[i + 1].cc]]

-----------------------------------------------------------------------------
Init ==
  /\ pw = <<>>
  /\ \/ \E d \in Documents : in = d.bytes /\ input_len = d.len /\ stage = "document"
     \/ in \in Inputs /\ input_len = n /\ stage = "search"

Compute ==
  /\ stage = "document"
  /\ \/ /\ input_len <= n
        /\ Pass(n + 1)[n] # Abort
        /\ \A i \in 0..(n - input_len - 1) : in[i] = 0
        /\ pw' = compute_witnesses /\ stage' = "computed"
     \/ /\ \/ input_len > n
           \/ Pass(n + 1)[n] = Abort
           \/ \E i \in 0..(n - input_len - 1) : in[i] # 0
        /\ stage' = "aborted" /\ UNCHANGED pw
  /\ UNCHANGED <<in, input_len>>

(* Any other prover: the elements that the circuit determines follow from  *)
(* those it chooses.  A counter above the number of positions cannot come  *)
(* down to zero.                                                           *)
FirstCounters == {c \in [Levels -> 0..(n - 1)] : FoldFunction(+, 0, c) < n}
Position ==
  LET i    == Cardinality(DOMAIN pw)
      with(w) == [k \in 0..i |-> IF k = i THEN w ELSE pw[k]]
  IN  /\ stage = "search" /\ i < n
      /\ \E header \in BOOLEAN, sel \in SUBSET Levels :
           LET w == [header |-> header, sel |-> sel,
                     slen_next |-> IF header THEN length(i)
                                   ELSE (IF i = 0 THEN 0 ELSE pw[i - 1].slen_next) - 1]
           IN  /\ assert_decode(with(w), i)
               /\ \E cc \in IF i = 0 THEN FirstCounters
                            ELSE {Table(counters_next(pw[i - 1].cc_next, w, i))} :
                    /\ assert_parse(with(w @@ [cc_next |-> cc]), i)
                    /\ pw' = with(w @@ [cc_next |-> cc])
      /\ UNCHANGED <<in, input_len, stage>>

Next == Compute \/ Position
Spec == Init /\ [][Next]_vars

-----------------------------------------------------------------------------
(* CBOR, without levels: an item is a head of a kind and an argument, the  *)
(* bytes of a string and the items inside.                                 *)
kind(i) == in[i] \div 32
Argument(i) == IF in[i] % 32 < 24 THEN in[i] % 32 ELSE in[i + 1]
HeadOf(i) == IF in[i] % 32 < 24 THEN 1 ELSE 1 + 2 ^ ((in[i] % 32) - 24)
Readable(i) ==
  /\ in[i] % 32 <= (IF kind(i) \in {0, 1, 6} THEN 27 ELSE 24)
  /\ kind(i) = 7 => in[i] % 32 \in 20..23
  /\ i + HeadOf(i) <= n
After(i) == i + HeadOf(i) + IF kind(i) \in {2, 3} THEN Argument(i) ELSE 0
Inside(i) ==
  CASE kind(i) = 4 -> Argument(i) [] kind(i) = 5 -> 2 * Argument(i) [] kind(i) = 6 -> 1
    [] OTHER -> 0

(* Where k items that begin at i end, or n + 1 if there are none           *)
EndsIn ==
  LET e[i \in 0..n, k \in 0..n] ==
        IF k = 0 THEN i
        ELSE IF i = n \/ ~Readable(i) THEN n + 1
        ELSE IF After(i) > n \/ (k - 1) + Inside(i) > n THEN n + 1
        ELSE e[After(i), (k - 1) + Inside(i)]
  IN  Table(e)

(* The items, if the bytes are a sequence of them *)
Items ==
  LET t[i \in 0..n] ==
        IF i = n THEN {} ELSE IF ~Readable(i) \/ After(i) > n THEN {-1}
        ELSE {i} \union t[After(i)]
  IN  t[0]
Around(e, i) == {a \in Items : a < i /\ i < e[a, 1]}

(* What the circuit can be given a witness for: complete items, no special *)
(* ones, containers and tags at most three inside one another, behind      *)
(* zeros.                                                                  *)
Supported(e) ==
  /\ -1 \notin Items /\ input_len <= n
  /\ \E k \in 0..n : e[0, k] = n
  /\ \A i \in Items :
       /\ kind(i) # 7
       /\ kind(i) \in {4, 5, 6} => Cardinality(Around(e, i)) < kNCounters - 1
  /\ \A i \in 0..(n - input_len - 1) : in[i] = 0

(* The honest prover stops, or its witness is refused, exactly for what is *)
(* not supported; and then every pair of every map can be stated.          *)
HonestIsParsed ==
  stage \in {"computed", "aborted"} =>
    LET e == EndsIn
    IN  /\ (stage = "computed" /\ decode_and_assert_decode_and_parse(pw)) <=> Supported(e)
        /\ Supported(e) => assert_input_starts_at(n - input_len, input_len)
        /\ Supported(e) =>
             \A m \in {i \in Items : kind(i) = 5} : \A j \in 0..(Argument(m) - 1) :
               assert_map_entry(m, Cardinality(Around(e, m)), e[After(m), 2 * j],
                                e[After(m), (2 * j) + 1], j)

Parsed == stage = "search" /\ DOMAIN pw = Positions

(* Whatever witness is accepted, its headers are the items.  A key and a   *)
(* value stated of a map that is not empty are in the key and in the value *)
(* of that pair of that map; except for a map at the first byte, whose     *)
(* count is not checked, with items behind it.                             *)
StatedIsInPair ==
  Parsed =>
    LET e == EndsIn
    IN  /\ {i \in Positions : pw[i].header} = Items
        /\ \A m \in {i \in Items : kind(i) = 5 /\ Argument(i) > 0} :
             (m > 0 \/ e[0, 1] = n) =>
               \A level \in 0..(kNCounters - 2), k \in Items, v \in Items, j \in 0..(n \div 2) :
                 assert_map_entry(m, level, k, v, j) =>
                   /\ j < Argument(m)
                   /\ k \in e[After(m), 2 * j]..(e[After(m), (2 * j) + 1] - 1)
                   /\ v \in e[After(m), (2 * j) + 1]..(e[After(m), (2 * j) + 2] - 1)

(* Only items are read, as what they are.                                  *)
String(i) == [t \in 1..Argument(i) |-> in[i + HeadOf(i) + t - 1]]
ReadIsTheItem ==
  Parsed =>
    \A j \in 0..n :
      /\ \A s \in Strings :
           assert_text_at(j, s) <=>
             j \in Items /\ kind(j) = 3 /\ HeadOf(j) = 1 /\ String(j) = s
      /\ \A u \in {0, 1, 23, 24} :
           /\ assert_unsigned_at(j, u) <=> j \in Items /\ kind(j) = 0 /\ HeadOf(j) = 1 /\ in[j] = u
           /\ assert_negative_at(j, u) <=> j \in Items /\ kind(j) = 1 /\ HeadOf(j) = 1 /\ in[j] % 32 = u
      /\ \A val \in BOOLEAN :
           assert_bool_at(j, val) <=> j \in Items /\ kind(j) = 7 /\ in[j] % 32 = (IF val THEN 21 ELSE 20)

(* cbor.h:531: "Position M starts a map of level LEVEL.  (K, V) are        *)
(* headers representing the J-th pair in that map".                        *)
EntryIsThePair ==
  Parsed =>
    LET e == EndsIn
    IN  \A m \in {i \in Items : i > 0 \/ e[0, 1] = n}, level \in 0..(kNCounters - 2),
          k \in Items, v \in Items, j \in 0..(n \div 2) :
          assert_map_entry(m, level, k, v, j) =>
            j < Argument(m) /\ k = e[After(m), 2 * j] /\ v = e[After(m), (2 * j) + 1]
================================================================================
