------------------------------- MODULE MdocHash ------------------------------
(***************************************************************************)
(* The hash circuit of version 7 (lib/circuits/mdoc/mdoc_hash.h) and the   *)
(* witness the wallet makes for it (mdoc_witness.h): a date between two    *)
(* dates of the mobile security object (MSO), a device key and the digest  *)
(* of one attribute out of it, and the identifier and the value of the     *)
(* attribute out of its bytes, all found by indices that are witnesses.    *)
(*                                                                         *)
(* Documents are byte strings, decoded as HostDecoder decodes them.  Wires *)
(* are the bytes and the numbers they carry; a hash is a mark that only    *)
(* the same bytes have (Sha256 has the circuit of it).                     *)
(***************************************************************************)
EXTENDS CborByteDecoder, Sequences, FiniteSets, SequencesExt

CONSTANTS Documents, \* [items, from, until, dpk, layout] as an issuer signs them
          Requests(_), \* of a reader, for a document: [id, value, now]
          Cheated,   \* the documents whose holder tries other witnesses
          Strange,   \* places outside of an item that it tries
          Orders     \* and orders of the four pairs

VARIABLES doc,    \* of the issuer
          signed, \* the bytes of it: see Sign
          req,    \* of the reader
          wit,    \* of the wallet: see compute_witness
          stage   \* "start", "honest", "aborted", "not_found", "cheat" or "cheated"

vars == <<doc, signed, req, wit, stage>>

D == INSTANCE HostDecoder WITH
       Inputs <- {}, Trees <- {}, Keys <- {}, Numbers <- {}, Offsets <- {}, kDateTag <- 1004,
       kDateLen <- 10, in <- <<>>, offset <- 0, meant <- 0, root <- 0, query <- 0, found <- 0

kIndexValues == 4096  \* 2 ^ kCborIndexBits
kCose1PrefixLen == 18
kDateLen == 20

Copies(n, byte) == [j \in 1..n |-> byte]

(* The texts of the code, by a letter and their lengths *)
digestID == Copies(8, 100)
random == Copies(6, 114)
elementIdentifier == Copies(17, 105)
elementValue == Copies(12, 118)
validFrom == Copies(9, 102)
validUntil == Copies(10, 117)
deviceKeyInfo == Copies(13, 107)
deviceKey == Copies(9, 107)
valueDigests == Copies(12, 104)
validityInfo == Copies(12, 121)
nameSpace == Copies(17, 111)

-----------------------------------------------------------------------------
(* What an issuer signs                                                    *)

Leaf(t, n, s) == [t |-> t, n |-> n, s |-> s, kids |-> <<>>]
Tree(t, n, kids) == [t |-> t, n |-> n, s |-> <<>>, kids |-> kids]
Text(s) == Leaf("TEXT", 0, s)
Bytes(s) == Leaf("BYTES", 0, s)
Uint(n) == Leaf("UNSIGNED", n, <<>>)
Neg(n) == Leaf("NEGATIVE", n, <<>>)
Map(kids) == Tree("MAP", Len(kids) \div 2, kids)

(* The four pairs in the order of the issuer, tagged as bytes *)
PairsOf(i) ==
  << <<Text(digestID), Uint(i.digestID)>>, <<Text(random), Bytes(i.random)>>,
     <<Text(elementIdentifier), Text(i.id)>>, <<Text(elementValue), i.value>> >>

ItemBytes(i) ==
  D!Write(Tree("TAG", 24, <<Bytes(D!Write(Map(FlattenSeq([j \in 1..4 |-> PairsOf(i)[i.order[j]]])), 0))>>), 0)

Date(d) == Copies(kDateLen - 1, 48) \o <<48 + d>>
Key(x) == Copies(32, x)

(* The hash of bytes: a mark of their own for those the issuer signs *)
hash_of(items, bytes) ==
  Copies(32, IF bytes = items[1] THEN 257 ELSE IF bytes = items[2] THEN 258 ELSE 256)

DeviceKeyTree(m) ==
  LET x == <<Neg(-1), Bytes(Key(m.dpk))>>
      y == <<Neg(-2), Bytes(Key(m.dpk + 1))>>
      k == <<Uint(1), Uint(2), Neg(0), Uint(1)>>
  IN  Map(<<Text(deviceKey), Map(IF m.layout = "swapped" THEN k \o y \o x ELSE k \o x \o y)>>)

MsoBytes(m, items) ==
  LET date(d) == Tree("TAG", 0, <<Text(Date(d))>>)
      validity == <<Text(validityInfo), Map(<<Text(validFrom), date(m.from),
                                              Text(validUntil), date(m.until)>>)>>
      key      == <<Text(deviceKeyInfo), DeviceKeyTree(m)>>
      digest(j) == <<Uint(m.items[j].digestID), Bytes(hash_of(items, items[j]))>>
      digests  == <<Text(valueDigests), Map(<<Text(nameSpace), Map(digest(1) \o digest(2))>>)>>
  IN  D!Write(Map(IF m.layout = "late" THEN digests \o key \o validity
                  ELSE validity \o key \o digests), 0)

SignItems(m, items) == [items |-> items, mso |-> MsoBytes(m, items)]
Sign(m) == SignItems(m, <<ItemBytes(m.items[1]), ItemBytes(m.items[2])>>)

-----------------------------------------------------------------------------
(* ParsedMdoc::parse_device_response, for an attribute and for the MSO     *)

header_len(n) == IF n < 24 THEN 1 ELSE 2

(* A pair that is looked up by its key *)
pair_at(map, j) == [key |-> D!key_of(map, j), value |-> D!value_of(map, j)]
pair_of(map, str, text) == pair_at(map, D!lookup(map, str, text))

(* Where the four pairs are; length() stops the program for a value that  *)
(* is an array, a map or a negative number, asked for or not.             *)
FullAttribute(dig, rnd, id, val) ==
  [aborts |-> val.value.t_ \in {"ARRAY", "MAP", "NEGATIVE"},
   id_ind |-> D!position(id.value), id_len |-> D!length(id.value),
   val_ind |-> D!position(val.key), dig_ind |-> D!position(dig.key),
   dig_len |-> D!length(dig.key) + D!length(dig.value) + 1,
   rand_ind |-> D!position(rnd.key),
   rand_len |-> D!length(rnd.key) + D!length(rnd.value) + 1 + header_len(D!length(rnd.value))]

(* The tagged bytes of an attribute are decoded a second time *)
parse_map(str, er) ==
  FullAttribute(pair_of(er, str, digestID), pair_of(er, str, random),
                pair_of(er, str, elementIdentifier), pair_of(er, str, elementValue))
parse_tagged(str, tattr) ==
  parse_map(str, D!decode(SubSeq(str, 1, tattr.pos + tattr.len), tattr.pos, 0).doc)
parse_attribute(str) == parse_tagged(str, D!decode(str, 0, 0).doc.children_[1])

(* The headers of the keys that are looked up one in another; of the digest *)
(* that of the value.                                                       *)
MsoIndices(pmso, top, nv, ndk, nss, digest_id) ==
  LET at(map, text) == pair_of(map, pmso, text).key.header_pos_
      bytes(n)      == SubSeq(pmso, n.pos + 1, n.pos + n.len)
  IN  [valid_from |-> at(nv, validFrom), valid_until |-> at(nv, validUntil),
       dev_key_info |-> at(top, deviceKeyInfo), value_digests |-> at(top, valueDigests),
       attr_mso |-> pair_at(nss, D!lookup_unsigned(nss, digest_id)).value.header_pos_,
       dpkx |-> bytes(pair_at(ndk, D!lookup_negative(ndk, -1)).value),
       dpky |-> bytes(pair_at(ndk, D!lookup_negative(ndk, -2)).value)]

parse_mso(pmso, top, digest_id) ==
  LET in_map(map, text) == pair_of(map, pmso, text).value
  IN  MsoIndices(pmso, top, in_map(top, validityInfo),
                 in_map(in_map(top, deviceKeyInfo), deviceKey),
                 in_map(in_map(top, valueDigests), nameSpace), digest_id)

(* MdocHashWitness::compute_witness, the part of version 7: the pairs in   *)
(* the order of their places, and where in that order each of the four is. *)
in_order(triples) ==
  [i |-> [j \in 1..3 |-> triples[j + 1].i], l |-> [j \in 1..4 |-> triples[j].l],
   perm |-> [p \in 1..4 |-> CHOOSE o \in 1..4 : triples[o].p = p]]

SaltedHash(fa, cbor_value_len) ==
  LET head == header_len(fa.id_len)
      pos(i, l, p) == [i |-> i, l |-> l, p |-> p]
  IN  in_order(SortSeq(<<pos(fa.dig_ind - 1, fa.dig_len, 1), pos(fa.rand_ind - 1, fa.rand_len, 2),
                         pos(fa.id_ind - head - 18, 18 + fa.id_len + head, 3),
                         pos(fa.val_ind - 1, cbor_value_len + 13, 4)>>,
                       LAMBDA a, b : a.i < b.i))

(* For an attribute of the document *)
compute_witness(pmso, bytes, digest_id, fa, cbor_value_len) ==
  [attrb |-> bytes, sh |-> SaltedHash(fa, cbor_value_len),
   ind |-> parse_mso(pmso, D!decode(pmso, 0, 0).doc, digest_id)]

(* fill_attribute: the identifier with its header and the value as the     *)
(* circuit will compare them, cut to 32 and 64 bytes, and their lengths.   *)
(* The length counts one byte of header whatever the identifier.           *)
OpenedAttribute(id, cbor_value) ==
  LET name == D!Write(Text(id), 0)
      cut(s, n) == [j \in 1..n |-> IF j <= Len(s) THEN s[j] ELSE 0]
  IN  [attr |-> cut(name, 32), v1 |-> cut(cbor_value, 64),
       len |-> (1 + 17 + 1 + Len(id)) % 256, vlen |-> (Len(cbor_value) + 12 + 1) % 256]

-----------------------------------------------------------------------------
(* The circuit                                                             *)

Plus(a, b) == (a + b) % kIndexValues

(* r_.shift: the bytes from an index on, zeros past the array *)
From(buf, k) == [j \in 0..118 |-> IF k + j < Len(buf) THEN buf[k + j + 1] ELSE 0]

assert_bytes_at(got, want) == \A j \in DOMAIN want : got[j - 1] = want[j]

(* The bytes hashed, to the end of the blocks: a bit 1 behind the message, *)
(* its length in bits at the end                                           *)
sha_padded(s, room) ==
  [j \in 1..room |-> IF j <= Len(s) THEN s[j] ELSE IF j = Len(s) + 1 THEN 128
                     ELSE IF j = room THEN (8 * Len(s)) % 256
                     ELSE IF j = room - 1 THEN (8 * Len(s)) \div 256 ELSE 0]

(* mutant: the length is not read for atoms *)
check_cbor_lengthAtom(got, len, val_hdr_index, atom) ==
  LET head == decode_one_v8(got[val_hdr_index])
      l1   == IF head.length_plus_next_v8 THEN got[val_hdr_index + 1] ELSE got[val_hdr_index] % 32
      l2   == IF head.length_plus_next_v8 THEN 2 ELSE 1
  IN  ~head.invalid /\ (atom \/ len = val_hdr_index + l1 + l2)

(* The length of a pair is that of the key, the header of the value and,   *)
(* but for an atom, the value                                              *)
check_cbor_length(got, len, val_hdr_index, atom) ==
  LET head == decode_one_v8(got[val_hdr_index])
      l1   == IF atom THEN 0
              ELSE IF head.length_plus_next_v8 THEN got[val_hdr_index + 1]
              ELSE got[val_hdr_index] % 32
      l2   == IF ~atom THEN IF head.length_plus_next_v8 THEN 2 ELSE 1
              ELSE CASE head.count = 24 -> 2 [] head.count = 25 -> 3 [] head.count = 26 -> 5
                     [] OTHER -> 1
  IN  /\ ~head.invalid
      /\ atom => head.count # 27
      /\ len = Plus(val_hdr_index, l1 + l2)

(* Place and length of the pair that the permutation gives a slot *)
mux_offset(sh, slot) ==
  [shift |-> IF sh.perm[slot] = 1 THEN 5 ELSE sh.i[sh.perm[slot] - 1],
   len |-> sh.l[sh.perm[slot]]]

(* Equal to the public bytes, up to the public length *)
Opens(got, want, max, len) == \A j \in 0..(max - 1) : j < len => got[j] = want[j + 1]

assert_attribute(attrb, sh, o) ==
  LET buf == sha_padded(attrb, 128)
      tot == Len(attrb)
      at(slot) == mux_offset(sh, slot)
      got(slot) == From(buf, at(slot).shift)
  IN  /\ SubSeq(buf, 1, 3) = <<216, 24, 88>> /\ buf[5] = 164
      /\ sh.i[1] = Plus(5, sh.l[1])
      /\ sh.i[2] = Plus(sh.i[1], sh.l[2])
      /\ sh.i[3] = Plus(sh.i[2], sh.l[3])
      /\ tot = Plus(sh.i[3], sh.l[4])
      /\ assert_bytes_at(got(1), <<104>> \o digestID)
      /\ check_cbor_length(got(1), at(1).len, 9, TRUE)
      /\ assert_bytes_at(got(2), <<102>> \o random)
      /\ check_cbor_length(got(2), at(2).len, 7, FALSE)
      /\ Opens(got(3), <<113>> \o elementIdentifier \o o.attr, 50, o.len)
      /\ at(3).len % 256 = o.len
      /\ Opens(got(4), <<108>> \o elementValue \o o.v1, 77, o.vlen)
      /\ at(4).len % 256 = o.vlen

(* Lexicographic, as Memcmp::leq *)
leq(a, b) ==
  \A j \in 1..kDateLen : a[j] > b[j] => \E l \in 1..(j - 1) : a[l] < b[l]

Cut(got, from, n) == [j \in 1..n |-> got[from + j - 1]]

(* Index, then the bytes that must stand there; the index is compared with *)
(* the length of what is signed, which has 25 bytes before the MSO         *)
assert_mso(str, w, t) ==
  LET buf == sha_padded(str, Len(str) + 40)
      len == kCose1PrefixLen + 2 + 5 + Len(str)
      got(k) == From(buf, k)
      key == <<109>> \o deviceKeyInfo \o <<161, 105>> \o deviceKey
             \o <<164, 1, 2, 32, 1, 33, 88, 32>>
  IN  /\ \A k \in {w.valid_from, w.valid_until, w.dev_key_info, w.value_digests, w.attr_mso} : k < len
      /\ assert_bytes_at(got(w.valid_from), <<105>> \o validFrom \o <<192, 116>>)
      /\ leq(Cut(got(w.valid_from), 12, kDateLen), t)
      /\ assert_bytes_at(got(w.valid_until), <<106>> \o validUntil \o <<192, 116>>)
      /\ leq(t, Cut(got(w.valid_until), 13, kDateLen))
      /\ assert_bytes_at(got(w.dev_key_info), key)
      /\ Cut(got(w.dev_key_info), 65, 3) = <<34, 88, 32>>
      /\ w.dpkx = Cut(got(w.dev_key_info), 33, 32)
      /\ w.dpky = Cut(got(w.dev_key_info), 68, 32)
      /\ assert_bytes_at(got(w.value_digests), <<108>> \o valueDigests)

assert_digest(got, hash) == assert_bytes_at(got, <<88, 32>>) /\ Cut(got, 2, 32) = hash

assert_valid_hash_mdoc(str, w, hash, o, t) ==
  /\ assert_attribute(w.attrb, w.sh, o)
  /\ assert_mso(str, w.ind, t)
  /\ assert_digest(From(sha_padded(str, Len(str) + 40), w.ind.attr_mso), hash)

-----------------------------------------------------------------------------
Init ==
  /\ doc \in Documents /\ req \in Requests(doc)
  /\ signed = Sign(doc)
  /\ wit = <<>> /\ stage = "start"

(* The first of these attributes, or none; parsing stops for any attribute *)
(* of the document                                                         *)
Witness(found, next) ==
  \E fa \in {[a \in 1..2 |-> parse_attribute(signed.items[a])]} :
    IF fa[1].aborts \/ fa[2].aborts THEN wit' = wit /\ stage' = "aborted"
    ELSE IF found = {} THEN wit' = wit /\ stage' = "not_found"
    ELSE \E j \in found :
           /\ \A l \in found : j <= l
           /\ wit' = compute_witness(signed.mso, signed.items[j], doc.items[j].digestID,
                                     fa[j], Len(req.value))
           /\ stage' = next

(* The attribute that has the identifier *)
Prove ==
  /\ stage = "start"
  /\ Witness({j \in 1..2 : doc.items[j].id = req.id}, "honest")
  /\ UNCHANGED <<doc, signed, req>>

(* Any attribute is opened for any request *)
OtherAttribute ==
  /\ stage = "start" /\ doc \in Cheated
  /\ \E j \in 1..2 : Witness({j}, "cheat")
  /\ UNCHANGED <<doc, signed, req>>

Cheat(new) ==
  wit' = new /\ stage' = "cheated" /\ UNCHANGED <<doc, signed, req>>

(* Bytes that are not the issuer's, with the digest of some attribute *)
OtherBytes ==
  /\ stage = "cheat"
  /\ \E i \in {doc.items[1], doc.items[2]} :
       \E bytes \in {ItemBytes([i EXCEPT !.id = req.id])} :
         /\ bytes # wit.attrb
         /\ Cheat([wit EXCEPT !.attrb = bytes,
                              !.sh = SaltedHash(parse_attribute(bytes), Len(req.value))])

(* Any place of the MSO *)
OtherPlace ==
  /\ stage = "cheat"
  /\ \E f \in {"valid_from", "valid_until", "dev_key_info", "attr_mso"},
        k \in 0..(Len(signed.mso) + 26) :
       Cheat([wit EXCEPT !.ind[f] = k])

(* The places of an item that begin like one of the four keys *)
Places(bytes) == {k \in 0..(Len(bytes) - 1) : bytes[k + 1] \in {102, 104, 108, 113}}

back(a, b) == (a + kIndexValues - b) % kIndexValues

(* Any pairs in any order; the lengths are what the sums leave *)
OtherPairs ==
  /\ stage = "cheat"
  /\ \E perm \in Orders : \E places \in {Places(wit.attrb) \cup Strange} :
       \E i1, i2, i3 \in places :
         Cheat([wit EXCEPT !.sh =
                  [i |-> <<i1, i2, i3>>, perm |-> perm,
                   l |-> <<back(i1, 5), back(i2, i1), back(i3, i2), back(Len(wit.attrb), i3)>>]])

Next == Prove \/ OtherAttribute \/ OtherBytes \/ OtherPlace \/ OtherPairs

Spec == Init /\ [][Next]_vars

-----------------------------------------------------------------------------
Accepted ==
  assert_valid_hash_mdoc(signed.mso, wit, hash_of(signed.items, wit.attrb),
                         OpenedAttribute(req.id, req.value), Date(req.now))

(* What is claimed is what the issuer signed *)
IsSigned ==
  /\ doc.from <= req.now /\ req.now <= doc.until
  /\ wit.ind.dpkx = Key(doc.dpk) /\ wit.ind.dpky = Key(doc.dpk + 1)
  /\ \E j \in 1..2 : doc.items[j].id = req.id /\ D!Write(doc.items[j].value, 0) = req.value

(***************************************************************************)
(* A proof is accepted only of an attribute, a device key and dates that   *)
(* the issuer signed, whatever places and lengths the holder gives; the    *)
(* wallet's is, for identifiers of less than 24 bytes, in every order of   *)
(* the four pairs.                                                         *)
(***************************************************************************)
OpenedIsSigned ==
  /\ (stage \in {"honest", "cheat", "cheated"} /\ Accepted) => IsSigned
  /\ (stage = "honest" /\ IsSigned /\ doc.layout # "swapped" /\ Len(req.id) < 24) => Accepted

(***************************************************************************)
(* The wallet's proof is accepted for every identifier, as the public      *)
(* length is that of the encoded identifier (mdoc_hash.h:70).              *)
(***************************************************************************)
EveryNameCanBeProved ==
  stage = "honest" /\ IsSigned /\ doc.layout # "swapped" => Accepted
==============================================================================
