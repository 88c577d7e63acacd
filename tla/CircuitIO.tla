------------------------------- MODULE CircuitIO -------------------------------
(***************************************************************************)
(* The file format of circuits: CircuitWriter and CircuitReader of         *)
(* src/lib/proto.  A circuit is written, its bytes travel, and a reader    *)
(* parses them, checking lengths, limits and indices as it goes and, if    *)
(* asked to, the identifier at the end.                                    *)
(*                                                                         *)
(* Numbers take KBytesPerSizeT bytes; indices of wires are written as      *)
(* differences with the sign in the lowest bit, and read modulo the range  *)
(* of size_t.  The identifier is an ideal hash: bytes at the end of the    *)
(* file name the circuit they were computed from if they arrive unaltered  *)
(* and are read at their place, and no circuit otherwise.  The cache of    *)
(* the delta table has one set, in which all differences collide.          *)
(***************************************************************************)
EXTENDS Quad

CONSTANTS
  Byte,            \* the values of a byte are 0..Byte - 1
  KBytesPerSizeT, EltBytes, KIdSize,
  KMaxLayers, KMaxBindings,
  SizeMax,         \* 2^64, modulo which indices are computed
  FieldId, FieldIds,
  Circuits         \* circuits to write; quads are given by their terms

(* how many numbers n bytes can tell apart *)
Values(n) ==
  LET pow[k \in 0..n] == IF k = 0 THEN 1 ELSE Byte * pow[k - 1] IN pow[n]

KMaxValue == Values(KBytesPerSizeT) - 1

ASSUME WidthsAssumption ==
  /\ Byte \in Nat \ {0, 1} /\ FieldIds \subseteq Nat
  /\ {KBytesPerSizeT, EltBytes, KIdSize, KMaxLayers, KMaxBindings, FieldId} \subseteq Nat
  /\ P <= Values(EltBytes)
(* a number fits a corner of a quad, and corners are numbers modulo a      *)
(* divisor of 2^64                                                         *)
ASSUME RangesAssumption ==
  /\ {Corners, SizeMax} \subseteq Nat \ {0}
  /\ KMaxValue < Corners /\ SizeMax % Corners = 0

-----------------------------------------------------------------------------
(* Circuits: layers of terms over the outputs above and the wires below    *)
Corner == [g : Nat, h : Nat \X Nat, v : Elt]
Layer == [nw : Nat \ {0}, logw : Nat, quad : Seq(Corner)]
Outputs(x, k) == IF k = 1 THEN x.nv ELSE x.l[k - 1].nw

IsHeader(x) ==
  /\ x = [nv |-> x.nv, logv |-> lg(x.nv), nc |-> x.nc, logc |-> lg(x.nc), npub_in |-> x.npub_in,
          subfield_boundary |-> x.subfield_boundary, ninputs |-> x.ninputs, l |-> x.l]
  /\ {x.nv, x.nc, x.npub_in, x.subfield_boundary, x.ninputs} \subseteq Nat
  /\ x.npub_in <= x.ninputs /\ x.subfield_boundary <= x.ninputs
(* what the rest of the library takes for granted of a layer, a circuit    *)
IsLayer(x, k) ==
  LET y == x.l[k]
  IN  /\ y.quad # <<>>
      /\ \A j \in DOMAIN y.quad :
           y.quad[j].g < Outputs(x, k) /\ y.quad[j].h[1] < y.nw /\ y.quad[j].h[2] < y.nw
IsCircuit(x) == IsHeader(x) /\ x.l \in Seq(Layer) /\ \A k \in DOMAIN x.l : IsLayer(x, k)

ASSUME CircuitsAssumption == \A x \in Circuits : IsCircuit(x)

VARIABLES
  c, buf, named,             \* the circuit, its bytes; do they end with its id
  field_id, enforce,         \* of the reader
  pc, next,                  \* what runs; ReadBuffer::next_
  got, nl, constants,        \* the circuit read so far
  table, cache,              \* delta table, and the two slots of the cache
  todo, quad, prev           \* terms to read of a layer; read; the one before

fileVars == <<c, buf, named, field_id, enforce, pc, next, got, nl, constants,
              table, cache, todo, quad, prev>>

NoCircuit == [l |-> <<>>]
Origin == [g |-> 0, hl |-> 0, hr |-> 0]

-----------------------------------------------------------------------------
(* Writing *)
(* what g >>= 8 leaves of x each time *)
Shifted(x, n) ==
  LET rest[k \in 0..n] == IF k = 0 THEN x ELSE rest[k - 1] \div Byte IN rest
Digits(x, n) == [k \in 1..n |-> Shifted(x, n)[k - 1] % Byte]

Index(ind, prev_ind) ==
  IF ind >= prev_ind THEN 2 * (ind - prev_ind) ELSE (2 * (prev_ind - ind)) + 1

(* the coefficients of all layers, each once *)
Terms(x) == Seqs!FlattenSeq([k \in DOMAIN x.l |-> x.l[k].quad])
kvec(x) ==
  LET ts == Terms(x)
      kv[k \in 0..Len(ts)] ==
        IF k = 0 THEN <<>>
        ELSE IF ts[k].v \in Seqs!ToSet(kv[k - 1]) THEN kv[k - 1]
        ELSE Append(kv[k - 1], ts[k].v)
  IN  kv[Len(ts)]
kload(x, v) == (CHOOSE k \in DOMAIN kvec(x) : kvec(x)[k] = v) - 1

(* the numbers before and after the constants *)
Header(x) ==
  <<FieldId, x.nv, x.nc, x.npub_in, x.subfield_boundary, x.ninputs, Len(x.l), Len(kvec(x))>>
LayerNumbers(x, ly) ==
  LET q == ly.quad
      Of(k, t) == LET p == IF k = 1 THEN [g |-> 0, h |-> <<0, 0>>] ELSE q[k - 1]
                  IN  <<Index(t.g, p.g), Index(t.h[1], p.h[1]), Index(t.h[2], p.h[2]), kload(x, t.v)>>
  IN  <<ly.logw, ly.nw, Len(q)>> \o Seqs!FlattenSeq([k \in DOMAIN q |-> Of(k, q[k])])
Body(x) == Seqs!FlattenSeq([k \in DOMAIN x.l |-> LayerNumbers(x, x.l[k])])
Encoded(ns) == Seqs!FlattenSeq([k \in DOMAIN ns |-> Digits(ns[k], KBytesPerSizeT)])

Fits(ns) == \A k \in DOMAIN ns : ns[k] <= KMaxValue

(* to_bytes, without the identifier *)
to_bytes(x) ==
  <<1>> \o Encoded(Header(x))
    \o Seqs!FlattenSeq([k \in DOMAIN kvec(x) |-> Digits(kvec(x)[k], EltBytes)])
    \o Encoded(Body(x))

FileInit ==
  /\ c \in Circuits /\ field_id \in FieldIds /\ enforce \in BOOLEAN
  /\ buf = <<>> /\ named = TRUE /\ pc = "write" /\ next = 0
  /\ got = NoCircuit /\ nl = 0 /\ constants = <<>> /\ table = <<>> /\ cache = <<>>
  /\ todo = 0 /\ quad = <<>> /\ prev = Origin

readerVars == <<next, got, nl, constants, table, cache, todo, quad, prev>>

Write ==
  /\ pc = "write"
  /\ IF Fits(Header(c) \o Body(c))
     THEN pc' = "deliver" /\ \E id \in 0..(Byte - 1) : buf' = to_bytes(c) \o [k \in 1..KIdSize |-> id]
     ELSE pc' = "aborted" /\ UNCHANGED buf
  /\ UNCHANGED <<c, named, field_id, enforce, readerVars>>

(* The bytes arrive: as they were, with one changed, cut or with one more. *)
Deliver ==
  /\ pc = "deliver" /\ pc' = "header"
  /\ \/ UNCHANGED <<buf, named>>
     \/ \E k \in DOMAIN buf, b \in 0..(Byte - 1) :
          /\ b # buf[k] /\ buf' = [buf EXCEPT ![k] = b]
          /\ named' = (k <= Len(buf) - KIdSize)
     \/ \E k \in 0..(Len(buf) - 1) : buf' = SubSeq(buf, 1, k) /\ named' = FALSE
     \/ \E b \in 0..(Byte - 1) : buf' = Append(buf, b) /\ UNCHANGED named
  /\ UNCHANGED <<c, field_id, enforce, readerVars>>

-----------------------------------------------------------------------------
(* Reading *)
Have(n) == Len(buf) - next >= n
Number(k, n) ==       \* n little-endian bytes after the k-th
  LET v[j \in 0..n] == IF j = 0 THEN 0 ELSE buf[k + n + 1 - j] + (Byte * v[j - 1])
  IN  v[n]
read_num(k) == Number(next + (k * KBytesPerSizeT), KBytesPerSizeT)   \* the k-th from here

read_index(delta, prev_ind) ==
  IF delta % 2 = 1 THEN (prev_ind + (SizeMax - (delta \div 2))) % SizeMax
  ELSE (prev_ind + (delta \div 2)) % SizeMax

fixed == <<c, buf, named, field_id, enforce>>
Reject == pc' = "rejected" /\ UNCHANGED <<fixed, readerVars>>

ReadHeader ==
  /\ pc = "header"
  /\ LET n(k) == Number(1 + (k * KBytesPerSizeT), KBytesPerSizeT)
     IN  IF /\ Have((8 * KBytesPerSizeT) + 1) /\ buf[1] = 1
            /\ n(0) = field_id /\ n(3) <= n(5) /\ n(4) <= n(5) /\ n(6) <= KMaxLayers
         THEN /\ got' = [nv |-> n(1), logv |-> lg(n(1)), nc |-> n(2), logc |-> lg(n(2)),
                         npub_in |-> n(3), subfield_boundary |-> n(4), ninputs |-> n(5), l |-> <<>>]
              /\ nl' = n(6) /\ todo' = n(7) /\ pc' = "constants"
              /\ next' = 1 + (8 * KBytesPerSizeT)
              /\ UNCHANGED <<fixed, constants, table, cache, quad, prev>>
         ELSE Reject

ReadConstants ==
  /\ pc = "constants"
  /\ LET v(k) == Number(next + ((k - 1) * EltBytes), EltBytes)
     IN  IF Have(todo * EltBytes) /\ \A k \in 1..todo : v(k) \in Elt
         THEN /\ constants' = [k \in 1..todo |-> v(k)] /\ next' = next + (todo * EltBytes)
              /\ todo' = 0 /\ pc' = "layer"
              /\ UNCHANGED <<fixed, got, nl, table, cache, quad, prev>>
         ELSE Reject

ReadLayer ==
  /\ pc = "layer" /\ Len(got.l) < nl
  /\ LET nq == read_num(2)
     IN  IF /\ Have(3 * KBytesPerSizeT) /\ read_num(0) <= KMaxBindings
            /\ read_num(1) > 0 /\ nq > 0 /\ Have((3 + (4 * nq)) * KBytesPerSizeT)
         THEN /\ got' = [got EXCEPT !.l = Append(@, [logw |-> read_num(0), nw |-> read_num(1), quad |-> <<>>])]
              /\ todo' = nq /\ quad' = <<>> /\ prev' = Origin
              /\ next' = next + (3 * KBytesPerSizeT) /\ pc' = "term"
              /\ UNCHANGED <<fixed, nl, constants, table, cache>>
         ELSE Reject

(* mutant: a hit in the second slot returns the entry of the first *)
dedupFirst(d) ==
  IF \E k \in DOMAIN cache : cache[k].d = d
  THEN [index |-> cache[1].index, table |-> table, cache |-> cache]
  ELSE [index |-> Len(table) + 1, table |-> Append(table, d),
        cache |-> SubSeq(<<[d |-> d, index |-> Len(table) + 1]>> \o cache, 1,
                         IF cache = <<>> THEN 1 ELSE 2)]

(* ApproximateDeltaTableBuilder::dedup: the last two differences seen are  *)
(* found again, the last one first                                         *)
dedup(d) ==
  LET front(s) == [index |-> s[1].index, table |-> table, cache |-> s]
  IN  IF cache # <<>> /\ cache[1].d = d THEN front(cache)
      ELSE IF Len(cache) = 2 /\ cache[2].d = d THEN front(<<cache[2], cache[1]>>)
      ELSE [index |-> Len(table) + 1, table |-> Append(table, d),
            cache |-> <<[d |-> d, index |-> Len(table) + 1]>>
                        \o SubSeq(cache, 1, IF cache = <<>> THEN 0 ELSE 1)]

(* the layer under construction, and the outputs of the one above it *)
ly == Len(got.l)
nw == got.l[ly].nw
max_g == Outputs(got, ly)

ReadTerm ==
  /\ pc = "term" /\ todo > 0
  /\ LET g == read_index(read_num(0), prev.g)
         hl == read_index(read_num(1), prev.hl)
         hr == read_index(read_num(2), prev.hr)
         vi == read_num(3)
         r == dedup([g |-> Wrap(g + (SizeMax - prev.g)), vi |-> vi,
                     h |-> <<Wrap(hl + (SizeMax - prev.hl)), Wrap(hr + (SizeMax - prev.hr))>>])
     IN  IF g < max_g /\ hl < nw /\ hr < nw /\ vi < Len(constants)
         THEN /\ quad' = Append(quad, r.index) /\ table' = r.table /\ cache' = r.cache
              /\ prev' = [g |-> g, hl |-> hl, hr |-> hr]
              /\ todo' = todo - 1 /\ next' = next + (4 * KBytesPerSizeT)
              /\ UNCHANGED <<fixed, pc, got, nl, constants>>
         ELSE Reject

(* the terms of a layer through the delta table and the constants *)
Deltas ==
  [k \in DOMAIN quad |->
     LET d == table[quad[k]] IN [g |-> d.g, h |-> d.h, v |-> constants[d.vi + 1]]]

EndLayer ==
  /\ pc = "term" /\ todo = 0 /\ pc' = "layer"
  /\ got' = [got EXCEPT !.l[ly].quad = iterate(Deltas)]
  /\ UNCHANGED <<fixed, next, nl, constants, table, cache, todo, quad, prev>>

(* What circuit_id hashes.  Equal names are equal hashes of equal input. *)
circuit_id(x, f) ==
  <<f, x.nv, x.logv, x.nc, x.logc, Len(x.l), x.ninputs, x.npub_in, x.subfield_boundary,
    [k \in DOMAIN x.l |-> <<x.l[k].nw, x.l[k].logw, Len(x.l[k].quad), x.l[k].quad>>]>>

(* the identifier that stands at the reader's place *)
IdIsOf(x) ==
  /\ named /\ next = Len(to_bytes(c)) /\ circuit_id(x, field_id) = circuit_id(c, FieldId)

ReadId ==
  /\ pc = "layer" /\ Len(got.l) = nl
  /\ IF Have(KIdSize) /\ (enforce => IdIsOf(got))
     THEN /\ pc' = "accepted" /\ next' = next + KIdSize
          /\ UNCHANGED <<fixed, got, nl, constants, table, cache, todo, quad, prev>>
     ELSE Reject

FileNext == Write \/ Deliver \/ ReadHeader \/ ReadConstants \/ ReadLayer \/ ReadTerm \/ EndLayer \/ ReadId
FileSpec == FileInit /\ [][FileNext]_fileVars

-----------------------------------------------------------------------------
(* A circuit that is written and arrives, with or without bytes after it,  *)
(* is read back exactly, through the signed differences, the table of      *)
(* constants and the cache of differences, if the reader has its field and *)
(* it has no more layers and bindings than the reader's limits; otherwise  *)
(* it is refused.                                                          *)
RoundTrip ==
  pc \in {"accepted", "rejected"} /\ named
    /\ SubSeq(buf, 1, Len(to_bytes(c))) = to_bytes(c)
  => LET readable == /\ field_id = FieldId /\ Len(c.l) <= KMaxLayers
                     /\ \A k \in DOMAIN c.l : c.l[k].logw <= KMaxBindings
     IN  IF readable THEN pc = "accepted" /\ got = c /\ next = Len(to_bytes(c)) + KIdSize
         ELSE pc = "rejected"

(* A reader that enforces the identifier ends up with the circuit that was *)
(* written or with none: the file as written, cut, extended, or with one   *)
(* byte changed.                                                           *)
EnforcedIdBinds == pc = "accepted" /\ enforce => got = c

(* From any of those files, checked against an identifier or not, an accepted *)
(* circuit has coefficients of the field and terms over wires there are,   *)
(* although they were checked before they were made differences, put in a  *)
(* table and added up again.                                               *)
AcceptedIsCircuit == pc = "accepted" => IsCircuit(got)

(* What a file of a circuit gives a reader: the circuit written, or a      *)
(* circuit, or a refusal.                                                  *)
FileIsTheCircuit == RoundTrip /\ EnforcedIdBinds /\ AcceptedIsCircuit
================================================================================
