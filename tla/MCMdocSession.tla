--------------------------- MODULE MCMdocSession ---------------------------
(* Three machines that do not interact, in one run: the session of wallet  *)
(* and reader (MdocSession), the decoder of the documents (HostDecoder),   *)
(* and the hash circuit with its witness (MdocHash).                       *)
EXTENDS MdocSession

(* MdocSession: an honest wallet and reader, and every single deviation of *)
(* either from it, for circuits of one and two attributes of versions 6    *)
(* and 7.                                                                  *)
MCLogw == [c \in {"hash", "sig"} |-> IF c = "hash" THEN <<1, 2>> ELSE <<1>>]
MCWitnesses == [c \in {"hash", "sig"} |-> 5]
MCBlockW == [r \in {128, 132} |-> IF r = 128 THEN 4 ELSE 3]

Attr(id, value) ==
  [ns |-> "iso", id |-> id, value |-> value, long |-> FALSE, cbor |-> TRUE]

Mdoc == [parse |-> TRUE, big |-> FALSE,
         attrs |-> << <<"name", "a">>, <<"age", "b">> >>, valid |-> {"today"},
         issuer |-> "key", docType |-> "mDL", tr |-> "session"]

Wanted(n) == IF n = 1 THEN <<Attr("name", "a")>>
                      ELSE <<Attr("name", "a"), Attr("age", "b")>>

(* The attributes a caller may pass instead *)
OtherAttrs(n) ==
  {Wanted(3 - n), <<>>,
   <<Attr("name", "a"), Attr("name", "a"), Attr("age", "b")>>,
   <<Attr("name", "a"), Attr("age", "b"), [Attr("age", "b") EXCEPT !.long = TRUE]>>}
  \union {[Wanted(n) EXCEPT ![1].value = "x"], [Wanted(n) EXCEPT ![1].id = "height"],
          [Wanted(n) EXCEPT ![1].long = TRUE], [Wanted(n) EXCEPT ![1].cbor = FALSE],
          [Wanted(n) EXCEPT ![n].ns = "aamva"]}

Specs == {3, 5, 6, 7}
Circuits == [n : {1, 2}, v : {6, 7}, bytes : {"good"}]
Broken == [n : {1}, v : {7}, bytes : {"corrupt", "no sig", "no hash"}]

Wallet(c) ==
  [circuit |-> c, spec |-> c.v, mdoc |-> Mdoc, pk |-> "key", tr |-> "session",
   attrs |-> Wanted(c.n), now |-> "today", null |-> FALSE, alloc |-> TRUE]

OtherMdocs ==
  {[Mdoc EXCEPT !.parse = FALSE], [Mdoc EXCEPT !.big = TRUE],
   [Mdoc EXCEPT !.issuer = "other"], [Mdoc EXCEPT !.tr = "other"],
   [Mdoc EXCEPT !.docType = "other"],
   [Mdoc EXCEPT !.attrs = << <<"name", "x">>, <<"name", "a">>, <<"age", "b">> >>]}

Deviations(call) ==
  {call}
  \union {[call EXCEPT !.null = TRUE]}
  \union {[call EXCEPT !.pk = k] : k \in {"unparsable", "other"}}
  \union {[call EXCEPT !.tr = "other"]}
  \union {[call EXCEPT !.now = "tomorrow"]}
  \union {[call EXCEPT !.spec = s] : s \in Specs}
  \union {[call EXCEPT !.circuit = c] : c \in Circuits \union Broken}
  \union {[call EXCEPT !.attrs = a] : a \in OtherAttrs(call.circuit.n)}

MCProverCalls ==
  UNION {Deviations(Wallet(c))
         \union {[Wallet(c) EXCEPT !.mdoc = m] : m \in OtherMdocs}
         \union {[Wallet(c) EXCEPT !.alloc = FALSE]} : c \in Circuits}

Reader(call) ==
  [circuit |-> call.circuit, spec |-> call.spec, pk |-> call.pk, tr |-> call.tr,
   attrs |-> call.attrs, now |-> call.now, docType |-> call.mdoc.docType,
   null |-> FALSE, small |-> FALSE]

MCVerifierCalls(call) ==
  Deviations(Reader(call))
  \union {[Reader(call) EXCEPT !.docType = "another"],
          [Reader(call) EXCEPT !.small = TRUE]}

(* The wallet's proof, changed: without MACs, in one field of one circuit,  *)
(* with a commitment to another document or to other MAC keys, with both    *)
(* commitments replaced, or with the two circuits exchanged.                *)
Forger(m, ap) == [m |-> m, ap |-> ap]
OtherDoc == [Mdoc EXCEPT !.issuer = "other", !.attrs = << <<"name", "x">>, <<"age", "b">> >>]

Changed(proof) ==
  {[proof EXCEPT !.macs = Zero],
   [proof EXCEPT !["hash"] = proof["sig"], !["sig"] = proof["hash"]],
   [proof EXCEPT !["hash"].root = Root("hash", Forger(OtherDoc, "ap")),
                 !["sig"].root = Root("sig", Forger(OtherDoc, "ap"))]}
  \union {[proof EXCEPT ![c][f] = <<"other", c>>] : c \in Circ, f \in {"poly", "wc", "y", "req"}}
  \union {[proof EXCEPT ![c].root = Root(c, w)] :
            c \in Circ, w \in {Forger(OtherDoc, "ap"), Forger(Mdoc, "other")}}

(* The proof of another holder for this reader, who commits to w["hash"] in  *)
(* one circuit and to w["sig"] in the other, answers what is drawn then and  *)
(* gives the MACs of one of the two.                                         *)
Forged(r, w, macsOf) ==
  LET start == After(NewTranscript(r.tr), WriteCommitment(Root("hash", w["hash"]))
                                          \o WriteCommitment(Root("sig", w["sig"])))
      key == GenerateMacKey(start)
      macs == Macs(key, w[macsOf].ap, Common(w[macsOf].m))
      Stated(c, ts) ==
        After(ts, InitializeSumcheck(c, r.circuit, Public(c, r, <<r.tr, r.docType>>, macs, key)))
      Replayed(c, ts) == After(Stated(c, ts), VerifierConstraints(c, Polys(c)))
      Opening(c) == LigeroProve(c, NReq(r.spec), Responses(c))
      Part(c, ts) ==
        LET con == Answers(Stated(c, ts), ReplayLayers(c, Polys(c)))
        IN [root |-> Root(c, w[c]), poly |-> Polys(c).poly, wc |-> Polys(c).wc,
            y |-> Responses(c), req |-> Columns(c), sumcheck |-> con, constraints |-> con,
            ligero |-> Answers(Replayed(c, ts), Opening(c))]
      drawn == After(start, <<Draw(1)>>)
  IN [macs |-> macs, hash |-> Part("hash", drawn),
      sig |-> Part("sig", After(Replayed("hash", drawn), Opening("hash")))]

Committed == {Forger(Mdoc, "other"), Forger(OtherDoc, "ap"), Forger(OtherDoc, "other")}
MCForged(r) ==
  {Forged(r, [hash |-> h, sig |-> s], c) : h \in Committed, s \in Committed, c \in Circ}

MCArrivals(proof, r) ==
  {AsBytes(f, r, proof) : f \in Framings}
  \union {AsBytes("whole", r, q) : q \in Changed(proof) \union MCForged(r)}

-----------------------------------------------------------------------------
(* HostDecoder: trees of depth three in every width, and every three bytes *)
(* of those that begin an item or end one.                                 *)
Leaf(t, n, s) == [t |-> t, n |-> n, s |-> s, kids |-> <<>>]
Tree(t, n, kids) == [t |-> t, n |-> n, s |-> <<>>, kids |-> kids]
Text(s) == Leaf("TEXT", 0, s)
Uint(n) == Leaf("UNSIGNED", n, <<>>)
Bytes(s) == Leaf("BYTES", 0, s)
k1 == <<107>>
k2 == <<107, 107>>

MCKeys == {Text(k1), Text(k2), Uint(1), Leaf("NEGATIVE", -1, <<>>), Bytes(k1)}
MCValues ==
  {Uint(n) : n \in {0, 23, 24, 255, 256, 65535, 65536}}
  \union {Leaf("NEGATIVE", -1, <<>>), Bytes(<<>>), Bytes(<<0, 24>>), Text(k1), Text(k2),
          Leaf("PRIMITIVE", 20, <<>>), Leaf("PRIMITIVE", 22, <<>>), Tree("ARRAY", 0, <<>>),
          Tree("TAG", 24, <<Bytes(<<130, 1>>)>>), Tree("ARRAY", 2, <<Text(k1), Uint(300)>>)}
  \union {Tree("TAG", 5, <<x>>) : x \in {Text(k1), Text(k2), Uint(1)}}
MCTrees ==
  MCValues
  \union {Tree("MAP", 1, <<k, x>>) : k \in MCKeys, x \in MCValues}
  \union {Tree("MAP", 2, <<k, x, l, Text(k2)>>) : k \in MCKeys, l \in MCKeys, x \in MCValues}
  \union {Tree("ARRAY", 2, <<x, Tree("MAP", 1, <<Text(k1), x>>)>>) : x \in MCValues}
MCBytes == {0, 1, 22, 24, 25, 26, 27, 32, 65, 97, 98, 107, 128, 129, 130, 161, 193, 197, 244,
            247, 248}
MCInputs == UNION {[1..l -> MCBytes] : l \in 0..3}

VARIABLES in, offset, meant, root, query, found
decoderVars == <<in, offset, meant, root, query, found>>

HD == INSTANCE HostDecoder WITH
        Inputs <- MCInputs, Trees <- MCTrees, Keys <- {k1, k2, <<>>}, Numbers <- {0, 1, 2},
        Offsets <- {0, 3}, kDateTag <- 5, kDateLen <- 2

-----------------------------------------------------------------------------
(* MdocHash: identifiers and values whose headers are of one and two bytes, *)
(* the pairs in every order, random bytes and values that look like pairs.  *)
Copies(n, byte) == [j \in 1..n |-> byte]
AllOrders == {o \in [1..4 -> 1..4] : \A j, k \in 1..4 : j # k => o[j] # o[k]}
Item(n, r, id, value, o) ==
  [digestID |-> n, random |-> r, id |-> id, value |-> value, order |-> o]
Document(i, j, l) == [items |-> <<i, j>>, from |-> 2, until |-> 5, dpk |-> 60, layout |-> l]

R16 == Copies(16, 9)
Yes == Leaf("PRIMITIVE", 21, <<>>)
Mimic == <<113>> \o Copies(17, 105) \o <<97, 99>>        \* the pair of an identifier
MimicValue == <<108>> \o Copies(12, 118) \o <<245>>      \* and of a value
Second == Item(300, R16, <<98>>, Leaf("PRIMITIVE", 20, <<>>), <<1, 2, 3, 4>>)

Plain ==
  {Document(Item(7, R16, id, value, o), Second, "usual") :
     id \in {<<97>>, Copies(23, 97), Copies(30, 97)}, o \in AllOrders,
     value \in {Yes, Uint(5), Uint(30), Text(Copies(17, 97)), Text(Copies(25, 97)),
               Tree("TAG", 1004, <<Text(Copies(10, 48))>>)}}
Mimics ==
  {Document(Item(24, r, <<97>>, value, o), Second, "usual") :
     r \in {R16, Mimic, Copies(2, 104)}, value \in {Yes, Text(Mimic), Text(MimicValue)},
     o \in {<<1, 2, 3, 4>>, <<4, 3, 2, 1>>, <<1, 3, 2, 4>>, <<1, 4, 2, 3>>}}
MCDocuments ==
  Plain \union Mimics
  \union {Document(Item(7, R16, <<97>>, Yes, <<1, 2, 3, 4>>), Second, l) : l \in {"late", "swapped"}}
  \union {Document(Second, Item(7, R16, <<97>>, Tree("ARRAY", 0, <<>>), <<1, 2, 3, 4>>), "usual")}
MCCheated ==
  {Document(Item(24, r, <<97>>, value, o), Second, "usual") :
     r \in {R16, Mimic}, value \in {Yes, Text(MimicValue)}, o \in {<<1, 3, 2, 4>>, <<1, 4, 2, 3>>}}

Asked(id, value, d) == [id |-> id, value |-> value, now |-> d]
MCRequests(d) ==
  {Asked(j.id, HD!Write(j.value, 0), 3) : j \in {d.items[1], d.items[2]}}
  \union {Asked(<<97>>, <<245>>, n) : n \in {1, 2, 5, 6}}
  \union {Asked(<<99>>, <<245>>, 3), Asked(<<97>>, <<244>>, 3)}

VARIABLES doc, signed, req, hashWit, stage
hashVars == <<doc, signed, req, hashWit, stage>>

M == INSTANCE MdocHash WITH
       Documents <- MCDocuments, Requests <- MCRequests, Cheated <- MCCheated, Strange <- {127},
       Orders <- AllOrders \union {<<1, 1, 3, 4>>, <<1, 2, 2, 2>>, <<3, 2, 3, 4>>, <<1, 2, 4, 4>>},
       wit <- hashWit

-----------------------------------------------------------------------------
SessionOff ==
  /\ pc = "off" /\ p = None /\ v = None /\ retP = None /\ retV = None
  /\ tp = None /\ tv = None /\ wit = None /\ pub = None
  /\ zk = NoProof /\ sent = NoProof /\ got = NoProof /\ av = None /\ tst = None
  /\ arrived = [framing |-> None, circuit |-> None, spec |-> None] /\ ok = [c \in Circ |-> FALSE]
DecoderOff ==
  /\ in = <<>> /\ offset = -1 /\ meant = HD!none /\ root = HD!Failed
  /\ query = HD!Ask("off", 0) /\ found = -1
HashOff == doc = <<>> /\ signed = <<>> /\ req = <<>> /\ hashWit = <<>> /\ stage = "off"

MCInit ==
  \/ Init /\ DecoderOff /\ HashOff
  \/ SessionOff /\ HD!Init /\ HashOff
  \/ SessionOff /\ DecoderOff /\ M!Init
MCNext ==
  \/ Next /\ UNCHANGED <<decoderVars, hashVars>>
  \/ HD!Next /\ UNCHANGED <<vars, hashVars>>
  \/ M!Next /\ UNCHANGED <<vars, decoderVars>>
MCSpec == MCInit /\ [][MCNext]_<<vars, decoderVars, hashVars>>

(* Decoding inverts writing, what is refused is not an item, and a lookup  *)
(* finds the value of the key in the bytes: see HostDecoder                *)
DecoderIsExact == HD!DecodeIsExact /\ HD!FoundIsTheValue
(* What a proof opens is what the issuer signed: see MdocHash *)
OpenedIsSigned == M!OpenedIsSigned
(* Identifiers of every length can be proved: see MdocHash *)
EveryNameCanBeProved == M!EveryNameCanBeProved
=============================================================================
