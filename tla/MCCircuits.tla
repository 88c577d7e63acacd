------------------------------ MODULE MCCircuits ------------------------------
(* Four machines that do not interact, in one run: the gadgets of which    *)
(* circuits are made (Gadgets), the circuit of SHA-256 (Sha256), the       *)
(* relation of a hidden key (HiddenPk) and the circuit that parses CBOR    *)
(* (CborParser).                                                           *)
EXTENDS Gadgets

(* Gadgets: words of four bits, GF(2^4), and primes of one and two of them *)
MCFields == {[two |-> FALSE, p |-> 13], [two |-> TRUE, p |-> 0], [two |-> FALSE, p |-> 251]}
MCRoutes ==
  [T : {"elt", "bit", "vec"}, logn : {0, 1, 3}, n : {1, 3, 5, 6}, k : {1, 2, 5, 7},
   unroll : {1, 2, 3}]
MCAdders == {<<2, 1>>, <<2, 2>>, <<2, 3>>, <<1, 4>>, <<3, 1>>}

-----------------------------------------------------------------------------
(* SHA-256 of words of four bits: blocks of four words, seven rounds       *)
MCRot == <<<<1, 2, 3>>, <<1, 3, 2>>, <<1, 2, 3>>, <<2, 3, 1>>>>
MCBack == <<1, 2, 3, 4>>
MCRound == <<3, 14, 7, 9, 0, 12, 5>>
MCInitial == <<6, 11, 3, 10, 5, 9, 1, 15>>
MCMessages == {[j \in 1..n |-> ((j * j * c) + c) % 4] : n \in 0..15, c \in {0, 1}}

VARIABLES msg, max, w, how
shaVars == <<msg, max, w, how>>

H == INSTANCE Sha256 WITH
       N <- 4, K <- 4, Back <- MCBack, Rot <- MCRot, kSha256Round <- MCRound,
       initial <- MCInitial, LenBytes <- 4, MaxBlocks <- 3, Messages <- MCMessages,
       Deltas <- {1, 8}, UnpackedZero <- 0

ShaOff == msg = <<>> /\ max = 0 /\ w = [overrun |-> TRUE] /\ how = "off"

-----------------------------------------------------------------------------
(* The curves y^2 = x^3 + 6 of order 7 and y^2 = x^3 - 3 x + 1 of order 19   *)
(* over the field of 13 elements, like those of secp256k1 and P-256 in the   *)
(* coefficient a and in a 2^k above p.  The order of the second is above p,  *)
(* which that of neither real curve is: it is given no r of p or more.       *)
VARIABLES pc, role, C, key, args, wit, i, acc, exps, e, eth_addr, printed
keyVars == <<pc, role, C, key, args, wit, i, acc, exps, e, eth_addr, printed>>

K1 == [a |-> 0, b |-> 6, g |-> <<2, 1>>, n |-> 7, k |-> 4]
R1 == [a |-> 10, b |-> 1, g |-> <<0, 1>>, n |-> 19, k |-> 5]

Points(c) ==
  {p \in (0..12) \X (0..12) : (p[2] * p[2]) % 13 = ((p[1] ^ 3) + (c.a * p[1]) + c.b) % 13}

MCCommands ==
  {[C |-> K1, pkX |-> pk[1], pkY |-> pk[2], e |-> m, r |-> x, s |-> y] :
     pk \in Points(K1) \cup {<<2, 2>>, <<15, 1>>}, m \in {0, 1, 5, 7, 13, 14},
     x \in {0, 1, 2, 5, 6, 7, 15}, y \in {0, 1, 2, 3, 6, 7, 9}}
  \cup
  {[C |-> R1, pkX |-> pk[1], pkY |-> pk[2], e |-> m, r |-> x, s |-> y] :
     pk \in {<<0, 1>>, <<1, 5>>, <<4, 1>>}, m \in {0, 3, 20}, x \in {0, 1, 2, 4, 6},
     y \in {0, 1, 2, 5, 17, 18, 19}}

MCWirings ==
  {[C |-> K1, key |-> pk, R |-> p] : pk \in Points(K1) \cup {<<2, 2>>, <<0, 4>>},
                                    p \in {<<2, 1>>, <<5, 12>>, <<6, 1>>, <<5, 1>>, <<5, 2>>}}
  \cup {[C |-> R1, key |-> <<4, 1>>, R |-> <<2, 4>>]}

K == INSTANCE HiddenPk WITH P <- 13, Commands <- MCCommands, Wirings <- MCWirings

-----------------------------------------------------------------------------
(* CborParser: short documents of the bytes that begin or end an item, and *)
(* long ones whose heads are of two bytes and more or whose containers are *)
(* up to four inside one another.                                          *)
From0(s) == [k \in 0..(Len(s) - 1) |-> s[k + 1]]
Same(k, byte) == [j \in 1..k |-> byte]
MCLong ==
  {<<152, 24>> \o Same(24, 0), <<152, 25>> \o Same(24, 0), <<88, 24>> \o Same(24, 129),
   <<120, 25>> \o Same(24, 129), <<184, 2, 97, 98, 160, 24, 99, 192, 97, 98>>,
   <<0, 0, 161, 27>> \o Same(8, 255) \o <<161, 32, 129, 58>> \o Same(4, 161),
   <<129, 129, 129, 0>>, <<129, 129, 129, 129, 0>>, <<129, 129, 129, 128>>,
   <<130, 161, 0, 129, 1, 162, 161, 0, 161, 1, 2, 3, 98, 97, 98, 64>>,
   <<192, 192, 130, 192, 0, 1>>, <<192, 192, 192, 192, 0>>, <<218, 0, 0, 0, 1, 162, 0, 1, 2, 3>>}
MCSmall == {0, 24, 65, 97, 129, 152, 160, 161, 192, 245}
MCParsed ==
  {[bytes |-> From0(s), len |-> l] : s \in UNION {[1..k -> MCSmall] : k \in 1..3}, l \in 2..4}
  \cup {[bytes |-> From0(s), len |-> Len(s)] : s \in MCLong}
MCBytes ==
  {From0(s) : s \in [1..3 -> {0, 24, 97, 129, 160, 161, 192, 245}] \cup
   {<<0, 161, 0, 1>>, <<161, 0, 1, 2, 3>>, <<161, 97, 1, 161, 2, 3>>, <<0, 161, 130, 1, 2, 3>>,
    <<0, 131, 160, 1, 2>>, <<0, 162, 97, 98, 160, 97, 99, 129, 3>>, <<0, 161, 161, 1, 2, 161, 3, 4>>,
    <<0, 0, 162, 97, 99, 161, 1, 2, 3, 192, 97, 98>>, <<0, 129, 129, 129, 0>>, <<129, 129, 129, 0>>,
    <<129, 129, 129, 129, 0>>}}

VARIABLES in, input_len, pw, stage
parserVars == <<in, input_len, pw, stage>>

C2 == INSTANCE CborParser WITH
        kNCounters <- 4, Documents <- MCParsed, Inputs <- MCBytes,
        Strings <- {<<>>, <<1>>, <<98>>}

ParserOff == in = <<>> /\ input_len = 0 /\ pw = <<>> /\ stage = "off"

-----------------------------------------------------------------------------
GadgetOff == f_ = <<>> /\ call = [op |-> "off"] /\ out = <<>>
KeyOff ==
  /\ pc = "off" /\ role = "off" /\ C = <<>> /\ key = <<>> /\ args = <<>> /\ wit = <<>>
  /\ i = 0 /\ acc = <<>> /\ exps = <<>> /\ e = <<>> /\ eth_addr = <<>> /\ printed = <<>>

MCInit ==
  \/ K!Init /\ GadgetOff /\ ShaOff /\ ParserOff
  \/ KeyOff /\ Init /\ ShaOff /\ ParserOff
  \/ KeyOff /\ GadgetOff /\ H!Init /\ ParserOff
  \/ KeyOff /\ GadgetOff /\ ShaOff /\ C2!Init
Idle == UNCHANGED <<keyVars, shaVars, parserVars>>
MCNext ==
  \/ (Gate /\ Idle) \/ (Vector /\ Idle) \/ (Select /\ Idle) \/ (Move /\ Idle)
  \/ (AsScalar /\ Idle) \/ (AddSub /\ Idle) \/ (Multiply /\ Idle) \/ (Compare /\ Idle)
  \/ (CompareBytes /\ Idle) \/ (UnaryDecode /\ Idle) \/ (Prefix /\ Idle) \/ (Reduction /\ Idle)
  \/ (OneHot /\ Idle) \/ (Assertion /\ Idle) \/ (Route /\ Idle) \/ (PolyEval /\ Idle)
  \/ (Pluck /\ Idle) \/ (Count /\ Idle) \/ (AddMany /\ Idle) \/ (Mac /\ Idle)
  \/ K!Next /\ UNCHANGED <<vars, shaVars, parserVars>>
  \/ H!Next /\ UNCHANGED <<vars, keyVars, parserVars>>
  \/ C2!Next /\ UNCHANGED <<vars, keyVars, shaVars>>
MCSpec == MCInit /\ [][MCNext]_<<vars, keyVars, shaVars, parserVars>>

(* A proof means a signature under the key of the address: see HiddenPk *)
AcceptedIsRelation == K!AcceptedIsRelation
(* The command proves what it can: see HiddenPk *)
CommandIsExact == K!CommandIsExact
(* An accepted hash is that of the padded message: see Sha256 *)
ShaProvesPreimage == H!ShaProvesPreimage
(* The parser takes complete documents, and no witness makes it see other *)
(* items than the document has: see CborParser                            *)
ParserIsExact == C2!HonestIsParsed /\ C2!StatedIsInPair /\ C2!ReadIsTheItem
(* The pair of a map is stated by the headers of its key and value: see CborParser *)
EntryIsThePair == C2!EntryIsThePair
================================================================================
