------------------------------- MODULE Sha256 --------------------------------
(***************************************************************************)
(* FlatSHA256Witness and FlatSHA256Circuit (lib/circuits/sha): the message *)
(* padded to max blocks, every word of the schedule and every e and a of   *)
(* the rounds as witnesses, and the relation the circuit states of them.   *)
(*                                                                         *)
(* Words have N bits in two bytes and blocks K words, sixteen in the code; *)
(* wires are their values.  Packing and the sum gadget are in Gadgets.     *)
(*                                                                         *)
(* A behaviour hashes one message, then changes one thing of the witness.  *)
(***************************************************************************)
EXTENDS Integers, Sequences, FiniteSets, Bitwise, Loops

CONSTANTS N,           \* bits of a word, even
          K,           \* words of a block, at least four
          Back,        \* the words a word of the schedule is made of, from it back
          Rot,         \* the rotations of Sigma0, Sigma1, sigma0, sigma1
          kSha256Round,\* a constant for every round
          initial,     \* H before the first block, eight words
          LenBytes,    \* bytes of the length of the message, two words in the code
          MaxBlocks,
          Messages,    \* sequences of bytes
          Deltas,      \* what is added to a changed word
          UnpackedZero \* the word that the packed zero unpacks to

VARIABLES msg,   \* the message
          max,   \* blocks there is room for
          w,     \* [in, numb, bw, target], none, or overrun
          how    \* "start", "honest" or what was changed

vars == <<msg, max, w, how>>

R == Len(kSha256Round)
Word == 2 ^ N
Byte == 2 ^ (N \div 2)
BlockBytes == 2 * K

-----------------------------------------------------------------------------
(* The functions of the witness; the circuit has the same on bit vectors.  *)

shr(x, b) == x \div (2 ^ b)
rotr(x, b) == (x \div (2 ^ b)) + ((x * (2 ^ (N - b))) % Word)
xor3(x, y, z) == (x ^^ y) ^^ z
Ch(x, y, z) == (x & y) ^^ ((Word - 1 - x) & z)
Maj(x, y, z) == xor3(x & y, x & z, y & z)
Sigma0(x) == xor3(rotr(x, Rot[1][1]), rotr(x, Rot[1][2]), rotr(x, Rot[1][3]))
Sigma1(x) == xor3(rotr(x, Rot[2][1]), rotr(x, Rot[2][2]), rotr(x, Rot[2][3]))
sigma0(x) == xor3(rotr(x, Rot[3][1]), rotr(x, Rot[3][2]), shr(x, Rot[3][3]))
sigma1(x) == xor3(rotr(x, Rot[4][1]), rotr(x, Rot[4][2]), shr(x, Rot[4][3]))

(* The K words of block bl, the first byte on top *)
ru32be(in, bl) == Array(K, LAMBDA j : (in[(bl * BlockBytes) + (2 * j)] * Byte)
                                      + in[(bl * BlockBytes) + (2 * j) + 1])

-----------------------------------------------------------------------------
(* FlatSHA256Witness                                                       *)

NextWord(v, j) ==
  sigma1(v[j - Back[1]]) + v[j - Back[2]] + sigma0(v[j - Back[3]]) + v[j - Back[4]]

schedule(data) == For(R - K, data, LAMBDA j, v : v @@ (K + j :> NextWord(v, K + j) % Word))

T1(e, f, g, h, t, wt) == h + Sigma1(e) + Ch(e, f, g) + kSha256Round[t + 1] + wt
T2(a, b, c) == Sigma0(a) + Maj(a, b, c)

(* s = <<a, ..., h>> with the e and a of the rounds so far *)
round(t, r, wt) ==
  LET s  == r.s
      t1 == T1(s[5], s[6], s[7], s[8], t, wt)
      e  == (s[4] + t1) % Word
      a  == (t1 + T2(s[1], s[2], s[3])) % Word
  IN  [s |-> <<a, s[1], s[2], s[3], e, s[5], s[6], s[7]>>,
       oute |-> Append(r.oute, e), outa |-> Append(r.outa, a)]

transform_and_witness_block(data, H0) ==
  LET v == schedule(data)
      r == For(R, [s |-> H0, oute |-> <<>>, outa |-> <<>>], LAMBDA t, x : round(t, x, v[t]))
  IN  [outw |-> [j \in 1..(R - K) |-> v[K + j - 1]], oute |-> r.oute, outa |-> r.outa,
       h1 |-> [j \in 1..8 |-> (H0[j] + r.s[j]) % Word]]

(* The message, a bit 1, zeros up to the length, and the length in bits.   *)
(* When the length does not fit behind the bit it goes to the next block.  *)
padded(m) ==
  LET ii   == Len(m) + 1
      room == BlockBytes - LenBytes
      next == BlockBytes * (ii \div BlockBytes)
      end  == IF ii % BlockBytes = 0 THEN ii + room
              ELSE IF ii % BlockBytes > room THEN next + BlockBytes + room ELSE next + room
  IN  m \o <<Byte \div 2>> \o [j \in 1..(end - ii) |-> 0]
        \o [j \in 1..LenBytes |-> ((Len(m) * (N \div 2)) \div (Byte ^ (LenBytes - j))) % Byte]

blocks_witness(in, n) ==
  For(n, <<>>, LAMBDA bl, bw :
        Append(bw, transform_and_witness_block(ru32be(in, bl),
                                               IF bl = 0 THEN initial ELSE bw[bl].h1)))

(* numb, in and the witnesses; nobody looks whether the padded message is *)
(* longer than the array it is written to                                  *)
numb(m) == (Len(m) + LenBytes + 1 + BlockBytes - 1) \div BlockBytes

transform_and_witness_message(m, n) ==
  LET p  == padded(m)
      in == Array(BlockBytes * n, LAMBDA j : IF j < Len(p) THEN p[j + 1] ELSE 0)
  IN  IF Len(p) > BlockBytes * n THEN [overrun |-> TRUE]
      ELSE LET bw == blocks_witness(in, n)
           IN  [overrun |-> FALSE, in |-> in, numb |-> numb(m), bw |-> bw,
                target |-> bw[numb(m)].h1]

-----------------------------------------------------------------------------
(* FlatSHA256Circuit.  assert_eqmod: the sum is a plus less than k carries. *)

assert_eqmod(a, sum, k) == \E c \in 0..(k - 1) : sum = a + (c * Word)

(* a and e before round 0 are the words of H0 *)
A(H0, b, t) == IF t < 0 THEN H0[-t] ELSE b.outa[t + 1]
E(H0, b, t) == IF t < 0 THEN H0[4 - t] ELSE b.oute[t + 1]

assert_transform_block(data, H0, b) ==
  LET v == data @@ [j \in K..(R - 1) |-> b.outw[j - K + 1]]
      t1(t) == T1(E(H0, b, t - 1), E(H0, b, t - 2), E(H0, b, t - 3), E(H0, b, t - 4), t, v[t])
  IN  /\ \A j \in K..(R - 1) : assert_eqmod(v[j], NextWord(v, j), 4)
      /\ \A t \in 0..(R - 1) :
           /\ assert_eqmod(E(H0, b, t), t1(t) + A(H0, b, t - 4), 6)
           /\ assert_eqmod(A(H0, b, t),
                           t1(t) + T2(A(H0, b, t - 1), A(H0, b, t - 2), A(H0, b, t - 3)), 7)
      /\ \A j \in 1..4 : /\ assert_eqmod(b.h1[j], H0[j] + A(H0, b, R - j), 2)
                         /\ assert_eqmod(b.h1[4 + j], H0[4 + j] + E(H0, b, R - j), 2)

(* mutant: bytes behind the message are looked at from the block after next *)
assert_zero_paddingLate(n, nb, in) ==
  \A j \in 0..((BlockBytes * n) - 1) : nb < j \div BlockBytes => in[j] = 0

assert_zero_padding(n, nb, in) ==
  \A j \in 0..((BlockBytes * n) - 1) : nb <= j \div BlockBytes => in[j] = 0

assert_message(n, nb, in, bw) ==
  /\ \A b \in 0..(n - 1) :
       assert_transform_block(ru32be(in, b), IF b = 0 THEN initial ELSE bw[b].h1, bw[b + 1])
  /\ assert_zero_padding(n, nb, in)

(* The packed words of block nb, as a sum of products with 0 or 1: without *)
(* such a block the sum is zero.                                           *)
assert_hash(n, target, nb, bw) ==
  target = IF nb \in 1..n THEN bw[nb].h1 ELSE [j \in 1..8 |-> UnpackedZero]

assert_message_hash(n, nb, in, target, bw) ==
  assert_message(n, nb, in, bw) /\ assert_hash(n, target, nb, bw)

(* The last bytes of block nb, or nothing *)
find_len(n, in, nb) ==
  IF nb \notin 1..n THEN 0
  ELSE For(LenBytes, 0, LAMBDA j, len : (len * Byte) + in[(nb * BlockBytes) - LenBytes + j])

-----------------------------------------------------------------------------
Init == msg \in Messages /\ max \in 1..MaxBlocks /\ w = <<>> /\ how = "start"

Witness ==
  /\ how = "start"
  /\ w' = transform_and_witness_message(msg, max)
  /\ how' = "honest"
  /\ UNCHANGED <<msg, max>>

Honest == how = "honest" /\ ~w.overrun
Change(what, new) == how' = what /\ w' = new /\ UNCHANGED <<msg, max>>

(* One byte, and the witnesses as they were or those of the new bytes *)
ChangeByte ==
  /\ Honest
  /\ \E j \in DOMAIN w.in, again \in BOOLEAN :
       \E in \in {[w.in EXCEPT ![j] = (@ + 1) % Byte]} :
         Change("byte", [w EXCEPT !.in = in,
                                  !.bw = IF again THEN blocks_witness(in, max) ELSE @])

(* One word of a block; the blocks that follow as they were or made anew *)
ChangeWord ==
  /\ Honest
  /\ \E b \in 1..max, part \in {"outw", "oute", "outa", "h1"}, again \in BOOLEAN, d \in Deltas :
       \E j \in DOMAIN w.bw[b][part] :
         \E bw \in {[w.bw EXCEPT ![b][part][j] = (@ + d) % Word]} :
           Change("word",
             [w EXCEPT !.bw =
                For(IF again THEN max - b ELSE 0, bw, LAMBDA l, x :
                      [x EXCEPT ![b + l + 1] =
                         transform_and_witness_block(ru32be(w.in, b + l), x[b + l].h1)])])

(* Another block is said to be the last, with its hash or without *)
ChangeLast ==
  /\ Honest
  /\ \E nb \in 0..(max + 1), h \in 1..max :
       Change("last", [w EXCEPT !.numb = nb, !.target = w.bw[h].h1])

Next == Witness \/ ChangeByte \/ ChangeWord \/ ChangeLast

Spec == Init /\ [][Next]_vars

-----------------------------------------------------------------------------
(* The hash of whole blocks as the standard has it: a round is a function  *)
(* of the state, the state is added to the hash                            *)
Compress(H, data) ==
  LET v[j \in 0..(R - 1)] == IF j < K THEN data[j] ELSE NextWord(v, j) % Word
      s[t \in 0..R] ==
        IF t = 0 THEN H
        ELSE LET p  == s[t - 1]
                 t1 == p[8] + Sigma1(p[5]) + Ch(p[5], p[6], p[7]) + kSha256Round[t] + v[t - 1]
             IN  <<(t1 + Sigma0(p[1]) + Maj(p[1], p[2], p[3])) % Word, p[1], p[2], p[3],
                   (p[4] + t1) % Word, p[5], p[6], p[7]>>
  IN  [j \in 1..8 |-> (H[j] + s[R][j]) % Word]

Hash(in, nb) == For(nb, initial, LAMBDA b, H : Compress(H, ru32be(in, b)))

(***************************************************************************)
(* Whatever witnesses are given, the circuit accepts a block that exists   *)
(* as the last only with the hash of the blocks up to it and with zeros    *)
(* after it; it accepts the witnesses that the prover makes.               *)
(***************************************************************************)
HashBindsPreimage ==
  how # "start" /\ ~w.overrun =>
    LET accepted == assert_message_hash(max, w.numb, w.in, w.target, w.bw)
    IN  /\ how = "honest" => accepted
        /\ how = "word" => ~accepted
        /\ w.numb \in 1..max /\ accepted =>
             /\ w.target = Hash(w.in, w.numb)
             /\ \A j \in DOMAIN w.in : j >= w.numb * BlockBytes => w.in[j] = 0

(***************************************************************************)
(* The padded message ends with block numb, where the circuit finds its    *)
(* length in bits, and gives the message back; it is written past the end  *)
(* of the array just when the message with a bit and a length does not fit.*)
(***************************************************************************)
PaddingIsParsed ==
  how = "honest" =>
    /\ w.overrun <=> Len(msg) + 1 + LenBytes > max * BlockBytes
    /\ ~w.overrun =>
         /\ find_len(max, w.in, w.numb) = Len(msg) * (N \div 2)
         /\ \A j \in 0..(Len(msg) - 1) : w.in[j] = msg[j + 1]
         /\ w.in[Len(msg)] = Byte \div 2
         /\ \A j \in DOMAIN w.in :
              j > Len(msg) /\ w.in[j] # 0 =>
                j \in ((w.numb * BlockBytes) - LenBytes)..((w.numb * BlockBytes) - 1)

(* An accepted hash is that of the padded message, and only of it.         *)
ShaProvesPreimage == HashBindsPreimage /\ PaddingIsParsed
=============================================================================
