------------------------------ MODULE ProofIO ------------------------------
(***************************************************************************)
(* Serialisation of a proof (src/lib/zk/zk_proof.h): ZkProof::write()      *)
(* appends a commitment, the sumcheck polynomials and the Ligero proof to  *)
(* a byte buffer; the buffer travels; ZkProof::read() parses what arrives, *)
(* bounds-checking every section before it reads it (util/readbuffer.h).   *)
(* The opened columns are run-length encoded: runs of full-field elements  *)
(* and of subfield elements alternate, starting with a full-field run.     *)
(*                                                                         *)
(* Bytes are digits in base Byte.  An element is a natural below Modulus,  *)
(* the subfield is the naturals below SubSize; not every string of         *)
(* EltBytes bytes is an element.  Digests and nonces are opaque bytes.     *)
(***************************************************************************)
EXTENDS Naturals, Sequences, FiniteSets, SequencesExt

CONSTANTS
  Byte,          \* the values of a byte are 0..Byte-1
  EltBytes,      \* Field::kBytes
  SubBytes,      \* Field::kSubFieldBytes
  Modulus,       \* number of field elements
  SubSize,       \* number of subfield elements
  DigestBytes,   \* Digest::kLength
  NonceBytes,    \* MerkleNonce::kLength
  SizeBytes,     \* bytes of a length, 4 in the code
  MaxRunLen,     \* kMaxRunLen
  MaxNumDigests, \* kMaxNumDigests
  Logw,          \* c.l[i].logw, one entry per layer
  Block, R, NReq, NRow, PathLen,   \* LigeroParam
  Proofs,        \* the proofs a prover may send
  Arrivals(_)    \* what may arrive where these bytes were written

ASSUME WidthsAssumption ==
  /\ Byte \in Nat \ {0} /\ MaxRunLen \in Nat \ {0} /\ MaxNumDigests \in Nat
  /\ {EltBytes, SubBytes, DigestBytes, NonceBytes, SizeBytes} \subseteq Nat
ASSUME ParamAssumption ==
  /\ Block \in Nat \ {0} /\ {R, NReq, NRow, PathLen} \subseteq Nat
  /\ Logw = [i \in 1..Len(Logw) |-> Logw[i]]
  /\ Len(Logw) \in Nat /\ \A i \in 1..Len(Logw) : Logw[i] \in Nat

DBlock == 2 * Block - 1
NL == Len(Logw)
Cells == NReq * NRow

VARIABLES
  pc,       \* what runs: write, deliver, read, accepted, rejected, aborted
  section,  \* the section that comes next, an index of Sections
  proof,    \* the prover's proof
  buf,      \* the bytes written, then the bytes received
  altered,  \* the bytes received are not the bytes written
  next,     \* ReadBuffer::next_
  ci,       \* opened cells written or read
  sub,      \* subfield_run
  got       \* the verifier's proof

vars == <<pc, section, proof, buf, altered, next, ci, sub, got>>

-----------------------------------------------------------------------------
(* Bytes *)

(* what g >>= 8 leaves of v each time *)
Shifted(v, n) ==
  LET rest[j \in 0..n] == IF j = 0 THEN v ELSE rest[j - 1] \div Byte IN rest

(* n little-endian bytes of v; higher bytes are lost, as in write_size *)
ToBytes(v, n) == [j \in 1..n |-> Shifted(v, n)[j - 1] % Byte]

(* n bytes are enough for v *)
Fits(v, n) == Shifted(v, n)[n] = 0

OfBytes(s) == FoldRight(LAMBDA d, acc : d + Byte * acc, s, 0)

(* the bytes of a list of things that all take n bytes *)
Pack(list, n) == FlattenSeq([k \in DOMAIN list |-> ToBytes(list[k], n)])

(* cnt things of n bytes each, from position p of the buffer *)
Unpack(p, cnt, n) ==
  [k \in 1..cnt |-> OfBytes(SubSeq(buf, p + (k - 1) * n + 1, p + k * n))]

(* ReadBuffer::have *)
Have(n) == Len(buf) - next >= n

-----------------------------------------------------------------------------
(* Elements take EltBytes bytes, those of the subfield SubBytes; a length  *)
(* below the limits of read() fits the bytes write_size() gives it.        *)
Elt == 0..(Modulus - 1)

ASSUME EltAssumption ==
  /\ Modulus \in Nat \ {0} /\ SubSize \in 0..Modulus
  /\ \A v \in Elt : Fits(v, EltBytes)
  /\ \A v \in 0..(SubSize - 1) : Fits(v, SubBytes)
ASSUME LimitsAssumption ==
  /\ \A n \in 0..(MaxRunLen - 1) : Fits(n, SizeBytes)
  /\ \A n \in 0..(MaxNumDigests - 1) : Fits(n, SizeBytes)

(* A layer is its polynomials and the two claims that end it. *)
Hands == 0..1
Poly == 0..2
LayerCells(i) == 4 * Logw[i] + 2
LayerProof(i) ==
  [hp : [1..Logw[i] -> [Hands -> [Poly -> Elt]]], wc : [Hands -> Elt]]

(* A proof with vectors of the sizes of the parameters and elements of the *)
(* field                                                                   *)
IsProof(p) ==
  /\ p = [root |-> p.root, l |-> p.l, y_ldt |-> p.y_ldt, y_dot |-> p.y_dot,
          y_quad_0 |-> p.y_quad_0, y_quad_2 |-> p.y_quad_2,
          nonce |-> p.nonce, req |-> p.req, path |-> p.path]
  /\ p.l = [i \in 1..NL |-> p.l[i]] /\ \A i \in 1..NL : p.l[i] \in LayerProof(i)
  /\ p.y_ldt \in [1..Block -> Elt] /\ p.y_dot \in [1..DBlock -> Elt]
  /\ p.y_quad_0 \in [1..R -> Elt] /\ p.y_quad_2 \in [1..(DBlock - Block) -> Elt]
  /\ p.nonce \in [1..NReq -> Nat]
  /\ p.req \in [1..Cells -> Elt]
  /\ p.root \in Nat /\ p.path \in Seq(Nat)

(* Digests and nonces have their widths. *)
HasWidths(p) ==
  /\ Fits(p.root, DigestBytes)
  /\ \A k \in 1..NReq : Fits(p.nonce[k], NonceBytes)
  /\ \A k \in 1..Len(p.path) : Fits(p.path[k], DigestBytes)

ASSUME ProofsAssumption == \A p \in Proofs : IsProof(p) /\ HasWidths(p)

(* write_sc_proof sends p(0) and p(2) of the right, then of the left hand  *)
(* in each round, and then wc[0] and wc[1].                                *)
LayerList(l) ==
  FlattenSeq([wi \in DOMAIN l.hp |->
     <<l.hp[wi][0][0], l.hp[wi][1][0], l.hp[wi][0][2], l.hp[wi][1][2]>>])
  \o <<l.wc[0], l.wc[1]>>

(* mutant: the two hands are stored one after the other *)
LayerOfListByHand(i, s) ==
  [hp |-> [wi \in 1..Logw[i] |-> [hi \in Hands |-> [k \in Poly |->
             IF k = 1 THEN 0 ELSE s[4 * (wi - 1) + 2 * hi + (k \div 2) + 1]]]],
   wc |-> [hi \in Hands |-> s[4 * Logw[i] + hi + 1]]]

(* read_sc_proof; p(1) was not sent and is zero *)
LayerOfList(i, s) ==
  [hp |-> [wi \in 1..Logw[i] |-> [hi \in Hands |-> [k \in Poly |->
             IF k = 1 THEN 0 ELSE s[4 * (wi - 1) + k + hi + 1]]]],
   wc |-> [hi \in Hands |-> s[4 * Logw[i] + hi + 1]]]

(* What the writer emits and the reader expects, section by section.  The  *)
(* sections before the columns have a fixed length.                        *)
Count(s) ==
  CASE s.name = "root"     -> 1
    [] s.name = "layer"    -> LayerCells(s.i)
    [] s.name = "y_ldt"    -> Block
    [] s.name = "y_dot"    -> DBlock
    [] s.name = "y_quad_0" -> R
    [] s.name = "y_quad_2" -> DBlock - Block
    [] s.name = "nonce"    -> NReq

Fixed ==
  <<[name |-> "root", i |-> 0]>>
  \o [i \in 1..NL |-> [name |-> "layer", i |-> i]]
  \o <<[name |-> "y_ldt", i |-> 0], [name |-> "y_dot", i |-> 0],
       [name |-> "y_quad_0", i |-> 0], [name |-> "y_quad_2", i |-> 0],
       [name |-> "nonce", i |-> 0]>>

Width(s) ==
  CASE s.name = "root"  -> DigestBytes
    [] s.name = "nonce" -> NonceBytes
    [] OTHER            -> EltBytes

IsElt(s) == s.name \notin {"root", "nonce"}

(* The fields of a proof as lists *)
Field(p, s) ==
  CASE s.name = "root"  -> <<p.root>>
    [] s.name = "layer" -> LayerList(p.l[s.i])
    [] OTHER            -> p[s.name]

Store(p, s, list) ==
  CASE s.name = "root"  -> [p EXCEPT !.root = list[1]]
    [] s.name = "layer" -> [p EXCEPT !.l[s.i] = LayerOfList(s.i, list)]
    [] OTHER            -> [p EXCEPT ![s.name] = list]

InFixed == section <= Len(Fixed)
InColumns == section = Len(Fixed) + 1 /\ ci < Cells
InPath == section = Len(Fixed) + 1 /\ ci = Cells

-----------------------------------------------------------------------------
(* ZkProof::write *)

WriteFixed ==
  /\ pc = "write" /\ InFixed
  /\ LET s == Fixed[section]
     IN  buf' = buf \o Pack(Field(proof, s), Width(s))
  /\ section' = section + 1
  /\ UNCHANGED <<pc, proof, altered, next, ci, sub, got>>

InSubfield(e) == e < SubSize

(* The longest run from the current cell on, at most MaxRunLen; empty when *)
(* the current cell belongs to the other kind.                             *)
RunLen ==
  CHOOSE n \in 0..(Cells - ci) :
    /\ n <= MaxRunLen
    /\ \A k \in 1..n : InSubfield(proof.req[ci + k]) = sub
    /\ \/ n = MaxRunLen
       \/ n = Cells - ci
       \/ InSubfield(proof.req[ci + n + 1]) # sub

WriteRun ==
  /\ pc = "write" /\ InColumns
  /\ LET run == SubSeq(proof.req, ci + 1, ci + RunLen)
     IN  buf' = buf \o ToBytes(RunLen, SizeBytes)
                    \o Pack(run, IF sub THEN SubBytes ELSE EltBytes)
  /\ ci' = ci + RunLen
  /\ sub' = ~sub
  /\ UNCHANGED <<pc, section, proof, altered, next, got>>

WritePath ==
  /\ pc = "write" /\ InPath
  /\ buf' = buf \o ToBytes(Len(proof.path), SizeBytes)
                \o Pack(proof.path, DigestBytes)
  /\ pc' = "deliver" /\ section' = 1 /\ ci' = 0 /\ sub' = FALSE
  /\ UNCHANGED <<proof, altered, next, got>>

-----------------------------------------------------------------------------
(* Some bytes arrive: those that were written or any others.  Nothing is   *)
(* assumed of Arrivals, only that a buffer holds bytes.                    *)
Deliver ==
  /\ pc = "deliver"
  /\ \E b \in Arrivals(buf) \union {buf} : b \in Seq(0..(Byte - 1)) /\ buf' = b
  /\ altered' = (buf' # buf)
  /\ pc' = "read"
  /\ UNCHANGED <<section, proof, next, ci, sub, got>>

-----------------------------------------------------------------------------
(* ZkProof::read.  A section ends in one of four ways: it is read, the     *)
(* buffer is too short and read() returns false, an encoding is invalid    *)
(* and it returns false, or ReadBuffer::next() fails its check.            *)

(* What the code asks for before it reads a section *)
Needed(s) ==
  CASE s.name = "layer" -> (Logw[s.i] * (3 - 1) * 2 + 2) * EltBytes
    [] OTHER            -> Count(s) * Width(s)

Reject ==
  /\ pc' = "rejected"
  /\ UNCHANGED <<section, proof, buf, altered, next, ci, sub, got>>

Abort ==
  /\ pc' = "aborted"
  /\ UNCHANGED <<section, proof, buf, altered, next, ci, sub, got>>

ValidElts(list) == \A k \in DOMAIN list : list[k] < Modulus
ValidSubElts(list) == \A k \in DOMAIN list : list[k] < SubSize

ReadFixed ==
  /\ pc = "read" /\ InFixed
  /\ LET s == Fixed[section]
         list == Unpack(next, Count(s), Width(s))
     IN \/ ~Have(Needed(s)) /\ Reject
        \/ Have(Needed(s)) /\ ~Have(Count(s) * Width(s)) /\ Abort
        \/ /\ Have(Needed(s)) /\ Have(Count(s) * Width(s))
           /\ IsElt(s) /\ ~ValidElts(list)
           /\ Reject
        \/ /\ Have(Needed(s)) /\ Have(Count(s) * Width(s))
           /\ IsElt(s) => ValidElts(list)
           /\ got' = Store(got, s, list)
           /\ next' = next + Count(s) * Width(s)
           /\ section' = section + 1
           /\ UNCHANGED <<pc, proof, buf, altered, ci, sub>>

RunWidth == IF sub THEN SubBytes ELSE EltBytes

(* mutant: the check before a subfield run is made for nothing *)
RunNeededNone(n) == 0

RunNeeded(n) == n * RunWidth

(* mutant: the length itself is not consumed *)
RunEndNoLength(n) == next + n * RunWidth

RunEnd(n) == next + SizeBytes + n * RunWidth

RunTooLong(n) == n >= MaxRunLen \/ ci + n > Cells

(* one run of the columns, after its length was read *)
ReadRunOf(n) ==
  LET p == next + SizeBytes
      list == Unpack(p, n, RunWidth)
      has(k) == Len(buf) - p >= k
      valid == IF sub THEN ValidSubElts(list) ELSE ValidElts(list)
  IN \/ RunTooLong(n) /\ Reject
     \/ ~RunTooLong(n) /\ ~has(RunNeeded(n)) /\ Reject
     \/ ~RunTooLong(n) /\ has(RunNeeded(n)) /\ ~has(n * RunWidth) /\ Abort
     \/ /\ ~RunTooLong(n) /\ has(RunNeeded(n)) /\ has(n * RunWidth)
        /\ ~valid
        /\ Reject
     \/ /\ ~RunTooLong(n) /\ has(RunNeeded(n)) /\ has(n * RunWidth)
        /\ valid
        /\ got' = [got EXCEPT !.req = SubSeq(@, 1, ci) \o list
                                      \o SubSeq(@, ci + n + 1, Cells)]
        /\ next' = RunEnd(n)
        /\ ci' = ci + n
        /\ sub' = ~sub
        /\ UNCHANGED <<pc, section, proof, buf, altered>>

ReadRun ==
  /\ pc = "read" /\ InColumns
  /\ \/ ~Have(SizeBytes) /\ Reject
     \/ Have(SizeBytes) /\ ReadRunOf(OfBytes(SubSeq(buf, next + 1, next + SizeBytes)))

PathTooLong(sz) == sz > NReq * PathLen

ReadPathOf(sz) ==
  LET p == next + SizeBytes
      ok == /\ ~(sz < NReq \/ sz >= MaxNumDigests)
            /\ Len(buf) - p >= sz * DigestBytes
            /\ ~PathTooLong(sz)
  IN \/ ~ok /\ Reject
     \/ /\ ok
        /\ got' = [got EXCEPT !.path = Unpack(p, sz, DigestBytes)]
        /\ next' = p + sz * DigestBytes
        /\ pc' = "accepted"
        /\ UNCHANGED <<section, proof, buf, altered, ci, sub>>

ReadPath ==
  /\ pc = "read" /\ InPath
  /\ \/ ~Have(SizeBytes) /\ Reject
     \/ Have(SizeBytes) /\ ReadPathOf(OfBytes(SubSeq(buf, next + 1, next + SizeBytes)))

-----------------------------------------------------------------------------
Const(n, v) == [k \in 1..n |-> v]

(* The constructor of ZkProof: vectors of their sizes, no digests *)
EmptyProof ==
  [root |-> 0,
   l |-> [i \in 1..NL |-> LayerOfList(i, Const(LayerCells(i), 0))],
   y_ldt |-> Const(Block, 0), y_dot |-> Const(DBlock, 0),
   y_quad_0 |-> Const(R, 0), y_quad_2 |-> Const(DBlock - Block, 0),
   nonce |-> Const(NReq, 0), req |-> Const(Cells, 0), path |-> <<>>]

Init ==
  /\ pc = "write" /\ section = 1
  /\ proof \in Proofs
  /\ buf = <<>> /\ altered = FALSE /\ next = 0
  /\ ci = 0 /\ sub = FALSE
  /\ got = EmptyProof

Done == pc \in {"accepted", "rejected", "aborted"}

Next ==
  \/ WriteFixed \/ WriteRun \/ WritePath
  \/ Deliver
  \/ ReadFixed \/ ReadRun \/ ReadPath

Spec == Init /\ [][Next]_vars

(* A call of write() or read() runs to its end. *)
FairSpec == Spec /\ WF_vars(Next)

-----------------------------------------------------------------------------
(* Every run of a proof is shorter than the limit of read(). *)
ShortRuns ==
  \A a \in 1..Cells : a + MaxRunLen - 1 <= Cells =>
    \E k \in a..(a + MaxRunLen - 2) :
      InSubfield(proof.req[k]) # InSubfield(proof.req[k + 1])

PathInRange ==
  Len(proof.path) \in NReq..(NReq * PathLen) /\ Len(proof.path) < MaxNumDigests

(* p(1) of each polynomial is implied and comes back as zero. *)
LayerWithoutP1(l) ==
  [l EXCEPT !.hp =
     [wi \in DOMAIN @ |-> [hi \in Hands |-> [@[wi][hi] EXCEPT ![1] = 0]]]]
WithoutP1(p) == [p EXCEPT !.l = [i \in DOMAIN @ |-> LayerWithoutP1(@[i])]]

(* What was written comes back: read() accepts the bytes of write(), the   *)
(* verifier holds the prover's proof, and no byte is left.  The run-length *)
(* decoder follows the encoder through empty runs as well.                 *)
RoundTrip ==
  Done /\ ~altered /\ ShortRuns /\ PathInRange =>
    pc = "accepted" /\ got = WithoutP1(proof) /\ next = Len(buf)

(* Whatever arrives, read() never asks ReadBuffer::next() for bytes that   *)
(* are not there (each check(have(n)) is covered by a test before it, also *)
(* where the size comes from the buffer), and an accepted proof is one the *)
(* verifier can work on: its vectors have the sizes of the parameters,     *)
(* every element is in the field, and the resize() of the path was bounded *)
(* by nreq * mc_pathlen.  On the way the positions stay inside the buffer  *)
(* (the check() of remaining()) and inside the columns.                    *)
AcceptedIsWellFormed ==
  /\ pc # "aborted" /\ next \in 0..Len(buf) /\ ci \in 0..Cells
  /\ pc = "accepted" =>
    /\ Len(got.path) \in NReq..(NReq * PathLen)
    /\ Len(got.req) = Cells /\ ValidElts(got.req)
    /\ Len(got.y_dot) = DBlock /\ ValidElts(got.y_dot)
    /\ \A i \in 1..NL : ValidElts(LayerList(got.l[i]))

(* read() ends for every input: a run of length zero moves the buffer on   *)
(* even though it decodes nothing.                                         *)
Terminates == <>Done

=============================================================================
