---------------------------- MODULE FiatShamir ----------------------------
(***************************************************************************)
(* The Fiat-Shamir transcript of src/lib/random/transcript.h: a running    *)
(* hash of everything the party has absorbed (Transcript::sha_) and, from  *)
(* the first draw after the last write on, a pseudo-random stream keyed    *)
(* by a snapshot of that hash (Transcript::prf_, class FSPRF).             *)
(*                                                                         *)
(* SHA-256 and the PRF are ideal: a hash is the sequence of symbols it     *)
(* absorbed, and the byte of a stream is the triple of its key, its block  *)
(* number and its offset in the block.  A symbol is one byte of data, a    *)
(* tag, or a whole 8-byte length.  All three are small naturals, so that   *)
(* nothing but their place in the sequence tells them apart.               *)
(***************************************************************************)
EXTENDS Naturals, Sequences

CONSTANTS
  Ids,           \* the Transcript objects of a process
  Root,          \* the one the caller constructs; the others are its clones
  Byte,          \* the data bytes a caller may absorb
  Lens,          \* the lengths a caller may pass
  EltSize,       \* Field::kBytes
  ZeroChunk,     \* sizeof(data) in write0(), 32 in the code
  OutputSize,    \* kPRFOutputSize
  MaxBlocks,     \* FSPRF::kMaxBlocks
  NoPrf,         \* prf_ is null
  MaxLog,        \* bound: symbols absorbed by one transcript
  MaxOut         \* bound: bytes drawn from one transcript

ASSUME ByteAssumption == Byte \subseteq Nat /\ 0 \in Byte
ASSUME SizeAssumption ==
  /\ Lens \subseteq Nat
  /\ EltSize \in Nat
  /\ ZeroChunk \in Nat \ {0}
  /\ OutputSize \in Nat \ {0}
  /\ MaxBlocks \in Nat
ASSUME BoundAssumption == MaxLog \in Nat /\ MaxOut \in Nat
ASSUME RootAssumption == Root \in Ids

VARIABLES
  live,      \* the transcripts that exist
  sha,       \* sha[t]: the symbols Transcript::sha_ has absorbed
  prf,       \* prf[t]: the FSPRF, or NoPrf when prf_ is null
  want,      \* want[t]: bytes the running call of FSPRF::bytes() still owes
  aborted,   \* a check() failed and the process ended
  msgs,      \* history: the typed writes msgs[t] has seen
  pos,       \* history: bytes drawn from t since its last write
  out        \* history: every byte t has handed out

vars == <<live, sha, prf, want, aborted, msgs, pos, out>>

-----------------------------------------------------------------------------
(* Symbols and typed messages *)

TagBstr  == 0
TagElem  == 1
TagArray == 2

Symbol == Nat

Zeros(n) == [i \in 1..n |-> 0]

Strings(n) == [1..n -> Byte]

(* A typed write as the caller sees it.  n counts bytes, or the elements   *)
(* of an array; an element is its EltSize bytes.                           *)
Message(k, n, d) == [kind |-> k, n |-> n, data |-> d]

Bstr(n)  == {Message("bstr", n, d) : d \in Strings(n)}
Elem     == {Message("elem", 1, d) : d \in Strings(EltSize)}
Array(n) == {Message("array", n, d) : d \in Strings(n * EltSize)}

(* write(data, n): a tag, the length, the bytes *)
EncodeBstr(m) == <<TagBstr, m.n>> \o m.data

(* write(e, F): a tag and the element; the field is not named *)
EncodeElem(m) == <<TagElem>> \o m.data

(* mutant: the TAG_ARRAY typo the comment on version_ mentions *)
EncodeArrayAsBstr(m) == <<TagBstr, m.n>> \o m.data

(* write(e[], n, F): a tag, the number of elements, the elements *)
EncodeArray(m) == <<TagArray, m.n>> \o m.data

(* write0(n) hashes full chunks while more than a chunk is left, and then  *)
(* the rest.                                                               *)
FullChunks(n) == IF n = 0 THEN 0 ELSE (n - 1) \div ZeroChunk
EncodeZeros(n) ==
  <<TagBstr, n>> \o Zeros(FullChunks(n) * ZeroChunk)
                 \o Zeros(n - FullChunks(n) * ZeroChunk)

-----------------------------------------------------------------------------
(* The stream *)

PrfType ==
  [key : Seq(Symbol), nblock : Nat, rdptr : 0..OutputSize, saved : Nat]

ASSUME NoPrfAssumption == NoPrf \notin PrfType

(* FSPRF::FSPRF: nothing buffered yet *)
NewPrf(key) == [key |-> key, nblock |-> 0, rdptr |-> OutputSize, saved |-> 0]

(* FSPRF::refill: saved_ becomes block number nblock_ *)
Refill(p) == [p EXCEPT !.saved = p.nblock, !.nblock = p.nblock + 1, !.rdptr = 0]

(* One turn of the loop of FSPRF::bytes *)
Ready(p) == IF p.rdptr = OutputSize THEN Refill(p) ELSE p
Advance(p) == [Ready(p) EXCEPT !.rdptr = Ready(p).rdptr + 1]
NextByte(p) == [key |-> p.key, block |-> Ready(p).saved, off |-> Ready(p).rdptr]

-----------------------------------------------------------------------------
(* Nothing else runs on a transcript while a call of bytes() is under way. *)
Idle(t) == ~aborted /\ t \in live /\ want[t] = 0

(* mutant: a write does not invalidate the stream *)
AbsorbKeepsPrf(t, enc) ==
  /\ sha' = [sha EXCEPT ![t] = @ \o enc]
  /\ prf' = prf

(* write_untyped for every part of one typed write: drop the stream, hash *)
Absorb(t, enc) ==
  /\ sha' = [sha EXCEPT ![t] = @ \o enc]
  /\ prf' = [prf EXCEPT ![t] = NoPrf]

Write(t, m, enc) ==
  /\ Idle(t)
  /\ Len(sha[t]) + Len(enc) <= MaxLog
  /\ Absorb(t, enc)
  /\ msgs' = [msgs EXCEPT ![t] = Append(@, m)]
  /\ pos' = [pos EXCEPT ![t] = 0]
  /\ UNCHANGED <<live, want, aborted, out>>

WriteBstr(t)  == \E n \in Lens : \E m \in Bstr(n) : Write(t, m, EncodeBstr(m))
WriteElem(t)  == \E m \in Elem : Write(t, m, EncodeElem(m))
WriteArray(t) == \E n \in Lens : \E m \in Array(n) : Write(t, m, EncodeArray(m))
WriteZeros(t) ==
  \E n \in Lens : Write(t, Message("bstr", n, Zeros(n)), EncodeZeros(n))

(* clone() copies the hash state and nothing else *)
Clone(t, u) ==
  /\ Idle(t)
  /\ u \in Ids \ live
  /\ live' = live \union {u}
  /\ sha' = [sha EXCEPT ![u] = sha[t]]
  /\ prf' = [prf EXCEPT ![u] = NoPrf]
  /\ msgs' = [msgs EXCEPT ![u] = msgs[t]]
  /\ pos' = [pos EXCEPT ![u] = 0]
  /\ UNCHANGED <<want, aborted, out>>

(* mutant: every call of bytes() starts a new stream *)
DrawRestarts(t) ==
  \E n \in Lens :
    /\ Idle(t)
    /\ Len(out[t]) + n <= MaxOut
    /\ want' = [want EXCEPT ![t] = n]
    /\ prf' = [prf EXCEPT ![t] = NewPrf(sha[t])]
    /\ UNCHANGED <<live, sha, aborted, msgs, pos, out>>

(* bytes(buf, n) is entered: the stream is created on the first draw *)
Draw(t) ==
  \E n \in Lens :
    /\ Idle(t)
    /\ Len(out[t]) + n <= MaxOut
    /\ want' = [want EXCEPT ![t] = n]
    /\ prf' = [prf EXCEPT ![t] = IF @ = NoPrf THEN NewPrf(sha[t]) ELSE @]
    /\ UNCHANGED <<live, sha, aborted, msgs, pos, out>>

Exhausted(p) == p.rdptr = OutputSize /\ ~(p.nblock < MaxBlocks)

(* one turn of the loop of FSPRF::bytes *)
DrawByte(t) ==
  /\ ~aborted
  /\ want[t] > 0
  /\ ~Exhausted(prf[t])
  /\ prf' = [prf EXCEPT ![t] = Advance(@)]
  /\ out' = [out EXCEPT ![t] = Append(@, NextByte(prf[t]))]
  /\ want' = [want EXCEPT ![t] = @ - 1]
  /\ pos' = [pos EXCEPT ![t] = @ + 1]
  /\ UNCHANGED <<live, sha, aborted, msgs>>

(* "too many blocks" ends the process *)
TooManyBlocks(t) ==
  /\ ~aborted
  /\ want[t] > 0
  /\ Exhausted(prf[t])
  /\ aborted' = TRUE
  /\ UNCHANGED <<live, sha, prf, want, msgs, pos, out>>

Init ==
  /\ live = {Root}
  /\ \E n \in Lens : \E m \in Bstr(n) :
       /\ sha = [t \in Ids |-> IF t = Root THEN EncodeBstr(m) ELSE <<>>]
       /\ msgs = [t \in Ids |-> IF t = Root THEN <<m>> ELSE <<>>]
  /\ prf = [t \in Ids |-> NoPrf]
  /\ want = [t \in Ids |-> 0]
  /\ aborted = FALSE
  /\ pos = [t \in Ids |-> 0]
  /\ out = [t \in Ids |-> <<>>]

Next ==
  \E t \in Ids :
    \/ WriteBstr(t)
    \/ WriteElem(t)
    \/ WriteArray(t)
    \/ WriteZeros(t)
    \/ Draw(t)
    \/ DrawByte(t)
    \/ TooManyBlocks(t)
    \/ \E u \in Ids : Clone(t, u)

Spec == Init /\ [][Next]_vars

-----------------------------------------------------------------------------
StreamByte == [key : Seq(Symbol), block : Nat, off : 0..(OutputSize - 1)]

(* Every variable has its type: hashes are sequences of symbols, a read    *)
(* pointer stays inside the 16-byte buffer of FSPRF.                       *)
TypeOK ==
  /\ live \subseteq Ids
  /\ sha \in [Ids -> Seq(Symbol)]
  /\ prf \in [Ids -> PrfType \union {NoPrf}]
  /\ want \in [Ids -> Nat]
  /\ aborted \in BOOLEAN
  /\ pos \in [Ids -> Nat]
  /\ out \in [Ids -> Seq(StreamByte)]

(* Where FSPRF stands is a function of how many bytes were drawn since the *)
(* last write, however the draws were cut into calls of bytes(): the       *)
(* Associative test of transcript_test.cc, for every history.  So two      *)
(* transcripts that absorbed the same symbols (the prover's and the        *)
(* verifier's, or a clone and its original) draw the same challenges.      *)
StreamPosition ==
  \A t \in Ids :
    IF prf[t] = NoPrf
    THEN pos[t] = 0
    ELSE /\ prf[t].key = sha[t]
         /\ prf[t].nblock * OutputSize = pos[t] + (OutputSize - prf[t].rdptr)
         /\ prf[t].nblock > 0 => prf[t].saved = prf[t].nblock - 1

(* A transcript never hands out the same byte of the same stream twice:    *)
(* a write changes the key, and a stream only moves forward.               *)
NoByteTwice ==
  \A t \in Ids : \A i, j \in DOMAIN out[t] : i # j => out[t][i] # out[t][j]

(* Every byte drawn after a write depends on that write: no challenge can  *)
(* come from a stream keyed before the latest absorbed message (the        *)
(* prf_.reset() of write_untyped).                                         *)
ChallengesBindTranscript ==
  [][\A t \in Ids :
       Len(out'[t]) > Len(out[t]) => out'[t][Len(out'[t])].key = sha[t]]_vars

(* Two transcripts with the same hash absorbed the same typed messages:    *)
(* tags and lengths make the encoding of a sequence of writes unambiguous  *)
(* as long as all elements belong to one field, and write0(n) is write()   *)
(* of n zero bytes.                                                        *)
Unambiguous ==
  \A t, u \in live : sha[t] = sha[u] => msgs[t] = msgs[u]

(* FSPRF never evaluates a block at or beyond kMaxBlocks. *)
BlocksInRange ==
  \A t \in Ids : \A i \in DOMAIN out[t] : out[t][i].block < MaxBlocks
=============================================================================
