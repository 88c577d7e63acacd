------------------------- MODULE FiatShamirProofs -------------------------
(***************************************************************************)
(* Theorems about the Fiat-Shamir transcript, for every set of             *)
(* transcripts, block size and bound.  The inductive invariant is IInv.    *)
(***************************************************************************)
EXTENDS FiatShamir, SequenceLemmas, SequenceTheorems, TLAPS

(* A transcript that does not exist yet has done nothing, and a call of    *)
(* bytes() under way has created its stream.                               *)
Unborn ==
  \A t \in Ids :
    /\ t \notin live => prf[t] = NoPrf /\ want[t] = 0 /\ out[t] = <<>>
    /\ want[t] > 0 => prf[t] # NoPrf

(* FSPRF has not evaluated more than kMaxBlocks blocks. *)
BlocksUsed == 
  \A t \in Ids : prf[t] # NoPrf => prf[t].nblock <= MaxBlocks

(* The place of a byte in its stream *)
Place(b) == b.block * OutputSize + b.off

(* Every byte handed out is behind the present position: it comes from an  *)
(* earlier, shorter hash or from the read part of the present stream.      *)
OutBehind ==
  \A t \in Ids : \A i \in DOMAIN out[t] :
    \/ Len(out[t][i].key) < Len(sha[t])
    \/ out[t][i].key = sha[t] /\ Place(out[t][i]) < pos[t]

IInv ==
  /\ TypeOK
  /\ Unborn
  /\ StreamPosition
  /\ BlocksUsed
  /\ BlocksInRange
  /\ OutBehind
  /\ NoByteTwice

-----------------------------------------------------------------------------
(* Strings of bytes are sequences of symbols. *)
LEMMA StringsAreSequences ==
  ASSUME NEW n \in Nat, NEW d \in Strings(n)
  PROVE  d \in Seq(Symbol)
<1>1. d \in [1..n -> Nat]
  BY ByteAssumption DEF Strings
<1>2. [1..n -> Nat] \subseteq Seq(Nat)
  OBVIOUS
<1> QED BY <1>1, <1>2 DEF Symbol

(* So are strings of zeros. *)
LEMMA ZerosAreSequences ==
  ASSUME NEW n \in Nat
  PROVE  Zeros(n) \in Seq(Symbol)
  BY DEF Zeros, Symbol

(* A prefix of symbols before a sequence of symbols is a nonempty one. *)
LEMMA PrefixedSequence ==
  ASSUME NEW p \in Seq(Symbol), p # <<>>, NEW d \in Seq(Symbol)
  PROVE  p \o d \in Seq(Symbol) /\ Len(p \o d) > 0
  OBVIOUS

(* The chunks of write0(n) never exceed n. *)
LEMMA ChunksFit ==
  ASSUME NEW n \in Nat
  PROVE  /\ FullChunks(n) * ZeroChunk \in Nat
         /\ n - FullChunks(n) * ZeroChunk \in Nat
<1>1. CASE n = 0
  BY <1>1, SizeAssumption DEF FullChunks
<1>2. CASE n # 0
  <2> DEFINE k == (n - 1) \div ZeroChunk
  <2>1. n - 1 \in Nat /\ ZeroChunk \in Nat /\ ZeroChunk > 0
    BY <1>2, SizeAssumption
  <2>2. k \in Nat /\ k * ZeroChunk <= n - 1
    BY <2>1
  <2>3. k * ZeroChunk \in Nat
    BY <2>1, <2>2
  <2>4. FullChunks(n) = k
    BY <1>2 DEF FullChunks
  <2> QED BY <2>2, <2>3, <2>4, <1>2
<1> QED BY <1>1, <1>2

(* The bytes handed out so far are stream bytes. *)
LEMMA OutBytes ==
  ASSUME TypeOK, NEW t \in Ids, NEW i \in DOMAIN out[t]
  PROVE  /\ out[t][i] \in StreamByte
         /\ Place(out[t][i]) \in Nat
         /\ Len(out[t][i].key) \in Nat
<1>1. out[t] \in Seq(StreamByte)
  BY DEF TypeOK
<1>2. i \in 1..Len(out[t])
  BY <1>1
<1>3. out[t][i] \in StreamByte
  BY <1>1, <1>2, ElementOfSeq
<1>4. out[t][i].block \in Nat /\ out[t][i].off \in Nat /\ out[t][i].key \in Seq(Symbol)
  BY <1>3, SizeAssumption DEF StreamByte
<1>5. OutputSize \in Nat
  BY SizeAssumption
<1>6. out[t][i].block * OutputSize \in Nat
  BY <1>4, <1>5
<1> QED BY <1>3, <1>4, <1>6 DEF Place

(* Writing an element absorbs a nonempty sequence of symbols. *)
LEMMA ElementIsSequence ==
  ASSUME NEW m \in Elem
  PROVE  EncodeElem(m) \in Seq(Symbol) /\ Len(EncodeElem(m)) > 0
<1>1. m.data \in Strings(EltSize)
  BY DEF Elem, Message
<1>2. m.data \in Seq(Symbol)
  BY <1>1, SizeAssumption, StringsAreSequences
<1>3. <<TagElem>> \in Seq(Symbol) /\ <<TagElem>> # <<>>
  BY DEF TagElem, Symbol
<1> QED BY <1>2, <1>3, PrefixedSequence DEF EncodeElem

(* So does every other typed write. *)
LEMMA EncodingsAreSequences ==
  ASSUME NEW n \in Lens
  PROVE  /\ \A m \in Bstr(n) : EncodeBstr(m) \in Seq(Symbol) /\ Len(EncodeBstr(m)) > 0
         /\ \A m \in Array(n) : EncodeArray(m) \in Seq(Symbol) /\ Len(EncodeArray(m)) > 0
         /\ EncodeZeros(n) \in Seq(Symbol) /\ Len(EncodeZeros(n)) > 0
<1>0. n \in Nat
  BY SizeAssumption
<1>1. ASSUME NEW m \in Bstr(n)
      PROVE EncodeBstr(m) \in Seq(Symbol) /\ Len(EncodeBstr(m)) > 0
  <2>1. m.n = n /\ m.data \in Strings(n)
    BY <1>1 DEF Bstr, Message
  <2>2. m.data \in Seq(Symbol)
    BY <2>1, <1>0, StringsAreSequences
  <2>3. <<TagBstr, m.n>> \in Seq(Symbol) /\ <<TagBstr, m.n>> # <<>>
    BY <2>1, <1>0 DEF TagBstr, Symbol
  <2> QED BY <2>2, <2>3, PrefixedSequence DEF EncodeBstr
<1>3. ASSUME NEW m \in Array(n)
      PROVE EncodeArray(m) \in Seq(Symbol) /\ Len(EncodeArray(m)) > 0
  <2>1. m.n = n /\ m.data \in Strings(n * EltSize)
    BY <1>3 DEF Array, Message
  <2>2. m.data \in Seq(Symbol)
    BY <2>1, <1>0, SizeAssumption, StringsAreSequences
  <2>3. <<TagArray, m.n>> \in Seq(Symbol) /\ <<TagArray, m.n>> # <<>>
    BY <2>1, <1>0 DEF TagArray, Symbol
  <2> QED BY <2>2, <2>3, PrefixedSequence DEF EncodeArray
<1>4. EncodeZeros(n) \in Seq(Symbol) /\ Len(EncodeZeros(n)) > 0
  <2> DEFINE a == Zeros(FullChunks(n) * ZeroChunk)
             b == Zeros(n - FullChunks(n) * ZeroChunk)
             h == <<TagBstr, n>>
  <2>1. a \in Seq(Symbol) /\ b \in Seq(Symbol)
    BY <1>0, ChunksFit, ZerosAreSequences
  <2>2. h \in Seq(Symbol) /\ h # <<>>
    BY <1>0 DEF TagBstr, Symbol
  <2>3. EncodeZeros(n) = h \o a \o b
    BY DEF EncodeZeros
  <2> HIDE DEF a, b, h
  <2>4. h \o a \in Seq(Symbol) /\ Len(h \o a) > 0
    BY <2>1, <2>2, PrefixedSequence
  <2>5. h \o a # <<>>
    BY <2>4
  <2> QED BY <2>1, <2>3, <2>4, <2>5, PrefixedSequence
<1> QED BY <1>1, <1>3, <1>4

-----------------------------------------------------------------------------
(* The initial states satisfy the invariant. *)
LEMMA InitIInv == Init => IInv
<1> SUFFICES ASSUME Init PROVE IInv
  OBVIOUS
<1>1. PICK n \in Lens : \E m \in Bstr(n) :
        sha = [t \in Ids |-> IF t = Root THEN EncodeBstr(m) ELSE <<>>]
  BY DEF Init
<1>2. sha \in [Ids -> Seq(Symbol)]
  BY <1>1, EncodingsAreSequences
<1>4. TypeOK
  <2>1. live \subseteq Ids
    BY RootAssumption DEF Init
  <2>2. prf \in [Ids -> PrfType \union {NoPrf}] /\ want \in [Ids -> Nat] /\ pos \in [Ids -> Nat]
    BY DEF Init
  <2>3. out \in [Ids -> Seq(StreamByte)]
    BY EmptySeq DEF Init
  <2> QED BY <1>2, <2>1, <2>2, <2>3 DEF Init, TypeOK
<1>5. Unborn /\ StreamPosition /\ BlocksUsed
  BY SizeAssumption DEF Init, Unborn, StreamPosition, BlocksUsed
<1>6. BlocksInRange /\ OutBehind /\ NoByteTwice
  BY DEF Init, BlocksInRange, OutBehind, NoByteTwice
<1> QED BY <1>4, <1>5, <1>6 DEF IInv

(* A typed write keeps the invariant: the stream goes, the hash grows. *)
LEMMA WriteStep ==
  ASSUME IInv, NEW t \in Ids, NEW m, NEW enc \in Seq(Symbol), Len(enc) > 0,
         Write(t, m, enc)
  PROVE  IInv'
<1> USE DEF IInv
<1>2. /\ sha' = [sha EXCEPT ![t] = @ \o enc]
      /\ prf' = [prf EXCEPT ![t] = NoPrf]
      /\ pos' = [pos EXCEPT ![t] = 0]
      /\ UNCHANGED <<live, want, aborted, out>>
      /\ t \in live /\ want[t] = 0
  BY DEF Write, Absorb, Idle
<1>3. TypeOK'
  BY <1>2 DEF TypeOK
<1>4. Unborn' /\ BlocksUsed' /\ StreamPosition'
  BY <1>2, SizeAssumption DEF TypeOK, Unborn, BlocksUsed, StreamPosition
<1>5. BlocksInRange' /\ NoByteTwice'
  BY <1>2 DEF BlocksInRange, NoByteTwice
<1>6. Len(sha'[t]) > Len(sha[t])
  BY <1>2 DEF TypeOK
<1>7. OutBehind'
  <2> SUFFICES ASSUME NEW u \in Ids, NEW i \in DOMAIN out[u]
               PROVE \/ Len(out[u][i].key) < Len(sha'[u])
                     \/ out[u][i].key = sha'[u] /\ Place(out[u][i]) < pos'[u]
    BY <1>2 DEF OutBehind, Place
  <2>1. CASE u = t
    <3>2. Len(sha[u]) \in Nat /\ Len(sha'[u]) \in Nat
      <4>1. sha[u] \in Seq(Symbol) /\ sha'[u] \in Seq(Symbol)
        BY <1>3 DEF TypeOK
      <4> QED BY <4>1
    <3>1. Len(out[u][i].key) \in Nat /\ Len(out[u][i].key) <= Len(sha[u])
      BY <3>2, OutBytes DEF OutBehind
    <3> QED BY <1>6, <2>1, <3>1, <3>2
  <2>2. CASE u # t
    BY <1>2, <2>2 DEF OutBehind, TypeOK
  <2> QED BY <2>1, <2>2
<1> QED BY <1>3, <1>4, <1>5, <1>7

(* The byte of one turn of the loop of FSPRF::bytes is the one at place    *)
(* pos[t] of the stream keyed by the present hash, and the turn keeps the  *)
(* position in step.                                                       *)
LEMMA OneTurn ==
  ASSUME IInv, NEW t \in Ids, want[t] > 0, ~Exhausted(prf[t])
  PROVE  /\ Advance(prf[t]) \in PrfType
         /\ NextByte(prf[t]) \in StreamByte
         /\ NextByte(prf[t]).key = sha[t]
         /\ NextByte(prf[t]).block < MaxBlocks
         /\ Place(NextByte(prf[t])) = pos[t]
         /\ Advance(prf[t]) # NoPrf
         /\ Advance(prf[t]).key = sha[t]
         /\ Advance(prf[t]).nblock > 0
         /\ Advance(prf[t]).nblock <= MaxBlocks
         /\ Advance(prf[t]).saved = Advance(prf[t]).nblock - 1
         /\ Advance(prf[t]).nblock * OutputSize
              = pos[t] + 1 + (OutputSize - Advance(prf[t]).rdptr)
<1> DEFINE p == prf[t]
           q == Advance(p)
           b == NextByte(p)
<1>1. /\ p \in PrfType /\ p # NoPrf /\ p.key = sha[t] /\ p.nblock <= MaxBlocks
      /\ p.nblock * OutputSize = pos[t] + (OutputSize - p.rdptr)
      /\ p.nblock > 0 => p.saved = p.nblock - 1
      /\ pos[t] \in Nat
  BY DEF IInv, TypeOK, Unborn, StreamPosition, BlocksUsed
<1>2. OutputSize \in Nat /\ OutputSize > 0 /\ MaxBlocks \in Nat
  BY SizeAssumption
<1>3. CASE p.rdptr = OutputSize
  <2>1. p.nblock < MaxBlocks
    BY <1>3 DEF Exhausted
  <2>2. Ready(p) = [key |-> p.key, nblock |-> p.nblock + 1, rdptr |-> 0, saved |-> p.nblock]
    BY <1>1, <1>3 DEF Ready, Refill, PrfType
  <2>3. /\ q = [key |-> p.key, nblock |-> p.nblock + 1, rdptr |-> 1,
                saved |-> p.nblock]
        /\ b = [key |-> p.key, block |-> p.nblock, off |-> 0]
    BY <2>2 DEF Advance, NextByte
  <2>4. p.nblock * OutputSize = pos[t]
    BY <1>1, <1>2, <1>3
  <2>5. (p.nblock + 1) * OutputSize = p.nblock * OutputSize + OutputSize
    <3>1. p.nblock \in Nat
      BY <1>1 DEF PrfType
    <3> QED BY <1>2, <3>1
  <2>6. q \in PrfType /\ b \in StreamByte
    <3>1. p.key \in Seq(Symbol) /\ p.nblock \in Nat /\ p.nblock + 1 \in Nat
      BY <1>1 DEF PrfType
    <3>2. 1 \in 0..OutputSize /\ 0 \in 0..(OutputSize - 1)
      BY <1>2
    <3> QED BY <2>3, <3>1, <3>2 DEF PrfType, StreamByte
  <2>6a. q # NoPrf
    BY <2>6, NoPrfAssumption
  <2>7. b.key = sha[t] /\ b.block < MaxBlocks /\ Place(b) = pos[t]
    BY <1>1, <1>2, <2>1, <2>3, <2>4 DEF Place, PrfType
  <2>8. /\ q.key = sha[t] /\ q.nblock = p.nblock + 1
        /\ q.saved = p.nblock /\ q.rdptr = 1 /\ p.nblock \in Nat
    BY <1>1, <2>3 DEF PrfType
  <2>9. q.nblock > 0 /\ q.nblock <= MaxBlocks /\ q.saved = q.nblock - 1
    BY <1>2, <2>1, <2>8
  <2>10. q.nblock * OutputSize = pos[t] + 1 + (OutputSize - q.rdptr)
    BY <1>1, <1>2, <2>4, <2>5, <2>8
  <2> QED BY <2>6, <2>6a, <2>7, <2>8, <2>9, <2>10
<1>4. CASE p.rdptr # OutputSize
  <2>1. q = [key |-> p.key, nblock |-> p.nblock, rdptr |-> p.rdptr + 1,
             saved |-> p.saved]
    BY <1>1, <1>4 DEF Advance, Ready, PrfType
  <2>2. b = [key |-> p.key, block |-> p.saved, off |-> p.rdptr]
    BY <1>4 DEF NextByte, Ready
  <2>3. p.rdptr \in Nat /\ p.rdptr < OutputSize /\ p.nblock \in Nat
    BY <1>1, <1>2, <1>4 DEF PrfType
  <2>4. p.nblock > 0
    BY <1>1, <1>2, <2>3
  <2>5. p.saved = p.nblock - 1 /\ p.saved \in Nat
    BY <1>1, <2>3, <2>4
  <2>6. (p.nblock - 1) * OutputSize = p.nblock * OutputSize - OutputSize
    BY <1>2, <2>3
  <2>7. q \in PrfType /\ b \in StreamByte
    BY <1>1, <1>2, <2>1, <2>2, <2>3, <2>5 DEF PrfType, StreamByte
  <2>7a. q # NoPrf
    BY <2>7, NoPrfAssumption
  <2>8. Place(b) = pos[t]
    BY <1>1, <1>2, <2>2, <2>3, <2>5, <2>6 DEF Place
  <2>9. b.key = sha[t] /\ b.block < MaxBlocks
    BY <1>1, <1>2, <2>2, <2>3, <2>5
  <2>10. /\ q.key = sha[t] /\ q.nblock = p.nblock
         /\ q.saved = p.saved /\ q.rdptr = p.rdptr + 1
    BY <1>1, <2>1 DEF PrfType
  <2> QED BY <1>1, <1>2, <2>3, <2>4, <2>5, <2>7, <2>7a, <2>8, <2>9, <2>10
<1> QED BY <1>3, <1>4

(* A turn of the loop keeps the invariant: the new byte is at the place the *)
(* position names, which no earlier byte has.                              *)
LEMMA DrawByteStep ==
  ASSUME IInv, NEW t \in Ids, DrawByte(t)
  PROVE  IInv'
<1> USE DEF IInv
<1> DEFINE b == NextByte(prf[t])
<1>1. /\ prf' = [prf EXCEPT ![t] = Advance(prf[t])]
      /\ out' = [out EXCEPT ![t] = Append(out[t], b)]
      /\ want' = [want EXCEPT ![t] = want[t] - 1]
      /\ pos' = [pos EXCEPT ![t] = pos[t] + 1]
      /\ UNCHANGED <<live, sha, aborted>>
      /\ want[t] > 0
  BY DEF DrawByte
<1>2. /\ Advance(prf[t]) \in PrfType
      /\ b \in StreamByte /\ b.key = sha[t]
      /\ b.block < MaxBlocks /\ Place(b) = pos[t]
      /\ Advance(prf[t]) # NoPrf /\ Advance(prf[t]).key = sha[t]
      /\ Advance(prf[t]).nblock > 0 /\ Advance(prf[t]).nblock <= MaxBlocks
      /\ Advance(prf[t]).saved = Advance(prf[t]).nblock - 1
      /\ Advance(prf[t]).nblock * OutputSize
           = pos[t] + 1 + (OutputSize - Advance(prf[t]).rdptr)
  BY OneTurn DEF DrawByte
<1> HIDE DEF b
<1>3. TypeOK'
  BY <1>1, <1>2 DEF TypeOK
<1>4. Unborn'
  BY <1>1, <1>2 DEF TypeOK, Unborn
<1>5. StreamPosition' /\ BlocksUsed'
  BY <1>1, <1>2 DEF TypeOK, StreamPosition, BlocksUsed
<1>6. \A u \in Ids : u # t => out'[u] = out[u] /\ pos'[u] = pos[u]
  BY <1>1 DEF TypeOK
<1>7. /\ DOMAIN out'[t] = 1..(Len(out[t]) + 1)
      /\ DOMAIN out[t] = 1..Len(out[t]) /\ Len(out[t]) \in Nat
      /\ out'[t][Len(out[t]) + 1] = b
      /\ \A i \in 1..Len(out[t]) : out'[t][i] = out[t][i]
  BY <1>1 DEF TypeOK
<1>8. BlocksInRange'
  BY <1>2, <1>6, <1>7 DEF BlocksInRange
<1>9. OutBehind'
  <2> SUFFICES ASSUME NEW u \in Ids, NEW i \in DOMAIN out'[u]
               PROVE \/ Len(out'[u][i].key) < Len(sha[u])
                     \/ out'[u][i].key = sha[u] /\ Place(out'[u][i]) < pos'[u]
    BY <1>1 DEF OutBehind, Place
  <2>0. pos[t] \in Nat /\ pos'[t] = pos[t] + 1
    BY <1>1 DEF TypeOK
  <2>1. CASE u # t
    BY <1>6, <2>1 DEF OutBehind
  <2>2. CASE u = t /\ i = Len(out[t]) + 1
    BY <1>2, <1>7, <2>0, <2>2
  <2>3. CASE u = t /\ i # Len(out[t]) + 1
    <3>1. i \in DOMAIN out[t] /\ out'[t][i] = out[t][i]
      BY <1>7, <2>3
    <3>2. Place(out[t][i]) \in Nat
      BY <3>1, OutBytes
    <3> QED BY <2>0, <2>3, <3>1, <3>2 DEF OutBehind
  <2> QED BY <2>1, <2>2, <2>3
<1>10. \A i \in DOMAIN out[t] : out[t][i] # b
  <2> SUFFICES ASSUME NEW i \in DOMAIN out[t], out[t][i] = b
               PROVE FALSE
    OBVIOUS
  <2>1. \/ Len(b.key) < Len(sha[t])
        \/ Place(b) < pos[t]
    BY DEF OutBehind
  <2>2. pos[t] \in Nat /\ Len(sha[t]) \in Nat
    BY DEF TypeOK
  <2> QED BY <1>2, <2>1, <2>2
<1>11. NoByteTwice'
  <2> SUFFICES ASSUME NEW u \in Ids, NEW i \in DOMAIN out'[u],
                      NEW j \in DOMAIN out'[u], i # j
               PROVE out'[u][i] # out'[u][j]
    BY DEF NoByteTwice
  <2>1. CASE u # t
    BY <1>6, <2>1 DEF NoByteTwice
  <2>2. CASE u = t
    <3> DEFINE last == Len(out[t]) + 1
    <3>1. \A k \in DOMAIN out'[t] : k = last \/ k \in DOMAIN out[t]
      BY <1>7
    <3>2. \A k \in DOMAIN out[t] : out'[t][k] = out[t][k] /\ out[t][k] # b
      BY <1>7, <1>10
    <3>3. out'[t][last] = b
      BY <1>7
    <3>4. CASE i \in DOMAIN out[t] /\ j \in DOMAIN out[t]
      BY <2>2, <3>2, <3>4 DEF NoByteTwice
    <3>5. CASE i = last \/ j = last
      BY <2>2, <3>1, <3>2, <3>3, <3>5
    <3> QED BY <2>2, <3>1, <3>4, <3>5
  <2> QED BY <2>1, <2>2
<1> QED BY <1>3, <1>4, <1>5, <1>8, <1>9, <1>11

(* Every step keeps the invariant. *)
LEMMA NextIInv == IInv /\ [Next]_vars => IInv'
<1> SUFFICES ASSUME IInv, [Next]_vars PROVE IInv'
  OBVIOUS
<1> USE DEF IInv
<1>1. ASSUME NEW t \in Ids, WriteBstr(t) PROVE IInv'
  BY <1>1, WriteStep, EncodingsAreSequences DEF WriteBstr
<1>2. ASSUME NEW t \in Ids, WriteElem(t) PROVE IInv'
  <2>1. PICK m \in Elem : Write(t, m, EncodeElem(m))
    BY <1>2 DEF WriteElem
  <2>3. EncodeElem(m) \in Seq(Symbol) /\ Len(EncodeElem(m)) > 0
    BY ElementIsSequence
  <2> QED BY <2>1, <2>3, WriteStep
<1>3. ASSUME NEW t \in Ids, WriteArray(t) PROVE IInv'
  <2>1. PICK n \in Lens : \E m \in Array(n) : Write(t, m, EncodeArray(m))
    BY <1>3 DEF WriteArray
  <2>2. PICK m \in Array(n) : Write(t, m, EncodeArray(m))
    BY <2>1
  <2>3. EncodeArray(m) \in Seq(Symbol) /\ Len(EncodeArray(m)) > 0
    BY EncodingsAreSequences
  <2> QED BY <2>2, <2>3, WriteStep
<1>4. ASSUME NEW t \in Ids, WriteZeros(t) PROVE IInv'
  <2>1. PICK n \in Lens : Write(t, Message("bstr", n, Zeros(n)), EncodeZeros(n))
    BY <1>4 DEF WriteZeros
  <2>2. EncodeZeros(n) \in Seq(Symbol) /\ Len(EncodeZeros(n)) > 0
    BY EncodingsAreSequences
  <2> QED BY <2>1, <2>2, WriteStep
<1>5. ASSUME NEW t \in Ids, Draw(t) PROVE IInv'
  <2>1. PICK n \in Lens :
          /\ Idle(t)
          /\ want' = [want EXCEPT ![t] = n]
          /\ prf' = [prf EXCEPT ![t] = IF prf[t] = NoPrf THEN NewPrf(sha[t]) ELSE prf[t]]
          /\ UNCHANGED <<live, sha, aborted, pos, out>>
    BY <1>5 DEF Draw
  <2>2. /\ NewPrf(sha[t]) \in PrfType /\ NewPrf(sha[t]) # NoPrf
        /\ NewPrf(sha[t]).nblock = 0 /\ NewPrf(sha[t]).rdptr = OutputSize
        /\ NewPrf(sha[t]).key = sha[t]
    BY SizeAssumption, NoPrfAssumption DEF NewPrf, PrfType, TypeOK
  <2>3. TypeOK'
    BY <2>1, <2>2, SizeAssumption DEF TypeOK
  <2>4. Unborn'
    BY <2>1, <2>2 DEF TypeOK, Unborn, Idle
  <2>5. 0 * OutputSize = 0 /\ OutputSize - OutputSize = 0
    BY SizeAssumption
  <2>6. StreamPosition'
    BY <2>1, <2>2, <2>5 DEF TypeOK, StreamPosition
  <2>7. BlocksUsed'
    BY <2>1, <2>2, SizeAssumption DEF TypeOK, BlocksUsed
  <2>8. BlocksInRange' /\ OutBehind' /\ NoByteTwice'
    BY <2>1 DEF BlocksInRange, OutBehind, NoByteTwice, Place
  <2> QED BY <2>3, <2>4, <2>6, <2>7, <2>8
<1>6. ASSUME NEW t \in Ids, DrawByte(t) PROVE IInv'
  BY <1>6, DrawByteStep
<1>7. ASSUME NEW t \in Ids, TooManyBlocks(t) PROVE IInv'
  BY <1>7 DEF TooManyBlocks, TypeOK, Unborn, StreamPosition, BlocksUsed,
     BlocksInRange, OutBehind, NoByteTwice, Place
<1>8. ASSUME NEW t \in Ids, NEW u \in Ids, Clone(t, u) PROVE IInv'
  <2>1. /\ u \notin live /\ live' = live \union {u}
        /\ sha' = [sha EXCEPT ![u] = sha[t]]
        /\ prf' = [prf EXCEPT ![u] = NoPrf]
        /\ pos' = [pos EXCEPT ![u] = 0]
        /\ UNCHANGED <<want, aborted, out>>
    BY <1>8 DEF Clone
  <2>3. out[u] = <<>> /\ want[u] = 0
    BY <2>1 DEF Unborn
  <2>4. TypeOK'
    BY <2>1 DEF TypeOK
  <2>5. Unborn' /\ StreamPosition' /\ BlocksUsed'
    BY <2>1, <2>3, SizeAssumption DEF TypeOK, Unborn, StreamPosition, BlocksUsed
  <2>6. BlocksInRange' /\ NoByteTwice'
    BY <2>1 DEF BlocksInRange, NoByteTwice
  <2>7. \A v \in Ids : v # u => sha'[v] = sha[v] /\ pos'[v] = pos[v]
    BY <2>1 DEF TypeOK
  <2>8. OutBehind'
    BY <2>1, <2>3, <2>7 DEF OutBehind, Place
  <2> QED BY <2>4, <2>5, <2>6, <2>8
<1>9. CASE UNCHANGED vars
  BY <1>9 DEF vars, TypeOK, Unborn, StreamPosition, BlocksUsed,
     BlocksInRange, OutBehind, NoByteTwice, Place
<1> QED BY <1>1, <1>2, <1>3, <1>4, <1>5, <1>6, <1>7, <1>8, <1>9 DEF Next

-----------------------------------------------------------------------------
(* The invariant holds in every reachable state. *)
LEMMA Invariance == Spec => []IInv
<1>1. Init => IInv
  BY InitIInv
<1>2. IInv /\ [Next]_vars => IInv'
  BY NextIInv
<1> QED BY <1>1, <1>2, PTL DEF Spec

(* The variables keep their types: the read pointer of FSPRF stays inside  *)
(* its buffer whatever is written, drawn and cloned.                       *)
THEOREM TypeCorrect == Spec => []TypeOK
<1>1. IInv => TypeOK
  BY DEF IInv
<1> QED BY <1>1, Invariance, PTL

(* The challenge stream is a function of the absorbed messages and of the  *)
(* number of bytes drawn since the last one (Transcript::bytes).           *)
THEOREM ChallengesAreReplayable == Spec => []StreamPosition
<1>1. IInv => StreamPosition
  BY DEF IInv
<1> QED BY <1>1, Invariance, PTL

(* No transcript hands out the same byte of a stream twice. *)
THEOREM ChallengesAreFresh == Spec => []NoByteTwice
<1>1. IInv => NoByteTwice
  BY DEF IInv
<1> QED BY <1>1, Invariance, PTL

(* FSPRF evaluates only the blocks below kMaxBlocks. *)
THEOREM BlockLimit == Spec => []BlocksInRange
<1>1. IInv => BlocksInRange
  BY DEF IInv
<1> QED BY <1>1, Invariance, PTL

(* Every byte drawn is keyed by everything absorbed up to the draw. *)
THEOREM ChallengesBind == Spec => ChallengesBindTranscript
<1> DEFINE Bound == \A t \in Ids :
             Len(out'[t]) > Len(out[t]) => out'[t][Len(out'[t])].key = sha[t]
<1>1. IInv /\ [Next]_vars => [Bound]_vars
  <2> SUFFICES ASSUME IInv, Next PROVE Bound
    OBVIOUS
  <2>1. ASSUME NEW t \in Ids, DrawByte(t) PROVE Bound
    <3>1. NextByte(prf[t]).key = sha[t]
      BY <2>1, OneTurn DEF DrawByte
    <3>2. out' = [out EXCEPT ![t] = Append(out[t], NextByte(prf[t]))]
      BY <2>1 DEF DrawByte
    <3>3. out \in [Ids -> Seq(StreamByte)]
      BY DEF IInv, TypeOK
    <3>4. ASSUME NEW u \in Ids, Len(out'[u]) > Len(out[u])
          PROVE  out'[u][Len(out'[u])].key = sha[u]
      <4>1. u = t
        BY <3>2, <3>3, <3>4
      <4>2. out'[t][Len(out'[t])] = NextByte(prf[t])
        BY <3>2, <3>3
      <4> QED BY <3>1, <4>1, <4>2
    <3> QED BY <3>4
  <2>2. ASSUME out' = out PROVE Bound
    BY <2>2 DEF IInv, TypeOK
  <2> QED
    BY <2>1, <2>2 DEF Next, WriteBstr, WriteElem, WriteArray, WriteZeros, Write,
       Draw, TooManyBlocks, Clone
<1> QED BY <1>1, Invariance, PTL DEF Spec, ChallengesBindTranscript

-----------------------------------------------------------------------------
(* A typed write *)
Typed(m) ==
  \/ \E n \in Nat : m \in Bstr(n)
  \/ m \in Elem
  \/ \E n \in Nat : m \in Array(n)

(* The symbols of its tag and length, and of its data *)
Prefix(m) == IF m.kind = "elem" THEN 1 ELSE 2
Size(m) == IF m.kind = "bstr" THEN m.n ELSE IF m.kind = "elem" THEN EltSize ELSE m.n * EltSize

(* Behind place c, s goes on with the encoding of m. *)
Reads(s, c, m) ==
  /\ m.kind = "bstr" => s[c + 1] = TagBstr
  /\ m.kind = "elem" => s[c + 1] = TagElem
  /\ m.kind = "array" => s[c + 1] = TagArray
  /\ m.kind # "elem" => s[c + 2] = m.n
  /\ \A k \in 1..Size(m) : s[c + (Prefix(m) + k)] = m.data[k]

Encodes(enc, m) == IsSeq(enc) /\ Len(enc) = Prefix(m) + Size(m) /\ Reads(enc, 0, m)

(* The places cut[0], cut[1], ... divide s into the encodings of ms. *)
Divides(cut, s, ms) ==
  /\ IsSeq(s) /\ IsSeq(ms)
  /\ cut[0] = 0 /\ cut[Len(ms)] = Len(s)
  /\ \A i \in 1..Len(ms) :
       /\ Typed(ms[i]) /\ cut[i - 1] \in Nat
       /\ cut[i] = cut[i - 1] + (Prefix(ms[i]) + Size(ms[i])) /\ cut[i] <= Len(s)
       /\ Reads(s, cut[i - 1], ms[i])

Divided(s, ms) == \E cut : Divides(cut, s, ms)

(* The parts of a typed write *)
LEMMA TypedMessages ==
  ASSUME NEW m, Typed(m)
  PROVE  /\ m = [kind |-> m.kind, n |-> m.n, data |-> m.data]
         /\ m.kind \in {"bstr", "elem", "array"} /\ m.n \in Nat
         /\ m.kind = "elem" => m.n = 1
         /\ Prefix(m) \in {1, 2} /\ Size(m) \in Nat
         /\ m.data = [k \in 1..Size(m) |-> m.data[k]]
<1>1. EltSize \in Nat BY SizeAssumption
<1>2. ASSUME NEW n \in Nat, NEW d \in Strings(n), m = Message("bstr", n, d)
      PROVE  /\ m = [kind |-> m.kind, n |-> m.n, data |-> m.data]
             /\ m.kind = "bstr" /\ m.n \in Nat /\ Prefix(m) = 2 /\ Size(m) \in Nat
             /\ m.data = [k \in 1..Size(m) |-> m.data[k]]
  <2>1. m.kind = "bstr" /\ m.n = n /\ m.data = d BY <1>2 DEF Message
  <2>2. d = [k \in 1..n |-> d[k]] BY DEF Strings
  <2> QED BY <1>2, <2>1, <2>2 DEF Message, Prefix, Size
<1>3. ASSUME NEW d \in Strings(EltSize), m = Message("elem", 1, d)
      PROVE  /\ m = [kind |-> m.kind, n |-> m.n, data |-> m.data]
             /\ m.kind = "elem" /\ m.n = 1 /\ Prefix(m) = 1 /\ Size(m) \in Nat
             /\ m.data = [k \in 1..Size(m) |-> m.data[k]]
  <2>1. m.kind = "elem" /\ m.n = 1 /\ m.data = d BY <1>3 DEF Message
  <2>2. d = [k \in 1..EltSize |-> d[k]] BY DEF Strings
  <2> QED BY <1>1, <1>3, <2>1, <2>2 DEF Message, Prefix, Size
<1>4. ASSUME NEW n \in Nat, NEW d \in Strings(n * EltSize), m = Message("array", n, d)
      PROVE  /\ m = [kind |-> m.kind, n |-> m.n, data |-> m.data]
             /\ m.kind = "array" /\ m.n \in Nat /\ Prefix(m) = 2 /\ Size(m) \in Nat
             /\ m.data = [k \in 1..Size(m) |-> m.data[k]]
  <2>1. m.kind = "array" /\ m.n = n /\ m.data = d BY <1>4 DEF Message
  <2>2. d = [k \in 1..(n * EltSize) |-> d[k]] BY DEF Strings
  <2>3. n * EltSize \in Nat BY <1>1
  <2> QED BY <1>4, <2>1, <2>2, <2>3 DEF Message, Prefix, Size
<1> QED BY <1>2, <1>3, <1>4 DEF Typed, Bstr, Elem, Array

(* Tag and length say how far the data goes: no encoding is a prefix of    *)
(* another one.                                                            *)
LEMMA OneReading ==
  ASSUME NEW s, NEW c \in Nat, NEW m, Typed(m), NEW o, Typed(o), Reads(s, c, m), Reads(s, c, o)
  PROVE  m = o
<1>1. /\ m = [kind |-> m.kind, n |-> m.n, data |-> m.data]
      /\ m.kind \in {"bstr", "elem", "array"}
      /\ m.kind = "elem" => m.n = 1
  BY TypedMessages
<1>2. /\ o = [kind |-> o.kind, n |-> o.n, data |-> o.data]
      /\ o.kind \in {"bstr", "elem", "array"}
      /\ o.kind = "elem" => o.n = 1
  BY TypedMessages
<1>3. m.kind = o.kind
  <2> DEFINE tag == s[c + 1]
  <2>1. /\ m.kind = "bstr" => tag = 0
        /\ m.kind = "elem" => tag = 1
        /\ m.kind = "array" => tag = 2
    BY DEF Reads, TagBstr, TagElem, TagArray
  <2>2. /\ o.kind = "bstr" => tag = 0
        /\ o.kind = "elem" => tag = 1
        /\ o.kind = "array" => tag = 2
    BY DEF Reads, TagBstr, TagElem, TagArray
  <2>3. m.kind \in {"bstr", "elem", "array"} /\ o.kind \in {"bstr", "elem", "array"}
    BY <1>1, <1>2
  <2> HIDE DEF tag
  <2>4. 0 # 1 /\ 0 # 2 /\ 1 # 2 OBVIOUS
  <2> QED BY <2>1, <2>2, <2>3, <2>4, Zenon
<1>4. m.n = o.n BY <1>1, <1>2, <1>3 DEF Reads
<1>5. Size(m) = Size(o) /\ Prefix(m) = Prefix(o) BY <1>3, <1>4 DEF Size, Prefix
<1>6. \A k \in 1..Size(m) : m.data[k] = o.data[k] BY <1>5 DEF Reads
<1>7. m.data = [k \in 1..Size(m) |-> m.data[k]] BY TypedMessages
<1>8. o.data = [k \in 1..Size(m) |-> o.data[k]] BY <1>5, TypedMessages
<1>9. m.data = o.data BY <1>6, <1>7, <1>8, Zenon
<1> QED BY <1>1, <1>2, <1>3, <1>4, <1>9

(* Concatenation, as a named fact *)
LEMMA Composition ==
  \A s, t : IsSeq(s) /\ IsSeq(t) => IsSeq(s \o t) /\ Composed(s \o t, s, t)
<1> SUFFICES ASSUME NEW s, NEW t, IsSeq(s), IsSeq(t) PROVE IsSeq(s \o t) /\ Composed(s \o t, s, t)
  OBVIOUS
<1> QED BY Concatenation DEF Composed

(* The encodings of the code *)
LEMMA EncodingReads ==
  ASSUME NEW m, Typed(m), NEW h, IsSeq(h), NEW d, d = m.data, Len(h) = Prefix(m),
         m.kind = "bstr" => h[1] = TagBstr, m.kind = "elem" => h[1] = TagElem,
         m.kind = "array" => h[1] = TagArray, m.kind # "elem" => h[2] = m.n
  PROVE  Encodes(h \o d, m)
<1>1. /\ m.kind \in {"bstr", "elem", "array"} /\ Prefix(m) \in {1, 2} /\ Size(m) \in Nat
      /\ d = [k \in 1..Size(m) |-> d[k]]
  BY TypedMessages
<1>2. IsSeq(d) /\ Len(d) = Size(m) BY <1>1, SequenceOfLength
<1> DEFINE e == h \o d
<1>3. /\ IsSeq(e) /\ Len(e) = Len(h) + Len(d)
      /\ \A k \in 1..Len(h) : e[k] = h[k]
      /\ \A k \in 1..Len(d) : e[Len(h) + k] = d[k]
  <2>1. IsSeq(h) /\ IsSeq(d) BY <1>2
  <2>2. IsSeq(e) /\ Composed(e, h, d) BY <2>1, Composition, Zenon
  <2> QED BY <2>2, Zenon DEF Composed
<1> HIDE DEF e
<1>4. e[1] = h[1] BY <1>1, <1>3
<1>5. m.kind # "elem" => e[2] = h[2] BY <1>3 DEF Prefix
<1>6. \A k \in 1..Size(m) : e[0 + (Prefix(m) + k)] = m.data[k] BY <1>1, <1>2, <1>3
<1>7. Reads(e, 0, m) BY <1>4, <1>5, <1>6 DEF Reads
<1> QED BY <1>2, <1>3, <1>7 DEF Encodes, e

(* Each write() absorbs the encoding of its message. *)
LEMMA EncodeWrites ==
  /\ \A n \in Nat : \A m \in Bstr(n) : Typed(m) /\ Encodes(EncodeBstr(m), m)
  /\ \A m \in Elem : Typed(m) /\ Encodes(EncodeElem(m), m)
  /\ \A n \in Nat : \A m \in Array(n) : Typed(m) /\ Encodes(EncodeArray(m), m)
<1>1. ASSUME NEW n \in Nat, NEW m \in Bstr(n) PROVE Typed(m) /\ Encodes(EncodeBstr(m), m)
  <2>1. Typed(m) BY DEF Typed
  <2>2. m.kind = "bstr" BY DEF Bstr, Message
  <2> DEFINE h == <<TagBstr, m.n>>
  <2>3. h \in Seq({TagBstr, m.n}) /\ Len(h) = 2 /\ h[1] = TagBstr /\ h[2] = m.n OBVIOUS
  <2>4. EncodeBstr(m) = h \o m.data BY DEF EncodeBstr
  <2> HIDE DEF h
  <2>5. IsSeq(h) BY <2>3 DEF IsSeq
  <2>6. Len(h) = Prefix(m) BY <2>2, <2>3 DEF Prefix
  <2> QED BY <2>1, <2>2, <2>3, <2>4, <2>5, <2>6, EncodingReads
<1>2. ASSUME NEW m \in Elem PROVE Typed(m) /\ Encodes(EncodeElem(m), m)
  <2>1. Typed(m) BY DEF Typed
  <2>2. m.kind = "elem" BY DEF Elem, Message
  <2> DEFINE h == <<TagElem>>
  <2>3. h \in Seq({TagElem}) /\ Len(h) = 1 /\ h[1] = TagElem OBVIOUS
  <2>4. EncodeElem(m) = h \o m.data BY DEF EncodeElem
  <2> HIDE DEF h
  <2>5. IsSeq(h) BY <2>3 DEF IsSeq
  <2>6. Len(h) = Prefix(m) BY <2>2, <2>3 DEF Prefix
  <2> QED BY <2>1, <2>2, <2>3, <2>4, <2>5, <2>6, EncodingReads
<1>3. ASSUME NEW n \in Nat, NEW m \in Array(n) PROVE Typed(m) /\ Encodes(EncodeArray(m), m)
  <2>1. Typed(m) BY DEF Typed
  <2>2. m.kind = "array" BY DEF Array, Message
  <2> DEFINE h == <<TagArray, m.n>>
  <2>3. h \in Seq({TagArray, m.n}) /\ Len(h) = 2 /\ h[1] = TagArray /\ h[2] = m.n OBVIOUS
  <2>4. EncodeArray(m) = h \o m.data BY DEF EncodeArray
  <2> HIDE DEF h
  <2>5. IsSeq(h) BY <2>3 DEF IsSeq
  <2>6. Len(h) = Prefix(m) BY <2>2, <2>3 DEF Prefix
  <2> QED BY <2>1, <2>2, <2>3, <2>4, <2>5, <2>6, EncodingReads
<1> QED BY <1>1, <1>2, <1>3

(* write0(n) absorbs what write() of n zero bytes does. *)
LEMMA EncodeZerosIsWrite ==
  ASSUME NEW n \in Nat
  PROVE  LET m == Message("bstr", n, Zeros(n)) IN Typed(m) /\ Encodes(EncodeZeros(n), m)
<1> DEFINE m == Message("bstr", n, Zeros(n))
<1>1. Zeros(n) \in Strings(n) BY ByteAssumption DEF Zeros, Strings
<1>2. m \in Bstr(n) /\ m.n = n /\ m.data = Zeros(n) BY <1>1 DEF Bstr, Message
<1> DEFINE j == FullChunks(n) * ZeroChunk
           a == Zeros(j)   b == Zeros(n - j)   h == <<TagBstr, n>>   z == Zeros(n)
<1>3. j \in Nat /\ n - j \in Nat BY ChunksFit
<1>4. EncodeZeros(n) = (h \o a) \o b BY DEF EncodeZeros
<1>5. EncodeBstr(m) = h \o z BY <1>2 DEF EncodeBstr
<1>6. h \in Seq({TagBstr, n}) OBVIOUS
<1> HIDE DEF j
<1>7. /\ a = [k \in 1..j |-> a[k]] /\ b = [k \in 1..(n - j) |-> b[k]]
      /\ z = [k \in 1..n |-> z[k]]
      /\ (\A k \in 1..j : a[k] = 0) /\ (\A k \in 1..(n - j) : b[k] = 0)
      /\ (\A k \in 1..n : z[k] = 0)
  BY DEF Zeros
<1> HIDE DEF h, a, b, z
<1>8. IsSeq(a) /\ Len(a) = j /\ IsSeq(b) /\ Len(b) = n - j /\ IsSeq(z) /\ Len(z) = n
  BY <1>3, <1>7, SequenceOfLength
<1>9. IsSeq(h) BY <1>6 DEF IsSeq
<1>10. Composed(z, a, b) BY <1>3, <1>7, <1>8 DEF Composed
<1>11. a \o b = z BY <1>8, <1>10, ConcatenationIs
<1>12. (h \o a) \o b = h \o (a \o b)
  <2>1. IsSeq(h) /\ IsSeq(a) /\ IsSeq(b) BY <1>8, <1>9
  <2> QED BY <2>1, ConcatenationIsAssociative
<1>13. EncodeZeros(n) = EncodeBstr(m) BY <1>4, <1>5, <1>11, <1>12
<1> HIDE DEF m
<1>14. Typed(m) /\ Encodes(EncodeZeros(n), m) BY <1>2, <1>13, EncodeWrites
<1> QED BY <1>14 DEF m

(* One write more *)
LEMMA DividedGrows ==
  ASSUME NEW s, NEW ms, Divided(s, ms), NEW m, Typed(m), NEW enc, Encodes(enc, m)
  PROVE  Divided(s \o enc, Append(ms, m))
<1>1. PICK cut : Divides(cut, s, ms) BY DEF Divided
<1>2. IsSeq(s) /\ IsSeq(ms) /\ cut[0] = 0 /\ cut[Len(ms)] = Len(s) BY <1>1 DEF Divides
<1>3. IsSeq(enc) /\ Len(enc) = Prefix(m) + Size(m) /\ Reads(enc, 0, m) BY DEF Encodes
<1>4. Prefix(m) \in {1, 2} /\ Size(m) \in Nat BY TypedMessages
<1> DEFINE t == s \o enc   ns == Append(ms, m)   n == Len(ms) + 1
           new == [i \in 0..n |-> IF i = n THEN Len(t) ELSE cut[i]]
<1>5. /\ IsSeq(t) /\ Len(t) = Len(s) + Len(enc)
      /\ \A k \in 1..Len(s) : t[k] = s[k]
      /\ \A k \in 1..Len(enc) : t[Len(s) + k] = enc[k]
  <2>1. IsSeq(s) /\ IsSeq(enc) BY <1>2, <1>3
  <2> QED BY <2>1, Concatenation
<1>6. /\ IsSeq(ns) /\ Len(ns) = n
      /\ \A k \in 1..Len(ms) : ns[k] = ms[k]
      /\ ns[n] = m
  BY <1>2, OneMore
<1>7. Len(s) \in Nat /\ Len(ms) \in Nat /\ Len(enc) \in Nat BY <1>2, <1>3, LengthOfSequence
<1>8. new[n] = Len(t) /\ \A i \in 0..Len(ms) : new[i] = cut[i] BY <1>7
<1> HIDE DEF t, ns, new
<1>9. ASSUME NEW i \in 1..Len(ms)
      PROVE  /\ Typed(ns[i]) /\ new[i - 1] \in Nat
             /\ new[i] = new[i - 1] + (Prefix(ns[i]) + Size(ns[i])) /\ new[i] <= Len(t)
             /\ Reads(t, new[i - 1], ns[i])
  <2>1. /\ Typed(ms[i]) /\ cut[i - 1] \in Nat
        /\ cut[i] = cut[i - 1] + (Prefix(ms[i]) + Size(ms[i])) /\ cut[i] <= Len(s)
        /\ Reads(s, cut[i - 1], ms[i])
    BY <1>1 DEF Divides
  <2>2. i - 1 \in 0..Len(ms) /\ i \in 0..Len(ms) BY <1>7
  <2>3. new[i] = cut[i] /\ new[i - 1] = cut[i - 1] /\ ns[i] = ms[i] BY <1>6, <1>8, <2>2
  <2>4. Prefix(ms[i]) \in {1, 2} /\ Size(ms[i]) \in Nat BY <2>1, TypedMessages
  <2>5. Len(s) <= Len(t) BY <1>5, <1>7
  <2>6. Reads(t, cut[i - 1], ms[i])
    <3> DEFINE c == cut[i - 1]   o == ms[i]
    <3>1. c \in Nat /\ c + (Prefix(o) + Size(o)) <= Len(s) /\ Prefix(o) \in {1, 2} /\ Size(o) \in Nat
          /\ Reads(s, c, o)
      BY <2>1, <2>4
    <3> HIDE DEF c, o
    <3>2. t[c + 1] = s[c + 1]
      <4>1. c + 1 \in 1..Len(s) BY <1>7, <3>1
      <4> QED BY <1>5, <4>1
    <3>3. o.kind # "elem" => t[c + 2] = s[c + 2]
      <4>1. o.kind # "elem" => Prefix(o) = 2 BY DEF Prefix
      <4>2. o.kind # "elem" => c + 2 \in 1..Len(s) BY <1>7, <3>1, <4>1
      <4> QED BY <1>5, <4>2
    <3>4. \A k \in 1..Size(o) : t[c + (Prefix(o) + k)] = s[c + (Prefix(o) + k)]
      <4>1. \A k \in 1..Size(o) : c + (Prefix(o) + k) \in 1..Len(s) BY <1>7, <3>1
      <4> QED BY <1>5, <4>1
    <3>5. Reads(t, c, o) BY <3>1, <3>2, <3>3, <3>4 DEF Reads
    <3> QED BY <3>5 DEF c, o
  <2> QED BY <1>7, <2>1, <2>3, <2>4, <2>5, <2>6
<1>10. /\ Typed(ns[n]) /\ new[n - 1] \in Nat
       /\ new[n] = new[n - 1] + (Prefix(ns[n]) + Size(ns[n])) /\ new[n] <= Len(t)
       /\ Reads(t, new[n - 1], ns[n])
  <2>1. new[n - 1] = Len(s)
    <3>1. n - 1 = Len(ms) /\ Len(ms) \in 0..Len(ms) BY <1>7
    <3> QED BY <1>2, <1>8, <3>1
  <2>2. Reads(t, Len(s), m)
    <3>1. t[Len(s) + 1] = enc[1] BY <1>3, <1>4, <1>5, <1>7
    <3>2. m.kind # "elem" => t[Len(s) + 2] = enc[2]
      <4>1. m.kind # "elem" => Prefix(m) = 2 BY DEF Prefix
      <4> QED BY <1>3, <1>4, <1>5, <1>7, <4>1
    <3>3. \A k \in 1..Size(m) : t[Len(s) + (Prefix(m) + k)] = enc[Prefix(m) + k]
      BY <1>3, <1>4, <1>5, <1>7
    <3>4. \A k \in 1..Size(m) : enc[Prefix(m) + k] = m.data[k]
      <4>1. \A k \in 1..Size(m) : enc[0 + (Prefix(m) + k)] = m.data[k] BY <1>3 DEF Reads
      <4>2. \A k \in 1..Size(m) : 0 + (Prefix(m) + k) = Prefix(m) + k BY <1>4
      <4> QED BY <4>1, <4>2
    <3>5. enc[0 + 1] = enc[1] /\ enc[0 + 2] = enc[2] OBVIOUS
    <3> QED BY <1>3, <3>1, <3>2, <3>3, <3>4, <3>5 DEF Reads
  <2> QED BY <1>3, <1>4, <1>5, <1>6, <1>7, <1>8, <2>1, <2>2
<1>11. new[0] = 0 /\ new[Len(ns)] = Len(t)
  <2>1. 0 \in 0..Len(ms) BY <1>7
  <2> QED BY <1>2, <1>6, <1>8, <2>1
<1>12. \A i \in 1..Len(ns) : i \in 1..Len(ms) \/ i = n BY <1>6, <1>7
<1>13. Divides(new, t, ns) BY <1>5, <1>6, <1>9, <1>10, <1>11, <1>12 DEF Divides
<1> QED BY <1>13 DEF Divided, t, ns

(* The symbols say which messages were written. *)
LEMMA DividedOnce ==
  ASSUME NEW s, NEW ms, NEW os, Divided(s, ms), Divided(s, os)
  PROVE  ms = os
<1>1. PICK f : Divides(f, s, ms) BY DEF Divided
<1>2. PICK g : Divides(g, s, os) BY DEF Divided
<1>3. IsSeq(ms) /\ IsSeq(os) /\ f[0] = 0 /\ g[0] = 0 /\ f[Len(ms)] = Len(s) /\ g[Len(os)] = Len(s)
  BY <1>1, <1>2 DEF Divides
<1>4. Len(ms) \in Nat /\ Len(os) \in Nat BY <1>3, LengthOfSequence
<1>5. \A i \in 1..Len(ms) :
        /\ Typed(ms[i]) /\ f[i - 1] \in Nat /\ f[i] = f[i - 1] + (Prefix(ms[i]) + Size(ms[i]))
        /\ f[i] <= Len(s) /\ Reads(s, f[i - 1], ms[i])
        /\ Prefix(ms[i]) \in {1, 2} /\ Size(ms[i]) \in Nat
  BY <1>1, TypedMessages DEF Divides
<1>6. \A i \in 1..Len(os) :
        /\ Typed(os[i]) /\ g[i - 1] \in Nat /\ g[i] = g[i - 1] + (Prefix(os[i]) + Size(os[i]))
        /\ g[i] <= Len(s) /\ Reads(s, g[i - 1], os[i])
        /\ Prefix(os[i]) \in {1, 2} /\ Size(os[i]) \in Nat
  BY <1>2, TypedMessages DEF Divides
<1> DEFINE Same(i) == f[i] = g[i] /\ (i > 0 => ms[i] = os[i])
           S == {i \in Nat : i <= Len(ms) /\ i <= Len(os) => Same(i)}
<1>7. 0 \in S BY <1>3
<1>8. ASSUME NEW i \in Nat, i \in S PROVE i + 1 \in S
  <2> SUFFICES ASSUME i + 1 <= Len(ms), i + 1 <= Len(os) PROVE Same(i + 1) OBVIOUS
  <2>1. i + 1 \in 1..Len(ms) /\ i + 1 \in 1..Len(os) /\ (i + 1) - 1 = i BY <1>4
  <2>2. f[i] = g[i] BY <1>4, <1>8
  <2>3. /\ Typed(ms[i + 1]) /\ Typed(os[i + 1]) /\ f[i] \in Nat
        /\ Reads(s, f[i], ms[i + 1]) /\ Reads(s, f[i], os[i + 1])
    BY <1>5, <1>6, <2>1, <2>2
  <2>4. ms[i + 1] = os[i + 1] BY <2>3, OneReading
  <2> QED BY <1>5, <1>6, <2>1, <2>2, <2>4
<1>9. \A i \in Nat : i \in S
  <2> HIDE DEF S
  <2> QED BY <1>7, <1>8, Induction
<1>10. \A i \in Nat : i <= Len(ms) /\ i <= Len(os) => Same(i) BY <1>9
<1>11. Len(ms) = Len(os)
  <2>1. ASSUME Len(ms) < Len(os) PROVE FALSE
    <3>1. f[Len(ms)] = g[Len(ms)] BY <1>4, <1>10, <2>1
    <3>2. Len(ms) + 1 \in 1..Len(os) /\ (Len(ms) + 1) - 1 = Len(ms) BY <1>4, <2>1
    <3>3. /\ g[Len(ms) + 1] = g[Len(ms)] + (Prefix(os[Len(ms) + 1]) + Size(os[Len(ms) + 1]))
          /\ g[Len(ms) + 1] <= Len(s) /\ g[Len(ms)] \in Nat
          /\ Prefix(os[Len(ms) + 1]) \in {1, 2} /\ Size(os[Len(ms) + 1]) \in Nat
      BY <1>6, <3>2
    <3>4. g[Len(ms)] = Len(s) BY <1>3, <3>1
    <3> HIDE DEF Same, S
    <3> QED BY <3>3, <3>4
  <2>2. ASSUME Len(os) < Len(ms) PROVE FALSE
    <3>1. f[Len(os)] = g[Len(os)] BY <1>4, <1>10, <2>2
    <3>2. Len(os) + 1 \in 1..Len(ms) /\ (Len(os) + 1) - 1 = Len(os) BY <1>4, <2>2
    <3>3. /\ f[Len(os) + 1] = f[Len(os)] + (Prefix(ms[Len(os) + 1]) + Size(ms[Len(os) + 1]))
          /\ f[Len(os) + 1] <= Len(s) /\ f[Len(os)] \in Nat
          /\ Prefix(ms[Len(os) + 1]) \in {1, 2} /\ Size(ms[Len(os) + 1]) \in Nat
      BY <1>5, <3>2
    <3>4. f[Len(os)] = Len(s) BY <1>3, <3>1
    <3> HIDE DEF Same, S
    <3> QED BY <3>3, <3>4
  <2> QED BY <1>4, <2>1, <2>2
<1>12. \A i \in 1..Len(ms) : ms[i] = os[i] BY <1>4, <1>10, <1>11
<1> QED BY <1>3, <1>11, <1>12, SequenceEquality

-----------------------------------------------------------------------------
(* What a hash absorbed is the encodings of the messages of its history. *)
Absorbed ==
  /\ msgs = [t \in Ids |-> msgs[t]]
  /\ \A t \in live : Divided(sha[t], msgs[t])

(* The constructor absorbs one message. *)
LEMMA InitAbsorbed == Init => Absorbed
<1> SUFFICES ASSUME Init PROVE Absorbed OBVIOUS
<1>1. PICK n \in Lens : \E m \in Bstr(n) :
        /\ sha = [t \in Ids |-> IF t = Root THEN EncodeBstr(m) ELSE <<>>]
        /\ msgs = [t \in Ids |-> IF t = Root THEN <<m>> ELSE <<>>]
  BY DEF Init
<1>2. PICK m \in Bstr(n) :
        /\ sha = [t \in Ids |-> IF t = Root THEN EncodeBstr(m) ELSE <<>>]
        /\ msgs = [t \in Ids |-> IF t = Root THEN <<m>> ELSE <<>>]
  BY <1>1
<1>3. n \in Nat BY SizeAssumption
<1>4. Typed(m) /\ Encodes(EncodeBstr(m), m) BY <1>3, EncodeWrites
<1>5. sha[Root] = EncodeBstr(m) /\ msgs[Root] = <<m>> BY <1>2, RootAssumption
<1> DEFINE e == EncodeBstr(m)
<1>6. Typed(m) /\ Encodes(e, m) BY <1>4
<1> HIDE DEF e
<1>7. Divided(e, <<m>>)
  <2> DEFINE f == [i \in 0..1 |-> IF i = 0 THEN 0 ELSE Len(e)]
             one == <<m>>
  <2>1. f[0] = 0 /\ f[1] = Len(e) OBVIOUS
  <2>2. one \in Seq({m}) /\ Len(one) = 1 /\ one[1] = m OBVIOUS
  <2> HIDE DEF f, one
  <2>3. IsSeq(one) BY <2>2 DEF IsSeq
  <2>4. IsSeq(e) /\ Len(e) = Prefix(m) + Size(m) /\ Reads(e, 0, m) BY <1>6 DEF Encodes
  <2>5. Prefix(m) \in {1, 2} /\ Size(m) \in Nat BY <1>6, TypedMessages
  <2>6. \A i \in 1..Len(one) : i = 1 /\ i - 1 = 0 BY <2>2
  <2>7. Divides(f, e, one) BY <1>6, <2>1, <2>2, <2>3, <2>4, <2>5, <2>6 DEF Divides
  <2> QED BY <2>7 DEF Divided, one
<1>8. live = {Root} BY DEF Init
<1>9. msgs = [t \in Ids |-> msgs[t]] BY <1>2
<1> QED BY <1>5, <1>7, <1>8, <1>9 DEF Absorbed, e

(* A write adds its message to both. *)
LEMMA WriteAbsorbs ==
  ASSUME IInv, Absorbed, NEW t \in Ids, NEW m, Typed(m), NEW enc, Encodes(enc, m), Write(t, m, enc)
  PROVE  Absorbed'
<1>1. /\ sha' = [sha EXCEPT ![t] = sha[t] \o enc]
      /\ msgs' = [msgs EXCEPT ![t] = Append(msgs[t], m)]
      /\ live' = live /\ t \in live
  BY DEF Write, Absorb, Idle
<1>2. live \subseteq Ids /\ sha = [u \in Ids |-> sha[u]] /\ msgs = [u \in Ids |-> msgs[u]]
  BY DEF IInv, TypeOK, Absorbed
<1>3. Divided(sha[t], msgs[t]) BY <1>1 DEF Absorbed
<1> DEFINE s == sha[t]   ms == msgs[t]
<1>4. Divided(s, ms) BY <1>3
<1>5. sha'[t] = s \o enc /\ msgs'[t] = Append(ms, m) BY <1>1, <1>2
<1> HIDE DEF s, ms
<1>6. Divided(s \o enc, Append(ms, m)) BY <1>4, DividedGrows
<1>7. \A u \in live : u # t => sha'[u] = sha[u] /\ msgs'[u] = msgs[u] BY <1>1, <1>2
<1>8. ASSUME NEW u \in live' PROVE Divided(sha'[u], msgs'[u])
  <2>1. CASE u = t BY <1>5, <1>6, <2>1
  <2>2. CASE u # t
    <3>1. sha'[u] = sha[u] /\ msgs'[u] = msgs[u] /\ u \in live BY <1>1, <1>7, <2>2
    <3>2. Divided(sha[u], msgs[u]) BY <3>1 DEF Absorbed
    <3> QED BY <3>1, <3>2
  <2> QED BY <2>1, <2>2
<1>9. msgs' = [u \in Ids |-> msgs'[u]] BY <1>1, <1>2
<1> QED BY <1>8, <1>9 DEF Absorbed

(* Every step keeps hash and messages together; a clone copies both. *)
LEMMA NextAbsorbed == IInv /\ Absorbed /\ [Next]_vars => Absorbed'
<1> SUFFICES ASSUME IInv, Absorbed, [Next]_vars PROVE Absorbed' OBVIOUS
<1>1. Lens \subseteq Nat BY SizeAssumption
<1>2. ASSUME NEW t \in Ids, WriteBstr(t) PROVE Absorbed'
  <2>1. PICK n \in Lens : \E m \in Bstr(n) : Write(t, m, EncodeBstr(m)) BY <1>2 DEF WriteBstr
  <2>2. PICK m \in Bstr(n) : Write(t, m, EncodeBstr(m)) BY <2>1
  <2>3. Typed(m) /\ Encodes(EncodeBstr(m), m) BY <1>1, EncodeWrites
  <2> QED BY <2>2, <2>3, WriteAbsorbs
<1>3. ASSUME NEW t \in Ids, WriteElem(t) PROVE Absorbed'
  <2>1. PICK m \in Elem : Write(t, m, EncodeElem(m)) BY <1>3 DEF WriteElem
  <2>2. Typed(m) /\ Encodes(EncodeElem(m), m) BY EncodeWrites
  <2> QED BY <2>1, <2>2, WriteAbsorbs
<1>4. ASSUME NEW t \in Ids, WriteArray(t) PROVE Absorbed'
  <2>1. PICK n \in Lens : \E m \in Array(n) : Write(t, m, EncodeArray(m)) BY <1>4 DEF WriteArray
  <2>2. PICK m \in Array(n) : Write(t, m, EncodeArray(m)) BY <2>1
  <2>3. Typed(m) /\ Encodes(EncodeArray(m), m) BY <1>1, EncodeWrites
  <2> QED BY <2>2, <2>3, WriteAbsorbs
<1>5. ASSUME NEW t \in Ids, WriteZeros(t) PROVE Absorbed'
  <2>1. PICK n \in Lens : Write(t, Message("bstr", n, Zeros(n)), EncodeZeros(n))
    BY <1>5 DEF WriteZeros
  <2> DEFINE m == Message("bstr", n, Zeros(n))
  <2>2. n \in Nat BY <1>1
  <2>3. Typed(m) /\ Encodes(EncodeZeros(n), m) BY <2>2, EncodeZerosIsWrite
  <2>4. Write(t, m, EncodeZeros(n)) BY <2>1
  <2> HIDE DEF m
  <2> QED BY <2>3, <2>4, WriteAbsorbs
<1>6. ASSUME NEW t \in Ids, Draw(t) \/ DrawByte(t) \/ TooManyBlocks(t) PROVE Absorbed'
  <2>1. live' = live /\ sha' = sha /\ msgs' = msgs BY <1>6 DEF Draw, DrawByte, TooManyBlocks
  <2> QED BY <2>1 DEF Absorbed
<1>7. ASSUME NEW t \in Ids, NEW u \in Ids, Clone(t, u) PROVE Absorbed'
  <2>1. /\ t \in live /\ live' = live \union {u}
        /\ sha' = [sha EXCEPT ![u] = sha[t]] /\ msgs' = [msgs EXCEPT ![u] = msgs[t]]
    BY <1>7 DEF Clone, Idle
  <2>2. sha = [v \in Ids |-> sha[v]] /\ msgs = [v \in Ids |-> msgs[v]] /\ live \subseteq Ids
    BY DEF IInv, TypeOK, Absorbed
  <2>3. sha'[u] = sha[t] /\ msgs'[u] = msgs[t] BY <2>1, <2>2
  <2>4. \A v \in live : v # u => sha'[v] = sha[v] /\ msgs'[v] = msgs[v] BY <2>1, <2>2
  <2>5. ASSUME NEW v \in live' PROVE Divided(sha'[v], msgs'[v])
    <3>1. CASE v = u
      <4>1. Divided(sha[t], msgs[t]) BY <2>1 DEF Absorbed
      <4> QED BY <2>3, <3>1, <4>1
    <3>2. CASE v # u
      <4>1. v \in live BY <2>1, <3>2
      <4>2. Divided(sha[v], msgs[v]) BY <4>1 DEF Absorbed
      <4> QED BY <2>4, <3>2, <4>1, <4>2
    <3> QED BY <3>1, <3>2
  <2>6. msgs' = [v \in Ids |-> msgs'[v]] BY <2>1, <2>2
  <2> QED BY <2>5, <2>6 DEF Absorbed
<1>8. CASE UNCHANGED vars BY <1>8 DEF vars, Absorbed
<1> QED BY <1>2, <1>3, <1>4, <1>5, <1>6, <1>7, <1>8 DEF Next

(* Whoever absorbed the same symbols was written the same messages, for    *)
(* every size of elements and chunks and every sequence of writes.         *)
THEOREM EncodingIsInjective == Spec => []Unambiguous
<1>1. Init => Absorbed BY InitAbsorbed
<1>2. IInv /\ Absorbed /\ [Next]_vars => Absorbed' BY NextAbsorbed
<1>3. Absorbed => Unambiguous
  <2> SUFFICES ASSUME Absorbed, NEW t \in live, NEW u \in live, sha[t] = sha[u]
               PROVE  msgs[t] = msgs[u]
    BY DEF Unambiguous
  <2>1. Divided(sha[t], msgs[t]) /\ Divided(sha[t], msgs[u]) BY Zenon DEF Absorbed
  <2> QED BY <2>1, DividedOnce
<1> QED BY <1>1, <1>2, <1>3, Invariance, PTL DEF Spec
=============================================================================
