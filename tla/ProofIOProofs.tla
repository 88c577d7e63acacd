--------------------------- MODULE ProofIOProofs ---------------------------
(***************************************************************************)
(* What the proof serialisation of ProofIO promises, for every field,      *)
(* every list of layers, every size of the Ligero vectors and every mix of *)
(* full-field and subfield cells.                                          *)
(*                                                                         *)
(* ReaderIsSafe: whatever bytes arrive, read() stays inside them, never    *)
(* fails a check of ReadBuffer and accepts only a well-formed proof.  Its  *)
(* invariant is Inside, which bounds the positions and types both proofs.  *)
(*                                                                         *)
(* WhatIsWrittenIsRead: the bytes of write() are accepted and give the     *)
(* prover's proof back.  While it writes, the writer leaves a trail: the   *)
(* set of places (section, cell, kind of run, position in the buffer) it   *)
(* passed, each with a turn to the next place and the bytes of the turn in *)
(* the buffer.  The reader is on that trail at every step and holds what   *)
(* the writer had behind it (OnTrail).                                     *)
(***************************************************************************)
EXTENDS ProofIO, SequenceLemmas, SequenceTheorems, TLAPS

-----------------------------------------------------------------------------
(* Bytes *)

(* The fold of OfBytes takes the bytes from the first on. *)
Folds(g, s, T) ==
  g = [t \in T |-> IF t = {} THEN 0 ELSE s[Min(t)] + Byte * g[t \ {Min(t)}]]

(* The least of a set of places that holds the first one *)
LEMMA FirstIsLeast ==
  ASSUME NEW a \in Nat, NEW b \in Nat, NEW t, t \subseteq a..b, a \in t
  PROVE  Min(t) = a /\ t \ {Min(t)} \subseteq (a + 1)..b
<1>1. \A y \in t : a <= y BY SMT
<1>2. \A x \in t : (\A y \in t : x <= y) => x = a BY <1>1, SMT
<1>3. Min(t) = a BY <1>1, <1>2, Zenon DEF Min
<1>4. t \ {a} \subseteq (a + 1)..b BY SMT
<1> QED BY <1>3, <1>4

(* The intervals that end at n, from the empty one on *)
LEMMA FoldExists ==
  ASSUME NEW s, NEW n \in Nat
  PROVE  \E g : Folds(g, s, SUBSET (1..n))
<1> DEFINE D(m) == SUBSET ((n + 1 - m)..n)
           Has(m) == \E g : Folds(g, s, D(m))
           S == {m \in Nat : m <= n => Has(m)}
<1>1. 0 \in S
  <2>1. (n + 1 - 0)..n = {} BY SMT
  <2>2. D(0) = {{}} BY <2>1
  <2>3. Folds([t \in D(0) |-> 0], s, D(0))
    <3>1. \A t \in D(0) : t = {} BY <2>2
    <3> QED BY <3>1, Zenon DEF Folds
  <2> QED BY <2>3
<1>2. ASSUME NEW m \in Nat, m \in S PROVE m + 1 \in S
  <2> SUFFICES ASSUME m + 1 <= n PROVE Has(m + 1)
    <3> HIDE DEF Has
    <3> QED OBVIOUS
  <2>1. PICK f : Folds(f, s, D(m))
    <3>1. Has(m)
      <4> HIDE DEF Has
      <4> QED BY <1>2
    <3> QED BY <3>1
  <2> DEFINE a == n - m
  <2>2. a \in Nat /\ a >= 1 /\ n + 1 - (m + 1) = a /\ n + 1 - m = a + 1 BY SMT
  <2>3. D(m + 1) = SUBSET (a..n) /\ D(m) = SUBSET ((a + 1)..n) BY <2>2
  <2> HIDE DEF a, D
  <2> DEFINE rest(t) == IF t = {} THEN 0 ELSE s[Min(t)] + Byte * f[t \ {Min(t)}]
             g == [t \in D(m + 1) |-> IF t \in D(m) THEN f[t] ELSE rest(t)]
  <2>4. \A t \in D(m) : f[t] = rest(t)
    BY <2>1, Zenon DEF Folds
  <2>5. ASSUME NEW t \in D(m + 1), t # {} PROVE t \ {Min(t)} \in D(m) /\ t \ {Min(t)} \in D(m + 1)
    <3>1. CASE a \in t
      <4>1. t \ {Min(t)} \subseteq (a + 1)..n BY <2>2, <2>3, <2>5, <3>1, FirstIsLeast
      <4>2. (a + 1)..n \subseteq a..n BY <2>2, SMT
      <4> QED BY <2>3, <4>1, <4>2
    <3>2. CASE a \notin t
      <4>1. t \subseteq (a + 1)..n
        <5>1. \A x \in a..n : x # a => x \in (a + 1)..n BY <2>2, SMT
        <5> QED BY <2>3, <3>2, <5>1
      <4>2. (a + 1)..n \subseteq a..n BY <2>2, SMT
      <4> QED BY <2>3, <4>1, <4>2
    <3> QED BY <3>1, <3>2
  <2>6. ASSUME NEW t \in D(m + 1)
        PROVE  g[t] = IF t = {} THEN 0 ELSE s[Min(t)] + Byte * g[t \ {Min(t)}]
    <3>1. g[t] = rest(t) BY <2>4, Zenon
    <3>2. t # {} => g[t \ {Min(t)}] = f[t \ {Min(t)}] BY <2>5
    <3> HIDE DEF g
    <3> QED BY <3>1, <3>2, Zenon
  <2>7. g = [t \in D(m + 1) |-> IF t = {} THEN 0 ELSE s[Min(t)] + Byte * g[t \ {Min(t)}]]
    <3>1. g = [t \in D(m + 1) |-> g[t]] OBVIOUS
    <3> HIDE DEF g
    <3> QED BY <2>6, <3>1, Zenon
  <2>8. Folds(g, s, D(m + 1)) BY <2>7, Zenon DEF Folds
  <2> QED BY <2>8
<1>3. \A m \in Nat : m \in S
  <2> HIDE DEF S
  <2> QED BY <1>1, <1>2, Induction
<1>4. Has(n)
  <2> HIDE DEF Has
  <2> QED BY <1>3
<1>5. n + 1 - n = 1 OBVIOUS
<1>6. D(n) = SUBSET (1..n) BY <1>5
<1> QED BY <1>4, <1>6

(* What OfBytes makes of the bytes from the j-th on *)
ValueFrom(val, s, n) ==
  /\ val[n + 1] = 0
  /\ \A j \in 1..n : val[j] = s[j] + Byte * val[j + 1]

(* The fold is the recurrence from the last byte to the first. *)
LEMMA OfBytesIs ==
  ASSUME NEW n \in Nat, NEW s, DOMAIN s = 1..n
  PROVE  \E val : ValueFrom(val, s, n) /\ OfBytes(s) = val[1]
<1> DEFINE G == CHOOSE g : g = [t \in SUBSET DOMAIN s |->
                    IF t = {} THEN 0 ELSE s[Min(t)] + Byte * g[t \ {Min(t)}]]
<1>1. \E g : g = [t \in SUBSET DOMAIN s |->
                    IF t = {} THEN 0 ELSE s[Min(t)] + Byte * g[t \ {Min(t)}]]
  <2>1. PICK g : Folds(g, s, SUBSET (1..n)) BY FoldExists
  <2> QED BY <2>1, Zenon DEF Folds
<1>2. G = [t \in SUBSET DOMAIN s |-> IF t = {} THEN 0 ELSE s[Min(t)] + Byte * G[t \ {Min(t)}]]
  BY <1>1, Zenon
<1>3. OfBytes(s) = G[DOMAIN s]
  BY Zenon DEF OfBytes, FoldRight, MapThenFoldSet
<1> HIDE DEF G
<1> DEFINE val == [j \in 1..(n + 1) |-> G[j..n]]
<1>4. \A t \in SUBSET (1..n) : G[t] = IF t = {} THEN 0 ELSE s[Min(t)] + Byte * G[t \ {Min(t)}]
  BY <1>2, Zenon
<1>5. val[n + 1] = 0
  <2>1. (n + 1)..n = {} /\ n + 1 \in 1..(n + 1) BY SMT
  <2> QED BY <1>4, <2>1
<1>6. ASSUME NEW j \in 1..n PROVE val[j] = s[j] + Byte * val[j + 1]
  <2>1. j \in Nat /\ j..n \subseteq 1..n /\ j \in j..n /\ j \in 1..(n + 1) /\ j + 1 \in 1..(n + 1) BY SMT
  <2>2. Min(j..n) = j /\ (j..n) \ {Min(j..n)} = (j + 1)..n
    <3>1. Min(j..n) = j BY <2>1, FirstIsLeast
    <3>2. (j..n) \ {j} = (j + 1)..n BY SMT
    <3> QED BY <3>1, <3>2
  <2>3. G[j..n] = s[j] + Byte * G[(j + 1)..n] BY <1>4, <2>1, <2>2, Zenon
  <2> QED BY <2>1, <2>3
<1>7. OfBytes(s) = val[1] BY <1>3, SMT
<1> HIDE DEF val
<1> QED BY <1>5, <1>6, <1>7 DEF ValueFrom

(* A number made of natural digits is a natural. *)
LEMMA OfBytesIsNatural ==
  ASSUME NEW n \in Nat, NEW s \in [1..n -> Nat]
  PROVE  OfBytes(s) \in Nat
<1>1. PICK val : ValueFrom(val, s, n) /\ OfBytes(s) = val[1] BY OfBytesIs
<1> DEFINE S == {m \in Nat : m <= n => val[n + 1 - m] \in Nat}
<1>2. 0 \in S BY <1>1, SMT DEF ValueFrom
<1>3. ASSUME NEW m \in Nat, m \in S PROVE m + 1 \in S
  <2> SUFFICES ASSUME m + 1 <= n PROVE val[n + 1 - (m + 1)] \in Nat OBVIOUS
  <2> DEFINE j == n - m
  <2>1. j \in 1..n /\ n + 1 - (m + 1) = j /\ n + 1 - m = j + 1 BY SMT
  <2>2. val[j + 1] \in Nat BY <1>3, <2>1
  <2> HIDE DEF j
  <2>3. val[j] = s[j] + Byte * val[j + 1] /\ s[j] \in Nat BY <1>1, <2>1 DEF ValueFrom
  <2>4. Byte * val[j + 1] \in Nat BY <2>2, WidthsAssumption, SMT
  <2>5. val[j] \in Nat BY <2>3, <2>4
  <2> QED BY <2>1, <2>5
<1>4. \A m \in Nat : m \in S
  <2> HIDE DEF S
  <2> QED BY <1>2, <1>3, Induction
<1>5. n \in S /\ n + 1 - n = 1 BY <1>4
<1> QED BY <1>1, <1>5

-----------------------------------------------------------------------------
(* What is left of v after each byte *)
Leaves(r, v, n) ==
  /\ r[0] = v
  /\ \A j \in 1..n : r[j] = r[j - 1] \div Byte

(* Shifted is the recurrence of g >>= 8. *)
LEMMA ShiftedIs ==
  ASSUME NEW v, NEW n \in Nat
  PROVE  Leaves(Shifted(v, n), v, n)
<1> DEFINE Rest(r, m) == r = [j \in 0..m |-> IF j = 0 THEN v ELSE r[j - 1] \div Byte]
           Has(m) == \E r : Rest(r, m)
           S == {m \in Nat : Has(m)}
<1>1. 0 \in S
  <2>1. Rest([j \in 0..0 |-> v], 0) BY SMT
  <2> QED BY <2>1
<1>2. ASSUME NEW m \in Nat, m \in S PROVE m + 1 \in S
  <2>1. PICK f : Rest(f, m) BY <1>2
  <2> DEFINE g == [j \in 0..(m + 1) |-> IF j = 0 THEN v ELSE f[j - 1] \div Byte]
  <2>2. \A j \in 0..m : f[j] = IF j = 0 THEN v ELSE f[j - 1] \div Byte BY <2>1
  <2>3. \A j \in 0..m : g[j] = f[j]
    <3>1. \A j \in 0..m : j \in 0..(m + 1) BY SMT
    <3> QED BY <2>2, <3>1
  <2>4. ASSUME NEW j \in 0..(m + 1) PROVE g[j] = IF j = 0 THEN v ELSE g[j - 1] \div Byte
    <3>1. j # 0 => j - 1 \in 0..m BY SMT
    <3> QED BY <2>3, <3>1
  <2>5. Rest(g, m + 1)
    <3>1. g = [j \in 0..(m + 1) |-> g[j]] OBVIOUS
    <3> HIDE DEF g
    <3> QED BY <2>4, <3>1, Zenon
  <2>6. Has(m + 1)
    <3> HIDE DEF g, Rest
    <3> QED BY <2>5
  <2> HIDE DEF Has
  <2> QED BY <2>6
<1>3. \A m \in Nat : m \in S
  <2> HIDE DEF S
  <2> QED BY <1>1, <1>2, Induction
<1>4. \E r : r = [j \in 0..n |-> IF j = 0 THEN v ELSE r[j - 1] \div Byte]
  BY <1>3, Zenon
<1> DEFINE r == Shifted(v, n)
<1>5. r = [j \in 0..n |-> IF j = 0 THEN v ELSE r[j - 1] \div Byte]
  BY <1>4, Zenon DEF Shifted
<1> HIDE DEF r
<1>6. r[0] = v BY <1>5, SMT
<1>7. ASSUME NEW j \in 1..n PROVE r[j] = r[j - 1] \div Byte
  <2>1. j \in 0..n /\ j # 0 BY SMT
  <2> QED BY <1>5, <2>1, Zenon
<1> QED BY <1>6, <1>7 DEF Leaves, r

(* What is left after any number of shifts is a natural. *)
LEMMA ShiftedAreNaturals ==
  ASSUME NEW v \in Nat, NEW n \in Nat
  PROVE  \A j \in 0..n : Shifted(v, n)[j] \in Nat
<1> DEFINE r == Shifted(v, n)
           S == {j \in Nat : j <= n => r[j] \in Nat}
<1>1. r[0] = v /\ \A j \in 1..n : r[j] = r[j - 1] \div Byte BY ShiftedIs DEF Leaves
<1> HIDE DEF r
<1>2. 0 \in S BY <1>1
<1>3. ASSUME NEW j \in Nat, j \in S PROVE j + 1 \in S
  <2> SUFFICES ASSUME j + 1 <= n PROVE r[j + 1] \in Nat OBVIOUS
  <2>1. r[j] \in Nat /\ j + 1 \in 1..n /\ (j + 1) - 1 = j BY <1>3, SMT
  <2>2. r[j + 1] = r[j] \div Byte BY <1>1, <2>1
  <2> QED BY <2>1, <2>2, WidthsAssumption, SMT
<1>4. \A j \in Nat : j \in S
  <2> HIDE DEF S
  <2> QED BY <1>2, <1>3, Induction
<1> QED BY <1>4, SMT DEF r

(* The bytes of a number are bytes, and give the number back. *)
LEMMA BytesAreBytes ==
  ASSUME NEW v \in Nat, NEW n \in Nat
  PROVE  ToBytes(v, n) \in [1..n -> 0..(Byte - 1)]
<1>1. ASSUME NEW j \in 1..n PROVE Shifted(v, n)[j - 1] % Byte \in 0..(Byte - 1)
  <2>1. Shifted(v, n)[j - 1] \in Nat BY ShiftedAreNaturals, SMT
  <2> QED BY <2>1, WidthsAssumption, SMT
<1> QED BY <1>1 DEF ToBytes

(* Enough bytes of a number give the number back. *)
LEMMA BytesGiveBack ==
  ASSUME NEW v \in Nat, NEW n \in Nat, Fits(v, n)
  PROVE  OfBytes(ToBytes(v, n)) = v
<1> DEFINE r == Shifted(v, n)   s == ToBytes(v, n)
<1>1. /\ r[0] = v /\ r[n] = 0
      /\ \A j \in 1..n : r[j] = r[j - 1] \div Byte
      /\ \A j \in 0..n : r[j] \in Nat
  BY ShiftedIs, ShiftedAreNaturals DEF Leaves, Fits
<1>2. DOMAIN s = 1..n /\ \A j \in 1..n : s[j] = r[j - 1] % Byte BY DEF ToBytes
<1> HIDE DEF r, s
<1>3. PICK val : ValueFrom(val, s, n) /\ OfBytes(s) = val[1] BY <1>2, OfBytesIs
<1> DEFINE S == {m \in Nat : m <= n => val[n + 1 - m] = r[n - m]}
<1>4. 0 \in S BY <1>1, <1>3, SMT DEF ValueFrom
<1>5. ASSUME NEW m \in Nat, m \in S PROVE m + 1 \in S
  <2> SUFFICES ASSUME m + 1 <= n PROVE val[n + 1 - (m + 1)] = r[n - (m + 1)] OBVIOUS
  <2> DEFINE j == n - m
  <2>1. /\ j \in 1..n /\ n + 1 - (m + 1) = j /\ n + 1 - m = j + 1
        /\ n - m = j /\ n - (m + 1) = j - 1 /\ j - 1 \in 0..n
    BY SMT
  <2>2. val[j + 1] = r[j] BY <1>5, <2>1
  <2> HIDE DEF j
  <2>3. val[j] = s[j] + Byte * val[j + 1] BY <1>3, <2>1 DEF ValueFrom
  <2>4. s[j] = r[j - 1] % Byte /\ r[j] = r[j - 1] \div Byte /\ r[j - 1] \in Nat BY <1>1, <1>2, <2>1
  <2> DEFINE x == r[j - 1]
  <2>5. x \in Nat /\ val[j] = (x % Byte) + Byte * (x \div Byte) BY <2>2, <2>3, <2>4
  <2> HIDE DEF x
  <2>6. Byte \in Nat /\ Byte > 0 BY WidthsAssumption, SMT
  <2>7. val[j] = x BY <2>5, <2>6, SMT
  <2> QED BY <2>1, <2>7 DEF x
<1>6. \A m \in Nat : m \in S
  <2> HIDE DEF S
  <2> QED BY <1>4, <1>5, Induction
<1>7. n \in S /\ n + 1 - n = 1 /\ n - n = 0 BY <1>6
<1> QED BY <1>1, <1>3, <1>7 DEF s

-----------------------------------------------------------------------------
(* Lists in the buffer *)
Bytes == 0..(Byte - 1)
Bytewise(b) == b \in Seq(Bytes)

(* The bytes c are in b after the first p. *)
Holds(b, p, c) == p + Len(c) <= Len(b) /\ \A j \in 1..Len(c) : b[p + j] = c[j]

(* n bytes after the first p *)
Window(b, p, n) == [j \in 1..n |-> b[p + j]]
(* A slice of n bytes *)
LEMMA Slice ==
  ASSUME NEW b, Bytewise(b), NEW p \in Nat, NEW n \in Nat, p + n <= Len(b)
  PROVE  SubSeq(b, p + 1, p + n) = Window(b, p, n)
         /\ SubSeq(b, p + 1, p + n) \in [1..n -> Nat]
<1> USE DEF Window
<1>1. \A i \in (p + 1)..(p + n) : b[i] \in Bytes
  <2>1. Len(b) \in Nat /\ \A i \in 1..Len(b) : b[i] \in Bytes BY DEF Bytewise
  <2>2. (p + 1)..(p + n) \subseteq 1..Len(b) BY <2>1, SMT
  <2> QED BY <2>1, <2>2
<1> DEFINE s == SubSeq(b, p + 1, p + n)
<1>2. /\ s \in Seq(Bytes)
      /\ Len(s) = IF p + 1 <= p + n THEN p + n - (p + 1) + 1 ELSE 0
      /\ \A i \in 1..(p + n - (p + 1) + 1) : s[i] = b[p + 1 + i - 1]
  BY <1>1, SubSeqProperties
<1> HIDE DEF s
<1>3. p + n - (p + 1) + 1 = n /\ (p + 1 <= p + n <=> n # 0) BY SMT
<1>4. Len(s) = n BY <1>2, <1>3
<1>5. \A i \in 1..n : s[i] = b[p + i]
  <2>1. \A i \in 1..n : p + 1 + i - 1 = p + i BY SMT
  <2> QED BY <1>2, <1>3, <2>1
<1>6. s = [j \in 1..n |-> s[j]] BY <1>2, <1>4
<1>7. s = [j \in 1..n |-> b[p + j]] BY <1>5, <1>6
<1>8. \A i \in 1..n : s[i] \in Nat
  <2>1. Bytes \subseteq Nat BY WidthsAssumption DEF Bytes
  <2>2. \A i \in 1..Len(s) : s[i] \in Bytes BY <1>2
  <2> QED BY <1>4, <2>1, <2>2
<1> QED BY <1>6, <1>7, <1>8 DEF s

(* A slice of the buffer reads as a natural. *)
LEMMA SliceIsNatural ==
  ASSUME NEW b, Bytewise(b), NEW p \in Nat, NEW n \in Nat, p + n <= Len(b)
  PROVE  OfBytes(SubSeq(b, p + 1, p + n)) \in Nat
BY Slice, OfBytesIsNatural

(* A number in the buffer *)
LEMMA SliceIs ==
  ASSUME NEW b, Bytewise(b), NEW p \in Nat, NEW n \in Nat, NEW v \in Nat, Fits(v, n),
         Holds(b, p, ToBytes(v, n))
  PROVE  OfBytes(SubSeq(b, p + 1, p + n)) = v
<1> DEFINE s == SubSeq(b, p + 1, p + n)   c == ToBytes(v, n)
<1>1. c \in [1..n -> Bytes] BY BytesAreBytes DEF Bytes
<1>2. c = [j \in 1..n |-> c[j]] BY <1>1
<1>3. Len(c) = n BY <1>2, SequenceOfLength
<1>4. p + n <= Len(b) /\ \A j \in 1..n : b[p + j] = c[j] BY <1>3 DEF Holds
<1>5. s = [j \in 1..n |-> b[p + j]]
  <2> HIDE DEF c
  <2>1. SubSeq(b, p + 1, p + n) = Window(b, p, n) BY <1>4, Slice
  <2> QED BY <2>1, Zenon DEF Window
<1> HIDE DEF s, c
<1>6. s = c BY <1>2, <1>4, <1>5
<1>7. OfBytes(c) = v BY BytesGiveBack DEF c
<1> QED BY <1>6, <1>7 DEF s

(* What Pack writes *)
LEMMA PackIs ==
  ASSUME NEW m \in Nat, NEW n \in Nat, NEW list \in [1..m -> Nat]
  PROVE  /\ Bytewise(Pack(list, n)) /\ Len(Pack(list, n)) = n * m
         /\ \A k \in 1..m : \A j \in 1..n : Pack(list, n)[n * (k - 1) + j] = ToBytes(list[k], n)[j]
<1> DEFINE ss == [k \in DOMAIN list |-> ToBytes(list[k], n)]
<1>1. DOMAIN list = 1..m /\ \A k \in 1..m : list[k] \in Nat OBVIOUS
<1>2. ss = [k \in 1..m |-> ss[k]] /\ \A k \in 1..m : ss[k] = ToBytes(list[k], n) BY <1>1
<1>3. Pack(list, n) = FlattenSeq(ss) BY DEF Pack
<1> HIDE DEF ss
<1>4. IsSeq(ss) /\ Len(ss) = m BY <1>2, SequenceOfLength
<1>5. ASSUME NEW k \in 1..m PROVE ss[k] \in Seq(Bytes) /\ IsSeq(ss[k]) /\ Len(ss[k]) = n
  <2>1. ss[k] \in [1..n -> Bytes] BY <1>1, <1>2, BytesAreBytes DEF Bytes
  <2>2. ss[k] = [j \in 1..n |-> ss[k][j]] BY <2>1
  <2>3. IsSeq(ss[k]) /\ Len(ss[k]) = n BY <2>2, SequenceOfLength
  <2>4. ss[k] \in Seq(Bytes) BY <2>1
  <2> QED BY <2>3, <2>4
<1>6. ss \in Seq(Seq(Bytes))
  <2>1. ss \in [1..m -> Seq(Bytes)] BY <1>2, <1>5
  <2> QED BY <2>1
<1>7. FlattenSeq(ss) \in Seq(Bytes) BY <1>6, FlatteningIsTyped
<1>8. /\ Len(FlattenSeq(ss)) = n * m
      /\ \A k \in 1..m : \A j \in 1..n : FlattenSeq(ss)[n * (k - 1) + j] = ss[k][j]
  <2>1. \A i \in 1..Len(ss) : IsSeq(ss[i]) /\ Len(ss[i]) = n BY <1>4, <1>5
  <2>2. /\ Len(FlattenSeq(ss)) = n * Len(ss)
        /\ \A i \in 1..Len(ss) : \A j \in 1..n : FlattenSeq(ss)[n * (i - 1) + j] = ss[i][j]
    <3>1. HasRows(ss, n) BY <1>4, <2>1 DEF HasRows
    <3>2. RowsOf(FlattenSeq(ss), ss, n) BY <3>1, FlatteningRows
    <3> QED BY <3>2 DEF RowsOf
  <2> QED BY <1>4, <2>2
<1> QED BY <1>2, <1>3, <1>7, <1>8 DEF Bytewise

(* The k-th of the things *)
LEMMA Place ==
  ASSUME NEW p \in Nat, NEW m \in Nat, NEW n \in Nat, NEW k \in 1..m
  PROVE  /\ p + (k - 1) * n \in Nat /\ p + (k - 1) * n + n <= p + m * n
         /\ p + k * n = p + (k - 1) * n + n
<1>1. k - 1 \in Nat /\ m - k \in Nat BY SMT
<1>2. (k - 1) * n \in Nat /\ k * n = (k - 1) * n + n BY <1>1, SMT
<1>3. (m - k) * n \in Nat /\ m * n = k * n + (m - k) * n BY <1>1, SMT
<1> QED BY <1>2, <1>3, SMT

(* What is unpacked, whatever the bytes, are naturals. *)
LEMMA UnpackIsNatural ==
  ASSUME Bytewise(buf), NEW p \in Nat, NEW m \in Nat, NEW n \in Nat, p + m * n <= Len(buf)
  PROVE  Unpack(p, m, n) \in [1..m -> Nat]
<1>1. ASSUME NEW k \in 1..m
      PROVE  OfBytes(SubSeq(buf, p + (k - 1) * n + 1, p + k * n)) \in Nat
  <2> DEFINE q == p + (k - 1) * n
  <2>1. q \in Nat /\ q + n <= p + m * n /\ p + k * n = q + n BY Place
  <2> HIDE DEF q
  <2>2. Len(buf) \in Nat /\ m * n \in Nat BY SMT DEF Bytewise
  <2>3. q + n <= Len(buf) BY <2>1, <2>2, SMT
  <2>4. OfBytes(SubSeq(buf, q + 1, q + n)) \in Nat BY <2>1, <2>3, SliceIsNatural
  <2> QED BY <2>1, <2>4 DEF q
<1> QED BY <1>1 DEF Unpack

(* What was packed is unpacked. *)
LEMMA UnpackIs ==
  ASSUME Bytewise(buf), NEW p \in Nat, NEW m \in Nat, NEW n \in Nat, NEW list \in [1..m -> Nat],
         \A k \in 1..m : Fits(list[k], n),
         Holds(buf, p, Pack(list, n))
  PROVE  Unpack(p, m, n) = list
<1> DEFINE c == Pack(list, n)
<1>1. /\ Len(c) = n * m
      /\ \A k \in 1..m : \A j \in 1..n : c[n * (k - 1) + j] = ToBytes(list[k], n)[j]
  BY PackIs
<1>2. p + Len(c) <= Len(buf) /\ \A j \in 1..Len(c) : buf[p + j] = c[j] BY DEF Holds
<1> HIDE DEF c
<1>3. ASSUME NEW k \in 1..m
      PROVE  OfBytes(SubSeq(buf, p + (k - 1) * n + 1, p + k * n)) = list[k]
  <2> DEFINE q == p + (k - 1) * n   b == ToBytes(list[k], n)
  <2>1. q \in Nat /\ q + n <= p + m * n /\ p + k * n = q + n BY Place
  <2>2. n * (k - 1) = (k - 1) * n /\ n * m = m * n BY SMT
  <2>3. Len(buf) \in Nat /\ m * n \in Nat BY SMT DEF Bytewise
  <2>4. b \in [1..n -> Bytes] BY BytesAreBytes DEF Bytes
  <2>5. b = [j \in 1..n |-> b[j]] BY <2>4
  <2>6. Len(b) = n BY <2>5, SequenceOfLength
  <2>7. ASSUME NEW j \in 1..n PROVE buf[q + j] = b[j]
    <3>1. n * (k - 1) + j \in 1..(n * m) BY Rows
    <3>2. buf[p + (n * (k - 1) + j)] = b[j] BY <1>1, <1>2, <3>1
    <3>3. p + (n * (k - 1) + j) = q + j
      <4>1. (k - 1) * n \in Nat BY SMT
      <4> QED BY <2>2, <4>1, SMT
    <3> QED BY <3>2, <3>3
  <2> HIDE DEF q
  <2>8. q + n <= Len(buf) BY <1>1, <1>2, <2>1, <2>2, <2>3, SMT
  <2>9. Holds(buf, q, b)
    <3> HIDE DEF b
    <3> QED BY <2>6, <2>7, <2>8 DEF Holds
  <2>10. OfBytes(SubSeq(buf, q + 1, q + n)) = list[k] BY <2>1, <2>9, SliceIs
  <2> QED BY <2>1, <2>10 DEF q
<1>4. Unpack(p, m, n) = [k \in 1..m |-> list[k]] BY <1>3 DEF Unpack
<1> QED BY <1>4

-----------------------------------------------------------------------------
(* Layers *)
LEMMA LayerListIs ==
  ASSUME NEW i \in 1..NL, NEW l \in LayerProof(i)
  PROVE  /\ LayerList(l) \in [1..LayerCells(i) -> Elt]
         /\ LayerList(l)[4 * Logw[i] + 1] = l.wc[0]
         /\ LayerList(l)[4 * Logw[i] + 2] = l.wc[1]
         /\ \A wi \in 1..Logw[i] :
              /\ LayerList(l)[4 * (wi - 1) + 1] = l.hp[wi][0][0]
              /\ LayerList(l)[4 * (wi - 1) + 2] = l.hp[wi][1][0]
              /\ LayerList(l)[4 * (wi - 1) + 3] = l.hp[wi][0][2]
              /\ LayerList(l)[4 * (wi - 1) + 4] = l.hp[wi][1][2]
<1> DEFINE w == Logw[i]
           ss == [wi \in DOMAIN l.hp |->
                    <<l.hp[wi][0][0], l.hp[wi][1][0], l.hp[wi][0][2], l.hp[wi][1][2]>>]
           t == <<l.wc[0], l.wc[1]>>
           f == FlattenSeq(ss)
<1>1. w \in Nat BY ParamAssumption DEF NL
<1>2. l.hp \in [1..w -> [Hands -> [Poly -> Elt]]] /\ l.wc \in [Hands -> Elt] BY DEF LayerProof
<1>3. {0, 1} \subseteq Hands /\ {0, 2} \subseteq Poly BY SMT DEF Hands, Poly
<1>4. ASSUME NEW wi \in 1..w, NEW h \in {0, 1}, NEW k \in {0, 2} PROVE l.hp[wi][h][k] \in Elt
  <2>1. h \in Hands /\ k \in Poly BY <1>3
  <2>2. l.hp[wi] \in [Hands -> [Poly -> Elt]] BY <1>2
  <2> QED BY <2>1, <2>2
<1>5. l.wc[0] \in Elt /\ l.wc[1] \in Elt BY <1>2, <1>3
<1>6. ss = [wi \in 1..w |-> ss[wi]] /\ DOMAIN l.hp = 1..w BY <1>2
<1>7. \A wi \in 1..w :
        ss[wi] = <<l.hp[wi][0][0], l.hp[wi][1][0], l.hp[wi][0][2], l.hp[wi][1][2]>>
  BY <1>6
<1>8. LayerList(l) = f \o t BY DEF LayerList
<1> HIDE DEF ss, w
<1>9. IsSeq(ss) /\ Len(ss) = w BY <1>1, <1>6, SequenceOfLength
<1>10. ASSUME NEW wi \in 1..w PROVE ss[wi] \in Seq(Elt) /\ IsSeq(ss[wi]) /\ Len(ss[wi]) = 4
  <2>1. /\ l.hp[wi][0][0] \in Elt /\ l.hp[wi][1][0] \in Elt
        /\ l.hp[wi][0][2] \in Elt /\ l.hp[wi][1][2] \in Elt
    BY <1>4
  <2>2. \A e1, e2, e3, e4 \in Elt : <<e1, e2, e3, e4>> \in Seq(Elt) /\ Len(<<e1, e2, e3, e4>>) = 4
    OBVIOUS
  <2>3. /\ <<l.hp[wi][0][0], l.hp[wi][1][0], l.hp[wi][0][2], l.hp[wi][1][2]>> \in Seq(Elt)
        /\ Len(<<l.hp[wi][0][0], l.hp[wi][1][0], l.hp[wi][0][2], l.hp[wi][1][2]>>) = 4
    BY <2>1, <2>2, Zenon
  <2>4. ss[wi] \in Seq(Elt) /\ Len(ss[wi]) = 4 BY <1>7, <2>3, Zenon
  <2> QED BY <2>4 DEF IsSeq
<1>11. f \in Seq(Elt)
  <2>1. ss \in [1..w -> Seq(Elt)] BY <1>6, <1>10
  <2>2. ss \in Seq(Seq(Elt)) BY <1>1, <2>1
  <2> QED BY <2>2, FlatteningIsTyped
<1>12. /\ Len(f) = 4 * w
       /\ \A wi \in 1..w : \A j \in 1..4 : f[4 * (wi - 1) + j] = ss[wi][j]
  <2>1. \A wi \in 1..Len(ss) : IsSeq(ss[wi]) /\ Len(ss[wi]) = 4 BY <1>9, <1>10
  <2>2. /\ Len(f) = 4 * Len(ss)
        /\ \A wi \in 1..Len(ss) : \A j \in 1..4 : f[4 * (wi - 1) + j] = ss[wi][j]
    <3>1. HasRows(ss, 4) BY <1>9, <2>1 DEF HasRows
    <3>2. RowsOf(f, ss, 4) BY <3>1, FlatteningRows DEF f
    <3> QED BY <3>2 DEF RowsOf
  <2> QED BY <1>9, <2>2
<1>13. t \in Seq(Elt) /\ Len(t) = 2 BY <1>5
<1> HIDE DEF f
<1> DEFINE c == f \o t
<1>14. /\ c \in Seq(Elt) /\ Len(c) = 4 * w + 2
       /\ \A k \in 1..Len(f) : c[k] = f[k]
       /\ \A k \in 1..2 : c[4 * w + k] = t[k]
  <2>1. IsSeq(f) /\ IsSeq(t) BY <1>11, <1>13 DEF IsSeq
  <2>2. /\ Len(c) = Len(f) + Len(t)
        /\ \A k \in 1..Len(f) : c[k] = f[k]
        /\ \A k \in 1..Len(t) : c[Len(f) + k] = t[k]
    <3> HIDE DEF t
    <3> QED BY <2>1, Concatenation
  <2>3. c \in Seq(Elt) BY <1>11, <1>13
  <2> QED BY <1>12, <1>13, <2>2, <2>3
<1> HIDE DEF c
<1>15. c[4 * w + 1] = l.wc[0] /\ c[4 * w + 2] = l.wc[1] BY <1>14
<1>16. ASSUME NEW wi \in 1..w, NEW j \in 1..4 PROVE c[4 * (wi - 1) + j] = ss[wi][j]
  <2>1. 4 * (wi - 1) + j \in 1..Len(f) BY <1>1, <1>12, SMT
  <2> QED BY <1>12, <1>14, <2>1
<1>17. ASSUME NEW wi \in 1..w
       PROVE  /\ c[4 * (wi - 1) + 1] = l.hp[wi][0][0] /\ c[4 * (wi - 1) + 2] = l.hp[wi][1][0]
              /\ c[4 * (wi - 1) + 3] = l.hp[wi][0][2] /\ c[4 * (wi - 1) + 4] = l.hp[wi][1][2]
  BY <1>7, <1>16
<1>18. c \in [1..(4 * w + 2) -> Elt] BY <1>14
<1>19. LayerList(l) = c BY <1>8 DEF c
<1> QED BY <1>15, <1>17, <1>18, <1>19 DEF LayerCells, w

(* A layer made of a list of elements is a layer. *)
LEMMA LayerOfListIs ==
  ASSUME NEW i \in 1..NL, NEW s \in [1..LayerCells(i) -> Elt]
  PROVE  LayerOfList(i, s) \in LayerProof(i)
<1>1. Logw[i] \in Nat BY ParamAssumption DEF NL
<1>2. 0 \in Elt BY EltAssumption DEF Elt
<1>3. ASSUME NEW wi \in 1..Logw[i], NEW hi \in Hands, NEW k \in Poly
      PROVE  (IF k = 1 THEN 0 ELSE s[4 * (wi - 1) + k + hi + 1]) \in Elt
  <2>1. k # 1 => 4 * (wi - 1) + k + hi + 1 \in 1..LayerCells(i)
    BY <1>1, SMT DEF Hands, Poly, LayerCells
  <2> QED BY <1>2, <2>1
<1>4. ASSUME NEW hi \in Hands PROVE s[4 * Logw[i] + hi + 1] \in Elt
  <2>1. 4 * Logw[i] + hi + 1 \in 1..LayerCells(i) BY <1>1, SMT DEF Hands, LayerCells
  <2> QED BY <2>1
<1> QED BY <1>3, <1>4, Zenon DEF LayerOfList, LayerProof

(* The order of read_sc_proof is the order of write_sc_proof. *)
LEMMA LayerComesBack ==
  ASSUME NEW i \in 1..NL, NEW l \in LayerProof(i)
  PROVE  LayerOfList(i, LayerList(l)) = LayerWithoutP1(l)
<1> DEFINE w == Logw[i]   s == LayerList(l)
           a == [wi \in 1..w |-> [hi \in Hands |-> [k \in Poly |->
                   IF k = 1 THEN 0 ELSE s[4 * (wi - 1) + k + hi + 1]]]]
           b == [wi \in DOMAIN l.hp |-> [hi \in Hands |-> [l.hp[wi][hi] EXCEPT ![1] = 0]]]
<1>1. w \in Nat BY ParamAssumption DEF NL
<1>2. /\ l = [hp |-> l.hp, wc |-> l.wc]
      /\ l.hp \in [1..w -> [Hands -> [Poly -> Elt]]] /\ l.wc \in [Hands -> Elt]
  BY DEF LayerProof
<1>3. /\ s[4 * w + 1] = l.wc[0] /\ s[4 * w + 2] = l.wc[1]
      /\ \A wi \in 1..w :
           /\ s[4 * (wi - 1) + 1] = l.hp[wi][0][0] /\ s[4 * (wi - 1) + 2] = l.hp[wi][1][0]
           /\ s[4 * (wi - 1) + 3] = l.hp[wi][0][2] /\ s[4 * (wi - 1) + 4] = l.hp[wi][1][2]
  BY LayerListIs
<1>4. LayerOfList(i, LayerList(l)) = [hp |-> a, wc |-> [hi \in Hands |-> s[4 * w + hi + 1]]]
  BY DEF LayerOfList
<1>5. LayerWithoutP1(l) = [hp |-> b, wc |-> l.wc]
  <2>1. LayerWithoutP1(l) = [l EXCEPT !.hp = b] BY Zenon DEF LayerWithoutP1
  <2> HIDE DEF b
  <2> QED BY <1>2, <2>1
<1> HIDE DEF s, w
<1>6. \A hi \in Hands : hi = 0 \/ hi = 1 BY SMT DEF Hands
<1>7. [hi \in Hands |-> s[4 * w + hi + 1]] = l.wc
  <2>1. ASSUME NEW hi \in Hands PROVE s[4 * w + hi + 1] = l.wc[hi]
    <3>1. 4 * w + 0 + 1 = 4 * w + 1 /\ 4 * w + 1 + 1 = 4 * w + 2 BY <1>1, SMT
    <3> QED BY <1>3, <1>6, <3>1
  <2> QED BY <1>2, <2>1
<1>8. ASSUME NEW wi \in 1..w, NEW hi \in Hands
      PROVE  [k \in Poly |-> IF k = 1 THEN 0 ELSE s[4 * (wi - 1) + k + hi + 1]]
               = [l.hp[wi][hi] EXCEPT ![1] = 0]
  <2>1. l.hp[wi][hi] \in [Poly -> Elt]
    <3>1. l.hp[wi] \in [Hands -> [Poly -> Elt]] BY <1>2
    <3> QED BY <3>1
  <2>2. \A k \in Poly : k = 0 \/ k = 1 \/ k = 2 BY SMT DEF Poly
  <2>3. ASSUME NEW k \in Poly, k # 1 PROVE s[4 * (wi - 1) + k + hi + 1] = l.hp[wi][hi][k]
    <3>1. /\ 4 * (wi - 1) + 0 + 0 + 1 = 4 * (wi - 1) + 1 /\ 4 * (wi - 1) + 0 + 1 + 1 = 4 * (wi - 1) + 2
          /\ 4 * (wi - 1) + 2 + 0 + 1 = 4 * (wi - 1) + 3 /\ 4 * (wi - 1) + 2 + 1 + 1 = 4 * (wi - 1) + 4
      BY <1>1, SMT
    <3> QED BY <1>3, <1>6, <2>2, <2>3, <3>1
  <2> QED BY <2>1, <2>3
<1>9. a = b
  <2>1. DOMAIN l.hp = 1..w BY <1>2
  <2>2. b = [wi \in 1..w |-> [hi \in Hands |-> [l.hp[wi][hi] EXCEPT ![1] = 0]]] BY <2>1
  <2>3. ASSUME NEW wi \in 1..w
        PROVE  [hi \in Hands |-> [k \in Poly |-> IF k = 1 THEN 0 ELSE s[4 * (wi - 1) + k + hi + 1]]]
                 = [hi \in Hands |-> [l.hp[wi][hi] EXCEPT ![1] = 0]]
    BY <1>8, Zenon
  <2> QED BY <2>2, <2>3, Zenon
<1> HIDE DEF a, b
<1> QED BY <1>4, <1>5, <1>7, <1>9

-----------------------------------------------------------------------------
(* Sections *)
Known(s) ==
  \/ s = [name |-> "root", i |-> 0]
  \/ \E i \in 1..NL : s = [name |-> "layer", i |-> i]
  \/ \E nm \in {"y_ldt", "y_dot", "y_quad_0", "y_quad_2", "nonce"} : s = [name |-> nm, i |-> 0]

After == <<[name |-> "y_ldt", i |-> 0], [name |-> "y_dot", i |-> 0],
           [name |-> "y_quad_0", i |-> 0], [name |-> "y_quad_2", i |-> 0],
           [name |-> "nonce", i |-> 0]>>

(* The sections in their order *)
FixedAre(f) ==
  /\ IsSeq(f) /\ Len(f) = NL + 6
  /\ f[1] = [name |-> "root", i |-> 0]
  /\ \A i \in 1..NL : f[i + 1] = [name |-> "layer", i |-> i]
  /\ f[NL + 2] = [name |-> "y_ldt", i |-> 0]
  /\ f[NL + 3] = [name |-> "y_dot", i |-> 0]
  /\ f[NL + 4] = [name |-> "y_quad_0", i |-> 0]
  /\ f[NL + 5] = [name |-> "y_quad_2", i |-> 0]
  /\ f[NL + 6] = [name |-> "nonce", i |-> 0]

(* The concatenation that defines the sections, place by place *)
LEMMA SectionsAre == FixedAre(Fixed)
<1> DEFINE a == <<[name |-> "root", i |-> 0]>>
           b == [i \in 1..NL |-> [name |-> "layer", i |-> i]]
           ab == a \o b
           c == After
           f == ab \o c
<1>1. Fixed = f BY DEF Fixed, After
<1>2. NL \in Nat BY ParamAssumption DEF NL
<1>3. /\ IsSeq(a) /\ Len(a) = 1 /\ a[1] = [name |-> "root", i |-> 0]
  <2>1. a \in Seq({[name |-> "root", i |-> 0]}) OBVIOUS
  <2> QED BY <2>1 DEF IsSeq
<1>4. IsSeq(b) /\ Len(b) = NL /\ \A i \in 1..NL : b[i] = [name |-> "layer", i |-> i]
  <2>1. b = [i \in 1..NL |-> b[i]] OBVIOUS
  <2>2. \A i \in 1..NL : b[i] = [name |-> "layer", i |-> i] OBVIOUS
  <2> HIDE DEF b
  <2> QED BY <1>2, <2>1, <2>2, SequenceOfLength
<1>5. /\ IsSeq(c) /\ Len(c) = 5
      /\ c[1] = [name |-> "y_ldt", i |-> 0] /\ c[2] = [name |-> "y_dot", i |-> 0]
      /\ c[3] = [name |-> "y_quad_0", i |-> 0] /\ c[4] = [name |-> "y_quad_2", i |-> 0]
      /\ c[5] = [name |-> "nonce", i |-> 0]
  <2>1. c \in Seq({c[k] : k \in 1..5}) BY DEF After
  <2>2. /\ Len(c) = 5
        /\ c[1] = [name |-> "y_ldt", i |-> 0] /\ c[2] = [name |-> "y_dot", i |-> 0]
        /\ c[3] = [name |-> "y_quad_0", i |-> 0] /\ c[4] = [name |-> "y_quad_2", i |-> 0]
        /\ c[5] = [name |-> "nonce", i |-> 0]
    BY DEF After
  <2> QED BY <2>1, <2>2 DEF IsSeq
<1> HIDE DEF a, b, c
<1>6. /\ IsSeq(ab) /\ Len(ab) = 1 + NL /\ ab[1] = a[1] /\ \A i \in 1..NL : ab[i + 1] = b[i]
  <2>1. /\ IsSeq(ab) /\ Len(ab) = Len(a) + Len(b)
        /\ \A k \in 1..Len(a) : ab[k] = a[k]
        /\ \A k \in 1..Len(b) : ab[Len(a) + k] = b[k]
    <3>1. IsSeq(a) /\ IsSeq(b) BY <1>3, <1>4
    <3> QED BY <3>1, Concatenation DEF ab
  <2>2. \A i \in 1..NL : i + 1 = 1 + i OBVIOUS
  <2>3. 1 \in 1..1 OBVIOUS
  <2> HIDE DEF ab
  <2> QED BY <1>3, <1>4, <2>1, <2>2, <2>3
<1> HIDE DEF ab
<1>7. /\ IsSeq(f) /\ Len(f) = NL + 6
      /\ \A k \in 1..(NL + 1) : f[k] = ab[k]
      /\ \A k \in 1..5 : f[NL + 1 + k] = c[k]
  <2>1. /\ IsSeq(f) /\ Len(f) = Len(ab) + Len(c)
        /\ \A k \in 1..Len(ab) : f[k] = ab[k]
        /\ \A k \in 1..Len(c) : f[Len(ab) + k] = c[k]
    <3>1. IsSeq(ab) /\ IsSeq(c) BY <1>5, <1>6
    <3> QED BY <3>1, Concatenation DEF f
  <2>2. Len(ab) = NL + 1 /\ Len(ab) + Len(c) = NL + 6 BY <1>2, <1>5, <1>6
  <2> HIDE DEF f
  <2> QED BY <1>5, <2>1, <2>2
<1> HIDE DEF f
<1>8. f[1] = [name |-> "root", i |-> 0]
  <2>1. 1 \in 1..(NL + 1) BY <1>2
  <2> QED BY <1>3, <1>6, <1>7, <2>1
<1>9. ASSUME NEW i \in 1..NL PROVE f[i + 1] = [name |-> "layer", i |-> i]
  <2>1. i + 1 \in 1..(NL + 1) BY <1>2
  <2> QED BY <1>4, <1>6, <1>7, <2>1
<1>10. /\ f[NL + 2] = c[1] /\ f[NL + 3] = c[2] /\ f[NL + 4] = c[3] /\ f[NL + 5] = c[4]
       /\ f[NL + 6] = c[5]
  <2>1. {1, 2, 3, 4, 5} \subseteq 1..5 OBVIOUS
  <2>2. /\ NL + 1 + 1 = NL + 2 /\ NL + 1 + 2 = NL + 3 /\ NL + 1 + 3 = NL + 4
        /\ NL + 1 + 4 = NL + 5 /\ NL + 1 + 5 = NL + 6
    BY <1>2
  <2> QED BY <1>7, <2>1, <2>2
<1> QED BY <1>1, <1>5, <1>7, <1>8, <1>9, <1>10 DEF FixedAre

(* Every section is one of the known ones. *)
LEMMA SectionIsKnown ==
  ASSUME NEW k \in 1..Len(Fixed)
  PROVE  Known(Fixed[k])
<1>1. FixedAre(Fixed) BY SectionsAre
<1>2. NL \in Nat BY ParamAssumption DEF NL
<1>3. k = 1 \/ k - 1 \in 1..NL \/ k \in {NL + 2, NL + 3, NL + 4, NL + 5, NL + 6}
  BY <1>1, <1>2 DEF FixedAre
<1>4. CASE k = 1 BY <1>1, <1>4 DEF FixedAre, Known
<1>5. CASE k - 1 \in 1..NL
  <2>1. (k - 1) + 1 = k BY <1>2, <1>5
  <2>2. Fixed[k] = [name |-> "layer", i |-> k - 1] BY <1>1, <1>5, <2>1 DEF FixedAre
  <2> QED BY <1>5, <2>2 DEF Known
<1>6. CASE k \in {NL + 2, NL + 3, NL + 4, NL + 5, NL + 6} BY <1>1, <1>6 DEF FixedAre, Known
<1> QED BY <1>3, <1>4, <1>5, <1>6

(* The sizes of the parameters are naturals. *)
LEMMA Dimensions ==
  /\ NL \in Nat /\ Cells \in Nat /\ DBlock \in Nat /\ DBlock - Block \in Nat /\ Block \in Nat
  /\ R \in Nat /\ NReq \in Nat /\ NReq * PathLen \in Nat
  /\ \A i \in 1..NL : LayerCells(i) \in Nat
<1>1. NL \in Nat /\ \A i \in 1..NL : Logw[i] \in Nat BY ParamAssumption DEF NL
<1>2. /\ Block \in Nat \ {0} /\ R \in Nat /\ NReq \in Nat /\ NRow \in Nat /\ PathLen \in Nat
  BY ParamAssumption
<1>3. Cells \in Nat /\ NReq * PathLen \in Nat BY <1>2, SMT DEF Cells
<1>4. DBlock \in Nat /\ DBlock - Block \in Nat BY <1>2, SMT DEF DBlock
<1>5. \A i \in 1..NL : LayerCells(i) \in Nat BY <1>1, SMT DEF LayerCells
<1> QED BY <1>1, <1>2, <1>3, <1>4, <1>5

(* What is asked for before a section is what the section takes. *)
LEMMA SizesAre ==
  ASSUME NEW s, Known(s)
  PROVE  Count(s) \in Nat /\ Width(s) \in Nat /\ Needed(s) = Count(s) * Width(s)
<1>1. EltBytes \in Nat /\ DigestBytes \in Nat /\ NonceBytes \in Nat BY WidthsAssumption
<1>2. Width(s) \in Nat BY <1>1 DEF Known, Width
<1>3. CASE s = [name |-> "root", i |-> 0]
  BY <1>2, <1>3 DEF Count, Needed
<1>4. ASSUME NEW i \in 1..NL, s = [name |-> "layer", i |-> i]
      PROVE  Count(s) \in Nat /\ Needed(s) = Count(s) * Width(s)
  <2>1. Count(s) = LayerCells(i) /\ Width(s) = EltBytes BY <1>4 DEF Count, Width
  <2>2. Needed(s) = (Logw[i] * (3 - 1) * 2 + 2) * EltBytes BY <1>4 DEF Needed
  <2>3. Logw[i] * (3 - 1) * 2 + 2 = LayerCells(i)
    <3>1. Logw[i] \in Nat BY ParamAssumption DEF NL
    <3> QED BY <3>1, SMT DEF LayerCells
  <2> QED BY <2>1, <2>2, <2>3, Dimensions
<1>5. ASSUME NEW nm \in {"y_ldt", "y_dot", "y_quad_0", "y_quad_2", "nonce"}, s = [name |-> nm, i |-> 0]
      PROVE  Count(s) \in Nat /\ Needed(s) = Count(s) * Width(s)
  <2>1. Count(s) \in Nat BY <1>5, Dimensions DEF Count
  <2>2. Needed(s) = Count(s) * Width(s)
    <3>1. s.name # "layer" BY <1>5
    <3> QED BY <3>1, Zenon DEF Needed
  <2> QED BY <2>1, <2>2
<1> QED BY <1>2, <1>3, <1>4, <1>5 DEF Known

(* A section of a proof as a list *)
LEMMA FieldIs ==
  ASSUME NEW s, Known(s), NEW p, IsProof(p)
  PROVE  /\ Field(p, s) \in [1..Count(s) -> Nat]
         /\ IsElt(s) => Field(p, s) \in [1..Count(s) -> Elt]
<1>1. Elt \subseteq Nat BY EltAssumption DEF Elt
<1>2. CASE s = [name |-> "root", i |-> 0]
  <2>1. Field(p, s) = <<p.root>> /\ Count(s) = 1 /\ ~IsElt(s) BY <1>2 DEF Field, Count, IsElt
  <2>2. p.root \in Nat BY DEF IsProof
  <2> QED BY <2>1, <2>2
<1>3. ASSUME NEW i \in 1..NL, s = [name |-> "layer", i |-> i]
      PROVE  Field(p, s) \in [1..Count(s) -> Elt]
  <2>1. Field(p, s) = LayerList(p.l[i]) /\ Count(s) = LayerCells(i) BY <1>3 DEF Field, Count
  <2>2. p.l[i] \in LayerProof(i) BY DEF IsProof
  <2>3. LayerList(p.l[i]) \in [1..LayerCells(i) -> Elt] BY <2>2, LayerListIs
  <2> QED BY <2>1, <2>3
<1>4. CASE s = [name |-> "y_ldt", i |-> 0]
  <2>1. Field(p, s) = p.y_ldt /\ Count(s) = Block BY <1>4 DEF Field, Count
  <2> QED BY <1>1, <2>1 DEF IsProof
<1>5. CASE s = [name |-> "y_dot", i |-> 0]
  <2>1. Field(p, s) = p.y_dot /\ Count(s) = DBlock BY <1>5 DEF Field, Count
  <2> QED BY <1>1, <2>1 DEF IsProof
<1>6. CASE s = [name |-> "y_quad_0", i |-> 0]
  <2>1. Field(p, s) = p.y_quad_0 /\ Count(s) = R BY <1>6 DEF Field, Count
  <2> QED BY <1>1, <2>1 DEF IsProof
<1>7. CASE s = [name |-> "y_quad_2", i |-> 0]
  <2>1. Field(p, s) = p.y_quad_2 /\ Count(s) = DBlock - Block BY <1>7 DEF Field, Count
  <2> QED BY <1>1, <2>1 DEF IsProof
<1>8. CASE s = [name |-> "nonce", i |-> 0]
  <2>1. Field(p, s) = p.nonce /\ Count(s) = NReq /\ ~IsElt(s) BY <1>8 DEF Field, Count, IsElt
  <2> QED BY <2>1 DEF IsProof
<1>9. Field(p, s) \in [1..Count(s) -> Elt] => Field(p, s) \in [1..Count(s) -> Nat] BY <1>1
<1> QED BY <1>2, <1>3, <1>4, <1>5, <1>6, <1>7, <1>8, <1>9 DEF Known

(* The widths are wide enough. *)
LEMMA FieldFits ==
  ASSUME NEW s, Known(s), NEW p, IsProof(p), HasWidths(p)
  PROVE  \A k \in 1..Count(s) : Fits(Field(p, s)[k], Width(s))
<1>1. CASE s = [name |-> "root", i |-> 0]
  <2>1. Field(p, s) = <<p.root>> /\ Count(s) = 1 /\ Width(s) = DigestBytes
    BY <1>1 DEF Field, Count, Width
  <2> QED BY <2>1 DEF HasWidths
<1>2. CASE s = [name |-> "nonce", i |-> 0]
  <2>1. Field(p, s) = p.nonce /\ Count(s) = NReq /\ Width(s) = NonceBytes
    BY <1>2 DEF Field, Count, Width
  <2> QED BY <2>1 DEF HasWidths
<1>3. CASE IsElt(s)
  <2>1. Field(p, s) \in [1..Count(s) -> Elt] BY <1>3, FieldIs
  <2>2. Width(s) = EltBytes BY <1>3 DEF Known, IsElt, Width
  <2> QED BY <2>1, <2>2, EltAssumption
<1> QED BY <1>1, <1>2, <1>3 DEF Known, IsElt

(* A section that is stored leaves a proof. *)
LEMMA StoreIsProof ==
  ASSUME NEW s, Known(s), NEW p, IsProof(p), NEW list \in [1..Count(s) -> Nat],
         IsElt(s) => ValidElts(list)
  PROVE  IsProof(Store(p, s, list))
<1> DEFINE q == Store(p, s, list)
<1>1. IsElt(s) => list \in [1..Count(s) -> Elt]
  <2>1. IsElt(s) => \A k \in 1..Count(s) : list[k] \in Elt
    BY EltAssumption, SMT DEF ValidElts, Elt
  <2> QED BY <2>1
<1>2. CASE s = [name |-> "root", i |-> 0]
  <2>1. q = [p EXCEPT !.root = list[1]] /\ Count(s) = 1 BY <1>2 DEF Store, Count
  <2>2. list[1] \in Nat BY <2>1
  <2> QED BY <2>1, <2>2 DEF IsProof
<1>3. ASSUME NEW i \in 1..NL, s = [name |-> "layer", i |-> i] PROVE IsProof(q)
  <2>1. q = [p EXCEPT !.l[i] = LayerOfList(i, list)] /\ Count(s) = LayerCells(i) /\ IsElt(s)
    BY <1>3 DEF Store, Count, IsElt
  <2>2. LayerOfList(i, list) \in LayerProof(i) BY <1>1, <2>1, LayerOfListIs
  <2> DEFINE e == LayerOfList(i, list)   ll == [p.l EXCEPT ![i] = e]
  <2>3. q = [p EXCEPT !.l = ll] BY <2>1
  <2>4. ll = [j \in 1..NL |-> ll[j]] /\ \A j \in 1..NL : ll[j] \in LayerProof(j)
    <3> HIDE DEF e
    <3>1. p.l = [j \in 1..NL |-> p.l[j]] /\ \A j \in 1..NL : p.l[j] \in LayerProof(j) BY DEF IsProof
    <3> QED BY <2>2, <3>1 DEF e
  <2> HIDE DEF ll
  <2> QED BY <2>3, <2>4 DEF IsProof
<1>4. CASE s = [name |-> "y_ldt", i |-> 0]
  <2>1. q = [p EXCEPT !.y_ldt = list] /\ Count(s) = Block /\ IsElt(s) BY <1>4 DEF Store, Count, IsElt
  <2> QED BY <1>1, <2>1 DEF IsProof
<1>5. CASE s = [name |-> "y_dot", i |-> 0]
  <2>1. q = [p EXCEPT !.y_dot = list] /\ Count(s) = DBlock /\ IsElt(s) BY <1>5 DEF Store, Count, IsElt
  <2> QED BY <1>1, <2>1 DEF IsProof
<1>6. CASE s = [name |-> "y_quad_0", i |-> 0]
  <2>1. q = [p EXCEPT !.y_quad_0 = list] /\ Count(s) = R /\ IsElt(s) BY <1>6 DEF Store, Count, IsElt
  <2> QED BY <1>1, <2>1 DEF IsProof
<1>7. CASE s = [name |-> "y_quad_2", i |-> 0]
  <2>1. q = [p EXCEPT !.y_quad_2 = list] /\ Count(s) = DBlock - Block /\ IsElt(s)
    BY <1>7 DEF Store, Count, IsElt
  <2> QED BY <1>1, <2>1 DEF IsProof
<1>8. CASE s = [name |-> "nonce", i |-> 0]
  <2>1. q = [p EXCEPT !.nonce = list] /\ Count(s) = NReq BY <1>8 DEF Store, Count
  <2> QED BY <2>1 DEF IsProof
<1> QED BY <1>2, <1>3, <1>4, <1>5, <1>6, <1>7, <1>8 DEF Known

-----------------------------------------------------------------------------
(* The columns *)

(* n cells from the c-th on are replaced. *)
Spliced(old, new, list, c, n) ==
  new = [k \in 1..Cells |->
           IF k <= c THEN old[k] ELSE IF k <= c + n THEN list[k - c] ELSE old[k]]

(* The cells after a run was read into them *)
LEMMA SplicedIs ==
  ASSUME NEW old \in [1..Cells -> Elt], NEW c \in Nat, NEW n \in Nat, c + n <= Cells,
         NEW list \in [1..n -> Elt]
  PROVE  /\ Spliced(old, SubSeq(old, 1, c) \o list \o SubSeq(old, c + n + 1, Cells), list, c, n)
         /\ SubSeq(old, 1, c) \o list \o SubSeq(old, c + n + 1, Cells) \in [1..Cells -> Elt]
<1> DEFINE a == SubSeq(old, 1, c)   b == SubSeq(old, c + n + 1, Cells)   al == a \o list
           new == al \o b
<1>1. Cells \in Nat BY Dimensions
<1>2. a \in Seq(Elt) /\ Len(a) = c /\ \A k \in 1..c : a[k] = old[k]
  <2>1. \A k \in 1..c : old[k] \in Elt BY <1>1
  <2>2. /\ a \in Seq(Elt) /\ Len(a) = IF 1 <= c THEN c - 1 + 1 ELSE 0
        /\ \A k \in 1..(c - 1 + 1) : a[k] = old[1 + k - 1]
    BY <2>1, SubSeqProperties
  <2> HIDE DEF a
  <2>3. c - 1 + 1 = c /\ (~(1 <= c) => c = 0) /\ \A k \in 1..c : 1 + k - 1 = k BY SMT
  <2> QED BY <2>2, <2>3
<1>3. /\ b \in Seq(Elt) /\ Len(b) = Cells - (c + n)
      /\ \A k \in 1..(Cells - (c + n)) : b[k] = old[c + n + k]
  <2>1. \A k \in (c + n + 1)..Cells : old[k] \in Elt BY <1>1
  <2>2. c + n + 1 \in Int /\ Cells \in Int BY <1>1
  <2>3. /\ b \in Seq(Elt) /\ Len(b) = IF c + n + 1 <= Cells THEN Cells - (c + n + 1) + 1 ELSE 0
        /\ \A k \in 1..(Cells - (c + n + 1) + 1) : b[k] = old[c + n + 1 + k - 1]
    BY <2>1, <2>2, SubSeqProperties
  <2> HIDE DEF b
  <2>4. /\ Cells - (c + n + 1) + 1 = Cells - (c + n)
        /\ ~(c + n + 1 <= Cells) => Cells - (c + n) = 0
        /\ \A k \in 1..(Cells - (c + n)) : c + n + 1 + k - 1 = c + n + k
    BY <1>1, SMT
  <2> QED BY <2>3, <2>4
<1>4. list \in Seq(Elt) /\ Len(list) = n
  <2>1. list = [k \in 1..n |-> list[k]] OBVIOUS
  <2>2. Len(list) = n BY <2>1, SequenceOfLength
  <2> QED BY <2>2
<1> HIDE DEF a, b
<1>5. /\ al \in Seq(Elt) /\ Len(al) = c + n
      /\ \A k \in 1..c : al[k] = old[k]
      /\ \A k \in 1..n : al[c + k] = list[k]
  <2>1. IsSeq(a) /\ IsSeq(list) BY <1>2, <1>4 DEF IsSeq
  <2>2. /\ Len(al) = Len(a) + Len(list)
        /\ \A k \in 1..Len(a) : al[k] = a[k]
        /\ \A k \in 1..Len(list) : al[Len(a) + k] = list[k]
    BY <2>1, Concatenation DEF al
  <2>3. al \in Seq(Elt) BY <1>2, <1>4
  <2> HIDE DEF al
  <2> QED BY <1>2, <1>4, <2>2, <2>3
<1> HIDE DEF al
<1>6. /\ new \in Seq(Elt) /\ Len(new) = Cells
      /\ \A k \in 1..(c + n) : new[k] = al[k]
      /\ \A k \in 1..(Cells - (c + n)) : new[c + n + k] = b[k]
  <2>1. IsSeq(al) /\ IsSeq(b) BY <1>3, <1>5 DEF IsSeq
  <2>2. /\ Len(new) = Len(al) + Len(b)
        /\ \A k \in 1..Len(al) : new[k] = al[k]
        /\ \A k \in 1..Len(b) : new[Len(al) + k] = b[k]
    BY <2>1, Concatenation DEF new
  <2>3. new \in Seq(Elt) BY <1>3, <1>5
  <2>4. c + n + (Cells - (c + n)) = Cells BY <1>1
  <2> HIDE DEF new
  <2> QED BY <1>3, <1>5, <2>2, <2>3, <2>4
<1> HIDE DEF new
<1>7. ASSUME NEW k \in 1..Cells
      PROVE  new[k] = IF k <= c THEN old[k] ELSE IF k <= c + n THEN list[k - c] ELSE old[k]
  <2>1. CASE k <= c
    <3>1. k \in 1..c /\ k \in 1..(c + n) BY <2>1
    <3> QED BY <1>5, <1>6, <2>1, <3>1
  <2>2. CASE ~(k <= c) /\ k <= c + n
    <3>1. k - c \in 1..n /\ k \in 1..(c + n) /\ c + (k - c) = k BY <2>2
    <3>2. al[c + (k - c)] = list[k - c] BY <1>5, <3>1
    <3> QED BY <1>6, <2>2, <3>1, <3>2
  <2>3. CASE ~(k <= c + n)
    <3>1. k - (c + n) \in 1..(Cells - (c + n)) /\ c + n + (k - (c + n)) = k /\ ~(k <= c) BY <1>1, <2>3
    <3>2. new[c + n + (k - (c + n))] = b[k - (c + n)] BY <1>6, <3>1
    <3>3. b[k - (c + n)] = old[c + n + (k - (c + n))] BY <1>3, <3>1
    <3> QED BY <2>3, <3>1, <3>2, <3>3
  <2> QED BY <2>1, <2>2, <2>3
<1>8. new = [k \in 1..Cells |-> new[k]] /\ new \in [1..Cells -> Elt] BY <1>6
<1>9. Spliced(old, new, list, c, n) BY <1>7, <1>8, Zenon DEF Spliced
<1> QED BY <1>8, <1>9 DEF new, al, a, b

(* The loop of the writer finds the end of the run. *)
RunIs(n, cells, c, kind) ==
  /\ n \in 0..(Cells - c) /\ n <= MaxRunLen
  /\ \A k \in 1..n : InSubfield(cells[c + k]) = kind
  /\ n = MaxRunLen \/ n = Cells - c \/ InSubfield(cells[c + n + 1]) # kind

(* The writer finds its run. *)
LEMMA RunLenIs ==
  ASSUME ci \in 0..Cells
  PROVE  RunIs(RunLen, proof.req, ci, sub)
<1>1. Cells \in Nat /\ MaxRunLen \in Nat /\ ci \in Nat BY Dimensions, WidthsAssumption
<1> DEFINE Stops(n) == \/ n = MaxRunLen \/ n = Cells - ci
                       \/ InSubfield(proof.req[ci + n + 1]) # sub
           S == {n \in 0..(Cells - ci) : n <= MaxRunLen /\ Stops(n)}
<1>2. S # {}
  <2>1. CASE MaxRunLen <= Cells - ci
    <3>1. MaxRunLen \in S BY <1>1, <2>1
    <3> QED BY <3>1
  <2>2. CASE ~(MaxRunLen <= Cells - ci)
    <3>1. Cells - ci \in S BY <1>1, <2>2
    <3> QED BY <3>1
  <2> QED BY <2>1, <2>2
<1>3. S \subseteq Nat BY <1>1
<1>4. PICK n \in S : \A k \in S : n <= k
  <2> HIDE DEF S
  <2> QED BY <1>2, <1>3, LeastNumber
<1>5. ASSUME NEW k \in 1..n PROVE InSubfield(proof.req[ci + k]) = sub
  <2>1. k - 1 \notin S
    <3>1. k - 1 \in S => n <= k - 1 BY <1>4
    <3> QED BY <1>1, <3>1
  <2>2. k - 1 \in 0..(Cells - ci) /\ k - 1 <= MaxRunLen /\ ci + (k - 1) + 1 = ci + k
    BY <1>1
  <2>3. ~Stops(k - 1) BY <2>1, <2>2
  <2> QED BY <2>2, <2>3
<1>6. RunIs(n, proof.req, ci, sub) BY <1>5 DEF RunIs
<1>7. RunLen = CHOOSE m \in 0..(Cells - ci) : RunIs(m, proof.req, ci, sub)
  <2>1. \A m \in 0..(Cells - ci) :
          RunIs(m, proof.req, ci, sub) <=>
            /\ m <= MaxRunLen
            /\ \A k \in 1..m : InSubfield(proof.req[ci + k]) = sub
            /\ \/ m = MaxRunLen
               \/ m = Cells - ci
               \/ InSubfield(proof.req[ci + m + 1]) # sub
    BY Zenon DEF RunIs
  <2> QED BY <2>1, Zenon DEF RunLen
<1> QED BY <1>4, <1>6, <1>7, Zenon

-----------------------------------------------------------------------------
(* What read() and write() keep                                            *)
ControlOK ==
  /\ pc \in {"write", "deliver", "read", "accepted", "rejected"}
  /\ section \in 1..(Len(Fixed) + 1)
  /\ ci \in 0..Cells

BufferOK ==
  /\ Bytewise(buf) /\ next \in 0..Len(buf)
  /\ pc \in {"write", "deliver"} => next = 0

ProofsOK ==
  /\ IsProof(proof) /\ HasWidths(proof)
  /\ IsProof(got)
  /\ pc = "accepted" => Len(got.path) \in NReq..(NReq * PathLen)

Inside == ControlOK /\ BufferOK /\ ProofsOK

(* A list of zeros *)
LEMMA ConstIs ==
  ASSUME NEW n \in Nat
  PROVE  Const(n, 0) \in [1..n -> Elt] /\ Const(n, 0) \in [1..n -> Nat]
BY EltAssumption DEF Const, Elt

(* At the start nothing is written and the proof of the reader is empty. *)
LEMMA InitInside == Init => Inside
<1> SUFFICES ASSUME Init PROVE Inside OBVIOUS
<1>1. IsProof(proof) /\ HasWidths(proof) BY ProofsAssumption DEF Init
<1>2. IsProof(EmptyProof)
  <2>1. \A i \in 1..NL : LayerOfList(i, Const(LayerCells(i), 0)) \in LayerProof(i)
    BY Dimensions, ConstIs, LayerOfListIs
  <2>2. <<>> \in Seq(Nat) OBVIOUS
  <2>3. /\ Const(Block, 0) \in [1..Block -> Elt] /\ Const(DBlock, 0) \in [1..DBlock -> Elt]
        /\ Const(R, 0) \in [1..R -> Elt] /\ Const(DBlock - Block, 0) \in [1..(DBlock - Block) -> Elt]
        /\ Const(NReq, 0) \in [1..NReq -> Nat] /\ Const(Cells, 0) \in [1..Cells -> Elt]
    BY Dimensions, ConstIs
  <2> DEFINE ll == [i \in 1..NL |-> LayerOfList(i, Const(LayerCells(i), 0))]
             e == EmptyProof
  <2>4. /\ e.root = 0 /\ e.l = ll /\ e.y_ldt = Const(Block, 0) /\ e.y_dot = Const(DBlock, 0)
        /\ e.y_quad_0 = Const(R, 0) /\ e.y_quad_2 = Const(DBlock - Block, 0)
        /\ e.nonce = Const(NReq, 0) /\ e.req = Const(Cells, 0) /\ e.path = <<>>
        /\ e = [root |-> e.root, l |-> e.l, y_ldt |-> e.y_ldt, y_dot |-> e.y_dot,
                y_quad_0 |-> e.y_quad_0, y_quad_2 |-> e.y_quad_2,
                nonce |-> e.nonce, req |-> e.req, path |-> e.path]
    BY DEF EmptyProof
  <2>5. ll = [i \in 1..NL |-> ll[i]] /\ \A i \in 1..NL : ll[i] \in LayerProof(i) BY <2>1
  <2> HIDE DEF e, ll
  <2>6. IsProof(e) BY <2>2, <2>3, <2>4, <2>5 DEF IsProof
  <2> QED BY <2>6 DEF e
<1>3. IsProof(got) BY <1>2 DEF Init
<1>4. ControlOK
  <2>1. Len(Fixed) \in Nat BY SectionsAre, Dimensions DEF FixedAre
  <2> QED BY <2>1, Dimensions DEF Init, ControlOK
<1>5. BufferOK BY DEF Init, BufferOK, Bytewise
<1> QED BY <1>1, <1>3, <1>4, <1>5 DEF Inside, ProofsOK, Init

(* Bytes and bytes are bytes. *)
LEMMA Joins ==
  ASSUME NEW a, NEW b, Bytewise(a), Bytewise(b)
  PROVE  Bytewise(a \o b)
BY DEF Bytewise

(* A length takes SizeBytes bytes. *)
LEMMA ToBytesIs ==
  ASSUME NEW v \in Nat, NEW n \in Nat
  PROVE  Bytewise(ToBytes(v, n)) /\ Len(ToBytes(v, n)) = n
<1> DEFINE b == ToBytes(v, n)
<1>1. b \in [1..n -> Bytes] BY BytesAreBytes DEF Bytes
<1>2. b = [j \in 1..n |-> b[j]] BY <1>1
<1>3. b \in Seq(Bytes) BY <1>1
<1> HIDE DEF b
<1>4. Len(b) = n BY <1>2, SequenceOfLength
<1> QED BY <1>3, <1>4 DEF b, Bytewise

(* Inside is kept by write_com, write_sc_proof and the fixed vectors. *)
LEMMA WriteFixedInside ==
  ASSUME Inside, WriteFixed
  PROVE  Inside'
<1> DEFINE s == Fixed[section]   c == Pack(Field(proof, s), Width(s))
<1>1. pc = "write" /\ section \in 1..Len(Fixed) /\ buf' = buf \o c /\ section' = section + 1
  BY SectionsAre, Dimensions DEF WriteFixed, InFixed, Inside, ControlOK, FixedAre
<1>2. UNCHANGED <<pc, proof, altered, next, ci, sub, got>> BY DEF WriteFixed
<1>3. Known(s) BY <1>1, SectionIsKnown
<1>4. Bytewise(c)
  <2>1. IsProof(proof) BY DEF Inside, ProofsOK
  <2>2. Field(proof, s) \in [1..Count(s) -> Nat] BY <1>3, <2>1, FieldIs
  <2> QED BY <1>3, <2>2, SizesAre, PackIs
<1> HIDE DEF c, s
<1>5. ControlOK'
  <2>1. Len(Fixed) \in Nat BY SectionsAre, Dimensions DEF FixedAre
  <2>2. section + 1 \in 1..(Len(Fixed) + 1) BY <1>1, <2>1
  <2> QED BY <1>1, <1>2, <2>2 DEF Inside, ControlOK
<1>6. BufferOK'
  <2>1. Bytewise(buf) /\ next = 0 BY <1>1 DEF Inside, BufferOK
  <2>2. Bytewise(buf \o c) BY <1>4, <2>1, Joins
  <2>3. Len(buf \o c) \in Nat BY <2>2 DEF Bytewise
  <2>4. 0 \in 0..Len(buf \o c) BY <2>3
  <2> QED BY <1>1, <1>2, <2>1, <2>2, <2>4 DEF BufferOK
<1>7. ProofsOK' BY <1>1, <1>2 DEF Inside, ProofsOK
<1> QED BY <1>5, <1>6, <1>7 DEF Inside

(* Inside is kept by a run of the columns. *)
LEMMA WriteRunInside ==
  ASSUME Inside, WriteRun
  PROVE  Inside'
<1> DEFINE run == SubSeq(proof.req, ci + 1, ci + RunLen)
           w == IF sub THEN SubBytes ELSE EltBytes
           c == Pack(run, w)
           d == ToBytes(RunLen, SizeBytes)
<1>1. /\ pc = "write" /\ buf' = buf \o d \o c /\ ci' = ci + RunLen
      /\ UNCHANGED <<pc, section, proof, altered, next, got>>
  BY DEF WriteRun
<1>2. ci \in 0..Cells /\ Cells \in Nat BY Dimensions DEF Inside, ControlOK
<1>3. RunLen \in 0..(Cells - ci) BY <1>2, RunLenIs DEF RunIs
<1>4. RunLen \in Nat /\ ci + RunLen \in 0..Cells BY <1>2, <1>3
<1>5. w \in Nat /\ SizeBytes \in Nat BY WidthsAssumption
<1>6. run \in [1..RunLen -> Nat]
  <2>1. proof.req \in [1..Cells -> Elt] BY DEF Inside, ProofsOK, IsProof
  <2>2. \A k \in (ci + 1)..(ci + RunLen) : proof.req[k] \in Nat
    <3>1. Elt \subseteq Nat BY EltAssumption DEF Elt
    <3>2. (ci + 1)..(ci + RunLen) \subseteq 1..Cells BY <1>2, <1>4
    <3> QED BY <2>1, <3>1, <3>2
  <2>3. /\ run \in Seq(Nat)
        /\ Len(run) = IF ci + 1 <= ci + RunLen THEN ci + RunLen - (ci + 1) + 1 ELSE 0
    BY <1>2, <1>4, <2>2, SubSeqProperties
  <2> HIDE DEF run
  <2>4. Len(run) = RunLen BY <1>2, <1>4, <2>3
  <2> QED BY <2>3, <2>4
<1> HIDE DEF run, w
<1>7. Bytewise(d) BY <1>4, <1>5, ToBytesIs
<1>8. Bytewise(c) BY <1>4, <1>5, <1>6, PackIs
<1> HIDE DEF c, d
<1>9. BufferOK'
  <2>1. Bytewise(buf) /\ next = 0 BY <1>1 DEF Inside, BufferOK
  <2>2. Bytewise(buf \o d) BY <1>7, <2>1, Joins
  <2>3. Bytewise(buf \o d \o c) BY <1>8, <2>2, Joins
  <2>4. Len(buf \o d \o c) \in Nat BY <2>3 DEF Bytewise
  <2>5. 0 \in 0..Len(buf \o d \o c) BY <2>4
  <2> QED BY <1>1, <2>1, <2>3, <2>5 DEF BufferOK
<1> QED BY <1>1, <1>4, <1>9 DEF Inside, ControlOK, ProofsOK

(* Inside is kept by the path, after which the positions start over. *)
LEMMA WritePathInside ==
  ASSUME Inside, WritePath
  PROVE  Inside'
<1> DEFINE d == ToBytes(Len(proof.path), SizeBytes)   c == Pack(proof.path, DigestBytes)
<1>1. /\ pc = "write" /\ buf' = buf \o d \o c
      /\ pc' = "deliver" /\ section' = 1 /\ ci' = 0
      /\ UNCHANGED <<proof, altered, next, got>>
  BY DEF WritePath
<1>2. proof.path \in Seq(Nat) BY DEF Inside, ProofsOK, IsProof
<1>3. Len(proof.path) \in Nat /\ proof.path \in [1..Len(proof.path) -> Nat] BY <1>2
<1>4. SizeBytes \in Nat /\ DigestBytes \in Nat BY WidthsAssumption
<1>5. Bytewise(d) BY <1>3, <1>4, ToBytesIs
<1>6. Bytewise(c) BY <1>3, <1>4, PackIs
<1> HIDE DEF c, d
<1>7. BufferOK'
  <2>1. Bytewise(buf) /\ next = 0 BY <1>1 DEF Inside, BufferOK
  <2>2. Bytewise(buf \o d) BY <1>5, <2>1, Joins
  <2>3. Bytewise(buf \o d \o c) BY <1>6, <2>2, Joins
  <2>4. Len(buf \o d \o c) \in Nat BY <2>3 DEF Bytewise
  <2>5. 0 \in 0..Len(buf \o d \o c) BY <2>4
  <2> QED BY <1>1, <2>1, <2>3, <2>5 DEF BufferOK
<1>8. ControlOK'
  <2>1. Len(Fixed) \in Nat /\ Cells \in Nat BY SectionsAre, Dimensions DEF FixedAre
  <2> QED BY <1>1, <2>1 DEF ControlOK
<1> QED BY <1>1, <1>7, <1>8 DEF Inside, ProofsOK

(* Inside is kept whatever arrives, as long as it is bytes. *)
LEMMA DeliverInside ==
  ASSUME Inside, Deliver
  PROVE  Inside'
<1>1. pc' = "read" /\ UNCHANGED <<section, proof, next, ci, sub, got>> BY DEF Deliver
<1>2. next = 0 BY DEF Inside, BufferOK, Deliver
<1>3. Bytewise(buf') BY DEF Deliver, Bytes, Bytewise
<1>4. next' \in 0..Len(buf')
  <2>1. Len(buf') \in Nat BY <1>3 DEF Bytewise
  <2> QED BY <1>1, <1>2, <2>1
<1> QED BY <1>1, <1>3, <1>4 DEF Inside, ControlOK, BufferOK, ProofsOK

(* Inside is kept when read() returns false. *)
LEMMA RejectInside ==
  ASSUME Inside, Reject, pc = "read"
  PROVE  Inside'
BY DEF Inside, ControlOK, BufferOK, ProofsOK, Reject

(* Inside is kept by a fixed section, which was checked before it is read. *)
LEMMA ReadFixedInside ==
  ASSUME Inside, ReadFixed
  PROVE  Inside'
<1> DEFINE s == Fixed[section]   list == Unpack(next, Count(s), Width(s))
<1>1. pc = "read" /\ section \in 1..Len(Fixed)
  BY SectionsAre, Dimensions DEF ReadFixed, InFixed, Inside, ControlOK, FixedAre
<1>2. Known(s) BY <1>1, SectionIsKnown
<1>3. Count(s) \in Nat /\ Width(s) \in Nat /\ Needed(s) = Count(s) * Width(s) BY <1>2, SizesAre
<1>4. CASE Reject BY <1>1, <1>4, RejectInside
<1>5. CASE Have(Needed(s)) /\ ~Have(Count(s) * Width(s)) BY <1>3, <1>5
<1>6. CASE /\ Have(Count(s) * Width(s))
           /\ IsElt(s) => ValidElts(list)
           /\ got' = Store(got, s, list)
           /\ next' = next + Count(s) * Width(s)
           /\ section' = section + 1
           /\ UNCHANGED <<pc, proof, buf, altered, ci, sub>>
  <2>1. Bytewise(buf) /\ next \in 0..Len(buf) /\ Len(buf) \in Nat BY DEF Inside, BufferOK, Bytewise
  <2>2. Count(s) * Width(s) \in Nat BY <1>3
  <2>3. next + Count(s) * Width(s) <= Len(buf) BY <1>6, <2>1, <2>2 DEF Have
  <2>4. list \in [1..Count(s) -> Nat] BY <1>3, <2>1, <2>3, UnpackIsNatural
  <2>5. IsProof(got) BY DEF Inside, ProofsOK
  <2> HIDE DEF list
  <2>6. IsProof(Store(got, s, list)) BY <1>2, <1>6, <2>4, <2>5, StoreIsProof
  <2>7. Len(Fixed) \in Nat BY SectionsAre, Dimensions DEF FixedAre
  <2> HIDE DEF s
  <2>8. ControlOK' BY <1>1, <1>6, <2>7 DEF Inside, ControlOK
  <2>9. BufferOK'
    <3>1. next' \in 0..Len(buf) BY <1>6, <2>1, <2>2, <2>3
    <3> QED BY <1>1, <1>6, <2>1, <3>1 DEF BufferOK
  <2>10. ProofsOK' BY <1>1, <1>6, <2>6 DEF Inside, ProofsOK
  <2> QED BY <2>8, <2>9, <2>10 DEF Inside
<1> QED BY <1>4, <1>5, <1>6, Zenon DEF ReadFixed

(* Inside is kept by a run, whose length came from the buffer. *)
LEMMA ReadRunInside ==
  ASSUME Inside, ReadRun
  PROVE  Inside'
<1>1. pc = "read" BY DEF ReadRun
<1>2. Bytewise(buf) /\ next \in 0..Len(buf) /\ Len(buf) \in Nat BY DEF Inside, BufferOK, Bytewise
<1>3. SizeBytes \in Nat /\ RunWidth \in Nat BY WidthsAssumption DEF RunWidth
<1>4. CASE Reject BY <1>1, <1>4, RejectInside
<1>5. CASE Have(SizeBytes) /\ ReadRunOf(OfBytes(SubSeq(buf, next + 1, next + SizeBytes)))
  <2> DEFINE n == OfBytes(SubSeq(buf, next + 1, next + SizeBytes))
             p == next + SizeBytes
             list == Unpack(p, n, RunWidth)
             has(k) == Len(buf) - p >= k
             valid == IF sub THEN ValidSubElts(list) ELSE ValidElts(list)
             cells == SubSeq(got.req, 1, ci) \o list \o SubSeq(got.req, ci + n + 1, Cells)
  <2>1. p <= Len(buf) /\ p \in Nat BY <1>2, <1>3, <1>5 DEF Have
  <2>2. n \in Nat
    <3>1. next \in Nat BY <1>2
    <3> QED BY <1>2, <1>3, <2>1, <3>1, SliceIsNatural
  <2> HIDE DEF n
  <2>3. n * RunWidth \in Nat /\ RunNeeded(n) = n * RunWidth BY <1>3, <2>2 DEF RunNeeded
  <2>4. ReadRunOf(n) BY <1>5 DEF n
  <2>5. CASE /\ ~RunTooLong(n) /\ has(n * RunWidth) /\ valid
             /\ got' = [got EXCEPT !.req = cells]
             /\ next' = RunEnd(n)
             /\ ci' = ci + n
             /\ UNCHANGED <<pc, section, proof, buf, altered>>
    <3>1. ci \in 0..Cells /\ Cells \in Nat BY Dimensions DEF Inside, ControlOK
    <3>2. ci + n <= Cells /\ ci \in Nat BY <2>2, <2>5, <3>1 DEF RunTooLong
    <3>3. p + n * RunWidth <= Len(buf) BY <1>2, <2>1, <2>3, <2>5
    <3>4. list \in [1..n -> Nat] BY <1>2, <1>3, <2>1, <2>2, <3>3, UnpackIsNatural
    <3>5. list \in [1..n -> Elt]
      <4>1. \A k \in 1..n : list[k] < Modulus
        <5>1. SubSize <= Modulus /\ SubSize \in Nat /\ Modulus \in Nat BY EltAssumption
        <5>2. DOMAIN list = 1..n /\ \A k \in 1..n : list[k] \in Nat BY <3>4
        <5> HIDE DEF list
        <5> QED BY <2>5, <5>1, <5>2 DEF ValidSubElts, ValidElts
      <4>2. Modulus \in Nat BY EltAssumption
      <4> HIDE DEF list
      <4>3. \A k \in 1..n : list[k] \in Elt BY <3>4, <4>1, <4>2 DEF Elt
      <4> QED BY <3>4, <4>3
    <3>6. got.req \in [1..Cells -> Elt] /\ IsProof(got) BY DEF Inside, ProofsOK, IsProof
    <3> HIDE DEF list
    <3>7. cells \in [1..Cells -> Elt] BY <2>2, <3>2, <3>5, <3>6, SplicedIs
    <3> HIDE DEF cells
    <3>8. IsProof(got') BY <2>5, <3>6, <3>7 DEF IsProof
    <3>9. ControlOK'
      <4>1. ci + n \in 0..Cells BY <2>2, <3>1, <3>2
      <4> QED BY <1>1, <2>5, <4>1 DEF Inside, ControlOK
    <3>10. BufferOK'
      <4>1. RunEnd(n) = p + n * RunWidth BY DEF RunEnd
      <4>2. p + n * RunWidth \in 0..Len(buf) BY <1>2, <2>1, <2>3, <3>3
      <4> HIDE DEF p
      <4> QED BY <1>1, <1>2, <2>5, <4>1, <4>2 DEF BufferOK
    <3>11. ProofsOK' BY <1>1, <2>5, <3>8 DEF Inside, ProofsOK
    <3> QED BY <3>9, <3>10, <3>11 DEF Inside
  <2>6. CASE has(RunNeeded(n)) /\ ~has(n * RunWidth) BY <2>3, <2>6
  <2> QED BY <1>4, <2>4, <2>5, <2>6, Zenon DEF ReadRunOf
<1> QED BY <1>4, <1>5 DEF ReadRun

(* Inside is kept by the path, whose length came from the buffer. *)
LEMMA ReadPathInside ==
  ASSUME Inside, ReadPath
  PROVE  Inside'
<1>1. pc = "read" BY DEF ReadPath
<1>2. Bytewise(buf) /\ next \in 0..Len(buf) /\ Len(buf) \in Nat BY DEF Inside, BufferOK, Bytewise
<1>3. SizeBytes \in Nat /\ DigestBytes \in Nat BY WidthsAssumption
<1>4. CASE Reject BY <1>1, <1>4, RejectInside
<1>5. CASE Have(SizeBytes) /\ ReadPathOf(OfBytes(SubSeq(buf, next + 1, next + SizeBytes)))
  <2> DEFINE sz == OfBytes(SubSeq(buf, next + 1, next + SizeBytes))
             p == next + SizeBytes
             list == Unpack(p, sz, DigestBytes)
  <2>1. p <= Len(buf) /\ p \in Nat BY <1>2, <1>3, <1>5 DEF Have
  <2>2. sz \in Nat
    <3>1. next \in Nat BY <1>2
    <3> QED BY <1>2, <1>3, <2>1, <3>1, SliceIsNatural
  <2> HIDE DEF sz
  <2>3. sz * DigestBytes \in Nat BY <1>3, <2>2
  <2>4. ReadPathOf(sz) BY <1>5 DEF sz
  <2>5. CASE /\ ~(sz < NReq) /\ Len(buf) - p >= sz * DigestBytes /\ ~PathTooLong(sz)
             /\ got' = [got EXCEPT !.path = list]
             /\ next' = p + sz * DigestBytes
             /\ pc' = "accepted"
             /\ UNCHANGED <<section, proof, buf, altered, ci, sub>>
    <3>1. p + sz * DigestBytes <= Len(buf) BY <1>2, <2>1, <2>3, <2>5
    <3>2. list \in [1..sz -> Nat] BY <1>2, <1>3, <2>1, <2>2, <3>1, UnpackIsNatural
    <3>3. list = [k \in 1..sz |-> list[k]] /\ list \in Seq(Nat) BY <2>2, <3>2
    <3> HIDE DEF list
    <3>4. Len(list) = sz BY <2>2, <3>3, SequenceOfLength
    <3>5. sz \in NReq..(NReq * PathLen) BY <2>2, <2>5, Dimensions DEF PathTooLong
    <3>6. IsProof(got) BY DEF Inside, ProofsOK
    <3>7. IsProof(got') /\ got'.path = list BY <2>5, <3>3, <3>6 DEF IsProof
    <3>8. ControlOK' BY <2>5 DEF Inside, ControlOK
    <3>9. BufferOK'
      <4>1. p + sz * DigestBytes \in 0..Len(buf) BY <1>2, <2>1, <2>3, <3>1
      <4> HIDE DEF p
      <4> QED BY <1>2, <2>5, <4>1 DEF BufferOK
    <3>10. ProofsOK' BY <2>5, <3>4, <3>5, <3>7 DEF Inside, ProofsOK
    <3> QED BY <3>8, <3>9, <3>10 DEF Inside
  <2> QED BY <1>4, <2>4, <2>5 DEF ReadPathOf
<1> QED BY <1>4, <1>5 DEF ReadPath

(* Inside is inductive. *)
LEMMA NextInside == Inside /\ [Next]_vars => Inside'
<1> SUFFICES ASSUME Inside, [Next]_vars PROVE Inside' OBVIOUS
<1>1. CASE UNCHANGED vars BY <1>1 DEF vars, Inside, ControlOK, BufferOK, ProofsOK
<1>2. CASE WriteFixed BY <1>2, WriteFixedInside
<1>3. CASE WriteRun BY <1>3, WriteRunInside
<1>4. CASE WritePath BY <1>4, WritePathInside
<1>5. CASE Deliver BY <1>5, DeliverInside
<1>6. CASE ReadFixed BY <1>6, ReadFixedInside
<1>7. CASE ReadRun BY <1>7, ReadRunInside
<1>8. CASE ReadPath BY <1>8, ReadPathInside
<1> QED BY <1>1, <1>2, <1>3, <1>4, <1>5, <1>6, <1>7, <1>8 DEF Next

(* Inside holds in every behaviour. *)
LEMMA AlwaysInside == Spec => []Inside
BY InitInside, NextInside, PTL DEF Spec

(* For every size of the field, of a digest and of the vectors, and for    *)
(* every list of layers: whatever arrives in place of the bytes of         *)
(* write(), read() asks ReadBuffer::next() only for bytes that are there,  *)
(* and accepts nothing the verifier cannot work on.                        *)
THEOREM ReaderIsSafe == Spec => []AcceptedIsWellFormed
<1>1. Inside => AcceptedIsWellFormed
  <2> SUFFICES ASSUME Inside PROVE AcceptedIsWellFormed OBVIOUS
  <2>1. pc # "aborted" /\ next \in 0..Len(buf) /\ ci \in 0..Cells
    BY DEF Inside, ControlOK, BufferOK
  <2>2. Modulus \in Nat BY EltAssumption
  <2>3. ASSUME NEW n \in Nat, NEW list \in [1..n -> Elt] PROVE Len(list) = n /\ ValidElts(list)
    <3>1. list = [k \in 1..n |-> list[k]] OBVIOUS
    <3>2. Len(list) = n BY <3>1, SequenceOfLength
    <3>3. \A k \in 1..n : list[k] < Modulus BY <2>2 DEF Elt
    <3> QED BY <3>2, <3>3 DEF ValidElts
  <2>4. IsProof(got) BY DEF Inside, ProofsOK
  <2>5. Len(got.req) = Cells /\ ValidElts(got.req)
    <3>1. got.req \in [1..Cells -> Elt] BY <2>4 DEF IsProof
    <3> QED BY <2>3, <3>1, Dimensions
  <2>6. Len(got.y_dot) = DBlock /\ ValidElts(got.y_dot)
    <3>1. got.y_dot \in [1..DBlock -> Elt] BY <2>4 DEF IsProof
    <3> QED BY <2>3, <3>1, Dimensions
  <2>7. ASSUME NEW i \in 1..NL PROVE ValidElts(LayerList(got.l[i]))
    <3>1. got.l[i] \in LayerProof(i) BY <2>4 DEF IsProof
    <3>2. LayerList(got.l[i]) \in [1..LayerCells(i) -> Elt] BY <3>1, LayerListIs
    <3> QED BY <2>3, <3>2, Dimensions
  <2>8. pc = "accepted" => Len(got.path) \in NReq..(NReq * PathLen) BY DEF Inside, ProofsOK
  <2> QED BY <2>1, <2>5, <2>6, <2>7, <2>8 DEF AcceptedIsWellFormed
<1> QED BY <1>1, AlwaysInside, PTL

-----------------------------------------------------------------------------
(* The trail of the writer: the states before and after each turn of its   *)
(* loops, with the length of the buffer                                    *)
At(s, c, k, p) == [section |-> s, ci |-> c, sub |-> k, pos |-> p]
Start == At(1, 0, FALSE, 0)
IsAt(w) ==
  /\ w.section \in 1..(Len(Fixed) + 1) /\ w.ci \in 0..Cells
  /\ w.sub \in BOOLEAN /\ w.pos \in Nat
End(w) == w.section = Len(Fixed) + 1 /\ w.ci = Cells

RunOf(p, c, n) == SubSeq(p.req, c + 1, c + n)
WidthOf(k) == IF k THEN SubBytes ELSE EltBytes

(* From w the writer went on to v, and the bytes of the turn are in b. *)
FixedTurn(w, v, b, p) ==
  /\ w.section <= Len(Fixed)
  /\ Holds(b, w.pos, Pack(Field(p, Fixed[w.section]), Width(Fixed[w.section])))
  /\ v = At(w.section + 1, w.ci, w.sub, w.pos + Count(Fixed[w.section]) * Width(Fixed[w.section]))

RunTurnOf(w, v, b, p, n) ==
  /\ RunIs(n, p.req, w.ci, w.sub)
  /\ Holds(b, w.pos, ToBytes(n, SizeBytes))
  /\ Holds(b, w.pos + SizeBytes, Pack(RunOf(p, w.ci, n), WidthOf(w.sub)))
  /\ v = At(w.section, w.ci + n, ~w.sub, w.pos + SizeBytes + n * WidthOf(w.sub))

RunTurn(w, v, b, p) ==
  /\ w.section = Len(Fixed) + 1 /\ w.ci < Cells
  /\ \E n \in Nat : RunTurnOf(w, v, b, p, n)

Turn(w, v, b, p) == FixedTurn(w, v, b, p) \/ RunTurn(w, v, b, p)

Trail(W, last, b, p) ==
  /\ Start \in W /\ last \in W
  /\ \A w \in W : IsAt(w) /\ (w = last \/ \E v \in W : Turn(w, v, b, p))

(* Everything is written: the path follows the last cell. *)
Whole(W, last, b, p) ==
  /\ Trail(W, last, b, p) /\ End(last) /\ last.pos \in Nat
  /\ Holds(b, last.pos, ToBytes(Len(p.path), SizeBytes))
  /\ Holds(b, last.pos + SizeBytes, Pack(p.path, DigestBytes))
  /\ Len(b) = last.pos + SizeBytes + Len(p.path) * DigestBytes

(* What was in the buffer stays there. *)
LEMMA HoldsOn ==
  ASSUME NEW b, Bytewise(b), NEW c, Bytewise(c), NEW p, p \in Nat, NEW d, Holds(b, p, d), Bytewise(d)
  PROVE  Holds(b \o c, p, d)
<1> DEFINE e == b \o c
<1>1. IsSeq(b) /\ IsSeq(c) BY DEF Bytewise, IsSeq
<1>2. /\ Len(e) = Len(b) + Len(c)
      /\ \A k \in 1..Len(b) : e[k] = b[k]
  BY <1>1, Concatenation DEF e
<1>3. Len(b) \in Nat /\ Len(c) \in Nat /\ Len(d) \in Nat BY DEF Bytewise
<1>4. p + Len(d) <= Len(b) /\ \A j \in 1..Len(d) : b[p + j] = d[j] BY DEF Holds
<1> HIDE DEF e
<1>5. ASSUME NEW j \in 1..Len(d) PROVE e[p + j] = d[j]
  <2>1. p + j \in 1..Len(b) BY <1>3, <1>4
  <2> QED BY <1>2, <1>4, <2>1
<1>6. p + Len(d) <= Len(e) BY <1>2, <1>3, <1>4
<1> QED BY <1>5, <1>6 DEF Holds, e

(* What was appended is there. *)
LEMMA HoldsLast ==
  ASSUME NEW b, Bytewise(b), NEW c, Bytewise(c)
  PROVE  Holds(b \o c, Len(b), c) /\ Len(b \o c) = Len(b) + Len(c)
<1> DEFINE e == b \o c
<1>1. IsSeq(b) /\ IsSeq(c) BY DEF Bytewise, IsSeq
<1>2. /\ Len(e) = Len(b) + Len(c)
      /\ \A k \in 1..Len(c) : e[Len(b) + k] = c[k]
  BY <1>1, Concatenation DEF e
<1>3. Len(b) \in Nat /\ Len(c) \in Nat BY DEF Bytewise
<1> HIDE DEF e
<1> QED BY <1>2, <1>3 DEF Holds, e

(* The cells of a run *)
LEMMA RunOfIs ==
  ASSUME NEW p, IsProof(p), NEW c \in Nat, NEW n \in Nat, c + n <= Cells
  PROVE  /\ RunOf(p, c, n) \in [1..n -> Elt] /\ RunOf(p, c, n) \in [1..n -> Nat]
         /\ \A k \in 1..n : RunOf(p, c, n)[k] = p.req[c + k]
<1> DEFINE run == RunOf(p, c, n)
<1>1. p.req \in [1..Cells -> Elt] /\ Cells \in Nat BY Dimensions DEF IsProof
<1>2. \A k \in (c + 1)..(c + n) : p.req[k] \in Elt
  <2>1. (c + 1)..(c + n) \subseteq 1..Cells BY <1>1
  <2> QED BY <1>1, <2>1
<1>3. /\ run \in Seq(Elt)
      /\ Len(run) = IF c + 1 <= c + n THEN c + n - (c + 1) + 1 ELSE 0
      /\ \A k \in 1..(c + n - (c + 1) + 1) : run[k] = p.req[c + 1 + k - 1]
  BY <1>2, SubSeqProperties DEF RunOf
<1> HIDE DEF run
<1>4. /\ c + n - (c + 1) + 1 = n /\ (~(c + 1 <= c + n) => n = 0)
      /\ \A k \in 1..n : c + 1 + k - 1 = c + k
  OBVIOUS
<1>5. Len(run) = n /\ \A k \in 1..n : run[k] = p.req[c + k] BY <1>3, <1>4
<1>6. run \in [1..n -> Elt] BY <1>3, <1>5
<1>7. Elt \subseteq Nat BY EltAssumption DEF Elt
<1>8. run \in [1..n -> Nat] BY <1>6, <1>7
<1> QED BY <1>5, <1>6, <1>8 DEF run

(* The cells of a run fit the width of its kind. *)
LEMMA RunFits ==
  ASSUME NEW p, IsProof(p), NEW c \in Nat, NEW k \in BOOLEAN, NEW n \in Nat, c + n <= Cells,
         RunIs(n, p.req, c, k)
  PROVE  /\ \A j \in 1..n : Fits(RunOf(p, c, n)[j], WidthOf(k))
         /\ k => \A j \in 1..n : RunOf(p, c, n)[j] < SubSize
<1> DEFINE run == RunOf(p, c, n)
<1>1. run \in [1..n -> Elt] /\ \A j \in 1..n : run[j] = p.req[c + j] BY RunOfIs
<1>2. \A j \in 1..n : InSubfield(p.req[c + j]) = k BY DEF RunIs
<1> HIDE DEF run
<1>3. k => \A j \in 1..n : run[j] < SubSize
  <2>1. k => \A j \in 1..n : InSubfield(run[j]) BY <1>1, <1>2, Zenon
  <2> QED BY <2>1 DEF InSubfield
<1>4. CASE k
  <2>1. \A j \in 1..n : run[j] \in 0..(SubSize - 1)
    <3>1. SubSize \in Nat BY EltAssumption
    <3>2. \A j \in 1..n : run[j] \in Nat BY <1>1, EltAssumption DEF Elt
    <3> QED BY <1>3, <1>4, <3>1, <3>2
  <2> QED BY <1>3, <1>4, <2>1, EltAssumption DEF WidthOf, run
<1>5. CASE ~k
  <2>1. \A j \in 1..n : run[j] \in Elt BY <1>1
  <2> QED BY <1>5, <2>1, EltAssumption DEF WidthOf, run
<1> QED BY <1>4, <1>5

(* A run that reaches the limit is excluded. *)
LEMMA RunIsShort ==
  ASSUME ShortRuns, NEW c \in Nat, NEW k, NEW n \in Nat, c + n <= Cells, RunIs(n, proof.req, c, k)
  PROVE  n < MaxRunLen
<1> SUFFICES ASSUME n = MaxRunLen PROVE FALSE
  BY WidthsAssumption DEF RunIs
<1>1. n > 0 /\ Cells \in Nat BY WidthsAssumption, Dimensions
<1>2. c + 1 \in 1..Cells /\ c + 1 + MaxRunLen - 1 <= Cells BY <1>1
<1>3. PICK j \in (c + 1)..(c + 1 + MaxRunLen - 2) :
        InSubfield(proof.req[j]) # InSubfield(proof.req[j + 1])
  BY <1>2 DEF ShortRuns
<1>4. /\ j - c \in 1..n /\ j + 1 - c \in 1..n
      /\ c + (j - c) = j /\ c + (j + 1 - c) = j + 1
  BY <1>1
<1>5. \A i \in 1..n : InSubfield(proof.req[c + i]) = k BY DEF RunIs
<1>6. InSubfield(proof.req[c + (j - c)]) = k /\ InSubfield(proof.req[c + (j + 1 - c)]) = k
  BY <1>4, <1>5, Zenon
<1> QED BY <1>3, <1>4, <1>6, Zenon

-----------------------------------------------------------------------------
(* Turns stay in a buffer that grows. *)
LEMMA TurnStays ==
  ASSUME NEW b, Bytewise(b), NEW c, Bytewise(c), NEW p, IsProof(p),
         NEW w, IsAt(w), NEW v, Turn(w, v, b, p)
  PROVE  Turn(w, v, b \o c, p)
<1>1. CASE FixedTurn(w, v, b, p)
  <2> DEFINE s == Fixed[w.section]   d == Pack(Field(p, s), Width(s))
  <2>1. w.section \in 1..Len(Fixed)
    <3>1. Len(Fixed) \in Nat BY SectionsAre, Dimensions DEF FixedAre
    <3> QED BY <1>1, <3>1 DEF FixedTurn, IsAt
  <2>2. Known(s) BY <2>1, SectionIsKnown
  <2>3. Field(p, s) \in [1..Count(s) -> Nat] BY <2>2, FieldIs
  <2>4. Bytewise(d) BY <2>2, <2>3, SizesAre, PackIs
  <2>5. Holds(b, w.pos, d) /\ w.pos \in Nat BY <1>1 DEF FixedTurn, IsAt
  <2> HIDE DEF d
  <2>6. Holds(b \o c, w.pos, d) BY <2>4, <2>5, HoldsOn
  <2>7. FixedTurn(w, v, b \o c, p) BY <1>1, <2>6, Zenon DEF FixedTurn, d
  <2> QED BY <2>7 DEF Turn
<1>2. CASE RunTurn(w, v, b, p)
  <2>1. PICK n \in Nat : RunTurnOf(w, v, b, p, n) BY <1>2 DEF RunTurn
  <2> DEFINE d == ToBytes(n, SizeBytes)   e == Pack(RunOf(p, w.ci, n), WidthOf(w.sub))
  <2>2. w.ci \in Nat /\ w.ci + n <= Cells /\ w.pos \in Nat /\ w.pos + SizeBytes \in Nat
        /\ SizeBytes \in Nat /\ WidthOf(w.sub) \in Nat
    <3>1. w.ci \in 0..Cells /\ w.pos \in Nat BY DEF IsAt
    <3>2. RunIs(n, p.req, w.ci, w.sub) BY <2>1 DEF RunTurnOf
    <3>3. n \in 0..(Cells - w.ci) /\ Cells \in Nat BY <3>2, Dimensions DEF RunIs
    <3>4. SizeBytes \in Nat /\ WidthOf(w.sub) \in Nat BY WidthsAssumption DEF WidthOf
    <3> QED BY <3>1, <3>3, <3>4, SMT
  <2>3. Bytewise(d) BY <2>2, ToBytesIs
  <2>4. RunOf(p, w.ci, n) \in [1..n -> Nat] BY <2>2, RunOfIs
  <2>5. Bytewise(e) BY <2>2, <2>4, PackIs
  <2>6. Holds(b, w.pos, d) /\ Holds(b, w.pos + SizeBytes, e) BY <2>1 DEF RunTurnOf
  <2> HIDE DEF d, e
  <2>7. Holds(b \o c, w.pos, d) BY <2>2, <2>3, <2>6, HoldsOn
  <2>8. Holds(b \o c, w.pos + SizeBytes, e) BY <2>2, <2>5, <2>6, HoldsOn
  <2>9. RunTurnOf(w, v, b \o c, p, n) BY <2>1, <2>7, <2>8, Zenon DEF RunTurnOf, d, e
  <2>10. RunTurn(w, v, b \o c, p) BY <1>2, <2>9, Zenon DEF RunTurn
  <2> QED BY <2>10 DEF Turn
<1> QED BY <1>1, <1>2 DEF Turn

(* One turn more *)
LEMMA TrailGrows ==
  ASSUME NEW b, Bytewise(b), NEW c, Bytewise(c), NEW p, IsProof(p),
         NEW W, NEW w, Trail(W, w, b, p), NEW v, IsAt(v), Turn(w, v, b \o c, p)
  PROVE  Trail(W \union {v}, v, b \o c, p)
<1> DEFINE V == W \union {v}
<1>1. Start \in V /\ v \in V BY DEF Trail
<1>2. ASSUME NEW u \in V PROVE IsAt(u) /\ (u = v \/ \E x \in V : Turn(u, x, b \o c, p))
  <2>1. CASE u = v BY <2>1
  <2>2. CASE u = w /\ u \in W BY <2>2 DEF Trail
  <2>3. CASE u # w /\ u \in W
    <3>1. IsAt(u) BY <2>3 DEF Trail
    <3>2. PICK x \in W : Turn(u, x, b, p) BY <2>3 DEF Trail
    <3>3. Turn(u, x, b \o c, p) BY <3>1, <3>2, TurnStays
    <3> QED BY <3>1, <3>3
  <2> QED BY <2>1, <2>2, <2>3
<1> HIDE DEF V
<1>3. Trail(V, v, b \o c, p) BY <1>1, <1>2 DEF Trail
<1> QED BY <1>3 DEF V

(* The section of a proof in the buffer *)
LEMMA FixedTurnIs ==
  ASSUME NEW b, Bytewise(b), NEW p, IsProof(p), NEW w, IsAt(w), w.section <= Len(Fixed),
         w.pos = Len(b), NEW c, c = Pack(Field(p, Fixed[w.section]), Width(Fixed[w.section]))
  PROVE  /\ Bytewise(c) /\ Bytewise(b \o c)
         /\ Turn(w, At(w.section + 1, w.ci, w.sub, Len(b \o c)), b \o c, p)
         /\ IsAt(At(w.section + 1, w.ci, w.sub, Len(b \o c)))
<1> DEFINE s == Fixed[w.section]   v == At(w.section + 1, w.ci, w.sub, Len(b \o c))
<1>1. Len(Fixed) \in Nat BY SectionsAre, Dimensions DEF FixedAre
<1>2. w.section \in 1..Len(Fixed) BY <1>1 DEF IsAt
<1>3. Known(s) BY <1>2, SectionIsKnown
<1>4. Count(s) \in Nat /\ Width(s) \in Nat BY <1>3, SizesAre
<1>5. Field(p, s) \in [1..Count(s) -> Nat] BY <1>3, FieldIs
<1>6. Bytewise(c) /\ Len(c) = Width(s) * Count(s) BY <1>4, <1>5, PackIs
<1>7. Bytewise(b \o c) BY <1>6, Joins
<1>8. Holds(b \o c, Len(b), c) /\ Len(b \o c) = Len(b) + Len(c) BY <1>6, HoldsLast
<1>9. Width(s) * Count(s) = Count(s) * Width(s) BY <1>4, SMT
<1>10. v = At(w.section + 1, w.ci, w.sub, w.pos + Count(s) * Width(s)) BY <1>6, <1>8, <1>9
<1>11. FixedTurn(w, v, b \o c, p)
  <2>1. Holds(b \o c, w.pos, Pack(Field(p, s), Width(s))) BY <1>8
  <2> HIDE DEF v
  <2> QED BY <1>10, <2>1 DEF FixedTurn
<1>12. Len(b \o c) \in Nat BY <1>7 DEF Bytewise
<1>13. IsAt(v) BY <1>1, <1>2, <1>12 DEF IsAt, At
<1> QED BY <1>6, <1>7, <1>11, <1>13 DEF Turn

(* A run in the buffer *)
LEMMA RunTurnIs ==
  ASSUME NEW b, Bytewise(b), NEW p, IsProof(p), NEW w, IsAt(w), w.section = Len(Fixed) + 1,
         w.ci < Cells, w.pos = Len(b), NEW n \in Nat, RunIs(n, p.req, w.ci, w.sub),
         NEW d, d = ToBytes(n, SizeBytes),
         NEW c, c = Pack(RunOf(p, w.ci, n), WidthOf(w.sub))
  PROVE  /\ Bytewise(d) /\ Bytewise(c)
         /\ Turn(w, At(w.section, w.ci + n, ~w.sub, Len(b \o d \o c)), b \o d \o c, p)
         /\ IsAt(At(w.section, w.ci + n, ~w.sub, Len(b \o d \o c)))
<1> DEFINE bd == b \o d   e == bd \o c   v == At(w.section, w.ci + n, ~w.sub, Len(e))
<1>1. /\ w.ci \in Nat /\ w.ci + n \in 0..Cells /\ w.pos \in Nat
      /\ SizeBytes \in Nat /\ WidthOf(w.sub) \in Nat /\ w.ci + n <= Cells
  <2>1. w.ci \in 0..Cells /\ w.pos \in Nat BY DEF IsAt
  <2>2. n \in 0..(Cells - w.ci) /\ Cells \in Nat BY Dimensions DEF RunIs
  <2>3. SizeBytes \in Nat /\ WidthOf(w.sub) \in Nat BY WidthsAssumption DEF WidthOf
  <2> QED BY <2>1, <2>2, <2>3, SMT
<1>2. Bytewise(d) /\ Len(d) = SizeBytes BY <1>1, ToBytesIs
<1>3. RunOf(p, w.ci, n) \in [1..n -> Nat] BY <1>1, RunOfIs
<1>4. Bytewise(c) /\ Len(c) = WidthOf(w.sub) * n BY <1>1, <1>3, PackIs
<1>5. Bytewise(bd) BY <1>2, Joins
<1>6. Holds(bd, Len(b), d) /\ Len(bd) = Len(b) + Len(d) BY <1>2, HoldsLast
<1> HIDE DEF bd
<1>7. Bytewise(e) BY <1>4, <1>5, Joins
<1>8. Holds(e, Len(bd), c) /\ Len(e) = Len(bd) + Len(c) BY <1>4, <1>5, HoldsLast
<1>9. Holds(e, Len(b), d)
  <2>1. Len(b) \in Nat BY DEF Bytewise
  <2> QED BY <1>2, <1>4, <1>5, <1>6, <2>1, HoldsOn
<1> HIDE DEF e
<1>10. Len(bd) = w.pos + SizeBytes BY <1>2, <1>6
<1>11. Len(e) = w.pos + SizeBytes + n * WidthOf(w.sub)
  <2>1. WidthOf(w.sub) * n = n * WidthOf(w.sub) BY <1>1, SMT
  <2> QED BY <1>4, <1>8, <1>10, <2>1
<1>12. RunTurnOf(w, v, e, p, n)
  <2>1. v = At(w.section, w.ci + n, ~w.sub, w.pos + SizeBytes + n * WidthOf(w.sub)) BY <1>11
  <2>2. Holds(e, w.pos, ToBytes(n, SizeBytes)) BY <1>9
  <2>3. Holds(e, w.pos + SizeBytes, Pack(RunOf(p, w.ci, n), WidthOf(w.sub))) BY <1>8, <1>10
  <2> HIDE DEF v
  <2> QED BY <2>1, <2>2, <2>3 DEF RunTurnOf
<1>13. RunTurn(w, v, e, p)
  <2> HIDE DEF v
  <2> QED BY <1>12 DEF RunTurn
<1>14. IsAt(v)
  <2>1. Len(e) \in Nat BY <1>7 DEF Bytewise
  <2> QED BY <1>1, <2>1 DEF IsAt, At
<1> QED BY <1>2, <1>4, <1>13, <1>14 DEF Turn, e, bd

-----------------------------------------------------------------------------
(* What the verifier's proof has in common with the prover's *)
Same(g, p, s) ==
  IF s.name = "layer" THEN g.l[s.i] = LayerWithoutP1(p.l[s.i]) ELSE Field(g, s) = Field(p, s)

(* No section occurs twice. *)
LEMMA SectionsDiffer ==
  ASSUME NEW j \in 1..Len(Fixed), NEW k \in 1..Len(Fixed), j < k
  PROVE  Fixed[j] # Fixed[k]
<1>1. FixedAre(Fixed) BY SectionsAre
<1>2. NL \in Nat BY Dimensions
<1> DEFINE Spot(n) == n = 1 \/ n - 1 \in 1..NL \/ n \in {NL + 2, NL + 3, NL + 4, NL + 5, NL + 6}
<1>3. Spot(j) /\ Spot(k) BY <1>1, <1>2 DEF FixedAre
<1>4. \A n \in 1..Len(Fixed) : n - 1 \in 1..NL => Fixed[n].name = "layer" /\ Fixed[n].i = n - 1
  <2> SUFFICES ASSUME NEW n \in 1..Len(Fixed), n - 1 \in 1..NL
               PROVE  Fixed[n].name = "layer" /\ Fixed[n].i = n - 1
    OBVIOUS
  <2>1. (n - 1) + 1 = n BY <1>2
  <2>2. Fixed[n] = [name |-> "layer", i |-> n - 1] BY <1>1, <2>1 DEF FixedAre
  <2> QED BY <2>2
<1>5. /\ Fixed[1].name = "root" /\ Fixed[NL + 2].name = "y_ldt" /\ Fixed[NL + 3].name = "y_dot"
      /\ Fixed[NL + 4].name = "y_quad_0" /\ Fixed[NL + 5].name = "y_quad_2"
      /\ Fixed[NL + 6].name = "nonce"
  BY <1>1 DEF FixedAre
<1>6. SUFFICES ASSUME Fixed[j] = Fixed[k] PROVE FALSE OBVIOUS
<1>7. Fixed[j].name = Fixed[k].name /\ Fixed[j].i = Fixed[k].i BY <1>6
<1>8. j - 1 \in 1..NL <=> k - 1 \in 1..NL
  <2>1. \A n \in 1..Len(Fixed) : Spot(n) /\ ~(n - 1 \in 1..NL) => Fixed[n].name # "layer" BY <1>5
  <2> HIDE DEF Spot
  <2> QED BY <1>3, <1>4, <1>7, <2>1
<1>9. CASE j - 1 \in 1..NL
  <2>1. j - 1 = k - 1 BY <1>4, <1>7, <1>8, <1>9
  <2> QED BY <2>1
<1>10. CASE ~(j - 1 \in 1..NL)
  <2>1. j = 1 \/ j \in {NL + 2, NL + 3, NL + 4, NL + 5, NL + 6} BY <1>3, <1>10
  <2>2. k \in {NL + 2, NL + 3, NL + 4, NL + 5, NL + 6} BY <1>3, <1>8, <1>10
  <2> QED BY <1>2, <1>5, <1>7, <2>1, <2>2
<1> QED BY <1>9, <1>10

(* What was stored of the prover's proof *)
LEMMA StoreSame ==
  ASSUME NEW s, Known(s), NEW g, IsProof(g), NEW p, IsProof(p)
  PROVE  Same(Store(g, s, Field(p, s)), p, s)
<1> DEFINE list == Field(p, s)   q == Store(g, s, list)
<1>1. g = [root |-> g.root, l |-> g.l, y_ldt |-> g.y_ldt, y_dot |-> g.y_dot,
           y_quad_0 |-> g.y_quad_0, y_quad_2 |-> g.y_quad_2,
           nonce |-> g.nonce, req |-> g.req, path |-> g.path]
  BY DEF IsProof
<1>2. CASE s = [name |-> "root", i |-> 0]
  <2>1. list = <<p.root>> /\ q = [g EXCEPT !.root = list[1]] BY <1>2 DEF Field, Store
  <2>2. q.root = p.root BY <1>1, <2>1
  <2> HIDE DEF q
  <2>3. Field(q, s) = <<q.root>> /\ Field(p, s) = <<p.root>> /\ s.name # "layer" BY <1>2 DEF Field
  <2> QED BY <2>2, <2>3 DEF Same, q
<1>3. ASSUME NEW i \in 1..NL, s = [name |-> "layer", i |-> i] PROVE Same(q, p, s)
  <2>1. list = LayerList(p.l[i]) /\ q = [g EXCEPT !.l[i] = LayerOfList(i, list)]
    BY <1>3 DEF Field, Store
  <2>2. p.l[i] \in LayerProof(i) /\ DOMAIN g.l = 1..NL BY DEF IsProof
  <2>3. LayerOfList(i, list) = LayerWithoutP1(p.l[i]) BY <2>1, <2>2, LayerComesBack
  <2> DEFINE e == LayerOfList(i, list)   ll == [g.l EXCEPT ![i] = e]
  <2>4. q = [g EXCEPT !.l = ll] BY <2>1
  <2>5. ll[i] = e
    <3> HIDE DEF e
    <3> QED BY <2>2
  <2>6. q.l = ll
    <3> HIDE DEF ll, q
    <3> QED BY <1>1, <2>4
  <2> HIDE DEF q, ll, e
  <2>7. q.l[i] = LayerWithoutP1(p.l[i]) BY <2>3, <2>5, <2>6 DEF e
  <2>8. s.name = "layer" /\ s.i = i BY <1>3
  <2> QED BY <2>7, <2>8 DEF Same
<1>4. ASSUME NEW nm \in {"y_ldt", "y_dot", "y_quad_0", "y_quad_2", "nonce"}, s = [name |-> nm, i |-> 0]
      PROVE  Same(q, p, s)
  <2>1. list = p[nm] /\ q = [g EXCEPT ![nm] = list] BY <1>4 DEF Field, Store
  <2> HIDE DEF list
  <2>2. q[nm] = list BY <1>1, <2>1
  <2> HIDE DEF q
  <2>3. Field(q, s) = q[nm] /\ Field(p, s) = p[nm] /\ s.name # "layer" BY <1>4 DEF Field
  <2> QED BY <2>1, <2>2, <2>3 DEF Same
<1> QED BY <1>2, <1>3, <1>4 DEF Known

(* The other sections stay. *)
LEMMA StoreKeeps ==
  ASSUME NEW s, Known(s), NEW t, Known(t), s # t, NEW g, IsProof(g), NEW p, NEW list, Same(g, p, t)
  PROVE  Same(Store(g, s, list), p, t)
<1> DEFINE q == Store(g, s, list)
           Names == {"y_ldt", "y_dot", "y_quad_0", "y_quad_2", "nonce"}
<1>1. g = [root |-> g.root, l |-> g.l, y_ldt |-> g.y_ldt, y_dot |-> g.y_dot,
           y_quad_0 |-> g.y_quad_0, y_quad_2 |-> g.y_quad_2,
           nonce |-> g.nonce, req |-> g.req, path |-> g.path]
  BY DEF IsProof
<1>2. q.root = g.root \/ s.name = "root"
  <2>1. CASE s = [name |-> "root", i |-> 0] BY <2>1
  <2>2. ASSUME NEW i \in 1..NL, s = [name |-> "layer", i |-> i] PROVE q.root = g.root
    <3>1. q = [g EXCEPT !.l = [g.l EXCEPT ![i] = LayerOfList(i, list)]] BY <2>2 DEF Store
    <3> QED BY <1>1, <3>1
  <2>3. ASSUME NEW nm \in Names, s = [name |-> nm, i |-> 0] PROVE q.root = g.root
    <3>1. q = [g EXCEPT ![nm] = list] BY <2>3 DEF Store
    <3> QED BY <1>1, <3>1
  <2> QED BY <2>1, <2>2, <2>3 DEF Known
<1>3. ASSUME NEW nm \in Names, s.name # nm PROVE q[nm] = g[nm]
  <2>1. CASE s = [name |-> "root", i |-> 0]
    <3>1. q = [g EXCEPT !.root = list[1]] BY <2>1 DEF Store
    <3> QED BY <1>1, <3>1
  <2>2. ASSUME NEW i \in 1..NL, s = [name |-> "layer", i |-> i] PROVE q[nm] = g[nm]
    <3>1. q = [g EXCEPT !.l = [g.l EXCEPT ![i] = LayerOfList(i, list)]] BY <2>2 DEF Store
    <3> QED BY <1>1, <3>1
  <2>3. ASSUME NEW n \in Names, s = [name |-> n, i |-> 0] PROVE q[nm] = g[nm]
    <3>1. q = [g EXCEPT ![n] = list] /\ n # nm BY <1>3, <2>3 DEF Store
    <3> QED BY <1>1, <3>1
  <2> QED BY <2>1, <2>2, <2>3 DEF Known
<1>4. ASSUME NEW j \in 1..NL, s # [name |-> "layer", i |-> j] PROVE q.l[j] = g.l[j]
  <2>1. CASE s = [name |-> "root", i |-> 0]
    <3>1. q = [g EXCEPT !.root = list[1]] BY <2>1 DEF Store
    <3> QED BY <1>1, <3>1
  <2>2. ASSUME NEW i \in 1..NL, s = [name |-> "layer", i |-> i] PROVE q.l[j] = g.l[j]
    <3> DEFINE e == LayerOfList(i, list)   ll == [g.l EXCEPT ![i] = e]
    <3>1. q = [g EXCEPT !.l = ll] BY <2>2 DEF Store
    <3>2. i # j BY <1>4, <2>2
    <3>3. DOMAIN g.l = 1..NL BY DEF IsProof
    <3>4. ll[j] = g.l[j]
      <4> HIDE DEF e
      <4> QED BY <3>2, <3>3
    <3> HIDE DEF ll, q
    <3>5. q.l = ll BY <1>1, <3>1
    <3> QED BY <3>4, <3>5
  <2>3. ASSUME NEW n \in Names, s = [name |-> n, i |-> 0] PROVE q.l[j] = g.l[j]
    <3>1. q = [g EXCEPT ![n] = list] BY <2>3 DEF Store
    <3> QED BY <1>1, <3>1
  <2> QED BY <2>1, <2>2, <2>3 DEF Known
<1> HIDE DEF q
<1>5. CASE t = [name |-> "root", i |-> 0]
  <2>1. s.name # "root" BY <1>5 DEF Known
  <2>2. /\ Field(q, t) = <<q.root>> /\ Field(g, t) = <<g.root>> /\ t.name # "layer"
    BY <1>5 DEF Field
  <2> QED BY <1>2, <2>1, <2>2 DEF Same, q
<1>6. ASSUME NEW j \in 1..NL, t = [name |-> "layer", i |-> j] PROVE Same(q, p, t)
  <2>1. t.name = "layer" /\ t.i = j BY <1>6
  <2>2. q.l[j] = g.l[j] BY <1>4, <1>6
  <2> QED BY <2>1, <2>2 DEF Same
<1>7. ASSUME NEW nm \in Names, t = [name |-> nm, i |-> 0] PROVE Same(q, p, t)
  <2>1. s.name # nm BY <1>7 DEF Known
  <2>2. Field(q, t) = q[nm] /\ Field(g, t) = g[nm] /\ t.name # "layer" BY <1>7 DEF Field
  <2> QED BY <1>3, <2>1, <2>2 DEF Same
<1> QED BY <1>5, <1>6, <1>7 DEF Known, q

(* The fixed sections leave the columns and the path alone. *)
LEMMA StoreLeaves ==
  ASSUME NEW s, Known(s), NEW g, IsProof(g), NEW list
  PROVE  Store(g, s, list).req = g.req /\ Store(g, s, list).path = g.path
<1> DEFINE q == Store(g, s, list)
<1>1. g = [root |-> g.root, l |-> g.l, y_ldt |-> g.y_ldt, y_dot |-> g.y_dot,
           y_quad_0 |-> g.y_quad_0, y_quad_2 |-> g.y_quad_2,
           nonce |-> g.nonce, req |-> g.req, path |-> g.path]
  BY DEF IsProof
<1>2. CASE s = [name |-> "root", i |-> 0]
  <2>1. q = [g EXCEPT !.root = list[1]] BY <1>2 DEF Store
  <2> QED BY <1>1, <2>1
<1>3. ASSUME NEW i \in 1..NL, s = [name |-> "layer", i |-> i] PROVE q.req = g.req /\ q.path = g.path
  <2>1. q = [g EXCEPT !.l = [g.l EXCEPT ![i] = LayerOfList(i, list)]] BY <1>3 DEF Store
  <2> QED BY <1>1, <2>1
<1>4. ASSUME NEW nm \in {"y_ldt", "y_dot", "y_quad_0", "y_quad_2", "nonce"}, s = [name |-> nm, i |-> 0]
      PROVE  q.req = g.req /\ q.path = g.path
  <2>1. q = [g EXCEPT ![nm] = list] BY <1>4 DEF Store
  <2> QED BY <1>1, <2>1
<1> QED BY <1>2, <1>3, <1>4 DEF Known

(* A proof that agrees in every section is the prover's, as it was sent. *)
LEMMA AllTheSame ==
  ASSUME NEW g, IsProof(g), NEW p, IsProof(p), g.req = p.req, g.path = p.path,
         \A k \in 1..Len(Fixed) : Same(g, p, Fixed[k])
  PROVE  g = WithoutP1(p)
<1>1. FixedAre(Fixed) /\ NL \in Nat BY SectionsAre, Dimensions
<1>2. g.root = p.root
  <2>1. 1 \in 1..Len(Fixed) /\ Fixed[1] = [name |-> "root", i |-> 0] BY <1>1 DEF FixedAre
  <2>2. Field(g, Fixed[1]) = Field(p, Fixed[1]) BY <2>1 DEF Same
  <2>3. <<g.root>> = <<p.root>> BY <2>1, <2>2 DEF Field
  <2> QED BY <2>3
<1>3. ASSUME NEW k \in 1..Len(Fixed), NEW nm \in {"y_ldt", "y_dot", "y_quad_0", "y_quad_2", "nonce"},
             Fixed[k] = [name |-> nm, i |-> 0]
      PROVE  g[nm] = p[nm]
  <2>1. Field(g, Fixed[k]) = Field(p, Fixed[k]) BY <1>3 DEF Same
  <2> QED BY <1>3, <2>1 DEF Field
<1>4. g.y_ldt = p.y_ldt BY <1>1, <1>3 DEF FixedAre
<1>5. g.y_dot = p.y_dot BY <1>1, <1>3 DEF FixedAre
<1>6. g.y_quad_0 = p.y_quad_0 BY <1>1, <1>3 DEF FixedAre
<1>7. g.y_quad_2 = p.y_quad_2 BY <1>1, <1>3 DEF FixedAre
<1>8. g.nonce = p.nonce BY <1>1, <1>3 DEF FixedAre
<1> DEFINE ll == [i \in DOMAIN p.l |-> LayerWithoutP1(p.l[i])]
<1>9. g.l = ll
  <2>1. g.l = [i \in 1..NL |-> g.l[i]] /\ DOMAIN p.l = 1..NL BY DEF IsProof
  <2>2. ASSUME NEW i \in 1..NL PROVE g.l[i] = LayerWithoutP1(p.l[i])
    <3>1. i + 1 \in 1..Len(Fixed) /\ Fixed[i + 1] = [name |-> "layer", i |-> i]
      BY <1>1 DEF FixedAre
    <3>2. Fixed[i + 1].name = "layer" /\ Fixed[i + 1].i = i BY <3>1
    <3> QED BY <3>1, <3>2 DEF Same
  <2> QED BY <2>1, <2>2
<1>10. WithoutP1(p) = [p EXCEPT !.l = ll] BY Zenon DEF WithoutP1
<1> HIDE DEF ll
<1>11. /\ g = [root |-> g.root, l |-> g.l, y_ldt |-> g.y_ldt, y_dot |-> g.y_dot,
              y_quad_0 |-> g.y_quad_0, y_quad_2 |-> g.y_quad_2,
              nonce |-> g.nonce, req |-> g.req, path |-> g.path]
       /\ p = [root |-> p.root, l |-> p.l, y_ldt |-> p.y_ldt, y_dot |-> p.y_dot,
              y_quad_0 |-> p.y_quad_0, y_quad_2 |-> p.y_quad_2,
              nonce |-> p.nonce, req |-> p.req, path |-> p.path]
  BY DEF IsProof
<1>12. WithoutP1(p) = [root |-> p.root, l |-> ll, y_ldt |-> p.y_ldt, y_dot |-> p.y_dot,
              y_quad_0 |-> p.y_quad_0, y_quad_2 |-> p.y_quad_2,
              nonce |-> p.nonce, req |-> p.req, path |-> p.path]
  BY <1>10, <1>11
<1> QED BY <1>2, <1>4, <1>5, <1>6, <1>7, <1>8, <1>9, <1>11, <1>12

-----------------------------------------------------------------------------
(* The reader is on the trail of the writer, and holds what the writer had *)
(* behind it.                                                              *)
Agree ==
  /\ \A k \in 1..Len(Fixed) : k < section => Same(got, proof, Fixed[k])
  /\ \A k \in 1..ci : got.req[k] = proof.req[k]

Writing == \E W : Trail(W, At(section, ci, sub, Len(buf)), buf, proof)
Written == section = 1 /\ ci = 0 /\ sub = FALSE /\ \E W : \E last \in W : Whole(W, last, buf, proof)
Reading == Agree /\ \E W : \E last \in W : Whole(W, last, buf, proof) /\ At(section, ci, sub, next) \in W
Finished ==
  /\ Agree /\ section = Len(Fixed) + 1 /\ ci = Cells
  /\ got.path = proof.path /\ next = Len(buf)

Unaltered == ~altered /\ ShortRuns /\ PathInRange

OnTrail ==
  /\ pc \in {"write", "deliver"} => ~altered
  /\ pc = "write" => Writing
  /\ pc = "deliver" => Written
  /\ Unaltered =>
       /\ pc = "read" => Reading
       /\ pc = "accepted" => Finished
       /\ pc # "rejected"

(* Whether the bytes are the ones written does not change with the reader. *)
LEMMA UnalteredStays ==
  ASSUME proof' = proof, altered' = altered
  PROVE  Unaltered' <=> Unaltered
BY DEF Unaltered, ShortRuns, InSubfield, PathInRange

(* The writer is at the start of its trail. *)
LEMMA InitOnTrail == Init => OnTrail
<1> SUFFICES ASSUME Init PROVE OnTrail OBVIOUS
<1>1. /\ pc = "write" /\ section = 1 /\ buf = <<>> /\ altered = FALSE /\ ci = 0 /\ sub = FALSE
  BY DEF Init
<1>2. At(section, ci, sub, Len(buf)) = Start BY <1>1 DEF At, Start
<1>3. IsAt(Start)
  <2>1. Len(Fixed) \in Nat /\ Cells \in Nat BY SectionsAre, Dimensions DEF FixedAre
  <2> QED BY <2>1 DEF IsAt, Start, At
<1>4. Trail({Start}, Start, buf, proof) BY <1>3 DEF Trail
<1>5. Writing BY <1>2, <1>4 DEF Writing
<1> QED BY <1>1, <1>5 DEF OnTrail

(* The writer leaves a place for every fixed section. *)
LEMMA WriteFixedOnTrail ==
  ASSUME Inside, OnTrail, WriteFixed
  PROVE  OnTrail'
<1> DEFINE c == Pack(Field(proof, Fixed[section]), Width(Fixed[section]))
           w == At(section, ci, sub, Len(buf))
           v == At(section + 1, ci, sub, Len(buf \o c))
<1>1. /\ pc = "write" /\ section <= Len(Fixed) /\ buf' = buf \o c /\ section' = section + 1
      /\ UNCHANGED <<pc, proof, altered, next, ci, sub, got>>
  BY DEF WriteFixed, InFixed
<1>2. PICK W : Trail(W, w, buf, proof) BY <1>1 DEF OnTrail, Writing
<1>3. Bytewise(buf) /\ IsProof(proof) BY DEF Inside, BufferOK, ProofsOK
<1>4. IsAt(w) BY <1>2 DEF Trail
<1>5. w.section = section /\ w.ci = ci /\ w.sub = sub /\ w.pos = Len(buf) BY DEF At
<1> HIDE DEF w, c
<1>6. /\ Bytewise(c)
      /\ Turn(w, v, buf \o c, proof) /\ IsAt(v)
  BY <1>1, <1>3, <1>4, <1>5, FixedTurnIs DEF c
<1> HIDE DEF v
<1>7. Trail(W \union {v}, v, buf \o c, proof) BY <1>2, <1>3, <1>6, TrailGrows
<1>8. Writing' BY <1>1, <1>7 DEF Writing, v
<1> QED BY <1>1, <1>8 DEF OnTrail

(* The writer leaves a place for every run, also for an empty one. *)
LEMMA WriteRunOnTrail ==
  ASSUME Inside, OnTrail, WriteRun
  PROVE  OnTrail'
<1> DEFINE d == ToBytes(RunLen, SizeBytes)
           c == Pack(RunOf(proof, ci, RunLen), WidthOf(sub))
           w == At(section, ci, sub, Len(buf))
           v == At(section, ci + RunLen, ~sub, Len(buf \o d \o c))
<1>1. /\ pc = "write" /\ section = Len(Fixed) + 1 /\ ci < Cells /\ buf' = buf \o d \o c
      /\ ci' = ci + RunLen /\ sub' = ~sub
      /\ UNCHANGED <<pc, section, proof, altered, next, got>>
  BY DEF WriteRun, InColumns, RunOf, WidthOf
<1>2. PICK W : Trail(W, w, buf, proof) BY <1>1 DEF OnTrail, Writing
<1>3. Bytewise(buf) /\ IsProof(proof) /\ ci \in 0..Cells
  BY DEF Inside, ControlOK, BufferOK, ProofsOK
<1>4. IsAt(w) BY <1>2 DEF Trail
<1>5. w.section = section /\ w.ci = ci /\ w.sub = sub /\ w.pos = Len(buf) BY DEF At
<1>6. RunIs(RunLen, proof.req, ci, sub) BY <1>3, RunLenIs
<1>7. RunLen \in Nat BY <1>6 DEF RunIs
<1> HIDE DEF w, c, d
<1>8. /\ Bytewise(d) /\ Bytewise(c)
      /\ Turn(w, v, buf \o d \o c, proof) /\ IsAt(v)
  BY <1>1, <1>3, <1>4, <1>5, <1>6, <1>7, RunTurnIs DEF c, d
<1> HIDE DEF v
<1>9. Bytewise(d \o c) BY <1>8, Joins
<1>10. buf \o d \o c = buf \o (d \o c)
  <2>1. IsSeq(buf) /\ IsSeq(d) /\ IsSeq(c) BY <1>3, <1>8 DEF Bytewise, IsSeq
  <2> QED BY <2>1, ConcatenationIsAssociative
<1>11. Turn(w, v, buf \o (d \o c), proof) BY <1>8, <1>10
<1>12. Trail(W \union {v}, v, buf \o (d \o c), proof) BY <1>2, <1>3, <1>8, <1>9, <1>11, TrailGrows
<1>13. Writing'
  <2>1. Trail(W \union {v}, v, buf', proof') BY <1>1, <1>10, <1>12
  <2>2. v = At(section', ci', sub', Len(buf')) BY <1>1 DEF v
  <2> QED BY <2>1, <2>2 DEF Writing
<1> QED BY <1>1, <1>13 DEF OnTrail

(* A trail in a buffer that grows *)
LEMMA TrailStays ==
  ASSUME NEW b, Bytewise(b), NEW c, Bytewise(c), NEW p, IsProof(p),
         NEW W, NEW w, Trail(W, w, b, p)
  PROVE  Trail(W, w, b \o c, p)
<1>1. Start \in W /\ w \in W BY DEF Trail
<1>2. ASSUME NEW u \in W PROVE IsAt(u) /\ (u = w \/ \E x \in W : Turn(u, x, b \o c, p))
  <2>1. IsAt(u) BY DEF Trail
  <2>2. CASE u # w
    <3>1. PICK x \in W : Turn(u, x, b, p) BY <2>2 DEF Trail
    <3>2. Turn(u, x, b \o c, p) BY <2>1, <3>1, TurnStays
    <3> QED BY <2>1, <3>2
  <2> QED BY <2>1, <2>2
<1> QED BY <1>1, <1>2 DEF Trail

(* With the path the trail is whole; the reader will start where it does. *)
LEMMA WritePathOnTrail ==
  ASSUME Inside, OnTrail, WritePath
  PROVE  OnTrail'
<1> DEFINE d == ToBytes(Len(proof.path), SizeBytes)   c == Pack(proof.path, DigestBytes)
           w == At(section, ci, sub, Len(buf))   bd == buf \o d   e == bd \o c
<1>1. /\ pc = "write" /\ section = Len(Fixed) + 1 /\ ci = Cells /\ buf' = buf \o d \o c
      /\ pc' = "deliver" /\ section' = 1 /\ ci' = 0 /\ sub' = FALSE
      /\ UNCHANGED <<proof, altered, next, got>>
  BY DEF WritePath, InPath
<1>2. PICK W : Trail(W, w, buf, proof) BY <1>1 DEF OnTrail, Writing
<1>3. Bytewise(buf) /\ IsProof(proof) /\ Len(buf) \in Nat
  BY DEF Inside, BufferOK, ProofsOK, Bytewise
<1>4. Len(proof.path) \in Nat /\ proof.path \in [1..Len(proof.path) -> Nat]
  BY <1>3 DEF IsProof
<1>5. SizeBytes \in Nat /\ DigestBytes \in Nat BY WidthsAssumption
<1>6. Bytewise(d) /\ Len(d) = SizeBytes BY <1>4, <1>5, ToBytesIs
<1>7. Bytewise(c) /\ Len(c) = DigestBytes * Len(proof.path) BY <1>4, <1>5, PackIs
<1>8. w.section = section /\ w.ci = ci /\ w.pos = Len(buf) /\ w \in W BY <1>2 DEF At, Trail
<1> HIDE DEF c, d, w
<1>9. Bytewise(bd) BY <1>3, <1>6, Joins
<1>10. Holds(bd, Len(buf), d) /\ Len(bd) = Len(buf) + Len(d) BY <1>3, <1>6, HoldsLast
<1>11. Trail(W, w, bd, proof) BY <1>2, <1>3, <1>6, TrailStays
<1> HIDE DEF bd
<1>12. Holds(e, Len(bd), c) /\ Len(e) = Len(bd) + Len(c) BY <1>7, <1>9, HoldsLast
<1>13. Holds(e, Len(buf), d) BY <1>3, <1>6, <1>7, <1>9, <1>10, HoldsOn
<1>14. Trail(W, w, e, proof) BY <1>3, <1>7, <1>9, <1>11, TrailStays
<1> HIDE DEF e
<1>15. Len(bd) = w.pos + SizeBytes /\ Len(buf) = w.pos BY <1>6, <1>8, <1>10
<1>16. Len(e) = w.pos + SizeBytes + Len(proof.path) * DigestBytes
  <2>1. DigestBytes * Len(proof.path) = Len(proof.path) * DigestBytes BY <1>4, <1>5, SMT
  <2> QED BY <1>7, <1>12, <1>15, <2>1
<1>17. Holds(e, w.pos, d) /\ Holds(e, w.pos + SizeBytes, c) BY <1>12, <1>13, <1>15
<1>18. w.pos \in Nat /\ End(w) BY <1>1, <1>3, <1>8 DEF End
<1>19. Whole(W, w, e, proof) BY <1>14, <1>16, <1>17, <1>18 DEF Whole, c, d
<1>20. buf' = e BY <1>1 DEF e, bd
<1>21. Written' BY <1>1, <1>8, <1>19, <1>20 DEF Written
<1> QED BY <1>1, <1>21 DEF OnTrail

(* What arrives unaltered still holds the whole trail. *)
LEMMA DeliverOnTrail ==
  ASSUME Inside, OnTrail, Deliver
  PROVE  OnTrail'
<1>1. /\ pc = "deliver" /\ pc' = "read" /\ altered' = (buf' # buf)
      /\ UNCHANGED <<section, proof, next, ci, sub, got>>
  BY DEF Deliver
<1>2. Written BY <1>1 DEF OnTrail
<1>3. PICK W : \E last \in W : Whole(W, last, buf, proof) BY <1>2 DEF Written
<1>4. PICK last \in W : Whole(W, last, buf, proof) BY <1>3
<1>5. section = 1 /\ ci = 0 /\ sub = FALSE /\ next = 0 BY <1>1, <1>2 DEF Written, Inside, BufferOK
<1>6. At(section, ci, sub, next) \in W BY <1>4, <1>5 DEF Whole, Trail, Start
<1>7. ASSUME ~altered' PROVE Reading'
  <2>1. buf' = buf BY <1>1, <1>7
  <2>2. Agree' BY <1>1, <1>5 DEF Agree
  <2> QED BY <1>1, <1>4, <1>6, <2>1, <2>2 DEF Reading
<1> QED BY <1>1, <1>7 DEF OnTrail, Unaltered

(* Where the reader is, the writer went on, or was at the end. *)
LEMMA ReaderFollows ==
  ASSUME Inside, OnTrail, Unaltered, pc = "read"
  PROVE  LET w == At(section, ci, sub, next)
         IN  \E W : \E last \in W :
               /\ Agree /\ Whole(W, last, buf, proof) /\ w \in W
               /\ w = last \/ \E v \in W : Turn(w, v, buf, proof)
<1>1. Reading BY DEF OnTrail
<1>2. PICK W : \E last \in W : Whole(W, last, buf, proof) /\ At(section, ci, sub, next) \in W
  BY <1>1 DEF Reading
<1>3. PICK last \in W : Whole(W, last, buf, proof) /\ At(section, ci, sub, next) \in W BY <1>2
<1>4. Trail(W, last, buf, proof) BY <1>3 DEF Whole
<1>5. At(section, ci, sub, next) = last \/ \E v \in W : Turn(At(section, ci, sub, next), v, buf, proof)
  BY <1>3, <1>4 DEF Trail
<1> QED BY <1>1, <1>3, <1>5 DEF Reading

(* A proof that changes elsewhere still agrees in the section. *)
LEMMA SameStays ==
  ASSUME NEW s, Known(s), NEW p, NEW g, Same(g, p, s),
         NEW h, h.root = g.root, h.l = g.l,
         \A nm \in {"y_ldt", "y_dot", "y_quad_0", "y_quad_2", "nonce"} : h[nm] = g[nm]
  PROVE  Same(h, p, s)
<1>1. CASE s = [name |-> "root", i |-> 0]
  <2>1. Field(h, s) = <<h.root>> /\ Field(g, s) = <<g.root>> /\ s.name # "layer" BY <1>1 DEF Field
  <2> QED BY <2>1 DEF Same
<1>2. ASSUME NEW i \in 1..NL, s = [name |-> "layer", i |-> i] PROVE Same(h, p, s)
  <2>1. s.name = "layer" BY <1>2
  <2> QED BY <2>1 DEF Same
<1>3. ASSUME NEW nm \in {"y_ldt", "y_dot", "y_quad_0", "y_quad_2", "nonce"}, s = [name |-> nm, i |-> 0]
      PROVE  Same(h, p, s)
  <2>1. Field(h, s) = h[nm] /\ Field(g, s) = g[nm] /\ s.name # "layer" BY <1>3 DEF Field
  <2> QED BY <2>1 DEF Same
<1> QED BY <1>1, <1>2, <1>3 DEF Known

(* The reader takes the turn of the writer and stores what was sent. *)
LEMMA ReadFixedOnTrail ==
  ASSUME Inside, OnTrail, ReadFixed
  PROVE  OnTrail'
<1>1. pc = "read" /\ section <= Len(Fixed) /\ proof' = proof /\ altered' = altered /\ buf' = buf
  BY DEF ReadFixed, InFixed, Reject, Abort
<1>2. pc' \notin {"write", "deliver"} BY <1>1 DEF ReadFixed, Reject, Abort
<1> SUFFICES ASSUME Unaltered
             PROVE  pc' = "read" /\ Reading'
  BY <1>1, <1>2, UnalteredStays DEF OnTrail
<1> DEFINE w == At(section, ci, sub, next)   s == Fixed[section]
           list == Unpack(next, Count(s), Width(s))
           c == Pack(Field(proof, s), Width(s))
<1>3. PICK W : \E last \in W :
        /\ Agree /\ Whole(W, last, buf, proof) /\ w \in W
        /\ w = last \/ \E v \in W : Turn(w, v, buf, proof)
  BY <1>1, ReaderFollows
<1>4. PICK last \in W :
        /\ Agree /\ Whole(W, last, buf, proof) /\ w \in W
        /\ w = last \/ \E v \in W : Turn(w, v, buf, proof)
  BY <1>3
<1>5. Len(Fixed) \in Nat /\ section \in 1..Len(Fixed)
  BY <1>1, SectionsAre, Dimensions DEF FixedAre, Inside, ControlOK
<1>6. w.section = section /\ w.ci = ci /\ w.sub = sub /\ w.pos = next BY DEF At
<1>7. w # last BY <1>4, <1>5, <1>6 DEF Whole, End
<1>8. PICK v \in W : Turn(w, v, buf, proof) BY <1>4, <1>7
<1>9. FixedTurn(w, v, buf, proof) BY <1>5, <1>6, <1>8 DEF Turn, RunTurn
<1>10. /\ Holds(buf, next, c)
       /\ v = At(section + 1, ci, sub, next + Count(s) * Width(s))
  BY <1>6, <1>9 DEF FixedTurn
<1>11. Known(s) BY <1>5, SectionIsKnown
<1>12. Count(s) \in Nat /\ Width(s) \in Nat /\ Needed(s) = Count(s) * Width(s) BY <1>11, SizesAre
<1>13. /\ Bytewise(buf) /\ IsProof(proof) /\ HasWidths(proof) /\ IsProof(got)
       /\ next \in Nat /\ Len(buf) \in Nat
  BY DEF Inside, BufferOK, ProofsOK, Bytewise
<1>14. Field(proof, s) \in [1..Count(s) -> Nat] /\ (IsElt(s) => Field(proof, s) \in [1..Count(s) -> Elt])
  BY <1>11, <1>13, FieldIs
<1>15. \A k \in 1..Count(s) : Fits(Field(proof, s)[k], Width(s)) BY <1>11, <1>13, FieldFits
<1>16. list = Field(proof, s) BY <1>10, <1>12, <1>13, <1>14, <1>15, UnpackIs
<1>17. Have(Count(s) * Width(s))
  <2>1. Len(c) = Width(s) * Count(s) BY <1>12, <1>14, PackIs
  <2>2. Width(s) * Count(s) = Count(s) * Width(s) /\ Count(s) * Width(s) \in Nat BY <1>12, SMT
  <2>3. next + Len(c) <= Len(buf) BY <1>10 DEF Holds
  <2> HIDE DEF c
  <2> QED BY <1>13, <2>1, <2>2, <2>3 DEF Have
<1>18. IsElt(s) => ValidElts(list)
  <2> DEFINE f == Field(proof, s)
  <2>1. Modulus \in Nat BY EltAssumption
  <2>2. ASSUME f \in [1..Count(s) -> Elt] PROVE ValidElts(f)
    <3> HIDE DEF f
    <3>1. \A k \in DOMAIN f : f[k] \in Elt BY <2>2
    <3> QED BY <2>1, <3>1 DEF ValidElts, Elt
  <2> HIDE DEF list
  <2> QED BY <1>14, <1>16, <2>2
<1>19. /\ got' = Store(got, s, list)
       /\ next' = next + Count(s) * Width(s)
       /\ section' = section + 1
       /\ UNCHANGED <<pc, proof, buf, altered, ci, sub>>
  <2> HIDE DEF list, s
  <2> QED BY <1>12, <1>17, <1>18, Zenon DEF ReadFixed, list, s
<1>20. Agree'
  <2>1. \A k \in 1..Len(Fixed) : k < section => Same(got, proof, Fixed[k]) BY <1>4 DEF Agree
  <2>2. ASSUME NEW k \in 1..Len(Fixed), k < section + 1 PROVE Same(got', proof, Fixed[k])
    <3>1. got' = Store(got, s, Field(proof, s)) BY <1>16, <1>19
    <3>2. CASE k = section
      <4>1. Same(Store(got, s, Field(proof, s)), proof, s) BY <1>11, <1>13, StoreSame
      <4> QED BY <3>1, <3>2, <4>1
    <3>3. CASE k # section
      <4>1. k < section BY <1>5, <2>2, <3>3
      <4>2. Same(got, proof, Fixed[k]) /\ Known(Fixed[k]) BY <2>1, <4>1, SectionIsKnown
      <4>3. s # Fixed[k] BY <1>5, <4>1, SectionsDiffer
      <4>4. Same(Store(got, s, Field(proof, s)), proof, Fixed[k])
        BY <1>11, <1>13, <4>2, <4>3, StoreKeeps
      <4> QED BY <3>1, <4>4
    <3> QED BY <3>2, <3>3
  <2>3. got'.req = got.req BY <1>11, <1>13, <1>19, StoreLeaves
  <2>4. \A k \in 1..ci : got.req[k] = proof.req[k] BY <1>4 DEF Agree
  <2> QED BY <1>19, <2>2, <2>3, <2>4 DEF Agree
<1>21. At(section', ci', sub', next') = v BY <1>10, <1>19
<1>22. Reading' BY <1>4, <1>8, <1>19, <1>20, <1>21 DEF Reading
<1> QED BY <1>1, <1>19, <1>22

(* The reader takes the run the writer took: same length, kind and cells. *)
LEMMA ReadRunOnTrail ==
  ASSUME Inside, OnTrail, ReadRun
  PROVE  OnTrail'
<1>1. /\ pc = "read" /\ section = Len(Fixed) + 1 /\ ci < Cells
      /\ proof' = proof /\ altered' = altered /\ buf' = buf
  BY DEF ReadRun, InColumns, ReadRunOf, Reject, Abort
<1>2. pc' \notin {"write", "deliver"} BY <1>1 DEF ReadRun, ReadRunOf, Reject, Abort
<1> SUFFICES ASSUME Unaltered
             PROVE  pc' = "read" /\ Reading'
  BY <1>1, <1>2, UnalteredStays DEF OnTrail
<1> DEFINE w == At(section, ci, sub, next)
<1>3. PICK W : \E last \in W :
        /\ Agree /\ Whole(W, last, buf, proof) /\ w \in W
        /\ w = last \/ \E v \in W : Turn(w, v, buf, proof)
  BY <1>1, ReaderFollows
<1>4. PICK last \in W :
        /\ Agree /\ Whole(W, last, buf, proof) /\ w \in W
        /\ w = last \/ \E v \in W : Turn(w, v, buf, proof)
  BY <1>3
<1>5. Len(Fixed) \in Nat /\ Cells \in Nat /\ ci \in 0..Cells
  BY SectionsAre, Dimensions DEF FixedAre, Inside, ControlOK
<1>6. w.section = section /\ w.ci = ci /\ w.sub = sub /\ w.pos = next BY DEF At
<1>7. w # last BY <1>1, <1>4, <1>5, <1>6 DEF Whole, End
<1>8. PICK v \in W : Turn(w, v, buf, proof) BY <1>4, <1>7
<1>9. RunTurn(w, v, buf, proof) BY <1>1, <1>5, <1>6, <1>8 DEF Turn, FixedTurn
<1>10. PICK n \in Nat : RunTurnOf(w, v, buf, proof, n) BY <1>9 DEF RunTurn
<1> DEFINE d == ToBytes(n, SizeBytes)   run == RunOf(proof, ci, n)   c == Pack(run, RunWidth)
           p == next + SizeBytes        list == Unpack(p, n, RunWidth)
           m == OfBytes(SubSeq(buf, next + 1, next + SizeBytes))
<1>11. /\ RunIs(n, proof.req, ci, sub) /\ Holds(buf, next, d) /\ Holds(buf, p, c)
       /\ v = At(section, ci + n, ~sub, p + n * RunWidth)
  BY <1>6, <1>10 DEF RunTurnOf, WidthOf, RunWidth
<1>12. sub \in BOOLEAN BY <1>4, <1>6 DEF Whole, Trail, IsAt
<1>13. ci \in Nat /\ ci + n <= Cells BY <1>5, <1>11 DEF RunIs
<1>14. /\ Bytewise(buf) /\ IsProof(proof) /\ IsProof(got)
       /\ next \in Nat /\ Len(buf) \in Nat
  BY DEF Inside, BufferOK, ProofsOK, Bytewise
<1>15. SizeBytes \in Nat /\ RunWidth \in Nat /\ p \in Nat BY <1>14, WidthsAssumption DEF RunWidth
<1>16. n < MaxRunLen BY <1>11, <1>13, RunIsShort DEF Unaltered
<1>17. m = n
  <2>1. n \in 0..(MaxRunLen - 1) BY <1>16, WidthsAssumption
  <2>2. Fits(n, SizeBytes) BY <2>1, LimitsAssumption
  <2> QED BY <1>11, <1>14, <1>15, <2>2, SliceIs
<1>18. Have(SizeBytes)
  <2>1. Len(d) = SizeBytes BY <1>15, ToBytesIs
  <2>2. next + Len(d) <= Len(buf) BY <1>11 DEF Holds
  <2> HIDE DEF d
  <2> QED BY <1>14, <1>15, <2>1, <2>2 DEF Have
<1>19. /\ run \in [1..n -> Elt] /\ run \in [1..n -> Nat]
       /\ \A k \in 1..n : run[k] = proof.req[ci + k]
  BY <1>13, <1>14, RunOfIs
<1>20. WidthOf(sub) = RunWidth BY DEF WidthOf, RunWidth
<1>21. /\ \A k \in 1..n : Fits(run[k], RunWidth)
       /\ sub => \A k \in 1..n : run[k] < SubSize
  BY <1>11, <1>12, <1>13, <1>14, <1>20, RunFits
<1>22. n * RunWidth \in Nat /\ Len(buf) - p >= n * RunWidth
  <2>1. Len(c) = RunWidth * n BY <1>15, <1>19, PackIs
  <2>2. RunWidth * n = n * RunWidth /\ n * RunWidth \in Nat BY <1>15, SMT
  <2>3. p + Len(c) <= Len(buf) BY <1>11 DEF Holds
  <2> HIDE DEF c, p
  <2> QED BY <1>14, <1>15, <2>1, <2>2, <2>3
<1> HIDE DEF run
<1>23. list = run BY <1>11, <1>14, <1>15, <1>19, <1>21, UnpackIs
<1>24. IF sub THEN ValidSubElts(list) ELSE ValidElts(list)
  <2>1. Modulus \in Nat BY EltAssumption
  <2>2. DOMAIN run = 1..n /\ \A k \in 1..n : run[k] < Modulus BY <1>19, <2>1 DEF Elt
  <2> HIDE DEF list
  <2> QED BY <1>21, <1>23, <2>2 DEF ValidElts, ValidSubElts
<1> HIDE DEF m
<1>25. ~RunTooLong(n) BY <1>5, <1>13, <1>16, WidthsAssumption DEF RunTooLong
<1>26. ReadRunOf(n)
  <2>1. ReadRunOf(m) BY <1>18, Zenon DEF ReadRun, m
  <2> QED BY <1>17, <2>1
<1> DEFINE cells == SubSeq(got.req, 1, ci) \o list \o SubSeq(got.req, ci + n + 1, Cells)
<1>27. /\ got' = [got EXCEPT !.req = cells]
       /\ next' = RunEnd(n) /\ ci' = ci + n /\ sub' = ~sub
       /\ UNCHANGED <<pc, section, proof, buf, altered>>
  <2>1. RunNeeded(n) = n * RunWidth BY DEF RunNeeded
  <2>2. /\ ~(Len(buf) - p >= n * RunWidth) => FALSE
        /\ ~(IF sub THEN ValidSubElts(list) ELSE ValidElts(list)) => FALSE
    BY <1>22, <1>24
  <2> HIDE DEF list, p
  <2> QED BY <1>25, <1>26, <2>1, <2>2, Zenon DEF ReadRunOf, list, p
<1>28. got.req \in [1..Cells -> Elt] BY <1>14 DEF IsProof
<1>29. Spliced(got.req, cells, run, ci, n)
  <2> HIDE DEF list
  <2> QED BY <1>13, <1>19, <1>23, <1>28, SplicedIs
<1> HIDE DEF cells, list
<1>30. got'.req = cells /\ \A s \in {"root", "l", "y_ldt", "y_dot", "y_quad_0", "y_quad_2", "nonce"} : got'[s] = got[s]
  BY <1>14, <1>27 DEF IsProof
<1>31. Agree'
  <2>1. ASSUME NEW k \in 1..Len(Fixed), k < section PROVE Same(got', proof, Fixed[k])
    <3>1. Same(got, proof, Fixed[k]) BY <1>4, <2>1 DEF Agree
    <3>2. Known(Fixed[k]) BY SectionIsKnown
    <3> QED BY <1>30, <3>1, <3>2, SameStays
  <2>2. ASSUME NEW k \in 1..(ci + n) PROVE cells[k] = proof.req[k]
    <3>1. k \in 1..Cells BY <1>5, <1>13
    <3>2. cells[k] = IF k <= ci THEN got.req[k] ELSE IF k <= ci + n THEN run[k - ci] ELSE got.req[k]
      BY <1>29, <3>1 DEF Spliced
    <3>3. CASE k <= ci
      <4>1. k \in 1..ci BY <1>13, <3>3
      <4> QED BY <1>4, <3>2, <3>3, <4>1 DEF Agree
    <3>4. CASE ~(k <= ci)
      <4>1. k - ci \in 1..n /\ k <= ci + n /\ ci + (k - ci) = k BY <1>13, <3>4
      <4> QED BY <1>19, <3>2, <3>4, <4>1
    <3> QED BY <3>3, <3>4
  <2> QED BY <1>27, <1>30, <2>1, <2>2 DEF Agree
<1>32. At(section', ci', sub', next') = v
  <2>1. RunEnd(n) = p + n * RunWidth BY DEF RunEnd
  <2> QED BY <1>11, <1>27, <2>1
<1>33. Reading'
  <2>1. Whole(W, last, buf', proof') BY <1>4, <1>27
  <2>2. At(section', ci', sub', next') \in W BY <1>8, <1>32
  <2> QED BY <1>31, <2>1, <2>2 DEF Reading
<1> QED BY <1>1, <1>27, <1>33

(* At the end of the trail the reader finds the path and the last byte. *)
LEMMA ReadPathOnTrail ==
  ASSUME Inside, OnTrail, ReadPath
  PROVE  OnTrail'
<1>1. /\ pc = "read" /\ section = Len(Fixed) + 1 /\ ci = Cells
      /\ proof' = proof /\ altered' = altered /\ buf' = buf
  BY DEF ReadPath, InPath, ReadPathOf, Reject
<1>2. pc' \in {"accepted", "rejected"} BY DEF ReadPath, ReadPathOf, Reject
<1> SUFFICES ASSUME Unaltered
             PROVE  pc' = "accepted" /\ Finished'
  BY <1>1, <1>2, UnalteredStays DEF OnTrail
<1> DEFINE w == At(section, ci, sub, next)
<1>3. PICK W : \E last \in W :
        /\ Agree /\ Whole(W, last, buf, proof) /\ w \in W
        /\ w = last \/ \E v \in W : Turn(w, v, buf, proof)
  BY <1>1, ReaderFollows
<1>4. PICK last \in W :
        /\ Agree /\ Whole(W, last, buf, proof) /\ w \in W
        /\ w = last \/ \E v \in W : Turn(w, v, buf, proof)
  BY <1>3
<1>5. Len(Fixed) \in Nat /\ Cells \in Nat
  BY SectionsAre, Dimensions DEF FixedAre, Inside, ControlOK
<1>6. w.section = section /\ w.ci = ci /\ w.pos = next BY DEF At
<1>7. w = last
  <2>1. ASSUME NEW v \in W, Turn(w, v, buf, proof) PROVE FALSE
    BY <1>1, <1>5, <1>6, <2>1 DEF Turn, FixedTurn, RunTurn
  <2> QED BY <1>4, <2>1
<1> DEFINE len == Len(proof.path)   d == ToBytes(len, SizeBytes)
           c == Pack(proof.path, DigestBytes)   p == next + SizeBytes
           list == Unpack(p, len, DigestBytes)
           m == OfBytes(SubSeq(buf, next + 1, next + SizeBytes))
<1>8. Holds(buf, next, d) /\ Holds(buf, p, c) /\ Len(buf) = p + len * DigestBytes
  BY <1>4, <1>6, <1>7 DEF Whole
<1>9. /\ Bytewise(buf) /\ IsProof(proof) /\ HasWidths(proof) /\ IsProof(got)
      /\ next \in Nat /\ Len(buf) \in Nat
  BY DEF Inside, BufferOK, ProofsOK, Bytewise
<1>10. SizeBytes \in Nat /\ DigestBytes \in Nat /\ p \in Nat BY <1>9, WidthsAssumption
<1>11. len \in Nat /\ proof.path \in [1..len -> Nat] BY <1>9 DEF IsProof
<1>12. len \in NReq..(NReq * PathLen) /\ len < MaxNumDigests BY DEF Unaltered, PathInRange
<1>13. m = len
  <2>1. len \in 0..(MaxNumDigests - 1) BY <1>11, <1>12, WidthsAssumption
  <2>2. Fits(len, SizeBytes) BY <2>1, LimitsAssumption
  <2> HIDE DEF len
  <2> QED BY <1>8, <1>9, <1>10, <1>11, <2>2, SliceIs
<1>14. len * DigestBytes \in Nat BY <1>10, <1>11, SMT
<1>15. Have(SizeBytes)
  <2> HIDE DEF len
  <2> QED BY <1>8, <1>9, <1>10, <1>14 DEF Have
<1>16. list = proof.path
  <2>1. \A k \in 1..len : Fits(proof.path[k], DigestBytes) BY <1>9 DEF HasWidths
  <2> HIDE DEF len
  <2> QED BY <1>8, <1>9, <1>10, <1>11, <2>1, UnpackIs
<1> HIDE DEF m
<1>17. ReadPathOf(len)
  <2>1. ReadPathOf(m) BY <1>15, Zenon DEF ReadPath, m
  <2> QED BY <1>13, <2>1
<1>18. /\ ~(len < NReq \/ len >= MaxNumDigests) /\ Len(buf) - p >= len * DigestBytes /\ ~PathTooLong(len)
  <2> HIDE DEF len
  <2> QED BY <1>8, <1>10, <1>11, <1>12, <1>14, Dimensions, WidthsAssumption DEF PathTooLong
<1> HIDE DEF len
<1>19. /\ got' = [got EXCEPT !.path = list] /\ next' = p + len * DigestBytes /\ pc' = "accepted"
       /\ UNCHANGED <<section, proof, buf, altered, ci, sub>>
  <2> HIDE DEF list, p
  <2> QED BY <1>17, <1>18, Zenon DEF ReadPathOf, list, p
<1> HIDE DEF list
<1>20. got'.path = list /\ \A s \in {"root", "l", "y_ldt", "y_dot", "y_quad_0", "y_quad_2", "nonce", "req"} : got'[s] = got[s]
  BY <1>9, <1>19 DEF IsProof
<1>21. Agree'
  <2>1. ASSUME NEW k \in 1..Len(Fixed), k < section PROVE Same(got', proof, Fixed[k])
    <3>1. Same(got, proof, Fixed[k]) BY <1>4, <2>1 DEF Agree
    <3>2. Known(Fixed[k]) BY SectionIsKnown
    <3> QED BY <1>20, <3>1, <3>2, SameStays
  <2>2. \A k \in 1..ci : got'.req[k] = proof.req[k] BY <1>4, <1>20 DEF Agree
  <2> QED BY <1>19, <2>1, <2>2 DEF Agree
<1>22. Finished' BY <1>1, <1>8, <1>16, <1>19, <1>20, <1>21 DEF Finished
<1> QED BY <1>19, <1>22

(* OnTrail is inductive relative to Inside. *)
LEMMA NextOnTrail == Inside /\ OnTrail /\ [Next]_vars => OnTrail'
<1> SUFFICES ASSUME Inside, OnTrail, [Next]_vars PROVE OnTrail' OBVIOUS
<1>1. CASE UNCHANGED vars
  <2>1. Unaltered' <=> Unaltered BY <1>1, UnalteredStays DEF vars
  <2>2. (Writing' <=> Writing) /\ (Written' <=> Written)
    BY <1>1 DEF vars, Writing, Written
  <2>3. (Reading' <=> Reading) /\ (Finished' <=> Finished)
    BY <1>1 DEF vars, Reading, Finished, Agree
  <2> QED BY <1>1, <2>1, <2>2, <2>3 DEF vars, OnTrail
<1>2. CASE WriteFixed BY <1>2, WriteFixedOnTrail
<1>3. CASE WriteRun BY <1>3, WriteRunOnTrail
<1>4. CASE WritePath BY <1>4, WritePathOnTrail
<1>5. CASE Deliver BY <1>5, DeliverOnTrail
<1>6. CASE ReadFixed BY <1>6, ReadFixedOnTrail
<1>7. CASE ReadRun BY <1>7, ReadRunOnTrail
<1>8. CASE ReadPath BY <1>8, ReadPathOnTrail
<1> QED BY <1>1, <1>2, <1>3, <1>4, <1>5, <1>6, <1>7, <1>8 DEF Next

(* For every size of the field and of the vectors, every list of layers    *)
(* and every mix of full-field and subfield cells: if no run is as long as *)
(* the limit and the path has an admissible length, read() accepts the     *)
(* bytes of write() and holds the proof that was written.                  *)
THEOREM WhatIsWrittenIsRead == Spec => []RoundTrip
<1>1. Spec => []OnTrail
  BY InitOnTrail, NextOnTrail, AlwaysInside, PTL DEF Spec
<1>2. Inside /\ OnTrail => RoundTrip
  <2> SUFFICES ASSUME Inside, OnTrail, Done, Unaltered
               PROVE  pc = "accepted" /\ got = WithoutP1(proof) /\ next = Len(buf)
    BY DEF RoundTrip, Unaltered
  <2>1. pc = "accepted" BY DEF Done, Inside, ControlOK, OnTrail
  <2>2. Finished BY <2>1 DEF OnTrail
  <2>3. IsProof(got) /\ IsProof(proof) BY DEF Inside, ProofsOK
  <2>4. \A k \in 1..Len(Fixed) : Same(got, proof, Fixed[k])
    <3>1. Len(Fixed) \in Nat BY SectionsAre, Dimensions DEF FixedAre
    <3>2. \A k \in 1..Len(Fixed) : k < section BY <2>2, <3>1 DEF Finished
    <3> QED BY <2>2, <3>2 DEF Finished, Agree
  <2>5. got.req = proof.req
    <3>1. got.req \in [1..Cells -> Elt] /\ proof.req \in [1..Cells -> Elt] BY <2>3 DEF IsProof
    <3>2. \A k \in 1..Cells : got.req[k] = proof.req[k] BY <2>2 DEF Finished, Agree
    <3>3. got.req = [k \in 1..Cells |-> got.req[k]] /\ proof.req = [k \in 1..Cells |-> proof.req[k]]
      BY <3>1
    <3> QED BY <3>2, <3>3
  <2>6. got = WithoutP1(proof) BY <2>2, <2>3, <2>4, <2>5, AllTheSame DEF Finished
  <2> QED BY <2>1, <2>2, <2>6 DEF Finished
<1> QED BY <1>1, <1>2, AlwaysInside, PTL
=============================================================================
