--------------------------- MODULE SequenceLemmas ---------------------------
(***************************************************************************)
(* Induction over numbers, for sets instead of predicates, and what the    *)
(* operators of SequencesExt compute: facts the proofs about sessions and  *)
(* serialised proofs share.                                                *)
(***************************************************************************)
EXTENDS SequencesExt, SequenceTheorems, WellFoundedInduction, TLAPS

-----------------------------------------------------------------------------
(* Induction.  A set of numbers that has a member has a smallest one.      *)
Below == {ss \in Nat \X Nat : ss[1] < ss[2]}

(* There is no infinite descent in the natural numbers.                    *)
LEMMA BelowIsWellFounded == IsWellFoundedOn(Below, Nat)
<1>1. OpToRel(<, Nat) = Below BY Zenon DEF OpToRel, Below
<1> QED BY <1>1, NatLessThanWellFounded, Zenon

(* A set of natural numbers has a least one.                               *)
LEMMA LeastNumber ==
  ASSUME NEW S, S \subseteq Nat, S # {}
  PROVE  \E m \in S : \A k \in S : m <= k
<1>1. PICK m \in S : \A k \in S : ~(<<k, m>> \in Below)
  BY WFMin, BelowIsWellFounded, Zenon
<1>2. ASSUME NEW k \in S PROVE m <= k
  <2>1. k \in Nat /\ m \in Nat OBVIOUS
  <2>2. k < m => <<k, m>> \in Below BY <2>1, SMT DEF Below
  <2> QED BY <1>1, <2>1, <2>2, SMT
<1> QED BY <1>2, Zenon

(* A set of numbers with 0 and with the successor of each member has all.  *)
LEMMA Induction ==
  ASSUME NEW S, 0 \in S, \A n \in Nat : n \in S => n + 1 \in S
  PROVE  \A n \in Nat : n \in S
<1> SUFFICES ASSUME Nat \ S # {} PROVE FALSE OBVIOUS
<1>1. PICK m \in Nat \ S : \A k \in Nat \ S : m <= k BY LeastNumber, Zenon
<1>2. m # 0 /\ m - 1 \in Nat BY <1>1, SMT
<1>3. m - 1 \in S BY <1>1, <1>2, SMT
<1> QED BY <1>1, <1>2, <1>3, SMT

(* the k-th value is F of k and the value before                           *)
Recursive(f, n, b, F) == f[0] = b /\ \A k \in 1..n : f[k] = F[<<k, f[k - 1]>>]

(* A recursive function of a number exists.                                *)
LEMMA RecursionExists ==
  ASSUME NEW S, NEW n \in Nat, NEW b, b \in S, NEW F, F \in [(1..n) \X S -> S]
  PROVE  \E f : f \in [0..n -> S] /\ Recursive(f, n, b, F)
<1> DEFINE Has(m) == \E f \in [0..m -> S] : f[0] = b /\ \A k \in 1..m : f[k] = F[<<k, f[k - 1]>>]
           N == {m \in Nat : m <= n => Has(m)}
<1>1. 0 \in N
  <2> DEFINE f == [k \in 0..0 |-> b]
  <2>1. f \in [0..0 -> S] /\ f[0] = b /\ 1..0 = {} OBVIOUS
  <2> QED BY <2>1
<1>2. ASSUME NEW m \in Nat, m \in N PROVE m + 1 \in N
  <2> SUFFICES ASSUME m + 1 <= n PROVE Has(m + 1)
    <3> HIDE DEF Has
    <3> QED OBVIOUS
  <2>1. Has(m)
    <3> HIDE DEF Has
    <3> QED BY <1>2
  <2>2. PICK f \in [0..m -> S] : f[0] = b /\ \A k \in 1..m : f[k] = F[<<k, f[k - 1]>>] BY <2>1
  <2> DEFINE g == [k \in 0..(m + 1) |-> IF k \in 0..m THEN f[k] ELSE F[<<k, f[m]>>]]
  <2>3. /\ m + 1 \in 1..n /\ m + 1 \notin 0..m /\ m \in 0..m /\ (m + 1) - 1 = m
        /\ m + 1 \in 0..(m + 1) /\ 0 \in 0..m /\ 0..m \subseteq 0..(m + 1)
    BY SMT
  <2>4. f[m] \in S BY <2>3
  <2>5. F[<<m + 1, f[m]>>] \in S BY <2>3, <2>4
  <2>6. \A k \in 0..(m + 1) : k \in 0..m \/ k = m + 1 BY SMT
  <2>7. g \in [0..(m + 1) -> S] BY <2>5, <2>6
  <2>8. \A k \in 0..m : g[k] = f[k] BY <2>3
  <2>9. g[m + 1] = F[<<m + 1, f[m]>>] BY <2>3
  <2>10. ASSUME NEW k \in 1..(m + 1) PROVE g[k] = F[<<k, g[k - 1]>>]
    <3> HIDE DEF g
    <3>1. CASE k = m + 1 BY <2>3, <2>8, <2>9, <3>1
    <3>2. CASE k # m + 1
      <4>1. k \in 1..m /\ k \in 0..m /\ k - 1 \in 0..m BY <3>2, SMT
      <4> QED BY <2>2, <2>8, <4>1
    <3> QED BY <3>1, <3>2
  <2>11. g[0] = b BY <2>2, <2>3, <2>8
  <2> HIDE DEF g
  <2> QED BY <2>7, <2>10, <2>11
<1>3. \A m \in Nat : m \in N
  <2> HIDE DEF N
  <2> QED BY <1>1, <1>2, Induction
<1>4. Has(n)
  <2> HIDE DEF Has
  <2> QED BY <1>3
<1> QED BY <1>4 DEF Recursive

(* they begin alike and stay alike, up to n                                *)
StayAlike(f, g, n) == f[0] = g[0] /\ \A k \in 1..n : f[k - 1] = g[k - 1] => f[k] = g[k]

(* Two functions that begin alike and stay alike are alike.                *)
LEMMA RecursionIsUnique ==
  ASSUME NEW n \in Nat, NEW f, NEW g, StayAlike(f, g, n)
  PROVE  \A k \in 0..n : f[k] = g[k]
<1> USE DEF StayAlike
<1> DEFINE N == {m \in Nat : m <= n => f[m] = g[m]}
<1>1. 0 \in N OBVIOUS
<1>2. ASSUME NEW m \in Nat, m \in N PROVE m + 1 \in N
  <2>1. m + 1 <= n => m + 1 \in 1..n /\ (m + 1) - 1 = m /\ m <= n BY SMT
  <2> QED BY <1>2, <2>1
<1>3. \A m \in Nat : m \in N
  <2> HIDE DEF N
  <2> QED BY <1>1, <1>2, Induction
<1> QED BY <1>3, SMT

-----------------------------------------------------------------------------
(* Sequences of whatever there is *)
IsSeq(s) == \E S : s \in Seq(S)

(* A function on 1..n is a sequence of length n.                           *)
LEMMA SequenceOfLength ==
  ASSUME NEW n \in Nat, NEW s, s = [k \in 1..n |-> s[k]]
  PROVE  IsSeq(s) /\ Len(s) = n /\ DOMAIN s = 1..n
<1> DEFINE S == {s[k] : k \in 1..n}
<1>1. s \in [1..n -> S] OBVIOUS
<1>2. s \in Seq(S) BY <1>1, SeqDef
<1>3. Len(s) \in Nat /\ DOMAIN s = 1..Len(s) BY <1>2, LenProperties
<1>4. DOMAIN s = 1..n OBVIOUS
<1>5. Len(s) = n BY <1>3, <1>4, SMT
<1> QED BY <1>2, <1>4, <1>5 DEF IsSeq

(* A sequence is a function on 1..Len.                                     *)
LEMMA LengthOfSequence ==
  ASSUME NEW s, IsSeq(s)
  PROVE  /\ Len(s) \in Nat /\ DOMAIN s = 1..Len(s)
         /\ s = [k \in 1..Len(s) |-> s[k]]
<1>1. PICK S : s \in Seq(S) BY DEF IsSeq
<1> QED BY <1>1, LenProperties

(* Two sequences belong to one set of sequences. *)
LEMMA CommonElements ==
  ASSUME NEW s, IsSeq(s), NEW t, IsSeq(t)
  PROVE  \E S : s \in Seq(S) /\ t \in Seq(S)
<1>1. PICK S : s \in Seq(S) BY DEF IsSeq
<1>2. PICK T : t \in Seq(T) BY DEF IsSeq
<1>3. s \in Seq(S \union T) BY <1>1, SeqMonotonic
<1>4. t \in Seq(S \union T) BY <1>2, SeqMonotonic
<1> QED BY <1>3, <1>4

(* Sequences with the same elements are the same.                          *)
LEMMA SequenceEquality ==
  ASSUME NEW s, IsSeq(s), NEW t, IsSeq(t), Len(s) = Len(t),
         \A k \in 1..Len(s) : s[k] = t[k]
  PROVE  s = t
BY CommonElements, SeqEqual

(* The elements of a concatenation.                                        *)
LEMMA Concatenation ==
  ASSUME NEW s, IsSeq(s), NEW t, IsSeq(t)
  PROVE  /\ IsSeq(s \o t) /\ Len(s \o t) = Len(s) + Len(t)
         /\ \A k \in 1..Len(s) : (s \o t)[k] = s[k]
         /\ \A k \in 1..Len(t) : (s \o t)[Len(s) + k] = t[k]
<1>1. PICK S : s \in Seq(S) /\ t \in Seq(S) BY CommonElements
<1>2. /\ s \o t \in Seq(S) /\ Len(s \o t) = Len(s) + Len(t)
      /\ \A i \in 1 .. Len(s) + Len(t) : (s \o t)[i] = IF i <= Len(s) THEN s[i] ELSE t[i - Len(s)]
  BY <1>1, ConcatProperties
<1>3. Len(s) \in Nat /\ Len(t) \in Nat BY LengthOfSequence
<1>4. IsSeq(s \o t) BY <1>2 DEF IsSeq
<1>5. ASSUME NEW k \in 1..Len(s) PROVE (s \o t)[k] = s[k]
  BY <1>2, <1>3, SMT
<1>6. ASSUME NEW k \in 1..Len(t) PROVE (s \o t)[Len(s) + k] = t[k]
  <2>1. Len(s) + k \in 1..(Len(s) + Len(t)) /\ ~(Len(s) + k <= Len(s)) /\ Len(s) + k - Len(s) = k
    BY <1>3, SMT
  <2>2. (s \o t)[Len(s) + k] = IF Len(s) + k <= Len(s) THEN s[Len(s) + k] ELSE t[(Len(s) + k) - Len(s)]
    BY <1>2, <2>1
  <2> QED BY <2>1, <2>2, SMT
<1> QED BY <1>2, <1>4, <1>5, <1>6

(* Of two parts *)
Composed(u, s, t) ==
  /\ Len(u) = Len(s) + Len(t)
  /\ \A k \in 1..Len(s) : u[k] = s[k]
  /\ \A k \in 1..Len(t) : u[Len(s) + k] = t[k]

(* A sequence with those elements is the concatenation.                    *)
LEMMA ConcatenationIs ==
  ASSUME NEW s, IsSeq(s), NEW t, IsSeq(t), NEW u, IsSeq(u), Composed(u, s, t)
  PROVE  s \o t = u
<1> USE DEF Composed
<1> DEFINE c == s \o t
<1>1. /\ IsSeq(c) /\ Len(c) = Len(s) + Len(t)
      /\ \A k \in 1..Len(s) : c[k] = s[k]
      /\ \A k \in 1..Len(t) : c[Len(s) + k] = t[k]
  BY Concatenation
<1>2. Len(s) \in Nat /\ Len(t) \in Nat BY LengthOfSequence
<1> HIDE DEF c
<1>3. ASSUME NEW k \in 1..Len(c) PROVE c[k] = u[k]
  <2>1. CASE k \in 1..Len(s) BY <1>1, <2>1
  <2>2. CASE k \notin 1..Len(s)
    <3>1. k - Len(s) \in 1..Len(t) /\ Len(s) + (k - Len(s)) = k BY <1>1, <1>2, <2>2
    <3>2. c[Len(s) + (k - Len(s))] = t[k - Len(s)] /\ u[Len(s) + (k - Len(s))] = t[k - Len(s)]
      BY <1>1, <3>1
    <3> QED BY <3>1, <3>2
  <2> QED BY <2>1, <2>2
<1>4. c = u BY <1>1, <1>3, SequenceEquality
<1> QED BY <1>4 DEF c

(* Concatenation is associative.                                           *)
LEMMA ConcatenationIsAssociative ==
  ASSUME NEW s, IsSeq(s), NEW t, IsSeq(t), NEW u, IsSeq(u)
  PROVE  (s \o t) \o u = s \o (t \o u)
<1>1. PICK S : s \in Seq(S) /\ t \in Seq(S) BY CommonElements
<1>2. PICK T : u \in Seq(T) BY DEF IsSeq
<1>3. s \in Seq(S \union T) /\ t \in Seq(S \union T) BY <1>1, SeqMonotonic
<1>4. u \in Seq(S \union T) BY <1>2, SeqMonotonic
<1> QED BY <1>3, <1>4, ConcatAssociative

(* The elements of a sequence with one appended.                           *)
LEMMA OneMore ==
  ASSUME NEW s, IsSeq(s), NEW e
  PROVE  /\ IsSeq(Append(s, e)) /\ Len(Append(s, e)) = Len(s) + 1
         /\ \A k \in 1..Len(s) : Append(s, e)[k] = s[k]
         /\ Append(s, e)[Len(s) + 1] = e
<1>1. PICK S : s \in Seq(S) BY DEF IsSeq
<1>2. s \in Seq(S \union {e}) BY <1>1, SeqMonotonic
<1>3. e \in S \union {e} OBVIOUS
<1>4. Append(s, e) \in Seq(S \union {e}) BY <1>2, <1>3, AppendProperties
<1> QED BY <1>2, <1>3, <1>4, AppendProperties DEF IsSeq

-----------------------------------------------------------------------------
(* FlattenSeq *)
Joined(ss, f, n) ==
  f = [i \in 1..n |-> IF i = 1 THEN ss[i] ELSE f[i - 1] \o ss[i]]

(* Its recursive function exists. *)
LEMMA JoinedExists ==
  ASSUME NEW ss, NEW n \in Nat
  PROVE  \E f : Joined(ss, f, n)
<1> DEFINE S == {m \in Nat : \E f : Joined(ss, f, m)}
<1>1. 0 \in S
  <2>1. Joined(ss, <<>>, 0) BY DEF Joined
  <2> QED BY <2>1
<1>2. ASSUME NEW m \in Nat, m \in S PROVE m + 1 \in S
  <2>1. PICK f : Joined(ss, f, m) BY <1>2
  <2> DEFINE g == [i \in 1..(m + 1) |-> IF i \in 1..m THEN f[i]
                                       ELSE IF i = 1 THEN ss[i] ELSE f[i - 1] \o ss[i]]
  <2>2. ASSUME NEW i \in 1..(m + 1)
        PROVE  g[i] = IF i = 1 THEN ss[i] ELSE g[i - 1] \o ss[i]
    <3>1. CASE i = 1
      <4>1. i \in 1..m => f[i] = ss[i] BY <2>1, <3>1 DEF Joined
      <4> QED BY <3>1, <4>1
    <3>2. CASE i # 1
      <4>1. i - 1 \in 1..m /\ i - 1 \in 1..(m + 1) BY <3>2, SMT
      <4>2. g[i - 1] = f[i - 1] BY <4>1
      <4>3. i \in 1..m => f[i] = f[i - 1] \o ss[i] BY <2>1, <3>2 DEF Joined
      <4> QED BY <3>2, <4>2, <4>3
    <3> QED BY <3>1, <3>2
  <2>3. g = [i \in 1..(m + 1) |-> IF i = 1 THEN ss[i] ELSE g[i - 1] \o ss[i]]
    <3>1. DOMAIN g = 1..(m + 1) OBVIOUS
    <3> HIDE DEF g
    <3>2. g = [i \in 1..(m + 1) |-> g[i]] BY <3>1 DEF g
    <3> QED BY <2>2, <3>2, Zenon
  <2>4. Joined(ss, g, m + 1) BY <2>3 DEF Joined
  <2>5. \E h : Joined(ss, h, m + 1) BY <2>4, Zenon
  <2>6. m + 1 \in Nat OBVIOUS
  <2> QED BY <2>5, <2>6
<1>3. \A m \in Nat : m \in S
  <2> HIDE DEF S
  <2> QED BY <1>1, <1>2, Induction
<1> QED BY <1>3

(* FlattenSeq is the last value of the function that joins one sequence    *)
(* after another.                                                          *)
LEMMA FlattenIsJoined ==
  ASSUME NEW ss, IsSeq(ss), Len(ss) > 0
  PROVE  \E f : Joined(ss, f, Len(ss)) /\ FlattenSeq(ss) = f[Len(ss)]
<1> DEFINE F == CHOOSE f : f = [i \in 1..Len(ss) |-> IF i = 1 THEN ss[i] ELSE f[i - 1] \o ss[i]]
<1>1. Len(ss) \in Nat BY LengthOfSequence
<1>2. \E f : f = [i \in 1..Len(ss) |-> IF i = 1 THEN ss[i] ELSE f[i - 1] \o ss[i]]
  BY <1>1, JoinedExists DEF Joined
<1>3. F = [i \in 1..Len(ss) |-> IF i = 1 THEN ss[i] ELSE F[i - 1] \o ss[i]]
  BY <1>2, Zenon
<1>4. Len(ss) # 0 BY <1>1, SMT
<1>5. FlattenSeq(ss) = F[Len(ss)]
  BY <1>4, Zenon DEF FlattenSeq
<1> HIDE DEF F
<1> QED BY <1>3, <1>5, Zenon DEF Joined

(* The parts so far are a sequence of all their elements. *)
LEMMA JoinedSoFar ==
  ASSUME NEW ss, NEW n \in Nat, NEW f, Joined(ss, f, n),
         \A i \in 1..n : IsSeq(ss[i])
  PROVE  \A m \in 1..n :
           /\ IsSeq(f[m])
           /\ \A i \in 1..m : \A k \in 1..Len(ss[i]) :
                \E j \in 1..Len(f[m]) : f[m][j] = ss[i][k]
<1> DEFINE Has(m) == /\ IsSeq(f[m])
                     /\ \A i \in 1..m : \A k \in 1..Len(ss[i]) :
                          \E j \in 1..Len(f[m]) : f[m][j] = ss[i][k]
<1> DEFINE S == {m \in Nat : m \in 1..n => Has(m)}
<1>1. 0 \in S OBVIOUS
<1>2. ASSUME NEW m \in Nat, m \in S PROVE m + 1 \in S
  <2> SUFFICES ASSUME m + 1 \in 1..n PROVE Has(m + 1) OBVIOUS
  <2>1. CASE m = 0
    <3>1. f[1] = ss[1] BY <2>1 DEF Joined
    <3>2. \A i \in 1..1 : i = 1 OBVIOUS
    <3> QED BY <2>1, <3>1, <3>2
  <2>2. CASE m # 0
    <3>1. m \in 1..n /\ m + 1 # 1 /\ (m + 1) - 1 = m BY <2>2, SMT
    <3>2. Has(m) BY <1>2, <3>1
    <3>3. f[m + 1] = f[m] \o ss[m + 1] BY <3>1 DEF Joined
    <3>4. IsSeq(ss[m + 1]) OBVIOUS
    <3> DEFINE a == f[m]   b == ss[m + 1]   c == f[m + 1]
    <3>5. /\ IsSeq(c) /\ Len(c) = Len(a) + Len(b)
          /\ \A k \in 1..Len(a) : c[k] = a[k]
          /\ \A k \in 1..Len(b) : c[Len(a) + k] = b[k]
      <4>1. IsSeq(a) /\ IsSeq(b) /\ c = a \o b BY <3>2, <3>3, <3>4
      <4> HIDE DEF a, b, c
      <4> QED BY <4>1, Concatenation
    <3>6. Len(a) \in Nat /\ Len(b) \in Nat /\ Len(c) = Len(a) + Len(b)
      BY <3>2, <3>4, <3>5, LengthOfSequence
    <3>7. ASSUME NEW i \in 1..(m + 1), NEW k \in 1..Len(ss[i])
          PROVE  \E j \in 1..Len(c) : c[j] = ss[i][k]
      <4>1. CASE i \in 1..m
        <5>1. PICK j \in 1..Len(a) : a[j] = ss[i][k] BY <3>2, <4>1
        <5> HIDE DEF a, b, c
        <5>2. j \in 1..Len(c) BY <3>6, SMT
        <5>3. c[j] = ss[i][k] BY <3>5, <5>1
        <5> QED BY <5>2, <5>3
      <4>2. CASE i = m + 1
        <5>1. k \in 1..Len(b) /\ b[k] = ss[i][k] BY <4>2
        <5> HIDE DEF a, b, c
        <5>2. Len(a) + k \in 1..Len(c) BY <3>6, <5>1, SMT
        <5>3. c[Len(a) + k] = ss[i][k] BY <3>5, <5>1
        <5> QED BY <5>2, <5>3
      <4> QED BY <4>1, <4>2, SMT
    <3> QED BY <3>5, <3>7
  <2> QED BY <2>1, <2>2
<1>3. \A m \in Nat : m \in S
  <2> HIDE DEF S
  <2> QED BY <1>1, <1>2, Induction
<1>4. \A m \in 1..n : m \in Nat OBVIOUS
<1> QED BY <1>3, <1>4

(* Every element of every part is in the flattened sequence.               *)
LEMMA Flattening ==
  ASSUME NEW ss, IsSeq(ss), \A i \in 1..Len(ss) : IsSeq(ss[i])
  PROVE  /\ IsSeq(FlattenSeq(ss))
         /\ \A i \in 1..Len(ss) : \A k \in 1..Len(ss[i]) :
              \E j \in 1..Len(FlattenSeq(ss)) : FlattenSeq(ss)[j] = ss[i][k]
<1>1. Len(ss) \in Nat BY LengthOfSequence
<1>2. CASE Len(ss) = 0
  <2>1. FlattenSeq(ss) = ss BY <1>2 DEF FlattenSeq
  <2>2. 1..Len(ss) = {} BY <1>2, SMT
  <2> QED BY <2>1, <2>2
<1>3. CASE Len(ss) > 0
  <2>1. PICK f : Joined(ss, f, Len(ss)) /\ FlattenSeq(ss) = f[Len(ss)]
    BY <1>3, FlattenIsJoined
  <2>2. Len(ss) \in 1..Len(ss) BY <1>1, <1>3, SMT
  <2>3. /\ IsSeq(f[Len(ss)])
        /\ \A i \in 1..Len(ss) : \A k \in 1..Len(ss[i]) :
             \E j \in 1..Len(f[Len(ss)]) : f[Len(ss)][j] = ss[i][k]
    BY <1>1, <2>1, <2>2, JoinedSoFar
  <2> QED BY <2>1, <2>3
<1> QED BY <1>1, <1>2, <1>3, SMT

(* Parts with elements of one set *)
LEMMA FlatteningIsTyped ==
  ASSUME NEW S, NEW ss \in Seq(Seq(S))
  PROVE  FlattenSeq(ss) \in Seq(S)
<1>1. Len(ss) \in Nat /\ \A i \in 1..Len(ss) : ss[i] \in Seq(S) OBVIOUS
<1>2. CASE Len(ss) = 0
  <2>1. FlattenSeq(ss) = ss BY <1>2 DEF FlattenSeq
  <2>2. ss = <<>> BY <1>2
  <2> QED BY <2>1, <2>2
<1>3. CASE Len(ss) > 0
  <2>1. IsSeq(ss) BY DEF IsSeq
  <2>2. PICK f : Joined(ss, f, Len(ss)) /\ FlattenSeq(ss) = f[Len(ss)]
    BY <1>3, <2>1, FlattenIsJoined
  <2> DEFINE Good == {m \in Nat : m \in 1..Len(ss) => f[m] \in Seq(S)}
  <2>3. 0 \in Good OBVIOUS
  <2>4. ASSUME NEW m \in Nat, m \in Good PROVE m + 1 \in Good
    <3> SUFFICES ASSUME m + 1 \in 1..Len(ss) PROVE f[m + 1] \in Seq(S) OBVIOUS
    <3>1. ss[m + 1] \in Seq(S) BY <1>1
    <3>2. CASE m = 0 BY <2>2, <3>1, <3>2 DEF Joined
    <3>3. CASE m # 0
      <4>1. m \in 1..Len(ss) /\ m + 1 # 1 /\ (m + 1) - 1 = m BY <1>1, <3>3, SMT
      <4>2. f[m] \in Seq(S) BY <2>4, <4>1
      <4>3. f[m + 1] = f[m] \o ss[m + 1] BY <2>2, <4>1 DEF Joined
      <4> QED BY <3>1, <4>2, <4>3
    <3> QED BY <3>2, <3>3
  <2>5. \A m \in Nat : m \in Good
    <3> HIDE DEF Good
    <3> QED BY <2>3, <2>4, Induction
  <2>6. Len(ss) \in Good /\ Len(ss) \in 1..Len(ss) BY <1>1, <1>3, <2>5, SMT
  <2> QED BY <2>2, <2>6
<1> QED BY <1>1, <1>2, <1>3, SMT

(* Parts of one length *)
LEMMA Rows ==
  ASSUME NEW n \in Nat, NEW m \in Nat, NEW i \in 1..m, NEW j \in 1..n
  PROVE  n * (i - 1) + j \in 1..(n * m)
<1>1. i - 1 \in Nat /\ n * i = n * (i - 1) + n BY SMT
<1>2. n * i <= n * m
  <2>1. m - i \in Nat /\ n * m = n * i + n * (m - i) BY SMT
  <2>2. n * (m - i) \in Nat BY <2>1, SMT
  <2> QED BY <2>1, <2>2, SMT
<1>3. n * (i - 1) \in Nat BY <1>1, SMT
<1> QED BY <1>1, <1>2, <1>3, SMT

HasRows(ss, n) ==
  IsSeq(ss) /\ \A i \in 1..Len(ss) : IsSeq(ss[i]) /\ Len(ss[i]) = n

RowsOf(f, ss, n) ==
  /\ IsSeq(f) /\ Len(f) = n * Len(ss)
  /\ \A i \in 1..Len(ss) : \A j \in 1..n : f[n * (i - 1) + j] = ss[i][j]

(* Rows of one length follow each other in the flattened sequence.         *)
LEMMA FlatteningRows ==
  ASSUME NEW n \in Nat, NEW ss, HasRows(ss, n)
  PROVE  RowsOf(FlattenSeq(ss), ss, n)
<1> USE DEF HasRows, RowsOf
<1>1. Len(ss) \in Nat BY LengthOfSequence
<1>2. CASE Len(ss) = 0
  <2>1. FlattenSeq(ss) = ss BY <1>2 DEF FlattenSeq
  <2>2. 1..Len(ss) = {} /\ n * Len(ss) = 0 BY <1>2, SMT
  <2> QED BY <1>2, <2>1, <2>2
<1>3. CASE Len(ss) > 0
  <2>1. PICK f : Joined(ss, f, Len(ss)) /\ FlattenSeq(ss) = f[Len(ss)]
    BY <1>3, FlattenIsJoined
  <2> DEFINE Has(m) == /\ IsSeq(f[m]) /\ Len(f[m]) = n * m
                       /\ \A i \in 1..m : \A j \in 1..n : f[m][n * (i - 1) + j] = ss[i][j]
             S == {m \in Nat : m \in 1..Len(ss) => Has(m)}
  <2>2. 0 \in S OBVIOUS
  <2>3. ASSUME NEW m \in Nat, m \in S PROVE m + 1 \in S
    <3> SUFFICES ASSUME m + 1 \in 1..Len(ss) PROVE Has(m + 1)
      <4> HIDE DEF Has
      <4> QED OBVIOUS
    <3>1. IsSeq(ss[m + 1]) /\ Len(ss[m + 1]) = n OBVIOUS
    <3>2. CASE m = 0
      <4>1. f[1] = ss[1] BY <2>1, <3>2 DEF Joined
      <4>2. \A i \in 1..1 : i = 1 OBVIOUS
      <4>3. n * 1 = n /\ n * (1 - 1) = 0 BY SMT
      <4>4. \A j \in 1..n : 0 + j = j BY SMT
      <4> QED BY <3>1, <3>2, <4>1, <4>2, <4>3, <4>4
    <3>3. CASE m # 0
      <4>1. m \in 1..Len(ss) /\ m + 1 # 1 /\ (m + 1) - 1 = m BY <1>1, <3>3, SMT
      <4>2. Has(m) BY <2>3, <4>1
      <4>3. f[m + 1] = f[m] \o ss[m + 1] BY <2>1, <4>1 DEF Joined
      <4> DEFINE a == f[m]   b == ss[m + 1]   c == f[m + 1]
      <4>4. /\ IsSeq(c) /\ Len(c) = Len(a) + Len(b)
            /\ \A k \in 1..Len(a) : c[k] = a[k]
            /\ \A k \in 1..Len(b) : c[Len(a) + k] = b[k]
        <5>1. IsSeq(a) /\ IsSeq(b) /\ c = a \o b BY <3>1, <4>2, <4>3
        <5> HIDE DEF a, b, c
        <5> QED BY <5>1, Concatenation
      <4>5. /\ Len(a) = n * m /\ Len(b) = n
            /\ \A i \in 1..m : \A j \in 1..n : a[n * (i - 1) + j] = ss[i][j]
        BY <3>1, <4>2
      <4> HIDE DEF a, b, c
      <4>6. n * (m + 1) = n * m + n /\ n * ((m + 1) - 1) = n * m BY SMT
      <4>7. Len(c) = n * (m + 1) BY <4>4, <4>5, <4>6
      <4>8. ASSUME NEW i \in 1..(m + 1), NEW j \in 1..n PROVE c[n * (i - 1) + j] = ss[i][j]
        <5>1. CASE i \in 1..m
          <6>1. n * (i - 1) + j \in 1..Len(a) BY <4>5, <5>1, Rows
          <6> QED BY <4>4, <4>5, <5>1, <6>1
        <5>2. CASE i = m + 1
          <6>1. c[n * m + j] = b[j] BY <4>4, <4>5
          <6> QED BY <4>6, <5>2, <6>1 DEF b
        <5> QED BY <5>1, <5>2, SMT
      <4> QED BY <4>4, <4>7, <4>8 DEF c
    <3> QED BY <3>2, <3>3
  <2>4. \A m \in Nat : m \in S
    <3> HIDE DEF S
    <3> QED BY <2>2, <2>3, Induction
  <2>5. Len(ss) \in 1..Len(ss) BY <1>1, <1>3, SMT
  <2>6. Has(Len(ss)) BY <1>1, <2>4, <2>5
  <2> QED BY <2>1, <2>6
<1> QED BY <1>1, <1>2, <1>3, SMT

(* Parts of any length *)
PartsAt(off, ss, f) ==
  /\ off[0] = 0 /\ \A i \in 0..Len(ss) : off[i] \in Nat /\ off[i] <= Len(f)
  /\ \A i \in 1..Len(ss) : off[i] = off[i - 1] + Len(ss[i])
  /\ IsSeq(f) /\ Len(f) = off[Len(ss)]
  /\ \A i \in 1..Len(ss) : \A j \in 1..Len(ss[i]) : f[off[i - 1] + j] = ss[i][j]

(* The parts of a flattened sequence follow each other.                    *)
LEMMA FlatteningParts ==
  ASSUME NEW ss, IsSeq(ss), \A i \in 1..Len(ss) : IsSeq(ss[i])
  PROVE  \E off : PartsAt(off, ss, FlattenSeq(ss))
<1>1. Len(ss) \in Nat BY LengthOfSequence
<1>2. CASE Len(ss) = 0
  <2>1. FlattenSeq(ss) = ss BY <1>2 DEF FlattenSeq
  <2>2. 1..Len(ss) = {} /\ 0..Len(ss) = {0} BY <1>2, SMT
  <2>3. PartsAt([i \in 0..0 |-> 0], ss, ss) BY <1>2, <2>2, SMT DEF PartsAt
  <2> QED BY <2>1, <2>3
<1>3. CASE Len(ss) > 0
  <2>1. PICK f : Joined(ss, f, Len(ss)) /\ FlattenSeq(ss) = f[Len(ss)]
    BY <1>3, FlattenIsJoined
  <2> DEFINE off == [i \in 0..Len(ss) |-> IF i = 0 THEN 0 ELSE Len(f[i])]
             Has(m) == /\ IsSeq(f[m]) /\ Len(f[m]) = off[m - 1] + Len(ss[m])
                       /\ \A i \in 0..m : off[i] \in Nat /\ off[i] <= Len(f[m])
                       /\ \A i \in 1..m : \A j \in 1..Len(ss[i]) : f[m][off[i - 1] + j] = ss[i][j]
             S == {m \in Nat : m \in 1..Len(ss) => Has(m)}
  <2>2. off[0] = 0 /\ \A i \in 1..Len(ss) : off[i] = Len(f[i]) BY <1>1, SMT
  <2>3. \A i \in 1..Len(ss) : Len(ss[i]) \in Nat /\ IsSeq(ss[i]) BY LengthOfSequence
  <2> HIDE DEF off
  <2>4. 0 \in S OBVIOUS
  <2>5. ASSUME NEW m \in Nat, m \in S PROVE m + 1 \in S
    <3> SUFFICES ASSUME m + 1 \in 1..Len(ss) PROVE Has(m + 1)
      <4> HIDE DEF Has
      <4> QED OBVIOUS
    <3> DEFINE b == ss[m + 1]   c == f[m + 1]
    <3>1. Len(b) \in Nat /\ IsSeq(b) BY <2>3
    <3>2. CASE m = 0
      <4>1. c = b BY <2>1, <3>2 DEF Joined
      <4>2. /\ off[m + 1] = Len(b) /\ off[m] = 0 /\ (m + 1) - 1 = m
            /\ \A i \in 0..(m + 1) : i = m \/ i = m + 1
            /\ \A i \in 1..(m + 1) : i = m + 1
        BY <2>2, <3>2, <4>1, SMT
      <4> HIDE DEF b, c
      <4>3. Len(c) = off[(m + 1) - 1] + Len(b)
        <5>1. Len(c) = Len(b) /\ Len(b) = 0 + Len(b) BY <3>1, <4>1
        <5> QED BY <4>2, <5>1, Zenon
      <4>4. \A i \in 0..(m + 1) : off[i] \in Nat /\ off[i] <= Len(c) BY <3>1, <4>1, <4>2, SMT
      <4>5. \A j \in 1..Len(b) : c[off[m] + j] = b[j]
        <5>1. \A j \in 1..Len(b) : off[m] + j = j BY <3>1, <4>2, SMT
        <5> QED BY <4>1, <5>1
      <4>6. \A i \in 1..(m + 1) : \A j \in 1..Len(ss[i]) : c[off[i - 1] + j] = ss[i][j]
        <5> SUFFICES ASSUME NEW i \in 1..(m + 1), NEW j \in 1..Len(ss[i]) PROVE c[off[i - 1] + j] = ss[i][j]
          OBVIOUS
        <5>1. i = m + 1 /\ i - 1 = m BY <4>2
        <5>2. \A k \in 1..Len(ss[m + 1]) : c[off[m] + k] = ss[m + 1][k] BY <4>5, Zenon DEF b
        <5> QED BY <5>1, <5>2
      <4> QED BY <3>1, <4>1, <4>3, <4>4, <4>6 DEF b, c
    <3>3. CASE m # 0
      <4>1. m \in 1..Len(ss) /\ m + 1 # 1 /\ (m + 1) - 1 = m BY <1>1, <3>3, SMT
      <4>2. Has(m) BY <2>5, <4>1
      <4>3. f[m + 1] = f[m] \o ss[m + 1] BY <2>1, <4>1 DEF Joined
      <4> DEFINE a == f[m]
      <4>4. /\ IsSeq(a) /\ off[m] = Len(a) /\ off[m + 1] = Len(c)
            /\ \A i \in 0..m : off[i] \in Nat /\ off[i] <= Len(a)
            /\ \A i \in 1..m : \A j \in 1..Len(ss[i]) : a[off[i - 1] + j] = ss[i][j]
            /\ c = a \o b
        BY <2>2, <4>1, <4>2, <4>3
      <4>5. \A i \in 1..m : off[i] = off[i - 1] + Len(ss[i])
        <5>1. ASSUME NEW i \in 1..m PROVE off[i] = off[i - 1] + Len(ss[i])
          <6>1. i \in 1..Len(ss) /\ i \in Nat BY <4>1, SMT
          <6>2. CASE i = 1
            <7>1. f[1] = ss[1] BY <2>1, <6>1, <6>2 DEF Joined
            <7> QED BY <2>2, <2>3, <6>1, <6>2, <7>1, SMT
          <6>3. CASE i # 1
            <7>1. f[i] = f[i - 1] \o ss[i] BY <2>1, <6>1, <6>3 DEF Joined
            <7>2. i - 1 \in 1..Len(ss) BY <6>1, <6>3, <1>1, SMT
            <7>3. off[i - 1] = Len(f[i - 1]) /\ off[i] = Len(f[i]) BY <2>2, <6>1, <7>2
            <7>4. IsSeq(f[i - 1]) BY <2>1, <2>3, <7>2, <1>1, JoinedSoFar
            <7>5. IsSeq(ss[i]) BY <2>3, <6>1
            <7> QED BY <7>1, <7>3, <7>4, <7>5, Concatenation
          <6> QED BY <6>2, <6>3
        <5> QED BY <5>1
      <4> HIDE DEF a, b, c
      <4>6. /\ IsSeq(c) /\ Len(c) = Len(a) + Len(b)
            /\ \A k \in 1..Len(a) : c[k] = a[k]
            /\ \A k \in 1..Len(b) : c[Len(a) + k] = b[k]
        BY <3>1, <4>4, Concatenation
      <4>7. Len(a) \in Nat BY <4>4, LengthOfSequence
      <4>8. Len(c) = off[(m + 1) - 1] + Len(b) BY <4>1, <4>4, <4>6
      <4>9. ASSUME NEW i \in 0..(m + 1) PROVE off[i] \in Nat /\ off[i] <= Len(c)
        <5>1. CASE i \in 0..m
          <6>1. off[i] \in Nat /\ off[i] <= Len(a) BY <4>4, <5>1
          <6> QED BY <3>1, <4>6, <4>7, <6>1, SMT
        <5>2. CASE i = m + 1 BY <3>1, <4>4, <4>6, <4>7, <5>2, SMT
        <5> QED BY <5>1, <5>2, SMT
      <4>10. ASSUME NEW i \in 1..(m + 1), NEW j \in 1..Len(ss[i]) PROVE c[off[i - 1] + j] = ss[i][j]
        <5>1. CASE i \in 1..m
          <6>1. i - 1 \in 0..m /\ i \in 0..m /\ i \in 1..Len(ss) BY <4>1, <5>1, <1>1, SMT
          <6>2. off[i] = off[i - 1] + Len(ss[i]) /\ off[i] <= Len(a) /\ off[i - 1] \in Nat
            BY <4>4, <4>5, <5>1, <6>1
          <6>3. off[i - 1] + j \in 1..Len(a)
            <7>1. Len(ss[i]) \in Nat BY <2>3, <6>1
            <7> QED BY <4>7, <6>2, <7>1, SMT
          <6> QED BY <4>4, <4>6, <5>1, <6>3
        <5>2. CASE i = m + 1 BY <4>1, <4>4, <4>6, <5>2 DEF b
        <5> QED BY <5>1, <5>2, SMT
      <4> QED BY <4>6, <4>8, <4>9, <4>10 DEF b, c
    <3> QED BY <3>2, <3>3
  <2>6. \A m \in Nat : m \in S
    <3> HIDE DEF S
    <3> QED BY <2>4, <2>5, Induction
  <2>7. Len(ss) \in 1..Len(ss) /\ \A i \in 1..Len(ss) : i \in Nat BY <1>1, <1>3, SMT
  <2>8. Has(Len(ss)) /\ \A i \in 1..Len(ss) : Has(i)
    <3> HIDE DEF Has
    <3> QED BY <1>1, <2>6, <2>7
  <2>9. \A i \in 1..Len(ss) : off[i] = off[i - 1] + Len(ss[i]) BY <2>2, <2>8
  <2>10. PartsAt(off, ss, f[Len(ss)]) BY <2>2, <2>7, <2>8, <2>9, Zenon DEF PartsAt
  <2> QED BY <2>1, <2>10
<1> QED BY <1>1, <1>2, <1>3, SMT
=============================================================================
