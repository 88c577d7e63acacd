------------------------- MODULE MdocSessionProofs -------------------------
(***************************************************************************)
(* Theorems about a presentment, for all circuits, documents and calls and *)
(* for everything that may arrive: what success means to the wallet and to *)
(* the reader.  The inductive invariant is IInv.                           *)
(*                                                                         *)
(* First, what the methods of prover and verifier do to a transcript, for  *)
(* every circuit: what they write stays in it, and both sides write and    *)
(* draw the same in the same order.                                        *)
(***************************************************************************)
EXTENDS MdocSession, SequenceLemmas

-----------------------------------------------------------------------------
(* The two folds, step by step *)

(* The largest of the numbers up to one of them *)
LEMMA LastIsMax ==
  ASSUME NEW k \in Nat, NEW s \in SUBSET (1..k), k \in s
  PROVE  Max(s) = k
<1>1. \A x \in s : x \in 1..k OBVIOUS
<1>2. \A y \in s : k >= y BY <1>1, SMT
<1>3. \E x \in s : \A y \in s : x >= y BY <1>2, Zenon
<1>4. Max(s) \in s /\ \A y \in s : Max(s) >= y BY <1>3, Zenon DEF Max
<1>5. Max(s) \in 1..k /\ Max(s) >= k BY <1>1, <1>4, Zenon
<1> QED BY <1>5, SMT

Folded(ts, ops, g, D) ==
  g = [s \in SUBSET D |-> IF s = {} THEN ts ELSE Do(g[s \ {Max(s)}], ops[Max(s)])]

(* The fold that runs operations on a transcript exists.                   *)
LEMMA FoldedExists ==
  ASSUME NEW ts, NEW ops, NEW n \in Nat
  PROVE  \E g : Folded(ts, ops, g, 1..n)
<1> DEFINE S == {m \in Nat : \E g : Folded(ts, ops, g, 1..m)}
<1>1. 0 \in S
  <2> DEFINE g == [s \in SUBSET (1..0) |-> ts]
  <2>1. \A s \in SUBSET (1..0) : s = {} OBVIOUS
  <2>2. Folded(ts, ops, g, 1..0) BY <2>1, Zenon DEF Folded
  <2> QED BY <2>2
<1>2. ASSUME NEW m \in Nat, m \in S PROVE m + 1 \in S
  <2>1. PICK g : Folded(ts, ops, g, 1..m) BY <1>2
  <2> DEFINE old == SUBSET (1..m)
             new == SUBSET (1..(m + 1))
             h == [s \in new |-> IF s \in old THEN g[s]
                                 ELSE Do(g[s \ {m + 1}], ops[m + 1])]
             step(s) == IF s = {} THEN ts ELSE Do(h[s \ {Max(s)}], ops[Max(s)])
  <2>2. \A s \in new : h[s] = step(s)
    <3> SUFFICES ASSUME NEW s \in new PROVE h[s] = step(s) OBVIOUS
    <3>1. CASE s \in old
      <4>1. h[s] = g[s] BY <3>1
      <4>2. g[s] = IF s = {} THEN ts ELSE Do(g[s \ {Max(s)}], ops[Max(s)])
        BY <2>1, <3>1, Zenon DEF Folded
      <4>3. s \ {Max(s)} \in old /\ s \ {Max(s)} \in new BY <3>1
      <4>4. h[s \ {Max(s)}] = g[s \ {Max(s)}] BY <4>3
      <4> QED BY <4>1, <4>2, <4>4, Zenon
    <3>2. CASE s \notin old
      <4>1. m + 1 \in s
        <5>1. \A x \in 1..(m + 1) : x = m + 1 \/ x \in 1..m OBVIOUS
        <5> QED BY <3>2, <5>1
      <4>2. Max(s) = m + 1 BY <4>1, LastIsMax
      <4>3. s \ {m + 1} \in old /\ s \ {m + 1} \in new
        <5>1. \A x \in 1..(m + 1) : x = m + 1 \/ x \in 1..m OBVIOUS
        <5> QED BY <5>1
      <4>4. h[s \ {m + 1}] = g[s \ {m + 1}] BY <4>3
      <4>5. h[s] = Do(g[s \ {m + 1}], ops[m + 1]) BY <3>2
      <4>6. s # {} BY <4>1
      <4> QED BY <4>2, <4>4, <4>5, <4>6, Zenon
    <3> QED BY <3>1, <3>2
  <2>3. h = [s \in new |-> h[s]] OBVIOUS
  <2>4. Folded(ts, ops, h, 1..(m + 1))
    <3> HIDE DEF h
    <3> QED BY <2>2, <2>3, Zenon DEF Folded
  <2>5. \E k : Folded(ts, ops, k, 1..(m + 1)) BY <2>4, Zenon
  <2>6. m + 1 \in Nat OBVIOUS
  <2> QED BY <2>5, <2>6
<1>3. \A m \in Nat : m \in S
  <2> HIDE DEF S
  <2> QED BY <1>1, <1>2, Induction
<1> QED BY <1>3

(* A transcript goes through the operations one by one. *)
Path(ts, ops, path) ==
  /\ path[0] = ts
  /\ \A k \in 1..Len(ops) : path[k] = Do(path[k - 1], ops[k])

(* Running operations is a path of transcripts, one operation at a time.   *)
LEMMA AfterIsPath ==
  ASSUME NEW ts, NEW ops, IsSeq(ops)
  PROVE  \E path : Path(ts, ops, path) /\ After(ts, ops) = path[Len(ops)]
<1> DEFINE n == Len(ops)
           g == CHOOSE iter : iter = [s \in SUBSET DOMAIN ops |->
                  IF s = {} THEN ts ELSE Do(iter[s \ {Max(s)}], ops[Max(s)])]
           path == [k \in 0..n |-> g[1..k]]
<1>1. n \in Nat /\ DOMAIN ops = 1..n BY LengthOfSequence
<1>2. Folded(ts, ops, g, 1..n)
  <2>1. \E iter : iter = [s \in SUBSET DOMAIN ops |->
                  IF s = {} THEN ts ELSE Do(iter[s \ {Max(s)}], ops[Max(s)])]
    <3>1. PICK iter : Folded(ts, ops, iter, 1..n)
      <4> HIDE DEF n
      <4> QED BY <1>1, FoldedExists
    <3>2. Folded(ts, ops, iter, DOMAIN ops) BY <1>1, <3>1, Zenon
    <3> QED BY <3>2, Zenon DEF Folded
  <2> QED BY <1>1, <2>1, Zenon DEF Folded
<1>3. After(ts, ops) = g[DOMAIN ops]
  BY Zenon DEF After, FoldLeft, MapThenFoldSet
<1> HIDE DEF g
<1>4. path[0] = ts
  <2>1. 1..0 = {} /\ 0 \in 0..n BY <1>1
  <2>2. g[{}] = ts BY <1>2 DEF Folded
  <2> QED BY <2>1, <2>2
<1>5. ASSUME NEW k \in 1..n PROVE path[k] = Do(path[k - 1], ops[k])
  <2>1. k \in Nat /\ k - 1 \in 0..n /\ k \in 0..n /\ 1..k \subseteq 1..n /\ k \in 1..k
    BY <1>1
  <2>2. (1..k) \ {k} = 1..(k - 1) BY <2>1
  <2>3. Max(1..k) = k BY <2>1, LastIsMax
  <2>4. g[1..k] = IF 1..k = {} THEN ts ELSE Do(g[(1..k) \ {Max(1..k)}], ops[Max(1..k)])
    BY <1>2, <2>1, Zenon DEF Folded
  <2>5. g[1..k] = Do(g[1..(k - 1)], ops[k]) BY <2>1, <2>2, <2>3, <2>4, Zenon
  <2> QED BY <2>1, <2>5
<1>6. path[n] = After(ts, ops) BY <1>1, <1>3
<1>7. Path(ts, ops, path) BY <1>4, <1>5 DEF Path
<1> QED BY <1>6, <1>7

(* A log that begins as another one and has the writes of ops *)
Grown(log, l, ops) ==
  /\ IsSeq(log) /\ Len(l) <= Len(log)
  /\ \A j \in 1..Len(l) : log[j] = l[j]
  /\ \A i \in 1..Len(ops) : ops[i].op = "write" =>
       \E j \in 1..Len(log) : log[j].what = ops[i].what /\ log[j].val = ops[i].val

(* What was written stays, and every write is added to it. *)
LEMMA AfterKeepsAndAdds ==
  ASSUME NEW ts, IsSeq(ts.log), NEW ops, IsSeq(ops)
  PROVE  Grown(After(ts, ops).log, ts.log, ops)
<1> DEFINE n == Len(ops)   l == ts.log
           Has(k, log) ==
             /\ IsSeq(log) /\ Len(l) <= Len(log)
             /\ \A j \in 1..Len(l) : log[j] = l[j]
             /\ \A i \in 1..k : ops[i].op = "write" =>
                  \E j \in 1..Len(log) :
                    log[j].what = ops[i].what /\ log[j].val = ops[i].val
<1>1. n \in Nat /\ Len(l) \in Nat BY LengthOfSequence
<1>2. PICK path : Path(ts, ops, path) /\ After(ts, ops) = path[n] BY AfterIsPath
<1> DEFINE S == {k \in Nat : k \in 0..n => Has(k, path[k].log)}
<1>3. 0 \in S
  <2>1. path[0] = ts BY <1>2 DEF Path
  <2> QED BY <1>1, <2>1
<1>4. ASSUME NEW k \in Nat, k \in S PROVE k + 1 \in S
  <2> SUFFICES ASSUME k + 1 \in 0..n PROVE Has(k + 1, path[k + 1].log) OBVIOUS
  <2>1. k \in 0..n /\ k + 1 \in 1..n BY <1>1
  <2> DEFINE a == path[k].log   b == path[k + 1].log   o == ops[k + 1]
             e == [what |-> o.what, val |-> o.val]
  <2> SUFFICES Has(k + 1, b) OBVIOUS
  <2>2. Has(k, a) BY <1>4, <2>1
  <2>3. path[k + 1] = Do(path[k], o)
    <3>1. path[k + 1] = Do(path[(k + 1) - 1], ops[k + 1]) BY <1>2, <2>1, Zenon DEF Path
    <3>2. (k + 1) - 1 = k OBVIOUS
    <3> QED BY <3>1, <3>2
  <2>4. b = IF o.op = "write" THEN Append(a, e) ELSE a BY <2>3 DEF Do
  <2>5. \A i \in 1..(k + 1) : i \in 1..k \/ i = k + 1 OBVIOUS
  <2>6. CASE o.op # "write"
    <3>1. b = a BY <2>4, <2>6
    <3>2. ASSUME NEW i \in 1..(k + 1), ops[i].op = "write"
          PROVE  \E j \in 1..Len(b) : b[j].what = ops[i].what /\ b[j].val = ops[i].val
      <4>1. i \in 1..k BY <2>5, <2>6, <3>2
      <4> HIDE DEF a, b, o
      <4> QED BY <2>2, <3>1, <3>2, <4>1
    <3> HIDE DEF a, b, l, n, o
    <3> QED BY <2>2, <3>1, <3>2
  <2>7. CASE o.op = "write"
    <3>1. b = Append(a, e) BY <2>4, <2>7
    <3>2. e.what = o.what /\ e.val = o.val OBVIOUS
    <3>3. IsSeq(a) /\ Len(a) \in Nat BY <2>2, LengthOfSequence
    <3> HIDE DEF a, b, e, l, n
    <3>4. /\ IsSeq(b) /\ Len(b) = Len(a) + 1 /\ b[Len(a) + 1] = e
          /\ \A j \in 1..Len(a) : b[j] = a[j]
      BY <3>1, <3>3, OneMore
    <3>5. Len(l) <= Len(b) /\ \A j \in 1..Len(l) : b[j] = l[j]
      BY <1>1, <2>2, <3>3, <3>4
    <3>6. ASSUME NEW i \in 1..(k + 1), ops[i].op = "write"
          PROVE  \E j \in 1..Len(b) : b[j].what = ops[i].what /\ b[j].val = ops[i].val
      <4>1. CASE i \in 1..k
        <5>1. PICK j \in 1..Len(a) : a[j].what = ops[i].what /\ a[j].val = ops[i].val
          BY <2>2, <3>6, <4>1
        <5>2. j \in 1..Len(b) /\ b[j] = a[j] BY <3>3, <3>4
        <5> QED BY <5>1, <5>2
      <4>2. CASE i = k + 1
        <5>1. Len(a) + 1 \in 1..Len(b) BY <3>3, <3>4
        <5> QED BY <3>2, <3>4, <4>2, <5>1
      <4> QED BY <2>5, <4>1, <4>2
    <3> QED BY <3>4, <3>5, <3>6
  <2> QED BY <2>6, <2>7
<1>5. \A k \in Nat : k \in S
  <2> HIDE DEF S
  <2> QED BY <1>3, <1>4, Induction
<1>6. Has(n, path[n].log)
  <2>1. n \in S /\ n \in 0..n BY <1>1, <1>5
  <2> QED BY <2>1
<1> QED BY <1>2, <1>6 DEF Grown

(* What is written first comes first, after what the log had, and nothing  *)
(* else is added to it.                                                    *)
Entry(o) == [what |-> o.what, val |-> o.val]

LeadingWrites(log, l, ops, m) ==
  /\ IsSeq(log) /\ Len(l) + m <= Len(log)
  /\ \A j \in 1..Len(l) : log[j] = l[j]
  /\ \A i \in 1..m : log[Len(l) + i] = Entry(ops[i])
  /\ m = Len(ops) => Len(log) = Len(l) + m

LEMMA FirstWritesComeFirst ==
  ASSUME NEW ts, IsSeq(ts.log), NEW ops, IsSeq(ops),
         NEW m \in 0..Len(ops), \A i \in 1..m : ops[i].op = "write"
  PROVE  LeadingWrites(After(ts, ops).log, ts.log, ops, m)
<1> DEFINE n == Len(ops)   l == ts.log
           Has(k, log) ==
             /\ IsSeq(log)
             /\ IF k <= m THEN Len(log) = Len(l) + k ELSE Len(l) + m <= Len(log)
             /\ \A j \in 1..Len(l) : log[j] = l[j]
             /\ \A i \in 1..m : i <= k => log[Len(l) + i] = Entry(ops[i])
<1>1. n \in Nat /\ Len(l) \in Nat /\ m \in Nat /\ m <= n BY LengthOfSequence
<1>2. PICK path : Path(ts, ops, path) /\ After(ts, ops) = path[n] BY AfterIsPath
<1> DEFINE S == {k \in Nat : k \in 0..n => Has(k, path[k].log)}
<1>3. 0 \in S
  <2>1. path[0] = ts BY <1>2 DEF Path
  <2> QED BY <1>1, <2>1
<1>4. ASSUME NEW k \in Nat, k \in S PROVE k + 1 \in S
  <2> SUFFICES ASSUME k + 1 \in 0..n PROVE Has(k + 1, path[k + 1].log)
    <3> HIDE DEF Has
    <3> QED OBVIOUS
  <2>1. k \in 0..n /\ k + 1 \in 1..n BY <1>1
  <2> DEFINE a == path[k].log   b == path[k + 1].log   o == ops[k + 1]   e == Entry(o)
  <2> SUFFICES Has(k + 1, b) OBVIOUS
  <2>2. Has(k, a) BY <1>4, <2>1
  <2>3. path[k + 1] = Do(path[k], o)
    <3>1. path[k + 1] = Do(path[(k + 1) - 1], ops[k + 1]) BY <1>2, <2>1, Zenon DEF Path
    <3>2. (k + 1) - 1 = k OBVIOUS
    <3> QED BY <3>1, <3>2
  <2>4. b = IF o.op = "write" THEN Append(a, e) ELSE a BY <2>3 DEF Do, Entry
  <2>5. IsSeq(a) /\ Len(a) \in Nat /\ Len(l) <= Len(a)
    <3>1. IsSeq(a) BY <2>2
    <3>2. Len(a) \in Nat BY <3>1, LengthOfSequence
    <3> HIDE DEF a, l, n
    <3> QED BY <1>1, <2>2, <3>1, <3>2
  <2>6. CASE o.op # "write"
    <3>1. b = a /\ ~(k + 1 <= m)
      <4>1. k + 1 \notin 1..m BY <2>6
      <4> QED BY <1>1, <2>4, <2>6, <4>1
    <3>2. \A i \in 1..m : i <= k BY <1>1, <3>1
    <3>3. Len(l) + m <= Len(b)
      <4> HIDE DEF a, b, l, n
      <4> QED BY <1>1, <2>2, <2>5, <3>1
    <3> HIDE DEF a, b, l, n, o
    <3> QED BY <2>2, <3>1, <3>2, <3>3
  <2>7. CASE o.op = "write"
    <3>1. b = Append(a, e) BY <2>4, <2>7
    <3> HIDE DEF a, b, e, l, n
    <3>2. /\ IsSeq(b) /\ Len(b) = Len(a) + 1 /\ b[Len(a) + 1] = e
          /\ \A j \in 1..Len(a) : b[j] = a[j]
      BY <2>5, <3>1, OneMore
    <3>3. IF k + 1 <= m THEN Len(b) = Len(l) + (k + 1) ELSE Len(l) + m <= Len(b)
      BY <1>1, <2>2, <2>5, <3>2
    <3>4. \A j \in 1..Len(l) : b[j] = l[j] BY <1>1, <2>2, <2>5, <3>2
    <3>5. ASSUME NEW i \in 1..m, i <= k + 1 PROVE b[Len(l) + i] = Entry(ops[i])
      <4>1. CASE i <= k
        <5>1. Len(l) + i \in 1..Len(a) BY <1>1, <2>2, <2>5, <4>1
        <5> QED BY <2>2, <3>2, <4>1, <5>1
      <4>2. CASE i = k + 1
        <5>1. i \in Nat /\ k <= m BY <1>1, <4>2
        <5>2. Len(a) = Len(l) + k BY <2>2, <5>1
        <5>3. Len(l) + i = Len(a) + 1 BY <1>1, <4>2, <5>1, <5>2
        <5> QED BY <3>2, <4>2, <5>3 DEF e
      <4> QED BY <3>5, <4>1, <4>2
    <3> QED BY <3>2, <3>3, <3>4, <3>5
  <2> QED BY <2>6, <2>7
<1>5. \A k \in Nat : k \in S
  <2> HIDE DEF S
  <2> QED BY <1>3, <1>4, Induction
<1>6. Has(n, path[n].log)
  <2>1. n \in S /\ n \in 0..n BY <1>1, <1>5
  <2> QED BY <2>1
<1>7. \A i \in 1..m : i <= n BY <1>1
<1>8. Len(l) + m <= Len(path[n].log) /\ (m = n => Len(path[n].log) = Len(l) + m)
  <2>1. n <= m => Len(path[n].log) = Len(l) + n BY <1>6
  <2>2. ~(n <= m) => Len(l) + m <= Len(path[n].log) BY <1>6
  <2> DEFINE x == Len(path[n].log)   y == Len(l)
  <2> HIDE DEF l, n, x, y
  <2>3. y + m <= x /\ (m = n => x = y + m)
    <3>1. (n <= m => x = y + n) /\ (~(n <= m) => y + m <= x) BY <2>1, <2>2 DEF x, y
    <3>2. n \in Nat /\ y \in Nat /\ m \in Nat /\ m <= n BY <1>1 DEF y
    <3> HIDE DEF x, y, n
    <3> QED BY <3>1, <3>2
  <2> QED BY <2>3 DEF x, y
<1> QED BY <1>2, <1>6, <1>7, <1>8 DEF LeadingWrites

-----------------------------------------------------------------------------
(* The same for Challenges *)
Start(ts) == [ts |-> ts, at |-> <<>>]
Here(acc, o) ==
  [ts |-> Do(acc.ts, o),
   at |-> IF o.op = "draw"
          THEN Append(acc.at, <<Len(acc.ts.log), acc.ts.pos, o.n>>)
          ELSE acc.at]

HereFolded(ts, ops, g, D) ==
  g = [s \in SUBSET D |-> IF s = {} THEN Start(ts) ELSE Here(g[s \ {Max(s)}], ops[Max(s)])]

(* So does the fold that collects the draws,                               *)
LEMMA HereFoldedExists ==
  ASSUME NEW ts, NEW ops, NEW n \in Nat
  PROVE  \E g : HereFolded(ts, ops, g, 1..n)
<1> DEFINE S == {m \in Nat : \E g : HereFolded(ts, ops, g, 1..m)}
<1>1. 0 \in S
  <2> DEFINE g == [s \in SUBSET (1..0) |-> Start(ts)]
  <2>1. \A s \in SUBSET (1..0) : s = {} OBVIOUS
  <2>2. HereFolded(ts, ops, g, 1..0) BY <2>1, Zenon DEF HereFolded
  <2> QED BY <2>2
<1>2. ASSUME NEW m \in Nat, m \in S PROVE m + 1 \in S
  <2>1. PICK g : HereFolded(ts, ops, g, 1..m) BY <1>2
  <2> DEFINE old == SUBSET (1..m)
             new == SUBSET (1..(m + 1))
             h == [s \in new |-> IF s \in old THEN g[s]
                                 ELSE Here(g[s \ {m + 1}], ops[m + 1])]
             step(s) == IF s = {} THEN Start(ts) ELSE Here(h[s \ {Max(s)}], ops[Max(s)])
  <2>2. \A s \in new : h[s] = step(s)
    <3> SUFFICES ASSUME NEW s \in new PROVE h[s] = step(s) OBVIOUS
    <3>1. CASE s \in old
      <4>1. h[s] = g[s] BY <3>1
      <4>2. g[s] = IF s = {} THEN Start(ts) ELSE Here(g[s \ {Max(s)}], ops[Max(s)])
        BY <2>1, <3>1, Zenon DEF HereFolded
      <4>3. s \ {Max(s)} \in old /\ s \ {Max(s)} \in new BY <3>1
      <4>4. h[s \ {Max(s)}] = g[s \ {Max(s)}] BY <4>3
      <4> QED BY <4>1, <4>2, <4>4, Zenon
    <3>2. CASE s \notin old
      <4>1. m + 1 \in s
        <5>1. \A x \in 1..(m + 1) : x = m + 1 \/ x \in 1..m OBVIOUS
        <5> QED BY <3>2, <5>1
      <4>2. Max(s) = m + 1 BY <4>1, LastIsMax
      <4>3. s \ {m + 1} \in old /\ s \ {m + 1} \in new
        <5>1. \A x \in 1..(m + 1) : x = m + 1 \/ x \in 1..m OBVIOUS
        <5> QED BY <5>1
      <4>4. h[s \ {m + 1}] = g[s \ {m + 1}] BY <4>3
      <4>5. h[s] = Here(g[s \ {m + 1}], ops[m + 1]) BY <3>2
      <4>6. s # {} BY <4>1
      <4> QED BY <4>2, <4>4, <4>5, <4>6, Zenon
    <3> QED BY <3>1, <3>2
  <2>3. h = [s \in new |-> h[s]] OBVIOUS
  <2>4. HereFolded(ts, ops, h, 1..(m + 1))
    <3> HIDE DEF h
    <3> QED BY <2>2, <2>3, Zenon DEF HereFolded
  <2>5. \E k : HereFolded(ts, ops, k, 1..(m + 1)) BY <2>4, Zenon
  <2>6. m + 1 \in Nat OBVIOUS
  <2> QED BY <2>5, <2>6
<1>3. \A m \in Nat : m \in S
  <2> HIDE DEF S
  <2> QED BY <1>1, <1>2, Induction
<1> QED BY <1>3

(* So do the transcript and the places of its draws. *)
HerePath(ts, ops, path) ==
  /\ path[0] = Start(ts)
  /\ \A k \in 1..Len(ops) : path[k] = Here(path[k - 1], ops[k])

(* and the collected draws are such a path.                                *)
LEMMA ChallengesIsPath ==
  ASSUME NEW ts, NEW ops, IsSeq(ops)
  PROVE  \E path : HerePath(ts, ops, path) /\ Challenges(ts, ops) = path[Len(ops)]
<1> DEFINE n == Len(ops)
           g == CHOOSE iter : iter = [s \in SUBSET DOMAIN ops |->
                  IF s = {} THEN Start(ts) ELSE Here(iter[s \ {Max(s)}], ops[Max(s)])]
           path == [k \in 0..n |-> g[1..k]]
<1>1. n \in Nat /\ DOMAIN ops = 1..n BY LengthOfSequence
<1>2. HereFolded(ts, ops, g, 1..n)
  <2>1. \E iter : iter = [s \in SUBSET DOMAIN ops |->
                  IF s = {} THEN Start(ts) ELSE Here(iter[s \ {Max(s)}], ops[Max(s)])]
    <3>1. PICK iter : HereFolded(ts, ops, iter, 1..n)
      <4> HIDE DEF n
      <4> QED BY <1>1, HereFoldedExists
    <3>2. HereFolded(ts, ops, iter, DOMAIN ops) BY <1>1, <3>1, Zenon
    <3> QED BY <3>2, Zenon DEF HereFolded
  <2> QED BY <1>1, <2>1, Zenon DEF HereFolded
<1>3. Challenges(ts, ops) = g[DOMAIN ops]
  BY Zenon DEF Challenges, Here, Start, FoldLeft, MapThenFoldSet
<1> HIDE DEF g
<1>4. path[0] = Start(ts)
  <2>1. 1..0 = {} /\ 0 \in 0..n BY <1>1
  <2>2. g[{}] = Start(ts) BY <1>2 DEF HereFolded
  <2> QED BY <2>1, <2>2
<1>5. ASSUME NEW k \in 1..n PROVE path[k] = Here(path[k - 1], ops[k])
  <2>1. k \in Nat /\ k - 1 \in 0..n /\ k \in 0..n /\ 1..k \subseteq 1..n /\ k \in 1..k
    BY <1>1
  <2>2. (1..k) \ {k} = 1..(k - 1) BY <2>1
  <2>3. Max(1..k) = k BY <2>1, LastIsMax
  <2>4. g[1..k] = IF 1..k = {} THEN Start(ts) ELSE Here(g[(1..k) \ {Max(1..k)}], ops[Max(1..k)])
    BY <1>2, <2>1, Zenon DEF HereFolded
  <2>5. g[1..k] = Here(g[1..(k - 1)], ops[k]) BY <2>1, <2>2, <2>3, <2>4, Zenon
  <2> QED BY <2>1, <2>5
<1>6. path[n] = Challenges(ts, ops) BY <1>1, <1>3
<1>7. HerePath(ts, ops, path) BY <1>4, <1>5 DEF HerePath
<1> QED BY <1>6, <1>7

(* The transcript is the one after the operations. *)
LEMMA ChallengesGoAlong ==
  ASSUME NEW ts, NEW ops, IsSeq(ops)
  PROVE  Challenges(ts, ops).ts = After(ts, ops)
<1>1. Len(ops) \in Nat BY LengthOfSequence
<1>2. PICK path : Path(ts, ops, path) /\ After(ts, ops) = path[Len(ops)] BY AfterIsPath
<1>3. PICK run : HerePath(ts, ops, run) /\ Challenges(ts, ops) = run[Len(ops)]
  BY ChallengesIsPath
<1> DEFINE n == Len(ops)
           S == {k \in Nat : k \in 0..n => run[k].ts = path[k]}
<1>4. 0 \in S
  <2>1. run[0].ts = path[0] BY <1>2, <1>3 DEF Path, HerePath, Start
  <2> QED BY <2>1
<1>5. ASSUME NEW k \in Nat, k \in S PROVE k + 1 \in S
  <2> SUFFICES ASSUME k + 1 \in 0..n PROVE run[k + 1].ts = path[k + 1] OBVIOUS
  <2>1. k \in 0..n /\ k + 1 \in 1..n /\ (k + 1) - 1 = k BY <1>1
  <2>2. path[k + 1] = Do(path[k], ops[k + 1]) BY <1>2, <2>1, Zenon DEF Path
  <2>3. run[k + 1] = Here(run[k], ops[k + 1]) BY <1>3, <2>1, Zenon DEF HerePath
  <2>4. run[k + 1].ts = Do(run[k].ts, ops[k + 1]) BY <2>3 DEF Here
  <2>5. run[k].ts = path[k] BY <1>5, <2>1
  <2> QED BY <2>2, <2>4, <2>5
<1>6. \A k \in Nat : k \in S
  <2> HIDE DEF S
  <2> QED BY <1>4, <1>5, Induction
<1>7. n \in S /\ n \in 0..n BY <1>1, <1>6
<1> QED BY <1>2, <1>3, <1>7

(* The challenges of an answer are drawn one after the other: when the     *)
(* last operation is a draw, it finds everything that was written.         *)
THEOREM LastDrawIsLast ==
  ASSUME NEW ts, NEW ops, IsSeq(ops), Len(ops) > 0, ops[Len(ops)].op = "draw"
  PROVE  LET a == Answers(ts, ops)
         IN  /\ a.log = After(ts, ops).log
             /\ a.at[Len(a.at)][1] = Len(a.log)
<1>1. Len(ops) \in Nat BY LengthOfSequence
<1>2. PICK run : HerePath(ts, ops, run) /\ Challenges(ts, ops) = run[Len(ops)]
  BY ChallengesIsPath
<1> DEFINE n == Len(ops)
           S == {k \in Nat : k \in 0..n => IsSeq(run[k].at)}
<1>3. 0 \in S
  <2>1. run[0].at = <<>> BY <1>2 DEF HerePath, Start
  <2>2. <<>> \in Seq({}) OBVIOUS
  <2> QED BY <2>1, <2>2 DEF IsSeq
<1>4. ASSUME NEW k \in Nat, k \in S PROVE k + 1 \in S
  <2> SUFFICES ASSUME k + 1 \in 0..n PROVE IsSeq(run[k + 1].at) OBVIOUS
  <2>1. k \in 0..n /\ k + 1 \in 1..n /\ (k + 1) - 1 = k BY <1>1
  <2>2. run[k + 1] = Here(run[k], ops[k + 1]) BY <1>2, <2>1, Zenon DEF HerePath
  <2>3. \/ run[k + 1].at = run[k].at
        \/ \E e : run[k + 1].at = Append(run[k].at, e)
    BY <2>2 DEF Here
  <2>4. IsSeq(run[k].at) BY <1>4, <2>1
  <2>5. CASE run[k + 1].at = run[k].at BY <2>4, <2>5
  <2>6. ASSUME NEW e, run[k + 1].at = Append(run[k].at, e) PROVE IsSeq(run[k + 1].at)
    <3> DEFINE old == run[k].at
    <3>1. IsSeq(old) /\ run[k + 1].at = Append(old, e) BY <2>4, <2>6
    <3> HIDE DEF old
    <3> QED BY <3>1, OneMore
  <2> QED BY <2>3, <2>5, <2>6
<1>5. \A k \in Nat : k \in S
  <2> HIDE DEF S
  <2> QED BY <1>3, <1>4, Induction
<1>6. n - 1 \in Nat /\ n - 1 \in 0..n /\ n \in 1..n BY <1>1
<1>7. IsSeq(run[n - 1].at) BY <1>5, <1>6
<1> DEFINE before == run[n - 1]   o == ops[n]
           place == <<Len(before.ts.log), before.ts.pos, o.n>>
<1>8. run[n] = Here(before, o) BY <1>2, <1>6, Zenon DEF HerePath
<1>9. run[n].at = Append(before.at, place) /\ run[n].ts.log = before.ts.log
  <2>1. o.op = "draw" OBVIOUS
  <2> HIDE DEF before, o, place, n
  <2>2. Do(before.ts, o).log = before.ts.log BY <2>1 DEF Do
  <2>3. Here(before, o) = [ts |-> Do(before.ts, o), at |-> Append(before.at, place)]
    BY <2>1, Zenon DEF Here, place
  <2> QED BY <1>8, <2>2, <2>3
<1>10. place[1] = Len(before.ts.log) OBVIOUS
<1>11. IsSeq(before.at) BY <1>7
<1>12. Challenges(ts, ops).ts = After(ts, ops) BY ChallengesGoAlong
<1>13. /\ Answers(ts, ops).log = run[n].ts.log /\ Answers(ts, ops).at = run[n].at
       /\ Answers(ts, ops).log = After(ts, ops).log
  BY <1>2, <1>12 DEF Answers
<1> HIDE DEF before, place
<1>14. Len(run[n].at) = Len(before.at) + 1 /\ run[n].at[Len(before.at) + 1] = place
  BY <1>9, <1>11, OneMore
<1> QED BY <1>9, <1>10, <1>13, <1>14

-----------------------------------------------------------------------------
(* What is written, and what was *)
Writes(ops, what, val) ==
  \E i \in 1..Len(ops) : ops[i].op = "write" /\ ops[i].what = what /\ ops[i].val = val

Logged(log, what, val) == \E k \in 1..Len(log) : log[k].what = what /\ log[k].val = val

(* The log only grows, and has all that was written.                       *)
LEMMA LogGrows ==
  ASSUME NEW ts, IsSeq(ts.log), NEW ops, IsSeq(ops)
  PROVE  /\ IsSeq(After(ts, ops).log)
         /\ \A what, val : Logged(ts.log, what, val) => Logged(After(ts, ops).log, what, val)
         /\ \A what, val : Writes(ops, what, val) => Logged(After(ts, ops).log, what, val)
<1> DEFINE log == After(ts, ops).log   l == ts.log
<1>1. /\ IsSeq(log) /\ Len(l) <= Len(log)
      /\ \A j \in 1..Len(l) : log[j] = l[j]
      /\ \A i \in 1..Len(ops) : ops[i].op = "write" =>
           \E j \in 1..Len(log) : log[j].what = ops[i].what /\ log[j].val = ops[i].val
  <2>1. Grown(log, l, ops) BY AfterKeepsAndAdds
  <2> HIDE DEF log, l
  <2> QED BY <2>1 DEF Grown
<1>2. Len(l) \in Nat /\ Len(log) \in Nat BY <1>1, LengthOfSequence
<1>3. \A j \in 1..Len(l) : j \in 1..Len(log)
  <2> HIDE DEF l, log
  <2> QED BY <1>1, <1>2
<1> HIDE DEF l, log
<1>4. \A what, val : Logged(l, what, val) => Logged(log, what, val)
  BY <1>1, <1>3 DEF Logged
<1>5. \A what, val : Writes(ops, what, val) => Logged(log, what, val)
  <2> SUFFICES ASSUME NEW what, NEW val, Writes(ops, what, val) PROVE Logged(log, what, val)
    OBVIOUS
  <2>1. PICK i \in 1..Len(ops) : ops[i].op = "write" /\ ops[i].what = what /\ ops[i].val = val
    BY DEF Writes
  <2>2. PICK j \in 1..Len(log) : log[j].what = ops[i].what /\ log[j].val = ops[i].val
    BY <1>1, <2>1
  <2> QED BY <2>1, <2>2 DEF Logged
<1> QED BY <1>1, <1>4, <1>5 DEF l, log

(* A concatenation writes what its parts write.                            *)
LEMMA WritesOfConcatenation ==
  ASSUME NEW s, IsSeq(s), NEW t, IsSeq(t)
  PROVE  \A what, val : Writes(s, what, val) \/ Writes(t, what, val) => Writes(s \o t, what, val)
<1>1. /\ Len(s \o t) = Len(s) + Len(t)
      /\ \A k \in 1..Len(s) : (s \o t)[k] = s[k]
      /\ \A k \in 1..Len(t) : (s \o t)[Len(s) + k] = t[k]
  BY Concatenation
<1>2. Len(s) \in Nat /\ Len(t) \in Nat BY LengthOfSequence
<1> DEFINE u == s \o t
<1>3. /\ Len(u) = Len(s) + Len(t)
      /\ \A k \in 1..Len(s) : u[k] = s[k]
      /\ \A k \in 1..Len(t) : u[Len(s) + k] = t[k]
  BY <1>1
<1> HIDE DEF u
<1>4. \A k \in 1..Len(s) : k \in 1..Len(u) BY <1>2, <1>3
<1>5. \A k \in 1..Len(t) : Len(s) + k \in 1..Len(u) BY <1>2, <1>3
<1>6. ASSUME NEW what, NEW val, Writes(s, what, val) PROVE Writes(u, what, val)
  <2>1. PICK i \in 1..Len(s) : s[i].op = "write" /\ s[i].what = what /\ s[i].val = val
    BY <1>6 DEF Writes
  <2>2. i \in 1..Len(u) /\ u[i] = s[i] BY <1>3, <1>4
  <2> QED BY <2>1, <2>2 DEF Writes
<1>7. ASSUME NEW what, NEW val, Writes(t, what, val) PROVE Writes(u, what, val)
  <2>1. PICK i \in 1..Len(t) : t[i].op = "write" /\ t[i].what = what /\ t[i].val = val
    BY <1>7 DEF Writes
  <2>2. Len(s) + i \in 1..Len(u) /\ u[Len(s) + i] = t[i] BY <1>3, <1>5
  <2> QED BY <2>1, <2>2 DEF Writes
<1> QED BY <1>6, <1>7 DEF u

(* So does a flattened sequence of sequences.                              *)
LEMMA WritesOfFlattening ==
  ASSUME NEW ss, IsSeq(ss), \A i \in 1..Len(ss) : IsSeq(ss[i])
  PROVE  /\ IsSeq(FlattenSeq(ss))
         /\ \A what, val : \A i \in 1..Len(ss) :
              Writes(ss[i], what, val) => Writes(FlattenSeq(ss), what, val)
<1> DEFINE f == FlattenSeq(ss)
<1>1. /\ IsSeq(f)
      /\ \A i \in 1..Len(ss) : \A k \in 1..Len(ss[i]) :
           \E j \in 1..Len(f) : f[j] = ss[i][k]
  BY Flattening
<1> HIDE DEF f
<1>2. \A what, val : \A i \in 1..Len(ss) : Writes(ss[i], what, val) => Writes(f, what, val)
  <2> SUFFICES ASSUME NEW what, NEW val, NEW i \in 1..Len(ss), Writes(ss[i], what, val) PROVE Writes(f, what, val)
    OBVIOUS
  <2>1. PICK k \in 1..Len(ss[i]) : ss[i][k].op = "write" /\ ss[i][k].what = what /\ ss[i][k].val = val
    BY DEF Writes
  <2>2. PICK j \in 1..Len(f) : f[j] = ss[i][k] BY <1>1, <2>1, Zenon
  <2> QED BY <2>1, <2>2 DEF Writes
<1> QED BY <1>1, <1>2 DEF f

-----------------------------------------------------------------------------
(* The methods *)
LEMMA ShortSequences ==
  /\ IsSeq(<<>>)
  /\ \A a : IsSeq(<<a>>) /\ Len(<<a>>) = 1
  /\ \A a, b : IsSeq(<<a, b>>) /\ Len(<<a, b>>) = 2
  /\ \A a, b, c : IsSeq(<<a, b, c>>) /\ Len(<<a, b, c>>) = 3
  /\ \A a, b, c, d : IsSeq(<<a, b, c, d>>) /\ Len(<<a, b, c, d>>) = 4
<1>1. <<>> \in Seq({}) OBVIOUS
<1>2. ASSUME NEW a PROVE <<a>> \in Seq({a}) /\ Len(<<a>>) = 1 OBVIOUS
<1>3. ASSUME NEW a, NEW b PROVE <<a, b>> \in Seq({a, b}) /\ Len(<<a, b>>) = 2 OBVIOUS
<1>4. ASSUME NEW a, NEW b, NEW c
      PROVE  <<a, b, c>> \in Seq({a, b, c}) /\ Len(<<a, b, c>>) = 3
  OBVIOUS
<1>5. ASSUME NEW a, NEW b, NEW c, NEW d
      PROVE  <<a, b, c, d>> \in Seq({a, b, c, d}) /\ Len(<<a, b, c, d>>) = 4
  OBVIOUS
<1> QED BY <1>1, <1>2, <1>3, <1>4, <1>5 DEF IsSeq

(* initialize_sumcheck_fiat_shamir writes the public inputs.               *)
LEMMA StatementWrites ==
  ASSUME NEW c, NEW id, NEW says
  PROVE  /\ IsSeq(InitializeSumcheck(c, id, says))
         /\ Writes(InitializeSumcheck(c, id, says), "pub", says)
<1>1. IsSeq(InitializeSumcheck(c, id, says)) /\ Len(InitializeSumcheck(c, id, says)) = 4
  BY ShortSequences, Zenon DEF InitializeSumcheck
<1>2. InitializeSumcheck(c, id, says)[2] = Put("pub", says) BY DEF InitializeSumcheck
<1>3. 2 \in 1..4 OBVIOUS
<1>4. Put("pub", says).op = "write" /\ Put("pub", says).what = "pub" /\ Put("pub", says).val = says
  BY DEF Put
<1> HIDE DEF Writes
<1>5. Writes(InitializeSumcheck(c, id, says), "pub", says)
  BY <1>1, <1>2, <1>3, <1>4, Zenon DEF Writes
<1> QED BY <1>1, <1>5

(* The commitment writes the root.                                         *)
LEMMA CommitmentWrites ==
  ASSUME NEW root
  PROVE  IsSeq(WriteCommitment(root)) /\ Writes(WriteCommitment(root), "root", root)
<1>1. IsSeq(WriteCommitment(root)) /\ Len(WriteCommitment(root)) = 1
  BY ShortSequences, Zenon DEF WriteCommitment
<1>2. WriteCommitment(root)[1] = Put("root", root) BY DEF WriteCommitment
<1>3. Put("root", root).op = "write" /\ Put("root", root).what = "root"
      /\ Put("root", root).val = root
  BY DEF Put
<1>4. 1 \in 1..1 OBVIOUS
<1> QED BY <1>1, <1>2, <1>3, <1>4, Zenon DEF Writes

Rounds(n, poly) == FlattenSeq([k \in 1..n |-> Round(poly)])

(* The rounds of a layer write its polynomials.                            *)
LEMMA RoundsWrite ==
  ASSUME NEW n \in Nat, NEW poly
  PROVE  IsSeq(Rounds(n, poly)) /\ (n > 0 => Writes(Rounds(n, poly), "p2", poly))
<1> DEFINE ss == [k \in 1..n |-> Round(poly)]
<1>1. IsSeq(ss) /\ Len(ss) = n
  <2>1. ss = [k \in 1..n |-> ss[k]] OBVIOUS
  <2> HIDE DEF ss
  <2> QED BY <2>1, SequenceOfLength
<1>2. IsSeq(Round(poly)) /\ Writes(Round(poly), "p2", poly)
  <2>1. IsSeq(Round(poly)) /\ Len(Round(poly)) = 3 BY ShortSequences, Zenon DEF Round
  <2>2. Round(poly)[2] = Put("p2", poly) BY DEF Round
  <2>3. Put("p2", poly).op = "write" /\ Put("p2", poly).what = "p2" /\ Put("p2", poly).val = poly
    BY DEF Put
  <2>4. 2 \in 1..3 OBVIOUS
  <2> QED BY <2>1, <2>2, <2>3, <2>4, Zenon DEF Writes
<1>3. \A i \in 1..n : ss[i] = Round(poly) OBVIOUS
<1>4. Rounds(n, poly) = FlattenSeq(ss) BY DEF Rounds
<1> HIDE DEF ss
<1>5. \A i \in 1..Len(ss) : IsSeq(ss[i]) BY <1>1, <1>2, <1>3
<1>6. /\ IsSeq(FlattenSeq(ss))
      /\ \A what, val : \A i \in 1..Len(ss) :
           Writes(ss[i], what, val) => Writes(FlattenSeq(ss), what, val)
  BY <1>1, <1>5, WritesOfFlattening
<1>7. n > 0 => 1 \in 1..n OBVIOUS
<1>8. n > 0 => Writes(FlattenSeq(ss), "p2", poly) BY <1>1, <1>2, <1>3, <1>6, <1>7, Zenon
<1> QED BY <1>4, <1>6, <1>8

(* One layer of the replay *)
ReplayLayer(n, pr) == BeginLayer \o Rounds(n, pr.poly) \o WriteClaims(pr.wc)

(* A layer writes its polynomials and its claims.                          *)
LEMMA ReplayLayerWrites ==
  ASSUME NEW n \in Nat, NEW pr
  PROVE  /\ IsSeq(ReplayLayer(n, pr)) /\ Writes(ReplayLayer(n, pr), "wc", pr.wc)
         /\ n > 0 => Writes(ReplayLayer(n, pr), "p2", pr.poly)
<1> DEFINE a == BeginLayer   b == Rounds(n, pr.poly)   c == WriteClaims(pr.wc)
<1>1. IsSeq(a) BY ShortSequences, Zenon DEF BeginLayer
<1>2. IsSeq(b) /\ (n > 0 => Writes(b, "p2", pr.poly)) BY RoundsWrite
<1>3. IsSeq(c) /\ Writes(c, "wc", pr.wc)
  <2>1. IsSeq(c) /\ Len(c) = 1 BY ShortSequences, Zenon DEF WriteClaims
  <2>2. c[1] = Put("wc", pr.wc) BY DEF WriteClaims
  <2>3. Put("wc", pr.wc).op = "write" /\ Put("wc", pr.wc).what = "wc"
        /\ Put("wc", pr.wc).val = pr.wc
    BY DEF Put
  <2>4. 1 \in 1..1 OBVIOUS
  <2> HIDE DEF c
  <2> QED BY <2>1, <2>2, <2>3, <2>4, Zenon DEF Writes
<1>4. ReplayLayer(n, pr) = (a \o b) \o c BY DEF ReplayLayer
<1> HIDE DEF a, b, c
<1>5. IsSeq(a \o b) BY <1>1, <1>2, Concatenation
<1>6. n > 0 => Writes(a \o b, "p2", pr.poly) BY <1>1, <1>2, WritesOfConcatenation
<1>7. IsSeq((a \o b) \o c) BY <1>3, <1>5, Concatenation
<1>8. \A what, val : Writes(a \o b, what, val) \/ Writes(c, what, val)
                       => Writes((a \o b) \o c, what, val)
  BY <1>3, <1>5, WritesOfConcatenation
<1> QED BY <1>3, <1>4, <1>6, <1>7, <1>8

(* Circuits have a layer with a round. *)
HasRound(c) ==
  /\ Len(Logw[c]) \in Nat /\ DOMAIN Logw[c] = 1..Len(Logw[c])
  /\ \A ly \in DOMAIN Logw[c] : Logw[c][ly] \in Nat
  /\ \E ly \in DOMAIN Logw[c] : Logw[c][ly] > 0

Layers(c, pr) == [ly \in 1..NL(c) |-> ReplayLayer(2 * Logw[c][ly], pr)]

(* The layers of a circuit are sequences of operations, one for each       *)
(* layer.                                                                  *)
LEMMA LayersAreSequences ==
  ASSUME NEW c, HasRound(c), NEW pr
  PROVE  /\ IsSeq(Layers(c, pr)) /\ Len(Layers(c, pr)) = NL(c)
         /\ \A ly \in 1..NL(c) : Layers(c, pr)[ly] = ReplayLayer(2 * Logw[c][ly], pr)
         /\ \A ly \in 1..NL(c) : 2 * Logw[c][ly] \in Nat
<1>1. NL(c) \in Nat /\ DOMAIN Logw[c] = 1..NL(c) /\ \A ly \in 1..NL(c) : Logw[c][ly] \in Nat
  BY DEF HasRound, NL
<1>2. Layers(c, pr) = [ly \in 1..NL(c) |-> Layers(c, pr)[ly]] BY DEF Layers
<1>3. \A ly \in 1..NL(c) : Layers(c, pr)[ly] = ReplayLayer(2 * Logw[c][ly], pr) BY DEF Layers
<1>4. \A ly \in 1..NL(c) : 2 * Logw[c][ly] \in Nat BY <1>1
<1> QED BY <1>1, <1>2, <1>3, <1>4, SequenceOfLength

(* Replaying a circuit is beginning it and replaying its layers.           *)
LEMMA ReplayIsOfLayers ==
  ASSUME NEW c, NEW pr
  PROVE  ReplayLayers(c, pr) = BeginCircuit \o FlattenSeq(Layers(c, pr))
BY Zenon DEF ReplayLayers, Layers, ReplayLayer, Rounds

(* A circuit with a round writes its polynomials and its claims.           *)
LEMMA ReplayWrites ==
  ASSUME NEW c, HasRound(c), NEW pr
  PROVE  /\ IsSeq(ReplayLayers(c, pr))
         /\ Writes(ReplayLayers(c, pr), "p2", pr.poly)
         /\ Writes(ReplayLayers(c, pr), "wc", pr.wc)
<1> DEFINE ss == Layers(c, pr)
<1>1. /\ IsSeq(ss) /\ Len(ss) = NL(c)
      /\ \A ly \in 1..NL(c) : ss[ly] = ReplayLayer(2 * Logw[c][ly], pr)
      /\ \A ly \in 1..NL(c) : 2 * Logw[c][ly] \in Nat
  BY LayersAreSequences
<1>2. PICK ly \in 1..NL(c) : 2 * Logw[c][ly] > 0
  BY SMT DEF HasRound, NL
<1> HIDE DEF ss
<1>3. \A k \in 1..Len(ss) : IsSeq(ss[k]) BY <1>1, ReplayLayerWrites
<1>4. Writes(ss[ly], "p2", pr.poly) /\ Writes(ss[ly], "wc", pr.wc)
  BY <1>1, <1>2, ReplayLayerWrites
<1>5. /\ IsSeq(FlattenSeq(ss))
      /\ \A what, val : \A i \in 1..Len(ss) :
           Writes(ss[i], what, val) => Writes(FlattenSeq(ss), what, val)
  BY <1>1, <1>3, WritesOfFlattening
<1>6. Writes(FlattenSeq(ss), "p2", pr.poly) /\ Writes(FlattenSeq(ss), "wc", pr.wc)
  BY <1>1, <1>4, <1>5, Zenon
<1>7. IsSeq(BeginCircuit) BY ShortSequences, Zenon DEF BeginCircuit
<1> DEFINE f == FlattenSeq(ss)   b == BeginCircuit
<1>8. ReplayLayers(c, pr) = b \o f BY ReplayIsOfLayers DEF ss
<1>9. IsSeq(f) /\ IsSeq(b) /\ Writes(f, "p2", pr.poly) /\ Writes(f, "wc", pr.wc)
  BY <1>5, <1>6, <1>7
<1> HIDE DEF f, b
<1>10. IsSeq(b \o f) BY <1>9, Concatenation
<1>11. Writes(b \o f, "p2", pr.poly) /\ Writes(b \o f, "wc", pr.wc)
  BY <1>9, WritesOfConcatenation
<1> QED BY <1>8, <1>10, <1>11

(* One challenge more, with the bindings of the inputs *)
LEMMA ConstraintsWrite ==
  ASSUME NEW c, HasRound(c), NEW pr
  PROVE  /\ IsSeq(VerifierConstraints(c, pr))
         /\ Writes(VerifierConstraints(c, pr), "p2", pr.poly)
         /\ Writes(VerifierConstraints(c, pr), "wc", pr.wc)
<1>1. /\ IsSeq(ReplayLayers(c, pr))
      /\ Writes(ReplayLayers(c, pr), "p2", pr.poly)
      /\ Writes(ReplayLayers(c, pr), "wc", pr.wc)
  BY ReplayWrites
<1>2. IsSeq(InputBinding) BY ShortSequences, Zenon DEF InputBinding
<1> DEFINE a == ReplayLayers(c, pr)   b == InputBinding
<1>3. VerifierConstraints(c, pr) = a \o b BY DEF VerifierConstraints
<1>4. IsSeq(a) /\ IsSeq(b) /\ Writes(a, "p2", pr.poly) /\ Writes(a, "wc", pr.wc) BY <1>1, <1>2
<1> HIDE DEF a, b
<1>5. IsSeq(a \o b) BY <1>4, Concatenation
<1>6. Writes(a \o b, "p2", pr.poly) /\ Writes(a \o b, "wc", pr.wc)
  BY <1>4, WritesOfConcatenation
<1> QED BY <1>3, <1>5, <1>6

(* The prover of the layers says and draws what the replay does. *)
THEOREM ProverReplays ==
  ASSUME NEW c, HasRound(c), NEW pr
  PROVE  ProverLayers(c, pr) = ReplayLayers(c, pr)
<1> DEFINE ss == [ly \in 1..NL(c) |-> <<Draw(1), Draw(1)>> \o ProverLayer(Logw[c][ly], pr)]
<1>1. \A ly \in 1..NL(c) : 2 * Logw[c][ly] \in Nat BY LayersAreSequences
<1>2. ASSUME NEW ly \in 1..NL(c)
      PROVE  ss[ly] = ReplayLayer(2 * Logw[c][ly], pr)
  <2> DEFINE a == BeginLayer   b == Rounds(2 * Logw[c][ly], pr.poly)   w == WriteClaims(pr.wc)
  <2>1. IsSeq(a) BY ShortSequences, Zenon DEF BeginLayer
  <2>2. IsSeq(b) BY <1>1, RoundsWrite
  <2>3. IsSeq(w) BY ShortSequences, Zenon DEF WriteClaims
  <2>4. ss[ly] = a \o (b \o w) BY Zenon DEF BeginLayer, ProverLayer, Rounds
  <2>5. ReplayLayer(2 * Logw[c][ly], pr) = (a \o b) \o w BY DEF ReplayLayer
  <2> HIDE DEF a, b, w, ss
  <2>6. (a \o b) \o w = a \o (b \o w) BY <2>1, <2>2, <2>3, ConcatenationIsAssociative
  <2> QED BY <2>4, <2>5, <2>6
<1>3. ss = Layers(c, pr)
  <2>1. ss = [ly \in 1..NL(c) |-> ss[ly]] OBVIOUS
  <2>2. Layers(c, pr) = [ly \in 1..NL(c) |-> Layers(c, pr)[ly]] BY DEF Layers
  <2>3. \A ly \in 1..NL(c) : Layers(c, pr)[ly] = ReplayLayer(2 * Logw[c][ly], pr) BY DEF Layers
  <2> HIDE DEF ss
  <2>4. \A ly \in 1..NL(c) : ss[ly] = Layers(c, pr)[ly] BY <1>2, <2>3
  <2> QED BY <2>1, <2>2, <2>4, Zenon
<1>4. ProverLayers(c, pr) = BeginCircuit \o FlattenSeq(ss) BY Zenon DEF ProverLayers
<1> HIDE DEF ss
<1> QED BY <1>3, <1>4, ReplayIsOfLayers

(* Only the messages of a proof matter to them. *)
LEMMA MessagesDecide ==
  ASSUME NEW c, NEW pr, NEW other, pr.poly = other.poly, pr.wc = other.wc
  PROVE  /\ ReplayLayers(c, pr) = ReplayLayers(c, other)
         /\ VerifierConstraints(c, pr) = VerifierConstraints(c, other)
<1> DEFINE f(poly, wc) ==
             BeginCircuit
             \o FlattenSeq([ly \in 1..NL(c) |->
                  BeginLayer \o Rounds(2 * Logw[c][ly], poly) \o WriteClaims(wc)])
<1>1. ReplayLayers(c, pr) = f(pr.poly, pr.wc) /\ ReplayLayers(c, other) = f(other.poly, other.wc)
  BY Zenon DEF ReplayLayers, Rounds
<1> HIDE DEF f
<1>2. ReplayLayers(c, pr) = ReplayLayers(c, other) BY <1>1
<1> QED BY <1>2 DEF VerifierConstraints

-----------------------------------------------------------------------------
(* The replay at the beginning of LigeroVerifier::verify says and draws    *)
(* what LigeroProver::prove did, and ends with the draw of the columns.    *)
THEOREM LigeroReplays ==
  ASSUME NEW c, NEW req, NEW y
  PROVE  /\ LigeroReplay(c, req, y) = LigeroProve(c, req, y)
         /\ IsSeq(LigeroProve(c, req, y)) /\ Len(LigeroProve(c, req, y)) = 10
         /\ LigeroProve(c, req, y)[10].op = "draw"
         /\ \A what \in {"y_ldt", "y_dot", "y_quad_0", "y_quad_2"} :
              Writes(LigeroProve(c, req, y), what, y)
<1> DEFINE o1 == Put("hash_of_A", 0)   o2 == Draw(NwqRow(c, req))
           o3 == Draw(NumConstraints(c))   o4 == Draw(3 * NL(c))   o5 == Draw(NqTriples(c, req))
           o6 == Put("y_ldt", y)   o7 == Put("y_dot", y)
           o8 == Put("y_quad_0", y)   o9 == Put("y_quad_2", y)   o10 == Draw(req)
<1>1. LigeroProve(c, req, y) = <<o1, o2, o3, o4, o5, o6, o7, o8, o9, o10>> BY Zenon DEF LigeroProve
<1>2. LigeroReplay(c, req, y) = <<o1, o2, o3>> \o <<o4, o5>> \o <<o6, o7, o8, o9>> \o <<o10>>
  BY Zenon DEF LigeroReplay
<1>3. /\ o6.op = "write" /\ o6.what = "y_ldt" /\ o6.val = y
      /\ o7.op = "write" /\ o7.what = "y_dot" /\ o7.val = y
      /\ o8.op = "write" /\ o8.what = "y_quad_0" /\ o8.val = y
      /\ o9.op = "write" /\ o9.what = "y_quad_2" /\ o9.val = y
      /\ o10.op = "draw"
  BY DEF Put, Draw
<1> HIDE DEF o1, o2, o3, o4, o5, o6, o7, o8, o9, o10
<1> DEFINE s == <<o1, o2, o3>>   t == <<o4, o5>>   u == <<o6, o7, o8, o9>>   w == <<o10>>
           st == <<o1, o2, o3, o4, o5>>   stu == <<o1, o2, o3, o4, o5, o6, o7, o8, o9>>
           all == <<o1, o2, o3, o4, o5, o6, o7, o8, o9, o10>>
<1>4. /\ st \in Seq({o1, o2, o3, o4, o5}) /\ stu \in Seq({o1, o2, o3, o4, o5, o6, o7, o8, o9})
      /\ all \in Seq({o1, o2, o3, o4, o5, o6, o7, o8, o9, o10})
  OBVIOUS
<1>5. IsSeq(s) /\ IsSeq(t) /\ IsSeq(u) /\ IsSeq(w) BY ShortSequences, Zenon
<1>6. IsSeq(st) /\ IsSeq(stu) /\ IsSeq(all) BY <1>4 DEF IsSeq
<1>7. /\ Len(s) = 3 /\ Len(t) = 2 /\ Len(u) = 4 /\ Len(w) = 1
      /\ Len(st) = 5 /\ Len(stu) = 9 /\ Len(all) = 10
  OBVIOUS
<1>8. (\A k \in 1..3 : st[k] = s[k]) /\ (\A k \in 1..2 : st[3 + k] = t[k]) OBVIOUS
<1>9. (\A k \in 1..5 : stu[k] = st[k]) /\ (\A k \in 1..4 : stu[5 + k] = u[k]) OBVIOUS
<1>10. (\A k \in 1..9 : all[k] = stu[k]) /\ (\A k \in 1..1 : all[9 + k] = w[k]) OBVIOUS
<1>11. all[6] = o6 /\ all[7] = o7 /\ all[8] = o8 /\ all[9] = o9 /\ all[10] = o10 OBVIOUS
<1>12. LigeroProve(c, req, y) = all /\ LigeroReplay(c, req, y) = ((s \o t) \o u) \o w
  BY <1>1, <1>2, Zenon
<1> HIDE DEF s, t, u, w, st, stu, all
<1>13. s \o t = st
  <2>1. Composed(st, s, t) BY <1>7, <1>8 DEF Composed
  <2> QED BY <1>5, <1>6, <2>1, ConcatenationIs
<1>14. st \o u = stu
  <2>1. Composed(stu, st, u) BY <1>7, <1>9 DEF Composed
  <2> QED BY <1>5, <1>6, <2>1, ConcatenationIs
<1>15. stu \o w = all
  <2>1. Composed(all, stu, w) BY <1>7, <1>10 DEF Composed
  <2> QED BY <1>5, <1>6, <2>1, ConcatenationIs
<1>16. \A what \in {"y_ldt", "y_dot", "y_quad_0", "y_quad_2"} : Writes(all, what, y)
  <2>1. 6 \in 1..Len(all) /\ 7 \in 1..Len(all) /\ 8 \in 1..Len(all) /\ 9 \in 1..Len(all)
    BY <1>7
  <2>2. /\ Writes(all, "y_ldt", y) /\ Writes(all, "y_dot", y)
        /\ Writes(all, "y_quad_0", y) /\ Writes(all, "y_quad_2", y)
    BY <1>3, <1>11, <2>1, Zenon DEF Writes
  <2> QED BY <2>2
<1> QED BY <1>3, <1>6, <1>7, <1>11, <1>12, <1>13, <1>14, <1>15, <1>16, Zenon

-----------------------------------------------------------------------------
(* The course of a presentment                                             *)

(* Where a call is, by what it has done *)
AfterVerifyHash == {"verify sig"}
AfterPublic == {"verify hash"} \union AfterVerifyHash
AfterReceive == {"public"} \union AfterPublic
AfterParse == {"receive"} \union AfterReceive
VerifierRuns == {"verifier", "parse"} \union AfterParse
AfterProver == {"transit"} \union VerifierRuns
AfterEvalSig == {"sumcheck sig", "ligero sig", "serialise"}
AfterEvalHash == {"sumcheck hash", "ligero hash", "prove sig"} \union AfterEvalSig
AfterMacs == {"prove hash"} \union AfterEvalHash
AfterCommitHash == {"commit sig", "macs"} \union AfterMacs
AfterWitness == {"commit hash"} \union AfterCommitHash
ProverRuns == {"arguments", "witness"} \union AfterWitness
Locations == ProverRuns \union AfterProver \union {"end"}

-----------------------------------------------------------------------------
(* What is in the variables of the wallet *)
WalletInv ==
  /\ p \in ProverCalls
  /\ IsProof(zk) /\ IsProof(sent)
  /\ pc \in AfterWitness =>
       /\ wit = [m |-> p.mdoc, ap |-> "ap"]
       /\ DOMAIN pub = Circ
       /\ DOMAIN pub["hash"] = {"attrs", "now", "macs", "av"}
       /\ pub["hash"].attrs = p.attrs /\ pub["hash"].now = p.now
  /\ pc \in AfterMacs => zk.macs.ap = "ap"
  /\ pc \in AfterEvalHash =>
       Requested(p) \subseteq ToSet(p.mdoc.attrs) /\ p.now \in p.mdoc.valid

(* Success of the wallet is the beginning of the reader. *)
HandOver ==
  /\ pc \in ProverRuns => retP = None
  /\ pc \in AfterProver => retP = "SUCCESS" /\ wit = [m |-> p.mdoc, ap |-> "ap"]
  /\ retV # None => pc = "end" /\ retP = "SUCCESS"
  /\ retP # "SUCCESS" => sent = NoProof
  /\ retP = "SUCCESS" =>
       /\ sent.macs.ap = "ap"
       /\ Requested(p) \subseteq ToSet(p.mdoc.attrs) /\ p.now \in p.mdoc.valid

(* What the reader holds once it has parsed the bytes *)
Parsed ==
  IF Aligned THEN arrived.framing = "whole" ELSE got["hash"].y = <<"misread", "hash">>

(* The part of Accept that the reader's statement rests on *)
Checked(c) ==
  /\ IsCommitment(c, got[c].root)
  /\ got[c].y = Responses(c)
  /\ Satisfied(c, VerifierPublic(c), got[c].root.w)

ReaderInv ==
  /\ DOMAIN ok = Circ
  /\ pc \in VerifierRuns =>
       v \in VerifierCalls(p) /\ IsProof(got) /\ arrived.framing \in Framings
  /\ pc \in AfterParse => Parsed
  /\ pc \in AfterPublic => Len(v.attrs) = v.circuit.n
  /\ pc \in AfterVerifyHash => (ok["hash"] => Checked("hash"))

Accepted ==
  /\ Parsed
  /\ Len(v.attrs) = v.circuit.n
  /\ \A c \in Circ : Checked(c)

IInv ==
  /\ pc \in Locations
  /\ WalletInv
  /\ HandOver
  /\ ReaderInv
  /\ retV = "SUCCESS" => Accepted

-----------------------------------------------------------------------------
(* The first failure of a list is no success, and there is none exactly if *)
(* no check of the list fails.                                             *)
LEMMA FirstFailureDecides ==
  ASSUME NEW n \in Nat, NEW checks, DOMAIN checks = 1..n,
         \A i \in 1..n : checks[i][2] \notin {"OK", "SUCCESS"}
  PROVE  /\ FirstFailure(checks) # "SUCCESS"
         /\ FirstFailure(checks) = "OK" => \A i \in 1..n : ~checks[i][1]
         /\ (\A i \in 1..n : ~checks[i][1]) => FirstFailure(checks) = "OK"
<1> DEFINE failed == {i \in DOMAIN checks : checks[i][1]}
           first == CHOOSE i \in failed : \A j \in failed : i <= j
<1>1. FirstFailure(checks) = IF failed = {} THEN "OK" ELSE checks[first][2]
  BY DEF FirstFailure
<1>2. CASE failed = {}
  <2>1. \A i \in 1..n : ~checks[i][1] BY <1>2
  <2> QED BY <1>1, <1>2, <2>1, Zenon
<1>3. CASE failed # {}
  <2>1. failed \subseteq Nat OBVIOUS
  <2>2. \E i \in failed : \A j \in failed : i <= j
    <3> HIDE DEF failed
    <3> QED BY <1>3, <2>1, LeastNumber
  <2>3. first \in failed BY <2>2, Zenon
  <2>4. first \in 1..n /\ checks[first][1] BY <2>3
  <2> HIDE DEF first, failed
  <2>5. FirstFailure(checks) = checks[first][2] BY <1>1, <1>3
  <2> QED BY <2>4, <2>5, Zenon
<1> QED BY <1>2, <1>3

(* No list of checks returns success itself. *)
LEMMA ChecksDoNotSucceed ==
  \A a : /\ ProverArguments(a) # "SUCCESS" /\ WitnessChecks(a) # "SUCCESS"
         /\ VerifierArguments(a) # "SUCCESS"
<1>1. ASSUME NEW a PROVE ProverArguments(a) # "SUCCESS"
  <2> DEFINE checks == <<
        <<a.null, "NULL_INPUT">>,
        <<a.pk = "unparsable", "INVALID_INPUT">>,
        <<~SameNamespace(a.attrs), "INVALID_INPUT">>,
        <<a.circuit.bytes = "corrupt", "CIRCUIT_PARSING_FAILURE">>,
        <<a.circuit.bytes = "no sig", "CIRCUIT_PARSING_FAILURE">>,
        <<a.circuit.bytes = "no hash", "HASH_PARSING_FAILURE">> >>
  <2>1. ProverArguments(a) = FirstFailure(checks) BY Zenon DEF ProverArguments
  <2>2. DOMAIN checks = 1..6 OBVIOUS
  <2>3. /\ checks[1][2] = "NULL_INPUT" /\ checks[2][2] = "INVALID_INPUT"
        /\ checks[3][2] = "INVALID_INPUT" /\ checks[4][2] = "CIRCUIT_PARSING_FAILURE"
        /\ checks[5][2] = "CIRCUIT_PARSING_FAILURE" /\ checks[6][2] = "HASH_PARSING_FAILURE"
    OBVIOUS
  <2> HIDE DEF checks
  <2>4. \A i \in 1..6 : checks[i][2] \notin {"OK", "SUCCESS"} BY <2>3
  <2> QED BY <2>1, <2>2, <2>4, FirstFailureDecides
<1>2. ASSUME NEW a PROVE WitnessChecks(a) # "SUCCESS"
  <2> DEFINE checks == <<
        <<TooLong(a), "ATTRIBUTE_TOO_LONG">>,
        <<~a.mdoc.parse, "PARSE_FAILURE">>,
        <<a.spec < 4, "VERSION_NOT_SUPPORTED">>,
        <<a.mdoc.big, "TAGGED_MSO_TOO_BIG">>,
        <<~Found(a), "ATTRIBUTE_NOT_FOUND">>,
        <<a.mdoc.issuer # a.pk, "SIGNATURE_FAILURE">>,
        <<a.mdoc.tr # a.tr, "DEVICE_SIGNATURE_FAILURE">>,
        <<FillerOverflows(a.circuit, Len(a.attrs), a.spec), "aborted">> >>
  <2>1. WitnessChecks(a) = FirstFailure(checks) BY Zenon DEF WitnessChecks
  <2>2. DOMAIN checks = 1..8 OBVIOUS
  <2>3. /\ checks[1][2] = "ATTRIBUTE_TOO_LONG" /\ checks[2][2] = "PARSE_FAILURE"
        /\ checks[3][2] = "VERSION_NOT_SUPPORTED" /\ checks[4][2] = "TAGGED_MSO_TOO_BIG"
        /\ checks[5][2] = "ATTRIBUTE_NOT_FOUND" /\ checks[6][2] = "SIGNATURE_FAILURE"
        /\ checks[7][2] = "DEVICE_SIGNATURE_FAILURE" /\ checks[8][2] = "aborted"
    OBVIOUS
  <2> HIDE DEF checks
  <2>4. \A i \in 1..8 : checks[i][2] \notin {"OK", "SUCCESS"} BY <2>3
  <2> QED BY <2>1, <2>2, <2>4, FirstFailureDecides
<1>3. ASSUME NEW a PROVE VerifierArguments(a) # "SUCCESS"
  <2> DEFINE checks == <<
        <<a.null, "NULL_INPUT">>,
        <<a.pk = "unparsable", "INVALID_INPUT">>,
        <<~SameNamespace(a.attrs), "INVALID_INPUT">>,
        <<\E i \in DOMAIN a.attrs : ~a.attrs[i].cbor, "INVALID_CBOR">>,
        <<a.small \/ a.attrs = <<>>, "ARGUMENTS_TOO_SMALL">>,
        <<a.circuit.bytes # "good", "CIRCUIT_PARSING_FAILURE">> >>
  <2>1. VerifierArguments(a) = FirstFailure(checks) BY Zenon DEF VerifierArguments
  <2>2. DOMAIN checks = 1..6 OBVIOUS
  <2>3. /\ checks[1][2] = "NULL_INPUT" /\ checks[2][2] = "INVALID_INPUT"
        /\ checks[3][2] = "INVALID_INPUT" /\ checks[4][2] = "INVALID_CBOR"
        /\ checks[5][2] = "ARGUMENTS_TOO_SMALL" /\ checks[6][2] = "CIRCUIT_PARSING_FAILURE"
    OBVIOUS
  <2> HIDE DEF checks
  <2>4. \A i \in 1..6 : checks[i][2] \notin {"OK", "SUCCESS"} BY <2>3
  <2> QED BY <2>1, <2>2, <2>4, FirstFailureDecides
<1> QED BY <1>1, <1>2, <1>3

(* The reader goes on exactly if the writes are as many as the circuit has *)
(* public inputs, with no attribute that is too long.                      *)
LEMMA PublicInputsDecide ==
  LET filled == IF TooLong(v) THEN 1 + Fitting(v) * AttributeInputs(v.spec)
                              ELSE NPubHash(Len(v.attrs), v.spec)
      npub == NPubHash(v.circuit.n, v.circuit.v)
  IN  /\ PublicInputsChecks(v) # "SUCCESS"
      /\ PublicInputsChecks(v) = "OK" => ~TooLong(v) /\ filled = npub
      /\ ~(filled > npub) /\ ~TooLong(v) /\ filled = npub => PublicInputsChecks(v) = "OK"
<1> DEFINE filled == IF TooLong(v) THEN 1 + Fitting(v) * AttributeInputs(v.spec)
                                   ELSE NPubHash(Len(v.attrs), v.spec)
           npub == NPubHash(v.circuit.n, v.circuit.v)
           checks == << <<filled > npub, "aborted">>,
                        <<TooLong(v), "GENERAL_FAILURE">>,
                        <<filled # npub, "ATTRIBUTE_NUMBER_MISMATCH">> >>
<1>1. PublicInputsChecks(v) = FirstFailure(checks) BY Zenon DEF PublicInputsChecks
<1> HIDE DEF filled, npub
<1>2. DOMAIN checks = 1..3 OBVIOUS
<1>3. /\ checks[1][2] = "aborted" /\ checks[2][2] = "GENERAL_FAILURE"
      /\ checks[3][2] = "ATTRIBUTE_NUMBER_MISMATCH"
  OBVIOUS
<1>4. /\ checks[1][1] <=> filled > npub
      /\ checks[2][1] <=> TooLong(v)
      /\ checks[3][1] <=> filled # npub
  OBVIOUS
<1> HIDE DEF checks
<1>5. \A i \in 1..3 : checks[i][2] \notin {"OK", "SUCCESS"} BY <1>3
<1>6. /\ FirstFailure(checks) # "SUCCESS"
      /\ FirstFailure(checks) = "OK" => \A i \in 1..3 : ~checks[i][1]
      /\ (\A i \in 1..3 : ~checks[i][1]) => FirstFailure(checks) = "OK"
  BY <1>2, <1>5, FirstFailureDecides
<1>7. 1 \in 1..3 /\ 2 \in 1..3 /\ 3 \in 1..3 OBVIOUS
<1>8. \A i \in 1..3 : i = 1 \/ i = 2 \/ i = 3 OBVIOUS
<1>9. PublicInputsChecks(v) = "OK" => ~TooLong(v) /\ filled = npub
  BY <1>1, <1>4, <1>6, <1>7, Zenon
<1>10. ~(filled > npub) /\ ~TooLong(v) /\ filled = npub => PublicInputsChecks(v) = "OK"
  <2> SUFFICES ASSUME ~(filled > npub), ~TooLong(v), filled = npub
               PROVE  PublicInputsChecks(v) = "OK"
    OBVIOUS
  <2>1. ~checks[1][1] /\ ~checks[2][1] /\ ~checks[3][1] BY <1>4, Zenon
  <2>2. \A i \in 1..3 : ~checks[i][1] BY <1>8, <2>1, Zenon
  <2> QED BY <1>1, <1>6, <2>2, Zenon
<1> QED BY <1>1, <1>6, <1>9, <1>10, Zenon DEF filled, npub

-----------------------------------------------------------------------------
(* What the hash circuit finds in the document *)
LEMMA MatchingFinds ==
  ASSUME NEW m, NEW id, Len(m.attrs) \in Nat, Matching(m, id) # 0
  PROVE  Matching(m, id) \in 1..Len(m.attrs) /\ m.attrs[Matching(m, id)][1] = id
<1> DEFINE I == {k \in 1..Len(m.attrs) : m.attrs[k][1] = id}
<1>1. Matching(m, id) = IF I # {} THEN Min(I) ELSE 0 BY Zenon DEF Matching, SelectInSeq
<1>2. I \subseteq Nat OBVIOUS
<1>3. \A k \in I : k \in 1..Len(m.attrs) /\ m.attrs[k][1] = id OBVIOUS
<1> HIDE DEF I
<1>4. I # {} /\ Matching(m, id) = Min(I) BY <1>1
<1>5. \E k \in I : \A j \in I : k <= j BY <1>2, <1>4, LeastNumber
<1>6. Min(I) \in I BY <1>5, Zenon DEF Min
<1> QED BY <1>3, <1>4, <1>6

(* A satisfied hash circuit has every requested pair in the document.      *)
LEMMA HashRelationMeans ==
  ASSUME NEW pb, NEW w, HashRelation(pb, w), IsDocument(w.m)
  PROVE  /\ {<<pb.attrs[i].id, pb.attrs[i].value>> : i \in DOMAIN pb.attrs}
              \subseteq ToSet(w.m.attrs)
         /\ pb.now \in w.m.valid
<1>1. ASSUME NEW i \in DOMAIN pb.attrs
      PROVE  <<pb.attrs[i].id, pb.attrs[i].value>> \in ToSet(w.m.attrs)
  <2> DEFINE k == Matching(w.m, pb.attrs[i].id)
  <2>1. k # 0 /\ pb.attrs[i].value = w.m.attrs[k][2] BY Zenon DEF HashRelation
  <2> USE DEF IsDocument
  <2>2. k \in 1..Len(w.m.attrs) /\ w.m.attrs[k][1] = pb.attrs[i].id
    BY <2>1, MatchingFinds
  <2> HIDE DEF k
  <2>3. w.m.attrs[k] = <<pb.attrs[i].id, pb.attrs[i].value>> BY <2>1, <2>2
  <2>4. k \in DOMAIN w.m.attrs BY <2>2
  <2> QED BY <2>3, <2>4 DEF ToSet
<1>2. pb.now \in w.m.valid BY DEF HashRelation
<1> QED BY <1>1, <1>2

(* The same number of public inputs is the same number of attributes.      *)
LEMMA PublicInputsCountAttributes ==
  ASSUME NEW n \in Nat, NEW k \in 0..MaxAttributes, NEW a \in Nat, NEW b \in Nat,
         NPubHash(n, a) = NPubHash(k, b)
  PROVE  n = k
BY DEF NPubHash, HashMacPosition, AttributeInputs, MaxAttributes

-----------------------------------------------------------------------------
(* The steps of the wallet *)

(* The prover's checks of its arguments: no session has begun.             *)
LEMMA CheckArgumentsPKeeps == IInv /\ CheckArgumentsP => IInv'
<1> SUFFICES ASSUME IInv, CheckArgumentsP PROVE IInv' OBVIOUS
<1> USE DEF AfterVerifyHash, AfterPublic, AfterReceive, AfterParse, VerifierRuns, AfterProver, AfterEvalSig, AfterEvalHash, AfterMacs, AfterCommitHash, AfterWitness, ProverRuns, Locations
<1>1. pc' \in Locations BY ChecksDoNotSucceed DEF IInv, CheckArgumentsP, ReturnP, proverVars, verifierVars
<1>2. WalletInv' BY ChecksDoNotSucceed DEF IInv, WalletInv, HandOver, IsProof, CheckArgumentsP, ReturnP, proverVars, verifierVars
<1>3. HandOver' BY ChecksDoNotSucceed, NoneAssumption DEF IInv, WalletInv, HandOver, CheckArgumentsP, ReturnP, proverVars, verifierVars
<1>4. ReaderInv' BY ChecksDoNotSucceed DEF IInv, HandOver, ReaderInv, Parsed, Aligned, Checked, IsProof, CheckArgumentsP, ReturnP, proverVars, verifierVars
<1>5. (retV = "SUCCESS" => Accepted)' BY ChecksDoNotSucceed, NoneAssumption DEF IInv, HandOver, CheckArgumentsP, ReturnP, proverVars, verifierVars
<1> QED BY <1>1, <1>2, <1>3, <1>4, <1>5 DEF IInv

(* Attributes, MSO and witnesses are filled as the statement says.         *)
LEMMA FillWitnessKeeps == IInv /\ FillWitness => IInv'
<1> SUFFICES ASSUME IInv, FillWitness PROVE IInv' OBVIOUS
<1> USE DEF AfterVerifyHash, AfterPublic, AfterReceive, AfterParse, VerifierRuns, AfterProver, AfterEvalSig, AfterEvalHash, AfterMacs, AfterCommitHash, AfterWitness, ProverRuns, Locations
<1>1. pc' \in Locations BY ChecksDoNotSucceed DEF IInv, FillWitness, ReturnP, Public, Circ, proverVars, verifierVars
<1>2. WalletInv'
  <2>1. p' = p /\ zk' = zk /\ sent' = sent BY DEF FillWitness, proverVars
  <2>2. CASE pc' = "commit hash"
    <3>1. /\ wit' = [m |-> p.mdoc, ap |-> "ap"]
          /\ pub' = [c \in Circ |->
                        Public(c, p, <<p.tr, p.mdoc.docType>>, Zero, None)]
      BY <2>2, ChecksDoNotSucceed DEF FillWitness, ReturnP
    <3>2. pub'["hash"] = [attrs |-> p.attrs, now |-> p.now, macs |-> Zero, av |-> None]
      BY <3>1 DEF Circ, Public
    <3>3. DOMAIN pub' = Circ BY <3>1
    <3>4. p \in ProverCalls /\ IsProof(zk') /\ IsProof(sent')
      BY <2>1 DEF IInv, WalletInv
    <3>5. /\ DOMAIN pub'["hash"] = {"attrs", "now", "macs", "av"}
          /\ pub'["hash"].attrs = p.attrs /\ pub'["hash"].now = p.now
      BY <3>2
    <3> QED BY <2>1, <2>2, <3>1, <3>3, <3>4, <3>5 DEF WalletInv
  <2>3. CASE pc' # "commit hash"
    <3>1. pc' = "end" BY <2>3, ChecksDoNotSucceed DEF FillWitness, ReturnP
    <3> QED BY <2>1, <3>1 DEF IInv, WalletInv, IsProof
  <2> QED BY <2>2, <2>3
<1>3. HandOver' BY ChecksDoNotSucceed, NoneAssumption DEF IInv, WalletInv, HandOver, FillWitness, ReturnP, Public, Circ, proverVars, verifierVars
<1>4. ReaderInv' BY ChecksDoNotSucceed DEF IInv, HandOver, ReaderInv, Parsed, Aligned, Checked, IsProof, FillWitness, ReturnP, Public, Circ, proverVars, verifierVars
<1>5. (retV = "SUCCESS" => Accepted)' BY ChecksDoNotSucceed, NoneAssumption DEF IInv, HandOver, FillWitness, ReturnP, Public, Circ, proverVars, verifierVars
<1> QED BY <1>1, <1>2, <1>3, <1>4, <1>5 DEF IInv

(* The first commitment is the hash circuit's.                             *)
LEMMA CommitHashKeeps == IInv /\ CommitHash => IInv'
<1> SUFFICES ASSUME IInv, CommitHash PROVE IInv' OBVIOUS
<1> USE DEF AfterVerifyHash, AfterPublic, AfterReceive, AfterParse, VerifierRuns, AfterProver, AfterEvalSig, AfterEvalHash, AfterMacs, AfterCommitHash, AfterWitness, ProverRuns, Locations
<1>1. pc' \in Locations BY DEF IInv, CommitHash, Commit, Circ, proverVars, verifierVars
<1>2. WalletInv' BY DEF IInv, WalletInv, HandOver, IsProof, CommitHash, Commit, Circ, proverVars, verifierVars
<1>3. HandOver' BY NoneAssumption DEF IInv, WalletInv, HandOver, CommitHash, Commit, Circ, proverVars, verifierVars
<1>4. ReaderInv' BY DEF IInv, HandOver, ReaderInv, Parsed, Aligned, Checked, IsProof, CommitHash, Commit, Circ, proverVars, verifierVars
<1>5. (retV = "SUCCESS" => Accepted)' BY NoneAssumption DEF IInv, HandOver, CommitHash, Commit, Circ, proverVars, verifierVars
<1> QED BY <1>1, <1>2, <1>3, <1>4, <1>5 DEF IInv

(* A commitment that cannot be made leaves no proof.                       *)
LEMMA CommitHashAbortsKeeps == IInv /\ CommitHashAborts => IInv'
<1> SUFFICES ASSUME IInv, CommitHashAborts PROVE IInv' OBVIOUS
<1> USE DEF AfterVerifyHash, AfterPublic, AfterReceive, AfterParse, VerifierRuns, AfterProver, AfterEvalSig, AfterEvalHash, AfterMacs, AfterCommitHash, AfterWitness, ProverRuns, Locations
<1>1. pc' \in Locations BY DEF IInv, CommitHashAborts, ReturnP, Circ, proverVars, verifierVars
<1>2. WalletInv' BY DEF IInv, WalletInv, HandOver, IsProof, CommitHashAborts, ReturnP, Circ, proverVars, verifierVars
<1>3. HandOver' BY NoneAssumption DEF IInv, WalletInv, HandOver, CommitHashAborts, ReturnP, Circ, proverVars, verifierVars
<1>4. ReaderInv' BY DEF IInv, HandOver, ReaderInv, Parsed, Aligned, Checked, IsProof, CommitHashAborts, ReturnP, Circ, proverVars, verifierVars
<1>5. (retV = "SUCCESS" => Accepted)' BY NoneAssumption DEF IInv, HandOver, CommitHashAborts, ReturnP, Circ, proverVars, verifierVars
<1> QED BY <1>1, <1>2, <1>3, <1>4, <1>5 DEF IInv

(* The second commitment is the signature circuit's.                       *)
LEMMA CommitSigKeeps == IInv /\ CommitSig => IInv'
<1> SUFFICES ASSUME IInv, CommitSig PROVE IInv' OBVIOUS
<1> USE DEF AfterVerifyHash, AfterPublic, AfterReceive, AfterParse, VerifierRuns, AfterProver, AfterEvalSig, AfterEvalHash, AfterMacs, AfterCommitHash, AfterWitness, ProverRuns, Locations
<1>1. pc' \in Locations BY DEF IInv, CommitSig, Commit, Circ, proverVars, verifierVars
<1>2. WalletInv' BY DEF IInv, WalletInv, HandOver, IsProof, CommitSig, Commit, Circ, proverVars, verifierVars
<1>3. HandOver' BY NoneAssumption DEF IInv, WalletInv, HandOver, CommitSig, Commit, Circ, proverVars, verifierVars
<1>4. ReaderInv' BY DEF IInv, HandOver, ReaderInv, Parsed, Aligned, Checked, IsProof, CommitSig, Commit, Circ, proverVars, verifierVars
<1>5. (retV = "SUCCESS" => Accepted)' BY NoneAssumption DEF IInv, HandOver, CommitSig, Commit, Circ, proverVars, verifierVars
<1> QED BY <1>1, <1>2, <1>3, <1>4, <1>5 DEF IInv

(* The key is drawn after both commitments, the MACs are of the committed  *)
(* values.                                                                 *)
LEMMA ComputeMacsKeeps == IInv /\ ComputeMacs => IInv'
<1> SUFFICES ASSUME IInv, ComputeMacs PROVE IInv' OBVIOUS
<1> USE DEF AfterVerifyHash, AfterPublic, AfterReceive, AfterParse, VerifierRuns, AfterProver, AfterEvalSig, AfterEvalHash, AfterMacs, AfterCommitHash, AfterWitness, ProverRuns, Locations
<1>1. pc' \in Locations BY DEF IInv, ComputeMacs, UpdateMacs, Macs, Circ, proverVars, verifierVars
<1>2. WalletInv'
  <2>1. /\ p' = p /\ sent' = sent /\ wit' = wit /\ pc = "macs" /\ pc' = "prove hash"
        /\ \E key : zk' = [zk EXCEPT !.macs = Macs(key, wit.ap, Common(wit.m))]
    BY DEF ComputeMacs
  <2>2. IsProof(zk)' /\ zk'.macs.ap = "ap"
    <3>1. DOMAIN zk = {"hash", "sig", "macs"} /\ \A c \in Circ : DOMAIN zk[c] = ProofFields
      BY DEF IInv, WalletInv, IsProof, Circ
    <3>2. PICK key : zk' = [zk EXCEPT !.macs = Macs(key, wit.ap, Common(wit.m))] BY <2>1
    <3>3. zk'.macs = Macs(key, wit.ap, Common(wit.m)) /\ DOMAIN zk' = DOMAIN zk
          /\ \A c \in Circ : zk'[c] = zk[c]
      BY <3>1, <3>2 DEF Circ
    <3>4. wit.ap = "ap"
      <4>1. pc \in AfterWitness BY <2>1
      <4>2. wit = [m |-> p.mdoc, ap |-> "ap"] BY <4>1 DEF IInv, WalletInv
      <4> QED BY <4>2
    <3>5. zk'.macs.ap = "ap" BY <3>3, <3>4 DEF Macs
    <3>6. DOMAIN zk' = Circ \union {"macs"} BY <3>1, <3>3 DEF Circ
    <3> QED BY <3>1, <3>3, <3>5, <3>6 DEF IsProof
  <2>3. /\ DOMAIN pub' = Circ /\ DOMAIN pub'["hash"] = DOMAIN pub["hash"]
        /\ pub'["hash"].attrs = pub["hash"].attrs /\ pub'["hash"].now = pub["hash"].now
    <3>1. PICK macs, key : pub' = [c \in Circ |-> UpdateMacs(c, pub[c], macs, key)]
      BY DEF ComputeMacs
    <3>2. pub'["hash"] = UpdateMacs("hash", pub["hash"], macs, key) BY <3>1 DEF Circ
    <3>3. \/ pub'["hash"] = pub["hash"]
          \/ pub'["hash"] = [pub["hash"] EXCEPT !.macs = macs, !.av = key]
      BY <3>2 DEF UpdateMacs
    <3>4. /\ DOMAIN pub["hash"] = {"attrs", "now", "macs", "av"}
      BY <2>1 DEF IInv, WalletInv
    <3>5. DOMAIN pub' = Circ BY <3>1
    <3>6. /\ DOMAIN pub'["hash"] = DOMAIN pub["hash"]
          /\ pub'["hash"].attrs = pub["hash"].attrs
          /\ pub'["hash"].now = pub["hash"].now
      BY <3>3, <3>4
    <3> QED BY <3>5, <3>6
  <2> QED BY <2>1, <2>2, <2>3 DEF IInv, WalletInv
<1>3. HandOver' BY NoneAssumption DEF IInv, WalletInv, HandOver, ComputeMacs, UpdateMacs, Macs, Circ, proverVars, verifierVars
<1>4. ReaderInv' BY DEF IInv, HandOver, ReaderInv, Parsed, Aligned, Checked, IsProof, ComputeMacs, UpdateMacs, Macs, Circ, proverVars, verifierVars
<1>5. (retV = "SUCCESS" => Accepted)' BY NoneAssumption DEF IInv, HandOver, ComputeMacs, UpdateMacs, Macs, Circ, proverVars, verifierVars
<1> QED BY <1>1, <1>2, <1>3, <1>4, <1>5 DEF IInv

(* The hash circuit is proved first,                                       *)
LEMMA SumcheckHashKeeps == IInv /\ SumcheckHash => IInv'
<1> SUFFICES ASSUME IInv, SumcheckHash PROVE IInv' OBVIOUS
<1> USE DEF AfterVerifyHash, AfterPublic, AfterReceive, AfterParse, VerifierRuns, AfterProver, AfterEvalSig, AfterEvalHash, AfterMacs, AfterCommitHash, AfterWitness, ProverRuns, Locations
<1>1. pc' \in Locations BY DEF IInv, SumcheckHash, Sumcheck, SumcheckOf, Circ, proverVars, verifierVars
<1>2. WalletInv' BY DEF IInv, WalletInv, HandOver, IsProof, SumcheckHash, Sumcheck, SumcheckOf, Circ, proverVars, verifierVars
<1>3. HandOver' BY NoneAssumption DEF IInv, WalletInv, HandOver, SumcheckHash, Sumcheck, SumcheckOf, Circ, proverVars, verifierVars
<1>4. ReaderInv' BY DEF IInv, HandOver, ReaderInv, Parsed, Aligned, Checked, IsProof, SumcheckHash, Sumcheck, SumcheckOf, Circ, proverVars, verifierVars
<1>5. (retV = "SUCCESS" => Accepted)' BY NoneAssumption DEF IInv, HandOver, SumcheckHash, Sumcheck, SumcheckOf, Circ, proverVars, verifierVars
<1> QED BY <1>1, <1>2, <1>3, <1>4, <1>5 DEF IInv

(* then the signature circuit.                                             *)
LEMMA SumcheckSigKeeps == IInv /\ SumcheckSig => IInv'
<1> SUFFICES ASSUME IInv, SumcheckSig PROVE IInv' OBVIOUS
<1> USE DEF AfterVerifyHash, AfterPublic, AfterReceive, AfterParse, VerifierRuns, AfterProver, AfterEvalSig, AfterEvalHash, AfterMacs, AfterCommitHash, AfterWitness, ProverRuns, Locations
<1>1. pc' \in Locations BY DEF IInv, SumcheckSig, Sumcheck, SumcheckOf, Circ, proverVars, verifierVars
<1>2. WalletInv' BY DEF IInv, WalletInv, HandOver, IsProof, SumcheckSig, Sumcheck, SumcheckOf, Circ, proverVars, verifierVars
<1>3. HandOver' BY NoneAssumption DEF IInv, WalletInv, HandOver, SumcheckSig, Sumcheck, SumcheckOf, Circ, proverVars, verifierVars
<1>4. ReaderInv' BY DEF IInv, HandOver, ReaderInv, Parsed, Aligned, Checked, IsProof, SumcheckSig, Sumcheck, SumcheckOf, Circ, proverVars, verifierVars
<1>5. (retV = "SUCCESS" => Accepted)' BY NoneAssumption DEF IInv, HandOver, SumcheckSig, Sumcheck, SumcheckOf, Circ, proverVars, verifierVars
<1> QED BY <1>1, <1>2, <1>3, <1>4, <1>5 DEF IInv

(* The signature circuit is proved only if its inputs satisfy it,          *)
LEMMA EvalSigKeeps == IInv /\ EvalSig => IInv'
<1> SUFFICES ASSUME IInv, EvalSig PROVE IInv' OBVIOUS
<1> USE DEF AfterVerifyHash, AfterPublic, AfterReceive, AfterParse, VerifierRuns, AfterProver, AfterEvalSig, AfterEvalHash, AfterMacs, AfterCommitHash, AfterWitness, ProverRuns, Locations
<1>1. pc' \in Locations BY DEF IInv, EvalSig, EvalCircuit, ReturnP, Circ, proverVars, verifierVars
<1>2. WalletInv' BY DEF IInv, WalletInv, HandOver, IsProof, EvalSig, EvalCircuit, ReturnP, Circ, proverVars, verifierVars
<1>3. HandOver' BY NoneAssumption DEF IInv, WalletInv, HandOver, EvalSig, EvalCircuit, ReturnP, Circ, proverVars, verifierVars
<1>4. ReaderInv' BY DEF IInv, HandOver, ReaderInv, Parsed, Aligned, Checked, IsProof, EvalSig, EvalCircuit, ReturnP, Circ, proverVars, verifierVars
<1>5. (retV = "SUCCESS" => Accepted)' BY NoneAssumption DEF IInv, HandOver, EvalSig, EvalCircuit, ReturnP, Circ, proverVars, verifierVars
<1> QED BY <1>1, <1>2, <1>3, <1>4, <1>5 DEF IInv

(* Each Ligero proof is of its own commitment: the hash circuit's,         *)
LEMMA LigeroHashKeeps == IInv /\ LigeroHash => IInv'
<1> SUFFICES ASSUME IInv, LigeroHash PROVE IInv' OBVIOUS
<1> USE DEF AfterVerifyHash, AfterPublic, AfterReceive, AfterParse, VerifierRuns, AfterProver, AfterEvalSig, AfterEvalHash, AfterMacs, AfterCommitHash, AfterWitness, ProverRuns, Locations
<1>1. pc' \in Locations BY DEF IInv, LigeroHash, ProveLigero, Circ, proverVars, verifierVars
<1>2. WalletInv' BY DEF IInv, WalletInv, HandOver, IsProof, LigeroHash, ProveLigero, Circ, proverVars, verifierVars
<1>3. HandOver' BY NoneAssumption DEF IInv, WalletInv, HandOver, LigeroHash, ProveLigero, Circ, proverVars, verifierVars
<1>4. ReaderInv' BY DEF IInv, HandOver, ReaderInv, Parsed, Aligned, Checked, IsProof, LigeroHash, ProveLigero, Circ, proverVars, verifierVars
<1>5. (retV = "SUCCESS" => Accepted)' BY NoneAssumption DEF IInv, HandOver, LigeroHash, ProveLigero, Circ, proverVars, verifierVars
<1> QED BY <1>1, <1>2, <1>3, <1>4, <1>5 DEF IInv

(* and the signature circuit's.                                            *)
LEMMA LigeroSigKeeps == IInv /\ LigeroSig => IInv'
<1> SUFFICES ASSUME IInv, LigeroSig PROVE IInv' OBVIOUS
<1> USE DEF AfterVerifyHash, AfterPublic, AfterReceive, AfterParse, VerifierRuns, AfterProver, AfterEvalSig, AfterEvalHash, AfterMacs, AfterCommitHash, AfterWitness, ProverRuns, Locations
<1>1. pc' \in Locations BY DEF IInv, LigeroSig, ProveLigero, Circ, proverVars, verifierVars
<1>2. WalletInv' BY DEF IInv, WalletInv, HandOver, IsProof, LigeroSig, ProveLigero, Circ, proverVars, verifierVars
<1>3. HandOver' BY NoneAssumption DEF IInv, WalletInv, HandOver, LigeroSig, ProveLigero, Circ, proverVars, verifierVars
<1>4. ReaderInv' BY DEF IInv, HandOver, ReaderInv, Parsed, Aligned, Checked, IsProof, LigeroSig, ProveLigero, Circ, proverVars, verifierVars
<1>5. (retV = "SUCCESS" => Accepted)' BY NoneAssumption DEF IInv, HandOver, LigeroSig, ProveLigero, Circ, proverVars, verifierVars
<1> QED BY <1>1, <1>2, <1>3, <1>4, <1>5 DEF IInv

(* The proof that is sent is the one that was made.                        *)
LEMMA SerialiseKeeps == IInv /\ Serialise => IInv'
<1> SUFFICES ASSUME IInv, Serialise PROVE IInv' OBVIOUS
<1> USE DEF AfterVerifyHash, AfterPublic, AfterReceive, AfterParse, VerifierRuns, AfterProver, AfterEvalSig, AfterEvalHash, AfterMacs, AfterCommitHash, AfterWitness, ProverRuns, Locations
<1>1. pc' \in Locations BY DEF IInv, Serialise, ReturnP, Circ, proverVars, verifierVars
<1>2. WalletInv' BY DEF IInv, WalletInv, HandOver, IsProof, Serialise, ReturnP, Circ, proverVars, verifierVars
<1>3. HandOver' BY NoneAssumption DEF IInv, WalletInv, HandOver, Serialise, ReturnP, Circ, proverVars, verifierVars
<1>4. ReaderInv' BY DEF IInv, HandOver, ReaderInv, Parsed, Aligned, Checked, IsProof, Serialise, ReturnP, Circ, proverVars, verifierVars
<1>5. (retV = "SUCCESS" => Accepted)' BY NoneAssumption DEF IInv, HandOver, Serialise, ReturnP, Circ, proverVars, verifierVars
<1> QED BY <1>1, <1>2, <1>3, <1>4, <1>5 DEF IInv

(* and so is the hash circuit.                                             *)
LEMMA EvalHashKeeps == IInv /\ EvalHash => IInv'
<1> SUFFICES ASSUME IInv, EvalHash PROVE IInv' OBVIOUS
<1> USE DEF AfterVerifyHash, AfterPublic, AfterReceive, AfterParse, VerifierRuns, AfterProver, AfterEvalSig, AfterEvalHash, AfterMacs, AfterCommitHash, AfterWitness, ProverRuns, Locations
<1>1. pc' \in Locations BY DEF IInv, EvalHash, EvalCircuit, ReturnP, Circ, proverVars, verifierVars
<1>2. WalletInv'
  <2>1. /\ p' = p /\ sent' = sent /\ wit' = wit /\ pub' = pub /\ zk' = zk /\ pc = "prove hash"
        /\ pc' \in {"sumcheck hash", "end"}
    BY DEF EvalHash, EvalCircuit, ReturnP
  <2>2. ASSUME pc' = "sumcheck hash"
        PROVE  Requested(p) \subseteq ToSet(p.mdoc.attrs) /\ p.now \in p.mdoc.valid
    <3>1. HashRelation(pub["hash"], wit)
      BY <2>2 DEF EvalHash, EvalCircuit, ReturnP, Satisfied
    <3>2. pc \in AfterWitness BY <2>1
    <3>3. /\ wit = [m |-> p.mdoc, ap |-> "ap"] /\ p \in ProverCalls
          /\ pub["hash"].attrs = p.attrs /\ pub["hash"].now = p.now
      BY <3>2 DEF IInv, WalletInv
    <3>4. wit.m = p.mdoc BY <3>3
    <3>5. IsDocument(wit.m) BY <3>3, <3>4, CallsAssumption
    <3>6. /\ {<<pub["hash"].attrs[i].id, pub["hash"].attrs[i].value>> :
                 i \in DOMAIN pub["hash"].attrs} \subseteq ToSet(p.mdoc.attrs)
          /\ pub["hash"].now \in p.mdoc.valid
      BY <3>1, <3>4, <3>5, HashRelationMeans
    <3> QED BY <3>3, <3>6, Zenon DEF Requested
  <2> QED BY <2>1, <2>2 DEF IInv, WalletInv
<1>3. HandOver' BY NoneAssumption DEF IInv, WalletInv, HandOver, EvalHash, EvalCircuit, ReturnP, Circ, proverVars, verifierVars
<1>4. ReaderInv' BY DEF IInv, HandOver, ReaderInv, Parsed, Aligned, Checked, IsProof, EvalHash, EvalCircuit, ReturnP, Circ, proverVars, verifierVars
<1>5. (retV = "SUCCESS" => Accepted)' BY NoneAssumption DEF IInv, HandOver, EvalHash, EvalCircuit, ReturnP, Circ, proverVars, verifierVars
<1> QED BY <1>1, <1>2, <1>3, <1>4, <1>5 DEF IInv

-----------------------------------------------------------------------------
(* Transit and the steps of the reader *)

(* What arrives has the fields of a proof.                                 *)
LEMMA TransitKeeps == IInv /\ Transit => IInv'
<1> SUFFICES ASSUME IInv, Transit PROVE IInv' OBVIOUS
<1> USE DEF AfterVerifyHash, AfterPublic, AfterReceive, AfterParse, VerifierRuns, AfterProver, AfterEvalSig, AfterEvalHash, AfterMacs, AfterCommitHash, AfterWitness, ProverRuns, Locations
<1>1. pc' \in Locations BY DEF IInv, Transit
<1>2. WalletInv' BY DEF IInv, WalletInv, Transit, proverVars
<1>3. HandOver' BY DEF IInv, HandOver, Transit, proverVars
<1>4. ReaderInv'
  <2>1. v' \in VerifierCalls(p) /\ p' = p /\ ok' = ok /\ pc' = "verifier"
    BY DEF Transit, proverVars
  <2>2. PICK q : /\ q.framing \in Framings /\ IsProof(q.proof) /\ got' = q.proof
                 /\ arrived' = [framing |-> q.framing, circuit |-> q.circuit, spec |-> q.spec]
    BY Zenon DEF Transit
  <2>3. IsProof(got') /\ arrived'.framing \in Framings BY <2>2
  <2>4. DOMAIN ok = Circ BY DEF IInv, ReaderInv
  <2> QED BY <2>1, <2>3, <2>4 DEF ReaderInv, IsProof
<1>5. (retV = "SUCCESS" => Accepted)' BY NoneAssumption, ChecksDoNotSucceed DEF IInv, HandOver, Transit, proverVars
<1> QED BY <1>1, <1>2, <1>3, <1>4, <1>5 DEF IInv

(* The reader's checks of its arguments change nothing it has.             *)
LEMMA CheckArgumentsVKeeps == IInv /\ CheckArgumentsV => IInv'
<1> SUFFICES ASSUME IInv, CheckArgumentsV PROVE IInv' OBVIOUS
<1> USE DEF AfterVerifyHash, AfterPublic, AfterReceive, AfterParse, VerifierRuns, AfterProver, AfterEvalSig, AfterEvalHash, AfterMacs, AfterCommitHash, AfterWitness, ProverRuns, Locations
<1>1. pc' \in Locations BY DEF IInv, CheckArgumentsV, ReturnV
<1>2. WalletInv' BY DEF IInv, WalletInv, CheckArgumentsV, ReturnV, proverVars
<1>3. HandOver' BY DEF IInv, HandOver, CheckArgumentsV, ReturnV, proverVars
<1>4. ReaderInv' BY DEF IInv, HandOver, ReaderInv, Parsed, Aligned, Checked, IsProof, VerifierPublic, Satisfied, HashRelation, SigRelation, CheckArgumentsV, ReturnV, proverVars
<1>5. (retV = "SUCCESS" => Accepted)' BY NoneAssumption, ChecksDoNotSucceed DEF IInv, HandOver, CheckArgumentsV, ReturnV, proverVars
<1> QED BY <1>1, <1>2, <1>3, <1>4, <1>5 DEF IInv

(* What is parsed is what arrived.                                         *)
LEMMA ParseProofKeeps == IInv /\ ParseProof => IInv'
<1> SUFFICES ASSUME IInv, ParseProof PROVE IInv' OBVIOUS
<1> USE DEF AfterVerifyHash, AfterPublic, AfterReceive, AfterParse, VerifierRuns, AfterProver, AfterEvalSig, AfterEvalHash, AfterMacs, AfterCommitHash, AfterWitness, ProverRuns, Locations
<1>1. pc' \in Locations BY DEF IInv, ParseProof, ReturnV
<1>2. WalletInv' BY DEF IInv, WalletInv, ParseProof, ReturnV, proverVars
<1>3. HandOver' BY DEF IInv, HandOver, ParseProof, ReturnV, proverVars
<1>4. ReaderInv'
  <2>1. /\ pc = "parse" /\ UNCHANGED <<p, sent, v, arrived, ok>>
        /\ pc' \in {"receive", "end"}
    BY DEF ParseProof, ReturnV, proverVars
  <2>2. /\ v \in VerifierCalls(p) /\ arrived.framing \in Framings /\ IsProof(got)
        /\ DOMAIN ok = Circ
    BY <2>1 DEF IInv, ReaderInv
  <2>3. CASE pc' = "receive"
    <3>1. "OK" \in ParseErrors /\ got' = IF Aligned THEN got ELSE Misread(got)
      BY <2>3 DEF ParseProof, ReturnV
    <3>2. Aligned' = Aligned BY <2>1 DEF Aligned
    <3>3. CASE Aligned
      <4>1. arrived.framing = "whole" BY <2>2, <3>1, <3>3 DEF ParseErrors, Framings
      <4> QED BY <2>1, <2>2, <2>3, <3>1, <3>2, <3>3, <4>1 DEF ReaderInv, Parsed, Aligned, IsProof
    <3>4. CASE ~Aligned
      <4>1. got' = [got EXCEPT !["hash"].y = <<"misread", "hash">>,
                               !["sig"].y = <<"misread", "sig">>]
        BY <3>1, <3>4 DEF Misread
      <4>2. IsProof(got') /\ got'["hash"].y = <<"misread", "hash">>
        BY <2>2, <4>1 DEF IsProof, Circ, ProofFields
      <4> QED BY <2>1, <2>2, <2>3, <3>2, <3>4, <4>2 DEF ReaderInv, Parsed, Aligned, IsProof
    <3> QED BY <3>3, <3>4
  <2>4. CASE pc' = "end" BY <2>1, <2>2, <2>4 DEF ReaderInv
  <2> QED BY <2>1, <2>3, <2>4
<1>5. (retV = "SUCCESS" => Accepted)'
  <2>1. retV # "SUCCESS" BY NoneAssumption DEF IInv, HandOver, ParseProof
  <2>2. \A err \in ParseErrors : err # "SUCCESS" BY DEF ParseErrors
  <2>3. retV' = retV \/ retV' \in ParseErrors BY DEF ParseProof, ReturnV
  <2> QED BY <2>1, <2>2, <2>3
<1> QED BY <1>1, <1>2, <1>3, <1>4, <1>5 DEF IInv

(* The reader writes the commitments it received and draws its key.        *)
LEMMA ReceiveCommitmentsKeeps == IInv /\ ReceiveCommitments => IInv'
<1> SUFFICES ASSUME IInv, ReceiveCommitments PROVE IInv' OBVIOUS
<1> USE DEF AfterVerifyHash, AfterPublic, AfterReceive, AfterParse, VerifierRuns, AfterProver, AfterEvalSig, AfterEvalHash, AfterMacs, AfterCommitHash, AfterWitness, ProverRuns, Locations
<1>1. pc' \in Locations BY DEF IInv, ReceiveCommitments, Receive
<1>2. WalletInv' BY DEF IInv, WalletInv, ReceiveCommitments, Receive, proverVars
<1>3. HandOver' BY DEF IInv, HandOver, ReceiveCommitments, Receive, proverVars
<1>4. ReaderInv' BY DEF IInv, HandOver, ReaderInv, Parsed, Aligned, Checked, IsProof, VerifierPublic, Satisfied, HashRelation, SigRelation, ReceiveCommitments, Receive, proverVars
<1>5. (retV = "SUCCESS" => Accepted)' BY NoneAssumption, ChecksDoNotSucceed DEF IInv, HandOver, ReceiveCommitments, Receive, proverVars
<1> QED BY <1>1, <1>2, <1>3, <1>4, <1>5 DEF IInv

(* The public inputs are those of the reader's own statement.              *)
LEMMA FillPublicInputsKeeps == IInv /\ FillPublicInputs => IInv'
<1> SUFFICES ASSUME IInv, FillPublicInputs PROVE IInv' OBVIOUS
<1> USE DEF AfterVerifyHash, AfterPublic, AfterReceive, AfterParse, VerifierRuns, AfterProver, AfterEvalSig, AfterEvalHash, AfterMacs, AfterCommitHash, AfterWitness, ProverRuns, Locations
<1>1. pc' \in Locations BY DEF IInv, FillPublicInputs, ReturnV
<1>2. WalletInv' BY DEF IInv, WalletInv, FillPublicInputs, ReturnV, proverVars
<1>3. HandOver' BY DEF IInv, HandOver, FillPublicInputs, ReturnV, proverVars
<1>4. ReaderInv'
  <2>1. /\ pc = "public" /\ UNCHANGED <<p, sent, v, arrived, ok, got>>
        /\ pc' = "verify hash" => PublicInputsChecks(v) = "OK"
        /\ pc' \in {"verify hash", "end"}
    BY DEF FillPublicInputs, ReturnV, proverVars
  <2>2. /\ v \in VerifierCalls(p) /\ p \in ProverCalls /\ arrived.framing \in Framings
        /\ IsProof(got) /\ Parsed /\ DOMAIN ok = Circ
    BY <2>1 DEF IInv, WalletInv, ReaderInv
  <2>3. ASSUME pc' = "verify hash" PROVE Len(v.attrs) = v.circuit.n
    <3>1. NPubHash(Len(v.attrs), v.spec) = NPubHash(v.circuit.n, v.circuit.v)
      <4>1. PublicInputsChecks(v) = "OK" BY <2>1, <2>3
      <4> QED BY <4>1, PublicInputsDecide, Zenon
    <3>2. Counted(v) BY <2>2, CallsAssumption
    <3>3. /\ Len(v.attrs) \in Nat /\ v.circuit.n \in 0..MaxAttributes
          /\ v.spec \in Nat /\ v.circuit.v \in Nat
      BY <3>2 DEF Counted
    <3> QED BY <3>1, <3>3, PublicInputsCountAttributes
  <2> QED BY <2>1, <2>2, <2>3 DEF ReaderInv, Parsed, Aligned, IsProof
<1>5. (retV = "SUCCESS" => Accepted)'
  <2>1. retV # "SUCCESS" BY NoneAssumption DEF IInv, HandOver, FillPublicInputs
  <2>2. PublicInputsChecks(v) # "SUCCESS" BY PublicInputsDecide, Zenon
  <2>3. retV' = retV \/ retV' = PublicInputsChecks(v) BY DEF FillPublicInputs, ReturnV
  <2> QED BY <2>1, <2>2, <2>3
<1> QED BY <1>1, <1>2, <1>3, <1>4, <1>5 DEF IInv

(* What an accepting verifier has checked, as far as it is needed here.    *)
LEMMA AcceptChecks == \A c \in Circ : Accept(c) => Checked(c)
BY Zenon DEF Accept, Checked

(* The hash proof is checked against them,                                 *)
LEMMA VerifyHashKeeps == IInv /\ VerifyHash => IInv'
<1> SUFFICES ASSUME IInv, VerifyHash PROVE IInv' OBVIOUS
<1> USE DEF AfterVerifyHash, AfterPublic, AfterReceive, AfterParse, VerifierRuns, AfterProver, AfterEvalSig, AfterEvalHash, AfterMacs, AfterCommitHash, AfterWitness, ProverRuns, Locations
<1>1. pc' \in Locations BY DEF IInv, VerifyHash, VerifyOf
<1>2. WalletInv' BY DEF IInv, WalletInv, VerifyHash, VerifyOf, proverVars
<1>3. HandOver' BY DEF IInv, HandOver, VerifyHash, VerifyOf, proverVars
<1>4. ReaderInv'
  <2>1. /\ pc = "verify hash" /\ UNCHANGED <<p, sent, wit, v, arrived, got, av>>
        /\ ok' = [ok EXCEPT !["hash"] = Accept("hash")] /\ pc' = "verify sig"
    BY DEF VerifyHash, VerifyOf, proverVars
  <2>2. /\ v \in VerifierCalls(p) /\ arrived.framing \in Framings /\ IsProof(got)
        /\ Parsed /\ DOMAIN ok = Circ /\ Len(v.attrs) = v.circuit.n
    BY <2>1 DEF IInv, ReaderInv
  <2>3. DOMAIN ok' = Circ BY <2>1, <2>2
  <2>4. ok'["hash"] = Accept("hash")
    <3>1. "hash" \in DOMAIN ok BY <2>2 DEF Circ
    <3> HIDE DEF Accept
    <3> QED BY <2>1, <3>1, Zenon
  <2>5. ok'["hash"] => Checked("hash") BY <2>4, AcceptChecks, Zenon DEF Circ
  <2>6. Checked("hash")' = Checked("hash") BY <2>1 DEF Checked, VerifierPublic, Satisfied, HashRelation, SigRelation, Public
  <2> QED BY <2>1, <2>2, <2>3, <2>5, <2>6 DEF ReaderInv, Parsed, Aligned, IsProof
<1>5. (retV = "SUCCESS" => Accepted)' BY NoneAssumption, ChecksDoNotSucceed DEF IInv, HandOver, VerifyHash, VerifyOf, proverVars
<1> QED BY <1>1, <1>2, <1>3, <1>4, <1>5 DEF IInv

(* and the signature proof.                                                *)
LEMMA VerifySigKeeps == IInv /\ VerifySig => IInv'
<1> SUFFICES ASSUME IInv, VerifySig PROVE IInv' OBVIOUS
<1> USE DEF AfterVerifyHash, AfterPublic, AfterReceive, AfterParse, VerifierRuns, AfterProver, AfterEvalSig, AfterEvalHash, AfterMacs, AfterCommitHash, AfterWitness, ProverRuns, Locations
<1>1. pc' \in Locations BY DEF IInv, VerifySig, VerifyOf, ReturnV
<1>2. WalletInv' BY DEF IInv, WalletInv, VerifySig, VerifyOf, ReturnV, proverVars
<1>3. HandOver' BY DEF IInv, HandOver, VerifySig, VerifyOf, ReturnV, proverVars
<1>4. ReaderInv' BY DEF IInv, HandOver, ReaderInv, Parsed, Aligned, Checked, IsProof, VerifierPublic, Satisfied, HashRelation, SigRelation, VerifySig, VerifyOf, ReturnV, proverVars
<1>5. (retV = "SUCCESS" => Accepted)'
  <2>1. /\ pc = "verify sig" /\ UNCHANGED <<p, sent, wit, v, arrived, got, av>>
        /\ ok' = [ok EXCEPT !["sig"] = Accept("sig")]
        /\ retV' = IF ok'["hash"] /\ ok'["sig"] THEN "SUCCESS" ELSE "GENERAL_FAILURE"
    BY DEF VerifySig, VerifyOf, ReturnV, Verdict, proverVars
  <2>2. /\ Parsed /\ DOMAIN ok = Circ /\ Len(v.attrs) = v.circuit.n
        /\ (ok["hash"] => Checked("hash"))
    BY <2>1 DEF IInv, ReaderInv
  <2>3. ok'["sig"] = Accept("sig") /\ ok'["hash"] = ok["hash"]
    <3>1. "hash" \in DOMAIN ok /\ "sig" \in DOMAIN ok /\ "hash" # "sig" BY <2>2 DEF Circ
    <3> HIDE DEF Accept
    <3> QED BY <2>1, <3>1, Zenon
  <2>4. ok'["sig"] => Checked("sig") BY <2>3, AcceptChecks, Zenon DEF Circ
  <2>5. Checked("hash")' = Checked("hash") /\ Checked("sig")' = Checked("sig")
    BY <2>1 DEF Checked, VerifierPublic, Satisfied, HashRelation, SigRelation, Public
  <2> SUFFICES ASSUME retV' = "SUCCESS" PROVE Accepted' OBVIOUS
  <2>6. ok'["hash"] /\ ok'["sig"] BY <2>1, Zenon
  <2>7. Checked("hash") /\ Checked("sig") BY <2>2, <2>3, <2>4, <2>6, Zenon
  <2>8. \A c \in Circ : Checked(c)'
    <3>1. Checked("hash")' /\ Checked("sig")' BY <2>5, <2>7, Zenon
    <3> QED BY <3>1, Zenon DEF Circ
  <2> QED BY <2>1, <2>2, <2>8 DEF Accepted, Parsed, Aligned
<1> QED BY <1>1, <1>2, <1>3, <1>4, <1>5 DEF IInv

-----------------------------------------------------------------------------
(* IInv is inductive, and all that success means follows from it.          *)
LEMMA InitInv == Init => IInv
<1> SUFFICES ASSUME Init PROVE IInv OBVIOUS
<1> USE DEF Init, AfterVerifyHash, AfterPublic, AfterReceive, AfterParse, VerifierRuns,
            AfterProver, AfterEvalSig, AfterEvalHash, AfterMacs, AfterCommitHash,
            AfterWitness, ProverRuns, Locations
<1>1. IsProof(NoProof)
  <2>1. /\ DOMAIN NoProof = {"macs", "hash", "sig"}
        /\ DOMAIN NoProof["hash"] = ProofFields /\ DOMAIN NoProof["sig"] = ProofFields
    BY DEF NoProof, ProofFields
  <2> QED BY <2>1 DEF IsProof, Circ
<1>2. pc \in Locations OBVIOUS
<1>3. WalletInv BY <1>1 DEF WalletInv
<1>4. HandOver BY NoneAssumption DEF HandOver
<1>5. ReaderInv BY DEF ReaderInv
<1>6. retV # "SUCCESS" BY NoneAssumption
<1> QED BY <1>2, <1>3, <1>4, <1>5, <1>6 DEF IInv

(* Every step keeps the invariant.                                         *)
LEMMA NextKeepsInv == IInv /\ [Next]_vars => IInv'
<1> SUFFICES ASSUME IInv, [Next]_vars PROVE IInv' OBVIOUS
<1>1. CASE UNCHANGED vars
  BY <1>1 DEF vars, proverVars, verifierVars, IInv, WalletInv, HandOver, ReaderInv, Parsed, Aligned,
              Accepted, Checked, VerifierPublic
<1>2. CASE Next
  BY <1>2, CheckArgumentsPKeeps, FillWitnessKeeps, CommitHashKeeps, CommitHashAbortsKeeps,
     CommitSigKeeps, ComputeMacsKeeps, EvalHashKeeps, SumcheckHashKeeps, LigeroHashKeeps,
     EvalSigKeeps, SumcheckSigKeeps, LigeroSigKeeps, SerialiseKeeps, TransitKeeps,
     CheckArgumentsVKeeps, ParseProofKeeps, ReceiveCommitmentsKeeps, FillPublicInputsKeeps,
     VerifyHashKeeps, VerifySigKeeps, Zenon DEF Next
<1> QED BY <1>1, <1>2

(* A proof read with other lengths than it has, or with bytes missing or   *)
(* left over, is not accepted.                                             *)
LEMMA AcceptedIsWhole ==
  ASSUME IInv, retV = "SUCCESS"
  PROVE  arrived.framing = "whole"
<1>1. Parsed /\ Checked("hash") BY DEF IInv, Accepted, Circ
<1>2. got["hash"].y # <<"misread", "hash">> BY <1>1 DEF Checked, Responses
<1> QED BY <1>1, <1>2 DEF Parsed

(* One key and one set of MACs tie the two circuits to one document, and   *)
(* together they prove what the reader asked for.                          *)
LEMMA AcceptedWasTrue ==
  ASSUME IInv, retV = "SUCCESS"
  PROVE  AcceptedIsTrue
<1>1. Len(v.attrs) = v.circuit.n /\ Checked("hash") /\ Checked("sig")
  BY DEF IInv, Accepted, Circ
<1> DEFINE hp == VerifierPublic("hash")   sp == VerifierPublic("sig")
           hw == got["hash"].root.w   sw == got["sig"].root.w
<1>2. HashRelation(hp, hw) /\ SigRelation(sp, sw) /\ IsDocument(hw.m)
  BY <1>1, Zenon DEF Checked, Satisfied, IsCommitment
<1>3. /\ hp.attrs = v.attrs /\ hp.now = v.now /\ hp.macs = got.macs /\ hp.av = av.verifier
      /\ sp.pk = v.pk /\ sp.e2 = <<v.tr, v.docType>>
      /\ sp.macs = got.macs /\ sp.av = av.verifier
  BY DEF VerifierPublic, Public
<1> HIDE DEF hp, sp, hw, sw
<1>4. hw.m = sw.m
  <2>1. got.macs = Macs(av.verifier, hw.ap, Common(hw.m))
    BY <1>2, <1>3 DEF HashRelation
  <2>2. got.macs = Macs(av.verifier, sw.ap, Common(sw.m))
    BY <1>2, <1>3 DEF SigRelation
  <2>3. got.macs.x.e = hw.m BY <2>1 DEF Macs, Common
  <2>4. got.macs.x.e = sw.m BY <2>2 DEF Macs, Common
  <2> QED BY <2>3, <2>4
<1>5. v.pk = hw.m.issuer /\ v.tr = hw.m.tr /\ v.docType = hw.m.docType
  <2>1. sp.pk = sw.m.issuer /\ sp.e2 = <<sw.m.tr, sw.m.docType>>
    BY <1>2, Zenon DEF SigRelation
  <2> QED BY <1>3, <1>4, <2>1
<1>6. /\ {<<hp.attrs[i].id, hp.attrs[i].value>> : i \in DOMAIN hp.attrs} \subseteq ToSet(hw.m.attrs)
      /\ hp.now \in hw.m.valid
  BY <1>2, HashRelationMeans
<1>7. Requested(v) \subseteq ToSet(hw.m.attrs) /\ v.now \in hw.m.valid
  BY <1>3, <1>6, Zenon DEF Requested
<1>8. Truth(hw.m) BY <1>1, <1>5, <1>7 DEF Truth
<1> QED BY <1>4, <1>8 DEF AcceptedIsTrue, hw, sw

(* A wallet that returned success has a proof, and no other has one.       *)
LEMMA WalletHasProof == IInv => ProvedIsTrue
<1> SUFFICES ASSUME IInv PROVE ProvedIsTrue OBVIOUS
<1>1. retP = "SUCCESS" => sent.macs.ap = "ap" BY DEF IInv, HandOver
<1>2. NoProof.macs.ap = None BY DEF NoProof, Zero
<1>3. (sent # NoProof) = (retP = "SUCCESS")
  BY <1>1, <1>2, NoneAssumption DEF IInv, HandOver
<1> QED BY <1>3 DEF ProvedIsTrue, IInv, HandOver

-----------------------------------------------------------------------------
(* The transcript of the reader, from its call r and what it parsed, g     *)
Received(r, g) ==
  After(After(NewTranscript(r.tr), WriteCommitment(g["hash"].root)),
        WriteCommitment(g["sig"].root))
ReaderKey(r, g) == GenerateMacKey(Received(r, g))
ReaderPublic(c, r, g) == Public(c, r, <<r.tr, r.docType>>, g.macs, ReaderKey(r, g))

StatementAt(c, r, g, t) == After(t, InitializeSumcheck(c, r.circuit, ReaderPublic(c, r, g)))
ConstrainedAt(c, r, g, t) == After(StatementAt(c, r, g, t), VerifierConstraints(c, g[c]))
VerifiedAt(c, r, g, t) ==
  After(ConstrainedAt(c, r, g, t), LigeroReplay(c, NReq(r.spec), g[c].y))

AtHash(r, g) == After(Received(r, g), <<Draw(1)>>)
AtSig(r, g) == VerifiedAt("hash", r, g, AtHash(r, g))

(* Accept, there *)
AcceptAt(c, r, g, t) ==
  /\ IsCommitment(c, g[c].root) /\ g[c].req = Columns(c)
  /\ g[c].ligero = Answers(ConstrainedAt(c, r, g, t), LigeroReplay(c, NReq(r.spec), g[c].y))
  /\ g[c].y = Responses(c)
  /\ LET con == Answers(StatementAt(c, r, g, t), ReplayLayers(c, g[c]))
     IN g[c].sumcheck = con /\ g[c].constraints = con
  /\ g[c].poly = Polys(c).poly /\ g[c].wc = Polys(c).wc
  /\ Satisfied(c, ReaderPublic(c, r, g), g[c].root.w)

BothAccepted(r, g) ==
  AcceptAt("hash", r, g, AtHash(r, g)) /\ AcceptAt("sig", r, g, AtSig(r, g))

(* Why a reader says no *)
Refused ==
  \/ VerifierArguments(v) # "OK"
  \/ ParseErrors # {"OK"}
  \/ PublicInputsChecks(v) # "OK" \/ ~BothAccepted(v, got)

ReaderTranscript ==
  /\ DOMAIN ok = Circ /\ DOMAIN av = {"prover", "verifier"}
  /\ pc \in AfterReceive => av.verifier = ReaderKey(v, got)
  /\ pc \in {"public", "verify hash"} => tv = AtHash(v, got)
  /\ pc = "verify sig" =>
       /\ tv = AtSig(v, got)
       /\ ok["hash"] <=> AcceptAt("hash", v, got, AtHash(v, got))
  /\ retV # None => pc = "end"
  /\ retV = "SUCCESS" => av.verifier = ReaderKey(v, got) /\ BothAccepted(v, got)
  /\ retV # None /\ retV # "SUCCESS" => Refused

(* With the key drawn, the verdict on a circuit depends on the statement,  *)
(* the proof and the transcript it started with.                           *)
LEMMA AcceptIsThere ==
  ASSUME av.verifier = ReaderKey(v, got)
  PROVE  \A c : /\ Accept(c) <=> AcceptAt(c, v, got, tv)
                /\ After(Constrained(c), LigeroReplay(c, NReq(v.spec), got[c].y))
                     = VerifiedAt(c, v, got, tv)
<1> SUFFICES ASSUME NEW c
             PROVE  /\ Accept(c) <=> AcceptAt(c, v, got, tv)
                    /\ After(Constrained(c), LigeroReplay(c, NReq(v.spec), got[c].y))
                         = VerifiedAt(c, v, got, tv)
  OBVIOUS
<1>1. VerifierPublic(c) = ReaderPublic(c, v, got) BY Zenon DEF VerifierPublic, ReaderPublic
<1>2. Statement(c) = StatementAt(c, v, got, tv) BY <1>1, Zenon DEF Statement, StatementAt
<1>3. Constrained(c) = ConstrainedAt(c, v, got, tv)
  BY <1>2, Zenon DEF Constrained, ConstrainedAt
<1>4. Accept(c) <=> AcceptAt(c, v, got, tv)
  BY <1>1, <1>2, <1>3, Zenon DEF Accept, AcceptAt
<1> QED BY <1>3, <1>4, Zenon DEF VerifiedAt

(* The reader starts with an empty transcript.                             *)
LEMMA InitReaderTranscript == Init => ReaderTranscript
BY NoneAssumption DEF Init, ReaderTranscript, AfterVerifyHash, AfterPublic, AfterReceive, AfterParse

(* The wallet's part of the session *)
WalletSteps ==
  \/ CheckArgumentsP \/ FillWitness
  \/ CommitHash \/ CommitHashAborts \/ CommitSig \/ ComputeMacs
  \/ EvalHash \/ SumcheckHash \/ LigeroHash
  \/ EvalSig \/ SumcheckSig \/ LigeroSig
  \/ Serialise

(* does not touch what the reader has. *)
LEMMA WalletLeavesReader ==
  WalletSteps => /\ UNCHANGED verifierVars /\ DOMAIN av' = DOMAIN av /\ pc \in ProverRuns
                 /\ pc' \in ProverRuns \union {"transit", "end"}
<1> DEFINE Apart == UNCHANGED verifierVars /\ DOMAIN av' = DOMAIN av /\ pc \in ProverRuns
<1> USE DEF AfterEvalSig, AfterEvalHash, AfterMacs, AfterCommitHash, AfterWitness, ProverRuns
<1>1. CheckArgumentsP \/ FillWitness => Apart /\ pc' \in ProverRuns \union {"transit", "end"}
  BY DEF CheckArgumentsP, FillWitness, ReturnP
<1>2. CommitHash \/ CommitHashAborts \/ CommitSig \/ ComputeMacs => Apart /\ pc' \in ProverRuns \union {"transit", "end"}
  BY DEF CommitHash, CommitHashAborts, CommitSig, Commit, ComputeMacs, ReturnP
<1>3. EvalHash \/ SumcheckHash \/ LigeroHash => Apart /\ pc' \in ProverRuns \union {"transit", "end"}
  BY DEF EvalHash, EvalCircuit, SumcheckHash, SumcheckOf, LigeroHash, ProveLigero, ReturnP
<1>4. EvalSig \/ SumcheckSig \/ LigeroSig => Apart /\ pc' \in ProverRuns \union {"transit", "end"}
  BY DEF EvalSig, EvalCircuit, SumcheckSig, SumcheckOf, LigeroSig, ProveLigero, ReturnP
<1>5. Serialise => Apart /\ pc' \in ProverRuns \union {"transit", "end"}
  BY DEF Serialise, ReturnP
<1> QED BY <1>1, <1>2, <1>3, <1>4, <1>5, Zenon DEF WalletSteps

(* At every step the reader's transcript is that of the calls made so far. *)
LEMMA NextReaderTranscript == ReaderTranscript /\ [Next]_vars => ReaderTranscript'
<1> SUFFICES ASSUME ReaderTranscript, [Next]_vars PROVE ReaderTranscript' OBVIOUS
<1> USE DEF AfterVerifyHash, AfterPublic, AfterReceive, AfterParse
<1>1. CASE WalletSteps
  <2>1. /\ UNCHANGED <<v, retV, tv, got, arrived, ok>> /\ pc \in ProverRuns
        /\ DOMAIN av' = DOMAIN av
        /\ pc' \in ProverRuns \union {"transit", "end"}
    BY <1>1, WalletLeavesReader DEF verifierVars
  <2>2. retV = None
    BY <2>1 DEF ReaderTranscript, ProverRuns, AfterWitness, AfterCommitHash, AfterMacs,
                AfterEvalHash, AfterEvalSig
  <2> QED BY <2>1, <2>2, NoneAssumption
          DEF ReaderTranscript, ProverRuns, AfterWitness, AfterCommitHash, AfterMacs,
              AfterEvalHash, AfterEvalSig
<1>2. CASE Transit
  BY <1>2, NoneAssumption DEF Transit, ReaderTranscript, proverVars
<1>3. CASE CheckArgumentsV
  <2>1. /\ pc = "verifier" /\ UNCHANGED <<p, sent, wit, v, tv, got, arrived, ok, av>>
    BY <1>3 DEF CheckArgumentsV, proverVars
  <2>2. retV = None /\ DOMAIN ok = Circ
    BY <2>1 DEF ReaderTranscript
  <2>3. CASE VerifierArguments(v) = "OK"
    <3>1. pc' = "parse" /\ retV' = None BY <1>3, <2>2, <2>3 DEF CheckArgumentsV
    <3> QED BY <2>1, <2>2, <3>1, NoneAssumption DEF ReaderTranscript
  <2>4. CASE VerifierArguments(v) # "OK"
    <3>1. pc' = "end" /\ retV' = VerifierArguments(v) BY <1>3, <2>4 DEF CheckArgumentsV, ReturnV
    <3>2. Refused' BY <2>1, <2>4 DEF Refused
    <3>3. retV' # "SUCCESS" BY <3>1, ChecksDoNotSucceed
    <3> QED BY <2>1, <2>2, <3>1, <3>2, <3>3 DEF ReaderTranscript
  <2> QED BY <2>3, <2>4
<1>4. CASE ParseProof
  <2>1. /\ pc = "parse" /\ UNCHANGED <<p, sent, wit, v, tv, arrived, ok, av>>
        /\ \E err \in ParseErrors :
             IF err = "OK"
             THEN /\ got' = IF Aligned THEN got ELSE Misread(got)
                  /\ pc' = "receive" /\ UNCHANGED retV
             ELSE retV' = err /\ pc' = "end" /\ UNCHANGED got
    BY <1>4 DEF ParseProof, ReturnV, proverVars
  <2>2. retV = None /\ DOMAIN ok = Circ
    BY <2>1 DEF ReaderTranscript
  <2>3. Aligned' = Aligned /\ ParseErrors' = ParseErrors BY <2>1 DEF Aligned, ParseErrors
  <2>4. CASE pc' = "receive"
    <3>1. retV' = None /\ (Aligned => got' = got) BY <2>1, <2>2, <2>4
    <3> QED BY <2>1, <2>2, <2>3, <2>4, <3>1, NoneAssumption DEF ReaderTranscript
  <2>5. CASE pc' # "receive"
    <3>1. PICK err \in ParseErrors : retV' = err /\ err # "OK" /\ pc' = "end" BY <2>1, <2>5
    <3>2. err # "SUCCESS" BY DEF ParseErrors
    <3>3. Refused' BY <2>3, <3>1 DEF Refused
    <3> QED BY <2>1, <2>2, <3>1, <3>2, <3>3 DEF ReaderTranscript
  <2> QED BY <2>4, <2>5
<1>5. CASE ReceiveCommitments
  <2>1. /\ pc = "receive" /\ pc' = "public"
        /\ UNCHANGED <<p, sent, wit, v, retV, got, arrived, ok>>
    BY <1>5 DEF ReceiveCommitments, proverVars
  <2>2. av'.verifier = ReaderKey(v, got) /\ tv' = AtHash(v, got)
    <3>1. tv' = AtHash(v, got)
      BY <1>5, Zenon DEF ReceiveCommitments, Receive, AtHash, Received
    <3>2. av' = [av EXCEPT !.verifier = ReaderKey(v, got)]
      BY <1>5, Zenon DEF ReceiveCommitments, Receive, ReaderKey, Received
    <3>3. "verifier" \in DOMAIN av BY DEF ReaderTranscript
    <3> QED BY <3>1, <3>2, <3>3
  <2>5. DOMAIN av' = {"prover", "verifier"}
    <3>1. PICK key : av' = [av EXCEPT !.verifier = key] BY <1>5 DEF ReceiveCommitments, Receive
    <3> QED BY <3>1 DEF ReaderTranscript
  <2>3. retV = None /\ DOMAIN ok = Circ BY <2>1 DEF ReaderTranscript
  <2> QED BY <2>1, <2>2, <2>3, <2>5, NoneAssumption DEF ReaderTranscript
<1>6. CASE FillPublicInputs
  <2>1. pc = "public" /\ UNCHANGED <<p, sent, wit, v, tv, got, arrived, ok, av>>
    BY <1>6 DEF FillPublicInputs, proverVars
  <2>2. /\ retV = None /\ DOMAIN ok = Circ
        /\ av.verifier = ReaderKey(v, got) /\ tv = AtHash(v, got)
    BY <2>1 DEF ReaderTranscript
  <2>3. PublicInputsChecks(v)' = PublicInputsChecks(v)
    <3>1. v' = v BY <2>1
    <3> QED BY <3>1
  <2>4. CASE PublicInputsChecks(v) = "OK"
    <3>1. pc' = "verify hash" /\ retV' = None BY <1>6, <2>2, <2>4 DEF FillPublicInputs
    <3> QED BY <2>1, <2>2, <2>3, <3>1, NoneAssumption DEF ReaderTranscript
  <2>5. CASE PublicInputsChecks(v) # "OK"
    <3>1. pc' = "end" /\ retV' = PublicInputsChecks(v)
      BY <1>6, <2>5 DEF FillPublicInputs, ReturnV
    <3>2. retV' # "SUCCESS"
      <4>1. PublicInputsChecks(v) # "SUCCESS" BY PublicInputsDecide, Zenon
      <4> QED BY <3>1, <4>1
    <3>3. Refused' BY <2>1, <2>2, <2>3, <2>5 DEF Refused
    <3> QED BY <2>1, <2>2, <3>1, <3>2, <3>3 DEF ReaderTranscript
  <2> QED BY <2>4, <2>5
<1>7. CASE VerifyHash
  <2>1. /\ pc = "verify hash" /\ pc' = "verify sig"
        /\ UNCHANGED <<p, sent, wit, v, retV, got, arrived, av>>
        /\ ok' = [ok EXCEPT !["hash"] = Accept("hash")]
        /\ tv' = After(Constrained("hash"), LigeroReplay("hash", NReq(v.spec), got["hash"].y))
    BY <1>7 DEF VerifyHash, VerifyOf, proverVars
  <2>2. /\ retV = None /\ DOMAIN ok = Circ
        /\ av.verifier = ReaderKey(v, got) /\ tv = AtHash(v, got)
    BY <2>1 DEF ReaderTranscript
  <2>3. /\ Accept("hash") <=> AcceptAt("hash", v, got, AtHash(v, got))
        /\ tv' = AtSig(v, got)
    BY <2>1, <2>2, AcceptIsThere, Zenon DEF AtSig
  <2>4. ok'["hash"] <=> AcceptAt("hash", v, got, AtHash(v, got))
    <3>1. "hash" \in DOMAIN ok BY <2>2 DEF Circ
    <3> QED BY <2>1, <2>3, <3>1, Zenon
  <2>5. DOMAIN ok' = Circ BY <2>1, <2>2
  <2>6. (ok["hash"] <=> AcceptAt("hash", v, got, AtHash(v, got)))'
    BY <2>1, <2>4, Zenon
  <2> QED BY <2>1, <2>2, <2>3, <2>5, <2>6, NoneAssumption DEF ReaderTranscript
<1>8. CASE VerifySig
  <2>1. /\ pc = "verify sig" /\ pc' = "end"
        /\ UNCHANGED <<p, sent, wit, v, got, arrived, av>>
        /\ ok' = [ok EXCEPT !["sig"] = Accept("sig")]
        /\ retV' = IF ok'["hash"] /\ ok'["sig"] THEN "SUCCESS" ELSE "GENERAL_FAILURE"
    BY <1>8 DEF VerifySig, VerifyOf, ReturnV, Verdict, proverVars
  <2>2. /\ DOMAIN ok = Circ
        /\ av.verifier = ReaderKey(v, got) /\ tv = AtSig(v, got)
        /\ ok["hash"] <=> AcceptAt("hash", v, got, AtHash(v, got))
    BY <2>1 DEF ReaderTranscript
  <2>3. Accept("sig") <=> AcceptAt("sig", v, got, AtSig(v, got))
    BY <2>2, AcceptIsThere, Zenon
  <2>4. (ok'["hash"] /\ ok'["sig"]) <=> BothAccepted(v, got)
    <3>1. "hash" \in DOMAIN ok /\ "sig" \in DOMAIN ok /\ "hash" # "sig" BY <2>2 DEF Circ
    <3> QED BY <2>1, <2>2, <2>3, <3>1, Zenon DEF BothAccepted
  <2>5. DOMAIN ok' = Circ BY <2>1, <2>2
  <2>6. CASE BothAccepted(v, got)
    <3>1. retV' = "SUCCESS" BY <2>1, <2>4, <2>6, Zenon
    <3>2. BothAccepted(v, got)' BY <2>1, <2>6, Zenon
    <3> QED BY <2>1, <2>2, <2>5, <3>1, <3>2 DEF ReaderTranscript
  <2>7. CASE ~BothAccepted(v, got)
    <3>1. retV' = "GENERAL_FAILURE" BY <2>1, <2>4, <2>7, Zenon
    <3>2. ~BothAccepted(v, got)' BY <2>1, <2>7, Zenon
    <3>3. Refused' BY <2>1, <2>2, <2>5, <3>2 DEF Refused
    <3> QED BY <2>1, <2>5, <3>1, <3>3 DEF ReaderTranscript
  <2> QED BY <2>6, <2>7
<1>9. CASE UNCHANGED vars
  <2>1. /\ UNCHANGED <<pc, p, sent, wit, v, retV, tv, got, arrived, ok, av>>
    BY <1>9 DEF vars, proverVars, verifierVars
  <2>2. /\ Aligned' = Aligned /\ ParseErrors' = ParseErrors
        /\ PublicInputsChecks(v)' = PublicInputsChecks(v)
    <3>1. v' = v /\ p' = p /\ arrived' = arrived BY <2>1
    <3> QED BY <3>1 DEF Aligned, ParseErrors
  <2> QED BY <2>1, <2>2 DEF ReaderTranscript, Refused
<1> QED BY <1>1, <1>2, <1>3, <1>4, <1>5, <1>6, <1>7, <1>8, <1>9, Zenon DEF Next, WalletSteps

(* The commitments are in what the reader has read when it draws the key.  *)
LEMMA ReceivedHasRoots ==
  ASSUME NEW r, NEW g
  PROVE  /\ IsSeq(Received(r, g).log)
         /\ \A c \in Circ : Logged(Received(r, g).log, "root", g[c].root)
<1> DEFINE t0 == NewTranscript(r.tr)
           h == WriteCommitment(g["hash"].root)   s == WriteCommitment(g["sig"].root)
           t1 == After(t0, h)   t2 == After(t1, s)
<1>1. IsSeq(t0.log) BY ShortSequences DEF NewTranscript
<1>2. /\ IsSeq(h) /\ Writes(h, "root", g["hash"].root)
      /\ IsSeq(s) /\ Writes(s, "root", g["sig"].root)
  BY CommitmentWrites
<1>3. Received(r, g) = t2 BY DEF Received
<1> HIDE DEF t0, h, s
<1>4. IsSeq(t1.log) /\ Logged(t1.log, "root", g["hash"].root) BY <1>1, <1>2, LogGrows
<1> HIDE DEF t1
<1>5. /\ IsSeq(t2.log) /\ Logged(t2.log, "root", g["hash"].root)
      /\ Logged(t2.log, "root", g["sig"].root)
  BY <1>2, <1>4, LogGrows
<1> HIDE DEF t2
<1>6. \A c \in Circ : Logged(t2.log, "root", g[c].root)
  <2> SUFFICES ASSUME NEW c \in Circ PROVE Logged(t2.log, "root", g[c].root) OBVIOUS
  <2>1. c = "hash" \/ c = "sig" BY DEF Circ
  <2> QED BY <1>5, <2>1
<1> QED BY <1>3, <1>5, <1>6

(* A single draw as a sequence of operations.                              *)
LEMMA DrawIsSequence == IsSeq(<<Draw(1)>>) /\ Len(<<Draw(1)>>) = 1 /\ <<Draw(1)>>[1].op = "draw"
<1>1. IsSeq(<<Draw(1)>>) /\ Len(<<Draw(1)>>) = 1 BY ShortSequences
<1>2. <<Draw(1)>>[1].op = "draw" BY DEF Draw
<1> QED BY <1>1, <1>2

(* An accepted proof was checked against all it says. *)
LEMMA AcceptedWasSaid ==
  ASSUME NEW c, HasRound(c), NEW r, NEW g, NEW t, IsSeq(t.log),
         AcceptAt(c, r, g, t)
  PROVE  /\ g[c].ligero.at[Len(g[c].ligero.at)][1] = Len(g[c].ligero.log)
         /\ \A what, val : Logged(t.log, what, val) => Logged(g[c].ligero.log, what, val)
         /\ Logged(g[c].ligero.log, "pub", ReaderPublic(c, r, g))
         /\ Logged(g[c].ligero.log, "p2", g[c].poly)
         /\ Logged(g[c].ligero.log, "wc", g[c].wc)
         /\ \A y \in {"y_ldt", "y_dot", "y_quad_0", "y_quad_2"} :
              Logged(g[c].ligero.log, y, g[c].y)
         /\ IsSeq(VerifiedAt(c, r, g, t).log)
         /\ \A what, val : Logged(t.log, what, val) => Logged(VerifiedAt(c, r, g, t).log, what, val)
<1> DEFINE pb == ReaderPublic(c, r, g)
           stmt == InitializeSumcheck(c, r.circuit, pb)
           con == VerifierConstraints(c, g[c])
           rep == LigeroReplay(c, NReq(r.spec), g[c].y)
           t1 == After(t, stmt)   t2 == After(t1, con)   t3 == After(t2, rep)
           a == Answers(t2, rep)
<1>1. IsSeq(stmt) /\ Writes(stmt, "pub", pb) BY StatementWrites
<1>2. IsSeq(con) /\ Writes(con, "p2", g[c].poly) /\ Writes(con, "wc", g[c].wc)
  BY ConstraintsWrite
<1>3. /\ IsSeq(rep) /\ Len(rep) = 10 /\ rep[10].op = "draw"
      /\ \A what \in {"y_ldt", "y_dot", "y_quad_0", "y_quad_2"} : Writes(rep, what, g[c].y)
  BY LigeroReplays
<1>4. t2 = ConstrainedAt(c, r, g, t) BY Zenon DEF ConstrainedAt, StatementAt
<1>5. g[c].ligero = a BY <1>4, Zenon DEF AcceptAt
<1>6. VerifiedAt(c, r, g, t) = t3 BY <1>4, Zenon DEF VerifiedAt
<1> HIDE DEF pb, stmt, con, rep
<1>7. /\ IsSeq(t1.log) /\ Logged(t1.log, "pub", pb)
      /\ \A what, val : Logged(t.log, what, val) => Logged(t1.log, what, val)
  BY <1>1, LogGrows
<1> HIDE DEF t1
<1>8. /\ IsSeq(t2.log)
      /\ Logged(t2.log, "p2", g[c].poly) /\ Logged(t2.log, "wc", g[c].wc)
      /\ \A what, val : Logged(t1.log, what, val) => Logged(t2.log, what, val)
  BY <1>2, <1>7, LogGrows
<1> HIDE DEF t2
<1>9. /\ IsSeq(t3.log)
      /\ \A what, val : Logged(t2.log, what, val) => Logged(t3.log, what, val)
      /\ \A what \in {"y_ldt", "y_dot", "y_quad_0", "y_quad_2"} : Logged(t3.log, what, g[c].y)
  BY <1>3, <1>8, LogGrows
<1>10. a.log = t3.log /\ a.at[Len(a.at)][1] = Len(a.log)
  <2>1. Len(rep) > 0 /\ rep[Len(rep)].op = "draw" BY <1>3
  <2> HIDE DEF a, t3
  <2> QED BY <1>3, <2>1, LastDrawIsLast DEF a, t3
<1> HIDE DEF t3, a
<1>11. \A what, val : Logged(t.log, what, val) => Logged(t3.log, what, val)
  BY <1>7, <1>8, <1>9
<1>12. /\ Logged(t3.log, "pub", pb) /\ Logged(t3.log, "p2", g[c].poly)
       /\ Logged(t3.log, "wc", g[c].wc)
  BY <1>7, <1>8, <1>9
<1> QED BY <1>5, <1>6, <1>9, <1>10, <1>11, <1>12 DEF pb

(* Both circuits have a layer with a round.                                *)
LEMMA CircuitsHaveRounds == \A c \in Circ : HasRound(c)
BY LayersAssumption DEF HasRound

(* The log of each accepted proof contains its root. *)
LEMMA AcceptedHasRoot ==
  ASSUME NEW r, NEW g, BothAccepted(r, g)
  PROVE  \A c \in Circ : \E t :
           IsSeq(t.log) /\ AcceptAt(c, r, g, t) /\ Logged(t.log, "root", g[c].root)
<1> DEFINE th == AtHash(r, g)   ts == AtSig(r, g)
<1>1. AcceptAt("hash", r, g, th) /\ AcceptAt("sig", r, g, ts) BY DEF BothAccepted
<1>2. HasRound("hash") BY CircuitsHaveRounds DEF Circ
<1>3. ts = VerifiedAt("hash", r, g, th) BY DEF AtSig
<1>4. IsSeq(th.log) /\ \A c \in Circ : Logged(th.log, "root", g[c].root)
  <2> DEFINE rc == Received(r, g)   d == <<Draw(1)>>
  <2>1. th = After(rc, d) BY DEF AtHash
  <2>2. IsSeq(rc.log) /\ \A c \in Circ : Logged(rc.log, "root", g[c].root)
    BY ReceivedHasRoots
  <2>3. IsSeq(d) BY DrawIsSequence
  <2> HIDE DEF rc, d, th
  <2> QED BY <2>1, <2>2, <2>3, LogGrows
<1> HIDE DEF th, ts
<1>5. IsSeq(ts.log) /\ \A c \in Circ : Logged(ts.log, "root", g[c].root)
  BY <1>1, <1>2, <1>3, <1>4, AcceptedWasSaid
<1>6. ASSUME NEW c \in Circ
      PROVE  \E t : IsSeq(t.log) /\ AcceptAt(c, r, g, t) /\ Logged(t.log, "root", g[c].root)
  <2>1. c = "hash" \/ c = "sig" BY DEF Circ
  <2> QED BY <1>1, <1>4, <1>5, <2>1
<1> QED BY <1>6

(* What was written before each draw is in the log of the draw.            *)
LEMMA AcceptedDrewInOrder == ReaderTranscript => DrawnInOrder
<1> SUFFICES ASSUME ReaderTranscript, retV = "SUCCESS" PROVE DrawnInOrder
  BY DEF DrawnInOrder, KeyAfterCommitments, ColumnsDrawnLast
<1>1. av.verifier = ReaderKey(v, got) /\ BothAccepted(v, got) BY DEF ReaderTranscript
<1>2. KeyAfterCommitments
  <2> DEFINE key == av.verifier   rc == Received(v, got)   d == <<Draw(1)>>
  <2>1. key = Answers(rc, d) BY <1>1 DEF ReaderKey, GenerateMacKey
  <2>2. IsSeq(rc.log) /\ \A c \in Circ : Logged(rc.log, "root", got[c].root)
    BY ReceivedHasRoots
  <2>3. IsSeq(d) /\ Len(d) > 0 /\ d[Len(d)].op = "draw" BY DrawIsSequence
  <2> HIDE DEF key, rc, d
  <2>4. key.log = After(rc, d).log BY <2>1, <2>2, <2>3, LastDrawIsLast
  <2>5. IsSeq(key.log) /\ \A c \in Circ : Logged(key.log, "root", got[c].root)
    BY <2>2, <2>3, <2>4, LogGrows
  <2>6. DOMAIN key.log = 1..Len(key.log) BY <2>5, LengthOfSequence
  <2> QED BY <2>5, <2>6 DEF KeyAfterCommitments, Logged, key
<1>3. ColumnsDrawnLast
  <2> SUFFICES ASSUME NEW c \in Circ
               PROVE  LET lig == got[c].ligero
                          n == lig.at[Len(lig.at)][1]
                          Said(what, val) ==
                            \E k \in 1..n : lig.log[k].what = what /\ lig.log[k].val = val
                      IN /\ Said("root", got[c].root)
                         /\ Said("pub", VerifierPublic(c))
                         /\ Said("p2", got[c].poly) /\ Said("wc", got[c].wc)
                         /\ \A y \in {"y_ldt", "y_dot", "y_quad_0", "y_quad_2"} :
                              Said(y, got[c].y)
    BY DEF ColumnsDrawnLast
  <2>1. HasRound(c) BY CircuitsHaveRounds
  <2>2. PICK t : IsSeq(t.log) /\ AcceptAt(c, v, got, t) /\ Logged(t.log, "root", got[c].root)
    BY <1>1, AcceptedHasRoot
  <2>3. VerifierPublic(c) = ReaderPublic(c, v, got)
    BY <1>1, Zenon DEF VerifierPublic, ReaderPublic
  <2> DEFINE lig == got[c].ligero
  <2>4. /\ lig.at[Len(lig.at)][1] = Len(lig.log)
        /\ Logged(lig.log, "root", got[c].root)
        /\ Logged(lig.log, "pub", VerifierPublic(c))
        /\ Logged(lig.log, "p2", got[c].poly) /\ Logged(lig.log, "wc", got[c].wc)
        /\ \A y \in {"y_ldt", "y_dot", "y_quad_0", "y_quad_2"} : Logged(lig.log, y, got[c].y)
    BY <2>1, <2>2, <2>3, AcceptedWasSaid
  <2> HIDE DEF lig
  <2> DEFINE m == lig.at[Len(lig.at)][1]
  <2>6. m = Len(lig.log) BY <2>4
  <2> HIDE DEF m
  <2> DEFINE Said(what, val) == \E k \in 1..m : lig.log[k].what = what /\ lig.log[k].val = val
  <2>5. /\ Said("root", got[c].root) /\ Said("pub", VerifierPublic(c))
        /\ Said("p2", got[c].poly) /\ Said("wc", got[c].wc)
        /\ \A y \in {"y_ldt", "y_dot", "y_quad_0", "y_quad_2"} : Said(y, got[c].y)
    BY <2>4, <2>6, Zenon DEF Logged
  <2> QED BY <2>5, Zenon DEF lig, m
<1> QED BY <1>2, <1>3 DEF DrawnInOrder

(* Both drawings that soundness rests on come late enough, for all         *)
(* circuits and calls: the key of the MACs after both commitments, the     *)
(* columns of each proof after everything else that is in it.              *)
THEOREM DrawingsAreLate == Spec => []DrawnInOrder
BY AcceptedDrewInOrder, InitReaderTranscript, NextReaderTranscript, PTL DEF Spec

-----------------------------------------------------------------------------
(* What a wallet called with a does when nothing stops it                  *)
Doc(a) == [m |-> a.mdoc, ap |-> "ap"]

OneCommitment(a) == After(NewTranscript(a.tr), WriteCommitment(Root("hash", Doc(a))))
Committed(a) == After(OneCommitment(a), WriteCommitment(Root("sig", Doc(a))))
WalletKey(a) == GenerateMacKey(Committed(a))
WalletMacs(a) == Macs(WalletKey(a), "ap", Common(a.mdoc))
FilledPublic(c, a) == Public(c, a, <<a.tr, a.mdoc.docType>>, Zero, None)
ProvenPublic(c, a) ==
  Public(c, a, <<a.tr, a.mdoc.docType>>, WalletMacs(a), WalletKey(a))
AllFilled(a) == [c \in Circ |-> FilledPublic(c, a)]
AllProven(a) == [c \in Circ |-> ProvenPublic(c, a)]

Stated(c, a, t) == After(t, InitializeSumcheck(c, a.circuit, ProvenPublic(c, a)))
Replayed(c, a, t) == After(Stated(c, a, t), VerifierConstraints(c, Polys(c)))
Opened(c, a, t) == After(Replayed(c, a, t), LigeroProve(c, NReq(a.spec), Responses(c)))

HashStart(a) == After(Committed(a), <<Draw(1)>>)
SigStart(a) == Opened("hash", a, HashStart(a))
StartOf(c, a) == IF c = "hash" THEN HashStart(a) ELSE SigStart(a)

Messages(c, z) == z.poly = Polys(c).poly /\ z.wc = Polys(c).wc

IsProven(c, a, z) ==
  /\ z.root = Root(c, Doc(a)) /\ z.y = Responses(c) /\ z.req = Columns(c)
  /\ Messages(c, z)
  /\ z.sumcheck = Answers(Stated(c, a, StartOf(c, a)), ProverLayers(c, Polys(c)))
  /\ z.constraints = Answers(Stated(c, a, StartOf(c, a)), ReplayLayers(c, Polys(c)))
  /\ z.ligero = Answers(Replayed(c, a, StartOf(c, a)),
                        LigeroProve(c, NReq(a.spec), Responses(c)))

IsTrue(c, a) == Satisfied(c, ProvenPublic(c, a), Doc(a))
SameLayout(a) == ~KeysInSubfieldPart(a.circuit, Len(a.attrs), a.spec)

(* Why a wallet gets no proof *)
Excuse(a) ==
  \/ ProverArguments(a) # "OK" \/ WitnessChecks(a) # "OK" \/ ~SameLayout(a)
  \/ ~IsTrue("hash", a) \/ ~IsTrue("sig", a)
  \/ ~a.alloc

IsPresented(a, proof) ==
  /\ WitnessChecks(a) = "OK" /\ SameLayout(a)
  /\ proof.macs = WalletMacs(a)
  /\ \A c \in Circ : IsProven(c, a, proof[c]) /\ IsTrue(c, a)

(* The two commitments and the key *)
Started ==
  /\ DOMAIN tst = Circ
  /\ pc \in AfterWitness => WitnessChecks(p) = "OK"
  /\ pc \in {"commit hash", "commit sig", "macs"} => pub = AllFilled(p)
  /\ pc = "commit hash" => tp = NewTranscript(p.tr)
  /\ pc \in AfterCommitHash => SameLayout(p) /\ zk["hash"].root = Root("hash", Doc(p))
  /\ pc = "commit sig" => tp = OneCommitment(p)
  /\ pc \in {"macs"} \union AfterMacs => zk["sig"].root = Root("sig", Doc(p))
  /\ pc = "macs" => tp = Committed(p)
  /\ pc \in AfterMacs => zk.macs = WalletMacs(p) /\ pub = AllProven(p)

(* The proof of the hash circuit, then that of the signature circuit *)
HashPart ==
  /\ pc = "prove hash" => tp = HashStart(p)
  /\ pc \in AfterEvalHash => IsTrue("hash", p)
  /\ pc \in {"sumcheck hash", "ligero hash"} => tp = Stated("hash", p, HashStart(p))
  /\ pc = "ligero hash" =>
       /\ Messages("hash", zk["hash"])
       /\ tst["hash"] = Answers(Stated("hash", p, HashStart(p)),
                                ProverLayers("hash", Polys("hash")))
  /\ pc \in {"prove sig"} \union AfterEvalSig => IsProven("hash", p, zk["hash"])

SigPart ==
  /\ pc = "prove sig" => tp = SigStart(p)
  /\ pc \in AfterEvalSig => IsTrue("sig", p)
  /\ pc \in {"sumcheck sig", "ligero sig"} => tp = Stated("sig", p, SigStart(p))
  /\ pc = "ligero sig" =>
       /\ Messages("sig", zk["sig"])
       /\ tst["sig"] = Answers(Stated("sig", p, SigStart(p)),
                               ProverLayers("sig", Polys("sig")))
  /\ pc = "serialise" => IsProven("sig", p, zk["sig"])

Outcome ==
  /\ pc \in AfterProver => retP = "SUCCESS"
  /\ retP = "SUCCESS" => IsPresented(p, sent) /\ wit = Doc(p)
  /\ pc = "end" /\ retP # "SUCCESS" => Excuse(p)

WalletTranscript == Started /\ HashPart /\ SigPart /\ Outcome

(* The wallet starts with an empty transcript.                             *)
LEMMA InitTranscript == Init => WalletTranscript
BY NoneAssumption DEF Init, WalletTranscript, Started, HashPart, SigPart, Outcome, AfterWitness, AfterCommitHash, AfterMacs,
   AfterEvalHash, AfterEvalSig, AfterProver, VerifierRuns, AfterParse, AfterReceive,
   AfterPublic, AfterVerifyHash

(* Checking arguments writes nothing.                                      *)
LEMMA CheckArgumentsPTranscript ==
  IInv /\ WalletTranscript /\ CheckArgumentsP => WalletTranscript'
<1> SUFFICES ASSUME IInv, WalletTranscript, CheckArgumentsP PROVE WalletTranscript' OBVIOUS
<1> USE DEF AfterVerifyHash, AfterPublic, AfterReceive, AfterParse, VerifierRuns, AfterProver, AfterEvalSig, AfterEvalHash, AfterMacs, AfterCommitHash, AfterWitness, ProverRuns
<1>1. /\ pc = "arguments" /\ UNCHANGED <<p, tp, wit, pub, zk, tst, sent>>
      /\ \/ pc' = "witness" /\ UNCHANGED retP
         \/ /\ ProverArguments(p) # "OK" /\ retP' = ProverArguments(p)
            /\ pc' = IF retP' = "SUCCESS" THEN "transit" ELSE "end"
  BY DEF CheckArgumentsP, ReturnP
<1>2. retP = None BY <1>1 DEF IInv, HandOver
<1>3. CASE pc' = "witness" BY <1>1, <1>2, <1>3, NoneAssumption DEF WalletTranscript, Started, HashPart, SigPart, Outcome
<1>4. CASE pc' # "witness"
  <2>1. retP' # "SUCCESS" BY <1>1, <1>4, ChecksDoNotSucceed
  <2>2. pc' = "end" /\ Excuse(p)' BY <1>1, <1>4, <2>1 DEF Excuse
  <2> QED BY <1>1, <2>1, <2>2 DEF WalletTranscript, Started, HashPart, SigPart, Outcome
<1> QED BY <1>3, <1>4

(* Filling witnesses writes nothing.                                       *)
LEMMA FillWitnessTranscript ==
  IInv /\ WalletTranscript /\ FillWitness => WalletTranscript'
<1> SUFFICES ASSUME IInv, WalletTranscript, FillWitness PROVE WalletTranscript' OBVIOUS
<1> USE DEF AfterVerifyHash, AfterPublic, AfterReceive, AfterParse, VerifierRuns, AfterProver, AfterEvalSig, AfterEvalHash, AfterMacs, AfterCommitHash, AfterWitness, ProverRuns
<1>1. pc = "witness" /\ UNCHANGED <<p, zk, tst, sent>> BY DEF FillWitness
<1>2. retP = None /\ DOMAIN tst = Circ BY <1>1 DEF IInv, HandOver, WalletTranscript, Started, HashPart, SigPart, Outcome
<1>3. CASE WitnessChecks(p) = "OK"
  <2>1. pub' = AllFilled(p) BY <1>3, Zenon DEF FillWitness, AllFilled, FilledPublic
  <2>2. tp' = NewTranscript(p.tr) /\ pc' = "commit hash" /\ retP' = retP
    BY <1>3 DEF FillWitness
  <2> QED BY <1>1, <1>2, <1>3, <2>1, <2>2, NoneAssumption DEF WalletTranscript, Started, HashPart, SigPart, Outcome
<1>4. CASE WitnessChecks(p) # "OK"
  <2>1. retP' = WitnessChecks(p) /\ retP' # "SUCCESS" /\ pc' = "end"
    BY <1>4, ChecksDoNotSucceed DEF FillWitness, ReturnP
  <2>2. Excuse(p)' BY <1>1, <1>4 DEF Excuse
  <2> QED BY <1>1, <1>2, <2>1, <2>2 DEF WalletTranscript, Started, HashPart, SigPart, Outcome
<1> QED BY <1>3, <1>4

(* Both roots are written, the hash circuit's first.                       *)
LEMMA CommitTranscript ==
  IInv /\ WalletTranscript /\ (CommitHash \/ CommitHashAborts \/ CommitSig) => WalletTranscript'
<1> SUFFICES ASSUME IInv, WalletTranscript, CommitHash \/ CommitHashAborts \/ CommitSig
             PROVE  WalletTranscript'
  OBVIOUS
<1> USE DEF AfterVerifyHash, AfterPublic, AfterReceive, AfterParse, VerifierRuns, AfterProver, AfterEvalSig, AfterEvalHash, AfterMacs, AfterCommitHash, AfterWitness, ProverRuns
<1>1. DOMAIN zk = Circ \union {"macs"} /\ \A c \in Circ : DOMAIN zk[c] = ProofFields
  BY DEF IInv, WalletInv, IsProof
<1>2. CASE CommitHash
  <2>5. pc = "commit hash" BY <1>2 DEF CommitHash
  <2>6. wit = Doc(p) BY <2>5 DEF IInv, WalletInv, Doc
  <2>1. /\ pc = "commit hash" /\ pc' = "commit sig" /\ UNCHANGED <<p, retP, wit, pub, tst, sent>>
        /\ SameLayout(p)
        /\ zk' = [zk EXCEPT !["hash"].root = Root("hash", Doc(p))]
        /\ tp' = After(tp, WriteCommitment(Root("hash", Doc(p))))
    BY <1>2, <2>6 DEF CommitHash, Commit, SameLayout
  <2>2. /\ retP = None /\ DOMAIN tst = Circ /\ WitnessChecks(p) = "OK"
        /\ pub = AllFilled(p) /\ tp = NewTranscript(p.tr)
    BY <2>1 DEF IInv, HandOver, WalletTranscript, Started, HashPart, SigPart, Outcome
  <2>3. zk'["hash"].root = Root("hash", Doc(p)) BY <1>1, <2>1 DEF Circ, ProofFields
  <2>4. tp' = OneCommitment(p) BY <2>1, <2>2, Zenon DEF OneCommitment
  <2> QED BY <2>1, <2>2, <2>3, <2>4, NoneAssumption DEF WalletTranscript, Started, HashPart, SigPart, Outcome
<1>3. CASE CommitHashAborts
  <2>1. /\ pc = "commit hash" /\ pc' = "end" /\ UNCHANGED <<p, wit, pub, zk, tst, sent>>
        /\ ~SameLayout(p) /\ retP' = "aborted"
    BY <1>3 DEF CommitHashAborts, ReturnP, SameLayout
  <2>2. Excuse(p)' BY <2>1 DEF Excuse
  <2> QED BY <2>1, <2>2 DEF WalletTranscript, Started, HashPart, SigPart, Outcome
<1>4. CASE CommitSig
  <2>5. pc = "commit sig" BY <1>4 DEF CommitSig
  <2>6. wit = Doc(p) BY <2>5 DEF IInv, WalletInv, Doc
  <2>1. /\ pc = "commit sig" /\ pc' = "macs" /\ UNCHANGED <<p, retP, wit, pub, tst, sent>>
        /\ zk' = [zk EXCEPT !["sig"].root = Root("sig", Doc(p))]
        /\ tp' = After(tp, WriteCommitment(Root("sig", Doc(p))))
    BY <1>4, <2>6 DEF CommitSig, Commit
  <2>2. /\ retP = None /\ DOMAIN tst = Circ /\ WitnessChecks(p) = "OK" /\ SameLayout(p)
        /\ zk["hash"].root = Root("hash", Doc(p))
        /\ pub = AllFilled(p) /\ tp = OneCommitment(p)
    BY <2>1 DEF IInv, HandOver, WalletTranscript, Started, HashPart, SigPart, Outcome
  <2>3. zk'["sig"].root = Root("sig", Doc(p)) /\ zk'["hash"] = zk["hash"]
    BY <1>1, <2>1 DEF Circ, ProofFields
  <2>4. tp' = Committed(p) BY <2>1, <2>2, Zenon DEF Committed
  <2> QED BY <2>1, <2>2, <2>3, <2>4, NoneAssumption DEF WalletTranscript, Started, HashPart, SigPart, Outcome
<1> QED BY <1>2, <1>3, <1>4

(* The constants of update_macs are the places fill_witness left. *)
LEMMA MacsHavePlaces ==
  /\ \A n, version \in Nat : GetHashMacIndex(n, version) = HashMacPosition(n, version)
  /\ SigMacIndex = SigMacPosition
BY DEF GetHashMacIndex, HashMacPosition, AttributeInputs, SigMacIndex, SigMacPosition

SetMacs(x, macs, key) == [x EXCEPT !.macs = macs, !.av = key]

HashPublic(a, b, macs, key) == [attrs |-> a, now |-> b, macs |-> macs, av |-> key]
SigPublic(a, b, macs, key) == [pk |-> a, e2 |-> b, macs |-> macs, av |-> key]

(* Setting MACs and key replaces those fields of the public inputs only.   *)
LEMMA BothFieldsSet ==
  ASSUME NEW a, NEW b, NEW m, NEW k, NEW macs, NEW key
  PROVE  /\ SetMacs(HashPublic(a, b, m, k), macs, key) = HashPublic(a, b, macs, key)
         /\ SetMacs(SigPublic(a, b, m, k), macs, key) = SigPublic(a, b, macs, key)
<1> DEFINE r == [attrs |-> a, now |-> b, macs |-> m, av |-> k]
           r1 == [attrs |-> a, now |-> b, macs |-> macs, av |-> k]
           s == [pk |-> a, e2 |-> b, macs |-> m, av |-> k]
           s1 == [pk |-> a, e2 |-> b, macs |-> macs, av |-> k]
<1>1. [r EXCEPT !.macs = macs] = r1 OBVIOUS
<1>2. [r1 EXCEPT !.av = key] = [attrs |-> a, now |-> b, macs |-> macs, av |-> key] OBVIOUS
<1>3. [s EXCEPT !.macs = macs] = s1 OBVIOUS
<1>4. [s1 EXCEPT !.av = key] = [pk |-> a, e2 |-> b, macs |-> macs, av |-> key] OBVIOUS
<1>5. \A x : [x EXCEPT !.macs = macs, !.av = key] = [[x EXCEPT !.macs = macs] EXCEPT !.av = key]
  OBVIOUS
<1> HIDE DEF r, r1, s, s1
<1>6. [r EXCEPT !.macs = macs, !.av = key] = [attrs |-> a, now |-> b, macs |-> macs, av |-> key]
  BY <1>1, <1>2, <1>5
<1>7. [s EXCEPT !.macs = macs, !.av = key] = [pk |-> a, e2 |-> b, macs |-> macs, av |-> key]
  BY <1>3, <1>4, <1>5
<1> QED BY <1>6, <1>7, Zenon DEF r, s, SetMacs, HashPublic, SigPublic

(* update_macs() completes the public inputs to those of the statement.    *)
LEMMA UpdateFills ==
  ASSUME NEW c \in Circ, Counted(p)
  PROVE  UpdateMacs(c, FilledPublic(c, p), WalletMacs(p), WalletKey(p)) = ProvenPublic(c, p)
<1> DEFINE macs == WalletMacs(p)   key == WalletKey(p)
<1>1. Len(p.attrs) \in Nat /\ p.spec \in Nat BY DEF Counted
<1>2. UpdateMacs(c, FilledPublic(c, p), macs, key)
        = SetMacs(FilledPublic(c, p), macs, key)
  <2>1. GetHashMacIndex(Len(p.attrs), p.spec) = HashMacPosition(Len(p.attrs), p.spec)
    BY <1>1, MacsHavePlaces
  <2>2. c = "hash" \/ c = "sig" BY DEF Circ
  <2> HIDE DEF macs, key
  <2> QED BY <2>1, <2>2, MacsHavePlaces, Zenon DEF UpdateMacs, SetMacs
<1>3. ProvenPublic(c, p) = Public(c, p, <<p.tr, p.mdoc.docType>>, macs, key)
  BY DEF ProvenPublic
<1> HIDE DEF macs, key
<1>4. SetMacs(FilledPublic(c, p), macs, key) = Public(c, p, <<p.tr, p.mdoc.docType>>, macs, key)
  <2>1. CASE c = "hash"
    <3>1. FilledPublic(c, p) = HashPublic(p.attrs, p.now, Zero, None)
      BY <2>1, Zenon DEF FilledPublic, Public, HashPublic
    <3>2. Public(c, p, <<p.tr, p.mdoc.docType>>, macs, key) = HashPublic(p.attrs, p.now, macs, key)
      BY <2>1, Zenon DEF Public, HashPublic
    <3> QED BY <3>1, <3>2, BothFieldsSet
  <2>2. CASE c # "hash"
    <3> DEFINE e2 == <<p.tr, p.mdoc.docType>>
    <3>1. FilledPublic(c, p) = SigPublic(p.pk, e2, Zero, None)
      BY <2>2, Zenon DEF FilledPublic, Public, SigPublic
    <3>2. Public(c, p, <<p.tr, p.mdoc.docType>>, macs, key) = SigPublic(p.pk, e2, macs, key)
      BY <2>2, Zenon DEF Public, SigPublic
    <3> HIDE DEF e2
    <3> QED BY <3>1, <3>2, BothFieldsSet
  <2> QED BY <2>1, <2>2
<1> QED BY <1>2, <1>3, <1>4 DEF macs, key

(* The key of the MACs is drawn from a transcript with both roots.         *)
LEMMA ComputeMacsTranscript ==
  IInv /\ WalletTranscript /\ ComputeMacs => WalletTranscript'
<1> SUFFICES ASSUME IInv, WalletTranscript, ComputeMacs PROVE WalletTranscript' OBVIOUS
<1> USE DEF AfterVerifyHash, AfterPublic, AfterReceive, AfterParse, VerifierRuns, AfterProver, AfterEvalSig, AfterEvalHash, AfterMacs, AfterCommitHash, AfterWitness, ProverRuns
<1>1. DOMAIN zk = Circ \union {"macs"} BY DEF IInv, WalletInv, IsProof
<1>2. /\ pc = "macs" /\ pc' = "prove hash" /\ UNCHANGED <<p, retP, wit, tst, sent>>
      /\ tp' = After(tp, <<Draw(1)>>)
  BY DEF ComputeMacs
<1>3. /\ retP = None /\ DOMAIN tst = Circ /\ WitnessChecks(p) = "OK" /\ SameLayout(p)
      /\ zk["hash"].root = Root("hash", Doc(p)) /\ zk["sig"].root = Root("sig", Doc(p))
      /\ pub = AllFilled(p) /\ tp = Committed(p)
      /\ p \in ProverCalls /\ wit = Doc(p)
  BY <1>2 DEF IInv, WalletInv, HandOver, WalletTranscript, Started, HashPart, SigPart, Outcome, Doc
<1>4. wit.ap = "ap" /\ wit.m = p.mdoc BY <1>3 DEF Doc
<1>5. GenerateMacKey(tp) = WalletKey(p) BY <1>3 DEF WalletKey
<1>6. Macs(GenerateMacKey(tp), wit.ap, Common(wit.m)) = WalletMacs(p)
  BY <1>4, <1>5 DEF WalletMacs
<1>7. /\ zk' = [zk EXCEPT !.macs = WalletMacs(p)]
      /\ pub' = [c \in Circ |-> UpdateMacs(c, pub[c], WalletMacs(p), WalletKey(p))]
  BY <1>5, <1>6, Zenon DEF ComputeMacs
<1>8. /\ zk'.macs = WalletMacs(p) /\ zk'["hash"] = zk["hash"] /\ zk'["sig"] = zk["sig"]
  BY <1>1, <1>7 DEF Circ
<1>9. pub' = AllProven(p)
  <2>1. Counted(p) BY <1>3, CallsAssumption
  <2>2. \A c \in Circ : pub[c] = FilledPublic(c, p) BY <1>3 DEF AllFilled
  <2>3. \A c \in Circ :
         UpdateMacs(c, pub[c], WalletMacs(p), WalletKey(p)) = ProvenPublic(c, p)
    BY <2>1, <2>2, UpdateFills
  <2> QED BY <1>7, <2>3, Zenon DEF AllProven
<1>10. tp' = HashStart(p) BY <1>2, <1>3, Zenon DEF HashStart
<1> QED BY <1>2, <1>3, <1>8, <1>9, <1>10, NoneAssumption DEF WalletTranscript, Started, HashPart, SigPart, Outcome

(* The statement is absorbed before its circuit is evaluated.              *)
LEMMA EvalTranscript ==
  IInv /\ WalletTranscript /\ (EvalHash \/ EvalSig) => WalletTranscript'
<1> SUFFICES ASSUME IInv, WalletTranscript, EvalHash \/ EvalSig PROVE WalletTranscript' OBVIOUS
<1> USE DEF AfterVerifyHash, AfterPublic, AfterReceive, AfterParse, VerifierRuns, AfterProver, AfterEvalSig, AfterEvalHash, AfterMacs, AfterCommitHash, AfterWitness, ProverRuns
<1>1. ASSUME NEW c \in Circ, NEW next, pub = AllProven(p), wit = Doc(p), EvalCircuit(c, next)
      PROVE  /\ UNCHANGED <<p, wit, pub, zk, tst, sent>>
             /\ tp' = Stated(c, p, tp)
             /\ IsTrue(c, p) => pc' = next /\ retP' = retP
             /\ ~IsTrue(c, p) => pc' = "end" /\ retP' = "GENERAL_FAILURE"
  <2>1. pub[c] = ProvenPublic(c, p) BY <1>1 DEF AllProven
  <2>2. Satisfied(c, pub[c], wit) <=> IsTrue(c, p) BY <1>1, <2>1, Zenon DEF IsTrue
  <2>3. /\ UNCHANGED <<p, wit, pub, zk, tst, sent>>
        /\ tp' = After(tp, InitializeSumcheck(c, p.circuit, pub[c]))
        /\ IF Satisfied(c, pub[c], wit)
           THEN pc' = next /\ retP' = retP
           ELSE retP' = "GENERAL_FAILURE" /\ pc' = "end"
    BY <1>1 DEF EvalCircuit, ReturnP
  <2>4. tp' = Stated(c, p, tp) BY <2>1, <2>3, Zenon DEF Stated
  <2> QED BY <2>2, <2>3, <2>4, Zenon
<1>2. pc \in {"prove hash", "prove sig"} BY DEF EvalHash, EvalSig
<1>3. /\ retP = None /\ DOMAIN tst = Circ /\ WitnessChecks(p) = "OK" /\ SameLayout(p)
      /\ zk["hash"].root = Root("hash", Doc(p)) /\ zk["sig"].root = Root("sig", Doc(p))
      /\ zk.macs = WalletMacs(p) /\ pub = AllProven(p) /\ wit = Doc(p)
  BY <1>2 DEF IInv, WalletInv, HandOver, WalletTranscript, Started, HashPart, SigPart, Outcome, Doc
<1>4. CASE EvalHash
  <2>1. pc = "prove hash" /\ EvalCircuit("hash", "sumcheck hash") BY <1>4 DEF EvalHash
  <2>2. tp = HashStart(p) BY <2>1 DEF WalletTranscript, Started, HashPart, SigPart, Outcome
  <2>3. /\ UNCHANGED <<p, wit, pub, zk, tst, sent>> /\ tp' = Stated("hash", p, HashStart(p))
        /\ IsTrue("hash", p) => pc' = "sumcheck hash" /\ retP' = retP
        /\ ~IsTrue("hash", p) => pc' = "end" /\ retP' = "GENERAL_FAILURE"
    BY <1>1, <1>3, <2>1, <2>2, Zenon DEF Circ
  <2>4. CASE IsTrue("hash", p)
    BY <1>3, <2>3, <2>4, NoneAssumption DEF WalletTranscript, Started, HashPart, SigPart, Outcome
  <2>5. CASE ~IsTrue("hash", p)
    <3>1. Excuse(p)' BY <2>3, <2>5 DEF Excuse
    <3> QED BY <1>3, <2>3, <2>5, <3>1 DEF WalletTranscript, Started, HashPart, SigPart, Outcome
  <2> QED BY <2>4, <2>5
<1>5. CASE EvalSig
  <2>1. pc = "prove sig" /\ EvalCircuit("sig", "sumcheck sig") BY <1>5 DEF EvalSig
  <2>2. tp = SigStart(p) /\ IsTrue("hash", p) /\ IsProven("hash", p, zk["hash"])
    BY <2>1 DEF WalletTranscript, Started, HashPart, SigPart, Outcome
  <2>3. /\ UNCHANGED <<p, wit, pub, zk, tst, sent>> /\ tp' = Stated("sig", p, SigStart(p))
        /\ IsTrue("sig", p) => pc' = "sumcheck sig" /\ retP' = retP
        /\ ~IsTrue("sig", p) => pc' = "end" /\ retP' = "GENERAL_FAILURE"
    BY <1>1, <1>3, <2>1, <2>2, Zenon DEF Circ
  <2>4. CASE IsTrue("sig", p)
    BY <1>3, <2>2, <2>3, <2>4, NoneAssumption DEF WalletTranscript, Started, HashPart, SigPart, Outcome
  <2>5. CASE ~IsTrue("sig", p)
    <3>1. Excuse(p)' BY <2>3, <2>5 DEF Excuse
    <3> QED BY <1>3, <2>3, <2>5, <3>1 DEF WalletTranscript, Started, HashPart, SigPart, Outcome
  <2> QED BY <2>4, <2>5
<1> QED BY <1>4, <1>5

(* A sumcheck runs on a clone of the transcript, which stays as it was.    *)
LEMMA SumcheckTranscript ==
  IInv /\ WalletTranscript /\ (SumcheckHash \/ SumcheckSig) => WalletTranscript'
<1> SUFFICES ASSUME IInv, WalletTranscript, SumcheckHash \/ SumcheckSig PROVE WalletTranscript'
  OBVIOUS
<1> USE DEF AfterVerifyHash, AfterPublic, AfterReceive, AfterParse, VerifierRuns, AfterProver, AfterEvalSig, AfterEvalHash, AfterMacs, AfterCommitHash, AfterWitness, ProverRuns
<1>1. DOMAIN zk = Circ \union {"macs"} /\ \A c \in Circ : DOMAIN zk[c] = ProofFields
  BY DEF IInv, WalletInv, IsProof
<1>2. pc \in {"sumcheck hash", "sumcheck sig"} BY DEF SumcheckHash, SumcheckSig
<1>3. /\ retP = None /\ DOMAIN tst = Circ /\ WitnessChecks(p) = "OK" /\ SameLayout(p)
      /\ zk["hash"].root = Root("hash", Doc(p)) /\ zk["sig"].root = Root("sig", Doc(p))
      /\ zk.macs = WalletMacs(p) /\ pub = AllProven(p) /\ wit = Doc(p) /\ IsTrue("hash", p)
  BY <1>2 DEF IInv, WalletInv, HandOver, WalletTranscript, Started, HashPart, SigPart, Outcome, Doc
<1>4. ASSUME NEW c \in Circ, NEW next, SumcheckOf(c, next)
      PROVE  /\ UNCHANGED <<p, retP, wit, pub, sent, tp>> /\ pc' = next
             /\ tst'[c] = Answers(tp, ProverLayers(c, Polys(c))) /\ DOMAIN tst' = Circ
             /\ Messages(c, zk'[c]) /\ zk'[c].root = zk[c].root /\ zk'.macs = zk.macs
             /\ \A d \in Circ : d # c => zk'[d] = zk[d]
  <2>1. /\ UNCHANGED <<p, retP, wit, pub, sent, tp>> /\ pc' = next
        /\ tst' = [tst EXCEPT ![c] = Answers(tp, ProverLayers(c, Polys(c)))]
        /\ zk' = [zk EXCEPT ![c].poly = Polys(c).poly, ![c].wc = Polys(c).wc]
    BY <1>4 DEF SumcheckOf, Sumcheck
  <2>2. tst'[c] = Answers(tp, ProverLayers(c, Polys(c))) /\ DOMAIN tst' = Circ
    BY <1>3, <2>1
  <2>3. /\ zk'[c].poly = Polys(c).poly /\ zk'[c].wc = Polys(c).wc
        /\ zk'[c].root = zk[c].root /\ zk'.macs = zk.macs
        /\ \A d \in Circ : d # c => zk'[d] = zk[d]
    BY <1>1, <2>1 DEF Circ, ProofFields
  <2> QED BY <2>1, <2>2, <2>3 DEF Messages
<1>5. CASE SumcheckHash
  <2>1. pc = "sumcheck hash" /\ SumcheckOf("hash", "ligero hash") BY <1>5 DEF SumcheckHash
  <2>2. tp = Stated("hash", p, HashStart(p)) BY <2>1 DEF WalletTranscript, Started, HashPart, SigPart, Outcome
  <2>3. /\ UNCHANGED <<p, retP, wit, pub, sent, tp>> /\ pc' = "ligero hash"
        /\ tst'["hash"] = Answers(tp, ProverLayers("hash", Polys("hash"))) /\ DOMAIN tst' = Circ
        /\ Messages("hash", zk'["hash"]) /\ zk'["hash"].root = zk["hash"].root
        /\ zk'.macs = zk.macs /\ zk'["sig"] = zk["sig"]
    BY <1>4, <2>1, Zenon DEF Circ
  <2> QED BY <1>3, <2>2, <2>3, NoneAssumption DEF WalletTranscript, Started, HashPart, SigPart, Outcome
<1>6. CASE SumcheckSig
  <2>1. pc = "sumcheck sig" /\ SumcheckOf("sig", "ligero sig") BY <1>6 DEF SumcheckSig
  <2>2. /\ tp = Stated("sig", p, SigStart(p)) /\ IsTrue("sig", p)
        /\ IsProven("hash", p, zk["hash"])
    BY <2>1 DEF WalletTranscript, Started, HashPart, SigPart, Outcome
  <2>3. /\ UNCHANGED <<p, retP, wit, pub, sent, tp>> /\ pc' = "ligero sig"
        /\ tst'["sig"] = Answers(tp, ProverLayers("sig", Polys("sig"))) /\ DOMAIN tst' = Circ
        /\ Messages("sig", zk'["sig"]) /\ zk'["sig"].root = zk["sig"].root
        /\ zk'.macs = zk.macs /\ zk'["hash"] = zk["hash"]
    BY <1>4, <2>1, Zenon DEF Circ
  <2> QED BY <1>3, <2>2, <2>3, NoneAssumption DEF WalletTranscript, Started, HashPart, SigPart, Outcome
<1> QED BY <1>5, <1>6

(* What Ligero adds to a proof whose sumcheck is done *)
LEMMA ProveLigeroProves ==
  ASSUME NEW c \in Circ, NEW next, ProveLigero(c, next),
         IsProof(zk), Messages(c, zk[c]), zk[c].root = Root(c, Doc(p)),
         tp = Stated(c, p, StartOf(c, p)),
         tst[c] = Answers(Stated(c, p, StartOf(c, p)), ProverLayers(c, Polys(c)))
  PROVE  /\ UNCHANGED <<p, retP, wit, pub, sent, tst>> /\ pc' = next
         /\ tp' = Opened(c, p, StartOf(c, p))
         /\ IsProven(c, p, zk'[c]) /\ zk'.macs = zk.macs
         /\ \A d \in Circ : d # c => zk'[d] = zk[d]
<1> DEFINE con == Answers(tp, ReplayLayers(c, zk[c]))
           ts == After(tp, VerifierConstraints(c, zk[c]))
           rep == LigeroProve(c, NReq(p.spec), Responses(c))
           lig == Answers(ts, rep)
<1>1. /\ UNCHANGED <<p, retP, wit, pub, sent, tst>> /\ pc' = next
      /\ zk' = [zk EXCEPT ![c].y = Responses(c), ![c].req = Columns(c),
                          ![c].sumcheck = tst[c], ![c].constraints = con,
                          ![c].ligero = lig]
      /\ tp' = After(ts, rep)
  BY DEF ProveLigero
<1>2. /\ ReplayLayers(c, zk[c]) = ReplayLayers(c, Polys(c))
      /\ VerifierConstraints(c, zk[c]) = VerifierConstraints(c, Polys(c))
  BY MessagesDecide DEF Messages
<1>3. ts = Replayed(c, p, StartOf(c, p)) BY <1>2, Zenon DEF Replayed
<1>4. con = Answers(Stated(c, p, StartOf(c, p)), ReplayLayers(c, Polys(c))) BY <1>2, Zenon
<1>5. tp' = Opened(c, p, StartOf(c, p)) BY <1>1, <1>3, Zenon DEF Opened
<1>6. lig = Answers(Replayed(c, p, StartOf(c, p)), LigeroProve(c, NReq(p.spec), Responses(c)))
  BY <1>3, Zenon
<1> HIDE DEF con, ts, rep, lig
<1>7. /\ zk'[c].y = Responses(c) /\ zk'[c].req = Columns(c) /\ zk'[c].sumcheck = tst[c]
      /\ zk'[c].constraints = con /\ zk'[c].ligero = lig
      /\ zk'[c].root = zk[c].root /\ zk'[c].poly = zk[c].poly /\ zk'[c].wc = zk[c].wc
      /\ zk'.macs = zk.macs /\ \A d \in Circ : d # c => zk'[d] = zk[d]
  BY <1>1 DEF IsProof, ProofFields, Circ
<1>8. Messages(c, zk'[c]) BY <1>7 DEF Messages
<1>9. IsProven(c, p, zk'[c]) BY <1>4, <1>6, <1>7, <1>8, Zenon DEF IsProven
<1> QED BY <1>1, <1>5, <1>7, <1>9

(* A Ligero proof continues the same transcript.                           *)
LEMMA LigeroTranscript ==
  IInv /\ WalletTranscript /\ (LigeroHash \/ LigeroSig) => WalletTranscript'
<1> SUFFICES ASSUME IInv, WalletTranscript, LigeroHash \/ LigeroSig PROVE WalletTranscript'
  OBVIOUS
<1> USE DEF AfterVerifyHash, AfterPublic, AfterReceive, AfterParse, VerifierRuns, AfterProver, AfterEvalSig, AfterEvalHash, AfterMacs, AfterCommitHash, AfterWitness, ProverRuns
<1>1. IsProof(zk) BY DEF IInv, WalletInv
<1>2. pc \in {"ligero hash", "ligero sig"} BY DEF LigeroHash, LigeroSig
<1>3. /\ retP = None /\ DOMAIN tst = Circ /\ WitnessChecks(p) = "OK" /\ SameLayout(p)
      /\ zk["hash"].root = Root("hash", Doc(p)) /\ zk["sig"].root = Root("sig", Doc(p))
      /\ zk.macs = WalletMacs(p) /\ pub = AllProven(p) /\ wit = Doc(p) /\ IsTrue("hash", p)
  BY <1>2 DEF IInv, WalletInv, HandOver, WalletTranscript, Started, HashPart, SigPart, Outcome, Doc
<1>4. CASE LigeroHash
  <2>1. pc = "ligero hash" /\ ProveLigero("hash", "prove sig") BY <1>4 DEF LigeroHash
  <2>2. /\ tp = Stated("hash", p, HashStart(p)) /\ Messages("hash", zk["hash"])
        /\ tst["hash"] = Answers(Stated("hash", p, HashStart(p)),
                                 ProverLayers("hash", Polys("hash")))
    BY <2>1 DEF WalletTranscript, Started, HashPart, SigPart, Outcome
  <2>3. StartOf("hash", p) = HashStart(p) BY DEF StartOf
  <2>4. /\ UNCHANGED <<p, retP, wit, pub, sent, tst>> /\ pc' = "prove sig"
        /\ tp' = SigStart(p)
        /\ IsProven("hash", p, zk'["hash"]) /\ zk'.macs = zk.macs
        /\ zk'["sig"] = zk["sig"]
    <3>1. "hash" \in Circ /\ "sig" \in Circ /\ "sig" # "hash" BY DEF Circ
    <3> QED BY <1>1, <1>3, <2>1, <2>2, <2>3, <3>1, ProveLigeroProves DEF SigStart
  <2>5. zk'["hash"].root = Root("hash", Doc(p)) BY <2>4 DEF IsProven
  <2> QED BY <1>3, <2>4, <2>5, NoneAssumption DEF WalletTranscript, Started, HashPart, SigPart, Outcome
<1>5. CASE LigeroSig
  <2>1. pc = "ligero sig" /\ ProveLigero("sig", "serialise") BY <1>5 DEF LigeroSig
  <2>2. /\ tp = Stated("sig", p, SigStart(p)) /\ Messages("sig", zk["sig"])
        /\ tst["sig"] = Answers(Stated("sig", p, SigStart(p)),
                                ProverLayers("sig", Polys("sig")))
        /\ IsTrue("sig", p) /\ IsProven("hash", p, zk["hash"])
    BY <2>1 DEF WalletTranscript, Started, HashPart, SigPart, Outcome
  <2>3. StartOf("sig", p) = SigStart(p) BY DEF StartOf
  <2>4. /\ UNCHANGED <<p, retP, wit, pub, sent, tst>> /\ pc' = "serialise"
        /\ IsProven("sig", p, zk'["sig"]) /\ zk'.macs = zk.macs
        /\ zk'["hash"] = zk["hash"]
    <3>1. "hash" \in Circ /\ "sig" \in Circ /\ "sig" # "hash" BY DEF Circ
    <3> QED BY <1>1, <1>3, <2>1, <2>2, <2>3, <3>1, ProveLigeroProves
  <2>5. zk'["sig"].root = Root("sig", Doc(p)) BY <2>4 DEF IsProven
  <2> QED BY <1>3, <2>2, <2>4, <2>5, NoneAssumption DEF WalletTranscript, Started, HashPart, SigPart, Outcome
<1> QED BY <1>4, <1>5

(* Serialisation writes nothing.                                           *)
LEMMA SerialiseTranscript ==
  IInv /\ WalletTranscript /\ Serialise => WalletTranscript'
<1> SUFFICES ASSUME IInv, WalletTranscript, Serialise PROVE WalletTranscript' OBVIOUS
<1> USE DEF AfterVerifyHash, AfterPublic, AfterReceive, AfterParse, VerifierRuns, AfterProver, AfterEvalSig, AfterEvalHash, AfterMacs, AfterCommitHash, AfterWitness, ProverRuns
<1>1. /\ pc = "serialise" /\ UNCHANGED <<p, wit, pub, zk, tst>>
      /\ IF p.alloc
         THEN sent' = zk /\ retP' = "SUCCESS" /\ pc' = "transit"
         ELSE retP' = "MEMORY_ALLOCATION_FAILURE" /\ pc' = "end"
  BY DEF Serialise, ReturnP
<1>2. /\ DOMAIN tst = Circ /\ WitnessChecks(p) = "OK" /\ SameLayout(p)
      /\ zk.macs = WalletMacs(p) /\ wit = Doc(p)
      /\ IsTrue("hash", p) /\ IsTrue("sig", p)
      /\ IsProven("hash", p, zk["hash"]) /\ IsProven("sig", p, zk["sig"])
  BY <1>1 DEF IInv, WalletInv, WalletTranscript, Started, HashPart, SigPart, Outcome, Doc
<1>3. CASE p.alloc
  <2>1. IsPresented(p, zk) BY <1>2 DEF IsPresented, Circ
  <2> QED BY <1>1, <1>2, <1>3, <2>1 DEF WalletTranscript, Started, HashPart, SigPart, Outcome
<1>4. CASE ~p.alloc
  <2>1. Excuse(p)' BY <1>1, <1>4 DEF Excuse
  <2> QED BY <1>1, <1>2, <1>4, <2>1 DEF WalletTranscript, Started, HashPart, SigPart, Outcome
<1> QED BY <1>3, <1>4

(* The reader's part does not touch what the wallet has. *)
LEMMA ReaderTranscriptSteps ==
  IInv /\ WalletTranscript /\ [Next]_vars /\ ~WalletSteps => WalletTranscript'
<1> SUFFICES ASSUME IInv, WalletTranscript, [Next]_vars, ~WalletSteps PROVE WalletTranscript'
  OBVIOUS
<1> DEFINE Outside == UNCHANGED proverVars /\ pc \in AfterProver /\ pc' \in AfterProver \union {"end"}
<1>1. \/ Outside \/ UNCHANGED <<pc, proverVars>>
  <2> USE DEF AfterVerifyHash, AfterPublic, AfterReceive, AfterParse, VerifierRuns, AfterProver
  <2>1. CASE Transit BY <2>1 DEF Transit
  <2>2. CASE CheckArgumentsV BY <2>2 DEF CheckArgumentsV, ReturnV
  <2>3. CASE ParseProof BY <2>3 DEF ParseProof, ReturnV
  <2>4. CASE ReceiveCommitments BY <2>4 DEF ReceiveCommitments
  <2>5. CASE FillPublicInputs BY <2>5 DEF FillPublicInputs, ReturnV
  <2>6. CASE VerifyHash BY <2>6 DEF VerifyHash, VerifyOf
  <2>7. CASE VerifySig BY <2>7 DEF VerifySig, VerifyOf, ReturnV
  <2>8. CASE UNCHANGED vars BY <2>8 DEF vars
  <2> QED BY <2>1, <2>2, <2>3, <2>4, <2>5, <2>6, <2>7, <2>8, Zenon DEF Next, WalletSteps
<1>2. CASE Outside
  <2>1. retP = "SUCCESS" /\ DOMAIN tst = Circ /\ IsPresented(p, sent) /\ wit = Doc(p)
    BY <1>2 DEF WalletTranscript, Started, HashPart, SigPart, Outcome
  <2>2. UNCHANGED <<p, retP, sent, wit, tst>> BY <1>2 DEF proverVars
  <2>3. pc' \notin AfterWitness /\ pc' \notin AfterCommitHash /\ pc' \notin AfterMacs
        /\ pc' \notin AfterEvalHash /\ pc' \notin AfterEvalSig
        /\ pc' \notin {"commit hash", "commit sig", "macs", "prove hash", "sumcheck hash",
                       "ligero hash", "prove sig", "sumcheck sig", "ligero sig", "serialise"}
    BY <1>2 DEF AfterVerifyHash, AfterPublic, AfterReceive, AfterParse, VerifierRuns, AfterProver,
       AfterEvalSig, AfterEvalHash, AfterMacs, AfterCommitHash, AfterWitness
  <2> QED BY <2>1, <2>2, <2>3 DEF WalletTranscript, Started, HashPart, SigPart, Outcome
<1>3. CASE UNCHANGED <<pc, proverVars>>
  <2>1. UNCHANGED <<pc, p, retP, tp, wit, pub, zk, tst, sent>> BY <1>3 DEF proverVars
  <2>2. Started' BY <2>1 DEF WalletTranscript, Started
  <2>3. HashPart' BY <2>1 DEF WalletTranscript, HashPart
  <2>4. SigPart' BY <2>1 DEF WalletTranscript, SigPart
  <2>5. Outcome' BY <2>1 DEF WalletTranscript, Outcome
  <2> QED BY <2>2, <2>3, <2>4, <2>5 DEF WalletTranscript
<1> QED BY <1>1, <1>2, <1>3

(* At every step the wallet's transcript is that of the calls made so far. *)
LEMMA NextTranscript == IInv /\ WalletTranscript /\ [Next]_vars => WalletTranscript'
BY CheckArgumentsPTranscript, FillWitnessTranscript, CommitTranscript, ComputeMacsTranscript,
   EvalTranscript, SumcheckTranscript, LigeroTranscript, SerialiseTranscript,
   ReaderTranscriptSteps, Zenon DEF WalletSteps

-----------------------------------------------------------------------------
(* What the wallet has checked when it fills the witness                   *)
LEMMA WitnessChecksMean ==
  ASSUME NEW a, WitnessChecks(a) = "OK"
  PROVE  /\ ~TooLong(a) /\ Found(a) /\ a.mdoc.issuer = a.pk /\ a.mdoc.tr = a.tr
         /\ ~FillerOverflows(a.circuit, Len(a.attrs), a.spec)
<1> DEFINE checks == <<
      <<TooLong(a), "ATTRIBUTE_TOO_LONG">>,
      <<~a.mdoc.parse, "PARSE_FAILURE">>,
      <<a.spec < 4, "VERSION_NOT_SUPPORTED">>,
      <<a.mdoc.big, "TAGGED_MSO_TOO_BIG">>,
      <<~Found(a), "ATTRIBUTE_NOT_FOUND">>,
      <<a.mdoc.issuer # a.pk, "SIGNATURE_FAILURE">>,
      <<a.mdoc.tr # a.tr, "DEVICE_SIGNATURE_FAILURE">>,
      <<FillerOverflows(a.circuit, Len(a.attrs), a.spec), "aborted">> >>
<1>1. WitnessChecks(a) = FirstFailure(checks) BY Zenon DEF WitnessChecks
<1>2. DOMAIN checks = 1..8 OBVIOUS
<1>3. /\ checks[1][2] = "ATTRIBUTE_TOO_LONG" /\ checks[2][2] = "PARSE_FAILURE"
      /\ checks[3][2] = "VERSION_NOT_SUPPORTED" /\ checks[4][2] = "TAGGED_MSO_TOO_BIG"
      /\ checks[5][2] = "ATTRIBUTE_NOT_FOUND" /\ checks[6][2] = "SIGNATURE_FAILURE"
      /\ checks[7][2] = "DEVICE_SIGNATURE_FAILURE" /\ checks[8][2] = "aborted"
  OBVIOUS
<1>4. /\ checks[1][1] <=> TooLong(a) OBVIOUS
<1>5. checks[5][1] <=> ~Found(a) OBVIOUS
<1>6. checks[6][1] <=> a.mdoc.issuer # a.pk OBVIOUS
<1>7. checks[7][1] <=> a.mdoc.tr # a.tr OBVIOUS
<1>8. checks[8][1] <=> FillerOverflows(a.circuit, Len(a.attrs), a.spec) OBVIOUS
<1> HIDE DEF checks
<1>9. \A i \in 1..8 : checks[i][2] \notin {"OK", "SUCCESS"} BY <1>3
<1>10. \A i \in 1..8 : ~checks[i][1] BY <1>1, <1>2, <1>9, FirstFailureDecides
<1>11. 1 \in 1..8 /\ 5 \in 1..8 /\ 6 \in 1..8 /\ 7 \in 1..8 /\ 8 \in 1..8 OBVIOUS
<1> QED BY <1>4, <1>5, <1>6, <1>7, <1>8, <1>10, <1>11, Zenon

(* An identifier that occurs once is found where it occurs. *)
LEMMA MatchingIsUnique ==
  ASSUME NEW m, Len(m.attrs) \in Nat, DOMAIN m.attrs = 1..Len(m.attrs), UniqueIds(m),
         NEW j \in DOMAIN m.attrs
  PROVE  Matching(m, m.attrs[j][1]) = j
<1> DEFINE id == m.attrs[j][1]
           I == {k \in 1..Len(m.attrs) : m.attrs[k][1] = id}
<1>1. Matching(m, id) = IF I # {} THEN Min(I) ELSE 0 BY Zenon DEF Matching, SelectInSeq
<1>2. j \in I OBVIOUS
<1>3. Matching(m, id) # 0
  <2>1. I \subseteq Nat /\ \A k \in I : k # 0 OBVIOUS
  <2> HIDE DEF I
  <2>2. \E k \in I : \A i \in I : k <= i BY <1>2, <2>1, LeastNumber
  <2>3. Min(I) \in I BY <2>2, Zenon DEF Min
  <2>4. Matching(m, id) = Min(I) BY <1>1, <1>2
  <2> QED BY <2>1, <2>3, <2>4
<1>4. Matching(m, id) \in 1..Len(m.attrs) /\ m.attrs[Matching(m, id)][1] = id
  BY <1>3, MatchingFinds
<1> QED BY <1>4 DEF UniqueIds

(* A wallet whose document has what is asked has a true statement.         *)
LEMMA AskedIsTrue ==
  ASSUME NEW a \in ProverCalls, WitnessChecks(a) = "OK",
         a.now \in a.mdoc.valid, Requested(a) \subseteq ToSet(a.mdoc.attrs),
         UniqueIds(a.mdoc)
  PROVE  IsTrue("hash", a) /\ IsTrue("sig", a)
<1> DEFINE m == a.mdoc
<1>1. /\ Len(m.attrs) \in Nat /\ DOMAIN m.attrs = 1..Len(m.attrs)
      /\ a.mdoc.issuer = a.pk /\ a.mdoc.tr = a.tr
  BY CallsAssumption, WitnessChecksMean DEF IsDocument
<1>2. Doc(a).m = m /\ Doc(a).ap = "ap" BY DEF Doc
<1>3. IsTrue("hash", a)
  <2> DEFINE pb == ProvenPublic("hash", a)
  <2>1. /\ pb.attrs = a.attrs /\ pb.now = a.now /\ pb.macs = WalletMacs(a)
        /\ pb.av = WalletKey(a)
    BY DEF ProvenPublic, Public
  <2> HIDE DEF pb
  <2>2. pb.macs = Macs(pb.av, Doc(a).ap, Common(Doc(a).m)) BY <1>2, <2>1 DEF WalletMacs
  <2>3. ASSUME NEW i \in DOMAIN a.attrs
        PROVE  LET k == Matching(m, a.attrs[i].id) IN k # 0 /\ a.attrs[i].value = m.attrs[k][2]
    <3>1. <<a.attrs[i].id, a.attrs[i].value>> \in ToSet(m.attrs) BY DEF Requested
    <3>2. PICK j \in DOMAIN m.attrs : m.attrs[j] = <<a.attrs[i].id, a.attrs[i].value>>
      BY <3>1 DEF ToSet
    <3>3. m.attrs[j][1] = a.attrs[i].id /\ m.attrs[j][2] = a.attrs[i].value BY <3>2
    <3> HIDE DEF m
    <3>4. UniqueIds(m) BY DEF m
    <3>5. Matching(m, a.attrs[i].id) = j BY <1>1, <3>3, <3>4, MatchingIsUnique
    <3>6. j # 0 BY <1>1
    <3> QED BY <3>3, <3>5, <3>6
  <2>4. HashRelation(pb, Doc(a))
    <3>1. \A i \in DOMAIN pb.attrs :
           LET k == Matching(Doc(a).m, pb.attrs[i].id)
           IN  k # 0 /\ pb.attrs[i].value = Doc(a).m.attrs[k][2]
      BY <1>2, <2>1, <2>3, Zenon
    <3>2. pb.now \in Doc(a).m.valid BY <1>2, <2>1
    <3> QED BY <2>2, <3>1, <3>2, Zenon DEF HashRelation
  <2> QED BY <2>4, Zenon DEF IsTrue, Satisfied, pb
<1>4. IsTrue("sig", a)
  <2> DEFINE pb == ProvenPublic("sig", a)
  <2>1. /\ pb.pk = a.pk /\ pb.e2 = <<a.tr, a.mdoc.docType>> /\ pb.macs = WalletMacs(a)
        /\ pb.av = WalletKey(a)
    BY DEF ProvenPublic, Public
  <2> HIDE DEF pb
  <2>2. pb.macs = Macs(pb.av, Doc(a).ap, Common(Doc(a).m)) BY <1>2, <2>1 DEF WalletMacs
  <2>3. SigRelation(pb, Doc(a))
    <3>1. pb.pk = Doc(a).m.issuer /\ pb.e2 = <<Doc(a).m.tr, Doc(a).m.docType>>
      BY <1>1, <1>2, <2>1
    <3> QED BY <2>2, <3>1 DEF SigRelation
  <2>4. "sig" # "hash" OBVIOUS
  <2> QED BY <2>3, <2>4, Zenon DEF IsTrue, Satisfied, pb
<1> QED BY <1>3, <1>4

(* The inputs of a version, counted *)
InputsAre(n, version) ==
  /\ SubfieldInputs(n, version) \in Nat /\ NPubHash(n, version) \in Nat
  /\ version < 7 => /\ SubfieldInputs(n, version) = n * 4804 + 70288
                    /\ NPubHash(n, version) = n * 776 + 168
  /\ version >= 7 => /\ SubfieldInputs(n, version) = n * 4904 + 80208
                     /\ NPubHash(n, version) = n * 784 + 168

(* The number of public inputs of each circuit is that of the fields       *)
(* filled.                                                                 *)
LEMMA InputsCounted ==
  ASSUME NEW n \in Nat, NEW version \in Nat
  PROVE  InputsAre(n, version)
<1> USE DEF InputsAre
<1>1. ShaInputs = 1472 BY DEF ShaInputs
<1>2. CASE version < 7
  <2>1. ShaBlocks(version) = 35 /\ AttributeInputs(version) = 776
    BY <1>2 DEF ShaBlocks, AttributeInputs
  <2>2. NPubHash(n, version) = n * 776 + 168 BY <2>1 DEF NPubHash, HashMacPosition
  <2>3. HashWitness(n, version) = 70120 + n * 4028 BY <1>1, <1>2, <2>1 DEF HashWitness
  <2> QED BY <1>2, <2>2, <2>3 DEF SubfieldInputs
<1>3. CASE version >= 7
  <2>1. ShaBlocks(version) = 40 /\ AttributeInputs(version) = 784
    BY <1>3 DEF ShaBlocks, AttributeInputs
  <2>2. NPubHash(n, version) = n * 784 + 168 BY <2>1 DEF NPubHash, HashMacPosition
  <2>3. HashWitness(n, version) = 80040 + n * 4120 BY <1>1, <1>3, <2>1 DEF HashWitness
  <2> QED BY <1>3, <2>2, <2>3 DEF SubfieldInputs
<1> QED BY <1>2, <1>3

(* The numbers of a session are natural numbers.                           *)
LEMMA CountedIsBounded ==
  ASSUME NEW a, Counted(a)
  PROVE  /\ Len(a.attrs) \in Nat /\ a.spec \in Nat /\ a.circuit.v \in Nat
         /\ a.circuit.n \in 0..96 /\ a.circuit.n \in Nat
<1>1. /\ Len(a.attrs) \in Nat /\ a.spec \in Nat /\ a.circuit.v \in Nat
      /\ a.circuit.n \in 0..MaxAttributes
  BY Zenon DEF Counted
<1>2. a.circuit.n \in 0..96 BY <1>1 DEF MaxAttributes
<1> QED BY <1>1, <1>2

(* A call of the circuit's version and number of attributes fills it; one  *)
(* that fills it has as many public inputs as it.                          *)
LEMMA SameVersionSameLayout ==
  ASSUME NEW a, Counted(a), a.circuit.n = Len(a.attrs), (a.circuit.v >= 7) = (a.spec >= 7)
  PROVE  SameLayout(a)
<1> DEFINE n == Len(a.attrs)   x == a.spec   y == a.circuit.v
<1>1. n \in Nat /\ x \in Nat /\ y \in Nat /\ (y >= 7 <=> x >= 7) BY CountedIsBounded
<1>2. ~KeysInSubfieldPart(a.circuit, n, x) <=> ~(SubfieldInputs(n, x) < SubfieldInputs(n, y))
  BY DEF KeysInSubfieldPart
<1> HIDE DEF n, x, y
<1>3. CASE x < 7
  <2>1. y < 7 BY <1>1, <1>3
  <2>2. /\ SubfieldInputs(n, x) = n * 4804 + 70288
        /\ SubfieldInputs(n, y) = n * 4804 + 70288
    <3>1. InputsAre(n, x) /\ InputsAre(n, y) BY <1>1, InputsCounted
    <3> QED BY <1>3, <2>1, <3>1 DEF InputsAre
  <2> QED BY <1>1, <1>2, <2>2 DEF SameLayout, n, x
<1>4. CASE x >= 7
  <2>1. y >= 7 BY <1>1, <1>4
  <2>2. /\ SubfieldInputs(n, x) = n * 4904 + 80208
        /\ SubfieldInputs(n, y) = n * 4904 + 80208
    <3>1. InputsAre(n, x) /\ InputsAre(n, y) BY <1>1, InputsCounted
    <3> QED BY <1>4, <2>1, <3>1 DEF InputsAre
  <2> QED BY <1>1, <1>2, <2>2 DEF SameLayout, n, x
<1> QED BY <1>1, <1>3, <1>4

(* Statement and circuit agree on the number of public inputs when their   *)
(* layouts do.                                                             *)
LEMMA SameLayoutSamePublic ==
  ASSUME NEW a, Counted(a), SameLayout(a), ~FillerOverflows(a.circuit, Len(a.attrs), a.spec)
  PROVE  NPubHash(Len(a.attrs), a.spec) = NPubHash(a.circuit.n, a.circuit.v)
<1>1. /\ Len(a.attrs) \in Nat /\ a.spec \in Nat /\ a.circuit.v \in Nat
      /\ a.circuit.n \in 0..96 /\ a.circuit.n \in Nat
  BY CountedIsBounded
<1> DEFINE n == Len(a.attrs)   k == a.circuit.n   x == a.spec   y == a.circuit.v
<1>2. n \in Nat /\ k \in 0..96 /\ k \in Nat /\ x \in Nat /\ y \in Nat BY <1>1
<1>3. /\ ~(SubfieldInputs(n, x) > SubfieldInputs(k, y))
      /\ ~(SubfieldInputs(n, x) < SubfieldInputs(k, y))
  BY DEF SameLayout, KeysInSubfieldPart, FillerOverflows
<1> SUFFICES NPubHash(n, x) = NPubHash(k, y) OBVIOUS
<1> HIDE DEF n, k, x, y
<1>4. (x < 7 \/ x >= 7) /\ (y < 7 \/ y >= 7) BY <1>2
<1> DEFINE sx == SubfieldInputs(n, x)   sy == SubfieldInputs(k, y)
           px == NPubHash(n, x)   py == NPubHash(k, y)
<1>5. /\ x < 7 => sx = n * 4804 + 70288 /\ px = n * 776 + 168
      /\ x >= 7 => sx = n * 4904 + 80208 /\ px = n * 784 + 168
      /\ y < 7 => sy = k * 4804 + 70288 /\ py = k * 776 + 168
      /\ y >= 7 => sy = k * 4904 + 80208 /\ py = k * 784 + 168
      /\ sx \in Nat /\ sy \in Nat
  <2>1. InputsAre(n, x) /\ InputsAre(k, y) BY <1>2, InputsCounted
  <2> QED BY <2>1 DEF InputsAre
<1> HIDE DEF sx, sy, px, py
<1>6. sx = sy BY <1>3, <1>5 DEF sx, sy
<1>7. CASE x < 7 /\ y < 7
  <2>1. n = k BY <1>2, <1>5, <1>6, <1>7
  <2> QED BY <1>5, <1>7, <2>1 DEF px, py
<1>8. CASE x >= 7 /\ y >= 7
  <2>1. n = k BY <1>2, <1>5, <1>6, <1>8
  <2> QED BY <1>5, <1>8, <2>1 DEF px, py
<1>9. CASE x < 7 /\ y >= 7
  <2>1. n * 4804 + 70288 = k * 4904 + 80208 BY <1>5, <1>6, <1>9
  <2>2. FALSE BY <1>2, <2>1
  <2> QED BY <2>2
<1>10. CASE x >= 7 /\ y < 7
  <2>1. n * 4904 + 80208 = k * 4804 + 70288 BY <1>5, <1>6, <1>10
  <2>2. FALSE BY <1>2, <2>1
  <2> QED BY <2>2
<1> QED BY <1>4, <1>7, <1>8, <1>9, <1>10

(* An honest prover within the limits ends with a proof.                   *)
LEMMA HonestProver == IInv /\ WalletTranscript => HonestProverSucceeds
<1> SUFFICES ASSUME IInv, WalletTranscript, pc \in {"transit", "end"},
                    ProverArguments(p) = "OK", WitnessChecks(p) = "OK",
                    p.circuit.n = Len(p.attrs), (p.circuit.v >= 7) = (p.spec >= 7),
                    p.now \in p.mdoc.valid, p.alloc,
                    Requested(p) \subseteq ToSet(p.mdoc.attrs), UniqueIds(p.mdoc),
                    retP # "SUCCESS"
             PROVE  FALSE
  BY DEF HonestProverSucceeds
<1>1. p \in ProverCalls BY DEF IInv, WalletInv
<1>2. Counted(p) BY <1>1, CallsAssumption
<1>3. SameLayout(p) BY <1>2, SameVersionSameLayout
<1>4. IsTrue("hash", p) /\ IsTrue("sig", p) BY <1>1, AskedIsTrue
<1>5. pc = "end"
  <2>1. "transit" \in AfterProver BY DEF AfterProver
  <2> QED BY <2>1 DEF WalletTranscript, Outcome
<1>6. Excuse(p) BY <1>5 DEF WalletTranscript, Outcome
<1> QED BY <1>3, <1>4, <1>6 DEF Excuse

(* What was written with a true statement and sent unaltered is accepted   *)
(* by the reader of the same session.                                      *)
LEMMA PresentedIsAccepted ==
  ASSUME NEW a, IsDocument(a.mdoc), NEW r, NEW g, IsPresented(a, g),
         r.circuit = a.circuit, r.spec = a.spec, r.pk = a.pk, r.tr = a.tr,
         r.attrs = a.attrs, r.now = a.now, r.docType = a.mdoc.docType
  PROVE  BothAccepted(r, g)
<1>1. /\ IsProven("hash", a, g["hash"]) /\ IsProven("sig", a, g["sig"])
      /\ IsTrue("hash", a) /\ IsTrue("sig", a) /\ g.macs = WalletMacs(a)
  BY DEF IsPresented, Circ
<1>2. g["hash"].root = Root("hash", Doc(a)) /\ g["sig"].root = Root("sig", Doc(a))
  BY <1>1 DEF IsProven
<1>3. Received(r, g) = Committed(a)
  BY <1>2, Zenon DEF Received, Committed, OneCommitment
<1>4. ReaderKey(r, g) = WalletKey(a) BY <1>3, Zenon DEF ReaderKey, WalletKey
<1>5. AtHash(r, g) = HashStart(a) BY <1>3, Zenon DEF AtHash, HashStart
<1>6. \A c : ReaderPublic(c, r, g) = ProvenPublic(c, a)
  <2>1. \A c, e2, macs, key : Public(c, r, e2, macs, key) = Public(c, a, e2, macs, key)
    BY DEF Public
  <2>2. <<r.tr, r.docType>> = <<a.tr, a.mdoc.docType>> OBVIOUS
  <2>3. \A c : ReaderPublic(c, r, g) = Public(c, r, <<r.tr, r.docType>>, WalletMacs(a), WalletKey(a))
    BY <1>1, <1>4, Zenon DEF ReaderPublic
  <2> QED BY <2>1, <2>2, <2>3, Zenon DEF ProvenPublic
<1>7. ASSUME NEW c \in Circ, NEW t, t = StartOf(c, a), IsProven(c, a, g[c]), IsTrue(c, a)
      PROVE  AcceptAt(c, r, g, t) /\ VerifiedAt(c, r, g, t) = Opened(c, a, t)
  <2> DEFINE z == g[c]   stated == Stated(c, a, t)   replayed == Replayed(c, a, t)
             lig == LigeroProve(c, NReq(a.spec), Responses(c))
  <2>1. StatementAt(c, r, g, t) = stated BY <1>6, Zenon DEF StatementAt, Stated
  <2>2. /\ z.root = Root(c, Doc(a)) /\ z.y = Responses(c) /\ z.req = Columns(c)
        /\ z.poly = Polys(c).poly /\ z.wc = Polys(c).wc
        /\ z.sumcheck = Answers(stated, ProverLayers(c, Polys(c)))
        /\ z.constraints = Answers(stated, ReplayLayers(c, Polys(c)))
        /\ z.ligero = Answers(replayed, lig)
    BY <1>7, Zenon DEF IsProven, Messages
  <2>3. /\ ReplayLayers(c, z) = ReplayLayers(c, Polys(c))
        /\ VerifierConstraints(c, z) = VerifierConstraints(c, Polys(c))
    <3> HIDE DEF z
    <3> QED BY <2>2, MessagesDecide
  <2>4. ConstrainedAt(c, r, g, t) = replayed
    BY <2>1, <2>3, Zenon DEF ConstrainedAt, Replayed
  <2>5. LigeroReplay(c, NReq(r.spec), z.y) = lig BY <2>2, LigeroReplays
  <2>6. ProverLayers(c, Polys(c)) = ReplayLayers(c, Polys(c))
    BY CircuitsHaveRounds, ProverReplays
  <2>10. z.root.w = Doc(a) BY <2>2 DEF Root
  <2>7. IsCommitment(c, z.root) /\ Satisfied(c, ReaderPublic(c, r, g), z.root.w)
    <3>1. z.root.w.m = a.mdoc BY <2>10 DEF Doc
    <3>2. IsCommitment(c, z.root) BY <2>2, <2>10, <3>1, Zenon DEF IsCommitment
    <3>3. Satisfied(c, ReaderPublic(c, r, g), Doc(a)) BY <1>6, <1>7, Zenon DEF IsTrue
    <3> QED BY <2>10, <3>2, <3>3, Zenon
  <2>8. VerifiedAt(c, r, g, t) = Opened(c, a, t)
    BY <2>4, <2>5, Zenon DEF VerifiedAt, Opened
  <2>9. AcceptAt(c, r, g, t)
    <3>1. z.ligero = Answers(ConstrainedAt(c, r, g, t), LigeroReplay(c, NReq(r.spec), z.y))
      BY <2>2, <2>4, <2>5, Zenon
    <3>2. /\ z.sumcheck = Answers(StatementAt(c, r, g, t), ReplayLayers(c, z))
          /\ z.constraints = Answers(StatementAt(c, r, g, t), ReplayLayers(c, z))
      BY <2>1, <2>2, <2>3, <2>6, Zenon
    <3> QED BY <2>2, <2>7, <3>1, <3>2, Zenon DEF AcceptAt
  <2> QED BY <2>8, <2>9
<1>8. "hash" \in Circ /\ "sig" \in Circ BY DEF Circ
<1>9. StartOf("hash", a) = HashStart(a) /\ StartOf("sig", a) = SigStart(a) BY DEF StartOf
<1>10. AtSig(r, g) = SigStart(a)
  BY <1>1, <1>5, <1>7, <1>8, <1>9, Zenon DEF AtSig, SigStart
<1> QED BY <1>1, <1>5, <1>7, <1>8, <1>9, <1>10, Zenon DEF BothAccepted

(* An honest proof of a matching statement is accepted: both transcripts   *)
(* are the same.                                                           *)
LEMMA HonestReader == IInv /\ WalletTranscript /\ ReaderTranscript => HonestAccepted
<1> SUFFICES ASSUME IInv, WalletTranscript, ReaderTranscript,
                    pc = "end", retV # None, SameSession, retV # "SUCCESS"
             PROVE  FALSE
  BY DEF HonestAccepted
<1>1. /\ retP = "SUCCESS" /\ IsPresented(p, sent) /\ wit = Doc(p) /\ p \in ProverCalls
  BY DEF IInv, HandOver, WalletInv, WalletTranscript, Outcome
<1>2. Aligned /\ arrived.framing = "whole" /\ got = sent
  BY DEF Aligned, SameSession, Untouched
<1>3. VerifierArguments(v) = "OK" /\ ParseErrors = {"OK"}
  BY <1>2 DEF SameSession, ParseErrors
<1>5. BothAccepted(v, got)
  <2>1. IsDocument(p.mdoc) BY <1>1, CallsAssumption
  <2>2. BothAccepted(v, sent) BY <1>1, <2>1, PresentedIsAccepted DEF SameSession
  <2> QED BY <1>2, <2>2
<1>6. PublicInputsChecks(v) = "OK"
  <2>1. WitnessChecks(p) = "OK" /\ SameLayout(p) BY <1>1 DEF IsPresented
  <2>2. ~TooLong(p) /\ ~FillerOverflows(p.circuit, Len(p.attrs), p.spec)
    BY <2>1, WitnessChecksMean
  <2>3. ~TooLong(v) BY <2>2 DEF TooLong, SameSession
  <2>4. Counted(p) BY <1>1, CallsAssumption
  <2>5. NPubHash(Len(p.attrs), p.spec) = NPubHash(p.circuit.n, p.circuit.v)
    BY <2>1, <2>2, <2>4, SameLayoutSamePublic
  <2>6. NPubHash(Len(v.attrs), v.spec) = NPubHash(v.circuit.n, v.circuit.v)
    BY <2>5, Zenon DEF SameSession
  <2>7. NPubHash(v.circuit.n, v.circuit.v) \in Nat
    <3>1. p.circuit.n \in Nat /\ p.circuit.v \in Nat BY <2>4, CountedIsBounded
    <3>2. NPubHash(p.circuit.n, p.circuit.v) \in Nat
      <4>1. InputsAre(p.circuit.n, p.circuit.v) BY <3>1, InputsCounted
      <4> QED BY <4>1 DEF InputsAre
    <3> QED BY <3>2 DEF SameSession
  <2> DEFINE filled == IF TooLong(v) THEN 1 + Fitting(v) * AttributeInputs(v.spec)
                                     ELSE NPubHash(Len(v.attrs), v.spec)
             npub == NPubHash(v.circuit.n, v.circuit.v)
  <2>8. filled = npub BY <2>3, <2>6, Zenon
  <2>9. ~(filled > npub)
    <3>1. npub \in Nat BY <2>7
    <3> HIDE DEF filled, npub
    <3> QED BY <2>8, <3>1
  <2> QED BY <2>3, <2>8, <2>9, PublicInputsDecide, Zenon
<1>7. Refused BY DEF ReaderTranscript
<1> QED BY <1>3, <1>5, <1>6, <1>7 DEF Refused

(* Completeness, for all circuits, documents and calls: a wallet whose     *)
(* document has what is asked gets its proof, and a reader of the same     *)
(* session accepts what any wallet was given.                              *)
THEOREM HonestSessionSucceeds == Spec => []HonestSession
<1>1. IInv /\ WalletTranscript /\ ReaderTranscript => HonestSession
  BY HonestProver, HonestReader DEF HonestSession
<1> QED BY <1>1, InitInv, NextKeepsInv, InitTranscript, NextTranscript,
           InitReaderTranscript, NextReaderTranscript, PTL DEF Spec

-----------------------------------------------------------------------------
(* What the answers of the wallet say about who can use them               *)

(* A transcript with two commitments, the key drawn and a statement        *)
Opening(init, h, s) ==
  After(After(After(NewTranscript(init), WriteCommitment(h)), WriteCommitment(s)), <<Draw(1)>>)

(* Its log is known: the commitments are the second and the third entry.   *)
LEMMA OpeningHasCommitments ==
  ASSUME NEW init, NEW h, NEW s
  PROVE  LET log == Opening(init, h, s).log
         IN  IsSeq(log) /\ Len(log) = 3 /\ log[2].val = h /\ log[3].val = s
<1> DEFINE t0 == NewTranscript(init)   a == WriteCommitment(h)   b == WriteCommitment(s)
           d == <<Draw(1)>>   t1 == After(t0, a)   t2 == After(t1, b)   t3 == After(t2, d)
<1>1. IsSeq(t0.log) /\ Len(t0.log) = 1 BY ShortSequences DEF NewTranscript
<1>2. /\ IsSeq(a) /\ Len(a) = 1 /\ a[1].op = "write" /\ Entry(a[1]).val = h
      /\ IsSeq(b) /\ Len(b) = 1 /\ b[1].op = "write" /\ Entry(b[1]).val = s
  BY ShortSequences DEF WriteCommitment, Put, Entry
<1>3. Opening(init, h, s) = t3 BY Zenon DEF Opening
<1> HIDE DEF t0, a, b, d
<1>4. 1 \in 0..Len(a) /\ 1 \in 0..Len(b) /\ 0 \in 0..1 /\ 1..0 = {}
  BY <1>2
<1>5. LeadingWrites(t1.log, t0.log, a, 1)
  <2>1. \A i \in 1..1 : a[i].op = "write" BY <1>2
  <2> QED BY <1>1, <1>2, <1>4, <2>1, FirstWritesComeFirst
<1> HIDE DEF t1
<1>6. IsSeq(t1.log) /\ Len(t1.log) = 2 /\ t1.log[2].val = h
  <2>1. t1.log[1 + 1] = Entry(a[1]) BY <1>1, <1>5 DEF LeadingWrites
  <2> QED BY <1>1, <1>2, <1>5, <2>1 DEF LeadingWrites
<1>7. LeadingWrites(t2.log, t1.log, b, 1)
  <2>1. \A i \in 1..1 : b[i].op = "write" BY <1>2
  <2> QED BY <1>2, <1>4, <1>6, <2>1, FirstWritesComeFirst
<1> HIDE DEF t2
<1>8. IsSeq(t2.log) /\ Len(t2.log) = 3 /\ t2.log[2].val = h /\ t2.log[3].val = s
  <2>1. t2.log[2 + 1] = Entry(b[1]) BY <1>6, <1>7 DEF LeadingWrites
  <2>2. t2.log[2] = t1.log[2] BY <1>6, <1>7 DEF LeadingWrites
  <2> QED BY <1>2, <1>6, <1>7, <2>1, <2>2 DEF LeadingWrites
<1>9. t3.log = t2.log
  <2>1. IsSeq(d) /\ Len(d) = 1 BY DrawIsSequence DEF d
  <2>2. PICK path : Path(t2, d, path) /\ t3 = path[Len(d)] BY <2>1, AfterIsPath
  <2>3. path[1] = Do(path[1 - 1], d[1]) BY <2>1, <2>2 DEF Path
  <2>4. path[0] = t2 /\ 1 - 1 = 0 BY <2>2 DEF Path
  <2>5. d[1] = Draw(1) BY DEF d
  <2>6. t3 = Do(t2, Draw(1)) BY <2>1, <2>2, <2>3, <2>4, <2>5
  <2> QED BY <2>6 DEF Do, Draw
<1> HIDE DEF t3
<1> QED BY <1>3, <1>8, <1>9

(* An answer given after such a beginning names the two commitments and    *)
(* the public inputs.                                                      *)
LEMMA AnswersName ==
  ASSUME NEW init, NEW h, NEW s, NEW c, NEW id, NEW says, NEW ops, IsSeq(ops)
  PROVE  LET ts == After(Opening(init, h, s), InitializeSumcheck(c, id, says))
             log == Answers(ts, ops).log
         IN  log[2].val = h /\ log[3].val = s /\ log[5].val = says
<1> DEFINE t3 == Opening(init, h, s)   stmt == InitializeSumcheck(c, id, says)
           t4 == After(t3, stmt)   t5 == After(t4, ops)
<1>1. IsSeq(t3.log) /\ Len(t3.log) = 3 /\ t3.log[2].val = h /\ t3.log[3].val = s
  BY OpeningHasCommitments
<1>2. /\ IsSeq(stmt) /\ Len(stmt) = 4
      /\ stmt[1].op = "write" /\ stmt[2].op = "write" /\ Entry(stmt[2]).val = says
  BY ShortSequences DEF InitializeSumcheck, Put, Entry
<1> HIDE DEF t3, stmt
<1>3. LeadingWrites(t4.log, t3.log, stmt, 2)
  <2>1. \A i \in 1..2 : stmt[i].op = "write"
    <3>1. \A i \in 1..2 : i = 1 \/ i = 2 OBVIOUS
    <3> QED BY <1>2, <3>1
  <2>2. 2 \in 0..Len(stmt) BY <1>2
  <2> QED BY <1>1, <1>2, <2>1, <2>2, FirstWritesComeFirst
<1> HIDE DEF t4
<1>4. /\ IsSeq(t4.log) /\ Len(t4.log) \in Nat /\ 5 <= Len(t4.log)
      /\ t4.log[2].val = h /\ t4.log[3].val = s /\ t4.log[5].val = says
  <2>1. t4.log[3 + 2] = Entry(stmt[2]) BY <1>1, <1>3 DEF LeadingWrites
  <2>2. t4.log[2] = t3.log[2] /\ t4.log[3] = t3.log[3] BY <1>1, <1>3 DEF LeadingWrites
  <2>3. IsSeq(t4.log) /\ 3 + 2 <= Len(t4.log) BY <1>1, <1>3 DEF LeadingWrites
  <2> QED BY <1>1, <1>2, <2>1, <2>2, <2>3, LengthOfSequence
<1>5. Grown(t5.log, t4.log, ops) BY <1>4, AfterKeepsAndAdds
<1> HIDE DEF t5
<1>6. t5.log[2].val = h /\ t5.log[3].val = s /\ t5.log[5].val = says
  <2>1. 2 \in 1..Len(t4.log) /\ 3 \in 1..Len(t4.log) /\ 5 \in 1..Len(t4.log) BY <1>4
  <2> QED BY <1>4, <1>5, <2>1 DEF Grown
<1>7. Answers(t4, ops).log = t5.log BY ChallengesGoAlong DEF Answers, t5
<1> QED BY <1>6, <1>7 DEF t3, t4, stmt

(* An accepted proof with the answers of the wallet is the proof of the    *)
(* wallet, field by field.                                                 *)
LEMMA AcceptedWasSent ==
  ASSUME IInv, WalletTranscript, ReaderTranscript, retV = "SUCCESS", WalletAnswers
  PROVE  AsSent /\ got["hash"].root.w.m = p.mdoc
<1>1. retP = "SUCCESS"
  <2>1. retV # None BY NoneAssumption
  <2> QED BY <2>1 DEF IInv, HandOver
<1>2. /\ sent.macs = WalletMacs(p)
      /\ IsProven("hash", p, sent["hash"]) /\ IsProven("sig", p, sent["sig"])
  BY <1>1 DEF WalletTranscript, Outcome, IsPresented, Circ
<1>3. AcceptAt("hash", v, got, AtHash(v, got)) /\ AcceptAt("sig", v, got, AtSig(v, got))
  BY DEF ReaderTranscript, BothAccepted
<1> DEFINE h == got["hash"].root   s == got["sig"].root
           hw == Root("hash", Doc(p))   sw == Root("sig", Doc(p))
           rp == ReaderPublic("hash", v, got)   wp == ProvenPublic("hash", p)
           o == ReplayLayers("hash", got["hash"])   ow == ReplayLayers("hash", Polys("hash"))
<1>4. IsSeq(o) /\ IsSeq(ow)
  <2>1. HasRound("hash") BY CircuitsHaveRounds DEF Circ
  <2> QED BY <2>1, ReplayWrites
<1>5. got["hash"].constraints
        = Answers(After(Opening(v.tr, h, s), InitializeSumcheck("hash", v.circuit, rp)), o)
  <2>1. got["hash"].constraints = Answers(StatementAt("hash", v, got, AtHash(v, got)), o)
    BY <1>3, Zenon DEF AcceptAt
  <2> QED BY <2>1, Zenon DEF StatementAt, AtHash, Received, Opening
<1>6. sent["hash"].constraints
        = Answers(After(Opening(p.tr, hw, sw), InitializeSumcheck("hash", p.circuit, wp)), ow)
  <2>1. sent["hash"].constraints = Answers(Stated("hash", p, StartOf("hash", p)), ow)
    BY <1>2, Zenon DEF IsProven
  <2>2. StartOf("hash", p) = HashStart(p) BY DEF StartOf
  <2> QED BY <2>1, <2>2, Zenon DEF Stated, HashStart, Committed, OneCommitment, Opening
<1>7. got["hash"].constraints = sent["hash"].constraints BY DEF WalletAnswers, Circ
<1>8. h = hw /\ s = sw /\ rp = wp
  <2> DEFINE log == got["hash"].constraints.log
  <2> HIDE DEF h, s, hw, sw, rp, wp, o, ow
  <2>1. log[2].val = h /\ log[3].val = s /\ log[5].val = rp BY <1>4, <1>5, AnswersName
  <2>2. log[2].val = hw /\ log[3].val = sw /\ log[5].val = wp
    BY <1>4, <1>6, <1>7, AnswersName
  <2> QED BY <2>1, <2>2
<1>9. got.macs = sent.macs
  <2>1. rp.macs = got.macs BY DEF ReaderPublic, Public
  <2>2. wp.macs = WalletMacs(p) BY DEF ProvenPublic, Public
  <2> QED BY <1>2, <1>8, <2>1, <2>2
<1>10. h.w.m = p.mdoc BY <1>8 DEF Root, Doc
<1>11. ASSUME NEW c \in Circ, NEW f \in ProofFields PROVE got[c][f] = sent[c][f]
  <2>1. c = "hash" \/ c = "sig" BY DEF Circ
  <2>2. got[c].root = sent[c].root BY <1>2, <1>8, <2>1 DEF IsProven
  <2>3. /\ got[c].poly = sent[c].poly /\ got[c].wc = sent[c].wc
        /\ got[c].y = sent[c].y /\ got[c].req = sent[c].req
    BY <1>2, <1>3, <2>1 DEF IsProven, Messages, AcceptAt
  <2>4. /\ got[c].sumcheck = sent[c].sumcheck /\ got[c].constraints = sent[c].constraints
        /\ got[c].ligero = sent[c].ligero
    BY DEF WalletAnswers
  <2> QED BY <2>2, <2>3, <2>4 DEF ProofFields
<1> QED BY <1>9, <1>10, <1>11 DEF AsSent

(* Soundness of the composition, for all circuits, documents and calls,    *)
(* and whatever proof arrives, whoever made it: when the reader is told    *)
(* success, both circuits were proved of one document, the reader's        *)
(* statement is true of it, and no byte was missing or left over.  A proof *)
(* with the answers of the wallet is the proof of the wallet.  The two     *)
(* proof systems are ideal: the commitment of a proof they accept opens to *)
(* a witness that satisfies the circuit.                                   *)
THEOREM SuccessMeansTruth == Spec => []AcceptanceMeansTruth
<1>1. IInv /\ WalletTranscript /\ ReaderTranscript => AcceptedIsUnaltered
  BY AcceptedIsWhole, AcceptedWasSent DEF AcceptedIsUnaltered
<1>2. IInv => AcceptedIsTrue
  <2>1. CASE retV = "SUCCESS" BY <2>1, AcceptedWasTrue
  <2>2. CASE retV # "SUCCESS" BY <2>2 DEF AcceptedIsTrue
  <2> QED BY <2>1, <2>2
<1>3. IInv /\ WalletTranscript /\ ReaderTranscript => AcceptanceMeansTruth
  BY <1>1, <1>2, WalletHasProof DEF AcceptanceMeansTruth
<1> QED BY <1>3, InitInv, NextKeepsInv, InitTranscript, NextTranscript,
           InitReaderTranscript, NextReaderTranscript, PTL DEF Spec
=============================================================================
