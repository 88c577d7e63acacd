----------------------------- MODULE CircuitProofs -----------------------------
(***************************************************************************)
(* CircuitIsTheProgram is an invariant of Compiler and FileIsTheCircuit    *)
(* one of CircuitIO: a program, its circuit and the circuit's file say the *)
(* same.                                                                   *)
(*                                                                         *)
(* For the first, the calls keep the nodes of a program that is being      *)
(* built such that what the layers carry and check (CompilerProofs) is     *)
(* what CircuitIsTheProgram asks of a circuit.  For the second, a reader   *)
(* of bytes that nobody touched is where the writer was.                   *)
(***************************************************************************)
EXTENDS CompilerProofs, CircuitIO, SequenceTheorems

-----------------------------------------------------------------------------
(* The nodes of a program being built *)
Plain(ns) ==
  /\ \A i \in Ops(ns) : ~ns[i].is_output /\ ns[i].out_id = kWireIdUndefined /\ ns[i].key = KeyOf(ns[i])
  /\ NoTwins(ns)
InIdsOk(ns, nin) ==
  \A i \in Ops(ns) : IF ns[i].is_input THEN ns[i].in_id < nin ELSE ns[i].in_id = kWireIdUndefined

(* nin inputs, A the wires asserted so far, sh the wires shown, and plain  *)
(* while a tidy program has not shown any                                  *)
Frames(ns, nin, A, sh, plain) ==
  /\ Ok(ns) /\ InputsApart(ns) /\ InIdsOk(ns, nin) /\ NoZeroOperands(ns)
  /\ ZeroTerms(ns, A) /\ OutputsAreShown(ns, sh) /\ (plain => Plain(ns))
OldNodes(ns, ms) == Ops(ns) \subseteq Ops(ms) /\ \A i \in Ops(ns) : ms[i] = ns[i]

(* what may be pushed *)
Pushable(ns, nin, A, sh, plain, n) ==
  /\ NodeOk(ns, n)
  /\ IF n.is_input THEN n.in_id < nin /\ \A i \in Ops(ns) : ns[i].is_input => ns[i].in_id # n.in_id
     ELSE n.in_id = kWireIdUndefined
  /\ \A j \in 1..Len(n.terms) : ~IsZero(ns[n.terms[j].op0])
  /\ \A j \in 1..Len(n.terms) : n.terms[j].k = 0 =>
       Len(n.terms) = 1 /\ n.terms[1].op0 = 0 /\ n.terms[1].op1 \in A
  /\ n.is_output => ~n.is_input /\ \E j \in 1..Len(sh) : \E k \in Elt :
       \A w : Carries(ns, w) => \A X \in Inputs : Meaning(n.terms, w, X) = mulf(k, w[sh[j]][X])
  /\ plain => ~n.is_output /\ n.out_id = kWireIdUndefined

(* push_node() finds a node or adds one. *)
Adds(ns, n, ms, id) ==
  /\ id \notin Ops(ns) /\ Ops(ms) = Ops(ns) \union {id} /\ \A i \in Ops(ns) : ms[i] = ns[i]
  /\ ms[id].terms = n.terms /\ ms[id].is_input = n.is_input /\ ms[id].in_id = n.in_id
  /\ ms[id].is_output = n.is_output /\ ms[id].out_id = n.out_id /\ ms[id].key = KeyOf(n)
  /\ ms[id].is_assert0 = n.is_assert0
(* It finds one that is alike or adds one.                                 *)
LEMMA PushIs ==
  ASSUME NEW ns, Ok(ns), NEW n, NodeOk(ns, n)
  PROVE  LET r == push_node(ns, n)
         IN  \/ r.ns = ns /\ r.op \in Alike(ns, n)
             \/ Alike(ns, n) = {} /\ Adds(ns, n, r.ns, r.op)
<1> SUFFICES ASSUME NEW r, r = push_node(ns, n)
             PROVE  \/ r.ns = ns /\ r.op \in Alike(ns, n)
                    \/ Alike(ns, n) = {} /\ Adds(ns, n, r.ns, r.op)
  OBVIOUS
<1>1. CASE Alike(ns, n) # {}
  <2>1. r = [ns |-> ns, op |-> CHOOSE i \in Alike(ns, n) : TRUE] BY <1>1, Zenon DEF push_node
  <2> QED BY <1>1, <2>1
<1>2. CASE Alike(ns, n) = {}
  <2> DEFINE id == Size(ns)
             new == [n EXCEPT !.depth = DepthOf(ns, n), !.key = KeyOf(n)]
             ms == [i \in Ops(ns) \union {id} |-> IF i = id THEN new ELSE ns[i]]
  <2>1. r = [ns |-> ms, op |-> id] BY <1>2, Zenon DEF push_node, Size
  <2>2. id \in Nat /\ Ops(ns) = 0..(id - 1) BY Numbered DEF Ok
  <2>3. n \in NodeType BY DEF NodeOk
  <2>4. /\ new.terms = n.terms /\ new.is_input = n.is_input /\ new.in_id = n.in_id
        /\ new.is_output = n.is_output /\ new.out_id = n.out_id /\ new.key = KeyOf(n)
        /\ new.is_assert0 = n.is_assert0
    BY <2>3 DEF NodeType
  <2> HIDE DEF new
  <2>5. Ops(ms) = Ops(ns) \union {id} BY Zenon DEF Ops
  <2>6. id \notin Ops(ns)
    <3> HIDE DEF id
    <3> QED BY <2>2
  <2>7. ms[id] = new /\ \A i \in Ops(ns) : ms[i] = ns[i]
    <3> HIDE DEF id
    <3> QED BY <2>6
  <2> HIDE DEF ms, id
  <2>8. Adds(ns, n, ms, id) BY <2>4, <2>5, <2>6, <2>7 DEF Adds
  <2> QED BY <1>2, <2>1, <2>8
<1> QED BY <1>1, <1>2

(* What is pushed keeps the nodes as they should be. *)
Grows(ns, r, nin, A, sh, plain) ==
  Frames(r.ns, nin, A, sh, plain) /\ OldNodes(ns, r.ns) /\ r.op \in Ops(r.ns)
(* What is pushed keeps the nodes as they should be.                       *)
LEMMA PushGrows ==
  ASSUME NEW ns, NEW nin \in Nat, NEW A, NEW sh, NEW plain \in BOOLEAN, Frames(ns, nin, A, sh, plain),
         NEW n, Pushable(ns, nin, A, sh, plain, n)
  PROVE  Grows(ns, push_node(ns, n), nin, A, sh, plain)
<1> SUFFICES ASSUME NEW r, r = push_node(ns, n) PROVE Grows(ns, r, nin, A, sh, plain) OBVIOUS
<1>1. /\ Ok(ns) /\ InputsApart(ns) /\ InIdsOk(ns, nin) /\ NoZeroOperands(ns)
      /\ ZeroTerms(ns, A) /\ OutputsAreShown(ns, sh) /\ (plain => Plain(ns))
  BY DEF Frames
<1>2. NodeOk(ns, n) BY DEF Pushable
<1>3. Returns(ns, r) BY <1>1, <1>2, PushNode
<1>4. CASE r.ns = ns /\ r.op \in Alike(ns, n)
  <2>1. r.op \in Ops(ns) BY <1>4 DEF Alike
  <2> QED BY <1>4, <2>1 DEF Grows, OldNodes
<1>5. CASE Alike(ns, n) = {} /\ Adds(ns, n, r.ns, r.op)
  <2> DEFINE ms == r.ns   id == r.op
  <2>0. Ok(ms) /\ Extends(ns, ms) BY <1>3 DEF Returns
  <2> HIDE DEF ms, id
  <2>1. Adds(ns, n, ms, id) BY <1>5 DEF ms, id
  <2>2. /\ id \notin Ops(ns) /\ Ops(ms) = Ops(ns) \union {id} /\ \A i \in Ops(ns) : ms[i] = ns[i]
        /\ ms[id].terms = n.terms /\ ms[id].is_input = n.is_input /\ ms[id].in_id = n.in_id
        /\ ms[id].is_output = n.is_output /\ ms[id].out_id = n.out_id /\ ms[id].key = KeyOf(n)
        /\ ms[id].is_assert0 = n.is_assert0
    BY <2>1 DEF Adds
  <2>3. \A i \in Ops(ms) : i = id \/ (i \in Ops(ns) /\ ms[i] = ns[i]) BY <2>2
  <2>4. IF n.is_input THEN n.in_id < nin /\ \A i \in Ops(ns) : ns[i].is_input => ns[i].in_id # n.in_id
        ELSE n.in_id = kWireIdUndefined
    BY DEF Pushable
  <2>5. InputsApart(ms)
    <3> SUFFICES ASSUME NEW i \in Ops(ms), NEW j \in Ops(ms), ms[i].is_input, ms[j].is_input, ms[i].in_id = ms[j].in_id
                 PROVE  i = j
      BY DEF InputsApart
    <3>1. CASE i \in Ops(ns) /\ j \in Ops(ns) BY <1>1, <2>2, <3>1 DEF InputsApart
    <3>2. CASE i = id /\ j \in Ops(ns) BY <2>2, <2>4, <3>2
    <3>3. CASE j = id /\ i \in Ops(ns) BY <2>2, <2>4, <3>3
    <3> QED BY <2>3, <3>1, <3>2, <3>3
  <2>6. InIdsOk(ms, nin)
    <3> SUFFICES ASSUME NEW i \in Ops(ms)
                 PROVE  IF ms[i].is_input THEN ms[i].in_id < nin ELSE ms[i].in_id = kWireIdUndefined
      BY DEF InIdsOk
    <3>1. CASE i = id BY <2>2, <2>4, <3>1
    <3>2. CASE i \in Ops(ns) /\ ms[i] = ns[i] BY <1>1, <3>2 DEF InIdsOk
    <3> QED BY <2>3, <3>1, <3>2
  <2>7. \A x \in Ops(ns) : IsZero(ms[x]) <=> IsZero(ns[x]) BY <2>2
  <2>8. TermsOk(ns, n.terms) BY <1>2 DEF NodeOk
  <2>9. ASSUME NEW j \in 1..Len(n.terms) PROVE n.terms[j].op0 \in Ops(ns) /\ n.terms[j].op1 \in Ops(ns) /\ ~IsZero(ns[n.terms[j].op1])
    <3>1. n.terms \in Seq(TermType) /\ n.terms[j] \in TermType BY <2>8, <2>9 DEF TermsOk
    <3>2. n.terms[j].op0 \in Nat /\ n.terms[j].op0 <= n.terms[j].op1 /\ n.terms[j].op1 \in Ops(ns) /\ ~IsZero(ns[n.terms[j].op1])
      BY <2>8, <2>9, <3>1 DEF TermsOk, TermType
    <3> QED BY <1>1, <3>2, NodeFacts
  <2>10. NoZeroOperands(ms)
    <3> SUFFICES ASSUME NEW i \in Ops(ms), NEW j \in 1..Len(ms[i].terms)
                 PROVE  ~IsZero(ms[ms[i].terms[j].op0]) /\ ~IsZero(ms[ms[i].terms[j].op1])
      BY DEF NoZeroOperands
    <3>1. CASE i = id
      <4>1. j \in 1..Len(n.terms) /\ ms[i].terms = n.terms BY <2>2, <3>1
      <4>2. ~IsZero(ns[n.terms[j].op0]) BY <4>1 DEF Pushable
      <4> QED BY <2>7, <2>9, <4>1, <4>2
    <3>2. CASE i \in Ops(ns) /\ ms[i] = ns[i]
      <4>1. ns[i].terms[j].op0 \in Ops(ns) /\ ns[i].terms[j].op1 \in Ops(ns) BY <1>1, <3>2, NodeFacts
      <4>2. ~IsZero(ns[ns[i].terms[j].op0]) /\ ~IsZero(ns[ns[i].terms[j].op1]) BY <1>1, <3>2 DEF NoZeroOperands
      <4> QED BY <2>7, <3>2, <4>1, <4>2
    <3> QED BY <2>3, <3>1, <3>2
  <2>11. ZeroTerms(ms, A)
    <3> SUFFICES ASSUME NEW i \in Ops(ms), NEW j \in 1..Len(ms[i].terms), ms[i].terms[j].k = 0
                 PROVE  Len(ms[i].terms) = 1 /\ ms[i].terms[1].op0 = 0 /\ ms[i].terms[1].op1 \in A
      BY DEF ZeroTerms
    <3>1. CASE i = id BY <2>2, <3>1 DEF Pushable
    <3>2. CASE i \in Ops(ns) /\ ms[i] = ns[i] BY <1>1, <3>2 DEF ZeroTerms
    <3> QED BY <2>3, <3>1, <3>2
  <2>12. OutputsAreShown(ms, sh)
    <3>1. L!IsSeq(sh) /\ \A j \in 1..Len(sh) : sh[j] \in Ops(ms) /\ ms[sh[j]].is_output
      BY <1>1, <2>2 DEF OutputsAreShown
    <3>2. ASSUME NEW w, Carries(ms, w) PROVE Carries(ns, w) BY <1>1, <2>0, <3>2, CarriesOld
    <3>3. ASSUME NEW i \in Ops(ms), ms[i].is_output PROVE ShownMultiple(ms, sh, i)
      <4>1. CASE i = id
        <5>1. n.is_output /\ ms[i].terms = n.terms /\ ~ms[i].is_input BY <2>2, <3>3, <4>1 DEF Pushable
        <5>2. PICK j \in 1..Len(sh) : \E k \in Elt :
                \A w : Carries(ns, w) => \A X \in Inputs : Meaning(n.terms, w, X) = mulf(k, w[sh[j]][X])
          BY <5>1 DEF Pushable
        <5>3. PICK k \in Elt :
                \A w : Carries(ns, w) => \A X \in Inputs : Meaning(n.terms, w, X) = mulf(k, w[sh[j]][X])
          BY <5>2
        <5>4. ASSUME NEW w, Carries(ms, w), NEW X \in Inputs PROVE w[i][X] = mulf(k, w[sh[j]][X])
          <6>1. w[i][X] = Meaning(n.terms, w, X) BY <5>1, <5>4, ValueInField
          <6> QED BY <3>2, <5>3, <5>4, <6>1
        <5> QED BY <5>4 DEF ShownMultiple
      <4>2. CASE i \in Ops(ns) /\ ms[i] = ns[i]
        <5>1. ShownMultiple(ns, sh, i) BY <1>1, <3>3, <4>2 DEF OutputsAreShown
        <5>2. PICK j \in 1..Len(sh) : \E k \in Elt :
                \A w : Carries(ns, w) => \A X \in Inputs : w[i][X] = mulf(k, w[sh[j]][X])
          BY <5>1 DEF ShownMultiple
        <5> QED BY <3>2, <5>2 DEF ShownMultiple
      <4> QED BY <2>3, <4>1, <4>2
    <3> QED BY <3>1, <3>3 DEF OutputsAreShown
  <2>13. ASSUME plain PROVE Plain(ms)
    <3>1. /\ \A i \in Ops(ns) : ~ns[i].is_output /\ ns[i].out_id = kWireIdUndefined /\ ns[i].key = KeyOf(ns[i])
          /\ NoTwins(ns)
      BY <1>1, <2>13 DEF Plain
    <3>2. ~n.is_output /\ n.out_id = kWireIdUndefined BY <2>13 DEF Pushable
    <3>3. KeyOf(ms[id]) = KeyOf(n) BY <2>2 DEF KeyOf
    <3>4. ASSUME NEW i \in Ops(ns), ~ns[i].is_input, ~n.is_input, ns[i].terms = n.terms PROVE FALSE
      <4>1. ns[i].in_id = n.in_id BY <1>1, <2>4, <3>4 DEF InIdsOk
      <4>2. ns[i].is_output = FALSE /\ n.is_output = FALSE /\ ns[i].is_input = FALSE /\ n.is_input = FALSE
        <5>1. ns[i] \in NodeType /\ n \in NodeType BY <1>1, <1>2, NodeFacts DEF NodeOk
        <5> QED BY <3>1, <3>2, <3>4, <5>1 DEF NodeType
      <4>3. Content(ns[i]) = Content(n) BY <3>1, <3>2, <3>4, <4>1, <4>2 DEF Content
      <4>4. ns[i].key = KeyOf(n) BY <3>1, <3>2, <4>2 DEF KeyOf
      <4> QED BY <1>5, <4>3, <4>4 DEF Alike
    <3>5. NoTwins(ms)
      <4> SUFFICES ASSUME NEW i \in Ops(ms), NEW j \in Ops(ms), ~ms[i].is_input, ~ms[j].is_input, ms[i].terms = ms[j].terms
                   PROVE  i = j
        BY DEF NoTwins
      <4>1. CASE i \in Ops(ns) /\ j \in Ops(ns) BY <2>2, <3>1, <4>1 DEF NoTwins
      <4>2. CASE i = id /\ j \in Ops(ns) BY <2>2, <3>4, <4>2
      <4>3. CASE j = id /\ i \in Ops(ns) BY <2>2, <3>4, <4>3
      <4> QED BY <2>3, <4>1, <4>2, <4>3
    <3>6. ASSUME NEW i \in Ops(ms) PROVE ~ms[i].is_output /\ ms[i].out_id = kWireIdUndefined /\ ms[i].key = KeyOf(ms[i])
      BY <2>2, <2>3, <3>1, <3>2, <3>3
    <3> QED BY <3>5, <3>6 DEF Plain
  <2>14. Frames(ms, nin, A, sh, plain) BY <2>0, <2>5, <2>6, <2>10, <2>11, <2>12, <2>13 DEF Frames
  <2>15. OldNodes(ns, ms) /\ id \in Ops(ms) BY <2>2 DEF OldNodes
  <2> QED BY <2>14, <2>15 DEF Grows, ms, id
<1> QED BY <1>1, <1>2, <1>4, <1>5, PushIs

(* The calls keep the nodes as they should be.  One without effect does.   *)
LEMMA Stays ==
  ASSUME NEW ns, NEW nin, NEW A, NEW sh, NEW plain, Frames(ns, nin, A, sh, plain), NEW i \in Ops(ns)
  PROVE  Grows(ns, [ns |-> ns, op |-> i], nin, A, sh, plain)
BY DEF Grows, OldNodes

(* So do two calls in turn. *)
LEMMA GrowsTwice ==
  ASSUME NEW ns, NEW r, NEW q, NEW nin, NEW A, NEW sh, NEW plain,
         Grows(ns, r, nin, A, sh, plain), Grows(r.ns, q, nin, A, sh, plain)
  PROVE  Grows(ns, q, nin, A, sh, plain)
BY DEF Grows, OldNodes

(* A new sum of terms with coefficients over wires that are not empty sums *)
(* may be pushed.                                                          *)
LEMMA NodePushable ==
  ASSUME NEW ns, NEW nin, NEW A, NEW sh, NEW plain, NEW ts \in Seq(TermType), NodeOk(ns, Node(ts)),
         \A j \in 1..Len(ts) : ts[j].k # 0 /\ ~IsZero(ns[ts[j].op0])
  PROVE  Pushable(ns, nin, A, sh, plain, Node(ts))
<1> DEFINE n == Node(ts)
<1>1. /\ n.terms = ts /\ n.is_input = FALSE /\ n.is_output = FALSE /\ n.in_id = kWireIdUndefined
      /\ n.out_id = kWireIdUndefined
  BY DEF Node
<1> HIDE DEF n
<1>2. NodeOk(ns, n) BY DEF n
<1> QED BY <1>1, <1>2 DEF Pushable, n

(* So may a term. *)
LEMMA TermPushable ==
  ASSUME NEW ns, Ok(ns), NEW nin, NEW A, NEW sh, NEW plain, NEW k \in Elt, NEW a \in Ops(ns), NEW b \in Ops(ns),
         ~IsZero(ns[a]), ~IsZero(ns[b])
  PROVE  Pushable(ns, nin, A, sh, plain, TermNode(k, a, b))
<1> DEFINE t == Term(k, a, b)
<1>1. NodeOk(ns, TermNode(k, a, b)) BY ATermNode
<1>2. CASE k = 0
  <2>1. TermNode(k, a, b) = Node(<<>>) BY <1>2 DEF TermNode
  <2>2. <<>> \in Seq(TermType) /\ \A j \in 1..Len(<<>>) : FALSE OBVIOUS
  <2> QED BY <1>1, <2>1, <2>2, NodePushable
<1>3. CASE k # 0
  <2>1. TermNode(k, a, b) = Node(<<t>>) BY <1>3 DEF TermNode
  <2>2. t.k = k /\ (t.op0 = a \/ t.op0 = b) BY DEF Term
  <2>3. a \in Nat /\ b \in Nat BY NodeFacts
  <2>4. t \in TermType BY <2>3 DEF Term, TermType
  <2> HIDE DEF t
  <2>5. <<t>> \in Seq(TermType) /\ \A j \in 1..Len(<<t>>) : <<t>>[j] = t BY <2>4
  <2> QED BY <1>1, <1>3, <2>1, <2>2, <2>5, NodePushable
<1> QED BY <1>2, <1>3

(* konst() keeps the nodes as they should be,                              *)
LEMMA KonstGrows ==
  ASSUME NEW ns, NEW nin \in Nat, NEW A, NEW sh, NEW plain \in BOOLEAN, Frames(ns, nin, A, sh, plain), NEW k \in Elt
  PROVE  Grows(ns, konst(ns, k), nin, A, sh, plain)
<1>1. Ok(ns) BY DEF Frames
<1>2. 0 \in Ops(ns) /\ ~IsZero(ns[0]) BY <1>1, WireOfOne
<1>3. Pushable(ns, nin, A, sh, plain, TermNode(k, 0, 0)) BY <1>1, <1>2, TermPushable
<1>4. konst(ns, k) = push_node(ns, TermNode(k, 0, 0)) BY Zenon DEF konst
<1> QED BY <1>3, <1>4, PushGrows

(* A scaled node may be pushed: it has the flags of the node and asserts   *)
(* or shows a multiple of what that does.                                  *)
LEMMA ScaledPushable ==
  ASSUME NEW ns, NEW nin \in Nat, NEW A, NEW sh, NEW plain \in BOOLEAN, Frames(ns, nin, A, sh, plain),
         NEW k \in Elt, k # 0, NEW a \in Ops(ns)
  PROVE  Pushable(ns, nin, A, sh, plain, scale(ns, k, a))
<1> DEFINE m == materialize_input(ns, a)
           us == Scaled(m.terms, k)
           n == [m EXCEPT !.terms = us]
<1>0. /\ Ok(ns) /\ InIdsOk(ns, nin) /\ NoZeroOperands(ns) /\ ZeroTerms(ns, A) /\ OutputsAreShown(ns, sh)
      /\ (plain => Plain(ns))
  BY DEF Frames
<1>1. scale(ns, k, a) = n BY Zenon DEF scale
<1>2. /\ NodeOk(ns, scale(ns, k, a)) /\ ~scale(ns, k, a).is_input
      /\ \A w : \A X \in Inputs : Carries(ns, w) => Meaning(scale(ns, k, a).terms, w, X) = mulf(k, w[a][X])
  BY <1>0, ScaledNode
<1>3. NodeOk(ns, m) BY <1>0, Materialized
<1>4. m = IF ns[a].is_input THEN TermNode(1, 0, a) ELSE ns[a] BY Zenon DEF materialize_input
<1>5. Pushable(ns, nin, A, sh, plain, TermNode(1, 0, a)) \/ ~ns[a].is_input
  <2> SUFFICES ASSUME ns[a].is_input PROVE Pushable(ns, nin, A, sh, plain, TermNode(1, 0, a)) OBVIOUS
  <2>1. 0 \in Ops(ns) /\ ~IsZero(ns[0]) BY <1>0, WireOfOne
  <2>2. ~IsZero(ns[a]) BY DEF IsZero
  <2> QED BY <1>0, <2>1, <2>2, TermPushable, TheModulus
<1>6. ns[a].is_input => /\ ~TermNode(1, 0, a).is_output /\ TermNode(1, 0, a).in_id = kWireIdUndefined
                        /\ TermNode(1, 0, a).out_id = kWireIdUndefined
  BY DEF TermNode, Node
<1> HIDE DEF m
<1>7. m \in NodeType /\ m.terms \in Seq(TermType) /\ Len(m.terms) \in Nat /\ DOMAIN m.terms = 1..Len(m.terms)
  BY <1>3 DEF NodeOk, NodeType
<1>8. \A j \in 1..Len(m.terms) :
        /\ us[j].op0 = m.terms[j].op0 /\ us[j].op1 = m.terms[j].op1
        /\ us[j].k = mulf(m.terms[j].k, k) /\ m.terms[j].k \in Elt
  <2> TAKE j \in 1..Len(m.terms)
  <2>1. m.terms[j] \in TermType BY <1>7
  <2>2. us[j] = [m.terms[j] EXCEPT !.k = mulf(m.terms[j].k, k)] BY <1>7 DEF Scaled
  <2> HIDE DEF us
  <2> QED BY <2>1, <2>2 DEF TermType
<1>9. Len(us) = Len(m.terms)
  <2>1. us = [j \in 1..Len(m.terms) |-> us[j]] BY <1>7 DEF Scaled
  <2> HIDE DEF us
  <2> QED BY <1>7, <2>1, L!SequenceOfLength
<1> HIDE DEF us
<1>10. /\ n.terms = us /\ n.is_input = m.is_input /\ n.in_id = m.in_id /\ n.is_output = m.is_output
       /\ n.out_id = m.out_id
  BY <1>7 DEF NodeType
<1> HIDE DEF n
<1>11. NodeOk(ns, n) /\ ~n.is_input BY <1>1, <1>2
<1>12. n.in_id = kWireIdUndefined
  <2>1. CASE ns[a].is_input BY <1>4, <1>6, <1>10, <2>1
  <2>2. CASE ~ns[a].is_input BY <1>0, <1>4, <1>10, <2>2 DEF InIdsOk
  <2> QED BY <2>1, <2>2
<1>13. ASSUME NEW j \in 1..Len(us)
       PROVE  /\ ~IsZero(ns[us[j].op0])
              /\ us[j].k = 0 => Len(us) = 1 /\ us[1].op0 = 0 /\ us[1].op1 \in A
  <2>1. j \in 1..Len(m.terms) BY <1>9
  <2>2. /\ ~IsZero(ns[m.terms[j].op0])
        /\ m.terms[j].k = 0 => Len(m.terms) = 1 /\ m.terms[1].op0 = 0 /\ m.terms[1].op1 \in A
    <3>1. CASE ns[a].is_input
      <4>1. Pushable(ns, nin, A, sh, plain, m) BY <1>4, <1>5, <3>1
      <4> QED BY <2>1, <4>1 DEF Pushable
    <3>2. CASE ~ns[a].is_input
      <4>1. m.terms = ns[a].terms BY <1>4, <3>2
      <4> QED BY <1>0, <2>1, <4>1 DEF NoZeroOperands, ZeroTerms
    <3> QED BY <3>1, <3>2
  <2>3. us[j].k = 0 => m.terms[j].k = 0 BY <1>8, <2>1, FieldAssumption
  <2>4. 1 \in 1..Len(m.terms) BY <1>7, <2>1
  <2> QED BY <1>8, <1>9, <2>1, <2>2, <2>3, <2>4
<1>14. ASSUME n.is_output
       PROVE  \E j \in 1..Len(sh) : \E circ \in Elt :
                \A w : Carries(ns, w) => \A X \in Inputs : Meaning(n.terms, w, X) = mulf(circ, w[sh[j]][X])
  <2>1. ~ns[a].is_input /\ ns[a].is_output BY <1>4, <1>6, <1>10, <1>14
  <2>2. ShownMultiple(ns, sh, a) BY <1>0, <2>1 DEF OutputsAreShown
  <2>3. PICK j \in 1..Len(sh) : \E circ \in Elt :
          \A w : Carries(ns, w) => \A X \in Inputs : w[a][X] = mulf(circ, w[sh[j]][X])
    BY <2>2 DEF ShownMultiple
  <2>4. PICK circ \in Elt : \A w : Carries(ns, w) => \A X \in Inputs : w[a][X] = mulf(circ, w[sh[j]][X]) BY <2>3
  <2>5. mulf(k, circ) \in Elt BY ClosedField
  <2>6. ASSUME NEW w, Carries(ns, w), NEW X \in Inputs PROVE Meaning(n.terms, w, X) = mulf(mulf(k, circ), w[sh[j]][X])
    <3>1. Meaning(n.terms, w, X) = mulf(k, w[a][X]) BY <1>1, <1>2, <2>6
    <3>2. w[a][X] = mulf(circ, w[sh[j]][X]) BY <2>4, <2>6
    <3>3. w[sh[j]][X] \in Elt
      <4>1. sh[j] \in Ops(ns) BY <1>0 DEF OutputsAreShown
      <4> QED BY <2>6, <4>1, ValueInField
    <3>4. mulf(mulf(k, circ), w[sh[j]][X]) = mulf(k, mulf(circ, w[sh[j]][X])) BY <3>3, Ring
    <3> QED BY <3>1, <3>2, <3>4
  <2> QED BY <2>5, <2>6
<1>15. plain => ~n.is_output /\ n.out_id = kWireIdUndefined
  <2>1. CASE ns[a].is_input BY <1>4, <1>6, <1>10, <2>1
  <2>2. CASE ~ns[a].is_input BY <1>0, <1>4, <1>10, <2>2 DEF Plain
  <2> QED BY <2>1, <2>2
<1>16. Pushable(ns, nin, A, sh, plain, n)
  BY <1>10, <1>11, <1>12, <1>13, <1>14, <1>15 DEF Pushable
<1> QED BY <1>1, <1>16

(* mul(k, op) keeps the nodes as they should be,                           *)
LEMMA Mul2Grows ==
  ASSUME NEW ns, NEW nin \in Nat, NEW A, NEW sh, NEW plain \in BOOLEAN, Frames(ns, nin, A, sh, plain),
         NEW k \in Elt, NEW a \in Ops(ns)
  PROVE  Grows(ns, mul2(ns, k, a), nin, A, sh, plain)
<1>1. CASE k = 0
  <2>1. mul2(ns, k, a) = konst(ns, k) BY <1>1, Zenon DEF mul2
  <2> QED BY <2>1, KonstGrows
<1>2. CASE k # 0 /\ (k = 1 \/ IsZero(ns[a]))
  <2>1. mul2(ns, k, a) = [ns |-> ns, op |-> a] BY <1>2, Zenon DEF mul2
  <2> QED BY <2>1, Stays
<1>3. CASE k # 0 /\ ~(k = 1 \/ IsZero(ns[a]))
  <2>1. mul2(ns, k, a) = push_node(ns, scale(ns, k, a)) BY <1>3, Zenon DEF mul2
  <2>2. Pushable(ns, nin, A, sh, plain, scale(ns, k, a)) BY <1>3, ScaledPushable
  <2> QED BY <2>1, <2>2, PushGrows
<1> QED BY <1>1, <1>2, <1>3

(* mul(k, a, b) does,                                                      *)
LEMMA Mul3Grows ==
  ASSUME NEW ns, NEW nin \in Nat, NEW A, NEW sh, NEW plain \in BOOLEAN, Frames(ns, nin, A, sh, plain),
         NEW k \in Elt, NEW a \in Ops(ns), NEW b \in Ops(ns)
  PROVE  Grows(ns, mul3(ns, k, a, b), nin, A, sh, plain)
<1> DEFINE p == Peel(ns, a)   q == Peel(ns, b)
<1>0. Ok(ns) BY DEF Frames
<1>1. mul3(ns, k, a, b) = Mul3Of(ns, k, a, b, p, q) BY Zenon DEF mul3, Mul3Of
<1>2. PeelOk(ns, p, a) /\ PeelOk(ns, q, b) BY <1>0, Peeled
<1> HIDE DEF p, q
<1>3. /\ p.k \in Elt /\ p.op \in Ops(ns) /\ q.k \in Elt /\ q.op \in Ops(ns)
      /\ mulf(k, p.k) \in Elt /\ mulf(mulf(k, p.k), q.k) \in Elt
  BY <1>2, ClosedField DEF PeelOk
<1>4. CASE IsZero(ns[p.op])
  <2>1. Mul3Of(ns, k, a, b, p, q) = [ns |-> ns, op |-> p.op] BY <1>4, Zenon DEF Mul3Of
  <2> QED BY <1>1, <1>3, <2>1, Stays
<1>5. CASE ~IsZero(ns[p.op]) /\ constant(ns[p.op])
  <2>1. Mul3Of(ns, k, a, b, p, q) = mul2(ns, mulf(k, Constant(ns, p)), b) BY <1>5, Zenon DEF Mul3Of
  <2>2. ns[p.op].terms[1].k \in Elt BY <1>0, <1>3, <1>5, FirstTerm DEF constant
  <2>3. mulf(k, Constant(ns, p)) \in Elt BY <1>3, <2>2, ClosedField DEF Constant
  <2> QED BY <1>1, <2>1, <2>3, Mul2Grows
<1>6. CASE ~IsZero(ns[p.op]) /\ ~constant(ns[p.op]) /\ IsZero(ns[q.op])
  <2>1. Mul3Of(ns, k, a, b, p, q) = [ns |-> ns, op |-> q.op] BY <1>6, Zenon DEF Mul3Of
  <2> QED BY <1>1, <1>3, <2>1, Stays
<1>7. CASE ~IsZero(ns[p.op]) /\ ~constant(ns[p.op]) /\ ~IsZero(ns[q.op]) /\ constant(ns[q.op])
  <2>1. Mul3Of(ns, k, a, b, p, q) = mul2(ns, mulf(mulf(k, p.k), Constant(ns, q)), p.op) BY <1>7, Zenon DEF Mul3Of
  <2>2. ns[q.op].terms[1].k \in Elt BY <1>0, <1>3, <1>7, FirstTerm DEF constant
  <2>3. Constant(ns, q) \in Elt BY <1>3, <2>2, ClosedField DEF Constant
  <2>4. mulf(mulf(k, p.k), Constant(ns, q)) \in Elt BY <1>3, <2>3, ClosedField
  <2> QED BY <1>1, <1>3, <2>1, <2>4, Mul2Grows
<1>8. CASE ~IsZero(ns[p.op]) /\ ~constant(ns[p.op]) /\ ~IsZero(ns[q.op]) /\ ~constant(ns[q.op])
  <2> DEFINE n == TermNode(mulf(mulf(k, p.k), q.k), p.op, q.op)
  <2>1. Mul3Of(ns, k, a, b, p, q) = push_node(ns, n) BY <1>8, Zenon DEF Mul3Of
  <2>2. Pushable(ns, nin, A, sh, plain, n) BY <1>0, <1>3, <1>8, TermPushable
  <2> HIDE DEF n
  <2> QED BY <1>1, <2>1, <2>2, PushGrows
<1> QED BY <1>4, <1>5, <1>6, <1>7, <1>8

(* and so does a term of one wire.                                         *)
LEMMA LinearGrows ==
  ASSUME NEW ns, NEW nin \in Nat, NEW A, NEW sh, NEW plain \in BOOLEAN, Frames(ns, nin, A, sh, plain),
         NEW k \in Elt, NEW a \in Ops(ns)
  PROVE  Grows(ns, linear(ns, k, a), nin, A, sh, plain)
<1>1. 0 \in Ops(ns) BY DEF Frames, Ok, Typed
<1>2. linear(ns, k, a) = mul3(ns, k, 0, a) BY Zenon DEF linear
<1> QED BY <1>1, <1>2, Mul3Grows

(* merge() leaves no term without coefficient, and no first operand that   *)
(* is not one of the terms merged.                                         *)
LEMMA MergeIs ==
  ASSUME NEW t0 \in Seq(TermType), NEW t1 \in Seq(TermType)
  PROVE  \E m : Merges(t0, t1, m, Len(t0) + Len(t1)) /\ merge_terms(t0, t1) = m[Len(t0) + Len(t1)].terms
<1> DEFINE n == Len(t0) + Len(t1)
           m == CHOOSE f : f = [i \in 0..n |-> IF i = 0 THEN [i0 |-> 0, i1 |-> 0, terms |-> <<>>]
                                               ELSE merge_step(t0, t1, f[i - 1])]
<1>1. merge_terms(t0, t1) = m[n].terms BY Zenon DEF merge_terms
<1>2. Merges(t0, t1, m, n)
  <2>0. n \in Nat OBVIOUS
  <2> HIDE DEF n
  <2>1. \E f : f = [i \in 0..n |-> IF i = 0 THEN [i0 |-> 0, i1 |-> 0, terms |-> <<>>]
                                   ELSE merge_step(t0, t1, f[i - 1])]
    <3>1. \E f : Merges(t0, t1, f, n) BY <2>0, MergeExists
    <3> QED BY <3>1, Zenon DEF Merges
  <2>2. m = [i \in 0..n |-> IF i = 0 THEN [i0 |-> 0, i1 |-> 0, terms |-> <<>>]
                            ELSE merge_step(t0, t1, m[i - 1])]
    BY <2>1, Zenon
  <2> HIDE DEF m
  <2> QED BY <2>2, Zenon DEF Merges
<1> HIDE DEF m
<1> QED BY <1>1, <1>2

OfBoth(t0, t1) == {t0[j].op0 : j \in 1..Len(t0)} \union {t1[j].op0 : j \in 1..Len(t1)}
Mixed(t0, t1, s) ==
  /\ s.i0 \in Nat /\ s.i1 \in Nat /\ s.i0 <= Len(t0) /\ s.i1 <= Len(t1) /\ s.terms \in Seq(TermType)
  /\ \A j \in 1..Len(s.terms) : s.terms[j].k # 0 /\ s.terms[j].op0 \in OfBoth(t0, t1)
(* Taking a term of either sum, or two joined, takes an operand of one.    *)
LEMMA TakeMixed ==
  ASSUME NEW t0, NEW t1, NEW s, Mixed(t0, t1, s), NEW n0 \in Nat, NEW n1 \in Nat,
         s.i0 + n0 <= Len(t0), s.i1 + n1 <= Len(t1), NEW t \in TermType, t.op0 \in OfBoth(t0, t1)
  PROVE  Mixed(t0, t1, [i0 |-> s.i0 + n0, i1 |-> s.i1 + n1,
                        terms |-> IF t.k = 0 THEN s.terms ELSE Append(s.terms, t)])
<1> DEFINE q == [i0 |-> s.i0 + n0, i1 |-> s.i1 + n1,
                 terms |-> IF t.k = 0 THEN s.terms ELSE Append(s.terms, t)]
<1>1. /\ s.i0 \in Nat /\ s.i1 \in Nat /\ s.terms \in Seq(TermType)
      /\ \A j \in 1..Len(s.terms) : s.terms[j].k # 0 /\ s.terms[j].op0 \in OfBoth(t0, t1)
  BY DEF Mixed
<1>2. /\ q.i0 = s.i0 + n0 /\ q.i1 = s.i1 + n1
      /\ q.terms = IF t.k = 0 THEN s.terms ELSE Append(s.terms, t)
  OBVIOUS
<1> HIDE DEF q
<1>3. CASE t.k = 0 BY <1>1, <1>2, <1>3 DEF Mixed, q
<1>4. CASE t.k # 0
  <2>1. q.terms = Append(s.terms, t) /\ q.terms \in Seq(TermType) /\ Len(q.terms) = Len(s.terms) + 1
    BY <1>1, <1>2, <1>4
  <2>2. ASSUME NEW j \in 1..Len(q.terms) PROVE q.terms[j].k # 0 /\ q.terms[j].op0 \in OfBoth(t0, t1)
    <3>1. CASE j = Len(s.terms) + 1
      <4>1. q.terms[j] = t BY <1>1, <2>1, <3>1
      <4> QED BY <1>4, <4>1
    <3>2. CASE j # Len(s.terms) + 1
      <4>1. j \in 1..Len(s.terms) /\ q.terms[j] = s.terms[j] BY <1>1, <2>1, <3>2
      <4> QED BY <1>1, <4>1
    <3> QED BY <3>1, <3>2
  <2>3. q.i0 \in Nat /\ q.i1 \in Nat /\ q.i0 <= Len(t0) /\ q.i1 <= Len(t1) BY <1>1, <1>2
  <2> QED BY <2>1, <2>2, <2>3 DEF Mixed, q
<1> QED BY <1>3, <1>4

(* Each step of the loop of merge() takes terms like that.                 *)
LEMMA StepMixed ==
  ASSUME NEW t0 \in Seq(TermType), NEW t1 \in Seq(TermType), NEW s, Mixed(t0, t1, s)
  PROVE  Mixed(t0, t1, merge_step(t0, t1, s))
<1> DEFINE a == t0[s.i0 + 1]   b == t1[s.i1 + 1]   more0 == s.i0 < Len(t0)   more1 == s.i1 < Len(t1)
           circ == [a EXCEPT !.k = addf(a.k, b.k)]
           Take(t, n0, n1) == [i0 |-> s.i0 + n0, i1 |-> s.i1 + n1,
                               terms |-> IF t.k = 0 THEN s.terms ELSE Append(s.terms, t)]
<1>1. merge_step(t0, t1, s) =
        IF ~more0 /\ ~more1 THEN s
        ELSE IF more0 /\ more1 /\ eqndx(a, b) THEN Take(circ, 1, 1)
        ELSE IF more0 /\ (more1 => ltndx(a, b)) THEN Take(a, 1, 0)
        ELSE Take(b, 0, 1)
  BY Zenon DEF merge_step
<1>2. s.i0 \in Nat /\ s.i1 \in Nat /\ Len(t0) \in Nat /\ Len(t1) \in Nat /\ s.i0 <= Len(t0) /\ s.i1 <= Len(t1) BY DEF Mixed
<1>3. ASSUME more0 PROVE a \in TermType /\ a.op0 \in OfBoth(t0, t1) /\ s.i0 + 1 <= Len(t0)
  <2>1. s.i0 + 1 \in 1..Len(t0) BY <1>2, <1>3
  <2> QED BY <2>1 DEF OfBoth
<1>4. ASSUME more1 PROVE b \in TermType /\ b.op0 \in OfBoth(t0, t1) /\ s.i1 + 1 <= Len(t1)
  <2>1. s.i1 + 1 \in 1..Len(t1) BY <1>2, <1>4
  <2> QED BY <2>1 DEF OfBoth
<1>5. ASSUME more0, more1 PROVE circ \in TermType /\ circ.op0 = a.op0
  <2> HIDE DEF a, b
  <2>1. a \in TermType /\ a.k \in Elt /\ b.k \in Elt BY <1>3, <1>4, <1>5 DEF TermType
  <2>2. addf(a.k, b.k) \in Elt BY <2>1, ClosedField
  <2> QED BY <2>1, <2>2 DEF TermType
<1> HIDE DEF a, b, circ
<1>6. 0 \in Nat /\ 1 \in Nat /\ s.i0 + 0 <= Len(t0) /\ s.i1 + 0 <= Len(t1) BY <1>2
<1>7. ASSUME more0, more1 PROVE Mixed(t0, t1, Take(circ, 1, 1)) BY <1>3, <1>4, <1>5, <1>6, <1>7, TakeMixed
<1>8. ASSUME more0 PROVE Mixed(t0, t1, Take(a, 1, 0)) BY <1>3, <1>6, <1>8, TakeMixed
<1>9. ASSUME more1 PROVE Mixed(t0, t1, Take(b, 0, 1)) BY <1>4, <1>6, <1>9, TakeMixed
<1> HIDE DEF Take, more0, more1
<1> QED BY <1>1, <1>7, <1>8, <1>9

(* merge() leaves no term without coefficient and only operands there      *)
(* were.                                                                   *)
LEMMA MergedFit ==
  ASSUME NEW t0 \in Seq(TermType), NEW t1 \in Seq(TermType)
  PROVE  LET ts == merge_terms(t0, t1)
         IN  \A j \in 1..Len(ts) : ts[j].k # 0 /\ ts[j].op0 \in OfBoth(t0, t1)
<1> DEFINE n == Len(t0) + Len(t1)
<1>1. PICK m : Merges(t0, t1, m, n) /\ merge_terms(t0, t1) = m[n].terms BY MergeIs
<1>2. n \in Nat OBVIOUS
<1> HIDE DEF n
<1> DEFINE S == {i \in Nat : i <= n => Mixed(t0, t1, m[i])}
<1>3. 0 \in S
  <2> DEFINE s == [i0 |-> 0, i1 |-> 0, terms |-> <<>>]
  <2>1. 0 \in 0..n BY <1>2
  <2>2. m[0] = s BY <1>1, <2>1, Zenon DEF Merges
  <2>3. s.i0 = 0 /\ s.i1 = 0 /\ s.terms = <<>> OBVIOUS
  <2> HIDE DEF s
  <2>4. s.terms \in Seq(TermType) /\ \A j \in 1..Len(s.terms) : FALSE BY <2>3
  <2>5. 0 <= Len(t0) /\ 0 <= Len(t1) OBVIOUS
  <2>6. Len(t0) \in Nat /\ Len(t1) \in Nat OBVIOUS
  <2>7. Mixed(t0, t1, s) BY <2>3, <2>4, <2>5, <2>6 DEF Mixed
  <2> QED BY <2>2, <2>7
<1>4. ASSUME NEW i \in Nat, i \in S PROVE i + 1 \in S
  <2>1. CASE i + 1 <= n
    <3>1. Mixed(t0, t1, m[i]) BY <1>2, <1>4, <2>1
    <3>2. i + 1 \in 0..n /\ i + 1 # 0 /\ (i + 1) - 1 = i BY <1>2, <2>1
    <3>3. m[i + 1] = merge_step(t0, t1, m[i]) BY <1>1, <3>2 DEF Merges
    <3>4. Mixed(t0, t1, m[i + 1]) BY <3>1, <3>3, StepMixed
    <3> QED BY <3>4
  <2> QED BY <2>1
<1>5. Mixed(t0, t1, m[n])
  <2>1. \A i \in Nat : i \in S
    <3> HIDE DEF S
    <3> QED BY <1>3, <1>4, L!Induction, Zenon
  <2> QED BY <1>2, <2>1
<1> QED BY <1>1, <1>5 DEF Mixed

(* A merged sum may be pushed. *)
LEMMA MergeGrows ==
  ASSUME NEW ns, NEW nin \in Nat, NEW A, NEW sh, NEW plain \in BOOLEAN, Frames(ns, nin, A, sh, plain),
         NEW a \in Ops(ns), NEW b \in Ops(ns)
  PROVE  Grows(ns, push_node(ns, merge(ns, a, b)), nin, A, sh, plain)
<1> DEFINE t0 == materialize_input(ns, a).terms
           t1 == materialize_input(ns, b).terms
           ts == merge_terms(t0, t1)
<1>0. Ok(ns) /\ NoZeroOperands(ns) BY DEF Frames
<1>1. merge(ns, a, b) = Node(ts) BY Zenon DEF merge
<1>2. ASSUME NEW x \in Ops(ns)
      PROVE  LET t == materialize_input(ns, x).terms
             IN  TermsOk(ns, t) /\ t \in Seq(TermType) /\ \A j \in 1..Len(t) : ~IsZero(ns[t[j].op0])
  <2> DEFINE t == materialize_input(ns, x).terms
  <2>1. NodeOk(ns, materialize_input(ns, x)) BY <1>0, Materialized
  <2>2. TermsOk(ns, t) /\ t \in Seq(TermType) BY <2>1 DEF NodeOk, TermsOk
  <2>3. materialize_input(ns, x) = IF ns[x].is_input THEN TermNode(1, 0, x) ELSE ns[x]
    BY Zenon DEF materialize_input
  <2>4. CASE ns[x].is_input
    <3>1. 0 \in Ops(ns) /\ ~IsZero(ns[0]) /\ ~IsZero(ns[x]) BY <1>0, <2>4, WireOfOne DEF IsZero
    <3>2. Pushable(ns, 0, {}, <<>>, FALSE, TermNode(1, 0, x)) BY <1>0, <3>1, TermPushable, TheModulus
    <3>3. \A j \in 1..Len(t) : ~IsZero(ns[t[j].op0]) BY <2>3, <2>4, <3>2 DEF Pushable
    <3> QED BY <2>2, <3>3
  <2>5. CASE ~ns[x].is_input
    <3>1. t = ns[x].terms BY <2>3, <2>5
    <3>2. \A j \in 1..Len(ns[x].terms) : ~IsZero(ns[ns[x].terms[j].op0]) BY <1>0 DEF NoZeroOperands
    <3> QED BY <2>2, <3>1, <3>2
  <2> QED BY <2>4, <2>5
<1>3. /\ TermsOk(ns, t0) /\ t0 \in Seq(TermType) /\ \A j \in 1..Len(t0) : ~IsZero(ns[t0[j].op0])
      /\ TermsOk(ns, t1) /\ t1 \in Seq(TermType) /\ \A j \in 1..Len(t1) : ~IsZero(ns[t1[j].op0])
  BY <1>2
<1> HIDE DEF t0, t1
<1>4. \A x \in OfBoth(t0, t1) : ~IsZero(ns[x]) BY <1>3 DEF OfBoth
<1>5. \A j \in 1..Len(ts) : ts[j].k # 0 /\ ts[j].op0 \in OfBoth(t0, t1) BY <1>3, MergedFit
<1>6. TermsOk(ns, ts) BY <1>0, <1>3, MergedTerms
<1> HIDE DEF ts
<1>7. ts \in Seq(TermType) BY <1>6 DEF TermsOk
<1>8. NodeOk(ns, Node(ts)) BY <1>6, <1>7, ANode DEF NodeOk
<1>9. Pushable(ns, nin, A, sh, plain, Node(ts)) BY <1>4, <1>5, <1>7, <1>8, NodePushable
<1> QED BY <1>1, <1>9, PushGrows

(* add() keeps the nodes as they should be,                                *)
LEMMA AddGrows ==
  ASSUME NEW ns, NEW nin \in Nat, NEW A, NEW sh, NEW plain \in BOOLEAN, Frames(ns, nin, A, sh, plain),
         NEW a \in Ops(ns), NEW b \in Ops(ns)
  PROVE  Grows(ns, add(ns, a, b), nin, A, sh, plain)
<1> DEFINE r0 == linear(ns, 1, a)   r1 == linear(ns, 1, b)
<1>1. CASE IsZero(ns[a])
  <2>1. add(ns, a, b) = [ns |-> ns, op |-> b] BY <1>1, Zenon DEF add
  <2> QED BY <2>1, Stays
<1>2. CASE ~IsZero(ns[a]) /\ IsZero(ns[b])
  <2>1. add(ns, a, b) = [ns |-> ns, op |-> a] BY <1>2, Zenon DEF add
  <2> QED BY <2>1, Stays
<1>3. CASE ~IsZero(ns[a]) /\ ~IsZero(ns[b]) /\ ns[a].depth < ns[b].depth
  <2> DEFINE q == push_node(r0.ns, merge(r0.ns, r0.op, b))
  <2>1. add(ns, a, b) = q BY <1>3, Zenon DEF add
  <2>2. Grows(ns, r0, nin, A, sh, plain) BY LinearGrows, TheModulus
  <2> HIDE DEF r0
  <2>3. Frames(r0.ns, nin, A, sh, plain) /\ r0.op \in Ops(r0.ns) /\ b \in Ops(r0.ns) BY <2>2 DEF Grows, OldNodes
  <2>4. Grows(r0.ns, q, nin, A, sh, plain) BY <2>3, MergeGrows
  <2> HIDE DEF q
  <2> QED BY <2>1, <2>2, <2>4, GrowsTwice
<1>4. CASE ~IsZero(ns[a]) /\ ~IsZero(ns[b]) /\ ~(ns[a].depth < ns[b].depth) /\ ns[b].depth < ns[a].depth
  <2> DEFINE q == push_node(r1.ns, merge(r1.ns, a, r1.op))
  <2>1. add(ns, a, b) = q BY <1>4, Zenon DEF add
  <2>2. Grows(ns, r1, nin, A, sh, plain) BY LinearGrows, TheModulus
  <2> HIDE DEF r1
  <2>3. Frames(r1.ns, nin, A, sh, plain) /\ r1.op \in Ops(r1.ns) /\ a \in Ops(r1.ns) BY <2>2 DEF Grows, OldNodes
  <2>4. Grows(r1.ns, q, nin, A, sh, plain) BY <2>3, MergeGrows
  <2> HIDE DEF q
  <2> QED BY <2>1, <2>2, <2>4, GrowsTwice
<1>5. CASE ~IsZero(ns[a]) /\ ~IsZero(ns[b]) /\ ~(ns[a].depth < ns[b].depth) /\ ~(ns[b].depth < ns[a].depth)
  <2>1. add(ns, a, b) = push_node(ns, merge(ns, a, b)) BY <1>5, Zenon DEF add
  <2> QED BY <2>1, MergeGrows
<1> QED BY <1>1, <1>2, <1>3, <1>4, <1>5

(* add() after a call that computed the second summand *)
LEMMA AddsAfter ==
  ASSUME NEW ns, NEW nin \in Nat, NEW A, NEW sh, NEW plain \in BOOLEAN, NEW a \in Ops(ns), NEW r,
         Grows(ns, r, nin, A, sh, plain)
  PROVE  Grows(ns, add(r.ns, a, r.op), nin, A, sh, plain)
<1>1. Frames(r.ns, nin, A, sh, plain) /\ r.op \in Ops(r.ns) /\ a \in Ops(r.ns) BY DEF Grows, OldNodes
<1>2. Grows(r.ns, add(r.ns, a, r.op), nin, A, sh, plain) BY <1>1, AddGrows
<1> QED BY <1>2, GrowsTwice

(* sub() does,                                                             *)
LEMMA SubGrows ==
  ASSUME NEW ns, NEW nin \in Nat, NEW A, NEW sh, NEW plain \in BOOLEAN, Frames(ns, nin, A, sh, plain),
         NEW a \in Ops(ns), NEW b \in Ops(ns)
  PROVE  Grows(ns, sub(ns, a, b), nin, A, sh, plain)
<1> DEFINE r == mul2(ns, P - 1, b)
<1>1. sub(ns, a, b) = add(r.ns, a, r.op) BY Zenon DEF sub
<1>2. P - 1 \in Elt BY TheModulus DEF Elt
<1>3. Grows(ns, r, nin, A, sh, plain) BY <1>2, Mul2Grows
<1> HIDE DEF r
<1> QED BY <1>1, <1>3, AddsAfter

(* axpy() does,                                                            *)
LEMMA AxpyGrows ==
  ASSUME NEW ns, NEW nin \in Nat, NEW A, NEW sh, NEW plain \in BOOLEAN, Frames(ns, nin, A, sh, plain),
         NEW y \in Ops(ns), NEW k \in Elt, NEW x \in Ops(ns)
  PROVE  Grows(ns, axpy(ns, y, k, x), nin, A, sh, plain)
<1> DEFINE r == linear(ns, k, x)
<1>1. axpy(ns, y, k, x) = IF k = 0 THEN [ns |-> ns, op |-> y] ELSE add(r.ns, y, r.op) BY Zenon DEF axpy
<1>2. Grows(ns, r, nin, A, sh, plain) BY LinearGrows
<1> HIDE DEF r
<1>3. Grows(ns, add(r.ns, y, r.op), nin, A, sh, plain) BY <1>2, AddsAfter
<1> QED BY <1>1, <1>3, Stays

(* and apy() does.                                                         *)
LEMMA ApyGrows ==
  ASSUME NEW ns, NEW nin \in Nat, NEW A, NEW sh, NEW plain \in BOOLEAN, Frames(ns, nin, A, sh, plain),
         NEW y \in Ops(ns), NEW k \in Elt
  PROVE  Grows(ns, apy(ns, y, k), nin, A, sh, plain)
<1> DEFINE r == konst(ns, k)
<1>1. apy(ns, y, k) = IF k = 0 THEN [ns |-> ns, op |-> y] ELSE add(r.ns, y, r.op) BY Zenon DEF apy
<1>2. Grows(ns, r, nin, A, sh, plain) BY KonstGrows
<1> HIDE DEF r
<1>3. Grows(ns, add(r.ns, y, r.op), nin, A, sh, plain) BY <1>2, AddsAfter
<1> QED BY <1>1, <1>3, Stays
-----------------------------------------------------------------------------
(* Assertions *)
(* the wire u, or nothing, asserts that op is zero *)
Weighs(ns, op, u) ==
  IF u = -1 THEN \A w : Carries(ns, w) => \A X \in Inputs : w[op][X] = 0
  ELSE /\ u \in Ops(ns) /\ ~IsZero(ns[u])
       /\ \A w : Carries(ns, w) => \A X \in Inputs : w[op][X] = 0 <=> w[u][X] = 0

(* What assert0() asserts of an op below weighs as much as the op. *)
LEMMA UnderWeighs ==
  ASSUME NEW ns, Ok(ns), NEW op \in Ops(ns), NEW f, Unders(ns, f, op)
  PROVE  Weighs(ns, op, f[op])
<1> DEFINE Fit(i) == Weighs(ns, i, f[i])
           S == {m \in Nat : m <= op => \A i \in 0..m : Fit(i)}
<1>0. op \in Nat /\ \A j \in Nat : j <= op => j \in Ops(ns) BY NodeFacts
<1>3. ASSUME NEW i \in 0..op, \A j \in 0..(i - 1) : Fit(j) PROVE Fit(i)
  <2>1. i \in Ops(ns) /\ f[i] = UnderStep(ns, f, i) BY <1>0 DEF Unders
  <2>2. CASE IsZero(ns[i])
    <3>1. f[i] = -1 BY <2>1, <2>2 DEF UnderStep
    <3>2. \A w : Carries(ns, w) => \A X \in Inputs : w[i][X] = 0 BY <2>1, <2>2, ZeroWire
    <3> QED BY <3>1, <3>2 DEF Weighs
  <2>3. CASE ~IsZero(ns[i]) /\ ~linearp(ns[i])
    <3>1. f[i] = i BY <2>1, <2>3, Zenon DEF UnderStep
    <3>2. i \in Nat BY <1>0
    <3>3. f[i] # -1 BY <3>1, <3>2
    <3> QED BY <2>1, <2>3, <3>1, <3>3 DEF Weighs
  <2>4. CASE ~IsZero(ns[i]) /\ linearp(ns[i])
    <3> DEFINE t == ns[i].terms[1]
    <3>1. /\ t.k \in Elt /\ t.op1 \in Ops(ns) /\ t.op1 \in Nat /\ t.op1 < i
          /\ \A w : \A X \in Inputs : Carries(ns, w) => w[i][X] = mulf(t.k, w[t.op1][X])
      BY <2>1, <2>4, FirstTerm
    <3>2. ASSUME NEW w, Carries(ns, w), NEW X \in Inputs PROVE w[t.op1][X] \in Elt BY <3>1, <3>2, ValueInField
    <3>3. CASE t.k = 0
      <4>1. f[i] = -1 BY <2>1, <2>4, <3>3, Zenon DEF UnderStep
      <4>2. \A w : Carries(ns, w) => \A X \in Inputs : w[i][X] = 0 BY <3>1, <3>2, <3>3, TimesZero
      <4> QED BY <4>1, <4>2 DEF Weighs
    <3>4. CASE t.k # 0
      <4>1. f[i] = f[t.op1] BY <2>1, <2>4, <3>4, Zenon DEF UnderStep
      <4>2. Weighs(ns, t.op1, f[t.op1])
        <5>1. t.op1 \in 0..(i - 1) BY <3>1
        <5> QED BY <1>3, <5>1
      <4>3. ASSUME NEW w, Carries(ns, w), NEW X \in Inputs PROVE w[i][X] = 0 <=> w[t.op1][X] = 0
        <5>1. w[i][X] = mulf(t.k, w[t.op1][X]) /\ w[t.op1][X] \in Elt BY <3>1, <3>2, <4>3
        <5>2. mulf(t.k, 0) = 0 BY <3>1, TimesZero
        <5>3. mulf(t.k, w[t.op1][X]) = 0 => w[t.op1][X] = 0 BY <3>1, <3>4, <5>1, FieldAssumption
        <5> QED BY <5>1, <5>2, <5>3
      <4> HIDE DEF t
      <4>4. CASE f[i] = -1 BY <4>1, <4>2, <4>3, <4>4 DEF Weighs
      <4>5. CASE f[i] # -1 BY <4>1, <4>2, <4>3, <4>5 DEF Weighs
      <4> QED BY <4>4, <4>5
    <3> QED BY <3>3, <3>4
  <2> QED BY <2>2, <2>3, <2>4
<1>4. 0 \in S
  <2>1. \A i \in 0..0 : i = 0 /\ i \in 0..op BY <1>0
  <2>2. \A j \in 0..(0 - 1) : FALSE OBVIOUS
  <2> HIDE DEF Fit
  <2> QED BY <1>3, <2>1, <2>2
<1>5. ASSUME NEW m \in Nat, m \in S PROVE m + 1 \in S
  <2> HIDE DEF Fit
  <2>1. CASE m + 1 <= op
    <3>1. \A i \in 0..m : Fit(i) BY <1>0, <1>5, <2>1
    <3>2. m + 1 \in 0..op /\ (m + 1) - 1 = m BY <1>0, <2>1
    <3>3. Fit(m + 1) BY <1>3, <3>1, <3>2
    <3>4. \A i \in 0..(m + 1) : i \in 0..m \/ i = m + 1 OBVIOUS
    <3>5. \A i \in 0..(m + 1) : Fit(i) BY <3>1, <3>3, <3>4
    <3> QED BY <3>5
  <2> QED BY <2>1
<1>6. Fit(op)
  <2>1. \A m \in Nat : m \in S
    <3> HIDE DEF S
    <3> QED BY <1>4, <1>5, L!Induction, Zenon
  <2>2. op \in S /\ op \in 0..op /\ op <= op BY <1>0, <2>1
  <2> HIDE DEF Fit
  <2> QED BY <2>2
<1> QED BY <1>6

(* What is asserted may grow. *)
LEMMA MoreAsserted ==
  ASSUME NEW ns, NEW nin, NEW A, NEW B, A \subseteq B, NEW sh, NEW plain, Frames(ns, nin, A, sh, plain)
  PROVE  Frames(ns, nin, B, sh, plain)
BY DEF Frames, ZeroTerms

(* An assertion marked is one more, and changes nothing else. *)
MarkedOne(ns, i, ms) ==
  /\ Ops(ms) = Ops(ns) /\ \A x \in Ops(ns) : x # i => ms[x] = ns[x]
  /\ ms[i].terms = ns[i].terms /\ ms[i].depth = ns[i].depth /\ ms[i].key = ns[i].key
  /\ ms[i].is_input = ns[i].is_input /\ ms[i].in_id = ns[i].in_id
  /\ ms[i].is_output = ns[i].is_output /\ ms[i].out_id = ns[i].out_id /\ ms[i].is_assert0
(* The nodes stay as they should be, and what was asserted stays asserted. *)
LEMMA MarkKeeps ==
  ASSUME NEW ns, NEW nin, NEW A, NEW sh, NEW plain, Frames(ns, nin, A, sh, plain),
         NEW i \in Ops(ns), NEW ms, MarkedOne(ns, i, ms), Ok(ms), Extends(ns, ms)
  PROVE  /\ Frames(ms, nin, A, sh, plain) /\ AssertedIn(ms, ns[i].terms[1].op1)
         /\ \A op : AssertedIn(ns, op) => AssertedIn(ms, op)
<1>1. /\ Ok(ns) /\ InputsApart(ns) /\ InIdsOk(ns, nin) /\ NoZeroOperands(ns)
      /\ ZeroTerms(ns, A) /\ OutputsAreShown(ns, sh) /\ (plain => Plain(ns))
  BY DEF Frames
<1>2. ASSUME NEW x \in Ops(ns)
      PROVE  /\ ms[x].terms = ns[x].terms /\ ms[x].key = ns[x].key
             /\ ms[x].is_input = ns[x].is_input /\ ms[x].in_id = ns[x].in_id
             /\ ms[x].is_output = ns[x].is_output /\ ms[x].out_id = ns[x].out_id
             /\ (ns[x].is_assert0 => ms[x].is_assert0)
  BY DEF MarkedOne
<1>3. Ops(ms) = Ops(ns) /\ ms[i].is_assert0 BY DEF MarkedOne
<1>4. \A x \in Ops(ns) : IsZero(ms[x]) <=> IsZero(ns[x]) BY <1>2 DEF IsZero
<1>5. InputsApart(ms) BY <1>1, <1>2, <1>3 DEF InputsApart
<1>6. InIdsOk(ms, nin) BY <1>1, <1>2, <1>3 DEF InIdsOk
<1>7. NoZeroOperands(ms)
  <2> SUFFICES ASSUME NEW x \in Ops(ms), NEW j \in 1..Len(ms[x].terms)
               PROVE  ~IsZero(ms[ms[x].terms[j].op0]) /\ ~IsZero(ms[ms[x].terms[j].op1])
    BY DEF NoZeroOperands
  <2>1. x \in Ops(ns) /\ ms[x].terms = ns[x].terms /\ j \in 1..Len(ns[x].terms) BY <1>2, <1>3
  <2>2. ns[x].terms[j].op0 \in Ops(ns) /\ ns[x].terms[j].op1 \in Ops(ns) BY <1>1, <2>1, NodeFacts
  <2>3. ~IsZero(ns[ns[x].terms[j].op0]) /\ ~IsZero(ns[ns[x].terms[j].op1]) BY <1>1, <2>1 DEF NoZeroOperands
  <2> QED BY <1>4, <2>1, <2>2, <2>3
<1>8. ZeroTerms(ms, A)
  <2> SUFFICES ASSUME NEW x \in Ops(ms), NEW j \in 1..Len(ms[x].terms), ms[x].terms[j].k = 0
               PROVE  Len(ms[x].terms) = 1 /\ ms[x].terms[1].op0 = 0 /\ ms[x].terms[1].op1 \in A
    BY DEF ZeroTerms
  <2>1. x \in Ops(ns) /\ ms[x].terms = ns[x].terms BY <1>2, <1>3
  <2> QED BY <1>1, <2>1 DEF ZeroTerms
<1>9. OutputsAreShown(ms, sh)
  <2>1. L!IsSeq(sh) /\ \A j \in 1..Len(sh) : sh[j] \in Ops(ms) /\ ms[sh[j]].is_output
    BY <1>1, <1>2, <1>3 DEF OutputsAreShown
  <2>2. ASSUME NEW x \in Ops(ms), ms[x].is_output PROVE ShownMultiple(ms, sh, x)
    <3>1. ShownMultiple(ns, sh, x) BY <1>1, <1>2, <1>3, <2>2 DEF OutputsAreShown
    <3>2. \A w : Carries(ms, w) => Carries(ns, w) BY <1>1, CarriesOld
    <3> QED BY <3>1, <3>2 DEF ShownMultiple
  <2> QED BY <2>1, <2>2 DEF OutputsAreShown
<1>10. ASSUME plain PROVE Plain(ms)
  <2>1. /\ \A x \in Ops(ns) : ~ns[x].is_output /\ ns[x].out_id = kWireIdUndefined /\ ns[x].key = KeyOf(ns[x])
        /\ NoTwins(ns)
    BY <1>1, <1>10 DEF Plain
  <2>2. ASSUME NEW x \in Ops(ms) PROVE ~ms[x].is_output /\ ms[x].out_id = kWireIdUndefined /\ ms[x].key = KeyOf(ms[x])
    <3>1. KeyOf(ms[x]) = KeyOf(ns[x]) BY <1>2, <1>3 DEF KeyOf
    <3> QED BY <1>2, <1>3, <2>1, <3>1
  <2>3. NoTwins(ms) BY <1>2, <1>3, <2>1 DEF NoTwins
  <2> QED BY <2>2, <2>3 DEF Plain
<1>11. Frames(ms, nin, A, sh, plain) BY <1>5, <1>6, <1>7, <1>8, <1>9, <1>10 DEF Frames
<1>12. AssertedIn(ms, ns[i].terms[1].op1) BY <1>2, <1>3 DEF AssertedIn
<1>13. ASSUME NEW op, AssertedIn(ns, op) PROVE AssertedIn(ms, op)
  <2>1. PICK x \in Ops(ns) : ns[x].is_assert0 /\ ns[x].terms[1].op1 = op BY <1>13 DEF AssertedIn
  <2> QED BY <1>2, <1>3, <2>1 DEF AssertedIn
<1> QED BY <1>11, <1>12, <1>13

(* what assert0() of op may do: nothing is left to assert, or u is asserted *)
AssertsNothing(ns, r, op) ==
  r.ns = ns /\ \A w : Carries(ns, w) => \A X \in Inputs : w[op][X] = 0
AssertsOne(ns, r, op, u, nin, A, sh, plain) ==
  /\ u \in Ops(ns) /\ Frames(r.ns, nin, A \union {u}, sh, plain) /\ Extends(ns, r.ns)
  /\ AssertedIn(r.ns, u) /\ \A x : AssertedIn(ns, x) => AssertedIn(r.ns, x)
  /\ \A w : Carries(ns, w) => \A X \in Inputs : w[op][X] = 0 <=> w[u][X] = 0

(* assert0() asserts what it is asked to, of the wire or of one below it   *)
(* that is zero exactly when the wire is, and leaves the nodes as they     *)
(* should be.                                                              *)
LEMMA AssertGrows ==
  ASSUME NEW ns, NEW nin \in Nat, NEW A, NEW sh, NEW plain \in BOOLEAN, Frames(ns, nin, A, sh, plain),
         NEW op \in Ops(ns)
  PROVE  LET r == assert0(ns, op)
         IN  AssertsNothing(ns, r, op) \/ \E u \in Ops(ns) : AssertsOne(ns, r, op, u, nin, A, sh, plain)
<1> DEFINE f == CHOOSE f : f = [i \in 0..op |->
                  IF IsZero(ns[i]) THEN -1
                  ELSE IF ~linearp(ns[i]) THEN i
                  ELSE IF ns[i].terms[1].k = 0 THEN -1
                  ELSE f[ns[i].terms[1].op1]]
           n == Node(<<Term(0, 0, f[op])>>)
           r == push_node(ns, n)
<1>0. Ok(ns) BY DEF Frames
<1>1. assert0(ns, op) = IF f[op] = -1 THEN [ns |-> ns, op |-> op]
                        ELSE [r EXCEPT !.ns[r.op].is_assert0 = TRUE]
  BY Zenon DEF assert0
<1>2. Unders(ns, f, op)
  <2>1. \E ff : Unders(ns, ff, op) BY <1>0, UnderExists
  <2>2. \E ff : ff = [i \in 0..op |->
                  IF IsZero(ns[i]) THEN -1
                  ELSE IF ~linearp(ns[i]) THEN i
                  ELSE IF ns[i].terms[1].k = 0 THEN -1
                  ELSE ff[ns[i].terms[1].op1]]
    BY <2>1, Zenon DEF Unders, UnderStep
  <2>3. f = [i \in 0..op |->
               IF IsZero(ns[i]) THEN -1
               ELSE IF ~linearp(ns[i]) THEN i
               ELSE IF ns[i].terms[1].k = 0 THEN -1
               ELSE f[ns[i].terms[1].op1]]
    BY <2>2, Zenon
  <2> HIDE DEF f
  <2> QED BY <2>3, Zenon DEF Unders, UnderStep
<1> HIDE DEF f
<1>3. Weighs(ns, op, f[op]) BY <1>0, <1>2, UnderWeighs
<1>4. CASE f[op] = -1
  <2>1. assert0(ns, op).ns = ns BY <1>1, <1>4
  <2>2. \A w : Carries(ns, w) => \A X \in Inputs : w[op][X] = 0 BY <1>3, <1>4 DEF Weighs
  <2> QED BY <2>1, <2>2 DEF AssertsNothing
<1>5. CASE f[op] # -1
  <2> DEFINE u == f[op]   B == A \union {u}
  <2>1. /\ u \in Ops(ns) /\ ~IsZero(ns[u])
        /\ \A w : Carries(ns, w) => \A X \in Inputs : w[op][X] = 0 <=> w[u][X] = 0
    BY <1>3, <1>5 DEF Weighs
  <2>2. 0 \in Ops(ns) /\ ~IsZero(ns[0]) /\ 0 \in Elt /\ u \in Nat BY <1>0, <2>1, WireOfOne, TheModulus, NodeFacts
  <2>3. NodeOk(ns, n) BY <1>0, <2>1, <2>2, OneNode
  <2>4. Term(0, 0, u).k = 0 /\ Term(0, 0, u).op0 = 0 /\ Term(0, 0, u).op1 = u
    <3> HIDE DEF u
    <3> QED BY <2>2 DEF Term
  <2>5. /\ n.terms = <<Term(0, 0, u)>> /\ n.is_input = FALSE /\ n.is_output = FALSE
        /\ n.in_id = kWireIdUndefined /\ n.out_id = kWireIdUndefined
    BY DEF Node
  <2>6. Frames(ns, nin, B, sh, plain) BY MoreAsserted
  <2> HIDE DEF n
  <2>7. Len(n.terms) = 1 /\ n.terms[1] = Term(0, 0, u) /\ u \in B BY <2>5
  <2> HIDE DEF u, B
  <2>8. Pushable(ns, nin, B, sh, plain, n)
    <3>1. \A j \in 1..Len(n.terms) : j = 1 BY <2>7
    <3>2. \A j \in 1..Len(n.terms) : ~IsZero(ns[n.terms[j].op0]) BY <2>2, <2>4, <2>7, <3>1
    <3>3. \A j \in 1..Len(n.terms) : n.terms[j].k = 0 =>
            Len(n.terms) = 1 /\ n.terms[1].op0 = 0 /\ n.terms[1].op1 \in B
      BY <2>4, <2>7
    <3> QED BY <2>3, <2>5, <3>2, <3>3 DEF Pushable
  <2>9. Grows(ns, r, nin, B, sh, plain) BY <2>6, <2>8, PushGrows
  <2>10. Returns(ns, r) /\ r.ns[r.op].terms = n.terms BY <1>0, <2>3, PushNode
  <2>11. r = [ns |-> r.ns, op |-> r.op] BY DEF push_node
  <2> DEFINE ms == [r.ns EXCEPT ![r.op].is_assert0 = TRUE]
  <2>12. assert0(ns, op).ns = ms
    <3> HIDE DEF r
    <3> QED BY <1>1, <1>5, <2>11
  <2> HIDE DEF r
  <2>13. Frames(r.ns, nin, B, sh, plain) /\ OldNodes(ns, r.ns) /\ r.op \in Ops(r.ns) BY <2>9 DEF Grows
  <2>14. MarkedOne(r.ns, r.op, ms)
    <3>1. Ops(ms) = Ops(r.ns) BY Zenon DEF Ops
    <3>2. ms[r.op] = [r.ns[r.op] EXCEPT !.is_assert0 = TRUE] BY <2>13 DEF Ops
    <3>3. \A x \in Ops(r.ns) : x # r.op => ms[x] = r.ns[x] BY DEF Ops
    <3>4. r.ns[r.op] \in NodeType BY <2>13, NodeFacts DEF Frames
    <3> HIDE DEF ms
    <3> QED BY <3>1, <3>2, <3>3, <3>4 DEF MarkedOne, NodeType
  <2>15. Ok(ms) /\ Extends(ns, ms) BY <1>0, <2>12, AssertCall
  <2> HIDE DEF ms
  <2>16. Extends(r.ns, ms)
    <3>1. \A x \in Ops(r.ns) : Same(r.ns[x], ms[x])
      BY <2>14 DEF MarkedOne, Same
    <3> QED BY <2>14, <3>1 DEF Extends, MarkedOne
  <2>17. /\ Frames(ms, nin, B, sh, plain) /\ AssertedIn(ms, r.ns[r.op].terms[1].op1)
         /\ \A x : AssertedIn(r.ns, x) => AssertedIn(ms, x)
    BY <2>13, <2>14, <2>15, <2>16, MarkKeeps
  <2>18. r.ns[r.op].terms[1].op1 = u BY <2>4, <2>7, <2>10
  <2>19. ASSUME NEW x, AssertedIn(ns, x) PROVE AssertedIn(ms, x)
    <3>1. AssertedIn(r.ns, x) BY <2>13, <2>19 DEF AssertedIn, OldNodes
    <3> QED BY <2>17, <3>1
  <2>20. AssertsOne(ns, assert0(ns, op), op, u, nin, A, sh, plain)
    BY <2>1, <2>12, <2>15, <2>17, <2>18, <2>19 DEF AssertsOne, B
  <2> QED BY <2>1, <2>20
<1> QED BY <1>4, <1>5

-----------------------------------------------------------------------------
(* What is true while a program is built: of the wires A it has asserted,  *)
BuildOf(A) ==
  /\ A \subseteq Ops(nodes) /\ Frames(nodes, ninput, A, shown, tidy /\ shown = <<>>)
  /\ \A op \in A : AssertedIn(nodes, op)
  /\ solutions = {X \in Inputs : \A op \in A : value[op][X] = 0}
  /\ tidy => TidyNodes(nodes, A, shown)
(* and of its size.                                                        *)
Building ==
  /\ tidy \in BOOLEAN /\ shown \in Seq(Nat) /\ noutput = Len(shown)
  /\ limit.nodes \in Nat /\ limit.nodes <= Corners /\ Size(nodes) <= limit.nodes
  /\ \E A : BuildOf(A)

(* Nodes that need not be plain *)
LEMMA LessPlain ==
  ASSUME NEW ns, NEW nin, NEW A, NEW sh, NEW p, Frames(ns, nin, A, sh, p), NEW q, q => p
  PROVE  Frames(ns, nin, A, sh, q)
BY DEF Frames

(* A program that has shown nothing yet is tidy. *)
LEMMA PlainIsTidy ==
  ASSUME NEW ns, NEW A, NEW sh, sh = <<>>, Plain(ns)
  PROVE  TidyNodes(ns, A, sh)
<1>1. \A j \in 1..Len(sh) : FALSE OBVIOUS
<1> QED BY <1>1 DEF TidyNodes, Plain

(* Every program begins like this. *)
LEMMA InitBuilds == Init => Building
<1> SUFFICES ASSUME Init PROVE Building OBVIOUS
<1>1. PICK s \in Starts : nodes = s.nodes /\ limit = s.limit BY DEF Init
<1>2. Ok(nodes) /\ Untouched(nodes) BY <1>1, StartsAssumption DEF Ok
<1> DEFINE inputs == {i \in Ops(nodes) : nodes[i].is_input}
<1>3. /\ ninput = Cardinality(inputs) /\ solutions = Inputs /\ shown = <<>> /\ tidy = TRUE /\ noutput = 0
  BY DEF Init
<1>4. /\ \A i \in Ops(nodes) :
           LET n == nodes[i]
           IN  /\ ~n.is_output /\ n.out_id = kWireIdUndefined /\ n.key = KeyOf(n) /\ ~n.is_assert0
               /\ \A j \in DOMAIN n.terms : n.terms[j].k # 0 /\ ~IsZero(nodes[n.terms[j].op0])
               /\ IF n.is_input THEN n.in_id < ninput ELSE n.in_id = kWireIdUndefined
      /\ \A i, j \in Ops(nodes) : Content(nodes[i]) = Content(nodes[j]) => i = j
  <2>1. inputs = {i \in Ops(nodes) : nodes[i].is_input} OBVIOUS
  <2> HIDE DEF inputs
  <2> QED BY <1>2, <1>3, <2>1, Zenon DEF Untouched
<1> HIDE DEF inputs
<1>5. ASSUME NEW i \in Ops(nodes)
      PROVE  /\ nodes[i] \in NodeType /\ DOMAIN nodes[i].terms = 1..Len(nodes[i].terms)
             /\ (nodes[i].is_input => nodes[i].terms = <<>>)
             /\ \A j \in 1..Len(nodes[i].terms) : ~IsZero(nodes[nodes[i].terms[j].op1])
  BY <1>2, NodeFacts DEF Ok, Typed
<1>6. InputsApart(nodes)
  <2> SUFFICES ASSUME NEW i \in Ops(nodes), NEW j \in Ops(nodes), nodes[i].is_input, nodes[j].is_input,
                      nodes[i].in_id = nodes[j].in_id
               PROVE  i = j
    BY DEF InputsApart
  <2>1. nodes[i].is_output = nodes[j].is_output /\ nodes[i].is_input = nodes[j].is_input
    <3>1. /\ nodes[i].is_output \in BOOLEAN /\ nodes[j].is_output \in BOOLEAN
          /\ nodes[i].is_input \in BOOLEAN /\ nodes[j].is_input \in BOOLEAN
      BY <1>5 DEF NodeType
    <3>2. ~nodes[i].is_output /\ ~nodes[j].is_output BY <1>4
    <3> QED BY <3>1, <3>2
  <2>2. nodes[i].out_id = nodes[j].out_id /\ nodes[i].terms = nodes[j].terms BY <1>4, <1>5
  <2>3. Content(nodes[i]) = Content(nodes[j]) BY <2>1, <2>2 DEF Content
  <2> QED BY <1>4, <2>3
<1>7. NoTwins(nodes)
  <2> SUFFICES ASSUME NEW i \in Ops(nodes), NEW j \in Ops(nodes), ~nodes[i].is_input, ~nodes[j].is_input,
                      nodes[i].terms = nodes[j].terms
               PROVE  i = j
    BY DEF NoTwins
  <2>1. nodes[i].is_output = nodes[j].is_output /\ nodes[i].is_input = nodes[j].is_input
    <3>1. /\ nodes[i].is_output \in BOOLEAN /\ nodes[j].is_output \in BOOLEAN
          /\ nodes[i].is_input \in BOOLEAN /\ nodes[j].is_input \in BOOLEAN
      BY <1>5 DEF NodeType
    <3>2. ~nodes[i].is_output /\ ~nodes[j].is_output BY <1>4
    <3> QED BY <3>1, <3>2
  <2>2. nodes[i].out_id = nodes[j].out_id /\ nodes[i].in_id = nodes[j].in_id BY <1>4
  <2>3. Content(nodes[i]) = Content(nodes[j]) BY <2>1, <2>2 DEF Content
  <2> QED BY <1>4, <2>3
<1>8. Plain(nodes) BY <1>4, <1>7 DEF Plain
<1>9. InIdsOk(nodes, ninput) BY <1>4 DEF InIdsOk
<1>10. NoZeroOperands(nodes) BY <1>4, <1>5 DEF NoZeroOperands
<1>11. ZeroTerms(nodes, {}) BY <1>4, <1>5 DEF ZeroTerms
<1>12. OutputsAreShown(nodes, shown)
  <2>1. L!IsSeq(shown) /\ \A j \in 1..Len(shown) : FALSE
    <3>1. shown \in Seq({}) BY <1>3
    <3> QED BY <1>3, <3>1 DEF L!IsSeq
  <2> QED BY <1>4, <2>1 DEF OutputsAreShown
<1>13. Frames(nodes, ninput, {}, shown, tidy /\ shown = <<>>)
  BY <1>2, <1>6, <1>8, <1>9, <1>10, <1>11, <1>12 DEF Frames
<1>14. BuildOf({})
  <2>1. solutions = {X \in Inputs : \A op \in {} : value[op][X] = 0} BY <1>3
  <2>2. TidyNodes(nodes, {}, shown) BY <1>3, <1>8, PlainIsTidy
  <2> QED BY <1>13, <2>1, <2>2 DEF BuildOf
<1>15. shown \in Seq(Nat) /\ noutput = Len(shown) /\ tidy \in BOOLEAN BY <1>3
<1>16. limit.nodes \in Nat /\ limit.nodes <= Corners /\ Size(nodes) <= limit.nodes
  BY <1>1, CornersAssumption DEF Size
<1> QED BY <1>14, <1>15, <1>16 DEF Building

(* A call that adds wires and asserts and shows none keeps it. *)
LEMMA CallBuilds ==
  ASSUME CompilerInvariant, Building, NEW A, BuildOf(A), NEW STATE r, Returns(nodes, r),
         Grows(nodes, r, ninput', A, shown, tidy /\ shown = <<>>),
         nodes' = r.ns, value' = WithNew(r.ns, value), Cardinality(Ops(r.ns)) <= limit.nodes,
         tidy' = (tidy /\ shown = <<>>), solutions' = solutions, shown' = shown, noutput' = noutput, limit' = limit
  PROVE  Building'
<1>0. Ok(nodes) /\ Carries(nodes, value) /\ DOMAIN value = Ops(nodes) BY DEF CompilerInvariant
<1>1. /\ A \subseteq Ops(nodes) /\ \A op \in A : AssertedIn(nodes, op)
      /\ solutions = {X \in Inputs : \A op \in A : value[op][X] = 0}
  BY DEF BuildOf
<1>2. Ok(r.ns) /\ Extends(nodes, r.ns) BY DEF Returns
<1>3. \A i \in Ops(nodes) : value'[i] = value[i] BY <1>0, <1>2, AfterCall
<1>4. Frames(r.ns, ninput', A, shown, tidy /\ shown = <<>>) /\ OldNodes(nodes, r.ns) BY DEF Grows
<1>5. Frames(nodes', ninput', A, shown', tidy' /\ shown' = <<>>)
  <2>1. (tidy' /\ shown' = <<>>) => (tidy /\ shown = <<>>) OBVIOUS
  <2>2. Frames(r.ns, ninput', A, shown, tidy' /\ shown' = <<>>) BY <1>4, <2>1, LessPlain
  <2> QED BY <2>2
<1>6. A \subseteq Ops(nodes') /\ \A op \in A : AssertedIn(nodes', op)
  <2>1. Ops(nodes) \subseteq Ops(r.ns) /\ \A i \in Ops(nodes) : r.ns[i] = nodes[i] BY <1>4 DEF OldNodes
  <2>2. ASSUME NEW op \in A PROVE AssertedIn(r.ns, op)
    <3>1. PICK i \in Ops(nodes) : nodes[i].is_assert0 /\ nodes[i].terms[1].op1 = op BY <1>1, <2>2 DEF AssertedIn
    <3> QED BY <2>1, <3>1 DEF AssertedIn
  <2> QED BY <1>1, <2>1, <2>2
<1>7. solutions' = {X \in Inputs : \A op \in A : value'[op][X] = 0} BY <1>1, <1>3
<1>8. tidy' => TidyNodes(nodes', A, shown')
  <2> SUFFICES ASSUME tidy' PROVE TidyNodes(nodes', A, shown') OBVIOUS
  <2>1. tidy /\ shown = <<>> OBVIOUS
  <2>2. Plain(r.ns) BY <1>4, <2>1 DEF Frames
  <2> QED BY <2>1, <2>2, PlainIsTidy
<1>9. BuildOf(A)' BY <1>5, <1>6, <1>7, <1>8 DEF BuildOf
<1>10. /\ tidy' \in BOOLEAN /\ shown' \in Seq(Nat) /\ noutput' = Len(shown')
       /\ limit'.nodes \in Nat /\ limit'.nodes <= Corners /\ Size(nodes') <= limit'.nodes
  BY DEF Building, Size
<1> QED BY <1>9, <1>10 DEF Building

(* So does an assertion. *)
LEMMA AssertBuilds ==
  ASSUME CompilerInvariant, Building, NEW A, BuildOf(A), NEW a \in Ops(nodes), Assert0(a)
  PROVE  Building'
<1> DEFINE r == assert0(nodes, a)
<1>0. Ok(nodes) /\ Carries(nodes, value) /\ DOMAIN value = Ops(nodes) /\ ninput \in Nat BY DEF CompilerInvariant
<1>1. /\ A \subseteq Ops(nodes) /\ \A op \in A : AssertedIn(nodes, op)
      /\ solutions = {X \in Inputs : \A op \in A : value[op][X] = 0}
      /\ Frames(nodes, ninput, A, shown, tidy /\ shown = <<>>)
  BY DEF BuildOf
<1>2. /\ nodes' = r.ns /\ value' = WithNew(r.ns, value) /\ Cardinality(Ops(r.ns)) <= limit.nodes
      /\ solutions' = {X \in solutions : value[a][X] = 0} /\ tidy' = (tidy /\ shown = <<>>)
      /\ ninput' = ninput /\ noutput' = noutput /\ limit' = limit /\ shown' = shown
  BY DEF Assert0, Val
<1>3. Ok(r.ns) /\ Extends(nodes, r.ns) BY <1>0, AssertCall
<1>4. AssertsNothing(nodes, r, a)
      \/ \E u \in Ops(nodes) : AssertsOne(nodes, r, a, u, ninput, A, shown, tidy /\ shown = <<>>)
  <2>1. (tidy /\ shown = <<>>) \in BOOLEAN OBVIOUS
  <2> QED BY <1>0, <1>1, <2>1, AssertGrows
<1> HIDE DEF r
<1>5. \A i \in Ops(nodes) : value'[i] = value[i] BY <1>0, <1>2, <1>3, AfterCall
<1>6. ASSUME NEW B, B \subseteq Ops(nodes), Frames(r.ns, ninput, B, shown, tidy /\ shown = <<>>),
             \A op \in B : AssertedIn(r.ns, op),
             {X \in solutions : value[a][X] = 0} = {X \in Inputs : \A op \in B : value[op][X] = 0}
      PROVE  Building'
  <2>1. Frames(nodes', ninput', B, shown', tidy' /\ shown' = <<>>)
    <3>1. (tidy' /\ shown' = <<>>) => (tidy /\ shown = <<>>) BY <1>2
    <3>2. Frames(r.ns, ninput, B, shown, tidy' /\ shown' = <<>>) BY <1>6, <3>1, LessPlain
    <3> QED BY <1>2, <3>2
  <2>2. B \subseteq Ops(nodes') /\ \A op \in B : AssertedIn(nodes', op) BY <1>2, <1>3, <1>6 DEF Extends
  <2>3. solutions' = {X \in Inputs : \A op \in B : value'[op][X] = 0} BY <1>2, <1>5, <1>6
  <2>4. tidy' => TidyNodes(nodes', B, shown')
    <3> SUFFICES ASSUME tidy' PROVE TidyNodes(nodes', B, shown') OBVIOUS
    <3>1. tidy /\ shown = <<>> BY <1>2
    <3>2. Plain(r.ns) BY <1>6, <3>1 DEF Frames
    <3> QED BY <1>2, <3>1, <3>2, PlainIsTidy
  <2>5. BuildOf(B)' BY <2>1, <2>2, <2>3, <2>4 DEF BuildOf
  <2>6. /\ tidy' \in BOOLEAN /\ shown' \in Seq(Nat) /\ noutput' = Len(shown')
        /\ limit'.nodes \in Nat /\ limit'.nodes <= Corners /\ Size(nodes') <= limit'.nodes
    BY <1>2 DEF Building, Size
  <2> QED BY <2>5, <2>6 DEF Building
<1>7. CASE AssertsNothing(nodes, r, a)
  <2>1. r.ns = nodes /\ \A X \in Inputs : value[a][X] = 0 BY <1>0, <1>7 DEF AssertsNothing
  <2>2. {X \in solutions : value[a][X] = 0} = {X \in Inputs : \A op \in A : value[op][X] = 0} BY <1>1, <2>1
  <2> QED BY <1>1, <1>6, <2>1, <2>2
<1>8. ASSUME NEW u \in Ops(nodes), AssertsOne(nodes, r, a, u, ninput, A, shown, tidy /\ shown = <<>>)
      PROVE  Building'
  <2> DEFINE B == A \union {u}
  <2>1. /\ Frames(r.ns, ninput, B, shown, tidy /\ shown = <<>>)
        /\ AssertedIn(r.ns, u) /\ \A x : AssertedIn(nodes, x) => AssertedIn(r.ns, x)
        /\ \A X \in Inputs : value[a][X] = 0 <=> value[u][X] = 0
    BY <1>0, <1>8 DEF AssertsOne
  <2>2. B \subseteq Ops(nodes) /\ \A op \in B : AssertedIn(r.ns, op) BY <1>1, <2>1
  <2>3. {X \in solutions : value[a][X] = 0} = {X \in Inputs : \A op \in B : value[op][X] = 0} BY <1>1, <2>1
  <2> HIDE DEF B
  <2> QED BY <1>6, <2>1, <2>2, <2>3
<1> QED BY <1>4, <1>7, <1>8

-----------------------------------------------------------------------------
(* The other steps *)
(* Nodes stay as they should be when an input is added. *)
LEMMA InputGrows ==
  ASSUME NEW ns, NEW nin \in Nat, nin < MaxInputs, NEW A, NEW sh, NEW plain \in BOOLEAN, Frames(ns, nin, A, sh, plain)
  PROVE  Returns(ns, push_node(ns, InputNode(nin))) /\ Grows(ns, push_node(ns, InputNode(nin)), nin + 1, A, sh, plain)
<1> DEFINE n == InputNode(nin)
<1>0. Ok(ns) /\ InIdsOk(ns, nin) BY DEF Frames
<1>1. \A i \in Ops(ns) : ns[i].is_input => ns[i].in_id < nin /\ ns[i].in_id \in Nat
  <2>1. ASSUME NEW i \in Ops(ns), ns[i].is_input PROVE ns[i].in_id \in 0..(MaxInputs - 1) BY <1>0, <2>1 DEF Ok, Typed
  <2> QED BY <1>0, <2>1, MaxInputsAssumption DEF InIdsOk
<1>2. /\ n \in NodeType /\ n.terms = <<>> /\ n.is_input = TRUE /\ n.in_id = nin
      /\ n.is_assert0 = FALSE /\ n.is_output = FALSE /\ n.out_id = kWireIdUndefined /\ nin \in 0..(MaxInputs - 1)
  <2>1. <<>> \in Seq(TermType) OBVIOUS
  <2> DEFINE m == Node(<<>>)
  <2>2. m \in NodeType /\ m.terms = <<>> /\ m.is_input = FALSE /\ m.is_assert0 = FALSE BY <2>1, ANode
  <2>3. m.is_output = FALSE /\ m.out_id = kWireIdUndefined BY DEF Node
  <2>4. n = [m EXCEPT !.is_input = TRUE, !.in_id = nin] BY DEF InputNode
  <2>5. nin \in 0..(MaxInputs - 1) BY MaxInputsAssumption
  <2> HIDE DEF m, n
  <2> QED BY <2>2, <2>3, <2>4, <2>5 DEF NodeType
<1> HIDE DEF n
<1>3. NodeOk(ns, n)
  <2>1. TermsOk(ns, <<>>) BY EmptyNode DEF NodeOk
  <2> QED BY <1>2, <2>1 DEF NodeOk
<1>4. Frames(ns, nin + 1, A, sh, plain)
  <2>1. InIdsOk(ns, nin + 1)
    <3> SUFFICES ASSUME NEW i \in Ops(ns)
                 PROVE  IF ns[i].is_input THEN ns[i].in_id < nin + 1 ELSE ns[i].in_id = kWireIdUndefined
      BY DEF InIdsOk
    <3>1. CASE ns[i].is_input
      <4>1. ns[i].in_id \in Nat /\ ns[i].in_id < nin BY <1>1, <3>1
      <4> QED BY <3>1, <4>1
    <3>2. CASE ~ns[i].is_input BY <1>0, <3>2 DEF InIdsOk
    <3> QED BY <3>1, <3>2
  <2> QED BY <2>1 DEF Frames
<1>5. Pushable(ns, nin + 1, A, sh, plain, n)
  <2>1. \A j \in 1..Len(n.terms) : FALSE BY <1>2
  <2>2. n.in_id < nin + 1 /\ \A i \in Ops(ns) : ns[i].is_input => ns[i].in_id # n.in_id BY <1>1, <1>2
  <2> QED BY <1>2, <1>3, <2>1, <2>2 DEF Pushable
<1>6. Returns(ns, push_node(ns, n)) BY <1>0, <1>3, PushNode
<1>7. nin + 1 \in Nat OBVIOUS
<1>8. Grows(ns, push_node(ns, n), nin + 1, A, sh, plain) BY <1>4, <1>5, <1>7, PushGrows
<1> QED BY <1>6, <1>8 DEF n

(* An output shown keeps what is built as it should be, and a tidy program *)
(* tidy.                                                                   *)
LEMMA OutputBuilds ==
  ASSUME CompilerInvariant, Ok(nodes)', Building, NEW A, BuildOf(A), NEW a \in Ops(nodes), OutputWire(a)
  PROVE  Building'
<1> DEFINE ms == output_internal(nodes, a, noutput)
<1>0. Ok(nodes) /\ Carries(nodes, value) /\ ninput \in Nat BY DEF CompilerInvariant
<1>1. /\ A \subseteq Ops(nodes) /\ \A op \in A : AssertedIn(nodes, op)
      /\ solutions = {X \in Inputs : \A op \in A : value[op][X] = 0}
      /\ Frames(nodes, ninput, A, shown, tidy /\ shown = <<>>)
      /\ (tidy => TidyNodes(nodes, A, shown))
  BY DEF BuildOf
<1>2. /\ Ok(nodes) /\ InputsApart(nodes) /\ InIdsOk(nodes, ninput) /\ NoZeroOperands(nodes)
      /\ ZeroTerms(nodes, A) /\ OutputsAreShown(nodes, shown)
  BY <1>1 DEF Frames
<1>3. /\ nodes' = ms /\ value' = value /\ solutions' = solutions /\ ninput' = ninput /\ limit' = limit
      /\ noutput' = noutput + 1 /\ shown' = Append(shown, a)
      /\ tidy' = (tidy /\ ~IsZero(nodes[a]) /\ ~nodes[a].is_output /\ ~Asserted(a))
  BY DEF OutputWire
<1>4. Ops(ms) = Ops(nodes) BY Zenon DEF output_internal, Ops
<1>5. ASSUME NEW x \in Ops(nodes), x # a PROVE ms[x] = nodes[x] BY <1>5 DEF output_internal, Ops
<1>6. ms[a] = [nodes[a] EXCEPT !.is_output = TRUE, !.out_id = noutput] BY DEF output_internal, Ops
<1>7. Ok(ms) BY <1>3
<1> HIDE DEF ms
<1>8. nodes[a] \in NodeType BY <1>0, NodeFacts
<1>9. /\ ms[a].is_output = TRUE /\ ms[a].out_id = noutput
      /\ Same(nodes[a], ms[a]) /\ ms[a].is_assert0 = nodes[a].is_assert0
  BY <1>6, <1>8 DEF NodeType, Same
<1>10. ASSUME NEW x \in Ops(nodes)
       PROVE  /\ Same(nodes[x], ms[x]) /\ ms[x].is_assert0 = nodes[x].is_assert0
              /\ IsZero(ms[x]) <=> IsZero(nodes[x])
  <2>1. Same(nodes[x], ms[x]) /\ ms[x].is_assert0 = nodes[x].is_assert0 BY <1>5, <1>9 DEF Same
  <2> QED BY <2>1 DEF Same, IsZero
<1>11. Extends(nodes, ms) BY <1>4, <1>10 DEF Extends
<1>12. ASSUME NEW x \in Ops(nodes)
       PROVE  ms[x].terms = nodes[x].terms /\ ms[x].is_input = nodes[x].is_input /\ ms[x].in_id = nodes[x].in_id
  BY <1>10 DEF Same
<1>13. InputsApart(ms) BY <1>2, <1>4, <1>12 DEF InputsApart
<1>14. InIdsOk(ms, ninput) BY <1>2, <1>4, <1>12 DEF InIdsOk
<1>15. NoZeroOperands(ms)
  <2> SUFFICES ASSUME NEW x \in Ops(ms), NEW j \in 1..Len(ms[x].terms)
               PROVE  ~IsZero(ms[ms[x].terms[j].op0]) /\ ~IsZero(ms[ms[x].terms[j].op1])
    BY DEF NoZeroOperands
  <2>1. x \in Ops(nodes) /\ ms[x].terms = nodes[x].terms /\ j \in 1..Len(nodes[x].terms) BY <1>4, <1>12
  <2>2. nodes[x].terms[j].op0 \in Ops(nodes) /\ nodes[x].terms[j].op1 \in Ops(nodes) BY <1>2, <2>1, NodeFacts
  <2>3. ~IsZero(nodes[nodes[x].terms[j].op0]) /\ ~IsZero(nodes[nodes[x].terms[j].op1])
    BY <1>2, <2>1 DEF NoZeroOperands
  <2> QED BY <1>10, <2>1, <2>2, <2>3
<1>16. ZeroTerms(ms, A)
  <2> SUFFICES ASSUME NEW x \in Ops(ms), NEW j \in 1..Len(ms[x].terms), ms[x].terms[j].k = 0
               PROVE  Len(ms[x].terms) = 1 /\ ms[x].terms[1].op0 = 0 /\ ms[x].terms[1].op1 \in A
    BY DEF ZeroTerms
  <2>1. x \in Ops(nodes) /\ ms[x].terms = nodes[x].terms BY <1>4, <1>12
  <2> QED BY <1>2, <2>1 DEF ZeroTerms
<1> DEFINE sh == Append(shown, a)   n == Len(shown)
<1>17. /\ sh \in Seq(Nat) /\ Len(sh) = n + 1 /\ n \in Nat /\ sh[n + 1] = a
       /\ \A j \in 1..n : sh[j] = shown[j]
  <2>1. shown \in Seq(Nat) /\ a \in Nat BY <1>0, NodeFacts DEF Building
  <2> QED BY <2>1
<1> HIDE DEF sh, n
<1>18. n = Len(shown) /\ noutput = n BY DEF n, Building
<1>19. \A j \in 1..(n + 1) : j \in 1..n \/ j = n + 1 BY <1>17
<1>20. ASSUME NEW j \in 1..Len(sh) PROVE sh[j] \in Ops(nodes) /\ ms[sh[j]].is_output
  <2>1. CASE j = n + 1 BY <1>9, <1>17, <2>1
  <2>2. CASE j \in 1..n
    <3>1. shown[j] \in Ops(nodes) /\ nodes[shown[j]].is_output BY <1>2, <1>18, <2>2 DEF OutputsAreShown
    <3> QED BY <1>5, <1>9, <1>17, <2>2, <3>1
  <2> QED BY <1>17, <1>19, <2>1, <2>2
<1>21. OutputsAreShown(ms, sh)
  <2>1. L!IsSeq(sh) BY <1>17 DEF L!IsSeq
  <2>2. ASSUME NEW x \in Ops(ms), ms[x].is_output PROVE ShownMultiple(ms, sh, x)
    <3>1. CASE x = a
      <4>1. \A w : Carries(ms, w) => \A X \in Inputs : w[x][X] = mulf(1, w[sh[n + 1]][X])
        <5> SUFFICES ASSUME NEW w, Carries(ms, w), NEW X \in Inputs PROVE w[a][X] = mulf(1, w[a][X])
          BY <1>17, <3>1
        <5>1. w[a][X] \in Elt BY <1>4, <1>7, ValueInField
        <5> QED BY <5>1, Ring
      <4>2. n + 1 \in 1..Len(sh) /\ 1 \in Elt BY <1>17, TheModulus
      <4> QED BY <4>1, <4>2 DEF ShownMultiple
    <3>2. CASE x # a
      <4>1. x \in Ops(nodes) /\ nodes[x].is_output BY <1>4, <1>5, <2>2, <3>2
      <4>2. ShownMultiple(nodes, shown, x) BY <1>2, <4>1 DEF OutputsAreShown
      <4>3. PICK j \in 1..n : \E k \in Elt :
              \A w : Carries(nodes, w) => \A X \in Inputs : w[x][X] = mulf(k, w[shown[j]][X])
        BY <1>18, <4>2 DEF ShownMultiple
      <4>4. \A w : Carries(ms, w) => Carries(nodes, w) BY <1>0, <1>11, CarriesOld
      <4>5. j \in 1..Len(sh) /\ sh[j] = shown[j] BY <1>17
      <4> QED BY <4>3, <4>4, <4>5 DEF ShownMultiple
    <3> QED BY <3>1, <3>2
  <2> QED BY <1>4, <1>20, <2>1, <2>2 DEF OutputsAreShown
<1>22. sh # <<>> BY <1>17
<1>23. Frames(ms, ninput, A, sh, FALSE) BY <1>7, <1>13, <1>14, <1>15, <1>16, <1>21 DEF Frames
<1>24. Frames(ms, ninput, A, sh, tidy' /\ sh = <<>>)
  <2>1. (tidy' /\ sh = <<>>) => FALSE BY <1>22
  <2> QED BY <1>23, <2>1, LessPlain
<1>25. A \subseteq Ops(ms) /\ \A op \in A : AssertedIn(ms, op)
  <2>1. ASSUME NEW op \in A PROVE AssertedIn(ms, op)
    <3>1. PICK i \in Ops(nodes) : nodes[i].is_assert0 /\ nodes[i].terms[1].op1 = op BY <1>1, <2>1 DEF AssertedIn
    <3> QED BY <1>4, <1>10, <1>12, <3>1 DEF AssertedIn
  <2> QED BY <1>1, <1>4, <2>1
<1>26. tidy' => TidyNodes(ms, A, sh)
  <2> SUFFICES ASSUME tidy' PROVE TidyNodes(ms, A, sh) OBVIOUS
  <2>1. tidy /\ ~IsZero(nodes[a]) /\ ~nodes[a].is_output /\ ~Asserted(a) BY <1>3
  <2>2. /\ \A j \in 1..n : nodes[shown[j]].out_id = j - 1 /\ ~IsZero(nodes[shown[j]]) /\ shown[j] \notin A
        /\ \A i \in Ops(nodes) : nodes[i].is_output => \E j \in 1..n : shown[j] = i
        /\ NoTwins(nodes)
    BY <1>1, <1>18, <2>1 DEF TidyNodes
  <2>3. a \notin A
    <3>1. a \in A => AssertedIn(nodes, a) BY <1>1
    <3> QED BY <2>1, <3>1 DEF AssertedIn, Asserted
  <2>4. ASSUME NEW j \in 1..Len(sh) PROVE ms[sh[j]].out_id = j - 1 /\ ~IsZero(ms[sh[j]]) /\ sh[j] \notin A
    <3>1. CASE j = n + 1
      <4>1. ms[sh[j]].out_id = n /\ ~IsZero(ms[sh[j]]) BY <1>9, <1>10, <1>17, <1>18, <2>1, <3>1
      <4>2. n = j - 1 BY <1>17, <3>1
      <4> QED BY <1>17, <2>3, <3>1, <4>1, <4>2
    <3>2. CASE j \in 1..n
      <4>1. shown[j] \in Ops(nodes) /\ nodes[shown[j]].is_output BY <1>2, <1>18, <3>2 DEF OutputsAreShown
      <4>2. sh[j] = shown[j] /\ shown[j] # a BY <1>17, <2>1, <3>2, <4>1
      <4>3. ms[sh[j]] = nodes[shown[j]] BY <1>5, <4>1, <4>2
      <4>4. ~IsZero(nodes[shown[j]]) /\ nodes[shown[j]].out_id = j - 1 /\ shown[j] \notin A BY <2>2, <3>2
      <4> QED BY <4>2, <4>3, <4>4
    <3> QED BY <1>17, <1>19, <3>1, <3>2
  <2>5. ASSUME NEW i \in Ops(ms), ms[i].is_output PROVE \E j \in 1..Len(sh) : sh[j] = i
    <3>1. CASE i = a
      <4>1. n + 1 \in 1..Len(sh) BY <1>17
      <4> QED BY <1>17, <3>1, <4>1
    <3>2. CASE i # a
      <4>1. i \in Ops(nodes) /\ nodes[i].is_output BY <1>4, <1>5, <2>5, <3>2
      <4>2. PICK j \in 1..n : shown[j] = i BY <2>2, <4>1
      <4>3. j \in 1..Len(sh) /\ sh[j] = i BY <1>17, <4>2
      <4> QED BY <4>3
    <3> QED BY <3>1, <3>2
  <2>6. NoTwins(ms) BY <1>4, <1>12, <2>2 DEF NoTwins
  <2> QED BY <2>4, <2>5, <2>6 DEF TidyNodes
<1>27. BuildOf(A)'
  <2>1. nodes' = ms /\ shown' = sh BY <1>3 DEF sh
  <2>2. Frames(nodes', ninput', A, shown', tidy' /\ shown' = <<>>) BY <1>3, <1>24, <2>1
  <2> QED BY <1>1, <1>3, <1>25, <1>26, <2>1, <2>2 DEF BuildOf
<1>28. /\ tidy' \in BOOLEAN /\ shown' \in Seq(Nat) /\ noutput' = Len(shown')
       /\ limit'.nodes \in Nat /\ limit'.nodes <= Corners /\ Size(nodes') <= limit'.nodes
  <2>1. tidy' \in BOOLEAN BY <1>3
  <2>2. shown' = sh BY <1>3 DEF sh
  <2>3. Size(nodes') = Size(nodes) BY <1>3, <1>4 DEF Size
  <2> QED BY <1>3, <1>17, <1>18, <2>1, <2>2, <2>3 DEF Building
<1> QED BY <1>27, <1>28 DEF Building

(* mkcircuit() compiles a program that was built. *)
LEMMA CircuitBuilt ==
  ASSUME CompilerInvariant, Building, NEW A, BuildOf(A), MkCircuit
  PROVE  CircuitIsTheProgram' /\ status' # "build"
<1> DEFINE r == Scheduled(nodes)
<1>0. Ok(nodes) /\ Carries(nodes, value) BY DEF CompilerInvariant
<1>1. /\ A \subseteq Ops(nodes) /\ \A op \in A : AssertedIn(nodes, op)
      /\ solutions = {X \in Inputs : \A op \in A : value[op][X] = 0}
      /\ Frames(nodes, ninput, A, shown, tidy /\ shown = <<>>)
      /\ (tidy => TidyNodes(nodes, A, shown))
  BY DEF BuildOf
<1>2. Size(nodes) <= Corners
  <2>1. limit.nodes \in Nat /\ limit.nodes <= Corners /\ Size(nodes) <= limit.nodes BY DEF Building
  <2>2. Size(nodes) \in Nat BY <1>0, Numbered DEF Ok
  <2> QED BY <2>1, <2>2, CornersAssumption
<1>3. Program(nodes, A, shown) BY <1>1, <1>2 DEF Program, Frames
<1>4. /\ nodes' = r.nodes /\ status' = r.status /\ value' = value /\ solutions' = solutions
      /\ shown' = shown /\ tidy' = tidy /\ (r.status = "done" => cir' = Circuit(r.layers, ninput))
  BY Zenon DEF MkCircuit
<1>5. /\ r.status \in {"done", "lnodes.at", "renamed_at_d not unique", "wid == lnpi.desired_wire_id"}
      /\ TidyNodes(nodes, A, shown) => r.status \in {"done", "lnodes.at"}
      /\ r.status = "lnodes.at" => shown = <<>> /\ \A i \in Ops(r.nodes) : ~r.nodes[i].is_assert0
      /\ r.status = "done" =>
           Len(r.layers) \in Nat
           /\ \A circ : Built(circ, r.layers) /\ Len(r.layers) > 0 => Computes(circ, nodes, A, shown)
  BY <1>3, ScheduledIs
<1> HIDE DEF r
<1>6. TidyProgramsCompile' BY <1>1, <1>4, <1>5 DEF TidyProgramsCompile
<1>7. ComputesTheProgram'
  <2> SUFFICES ASSUME status' = "done", cir'.nl > 0, NEW X \in Inputs
               PROVE  LET q == RunCircuit(cir', X)
                      IN  /\ (q.ok /\ \A g \in DOMAIN q.W : q.W[g] = 0)
                               <=> (X \in solutions' /\ \A j \in DOMAIN shown' : value'[shown'[j]][X] = 0)
                          /\ tidy' => \A j \in DOMAIN shown' : q.W[j - 1] = value'[shown'[j]][X]
    BY DEF ComputesTheProgram, Val
  <2>1. r.status = "done" /\ Len(r.layers) \in Nat /\ cir' = Circuit(r.layers, ninput) BY <1>4, <1>5
  <2>2. Built(cir', r.layers) BY <2>1, CircuitIs
  <2>3. Len(r.layers) > 0 BY <2>2 DEF Built
  <2>4. Computes(cir', nodes, A, shown) BY <1>5, <2>1, <2>2, <2>3
  <2> DEFINE q == RunCircuit(cir', X)
  <2>5. /\ (q.ok /\ \A g \in DOMAIN q.W : q.W[g] = 0)
             <=> ((\A op \in A : value[op][X] = 0) /\ \A j \in 1..Len(shown) : value[shown[j]][X] = 0)
        /\ TidyNodes(nodes, A, shown) => \A j \in 1..Len(shown) : q.W[j - 1] = value[shown[j]][X]
    BY <1>0, <2>4 DEF Computes
  <2>6. DOMAIN shown = 1..Len(shown)
    <3>1. shown \in Seq(Nat) BY DEF Building
    <3> QED BY <3>1
  <2>7. X \in solutions <=> \A op \in A : value[op][X] = 0 BY <1>1
  <2> HIDE DEF q
  <2>8. (q.ok /\ \A g \in DOMAIN q.W : q.W[g] = 0)
          <=> (X \in solutions' /\ \A j \in DOMAIN shown' : value'[shown'[j]][X] = 0)
    BY <1>4, <2>5, <2>6, <2>7
  <2>9. tidy' => \A j \in DOMAIN shown' : q.W[j - 1] = value'[shown'[j]][X]
    BY <1>1, <1>4, <2>5, <2>6
  <2> QED BY <2>8, <2>9 DEF q
<1>8. status' # "build" BY <1>4, <1>5
<1> QED BY <1>6, <1>7, <1>8 DEF CircuitIsTheProgram

-----------------------------------------------------------------------------
(* The inductive invariant *)
ProgramInvariant == CompilerInvariant /\ (status = "build" => Building) /\ CircuitIsTheProgram

(* Until mkcircuit() is called there is nothing to say of the circuit. *)
LEMMA NotCompiled ==
  ASSUME status' \in {"build", "private_input", "begin_full_field"}
  PROVE  CircuitIsTheProgram'
BY DEF CircuitIsTheProgram, ComputesTheProgram, TidyProgramsCompile

(* A call that returns a wire *)
LEMMA ReturnedBuilds ==
  ASSUME CompilerInvariant, Building, NEW A, BuildOf(A), NEW STATE r, Returns(nodes, r),
         Grows(nodes, r, ninput', A, shown, tidy /\ shown = <<>>),
         nodes' = r.ns, value' = WithNew(r.ns, value), Cardinality(Ops(r.ns)) <= limit.nodes,
         tidy' = (tidy /\ shown = <<>>), solutions' = solutions, shown' = shown, noutput' = noutput,
         limit' = limit, status' = "build"
  PROVE  Building' /\ CircuitIsTheProgram'
BY CallBuilds, NotCompiled

(* Every step of a program being built builds on, or compiles what is      *)
(* built.                                                                  *)
LEMMA BuildStep ==
  ASSUME CompilerInvariant, CompilerInvariant', Building, status = "build", Next
  PROVE  (status' = "build" => Building') /\ CircuitIsTheProgram'
<1> DEFINE Goal == (status' = "build" => Building') /\ CircuitIsTheProgram'
<1>0. PICK A : BuildOf(A) BY DEF Building
<1>f. Frames(nodes, ninput, A, shown, tidy /\ shown = <<>>) /\ (tidy /\ shown = <<>>) \in BOOLEAN BY <1>0 DEF BuildOf
<1>o. Ok(nodes) /\ ninput \in Nat /\ Ok(nodes)' BY DEF CompilerInvariant
<1>k. \A k \in Coefs : k \in Elt BY CoefsAssumption
<1>1. ASSUME NEW a \in Ops(nodes), NEW b \in Ops(nodes), Add(a, b) PROVE Goal
  <2> DEFINE r == add(nodes, a, b)
  <2>1. Returns(nodes, r) BY <1>o, <1>k, AddCall DEF AddsUp
  <2>2. Grows(nodes, r, ninput, A, shown, tidy /\ shown = <<>>) BY <1>f, <1>o, <1>k, AddGrows
  <2>3. /\ nodes' = r.ns /\ value' = WithNew(r.ns, value) /\ Cardinality(Ops(r.ns)) <= limit.nodes
        /\ tidy' = (tidy /\ shown = <<>>) /\ solutions' = solutions /\ shown' = shown
        /\ noutput' = noutput /\ limit' = limit /\ ninput' = ninput /\ status' = "build"
    BY <1>1 DEF Add, Returned, quiet
  <2> HIDE DEF r
  <2>4. Grows(nodes, r, ninput', A, shown, tidy /\ shown = <<>>) BY <2>2, <2>3
  <2> QED BY <1>0, <2>1, <2>3, <2>4, ReturnedBuilds
<1>2. ASSUME NEW a \in Ops(nodes), NEW b \in Ops(nodes), Sub(a, b) PROVE Goal
  <2> DEFINE r == sub(nodes, a, b)
  <2>1. Returns(nodes, r) BY <1>o, <1>k, SubCall
  <2>2. Grows(nodes, r, ninput, A, shown, tidy /\ shown = <<>>) BY <1>f, <1>o, <1>k, SubGrows
  <2>3. /\ nodes' = r.ns /\ value' = WithNew(r.ns, value) /\ Cardinality(Ops(r.ns)) <= limit.nodes
        /\ tidy' = (tidy /\ shown = <<>>) /\ solutions' = solutions /\ shown' = shown
        /\ noutput' = noutput /\ limit' = limit /\ ninput' = ninput /\ status' = "build"
    BY <1>2 DEF Sub, Returned, quiet
  <2> HIDE DEF r
  <2>4. Grows(nodes, r, ninput', A, shown, tidy /\ shown = <<>>) BY <2>2, <2>3
  <2> QED BY <1>0, <2>1, <2>3, <2>4, ReturnedBuilds
<1>3. ASSUME NEW a \in Ops(nodes), NEW b \in Ops(nodes), NEW k \in Coefs, Mul3(k, a, b) PROVE Goal
  <2> DEFINE r == mul3(nodes, k, a, b)
  <2>1. Returns(nodes, r) BY <1>o, <1>k, Mul3Call
  <2>2. Grows(nodes, r, ninput, A, shown, tidy /\ shown = <<>>) BY <1>f, <1>o, <1>k, Mul3Grows
  <2>3. /\ nodes' = r.ns /\ value' = WithNew(r.ns, value) /\ Cardinality(Ops(r.ns)) <= limit.nodes
        /\ tidy' = (tidy /\ shown = <<>>) /\ solutions' = solutions /\ shown' = shown
        /\ noutput' = noutput /\ limit' = limit /\ ninput' = ninput /\ status' = "build"
    BY <1>3 DEF Mul3, Returned, quiet
  <2> HIDE DEF r
  <2>4. Grows(nodes, r, ninput', A, shown, tidy /\ shown = <<>>) BY <2>2, <2>3
  <2> QED BY <1>0, <2>1, <2>3, <2>4, ReturnedBuilds
<1>4. ASSUME NEW a \in Ops(nodes), NEW b \in Ops(nodes), NEW k \in Coefs, Axpy(a, k, b) PROVE Goal
  <2> DEFINE r == axpy(nodes, a, k, b)
  <2>1. Returns(nodes, r) BY <1>o, <1>k, AxpyCall
  <2>2. Grows(nodes, r, ninput, A, shown, tidy /\ shown = <<>>) BY <1>f, <1>o, <1>k, AxpyGrows
  <2>3. /\ nodes' = r.ns /\ value' = WithNew(r.ns, value) /\ Cardinality(Ops(r.ns)) <= limit.nodes
        /\ tidy' = (tidy /\ shown = <<>>) /\ solutions' = solutions /\ shown' = shown
        /\ noutput' = noutput /\ limit' = limit /\ ninput' = ninput /\ status' = "build"
    BY <1>4 DEF Axpy, Returned, quiet
  <2> HIDE DEF r
  <2>4. Grows(nodes, r, ninput', A, shown, tidy /\ shown = <<>>) BY <2>2, <2>3
  <2> QED BY <1>0, <2>1, <2>3, <2>4, ReturnedBuilds
<1>5. ASSUME NEW a \in Ops(nodes), NEW k \in Coefs, Mul(k, a) PROVE Goal
  <2> DEFINE r == mul2(nodes, k, a)
  <2>1. Returns(nodes, r) BY <1>o, <1>k, Mul2Call
  <2>2. Grows(nodes, r, ninput, A, shown, tidy /\ shown = <<>>) BY <1>f, <1>o, <1>k, Mul2Grows
  <2>3. /\ nodes' = r.ns /\ value' = WithNew(r.ns, value) /\ Cardinality(Ops(r.ns)) <= limit.nodes
        /\ tidy' = (tidy /\ shown = <<>>) /\ solutions' = solutions /\ shown' = shown
        /\ noutput' = noutput /\ limit' = limit /\ ninput' = ninput /\ status' = "build"
    BY <1>5 DEF Mul, Returned, quiet
  <2> HIDE DEF r
  <2>4. Grows(nodes, r, ninput', A, shown, tidy /\ shown = <<>>) BY <2>2, <2>3
  <2> QED BY <1>0, <2>1, <2>3, <2>4, ReturnedBuilds
<1>6. ASSUME NEW a \in Ops(nodes), NEW k \in Coefs, Apy(a, k) PROVE Goal
  <2> DEFINE r == apy(nodes, a, k)
  <2>1. Returns(nodes, r) BY <1>o, <1>k, ApyCall
  <2>2. Grows(nodes, r, ninput, A, shown, tidy /\ shown = <<>>) BY <1>f, <1>o, <1>k, ApyGrows
  <2>3. /\ nodes' = r.ns /\ value' = WithNew(r.ns, value) /\ Cardinality(Ops(r.ns)) <= limit.nodes
        /\ tidy' = (tidy /\ shown = <<>>) /\ solutions' = solutions /\ shown' = shown
        /\ noutput' = noutput /\ limit' = limit /\ ninput' = ninput /\ status' = "build"
    BY <1>6 DEF Apy, Returned, quiet
  <2> HIDE DEF r
  <2>4. Grows(nodes, r, ninput', A, shown, tidy /\ shown = <<>>) BY <2>2, <2>3
  <2> QED BY <1>0, <2>1, <2>3, <2>4, ReturnedBuilds
<1>7. ASSUME NEW k \in Coefs, Konst(k) PROVE Goal
  <2> DEFINE r == konst(nodes, k)
  <2>1. Returns(nodes, r) BY <1>o, <1>k, KonstCall
  <2>2. Grows(nodes, r, ninput, A, shown, tidy /\ shown = <<>>) BY <1>f, <1>o, <1>k, KonstGrows
  <2>3. /\ nodes' = r.ns /\ value' = WithNew(r.ns, value) /\ Cardinality(Ops(r.ns)) <= limit.nodes
        /\ tidy' = (tidy /\ shown = <<>>) /\ solutions' = solutions /\ shown' = shown
        /\ noutput' = noutput /\ limit' = limit /\ ninput' = ninput /\ status' = "build"
    BY <1>7 DEF Konst, Returned, quiet
  <2> HIDE DEF r
  <2>4. Grows(nodes, r, ninput', A, shown, tidy /\ shown = <<>>) BY <2>2, <2>3
  <2> QED BY <1>0, <2>1, <2>3, <2>4, ReturnedBuilds
<1>8. CASE InputWire
  <2> DEFINE r == push_node(nodes, InputNode(ninput))
  <2>1. ninput < MaxInputs BY <1>8 DEF InputWire
  <2>2. /\ nodes' = r.ns /\ value' = WithNew(r.ns, value) /\ Cardinality(Ops(r.ns)) <= limit.nodes
        /\ tidy' = (tidy /\ shown = <<>>) /\ solutions' = solutions /\ shown' = shown
        /\ noutput' = noutput /\ limit' = limit /\ ninput' = ninput + 1 /\ status' = "build"
    BY <1>8 DEF InputWire, Returned
  <2>3. Returns(nodes, r) /\ Grows(nodes, r, ninput + 1, A, shown, tidy /\ shown = <<>>)
    BY <1>f, <1>o, <2>1, InputGrows
  <2> HIDE DEF r
  <2>4. Grows(nodes, r, ninput', A, shown, tidy /\ shown = <<>>) BY <2>2, <2>3
  <2> QED BY <1>0, <2>2, <2>3, <2>4, ReturnedBuilds
<1>9. ASSUME NEW a \in Ops(nodes), Assert0(a) PROVE Goal
  <2>1. status' = "build" BY <1>9 DEF Assert0
  <2>2. Building' BY <1>0, <1>9, AssertBuilds
  <2> QED BY <2>1, <2>2, NotCompiled
<1>10. ASSUME NEW a \in Ops(nodes), OutputWire(a) PROVE Goal
  <2>1. status' = "build" BY <1>10 DEF OutputWire
  <2>2. Building' BY <1>0, <1>o, <1>10, OutputBuilds
  <2> QED BY <2>1, <2>2, NotCompiled
<1>11. CASE PrivateInput \/ BeginFullField
  <2>1. /\ nodes' = nodes /\ value' = value /\ ninput' = ninput /\ noutput' = noutput /\ limit' = limit
        /\ solutions' = solutions /\ shown' = shown /\ tidy' = tidy
        /\ status' \in {"build", "private_input", "begin_full_field"}
    BY <1>11 DEF PrivateInput, BeginFullField
  <2>2. BuildOf(A)' BY <1>0, <2>1 DEF BuildOf
  <2>3. Building' BY <2>1, <2>2 DEF Building
  <2> QED BY <2>1, <2>3, NotCompiled
<1>12. CASE MkCircuit BY <1>0, <1>12, CircuitBuilt
<1> QED BY <1>1, <1>2, <1>3, <1>4, <1>5, <1>6, <1>7, <1>8, <1>9, <1>10, <1>11, <1>12 DEF Next, Build

(* When a program is compiled or stopped, no step is possible. *)
LEMMA Stopped ==
  ASSUME Next PROVE status = "build"
BY DEF Next, Build, MkCircuit, Add, Sub, Mul, Mul3, Axpy, Apy, Konst, Returned, InputWire, PrivateInput,
       BeginFullField, Assert0, OutputWire

(* The invariant holds when a program begins, and every step keeps it. *)
LEMMA InitProgram == Init => ProgramInvariant
<1> SUFFICES ASSUME Init PROVE ProgramInvariant OBVIOUS
<1>1. status = "build" BY DEF Init
<1>2. CircuitIsTheProgram BY <1>1 DEF CircuitIsTheProgram, ComputesTheProgram, TidyProgramsCompile
<1> QED BY <1>2, InitIsSound, InitBuilds DEF ProgramInvariant

(* Every step keeps the invariant.                                         *)
LEMMA NextProgram == ProgramInvariant /\ [Next]_vars => ProgramInvariant'
<1> SUFFICES ASSUME ProgramInvariant, [Next]_vars PROVE ProgramInvariant' OBVIOUS
<1>1. CompilerInvariant /\ CompilerInvariant' BY NextIsSound DEF ProgramInvariant
<1>2. CASE Next
  <2>1. status = "build" BY <1>2, Stopped
  <2>2. Building BY <2>1 DEF ProgramInvariant
  <2>3. (status' = "build" => Building') /\ CircuitIsTheProgram' BY <1>1, <1>2, <2>1, <2>2, BuildStep
  <2> QED BY <1>1, <2>3 DEF ProgramInvariant
<1>3. CASE UNCHANGED vars
  <2>1. /\ nodes' = nodes /\ ninput' = ninput /\ noutput' = noutput /\ status' = status /\ cir' = cir
        /\ limit' = limit /\ value' = value /\ solutions' = solutions /\ shown' = shown /\ tidy' = tidy
    BY <1>3 DEF vars
  <2>2. status' = "build" => Building' 
    <3> SUFFICES ASSUME status' = "build" PROVE Building' OBVIOUS
    <3>1. Building BY <2>1 DEF ProgramInvariant
    <3>2. PICK A : BuildOf(A) BY <3>1 DEF Building
    <3>3. BuildOf(A)' BY <2>1, <3>2 DEF BuildOf
    <3> QED BY <2>1, <3>1, <3>3 DEF Building
  <2>3. CircuitIsTheProgram'
    <3>1. CircuitIsTheProgram BY DEF ProgramInvariant
    <3> QED BY <2>1, <3>1 DEF CircuitIsTheProgram, ComputesTheProgram, TidyProgramsCompile, Val
  <2> QED BY <1>1, <2>2, <2>3 DEF ProgramInvariant
<1> QED BY <1>2, <1>3

(* The circuit mkcircuit() returns is satisfied by the inputs that satisfy *)
(* what the program asserted and make what it showed zero, whatever calls  *)
(* it made and in whatever order, and if it declared its outputs last they *)
(* carry the wires it named, by number; the scheduler stops only programs  *)
(* that show or assert nothing, or show a wire twice, show zero, show what *)
(* they assert or go on after showing; for every field, set of constants   *)
(* and number of inputs, nodes and outputs that corners can number.        *)
THEOREM CircuitTheorem == Spec => []CircuitIsTheProgram
<1>1. ProgramInvariant => CircuitIsTheProgram BY DEF ProgramInvariant
<1> QED BY <1>1, InitProgram, NextProgram, PTL DEF Spec

-----------------------------------------------------------------------------
(* Numbers in bytes *)
Bytes == 0..(Byte - 1)

(* A byte has at least two values.                                         *)
LEMMA TheBytes ==
  /\ Byte \in Nat /\ Byte > 1 /\ Bytes \subseteq Nat
  /\ KBytesPerSizeT \in Nat /\ EltBytes \in Nat /\ KIdSize \in Nat
  /\ KMaxLayers \in Nat /\ KMaxBindings \in Nat /\ FieldId \in Nat
<1>1. Byte \in Nat /\ Byte > 1 BY WidthsAssumption, SMT
<1> QED BY <1>1, WidthsAssumption, SMT DEF Bytes

IsPow(f, n) == f[0] = 1 /\ \A k \in 1..n : f[k] = Byte * f[k - 1]

(* Values is its recurrence.                                               *)
LEMMA PowIs ==
  ASSUME NEW n \in Nat
  PROVE  \E f : IsPow(f, n) /\ Values(n) = f[n]
<1> DEFINE F == [p \in (1..n) \X Nat |-> Byte * p[2]]
<1>1. F \in [(1..n) \X Nat -> Nat] BY TheBytes, SMT
<1>2. 1 \in Nat OBVIOUS
<1>3. PICK f \in [0..n -> Nat] : f[0] = 1 /\ \A j \in 1..n : f[j] = F[<<j, f[j - 1]>>]
  <2> HIDE DEF F
  <2>1. \E f : f \in [0..n -> Nat] /\ L!Recursive(f, n, 1, F) BY <1>1, <1>2, L!RecursionExists, Zenon
  <2> QED BY <2>1 DEF L!Recursive
<1>4. \A k \in 1..n : f[k] = Byte * f[k - 1]
  <2>1. \A k \in 1..n : f[k - 1] \in Nat BY SMT
  <2> QED BY <1>3, <2>1
<1>5. f = [k \in 0..n |-> IF k = 0 THEN 1 ELSE Byte * f[k - 1]]
  <2>1. ASSUME NEW k \in 0..n PROVE f[k] = IF k = 0 THEN 1 ELSE Byte * f[k - 1]
    <3>1. k # 0 => k \in 1..n BY SMT
    <3> QED BY <1>3, <1>4, <3>1
  <2>2. f = [k \in 0..n |-> f[k]] OBVIOUS
  <2> QED BY <2>1, <2>2, Zenon
<1> DEFINE pow == CHOOSE pow : pow = [k \in 0..n |-> IF k = 0 THEN 1 ELSE Byte * pow[k - 1]]
<1>6. pow = [k \in 0..n |-> IF k = 0 THEN 1 ELSE Byte * pow[k - 1]] BY <1>5, Zenon
<1>7. Values(n) = pow[n] BY Zenon DEF Values
<1> HIDE DEF pow
<1>8. pow[0] = 1 BY <1>6, SMT
<1>9. ASSUME NEW k \in 1..n PROVE pow[k] = Byte * pow[k - 1]
  <2>1. k \in 0..n /\ k # 0 BY SMT
  <2> QED BY <1>6, <2>1, Zenon
<1> QED BY <1>7, <1>8, <1>9 DEF IsPow

(* One more byte has Byte times the values.                                *)
LEMMA ValuesAre ==
  /\ Values(0) = 1
  /\ \A n \in Nat : Values(n) \in Nat \ {0} /\ Values(n + 1) = Byte * Values(n)
<1>1. Values(0) = 1
  <2>1. PICK f : IsPow(f, 0) /\ Values(0) = f[0] BY PowIs
  <2> QED BY <2>1 DEF IsPow
<1>2. ASSUME NEW n \in Nat PROVE Values(n + 1) = Byte * Values(n)
  <2>1. PICK f : IsPow(f, n) /\ Values(n) = f[n] BY PowIs
  <2>2. PICK g : IsPow(g, n + 1) /\ Values(n + 1) = g[n + 1] BY PowIs
  <2>3. \A k \in 1..n : k \in 1..(n + 1) BY SMT
  <2>4. f[0] = g[0] /\ \A k \in 1..n : f[k - 1] = g[k - 1] => f[k] = g[k]
    BY <2>1, <2>2, <2>3 DEF IsPow
  <2>5. \A k \in 0..n : f[k] = g[k]
    <3>1. L!StayAlike(f, g, n) BY <2>4, Zenon DEF L!StayAlike
    <3> QED BY <3>1, L!RecursionIsUnique
  <2>6. n + 1 \in 1..(n + 1) /\ (n + 1) - 1 = n /\ n \in 0..n BY SMT
  <2> QED BY <2>1, <2>2, <2>5, <2>6 DEF IsPow
<1> DEFINE S == {n \in Nat : Values(n) \in Nat \ {0}}
<1>3. 0 \in S BY <1>1
<1>4. ASSUME NEW n \in Nat, n \in S PROVE n + 1 \in S
  <2>1. Values(n) \in Nat /\ Values(n) # 0 /\ Values(n + 1) = Byte * Values(n) BY <1>2, <1>4
  <2>2. Byte * Values(n) \in Nat /\ Byte * Values(n) # 0 BY <2>1, TheBytes, SMT
  <2> QED BY <2>1, <2>2
<1>5. \A n \in Nat : n \in S
  <2> HIDE DEF S
  <2> QED BY <1>3, <1>4, L!Induction, Zenon
<1> QED BY <1>1, <1>2, <1>5

(* A quotient and its remainder                                            *)
LEMMA Divided ==
  ASSUME NEW x \in Nat, NEW d \in Nat, d > 0
  PROVE  x \div d \in Nat /\ x % d \in 0..(d - 1) /\ x = d * (x \div d) + (x % d)
BY SMT

(* What is left of a number after each byte                                *)
LEMMA ShiftedIs ==
  ASSUME NEW x \in Nat, NEW n \in Nat
  PROVE  /\ Shifted(x, n)[0] = x
         /\ \A j \in 1..n : Shifted(x, n)[j] = Shifted(x, n)[j - 1] \div Byte
         /\ \A j \in 0..n : Shifted(x, n)[j] \in Nat
<1> DEFINE F == [p \in (1..n) \X Nat |-> p[2] \div Byte]
<1>1. F \in [(1..n) \X Nat -> Nat]
  <2>1. \A y \in Nat : y \div Byte \in Nat BY TheBytes, Divided
  <2> QED BY <2>1
<1>2. PICK f \in [0..n -> Nat] : f[0] = x /\ \A j \in 1..n : f[j] = F[<<j, f[j - 1]>>]
  <2> HIDE DEF F
  <2>1. \E f : f \in [0..n -> Nat] /\ L!Recursive(f, n, x, F) BY <1>1, L!RecursionExists, Zenon
  <2> QED BY <2>1 DEF L!Recursive
<1>3. \A k \in 1..n : f[k] = f[k - 1] \div Byte
  <2>1. \A k \in 1..n : f[k - 1] \in Nat BY SMT
  <2> QED BY <1>2, <2>1
<1>4. f = [k \in 0..n |-> IF k = 0 THEN x ELSE f[k - 1] \div Byte]
  <2>1. ASSUME NEW k \in 0..n PROVE f[k] = IF k = 0 THEN x ELSE f[k - 1] \div Byte
    <3>1. k # 0 => k \in 1..n BY SMT
    <3> QED BY <1>2, <1>3, <3>1
  <2>2. f = [k \in 0..n |-> f[k]] OBVIOUS
  <2> QED BY <2>1, <2>2, Zenon
<1> DEFINE rest == CHOOSE rest : rest = [k \in 0..n |-> IF k = 0 THEN x ELSE rest[k - 1] \div Byte]
<1>5. rest = [k \in 0..n |-> IF k = 0 THEN x ELSE rest[k - 1] \div Byte] BY <1>4, Zenon
<1>6. Shifted(x, n) = rest BY Zenon DEF Shifted
<1> HIDE DEF rest
<1>7. rest[0] = x BY <1>5, SMT
<1>8. ASSUME NEW k \in 1..n PROVE rest[k] = rest[k - 1] \div Byte
  <2>1. k \in 0..n /\ k # 0 BY SMT
  <2> QED BY <1>5, <2>1, Zenon
<1>9. \A k \in 0..n : f[k] = rest[k]
  <2>2. f[0] = rest[0] /\ \A k \in 1..n : f[k - 1] = rest[k - 1] => f[k] = rest[k]
    BY <1>2, <1>3, <1>7, <1>8
  <2>1. L!StayAlike(f, rest, n) BY <2>2, Zenon DEF L!StayAlike
  <2> QED BY <2>1, L!RecursionIsUnique
<1> QED BY <1>6, <1>7, <1>8, <1>9

(* After enough bytes nothing is left.                                     *)
LEMMA NothingLeft ==
  ASSUME NEW n \in Nat, NEW x \in 0..(Values(n) - 1)
  PROVE  Shifted(x, n)[n] = 0
<1> DEFINE r == Shifted(x, n)
           S == {j \in Nat : j <= n => r[j] < Values(n - j)}
<1>1. Values(n) \in Nat BY ValuesAre
<1>2. x \in Nat BY <1>1, SMT
<1>3. /\ r[0] = x /\ \A j \in 1..n : r[j] = r[j - 1] \div Byte
      /\ \A j \in 0..n : r[j] \in Nat
  BY <1>2, ShiftedIs
<1> HIDE DEF r
<1>4. 0 \in S
  <2>1. n - 0 = n /\ x < Values(n) BY <1>1, SMT
  <2> QED BY <1>3, <2>1
<1>5. ASSUME NEW j \in Nat, j \in S PROVE j + 1 \in S
  <2> SUFFICES ASSUME j + 1 <= n PROVE r[j + 1] < Values(n - (j + 1)) OBVIOUS
  <2> DEFINE m == n - (j + 1)
  <2>1. m \in Nat /\ m + 1 = n - j /\ j + 1 \in 1..n /\ (j + 1) - 1 = j /\ j \in 0..n /\ j <= n BY SMT
  <2>2. r[j] < Values(m + 1) BY <1>5, <2>1
  <2> DEFINE y == r[j]   q == r[j] \div Byte   v == Values(m)
  <2>3. v \in Nat /\ Values(m + 1) = Byte * v BY <2>1, ValuesAre
  <2>4. y \in Nat /\ r[j + 1] = q /\ y < Byte * v BY <1>3, <2>1, <2>2, <2>3
  <2>5. q \in Nat /\ y = Byte * q + (y % Byte) /\ y % Byte >= 0 BY <2>4, TheBytes, Divided, SMT
  <2> HIDE DEF y, q, v
  <2>6. Byte * q < Byte * v
    <3> DEFINE z == y % Byte
    <3>1. z \in Nat BY <2>4, TheBytes, SMT
    <3>2. Byte * q \in Nat /\ Byte * v \in Nat BY <2>3, <2>5, TheBytes, SMT
    <3> HIDE DEF z
    <3> QED BY <2>4, <2>5, <3>1, <3>2, SMT DEF z
  <2>7. q < v
    <3> SUFFICES ASSUME q >= v PROVE FALSE BY <2>3, <2>5, SMT
    <3>1. q - v \in Nat /\ Byte * q = Byte * v + Byte * (q - v) BY <2>3, <2>5, TheBytes, SMT
    <3>2. Byte * (q - v) \in Nat BY <3>1, TheBytes, SMT
    <3>3. Byte * q \in Nat /\ Byte * v \in Nat BY <2>3, <2>5, TheBytes, SMT
    <3> QED BY <2>6, <3>1, <3>2, <3>3, SMT
  <2> QED BY <2>4, <2>7 DEF v
<1>6. \A j \in Nat : j \in S
  <2> HIDE DEF S
  <2> QED BY <1>4, <1>5, L!Induction, Zenon
<1>7. n \in S /\ n - n = 0 /\ n \in 0..n BY <1>6, SMT
<1>8. r[n] < 1 /\ r[n] \in Nat BY <1>3, <1>7, ValuesAre
<1> QED BY <1>8, SMT DEF r

(* The digits of a number are bytes.                                       *)
LEMMA DigitsAreBytes ==
  ASSUME NEW x \in Nat, NEW n \in Nat
  PROVE  Digits(x, n) \in [1..n -> Bytes]
<1>1. ASSUME NEW j \in 1..n PROVE Shifted(x, n)[j - 1] % Byte \in Bytes
  <2>1. j - 1 \in 0..n BY SMT
  <2>2. Shifted(x, n)[j - 1] \in Nat BY <2>1, ShiftedIs
  <2> QED BY <2>2, TheBytes, Divided DEF Bytes
<1> QED BY <1>1 DEF Digits

IsNumber(f, k, n) == f[0] = 0 /\ \A j \in 1..n : f[j] = buf[k + n + 1 - j] + (Byte * f[j - 1])

(* Number is its recurrence.                                               *)
LEMMA NumberIs ==
  ASSUME NEW k \in Nat, NEW n \in Nat, \A j \in 1..n : buf[k + j] \in Bytes
  PROVE  \E f \in [0..n -> Nat] : IsNumber(f, k, n) /\ Number(k, n) = f[n]
<1> DEFINE b(j) == buf[k + n + 1 - j]
           F == [p \in (1..n) \X Nat |-> b(p[1]) + (Byte * p[2])]
<1>1. \A j \in 1..n : b(j) \in Nat
  <2>1. ASSUME NEW j \in 1..n PROVE b(j) \in Nat
    <3>1. n + 1 - j \in 1..n /\ k + (n + 1 - j) = k + n + 1 - j BY SMT
    <3>2. buf[k + (n + 1 - j)] \in Bytes BY <3>1
    <3> QED BY <3>1, <3>2, TheBytes
  <2> QED BY <2>1
<1>2. F \in [(1..n) \X Nat -> Nat]
  <2>1. \A j \in 1..n, y \in Nat : b(j) + (Byte * y) \in Nat
    <3>1. \A y \in Nat : Byte * y \in Nat BY TheBytes, SMT
    <3> HIDE DEF b
    <3> QED BY <1>1, <3>1
  <2> HIDE DEF b
  <2> QED BY <2>1
<1>3. 0 \in Nat OBVIOUS
<1>4. PICK f \in [0..n -> Nat] : f[0] = 0 /\ \A j \in 1..n : f[j] = F[<<j, f[j - 1]>>]
  <2> HIDE DEF F
  <2>1. \E f : f \in [0..n -> Nat] /\ L!Recursive(f, n, 0, F) BY <1>2, <1>3, L!RecursionExists, Zenon
  <2> QED BY <2>1 DEF L!Recursive
<1>5. \A j \in 1..n : f[j] = b(j) + (Byte * f[j - 1])
  <2>1. \A j \in 1..n : f[j - 1] \in Nat BY SMT
  <2> QED BY <1>4, <2>1
<1>6. f = [j \in 0..n |-> IF j = 0 THEN 0 ELSE b(j) + (Byte * f[j - 1])]
  <2>1. ASSUME NEW j \in 0..n PROVE f[j] = IF j = 0 THEN 0 ELSE b(j) + (Byte * f[j - 1])
    <3>1. j # 0 => j \in 1..n BY SMT
    <3> QED BY <1>4, <1>5, <3>1
  <2>2. f = [j \in 0..n |-> f[j]] OBVIOUS
  <2> HIDE DEF b
  <2> QED BY <2>1, <2>2, Zenon
<1> DEFINE v == CHOOSE v : v = [j \in 0..n |-> IF j = 0 THEN 0 ELSE buf[k + n + 1 - j] + (Byte * v[j - 1])]
<1>7. v = [j \in 0..n |-> IF j = 0 THEN 0 ELSE b(j) + (Byte * v[j - 1])] BY <1>6, Zenon
<1>8. Number(k, n) = v[n] BY Zenon DEF Number
<1> HIDE DEF v, b
<1>9. v[0] = 0 BY <1>7, SMT
<1>10. ASSUME NEW j \in 1..n PROVE v[j] = b(j) + (Byte * v[j - 1])
  <2>1. j \in 0..n /\ j # 0 BY SMT
  <2> QED BY <1>7, <2>1, Zenon
<1>11. \A j \in 0..n : f[j] = v[j]
  <2>2. f[0] = v[0] /\ \A i \in 1..n : f[i - 1] = v[i - 1] => f[i] = v[i]
    BY <1>4, <1>5, <1>9, <1>10
  <2>1. L!StayAlike(f, v, n) BY <2>2, Zenon DEF L!StayAlike
  <2> QED BY <2>1, L!RecursionIsUnique
<1>12. n \in 0..n BY SMT
<1>13. IsNumber(f, k, n) BY <1>4, <1>5 DEF IsNumber, b
<1> QED BY <1>8, <1>11, <1>12, <1>13

(* Bytes read as a number that they can tell apart from others.            *)
LEMMA NumberIsSmall ==
  ASSUME NEW k \in Nat, NEW n \in Nat, \A j \in 1..n : buf[k + j] \in Bytes
  PROVE  Number(k, n) \in 0..(Values(n) - 1)
<1>1. PICK f \in [0..n -> Nat] : IsNumber(f, k, n) /\ Number(k, n) = f[n] BY NumberIs
<1> DEFINE S == {j \in Nat : j <= n => f[j] < Values(j)}
<1>2. 0 \in S BY <1>1, ValuesAre DEF IsNumber
<1>3. ASSUME NEW j \in Nat, j \in S PROVE j + 1 \in S
  <2> SUFFICES ASSUME j + 1 <= n PROVE f[j + 1] < Values(j + 1) OBVIOUS
  <2> DEFINE d == buf[k + n + 1 - (j + 1)]   y == f[j]   v == Values(j)
  <2>1. j + 1 \in 1..n /\ (j + 1) - 1 = j /\ j \in 0..n BY SMT
  <2>2. f[j + 1] = d + (Byte * y) BY <1>1, <2>1 DEF IsNumber
  <2>3. d \in Bytes
    <3>1. n - j \in 1..n /\ k + (n - j) = k + n + 1 - (j + 1) BY <2>1, SMT
    <3>2. buf[k + (n - j)] \in Bytes BY <3>1
    <3> QED BY <3>1, <3>2
  <2>4. y \in Nat /\ y < v /\ v \in Nat /\ Values(j + 1) = Byte * v BY <1>3, <2>1, ValuesAre
  <2> HIDE DEF d, y, v
  <2>5. v - y - 1 \in Nat /\ Byte * v = Byte * y + Byte + Byte * (v - y - 1) BY <2>4, TheBytes, SMT
  <2>6. Byte * (v - y - 1) \in Nat /\ Byte * y \in Nat BY <2>4, <2>5, TheBytes, SMT
  <2>7. d \in Nat /\ d < Byte BY <2>3, TheBytes, SMT DEF Bytes
  <2> QED BY <2>2, <2>4, <2>5, <2>6, <2>7, TheBytes, SMT
<1>4. \A j \in Nat : j \in S
  <2> HIDE DEF S
  <2> QED BY <1>2, <1>3, L!Induction, Zenon
<1>5. f[n] \in Nat /\ f[n] < Values(n) /\ Values(n) \in Nat BY <1>4, ValuesAre
<1> QED BY <1>1, <1>5, SMT

(* A number whose digits are in the buffer is read there.                  *)
LEMMA ReadsBack ==
  ASSUME NEW k \in Nat, NEW n \in Nat, NEW x \in 0..(Values(n) - 1),
         \A j \in 1..n : buf[k + j] = Digits(x, n)[j]
  PROVE  Number(k, n) = x
<1>1. x \in Nat BY ValuesAre, SMT
<1>2. \A j \in 1..n : buf[k + j] \in Bytes
  <2>1. Digits(x, n) \in [1..n -> Bytes] BY <1>1, DigitsAreBytes
  <2>2. \A j \in 1..n : Digits(x, n)[j] \in Bytes BY <2>1
  <2> QED BY <2>2
<1>3. PICK f \in [0..n -> Nat] : IsNumber(f, k, n) /\ Number(k, n) = f[n] BY <1>2, NumberIs
<1> DEFINE r == Shifted(x, n)
           S == {j \in Nat : j <= n => f[j] = r[n - j]}
<1>4. /\ r[0] = x /\ r[n] = 0 /\ \A j \in 1..n : r[j] = r[j - 1] \div Byte
      /\ \A j \in 0..n : r[j] \in Nat
      /\ \A j \in 1..n : buf[k + j] = r[j - 1] % Byte
  BY <1>1, ShiftedIs, NothingLeft DEF Digits
<1> HIDE DEF r
<1>5. 0 \in S BY <1>3, <1>4 DEF IsNumber
<1>6. ASSUME NEW j \in Nat, j \in S PROVE j + 1 \in S
  <2> SUFFICES ASSUME j + 1 <= n PROVE f[j + 1] = r[n - (j + 1)] OBVIOUS
  <2> DEFINE m == n - j
  <2>1. /\ j + 1 \in 1..n /\ (j + 1) - 1 = j /\ m \in 1..n /\ k + m = k + n + 1 - (j + 1)
        /\ n - (j + 1) = m - 1 /\ m - 1 \in 0..n
    BY SMT
  <2>2. f[j + 1] = buf[k + n + 1 - (j + 1)] + (Byte * f[j]) BY <1>3, <2>1 DEF IsNumber
  <2>3. f[j] = r[m] BY <1>6, <2>1
  <2> HIDE DEF m
  <2> DEFINE y == r[m - 1]
  <2>4. y \in Nat /\ r[m] = y \div Byte /\ buf[k + m] = y % Byte BY <1>4, <2>1
  <2> HIDE DEF y
  <2>5. y = Byte * (y \div Byte) + (y % Byte) /\ y \div Byte \in Nat /\ y % Byte \in Nat
    BY <2>4, TheBytes, SMT
  <2>6. f[j + 1] = (y % Byte) + (Byte * (y \div Byte)) BY <2>1, <2>2, <2>3, <2>4
  <2>7. f[j + 1] = y
    <3> DEFINE q == y \div Byte   z == y % Byte
    <3>1. q \in Nat /\ z \in Nat /\ y = Byte * q + z /\ f[j + 1] = z + (Byte * q) BY <2>5, <2>6
    <3> HIDE DEF q, z
    <3>2. Byte * q \in Nat BY <3>1, TheBytes, SMT
    <3> QED BY <3>1, <3>2, SMT
  <2> QED BY <2>1, <2>7 DEF y
<1>7. \A j \in Nat : j \in S
  <2> HIDE DEF S
  <2> QED BY <1>5, <1>6, L!Induction, Zenon
<1>8. n \in S /\ n - n = 0 BY <1>7
<1> QED BY <1>3, <1>4, <1>8

-----------------------------------------------------------------------------
(* Sequences of parts *)
(* The two instances of SequencesExt flatten alike.                        *)
LEMMA SameFlatten == \A ss : Seqs!FlattenSeq(ss) = L!FlattenSeq(ss)
BY Zenon DEF Seqs!FlattenSeq, L!FlattenSeq

(* n bytes of f for each number                                            *)
IsPacked(f, ns, n) ==
  /\ f \in Seq(Bytes) /\ Len(f) = n * Len(ns)
  /\ \A i \in 1..Len(ns) : \A j \in 1..n : f[(n * (i - 1)) + j] = Digits(ns[i], n)[j]

(* Numbers of one width follow each other.                                 *)
LEMMA PackedIs ==
  ASSUME NEW ns \in Seq(Nat), NEW n \in Nat, NEW f,
         f = Seqs!FlattenSeq([k \in DOMAIN ns |-> Digits(ns[k], n)])
  PROVE  IsPacked(f, ns, n)
<1> DEFINE m == Len(ns)
           ss == [k \in DOMAIN ns |-> Digits(ns[k], n)]
<1>1. m \in Nat /\ DOMAIN ns = 1..m /\ \A i \in 1..m : ns[i] \in Nat OBVIOUS
<1>2. ss = [k \in 1..m |-> Digits(ns[k], n)] /\ \A i \in 1..m : ss[i] = Digits(ns[i], n) BY <1>1
<1> HIDE DEF ss, m
<1>3. L!IsSeq(ss) /\ Len(ss) = m
  <2>1. ss = [k \in 1..m |-> ss[k]] BY <1>2
  <2> QED BY <1>1, <2>1, L!SequenceOfLength
<1>4. ASSUME NEW i \in 1..m PROVE ss[i] \in Seq(Bytes) /\ L!IsSeq(ss[i]) /\ Len(ss[i]) = n
  <2>1. Digits(ns[i], n) \in [1..n -> Bytes] BY <1>1, DigitsAreBytes
  <2>2. Digits(ns[i], n) \in Seq(Bytes) BY <2>1, SeqDef
  <2>3. Digits(ns[i], n) = [k \in 1..n |-> Digits(ns[i], n)[k]] BY <2>1
  <2>4. L!IsSeq(Digits(ns[i], n)) /\ Len(Digits(ns[i], n)) = n BY <2>3, L!SequenceOfLength, Zenon
  <2> QED BY <1>2, <2>2, <2>4
<1>5. f = L!FlattenSeq(ss) BY SameFlatten DEF ss
<1>6. L!RowsOf(f, ss, n)
  <2>1. L!HasRows(ss, n) BY <1>3, <1>4 DEF L!HasRows
  <2> QED BY <1>5, <2>1, L!FlatteningRows
<1>7. ss \in Seq(Seq(Bytes))
  <2>1. ss \in [1..m -> Seq(Bytes)]
    <3>1. ss = [k \in 1..m |-> ss[k]] BY <1>2
    <3> QED BY <1>4, <3>1
  <2> QED BY <1>1, <2>1, SeqDef
<1>8. f \in Seq(Bytes) BY <1>5, <1>7, L!FlatteningIsTyped
<1>9. Len(f) = n * m /\ \A i \in 1..m : \A j \in 1..n : f[n * (i - 1) + j] = ss[i][j]
  BY <1>3, <1>6 DEF L!RowsOf
<1> QED BY <1>2, <1>8, <1>9 DEF IsPacked, m

(* A circuit is what it says.                                              *)
LEMMA CircuitIsTyped ==
  ASSUME NEW x, IsCircuit(x)
  PROVE  /\ IsHeader(x) /\ L!IsSeq(x.l) /\ Len(x.l) \in Nat /\ DOMAIN x.l = 1..Len(x.l)
         /\ \A k \in 1..Len(x.l) :
              /\ IsLayer(x, k) /\ x.l[k] \in Layer
              /\ x.l[k].nw \in Nat /\ x.l[k].nw > 0 /\ x.l[k].logw \in Nat
              /\ x.l[k].quad \in Seq(Corner) /\ Len(x.l[k].quad) \in Nat /\ Len(x.l[k].quad) > 0
              /\ DOMAIN x.l[k].quad = 1..Len(x.l[k].quad)
<1>1. IsHeader(x) /\ x.l \in Seq(Layer) /\ \A k \in DOMAIN x.l : IsLayer(x, k)
  BY DEF IsCircuit
<1>2. Len(x.l) \in Nat /\ DOMAIN x.l = 1..Len(x.l) /\ L!IsSeq(x.l)
  BY <1>1 DEF L!IsSeq
<1>3. ASSUME NEW k \in 1..Len(x.l)
      PROVE  /\ x.l[k] \in Layer
             /\ x.l[k].nw \in Nat /\ x.l[k].nw > 0 /\ x.l[k].logw \in Nat
             /\ x.l[k].quad \in Seq(Corner) /\ Len(x.l[k].quad) \in Nat /\ Len(x.l[k].quad) > 0
             /\ DOMAIN x.l[k].quad = 1..Len(x.l[k].quad)
  <2>1. x.l[k] \in Layer /\ x.l[k].quad # <<>> BY <1>1, <1>2 DEF IsLayer
  <2>2. x.l[k].nw \in Nat \ {0} /\ x.l[k].logw \in Nat /\ x.l[k].quad \in Seq(Corner)
    BY <2>1 DEF Layer
  <2> DEFINE q == x.l[k].quad
  <2>3. q \in Seq(Corner) /\ q # <<>> BY <2>1, <2>2
  <2> HIDE DEF q
  <2>4. Len(q) \in Nat /\ Len(q) > 0 /\ DOMAIN q = 1..Len(q) BY <2>3
  <2> QED BY <2>1, <2>2, <2>4, SMT DEF q
<1> QED BY <1>1, <1>2, <1>3

-----------------------------------------------------------------------------
(* What the writer writes *)

(* All terms of a circuit are listed.                                      *)
LEMMA TermsAre ==
  ASSUME NEW x, IsCircuit(x)
  PROVE  /\ Terms(x) \in Seq(Corner)
         /\ \A k \in 1..Len(x.l) : \A j \in 1..Len(x.l[k].quad) :
              \E i \in 1..Len(Terms(x)) : Terms(x)[i] = x.l[k].quad[j]
<1> DEFINE m == Len(x.l)
           ss == [k \in DOMAIN x.l |-> x.l[k].quad]
<1>1. /\ m \in Nat /\ DOMAIN x.l = 1..m
      /\ \A k \in 1..m : x.l[k].quad \in Seq(Corner)
  BY CircuitIsTyped
<1>2. ss = [k \in 1..m |-> x.l[k].quad] /\ \A k \in 1..m : ss[k] = x.l[k].quad BY <1>1
<1>3. Terms(x) = L!FlattenSeq(ss) BY SameFlatten DEF Terms
<1> HIDE DEF ss, m
<1>4. ss \in Seq(Seq(Corner))
  <2>1. ss \in [1..m -> Seq(Corner)]
    <3>1. ss = [k \in 1..m |-> ss[k]] BY <1>2
    <3> QED BY <1>1, <1>2, <3>1
  <2> QED BY <1>1, <2>1, SeqDef
<1>5. Terms(x) \in Seq(Corner) BY <1>3, <1>4, L!FlatteningIsTyped
<1>6. Len(ss) = m /\ L!IsSeq(ss) /\ \A k \in 1..Len(ss) : L!IsSeq(ss[k])
  <2>1. ss = [k \in 1..m |-> ss[k]] BY <1>2
  <2>2. Len(ss) = m /\ L!IsSeq(ss) BY <1>1, <2>1, L!SequenceOfLength
  <2> QED BY <1>1, <1>2, <2>2 DEF L!IsSeq
<1>7. \A k \in 1..Len(ss) : \A j \in 1..Len(ss[k]) :
        \E i \in 1..Len(L!FlattenSeq(ss)) : L!FlattenSeq(ss)[i] = ss[k][j]
  BY <1>6, L!Flattening
<1>8. ASSUME NEW k \in 1..m, NEW j \in 1..Len(x.l[k].quad)
      PROVE  \E i \in 1..Len(Terms(x)) : Terms(x)[i] = x.l[k].quad[j]
  <2>1. ss[k] = x.l[k].quad /\ k \in 1..Len(ss) /\ j \in 1..Len(ss[k]) BY <1>2, <1>6
  <2> QED BY <1>3, <1>7, <2>1
<1> QED BY <1>5, <1>8 DEF m

Stored(s, v) == IF v \in Seqs!ToSet(s) THEN s ELSE Append(s, v)

(* Storing keeps what was stored.                                          *)
LEMMA StoredIs ==
  ASSUME NEW s \in Seq(Elt), NEW v \in Elt
  PROVE  /\ Stored(s, v) \in Seq(Elt) /\ \E k \in 1..Len(Stored(s, v)) : Stored(s, v)[k] = v
         /\ \A i \in 1..Len(s) : \E k \in 1..Len(Stored(s, v)) : Stored(s, v)[k] = s[i]
<1>1. Len(s) \in Nat /\ DOMAIN s = 1..Len(s) OBVIOUS
<1>2. CASE v \in Seqs!ToSet(s)
  <2>1. \E k \in DOMAIN s : s[k] = v BY <1>2 DEF Seqs!ToSet
  <2> QED BY <1>1, <1>2, <2>1 DEF Stored
<1>3. CASE v \notin Seqs!ToSet(s)
  <2> DEFINE t == Append(s, v)
  <2>1. t \in Seq(Elt) /\ Len(t) = Len(s) + 1 /\ t[Len(s) + 1] = v
        /\ \A i \in 1..Len(s) : t[i] = s[i]
    OBVIOUS
  <2>2. Stored(s, v) = t BY <1>3 DEF Stored
  <2> HIDE DEF t
  <2>3. Len(s) + 1 \in 1..Len(t) /\ \A i \in 1..Len(s) : i \in 1..Len(t) BY <1>1, <2>1, SMT
  <2> QED BY <2>1, <2>2, <2>3
<1> QED BY <1>2, <1>3

(* Every coefficient has its place among the constants.                    *)
LEMMA KvecIs ==
  ASSUME NEW x, IsCircuit(x)
  PROVE  /\ kvec(x) \in Seq(Elt)
         /\ \A i \in 1..Len(Terms(x)) : \E k \in 1..Len(kvec(x)) : kvec(x)[k] = Terms(x)[i].v
<1> DEFINE ts == Terms(x)   n == Len(ts)
           F == [p \in (1..n) \X Seq(Elt) |-> Stored(p[2], ts[p[1]].v)]
<1>1. n \in Nat /\ \A i \in 1..n : ts[i].v \in Elt
  <2>1. ts \in Seq(Corner) BY TermsAre
  <2> HIDE DEF ts
  <2>2. \A i \in 1..n : ts[i] \in Corner BY <2>1
  <2> QED BY <2>1, <2>2 DEF Corner
<1> HIDE DEF ts
<1>2. F \in [(1..n) \X Seq(Elt) -> Seq(Elt)]
  <2>1. \A i \in 1..n, s \in Seq(Elt) : Stored(s, ts[i].v) \in Seq(Elt) BY <1>1, StoredIs
  <2> QED BY <2>1
<1>3. <<>> \in Seq(Elt) OBVIOUS
<1>4. PICK f \in [0..n -> Seq(Elt)] : f[0] = <<>> /\ \A k \in 1..n : f[k] = F[<<k, f[k - 1]>>]
  <2> HIDE DEF F, n
  <2>1. \E f : f \in [0..n -> Seq(Elt)] /\ L!Recursive(f, n, <<>>, F)
    BY <1>1, <1>2, <1>3, L!RecursionExists, Zenon
  <2> QED BY <2>1 DEF L!Recursive
<1>5. \A k \in 1..n : f[k] = Stored(f[k - 1], ts[k].v)
  <2>1. \A k \in 1..n : f[k - 1] \in Seq(Elt) BY <1>1, SMT
  <2> QED BY <1>4, <2>1
<1>6. f = [k \in 0..n |-> IF k = 0 THEN <<>> ELSE Stored(f[k - 1], ts[k].v)]
  <2>1. ASSUME NEW k \in 0..n PROVE f[k] = IF k = 0 THEN <<>> ELSE Stored(f[k - 1], ts[k].v)
    <3>1. k # 0 => k \in 1..n BY <1>1, SMT
    <3> QED BY <1>4, <1>5, <3>1
  <2>2. f = [k \in 0..n |-> f[k]] OBVIOUS
  <2> QED BY <2>1, <2>2, Zenon
<1> DEFINE kv == CHOOSE kv : kv = [k \in 0..n |-> IF k = 0 THEN <<>> ELSE Stored(kv[k - 1], ts[k].v)]
<1>7. kv = [k \in 0..n |-> IF k = 0 THEN <<>> ELSE Stored(kv[k - 1], ts[k].v)] BY <1>6, Zenon
<1>8. kvec(x) = kv[n] BY Zenon DEF kvec, Stored, ts
<1> HIDE DEF kv
<1>9. kv[0] = <<>> BY <1>1, <1>7, SMT
<1>10. ASSUME NEW k \in 1..n PROVE kv[k] = Stored(kv[k - 1], ts[k].v)
  <2>1. k \in 0..n /\ k # 0 BY <1>1, SMT
  <2> QED BY <1>7, <2>1, Zenon
<1>11. \A k \in 0..n : f[k] = kv[k]
  <2>2. f[0] = kv[0] /\ \A k \in 1..n : f[k - 1] = kv[k - 1] => f[k] = kv[k]
    BY <1>4, <1>5, <1>9, <1>10
  <2> HIDE DEF n
  <2>1. L!StayAlike(f, kv, n) BY <2>2, Zenon DEF L!StayAlike
  <2> QED BY <1>1, <2>1, L!RecursionIsUnique
<1> DEFINE Has(k) == \A i \in 1..k : \E j \in 1..Len(f[k]) : f[k][j] = ts[i].v
           S == {k \in Nat : k <= n => Has(k)}
<1>12. 0 \in S OBVIOUS
<1>13. ASSUME NEW k \in Nat, k \in S PROVE k + 1 \in S
  <2> SUFFICES ASSUME k + 1 <= n PROVE Has(k + 1)
    <3> HIDE DEF Has
    <3> QED OBVIOUS
  <2>1. k + 1 \in 1..n /\ (k + 1) - 1 = k /\ k \in 0..n /\ k <= n BY <1>1, SMT
  <2>2. f[k + 1] = Stored(f[k], ts[k + 1].v) /\ f[k] \in Seq(Elt) /\ ts[k + 1].v \in Elt
    BY <1>1, <1>5, <2>1
  <2>3. Has(k)
    <3> HIDE DEF Has
    <3> QED BY <1>13, <2>1
  <2> DEFINE s == f[k]   v == ts[k + 1].v   t == f[k + 1]
  <2>5. s \in Seq(Elt) /\ v \in Elt /\ t = Stored(s, v) BY <2>2
  <2>6. /\ \E j \in 1..Len(t) : t[j] = v
        /\ \A i \in 1..Len(s) : \E j \in 1..Len(t) : t[j] = s[i]
    <3> HIDE DEF s, v, t
    <3> QED BY <2>5, StoredIs
  <2>4. ASSUME NEW i \in 1..(k + 1) PROVE \E j \in 1..Len(f[k + 1]) : f[k + 1][j] = ts[i].v
    <3>1. CASE i = k + 1 BY <2>6, <3>1
    <3>2. CASE i # k + 1
      <4>1. i \in 1..k BY <3>2, SMT
      <4>2. PICK j \in 1..Len(f[k]) : f[k][j] = ts[i].v BY <2>3, <4>1
      <4>3. \E q \in 1..Len(f[k + 1]) : f[k + 1][q] = f[k][j] BY <2>6
      <4> QED BY <4>2, <4>3
    <3> QED BY <3>1, <3>2
  <2> QED BY <2>4
<1>14. \A k \in Nat : k \in S
  <2> HIDE DEF S
  <2> QED BY <1>12, <1>13, L!Induction, Zenon
<1>15. Has(n)
  <2> HIDE DEF Has
  <2> QED BY <1>1, <1>14
<1>16. n \in 0..n /\ kvec(x) = f[n] BY <1>1, <1>8, <1>11, SMT
<1> QED BY <1>15, <1>16 DEF ts

(* A term is written with the number of its coefficient.                   *)
LEMMA KloadIs ==
  ASSUME NEW x, IsCircuit(x), NEW k \in 1..Len(x.l), NEW j \in 1..Len(x.l[k].quad)
  PROVE  LET i == kload(x, x.l[k].quad[j].v)
         IN  /\ i \in Nat /\ i < Len(kvec(x)) /\ kvec(x)[i + 1] = x.l[k].quad[j].v
<1> DEFINE v == x.l[k].quad[j].v   s == kvec(x)
           a == CHOOSE i \in DOMAIN s : s[i] = v
<1>1. \E i \in 1..Len(Terms(x)) : Terms(x)[i] = x.l[k].quad[j] BY TermsAre
<1>2. s \in Seq(Elt) /\ \E i \in 1..Len(s) : s[i] = v BY <1>1, KvecIs
<1>3. Len(s) \in Nat /\ DOMAIN s = 1..Len(s) BY <1>2
<1>4. kload(x, v) = a - 1 BY DEF kload
<1> HIDE DEF s
<1>5. a \in DOMAIN s /\ s[a] = v BY <1>2, <1>3
<1> HIDE DEF a, v
<1>6. a - 1 \in Nat /\ a - 1 < Len(s) /\ (a - 1) + 1 = a BY <1>3, <1>5, SMT
<1> QED BY <1>4, <1>5, <1>6 DEF s, v

-----------------------------------------------------------------------------
(* The term before the j-th of a layer                                     *)
Prior(q, j) == IF j = 1 THEN [g |-> 0, h |-> <<0, 0>>] ELSE q[j - 1]

(* It is a pair of wires and an output as well.                            *)
LEMMA PriorIs ==
  ASSUME NEW q \in Seq(Corner), NEW j \in 1..Len(q)
  PROVE  /\ q[j].g \in Nat /\ q[j].h = <<q[j].h[1], q[j].h[2]>> /\ q[j].h[1] \in Nat /\ q[j].h[2] \in Nat
         /\ q[j].v \in Elt /\ q[j] = [g |-> q[j].g, h |-> q[j].h, v |-> q[j].v]
         /\ Prior(q, j).g \in Nat /\ Prior(q, j).h[1] \in Nat /\ Prior(q, j).h[2] \in Nat
<1>1. \A i \in 1..Len(q) :
        /\ q[i].g \in Nat /\ q[i].h = <<q[i].h[1], q[i].h[2]>> /\ q[i].h[1] \in Nat /\ q[i].h[2] \in Nat
        /\ q[i].v \in Elt /\ q[i] = [g |-> q[i].g, h |-> q[i].h, v |-> q[i].v]
  <2>1. ASSUME NEW i \in 1..Len(q) PROVE q[i] \in Corner OBVIOUS
  <2>2. ASSUME NEW z \in Corner
        PROVE  /\ z.g \in Nat /\ z.h = <<z.h[1], z.h[2]>> /\ z.h[1] \in Nat /\ z.h[2] \in Nat
               /\ z.v \in Elt /\ z = [g |-> z.g, h |-> z.h, v |-> z.v]
    BY <2>2 DEF Corner
  <2> QED BY <2>1, <2>2, Zenon
<1>2. CASE j = 1 BY <1>1, <1>2 DEF Prior
<1>3. CASE j # 1
  <2>1. j - 1 \in 1..Len(q) BY <1>3, SMT
  <2> QED BY <1>1, <1>3, <2>1 DEF Prior
<1> QED BY <1>2, <1>3

(* Differences and signs make natural numbers.                             *)
LEMMA IndexIs ==
  ASSUME NEW a \in Nat, NEW b \in Nat
  PROVE  Index(a, b) \in Nat
BY SMT DEF Index

Row(x, q, j) ==
  <<Index(q[j].g, Prior(q, j).g), Index(q[j].h[1], Prior(q, j).h[1]),
    Index(q[j].h[2], Prior(q, j).h[2]), kload(x, q[j].v)>>

(* four numbers for each term, after three others                          *)
HasRows(x, q, ns) ==
  \A j \in 1..Len(q) : \A i \in 1..4 : ns[3 + ((4 * (j - 1)) + i)] = Row(x, q, j)[i]

(* The numbers written for a layer: three, and four for each term.         *)
LEMMA LayerNumbersAre ==
  ASSUME NEW x, IsCircuit(x), NEW k \in 1..Len(x.l)
  PROVE  LET y == x.l[k]   ns == LayerNumbers(x, y)
         IN  /\ ns \in Seq(Nat) /\ Len(ns) = 3 + (4 * Len(y.quad))
             /\ ns[1] = y.logw /\ ns[2] = y.nw /\ ns[3] = Len(y.quad)
             /\ HasRows(x, y.quad, ns)
<1> DEFINE y == x.l[k]
           q == y.quad
           n == Len(q)
           front == <<y.logw, y.nw, n>>
           ss == [j \in DOMAIN q |-> Row(x, q, j)]
           tail == Seqs!FlattenSeq(ss)
<1>1. q \in Seq(Corner) /\ n \in Nat /\ DOMAIN q = 1..n /\ y.logw \in Nat /\ y.nw \in Nat BY CircuitIsTyped
<1>2. LayerNumbers(x, y) = front \o tail BY DEF LayerNumbers, Row, Prior
<1>3. ASSUME NEW j \in 1..n
      PROVE  Row(x, q, j) \in Seq(Nat) /\ Len(Row(x, q, j)) = 4
  <2> DEFINE r1 == Index(q[j].g, Prior(q, j).g)
             r2 == Index(q[j].h[1], Prior(q, j).h[1])
             r3 == Index(q[j].h[2], Prior(q, j).h[2])
             r4 == kload(x, q[j].v)
  <2>1. /\ q[j].g \in Nat /\ q[j].h[1] \in Nat /\ q[j].h[2] \in Nat
        /\ Prior(q, j).g \in Nat /\ Prior(q, j).h[1] \in Nat /\ Prior(q, j).h[2] \in Nat
    <3> HIDE DEF q
    <3> QED BY <1>1, PriorIs
  <2>2. r1 \in Nat /\ r2 \in Nat /\ r3 \in Nat BY <2>1, IndexIs
  <2>3. r4 \in Nat BY KloadIs
  <2>4. Row(x, q, j) = <<r1, r2, r3, r4>> BY DEF Row
  <2> HIDE DEF r1, r2, r3, r4
  <2> QED BY <2>2, <2>3, <2>4
<1>4. ss = [j \in 1..n |-> Row(x, q, j)] /\ \A j \in 1..n : ss[j] = Row(x, q, j) BY <1>1
<1>5. tail = L!FlattenSeq(ss) BY SameFlatten
<1>6. front \in Seq(Nat) /\ Len(front) = 3 /\ front[1] = y.logw /\ front[2] = y.nw /\ front[3] = n
  BY <1>1
<1> HIDE DEF ss, front, q, n, tail
<1>7. ss = [j \in 1..n |-> ss[j]] BY <1>4, Zenon
<1>8. L!IsSeq(ss) /\ Len(ss) = n BY <1>1, <1>7, L!SequenceOfLength
<1>9. L!RowsOf(tail, ss, 4)
  <2>1. L!HasRows(ss, 4) BY <1>3, <1>4, <1>8 DEF L!HasRows, L!IsSeq
  <2> QED BY <1>5, <2>1, L!FlatteningRows
<1>10. tail \in Seq(Nat)
  <2>1. ss \in [1..n -> Seq(Nat)] BY <1>3, <1>4, <1>7
  <2>2. ss \in Seq(Seq(Nat)) BY <1>1, <2>1, SeqDef
  <2> QED BY <1>5, <2>2, L!FlatteningIsTyped
<1>11. Len(tail) = 4 * n /\ \A j \in 1..n : \A i \in 1..4 : tail[(4 * (j - 1)) + i] = Row(x, q, j)[i]
  BY <1>4, <1>8, <1>9 DEF L!RowsOf
<1> DEFINE ns == front \o tail
<1>12. /\ ns \in Seq(Nat) /\ Len(ns) = Len(front) + Len(tail)
       /\ \A i \in 1..Len(front) : ns[i] = front[i]
       /\ \A i \in 1..Len(tail) : ns[Len(front) + i] = tail[i]
  <2>1. ns \in Seq(Nat) BY <1>6, <1>10
  <2>2. L!IsSeq(front) /\ L!IsSeq(tail) BY <1>6, <1>10 DEF L!IsSeq
  <2> QED BY <2>1, <2>2, L!Concatenation
<1> HIDE DEF ns
<1>13. ns[1] = y.logw /\ ns[2] = y.nw /\ ns[3] = n /\ Len(ns) = 3 + (4 * n)
  BY <1>6, <1>11, <1>12, SMT
<1>14. ASSUME NEW j \in 1..n, NEW i \in 1..4
       PROVE  ns[3 + ((4 * (j - 1)) + i)] = Row(x, q, j)[i]
  <2>1. (4 * (j - 1)) + i \in 1..(4 * n) BY <1>1, SMT
  <2> DEFINE r == (4 * (j - 1)) + i
  <2>2. tail[r] = Row(x, q, j)[i] BY <1>11
  <2>3. r \in 1..Len(tail) BY <1>11, <2>1
  <2> HIDE DEF r
  <2>4. ns[3 + r] = tail[r] BY <1>6, <1>12, <2>3
  <2> QED BY <2>2, <2>4, Zenon DEF r
<1>16. HasRows(x, q, ns) BY <1>14 DEF HasRows, n
<1>15. LayerNumbers(x, y) = ns BY <1>2 DEF ns
<1> HIDE DEF y
<1> QED BY <1>12, <1>13, <1>15, <1>16 DEF q, n, y

IsLayout(x, at) ==
  /\ at[0] = 0 /\ \A k \in 0..Len(x.l) : at[k] \in Nat
  /\ \A k \in 1..Len(x.l) : at[k] = at[k - 1] + 3 + (4 * Len(x.l[k].quad))
  /\ Len(Body(x)) = at[Len(x.l)] /\ \A k \in 0..Len(x.l) : at[k] <= Len(Body(x))
  /\ \A k \in 1..Len(x.l) : \A i \in 1..(3 + (4 * Len(x.l[k].quad))) :
       Body(x)[at[k - 1] + i] = LayerNumbers(x, x.l[k])[i]
(* the numbers of the body before each layer                               *)
At(x) == CHOOSE at : IsLayout(x, at)

(* Layers follow each other in the body.                                   *)
LEMMA LayoutIs ==
  ASSUME NEW x, IsCircuit(x)
  PROVE  Body(x) \in Seq(Nat) /\ IsLayout(x, At(x))
<1> DEFINE m == Len(x.l)
           ss == [k \in DOMAIN x.l |-> LayerNumbers(x, x.l[k])]
<1>1. m \in Nat /\ DOMAIN x.l = 1..m BY CircuitIsTyped
<1>2. \A k \in 1..m : /\ LayerNumbers(x, x.l[k]) \in Seq(Nat)
                      /\ Len(LayerNumbers(x, x.l[k])) = 3 + (4 * Len(x.l[k].quad))
  BY LayerNumbersAre
<1>3. ss = [k \in 1..m |-> LayerNumbers(x, x.l[k])] /\ \A k \in 1..m : ss[k] = LayerNumbers(x, x.l[k])
  BY <1>1
<1>4. Body(x) = L!FlattenSeq(ss) BY SameFlatten DEF Body
<1> HIDE DEF ss, m
<1>5. ss = [k \in 1..m |-> ss[k]] BY <1>3, Zenon
<1>6. L!IsSeq(ss) /\ Len(ss) = m BY <1>1, <1>5, L!SequenceOfLength
<1>7. Body(x) \in Seq(Nat)
  <2>1. ss \in [1..m -> Seq(Nat)] BY <1>2, <1>3, <1>5
  <2>2. ss \in Seq(Seq(Nat)) BY <1>1, <2>1, SeqDef
  <2> QED BY <1>4, <2>2, L!FlatteningIsTyped
<1>8. \A k \in 1..Len(ss) : L!IsSeq(ss[k]) BY <1>2, <1>3, <1>6 DEF L!IsSeq
<1>9. PICK at : L!PartsAt(at, ss, Body(x)) BY <1>4, <1>6, <1>8, L!FlatteningParts
<1>10. /\ at[0] = 0 /\ \A i \in 0..m : at[i] \in Nat /\ at[i] <= Len(Body(x))
       /\ \A i \in 1..m : at[i] = at[i - 1] + Len(ss[i])
       /\ Len(Body(x)) = at[m]
       /\ \A i \in 1..m : \A j \in 1..Len(ss[i]) : Body(x)[at[i - 1] + j] = ss[i][j]
  BY <1>6, <1>9 DEF L!PartsAt
<1>11. \A i \in 1..m : at[i - 1] \in Nat /\ Len(x.l[i].quad) \in Nat
  <2>1. \A i \in 1..m : i - 1 \in 0..m BY <1>1, SMT
  <2>2. \A i \in 1..m : Len(x.l[i].quad) \in Nat BY CircuitIsTyped DEF m
  <2> QED BY <1>10, <2>1, <2>2
<1>12. \A i \in 1..m : at[i] = at[i - 1] + 3 + (4 * Len(x.l[i].quad))
  <2>1. ASSUME NEW i \in 1..m PROVE at[i] = at[i - 1] + 3 + (4 * Len(x.l[i].quad))
    <3> DEFINE a == at[i - 1]   n == Len(x.l[i].quad)
    <3>1. a \in Nat /\ n \in Nat BY <1>11
    <3>2. at[i] = a + (3 + (4 * n)) BY <1>2, <1>3, <1>10
    <3> HIDE DEF a, n
    <3>3. at[i] = a + 3 + (4 * n) BY <3>1, <3>2, SMT
    <3> QED BY <3>3 DEF a, n
  <2> QED BY <2>1
<1>13. \A i \in 1..m : \A j \in 1..(3 + (4 * Len(x.l[i].quad))) :
         Body(x)[at[i - 1] + j] = LayerNumbers(x, x.l[i])[j]
  BY <1>2, <1>3, <1>10
<1>14. IsLayout(x, at) BY <1>10, <1>12, <1>13 DEF IsLayout, m
<1> QED BY <1>7, <1>14, Zenon DEF At

(* where the body starts                                                   *)
BodyStart(x) == (1 + (8 * KBytesPerSizeT)) + (EltBytes * Len(kvec(x)))

(* The numbers of the header                                               *)
LEMMA HeaderIs ==
  ASSUME NEW x, IsCircuit(x)
  PROVE  /\ Header(x) \in Seq(Nat) /\ Len(Header(x)) = 8
         /\ Header(x)[1] = FieldId /\ Header(x)[2] = x.nv /\ Header(x)[3] = x.nc
         /\ Header(x)[4] = x.npub_in /\ Header(x)[5] = x.subfield_boundary
         /\ Header(x)[6] = x.ninputs /\ Header(x)[7] = Len(x.l) /\ Header(x)[8] = Len(kvec(x))
<1>1. {FieldId, x.nv, x.nc, x.npub_in, x.subfield_boundary, x.ninputs} \subseteq Nat
  BY TheBytes DEF IsCircuit, IsHeader
<1>2. Len(x.l) \in Nat /\ Len(kvec(x)) \in Nat
  <2>1. kvec(x) \in Seq(Elt) BY KvecIs
  <2> QED BY <2>1, CircuitIsTyped
<1> QED BY <1>1, <1>2 DEF Header

(* What stands where in the file                                           *)
LEMMA BytesAre ==
  ASSUME NEW x, IsCircuit(x)
  PROVE  LET b == to_bytes(x)
         IN  /\ b \in Seq(Bytes) /\ b[1] = 1
             /\ Len(b) = BodyStart(x) + (KBytesPerSizeT * Len(Body(x)))
             /\ \A i \in 1..8 : \A j \in 1..KBytesPerSizeT :
                  b[1 + ((KBytesPerSizeT * (i - 1)) + j)] = Digits(Header(x)[i], KBytesPerSizeT)[j]
             /\ \A i \in 1..Len(kvec(x)) : \A j \in 1..EltBytes :
                  b[(1 + (8 * KBytesPerSizeT)) + ((EltBytes * (i - 1)) + j)] = Digits(kvec(x)[i], EltBytes)[j]
             /\ \A i \in 1..Len(Body(x)) : \A j \in 1..KBytesPerSizeT :
                  b[BodyStart(x) + ((KBytesPerSizeT * (i - 1)) + j)] = Digits(Body(x)[i], KBytesPerSizeT)[j]
<1> DEFINE n == KBytesPerSizeT
           one == <<1>>
           h == Encoded(Header(x))
           s == Seqs!FlattenSeq([k \in DOMAIN kvec(x) |-> Digits(kvec(x)[k], EltBytes)])
           t == Encoded(Body(x))
           b1 == one \o h
           b2 == b1 \o s
           b3 == b2 \o t
           m == Len(kvec(x))
<1>1. n \in Nat /\ EltBytes \in Nat /\ m \in Nat
  <2>1. kvec(x) \in Seq(Elt) BY KvecIs
  <2> QED BY <2>1, TheBytes
<1>2. one \in Seq(Bytes) /\ Len(one) = 1 /\ one[1] = 1
  <2>1. 1 \in Bytes BY TheBytes, SMT DEF Bytes
  <2> QED BY <2>1
<1>3. /\ h \in Seq(Bytes) /\ Len(h) = n * 8
      /\ \A i \in 1..8 : \A j \in 1..n : h[(n * (i - 1)) + j] = Digits(Header(x)[i], n)[j]
  <2>1. Header(x) \in Seq(Nat) /\ Len(Header(x)) = 8 BY HeaderIs
  <2>2. h = Seqs!FlattenSeq([k \in DOMAIN Header(x) |-> Digits(Header(x)[k], n)]) BY DEF Encoded
  <2> HIDE DEF h, n
  <2>3. n \in Nat /\ Header(x) \in Seq(Nat) BY <1>1, <2>1
  <2>4. IsPacked(h, Header(x), n) BY <2>2, <2>3, PackedIs, Zenon
  <2> QED BY <2>1, <2>4 DEF IsPacked
<1>4. /\ s \in Seq(Bytes) /\ Len(s) = EltBytes * m
      /\ \A i \in 1..m : \A j \in 1..EltBytes : s[(EltBytes * (i - 1)) + j] = Digits(kvec(x)[i], EltBytes)[j]
  <2>1. kvec(x) \in Seq(Nat)
    <3>1. kvec(x) \in Seq(Elt) /\ Elt \subseteq Nat BY KvecIs, ModulusAssumption, SMT DEF Elt
    <3> QED BY <3>1, SeqMonotonic
  <2>2. s = Seqs!FlattenSeq([k \in DOMAIN kvec(x) |-> Digits(kvec(x)[k], EltBytes)]) OBVIOUS
  <2>3. EltBytes \in Nat BY <1>1
  <2> HIDE DEF s
  <2>4. IsPacked(s, kvec(x), EltBytes) BY <2>1, <2>2, <2>3, PackedIs, Zenon
  <2> QED BY <2>4 DEF IsPacked
<1>5. /\ t \in Seq(Bytes) /\ Len(t) = n * Len(Body(x))
      /\ \A i \in 1..Len(Body(x)) : \A j \in 1..n : t[(n * (i - 1)) + j] = Digits(Body(x)[i], n)[j]
  <2>1. Body(x) \in Seq(Nat) BY LayoutIs
  <2>2. t = Seqs!FlattenSeq([k \in DOMAIN Body(x) |-> Digits(Body(x)[k], n)]) BY DEF Encoded
  <2>3. n \in Nat BY <1>1
  <2> HIDE DEF t, n
  <2>4. IsPacked(t, Body(x), n) BY <2>1, <2>2, <2>3, PackedIs, Zenon
  <2> QED BY <2>4 DEF IsPacked
<1>6. to_bytes(x) = b3 BY DEF to_bytes
<1> HIDE DEF one, h, s, t
<1>7. L!IsSeq(one) /\ L!IsSeq(h) /\ L!IsSeq(s) /\ L!IsSeq(t) BY <1>2, <1>3, <1>4, <1>5 DEF L!IsSeq
<1>8. /\ L!IsSeq(b1) /\ Len(b1) = Len(one) + Len(h) /\ b1 \in Seq(Bytes)
      /\ \A k \in 1..Len(one) : b1[k] = one[k]
      /\ \A k \in 1..Len(h) : b1[Len(one) + k] = h[k]
  <2>1. b1 \in Seq(Bytes) BY <1>2, <1>3
  <2>2. /\ L!IsSeq(b1) /\ Len(b1) = Len(one) + Len(h)
        /\ \A k \in 1..Len(one) : b1[k] = one[k]
        /\ \A k \in 1..Len(h) : b1[Len(one) + k] = h[k]
    BY <1>7, L!Concatenation
  <2> QED BY <2>1, <2>2
<1> HIDE DEF b1
<1>9. /\ L!IsSeq(b2) /\ Len(b2) = Len(b1) + Len(s) /\ b2 \in Seq(Bytes)
      /\ \A k \in 1..Len(b1) : b2[k] = b1[k]
      /\ \A k \in 1..Len(s) : b2[Len(b1) + k] = s[k]
  <2>1. b2 \in Seq(Bytes) BY <1>4, <1>8
  <2>2. /\ L!IsSeq(b2) /\ Len(b2) = Len(b1) + Len(s)
        /\ \A k \in 1..Len(b1) : b2[k] = b1[k]
        /\ \A k \in 1..Len(s) : b2[Len(b1) + k] = s[k]
    <3>1. L!IsSeq(b1) /\ L!IsSeq(s) BY <1>7, <1>8
    <3> QED BY <3>1, L!Concatenation
  <2> QED BY <2>1, <2>2
<1> HIDE DEF b2
<1>10. /\ L!IsSeq(b3) /\ Len(b3) = Len(b2) + Len(t) /\ b3 \in Seq(Bytes)
       /\ \A k \in 1..Len(b2) : b3[k] = b2[k]
       /\ \A k \in 1..Len(t) : b3[Len(b2) + k] = t[k]
  <2>1. b3 \in Seq(Bytes) BY <1>5, <1>9
  <2>2. /\ L!IsSeq(b3) /\ Len(b3) = Len(b2) + Len(t)
        /\ \A k \in 1..Len(b2) : b3[k] = b2[k]
        /\ \A k \in 1..Len(t) : b3[Len(b2) + k] = t[k]
    <3>1. L!IsSeq(b2) /\ L!IsSeq(t) BY <1>7, <1>9
    <3> QED BY <3>1, L!Concatenation
  <2> QED BY <2>1, <2>2
<1> HIDE DEF b3
<1>11. Len(b1) = 1 + (8 * n) /\ Len(b1) \in Nat BY <1>1, <1>2, <1>3, <1>8, SMT
<1>12. Len(b2) = BodyStart(x) /\ Len(b2) \in Nat /\ Len(b1) <= Len(b2)
  <2>1. EltBytes * m \in Nat BY <1>1, SMT
  <2>2. Len(b2) = (1 + (8 * n)) + (EltBytes * m) BY <1>4, <1>9, <1>11
  <2> QED BY <1>11, <2>1, <2>2, SMT DEF BodyStart, n, m
<1>13. Len(b3) = BodyStart(x) + (n * Len(Body(x))) BY <1>5, <1>10, <1>12
<1>14. b3[1] = 1
  <2>1. 1 \in 1..Len(one) /\ 1 \in 1..Len(b1) /\ 1 \in 1..Len(b2) BY <1>1, <1>2, <1>11, <1>12, SMT
  <2> QED BY <1>2, <1>8, <1>9, <1>10, <2>1
<1>15. ASSUME NEW i \in 1..8, NEW j \in 1..n
       PROVE  b3[1 + ((n * (i - 1)) + j)] = Digits(Header(x)[i], n)[j]
  <2> DEFINE k == (n * (i - 1)) + j
  <2>1. k \in 1..(n * 8) BY <1>1, L!Rows
  <2> HIDE DEF k
  <2>2. k \in 1..Len(h) /\ 1 + k \in 1..Len(b1) /\ 1 + k \in 1..Len(b2)
    BY <1>1, <1>3, <1>11, <1>12, <2>1, SMT
  <2>3. b3[1 + k] = h[k] BY <1>2, <1>8, <1>9, <1>10, <2>2
  <2> QED BY <1>3, <2>3 DEF k
<1>16. ASSUME NEW i \in 1..m, NEW j \in 1..EltBytes
       PROVE  b3[(1 + (8 * n)) + ((EltBytes * (i - 1)) + j)] = Digits(kvec(x)[i], EltBytes)[j]
  <2> DEFINE k == (EltBytes * (i - 1)) + j
  <2>1. k \in 1..Len(s) BY <1>1, <1>4, L!Rows
  <2> HIDE DEF k
  <2>2. Len(b1) + k \in 1..Len(b2)
    <3>1. Len(s) \in Nat /\ k \in Nat /\ k > 0 /\ k <= Len(s) BY <1>4, <2>1
    <3> QED BY <1>9, <1>11, <3>1, SMT
  <2>3. b3[Len(b1) + k] = s[k] BY <1>9, <1>10, <2>1, <2>2
  <2> QED BY <1>4, <1>11, <2>3 DEF k
<1>17. ASSUME NEW i \in 1..Len(Body(x)), NEW j \in 1..n
       PROVE  b3[BodyStart(x) + ((n * (i - 1)) + j)] = Digits(Body(x)[i], n)[j]
  <2> DEFINE k == (n * (i - 1)) + j
  <2>1. k \in 1..Len(t)
    <3>1. Len(Body(x)) \in Nat
      <4>1. Body(x) \in Seq(Nat) BY LayoutIs
      <4> QED BY <4>1
    <3> QED BY <1>1, <1>5, <3>1, L!Rows
  <2> HIDE DEF k
  <2>2. b3[Len(b2) + k] = t[k] BY <1>10, <2>1
  <2> QED BY <1>5, <1>12, <2>2 DEF k
<1> QED BY <1>6, <1>10, <1>13, <1>14, <1>15, <1>16, <1>17 DEF n, m

(* Numbers that are written fit.                                           *)
LEMMA FitsIs ==
  ASSUME NEW x, IsCircuit(x), Fits(Header(x) \o Body(x))
  PROVE  /\ \A i \in 1..8 : Header(x)[i] \in 0..KMaxValue
         /\ \A i \in 1..Len(Body(x)) : Body(x)[i] \in 0..KMaxValue
<1> DEFINE h == Header(x)   t == Body(x)   s == h \o t
<1>1. h \in Seq(Nat) /\ t \in Seq(Nat) /\ Len(h) = 8 BY HeaderIs, LayoutIs
<1>2. \A k \in DOMAIN s : s[k] <= KMaxValue BY DEF Fits
<1> HIDE DEF h, t
<1>3. L!IsSeq(h) /\ L!IsSeq(t) BY <1>1 DEF L!IsSeq
<1>4. /\ Len(s) = Len(h) + Len(t)
      /\ \A k \in 1..Len(h) : s[k] = h[k]
      /\ \A k \in 1..Len(t) : s[Len(h) + k] = t[k]
  BY <1>3, L!Concatenation
<1>5. s \in Seq(Nat) BY <1>1
<1> HIDE DEF s
<1>6. DOMAIN s = 1..(8 + Len(t)) /\ Len(t) \in Nat BY <1>1, <1>4, <1>5
<1>7. KMaxValue \in Nat
  <2>1. Values(KBytesPerSizeT) \in Nat /\ Values(KBytesPerSizeT) # 0 BY ValuesAre, TheBytes
  <2> QED BY <2>1, SMT DEF KMaxValue
<1>8. ASSUME NEW i \in 1..8 PROVE h[i] \in 0..KMaxValue
  <2>1. i \in DOMAIN s BY <1>6, SMT
  <2>2. h[i] \in Nat
    <3>1. \A k \in 1..Len(h) : h[k] \in Nat
      <4>1. h \in Seq(Nat) BY <1>1
      <4> QED BY <4>1
    <3> QED BY <1>1, <3>1
  <2>3. s[i] = h[i] BY <1>1, <1>4
  <2> QED BY <1>2, <1>7, <2>1, <2>2, <2>3, SMT
<1>9. ASSUME NEW i \in 1..Len(t) PROVE t[i] \in 0..KMaxValue
  <2>1. 8 + i \in DOMAIN s BY <1>6, SMT
  <2>2. t[i] \in Nat /\ s[8 + i] = t[i] BY <1>1, <1>4
  <2> QED BY <1>2, <1>7, <2>1, <2>2, SMT
<1> QED BY <1>8, <1>9 DEF h, t

(* What was written is read at its place.                                  *)
LEMMA ReadIs ==
  ASSUME NEW x, IsCircuit(x), Fits(Header(x) \o Body(x)),
         \A k \in 1..Len(to_bytes(x)) : buf[k] = to_bytes(x)[k]
  PROVE  /\ buf[1] = 1
         /\ \A i \in 1..8 : Number(1 + ((i - 1) * KBytesPerSizeT), KBytesPerSizeT) = Header(x)[i]
         /\ \A i \in 1..Len(kvec(x)) :
              Number((1 + (8 * KBytesPerSizeT)) + ((i - 1) * EltBytes), EltBytes) = kvec(x)[i]
         /\ \A i \in 1..Len(Body(x)) :
              Number(BodyStart(x) + ((i - 1) * KBytesPerSizeT), KBytesPerSizeT) = Body(x)[i]
<1> DEFINE n == KBytesPerSizeT   e == EltBytes   b == to_bytes(x)
           m == Len(kvec(x))   l == Len(Body(x))   s == BodyStart(x)
<1>1. n \in Nat /\ e \in Nat /\ m \in Nat /\ l \in Nat
  <2>1. kvec(x) \in Seq(Elt) /\ Body(x) \in Seq(Nat) BY KvecIs, LayoutIs
  <2> QED BY <2>1, TheBytes
<1>2. e * m \in Nat /\ n * l \in Nat /\ s = (1 + (8 * n)) + (e * m) /\ s \in Nat
  <2>1. e * m \in Nat /\ n * l \in Nat BY <1>1, SMT
  <2>2. s = (1 + (8 * n)) + (e * m) BY DEF BodyStart
  <2> HIDE DEF s, n, e, m, l
  <2> QED BY <1>1, <2>1, <2>2, SMT
<1>3. /\ b[1] = 1 /\ Len(b) = s + (n * l)
      /\ \A i \in 1..8 : \A j \in 1..n : b[1 + ((n * (i - 1)) + j)] = Digits(Header(x)[i], n)[j]
      /\ \A i \in 1..m : \A j \in 1..e :
           b[(1 + (8 * n)) + ((e * (i - 1)) + j)] = Digits(kvec(x)[i], e)[j]
      /\ \A i \in 1..l : \A j \in 1..n : b[s + ((n * (i - 1)) + j)] = Digits(Body(x)[i], n)[j]
  BY BytesAre
<1>4. /\ \A i \in 1..8 : Header(x)[i] \in 0..(Values(n) - 1)
      /\ \A i \in 1..l : Body(x)[i] \in 0..(Values(n) - 1)
  BY FitsIs DEF KMaxValue
<1>5. \A i \in 1..m : kvec(x)[i] \in 0..(Values(e) - 1)
  <2>1. ASSUME NEW i \in 1..m PROVE kvec(x)[i] \in 0..(Values(e) - 1)
    <3>1. kvec(x)[i] \in Elt
      <4>1. kvec(x) \in Seq(Elt) BY KvecIs
      <4> QED BY <4>1
    <3>2. P <= Values(e) /\ Values(e) \in Nat /\ P \in Nat
      BY <1>1, WidthsAssumption, ValuesAre, ModulusAssumption
    <3> QED BY <3>1, <3>2, SMT DEF Elt
  <2> QED BY <2>1
<1>6. \A k \in 1..Len(b) : buf[k] = b[k] OBVIOUS
<1> HIDE DEF n, e, b, m, l, s
<1>12. Len(b) \in Nat /\ s <= Len(b) /\ 1 + (n * 8) <= Len(b) /\ (1 + (n * 8)) + (e * m) <= Len(b)
  <2> DEFINE p == e * m   q == n * l   r == n * 8
  <2>1. p \in Nat /\ q \in Nat /\ r \in Nat /\ s = (1 + r) + p /\ Len(b) = s + q
    <3>1. n * 8 = 8 * n /\ n * 8 \in Nat BY <1>1, SMT
    <3>2. Len(b) = s + (n * l) BY <1>3
    <3> QED BY <1>2, <3>1, <3>2
  <2> HIDE DEF p, q, r
  <2>2. Len(b) \in Nat /\ s <= Len(b) /\ 1 + r <= Len(b) /\ (1 + r) + p <= Len(b) BY <2>1, SMT
  <2> QED BY <2>2 DEF p, r
<1>7. buf[1] = 1
  <2>1. n * 8 \in Nat BY <1>1, SMT
  <2>2. 1 \in 1..Len(b)
    <3> DEFINE r == n * 8
    <3>1. r \in Nat /\ 1 + r <= Len(b) /\ Len(b) \in Nat BY <1>12, <2>1
    <3> HIDE DEF r
    <3> QED BY <3>1, SMT
  <2>3. b[1] = 1 BY <1>3
  <2> QED BY <1>6, <2>2, <2>3
<1>8. ASSUME NEW d \in Nat, NEW y \in Nat, d + y <= Len(b), y > 0
      PROVE  buf[d + y] = b[d + y]
  <2>1. d + y \in 1..Len(b) BY <1>8, <1>12, SMT
  <2> QED BY <1>6, <2>1
<1>9. ASSUME NEW i \in 1..8 PROVE Number(1 + ((i - 1) * n), n) = Header(x)[i]
  <2>1. i - 1 \in Nat /\ 1 + ((i - 1) * n) \in Nat BY <1>1, SMT
  <2>2. ASSUME NEW j \in 1..n PROVE buf[(1 + ((i - 1) * n)) + j] = Digits(Header(x)[i], n)[j]
    <3>1. (n * (i - 1)) + j \in 1..(n * 8) BY <1>1, L!Rows
    <3> DEFINE y == (n * (i - 1)) + j
    <3>2. y \in 1..(n * 8) BY <3>1
    <3> HIDE DEF y
    <3>3. 1 + y <= Len(b)
      <4> DEFINE r == n * 8
      <4>1. y \in 1..r /\ 1 + r <= Len(b) /\ Len(b) \in Nat /\ r \in Nat
        <5>1. n * 8 \in Nat BY <1>1, SMT
        <5> QED BY <1>12, <3>2, <5>1
      <4> HIDE DEF r
      <4> QED BY <4>1, SMT
    <3>4. buf[(1 + ((i - 1) * n)) + j] = b[1 + ((n * (i - 1)) + j)]
      <4>1. (1 + ((i - 1) * n)) + j = 1 + y /\ 1 \in Nat BY <1>1, <1>2, <2>1, SMT DEF y
      <4>2. y \in Nat /\ y > 0 BY <3>2, SMT
      <4>3. buf[1 + y] = b[1 + y] BY <1>8, <3>3, <4>1, <4>2
      <4> QED BY <4>1, <4>3 DEF y
    <3> QED BY <1>3, <3>4
  <2> QED BY <1>1, <1>4, <2>1, <2>2, ReadsBack
<1>10. ASSUME NEW i \in 1..m PROVE Number((1 + (8 * n)) + ((i - 1) * e), e) = kvec(x)[i]
  <2> DEFINE d == 1 + (8 * n)
  <2>1. i - 1 \in Nat /\ d \in Nat BY <1>1, SMT
  <2>2. d + ((i - 1) * e) \in Nat
    <3>1. (i - 1) * e \in Nat BY <1>1, <2>1, SMT
    <3> HIDE DEF d
    <3> QED BY <2>1, <3>1, SMT
  <2>3. ASSUME NEW j \in 1..e PROVE buf[(d + ((i - 1) * e)) + j] = Digits(kvec(x)[i], e)[j]
    <3>1. (e * (i - 1)) + j \in 1..(e * m) BY <1>1, L!Rows
    <3> DEFINE y == (e * (i - 1)) + j
    <3>2. y \in 1..(e * m) /\ Len(b) = (d + (e * m)) + (n * l) BY <1>2, <1>3, <3>1
    <3> HIDE DEF y, d
    <3>3. d + y <= Len(b)
      <4> DEFINE p == e * m   q == n * l
      <4>1. p \in Nat /\ q \in Nat /\ y \in 1..p /\ Len(b) = (d + p) + q BY <1>2, <3>2
      <4> HIDE DEF p, q
      <4> QED BY <2>1, <4>1, SMT
    <3>4. buf[(d + ((i - 1) * e)) + j] = b[d + ((e * (i - 1)) + j)]
      <4>1. (d + ((i - 1) * e)) + j = d + y /\ d \in Nat BY <1>1, <1>2, <2>1, SMT DEF y
      <4>2. y \in Nat /\ y > 0 BY <3>2, SMT
      <4>3. buf[d + y] = b[d + y] BY <1>8, <3>3, <4>1, <4>2
      <4> QED BY <4>1, <4>3 DEF y
    <3> QED BY <1>3, <3>4 DEF d
  <2> HIDE DEF d
  <2>4. Number(d + ((i - 1) * e), e) = kvec(x)[i] BY <1>1, <1>5, <2>2, <2>3, ReadsBack
  <2> QED BY <2>4 DEF d
<1>11. ASSUME NEW i \in 1..l PROVE Number(s + ((i - 1) * n), n) = Body(x)[i]
  <2>1. i - 1 \in Nat BY <1>1, SMT
  <2>2. s + ((i - 1) * n) \in Nat
    <3>1. (i - 1) * n \in Nat BY <1>1, <2>1, SMT
    <3> QED BY <1>2, <3>1, SMT
  <2>3. ASSUME NEW j \in 1..n PROVE buf[(s + ((i - 1) * n)) + j] = Digits(Body(x)[i], n)[j]
    <3>1. (n * (i - 1)) + j \in 1..(n * l) BY <1>1, L!Rows
    <3> DEFINE y == (n * (i - 1)) + j
    <3>2. y \in 1..(n * l) BY <3>1
    <3> HIDE DEF y
    <3>3. s + y <= Len(b)
      <4> DEFINE q == n * l
      <4>1. q \in Nat /\ y \in 1..q /\ Len(b) = s + q BY <1>2, <1>3, <3>2
      <4> HIDE DEF q
      <4> QED BY <1>2, <4>1, SMT
    <3>4. buf[(s + ((i - 1) * n)) + j] = b[s + ((n * (i - 1)) + j)]
      <4>1. (s + ((i - 1) * n)) + j = s + y /\ s \in Nat BY <1>1, <1>2, <2>1, SMT DEF y
      <4>2. y \in Nat /\ y > 0 BY <3>2, SMT
      <4>3. buf[s + y] = b[s + y] BY <1>8, <3>3, <4>1, <4>2
      <4> QED BY <4>1, <4>3 DEF y
    <3> QED BY <1>3, <3>4
  <2> QED BY <1>1, <1>4, <2>2, <2>3, ReadsBack
<1> QED BY <1>7, <1>9, <1>10, <1>11 DEF n, e, m, l, s

-----------------------------------------------------------------------------
(* Differences *)

(* Quotients are unique.                                                   *)
LEMMA RemainderIs ==
  ASSUME NEW m \in Nat, m > 0, NEW q \in Nat, NEW r \in 0..(m - 1)
  PROVE  ((m * q) + r) % m = r
<1> DEFINE x == (m * q) + r   d == x \div m   z == x % m
<1>1. m * q \in Nat BY SMT
<1>2. x \in Nat BY <1>1, SMT
<1>3. d \in Nat /\ z \in 0..(m - 1) /\ x = m * d + z
  <2> HIDE DEF x
  <2> QED BY <1>2, Divided
<1>4. (m * q) + r = (m * d) + z BY <1>3
<1> HIDE DEF x, d, z
<1>5. ASSUME NEW u \in Nat, NEW v \in Nat, u < v, NEW s \in 0..(m - 1), NEW t \in 0..(m - 1)
      PROVE  (m * v) + s # (m * u) + t
  <2>1. (v - u) - 1 \in Nat /\ m * v = (m * u) + m + (m * ((v - u) - 1)) BY <1>5, SMT
  <2>2. m * ((v - u) - 1) \in Nat /\ m * u \in Nat BY <2>1, SMT
  <2> DEFINE e == m * ((v - u) - 1)   f == m * u   g == m * v
  <2>3. e \in Nat /\ f \in Nat /\ g = f + m + e BY <2>1, <2>2
  <2> HIDE DEF e, f, g
  <2>4. g + s # f + t BY <2>3, SMT
  <2> QED BY <2>4 DEF f, g
<1>6. q = d
  <2>1. ~(q < d) /\ ~(d < q) BY <1>3, <1>4, <1>5
  <2> QED BY <1>3, <2>1, SMT
<1>7. r = z
  <2> DEFINE e == m * q
  <2>1. e \in Nat /\ e + r = e + z BY <1>1, <1>4, <1>6
  <2> HIDE DEF e
  <2> QED BY <1>3, <2>1, SMT
<1> QED BY <1>7 DEF z, x

(* the numbers a corner holds, and those of a size_t                       *)
LEMMA RangesAre ==
  /\ Corners \in Nat /\ Corners > 0 /\ KMaxValue \in Nat /\ KMaxValue < Corners
  /\ \E q \in Nat : q > 0 /\ SizeMax = Corners * q
  /\ SizeMax \in Nat /\ Corners <= SizeMax
<1>1. KMaxValue \in Nat
  <2>1. Values(KBytesPerSizeT) \in Nat /\ Values(KBytesPerSizeT) # 0 BY ValuesAre, TheBytes
  <2> QED BY <2>1, SMT DEF KMaxValue
<1>2. /\ Corners \in Nat /\ Corners > 0 /\ KMaxValue < Corners
      /\ SizeMax \in Nat /\ SizeMax > 0 /\ SizeMax % Corners = 0
  BY RangesAssumption, SMT
<1> DEFINE q == SizeMax \div Corners
<1>3. q \in Nat /\ SizeMax = Corners * q
  <2>1. q \in Nat /\ SizeMax = Corners * q + (SizeMax % Corners) BY <1>2, Divided
  <2>2. Corners * q \in Nat BY <1>2, <2>1, SMT
  <2> HIDE DEF q
  <2> QED BY <1>2, <2>1, <2>2, SMT
<1> HIDE DEF q
<1>4. q > 0
  <2> SUFFICES ASSUME q = 0 PROVE FALSE BY <1>3, SMT
  <2>1. SizeMax = 0 BY <1>2, <1>3, SMT
  <2> QED BY <1>2, <2>1, SMT
<1>5. Corners <= SizeMax
  <2>1. q - 1 \in Nat /\ Corners * q = Corners + Corners * (q - 1) BY <1>2, <1>3, <1>4, SMT
  <2>2. Corners * (q - 1) \in Nat BY <1>2, <2>1, SMT
  <2> QED BY <1>2, <1>3, <2>1, <2>2, SMT
<1> QED BY <1>1, <1>2, <1>3, <1>4, <1>5

(* An index is read back from its signed difference.                       *)
LEMMA IndexReadsBack ==
  ASSUME NEW a \in Nat, NEW b \in Nat, a < Corners, b < Corners
  PROVE  read_index(Index(a, b), b) = a
<1>1. a < SizeMax /\ b < SizeMax /\ SizeMax \in Nat BY RangesAre, SMT
<1>2. \A y \in Nat : y < SizeMax => y % SizeMax = y /\ (y + SizeMax) % SizeMax = y
  <2>1. ASSUME NEW y \in Nat, y < SizeMax PROVE y % SizeMax = y /\ (y + SizeMax) % SizeMax = y
    <3>1. y \in 0..(SizeMax - 1) /\ SizeMax > 0 BY <1>1, <2>1, SMT
    <3>2. ((SizeMax * 0) + y) % SizeMax = y BY <1>1, <3>1, RemainderIs
    <3>3. ((SizeMax * 1) + y) % SizeMax = y BY <1>1, <3>1, RemainderIs
    <3>4. (SizeMax * 0) + y = y /\ (SizeMax * 1) + y = y + SizeMax BY <1>1, SMT
    <3> QED BY <3>2, <3>3, <3>4
  <2> QED BY <2>1
<1>3. CASE a >= b
  <2> DEFINE d == Index(a, b)
  <2>1. d = 2 * (a - b) /\ a - b \in Nat BY <1>3, SMT DEF Index
  <2>2. d % 2 # 1 /\ d \div 2 = a - b BY <2>1, SMT
  <2>3. b + (a - b) = a BY SMT
  <2>4. read_index(d, b) = (b + (d \div 2)) % SizeMax BY <2>2 DEF read_index
  <2> QED BY <1>1, <1>2, <2>2, <2>3, <2>4
<1>4. CASE a < b
  <2> DEFINE d == Index(a, b)
  <2>1. d = (2 * (b - a)) + 1 /\ b - a \in Nat BY <1>4, SMT DEF Index
  <2>2. d % 2 = 1 /\ d \div 2 = b - a BY <2>1, SMT
  <2>3. b + (SizeMax - (b - a)) = a + SizeMax BY <1>1, SMT
  <2>4. read_index(d, b) = (b + (SizeMax - (d \div 2))) % SizeMax BY <2>2 DEF read_index
  <2> QED BY <1>1, <1>2, <2>2, <2>3, <2>4
<1> QED BY <1>3, <1>4, SMT

(* So is a corner from the difference that is kept.                        *)
LEMMA CornerReadsBack ==
  ASSUME NEW a \in Nat, NEW b \in Nat, a < Corners, b < Corners
  PROVE  /\ Wrap(a + (SizeMax - b)) \in Nat
         /\ Wrap(b + Wrap(a + (SizeMax - b))) = a
<1> DEFINE w == Wrap(a + (SizeMax - b))
<1>1. PICK q \in Nat : q > 0 /\ SizeMax = Corners * q BY RangesAre
<1>2. Corners \in Nat /\ Corners > 0 /\ SizeMax \in Nat BY RangesAre
<1>3. CASE a >= b
  <2>1. a + (SizeMax - b) = (Corners * q) + (a - b) BY <1>1, <1>2, SMT
  <2>2. a - b \in 0..(Corners - 1) BY <1>2, <1>3, SMT
  <2>3. w = a - b BY <1>1, <1>2, <2>1, <2>2, RemainderIs DEF Wrap
  <2>4. b + (a - b) = (Corners * 0) + a /\ a \in 0..(Corners - 1) /\ 0 \in Nat BY <1>2, SMT
  <2>5. ((Corners * 0) + a) % Corners = a BY <1>2, <2>4, RemainderIs
  <2>6. Wrap(b + (a - b)) = a BY <2>4, <2>5 DEF Wrap
  <2>7. a - b \in Nat BY <2>2, SMT
  <2> HIDE DEF w
  <2>8. w \in Nat /\ Wrap(b + w) = a BY <2>3, <2>6, <2>7
  <2> QED BY <2>8 DEF w
<1>4. CASE a < b
  <2>1. q - 1 \in Nat /\ Corners * q = (Corners * (q - 1)) + Corners BY <1>1, <1>2, SMT
  <2>2. a + (SizeMax - b) = (Corners * (q - 1)) + (Corners - (b - a))
    <3> DEFINE z == Corners * (q - 1)
    <3>1. SizeMax = z + Corners /\ z \in Nat
      <4>1. z \in Nat BY <1>2, <2>1, SMT
      <4> QED BY <1>1, <2>1, <4>1
    <3> HIDE DEF z
    <3>2. a + (SizeMax - b) = z + (Corners - (b - a)) BY <1>2, <3>1, SMT
    <3> QED BY <3>2 DEF z
  <2>3. Corners - (b - a) \in 0..(Corners - 1) BY <1>2, <1>4, SMT
  <2>4. w = Corners - (b - a)
    <3>1. ((Corners * (q - 1)) + (Corners - (b - a))) % Corners = Corners - (b - a)
      BY <1>2, <2>1, <2>3, RemainderIs
    <3> QED BY <2>2, <3>1 DEF Wrap
  <2>5. b + (Corners - (b - a)) = (Corners * 1) + a /\ a \in 0..(Corners - 1) /\ 1 \in Nat BY <1>2, SMT
  <2>6. ((Corners * 1) + a) % Corners = a BY <1>2, <2>5, RemainderIs
  <2>7. Wrap(b + (Corners - (b - a))) = a BY <2>5, <2>6 DEF Wrap
  <2>8. Corners - (b - a) \in Nat BY <2>3, SMT
  <2> HIDE DEF w
  <2>9. w \in Nat /\ Wrap(b + w) = a BY <2>4, <2>7, <2>8
  <2> QED BY <2>9 DEF w
<1> QED BY <1>3, <1>4, SMT

(* An index is computed modulo the range of size_t.                        *)
LEMMA ReadIndexIs ==
  ASSUME NEW d \in 0..KMaxValue, NEW b \in Nat
  PROVE  read_index(d, b) \in Nat
<1>1. SizeMax \in Nat /\ SizeMax > 0 /\ d \in Nat /\ d < SizeMax BY RangesAre, SMT
<1>2. d \div 2 \in Nat /\ d \div 2 <= d BY <1>1, SMT
<1>3. b + (d \div 2) \in Nat /\ b + (SizeMax - (d \div 2)) \in Nat
  <2> DEFINE h == d \div 2
  <2>1. h \in Nat /\ h <= d BY <1>2
  <2> HIDE DEF h
  <2>2. b + h \in Nat /\ b + (SizeMax - h) \in Nat BY <1>1, <2>1, SMT
  <2> QED BY <2>2 DEF h
<1>4. \A y \in Nat : y % SizeMax \in Nat
  <2>1. ASSUME NEW y \in Nat PROVE y % SizeMax \in Nat
    <3>1. y % SizeMax \in 0..(SizeMax - 1) BY <1>1, Divided
    <3> QED BY <1>1, <3>1, SMT
  <2> QED BY <2>1
<1> QED BY <1>3, <1>4 DEF read_index

Delta == [g : Nat, h : Nat \X Nat, vi : Nat]
Slot == [d : Delta, index : Nat]

(* The slots of the cache know where their differences are in the table.   *)
IsCache(s, t) ==
  /\ s \in Seq(Slot) /\ Len(s) <= 2
  /\ \A k \in 1..Len(s) : s[k].index \in 1..Len(t) /\ t[s[k].index] = s[k].d

Lengthens(t, u) == Len(t) <= Len(u) /\ \A k \in 1..Len(t) : u[k] = t[k]

(* A difference is put in the table or is there.                           *)
LEMMA DedupIs ==
  ASSUME table \in Seq(Delta), IsCache(cache, table), NEW d \in Delta
  PROVE  LET r == dedup(d)
         IN  /\ r.table \in Seq(Delta) /\ IsCache(r.cache, r.table) /\ Lengthens(table, r.table)
             /\ r.index \in 1..Len(r.table) /\ r.table[r.index] = d
<1>1. /\ Len(table) \in Nat /\ cache \in Seq(Slot) /\ Len(cache) \in Nat /\ Len(cache) <= 2
      /\ \A k \in 1..Len(cache) :
           cache[k] \in Slot /\ cache[k].index \in 1..Len(table) /\ table[cache[k].index] = cache[k].d
  BY DEF IsCache
<1>2. Lengthens(table, table) BY <1>1, SMT DEF Lengthens
<1>3. CASE cache # <<>> /\ cache[1].d = d
  <2>1. dedup(d) = [index |-> cache[1].index, table |-> table, cache |-> cache] BY <1>3 DEF dedup
  <2>2. 1 \in 1..Len(cache) BY <1>1, <1>3
  <2> QED BY <1>1, <1>2, <1>3, <2>1, <2>2
<1>4. CASE ~(cache # <<>> /\ cache[1].d = d) /\ Len(cache) = 2 /\ cache[2].d = d
  <2> DEFINE s == <<cache[2], cache[1]>>
  <2>1. dedup(d) = [index |-> s[1].index, table |-> table, cache |-> s]
    <3>1. ~(cache # <<>> /\ cache[1].d = d) BY <1>4
    <3>2. Len(cache) = 2 /\ cache[2].d = d BY <1>4
    <3> QED BY <3>1, <3>2, Zenon DEF dedup
  <2>2. 1 \in 1..Len(cache) /\ 2 \in 1..Len(cache) BY <1>4
  <2>3. cache[1] \in Slot /\ cache[2] \in Slot BY <1>1, <2>2
  <2>4. s \in Seq(Slot) /\ Len(s) = 2 /\ s[1] = cache[2] /\ s[2] = cache[1] BY <2>3
  <2> HIDE DEF s
  <2>5. IsCache(s, table)
    <3>1. ASSUME NEW k \in 1..Len(s) PROVE s[k].index \in 1..Len(table) /\ table[s[k].index] = s[k].d
      <4>1. k = 1 \/ k = 2 BY <2>4, SMT
      <4> QED BY <1>1, <2>2, <2>4, <4>1
    <3> QED BY <2>4, <3>1 DEF IsCache
  <2>6. s[1].index \in 1..Len(table) /\ table[s[1].index] = d BY <1>1, <1>4, <2>2, <2>4
  <2> QED BY <1>2, <2>1, <2>5, <2>6
<1>5. CASE ~(cache # <<>> /\ cache[1].d = d) /\ ~(Len(cache) = 2 /\ cache[2].d = d)
  <2> DEFINE n == Len(table) + 1
             t == Append(table, d)
             new == [d |-> d, index |-> n]
             s == <<new>> \o SubSeq(cache, 1, IF cache = <<>> THEN 0 ELSE 1)
  <2>1. dedup(d) = [index |-> n, table |-> t, cache |-> s]
    <3>1. ~(cache # <<>> /\ cache[1].d = d) BY <1>5
    <3>2. ~(Len(cache) = 2 /\ cache[2].d = d) BY <1>5
    <3> QED BY <3>1, <3>2, Zenon DEF dedup
  <2>2. /\ t \in Seq(Delta) /\ Len(t) = n /\ t[n] = d /\ n \in Nat /\ n > Len(table)
        /\ \A k \in 1..Len(table) : t[k] = table[k]
    BY <1>1
  <2>3. Lengthens(table, t) BY <1>1, <2>2, SMT DEF Lengthens
  <2>4. new \in Slot /\ new.d = d /\ new.index = n BY <2>2 DEF Slot
  <2> HIDE DEF t, n, new
  <2>5. n \in 1..n BY <1>1, <2>2, SMT
  <2>6. IsCache(s, t)
    <3>1. CASE cache = <<>>
      <4>1. s = <<new>>
        <5>1. SubSeq(cache, 1, 0) = <<>> BY SubSeqEmpty
        <5>2. <<new>> \in Seq(Slot) BY <2>4
        <5>3. <<new>> \o <<>> = <<new>> BY <5>2, ConcatEmptySeq
        <5> QED BY <3>1, <5>1, <5>3
      <4> HIDE DEF s
      <4>2. s \in Seq(Slot) /\ Len(s) = 1 /\ s[1] = new BY <2>4, <4>1
      <4>3. ASSUME NEW k \in 1..Len(s) PROVE s[k].index \in 1..Len(t) /\ t[s[k].index] = s[k].d
        <5>1. k = 1 BY <4>2, SMT
        <5> QED BY <2>2, <2>4, <2>5, <4>2, <5>1
      <4> QED BY <4>2, <4>3 DEF IsCache
    <3>2. CASE cache # <<>>
      <4>1. 1 \in 1..Len(cache) BY <1>1, <3>2
      <4>2. cache[1] \in Slot /\ cache[1].index \in 1..Len(table) /\ table[cache[1].index] = cache[1].d
        BY <1>1, <4>1
      <4> DEFINE p == SubSeq(cache, 1, 1)
      <4>3. p \in Seq(Slot) /\ Len(p) = 1 /\ p[1] = cache[1]
        <5>1. \A i \in 1..1 : cache[i] \in Slot BY <4>2
        <5>2. p \in Seq(Slot) /\ Len(p) = 1 /\ \A i \in 1..1 : p[i] = cache[i] BY <5>1, SubSeqProperties
        <5> QED BY <5>2
      <4> HIDE DEF p
      <4>4. s \in Seq(Slot) /\ Len(s) = 2 /\ s[1] = new /\ s[2] = cache[1]
        <5>1. s = <<new>> \o p BY <3>2 DEF p
        <5>2. <<new>> \in Seq(Slot) /\ Len(<<new>>) = 1 /\ <<new>>[1] = new BY <2>4
        <5> QED BY <4>3, <5>1, <5>2
      <4> HIDE DEF s
      <4>5. cache[1].index \in 1..n /\ t[cache[1].index] = cache[1].d BY <1>1, <2>2, <4>2, SMT
      <4>6. ASSUME NEW k \in 1..Len(s) PROVE s[k].index \in 1..Len(t) /\ t[s[k].index] = s[k].d
        <5>1. k = 1 \/ k = 2 BY <4>4, SMT
        <5> QED BY <2>2, <2>4, <2>5, <4>4, <4>5, <5>1
      <4> QED BY <4>4, <4>6 DEF IsCache
    <3> QED BY <3>1, <3>2
  <2> HIDE DEF s
  <2> QED BY <2>1, <2>2, <2>3, <2>5, <2>6
<1> QED BY <1>3, <1>4, <1>5, Zenon

Zero == [g |-> 0, h |-> <<0, 0>>]
Hands(t) == [g |-> t.g, h |-> t.h]
(* the term that a difference leads to                                     *)
Sum2(t, d, v) ==
  [g |-> Wrap(t.g + d.g), h |-> <<Wrap(t.h[1] + d.h[1]), Wrap(t.h[2] + d.h[2])>>, v |-> v]

(* Terms that follow each other at the differences are what is iterated.   *)
LEMMA IterateIs ==
  ASSUME NEW n \in Nat, NEW q, q = [k \in 1..n |-> q[k]], NEW ts \in Seq(Corner), Len(ts) = n,
         \A k \in 1..n : ts[k] = Sum2(Prior(ts, k), q[k], q[k].v)
  PROVE  iterate(q) = ts
<1> DEFINE S(y, k) == [g |-> Wrap(y.g + q[k].g),
                       h |-> <<Wrap(y.h[1] + q[k].h[1]), Wrap(y.h[2] + q[k].h[2])>>]
           f == [k \in 0..n |-> IF k = 0 THEN Zero ELSE Hands(ts[k])]
<1>1. L!IsSeq(q) /\ Len(q) = n /\ DOMAIN q = 1..n BY L!SequenceOfLength
<1>2. f[0] = Zero /\ \A k \in 1..n : f[k] = Hands(ts[k])
  <2>1. 0 \in 0..n /\ \A k \in 1..n : k \in 0..n /\ k # 0 BY SMT
  <2> QED BY <2>1
<1>3. ASSUME NEW k \in 1..n PROVE f[k] = S(f[k - 1], k)
  <2>1. ts[k] = Sum2(Prior(ts, k), q[k], q[k].v) OBVIOUS
  <2>2. f[k - 1] = Hands(Prior(ts, k))
    <3>1. CASE k = 1
      <4>1. k - 1 = 0 /\ Prior(ts, k) = Zero BY <3>1 DEF Prior, Zero
      <4>2. Hands(Zero) = Zero BY DEF Hands, Zero
      <4> QED BY <1>2, <4>1, <4>2
    <3>2. CASE k # 1
      <4>1. k - 1 \in 1..n /\ Prior(ts, k) = ts[k - 1] BY <3>2, SMT DEF Prior
      <4> QED BY <1>2, <4>1
    <3> QED BY <3>1, <3>2
  <2>3. f[k - 1].g = Prior(ts, k).g /\ f[k - 1].h = Prior(ts, k).h BY <2>2 DEF Hands
  <2>4. f[k] = [g |-> ts[k].g, h |-> ts[k].h] BY <1>2 DEF Hands
  <2> HIDE DEF f
  <2>5. /\ ts[k].g = Wrap(f[k - 1].g + q[k].g)
        /\ ts[k].h = <<Wrap(f[k - 1].h[1] + q[k].h[1]), Wrap(f[k - 1].h[2] + q[k].h[2])>>
    BY <2>1, <2>3 DEF Sum2
  <2> QED BY <2>4, <2>5
<1>4. f = [k \in 0..n |-> IF k = 0 THEN Zero ELSE S(f[k - 1], k)]
  <2>1. ASSUME NEW k \in 0..n PROVE f[k] = IF k = 0 THEN Zero ELSE S(f[k - 1], k)
    <3>1. k # 0 => k \in 1..n BY SMT
    <3> HIDE DEF S, f
    <3> QED BY <1>2, <1>3, <3>1
  <2>2. f = [k \in 0..n |-> f[k]] OBVIOUS
  <2> HIDE DEF S, f
  <2> QED BY <2>1, <2>2, Zenon
<1> DEFINE it == CHOOSE it : it = [k \in 0..Len(q) |-> IF k = 0 THEN Zero ELSE S(it[k - 1], k)]
<1> HIDE DEF f
<1>5. it = [k \in 0..n |-> IF k = 0 THEN Zero ELSE S(it[k - 1], k)]
  <2> HIDE DEF S
  <2> QED BY <1>1, <1>4, Zenon
<1>6. iterate(q) = [k \in DOMAIN q |-> [g |-> it[k].g, h |-> it[k].h, v |-> q[k].v]]
  BY Zenon DEF iterate, Zero
<1> HIDE DEF it
<1>7. it[0] = Zero /\ \A k \in 1..n : it[k] = S(it[k - 1], k)
  <2>1. 0 \in 0..n /\ \A k \in 1..n : k \in 0..n /\ k # 0 BY SMT
  <2> HIDE DEF S
  <2> QED BY <1>5, <2>1, Zenon
<1>8. \A k \in 0..n : f[k] = it[k]
  <2>2. f[0] = it[0] /\ \A k \in 1..n : f[k - 1] = it[k - 1] => f[k] = it[k]
    <3> HIDE DEF S
    <3> QED BY <1>2, <1>3, <1>7
  <2>1. L!StayAlike(f, it, n) BY <2>2, Zenon DEF L!StayAlike
  <2> QED BY <2>1, L!RecursionIsUnique
<1> DEFINE w == [k \in 1..n |-> [g |-> it[k].g, h |-> it[k].h, v |-> q[k].v]]
<1>9. iterate(q) = w BY <1>1, <1>6
<1>10. ASSUME NEW k \in 1..n PROVE w[k] = ts[k]
  <2>1. it[k] = Hands(ts[k]) /\ k \in 1..Len(ts) BY <1>2, <1>8, SMT
  <2>2. ts[k] = [g |-> ts[k].g, h |-> ts[k].h, v |-> ts[k].v] BY <2>1, PriorIs
  <2>3. ts[k].v = q[k].v BY DEF Sum2
  <2> QED BY <2>1, <2>2, <2>3 DEF Hands
<1>11. w = ts
  <2>1. w = [k \in 1..n |-> w[k]] OBVIOUS
  <2> HIDE DEF w
  <2>2. L!IsSeq(w) /\ Len(w) = n BY <2>1, L!SequenceOfLength
  <2>3. L!IsSeq(ts) BY DEF L!IsSeq
  <2> QED BY <1>10, <2>2, <2>3, L!SequenceEquality
<1> QED BY <1>9, <1>11

(* the k-th term is what the table and the constants make of its           *)
(* predecessor                                                             *)
AddsTerm(ts, k, qs, tb, cs) ==
  /\ qs[k] \in 1..Len(tb) /\ tb[qs[k]].vi < Len(cs)
  /\ ts[k] = Sum2(Prior(ts, k), tb[qs[k]], cs[tb[qs[k]].vi + 1])

AsPrev(t) == [g |-> t.g, hl |-> t.h[1], hr |-> t.h[2]]
InCorners(t) == t.g < Corners /\ t.h[1] < Corners /\ t.h[2] < Corners
DeltaTo(t, p, vi) ==
  [g |-> Wrap(t.g + (SizeMax - p.g)), vi |-> vi,
   h |-> <<Wrap(t.h[1] + (SizeMax - p.hl)), Wrap(t.h[2] + (SizeMax - p.hr))>>]

(* the first m terms are what the table makes of them                      *)
AllAdd(ts, m, qs, tb, cs) == \A k \in 1..m : AddsTerm(ts, k, qs, tb, cs)
(* the n-th is now as well                                                 *)
IsAdded(r, ts, n, qs, cs) ==
  /\ r.table \in Seq(Delta) /\ IsCache(r.cache, r.table)
  /\ qs \in Seq(Nat) /\ Len(qs) = n /\ AllAdd(ts, n, qs, r.table, cs)

(* One more term goes into the table as the difference to its predecessor, *)
(* and the terms before it stay what they were.                            *)
LEMMA TermIs ==
  ASSUME table \in Seq(Delta), IsCache(cache, table), quad \in Seq(Nat), constants \in Seq(Elt),
         NEW ts \in Seq(Corner), NEW n \in 1..Len(ts), n = Len(quad) + 1,
         AllAdd(ts, Len(quad), quad, table, constants),
         prev = AsPrev(Prior(ts, n)), InCorners(Prior(ts, n)), InCorners(ts[n]),
         NEW vi \in Nat, vi < Len(constants), ts[n].v = constants[vi + 1],
         NEW r, r = dedup(DeltaTo(ts[n], prev, vi))
  PROVE  IsAdded(r, ts, n, Append(quad, r.index), constants)
<1> DEFINE t == ts[n]   p == Prior(ts, n)   d == DeltaTo(t, prev, vi)
<1>1. /\ t.g \in Nat /\ t.h = <<t.h[1], t.h[2]>> /\ t.h[1] \in Nat /\ t.h[2] \in Nat
      /\ t = [g |-> t.g, h |-> t.h, v |-> t.v]
      /\ p.g \in Nat /\ p.h[1] \in Nat /\ p.h[2] \in Nat
  BY PriorIs
<1>2. prev.g = p.g /\ prev.hl = p.h[1] /\ prev.hr = p.h[2] BY DEF AsPrev
<1>3. /\ t.g < Corners /\ t.h[1] < Corners /\ t.h[2] < Corners
      /\ p.g < Corners /\ p.h[1] < Corners /\ p.h[2] < Corners
  BY DEF InCorners
<1> HIDE DEF t, p
<1>4. /\ d.vi = vi
      /\ d.g = Wrap(t.g + (SizeMax - p.g))
      /\ d.h = <<Wrap(t.h[1] + (SizeMax - p.h[1])), Wrap(t.h[2] + (SizeMax - p.h[2]))>>
      /\ d = [g |-> d.g, h |-> d.h, vi |-> d.vi]
  BY <1>2 DEF DeltaTo
<1>5. r = dedup(d) BY DEF t
<1> HIDE DEF d
<1>6. /\ d.g \in Nat /\ d.h[1] \in Nat /\ d.h[2] \in Nat /\ d.h = <<d.h[1], d.h[2]>>
      /\ Wrap(p.g + d.g) = t.g /\ Wrap(p.h[1] + d.h[1]) = t.h[1] /\ Wrap(p.h[2] + d.h[2]) = t.h[2]
  <2>5. ASSUME NEW a \in Nat, NEW b \in Nat, a < Corners, b < Corners, NEW e, e = Wrap(a + (SizeMax - b))
        PROVE  e \in Nat /\ Wrap(b + e) = a
    BY <2>5, CornerReadsBack
  <2>1. d.g \in Nat /\ Wrap(p.g + d.g) = t.g
    <3>1. t.g \in Nat /\ p.g \in Nat /\ t.g < Corners /\ p.g < Corners BY <1>1, <1>3
    <3>2. d.g = Wrap(t.g + (SizeMax - p.g)) BY <1>4
    <3> QED BY <2>5, <3>1, <3>2, Zenon
  <2>2. d.h[1] = Wrap(t.h[1] + (SizeMax - p.h[1])) /\ d.h[2] = Wrap(t.h[2] + (SizeMax - p.h[2]))
        /\ d.h = <<d.h[1], d.h[2]>>
    BY <1>4
  <2>3. d.h[1] \in Nat /\ Wrap(p.h[1] + d.h[1]) = t.h[1]
    <3>1. t.h[1] \in Nat /\ p.h[1] \in Nat /\ t.h[1] < Corners /\ p.h[1] < Corners BY <1>1, <1>3
    <3>2. d.h[1] = Wrap(t.h[1] + (SizeMax - p.h[1])) BY <2>2
    <3> DEFINE a == t.h[1]   b == p.h[1]   e == d.h[1]
    <3>3. a \in Nat /\ b \in Nat /\ a < Corners /\ b < Corners /\ e = Wrap(a + (SizeMax - b)) BY <3>1, <3>2, Zenon
    <3> HIDE DEF a, b, e
    <3>4. e \in Nat /\ Wrap(b + e) = a BY <2>5, <3>3
    <3> QED BY <3>4, Zenon DEF a, b, e
  <2>4. d.h[2] \in Nat /\ Wrap(p.h[2] + d.h[2]) = t.h[2]
    <3>1. t.h[2] \in Nat /\ p.h[2] \in Nat /\ t.h[2] < Corners /\ p.h[2] < Corners BY <1>1, <1>3
    <3>2. d.h[2] = Wrap(t.h[2] + (SizeMax - p.h[2])) BY <2>2
    <3> DEFINE a == t.h[2]   b == p.h[2]   e == d.h[2]
    <3>3. a \in Nat /\ b \in Nat /\ a < Corners /\ b < Corners /\ e = Wrap(a + (SizeMax - b)) BY <3>1, <3>2, Zenon
    <3> HIDE DEF a, b, e
    <3>4. e \in Nat /\ Wrap(b + e) = a BY <2>5, <3>3
    <3> QED BY <3>4, Zenon DEF a, b, e
  <2> QED BY <2>1, <2>2, <2>3, <2>4
<1>7. d \in Delta
  <2>1. d.h \in Nat \X Nat BY <1>6
  <2> QED BY <1>4, <1>6, <2>1 DEF Delta
<1>8. /\ r.table \in Seq(Delta) /\ IsCache(r.cache, r.table) /\ Lengthens(table, r.table)
      /\ r.index \in 1..Len(r.table) /\ r.table[r.index] = d
  BY <1>5, <1>7, DedupIs
<1> DEFINE qs == Append(quad, r.index)
<1>9. r.index \in Nat /\ Len(table) \in Nat /\ Len(r.table) \in Nat /\ Len(quad) \in Nat
  BY <1>8
<1>10. /\ qs \in Seq(Nat) /\ Len(qs) = n /\ qs[n] = r.index
       /\ \A k \in 1..Len(quad) : qs[k] = quad[k]
  BY <1>9
<1> HIDE DEF qs
<1>11. ASSUME NEW k \in 1..Len(quad) PROVE AddsTerm(ts, k, qs, r.table, constants)
  <2>1. /\ quad[k] \in 1..Len(table) /\ table[quad[k]].vi < Len(constants)
        /\ ts[k] = Sum2(Prior(ts, k), table[quad[k]], constants[table[quad[k]].vi + 1])
    BY DEF AllAdd, AddsTerm
  <2>2. r.table[quad[k]] = table[quad[k]] /\ Len(table) <= Len(r.table) BY <1>8, <2>1 DEF Lengthens
  <2>3. quad[k] \in 1..Len(r.table) BY <1>9, <2>1, <2>2, SMT
  <2> QED BY <1>10, <2>1, <2>2, <2>3 DEF AddsTerm
<1>12. AddsTerm(ts, n, qs, r.table, constants)
  <2>1. r.table[qs[n]] = d BY <1>8, <1>10
  <2>2. t = Sum2(p, d, constants[d.vi + 1])
    <3>1. t.v = constants[vi + 1] BY DEF t
    <3>2. t = [g |-> Wrap(p.g + d.g), h |-> <<Wrap(p.h[1] + d.h[1]), Wrap(p.h[2] + d.h[2])>>,
               v |-> constants[d.vi + 1]]
      BY <1>1, <1>4, <1>6, <3>1
    <3> QED BY <3>2 DEF Sum2
  <2> QED BY <1>4, <1>8, <1>10, <2>1, <2>2 DEF AddsTerm, t, p
<1>13. \A k \in 1..n : AddsTerm(ts, k, qs, r.table, constants)
  <2>1. \A k \in 1..n : k \in 1..Len(quad) \/ k = n BY <1>9, SMT
  <2> QED BY <1>11, <1>12, <2>1
<1> QED BY <1>8, <1>10, <1>13 DEF IsAdded, AllAdd, qs

(* A circuit with other layers                                             *)
WithLayers(x, l) == [x EXCEPT !.l = l]
HasLayers(y, x, l) ==
  /\ IsHeader(y) /\ y.l = l /\ y.nv = x.nv /\ y.logv = x.logv /\ y.nc = x.nc
  /\ y.logc = x.logc /\ y.npub_in = x.npub_in
  /\ y.subfield_boundary = x.subfield_boundary /\ y.ninputs = x.ninputs
(* Only the layers of a circuit change.                                    *)
LEMMA LayersReplaced ==
  ASSUME NEW x, IsHeader(x), NEW l
  PROVE  HasLayers(WithLayers(x, l), x, l)
<1> USE DEF WithLayers, HasLayers
<1> DEFINE y == [x EXCEPT !.l = l]
<1>1. x = [nv |-> x.nv, logv |-> lg(x.nv), nc |-> x.nc, logc |-> lg(x.nc), npub_in |-> x.npub_in,
           subfield_boundary |-> x.subfield_boundary, ninputs |-> x.ninputs, l |-> x.l]
  BY DEF IsHeader
<1>2. y = [nv |-> x.nv, logv |-> lg(x.nv), nc |-> x.nc, logc |-> lg(x.nc), npub_in |-> x.npub_in,
           subfield_boundary |-> x.subfield_boundary, ninputs |-> x.ninputs, l |-> l]
  BY <1>1
<1>3. /\ y.l = l /\ y.nv = x.nv /\ y.logv = x.logv /\ y.nc = x.nc
      /\ y.logc = x.logc /\ y.npub_in = x.npub_in
      /\ y.subfield_boundary = x.subfield_boundary /\ y.ninputs = x.ninputs
  BY <1>1, <1>2
<1> HIDE DEF y
<1>4. IsHeader(y) BY <1>2, <1>3 DEF IsHeader
<1> QED BY <1>3, <1>4 DEF y

-----------------------------------------------------------------------------
(* Reading a file that may have been changed *)

InRange(x, k, t) == t.g < Outputs(x, k) /\ t.h[1] < x.l[k].nw /\ t.h[2] < x.l[k].nw

(* A layer is a layer by its terms and the sizes above and below.          *)
LEMMA LayerByTerms ==
  ASSUME NEW x, NEW k, x.l[k].quad \in Seq(Corner), x.l[k].quad # <<>>
  PROVE  IsLayer(x, k) <=> \A j \in 1..Len(x.l[k].quad) : InRange(x, k, x.l[k].quad[j])
<1> DEFINE q == x.l[k].quad
<1>1. DOMAIN q = 1..Len(q) OBVIOUS
<1> QED BY <1>1 DEF IsLayer, InRange

(* a circuit as far as it is read: its sizes were numbers of the file      *)
IsRead(x) ==
  /\ IsHeader(x) /\ x.l \in Seq(Layer) /\ x.nv <= KMaxValue
  /\ \A k \in 1..Len(x.l) : x.l[k].nw <= KMaxValue

(* the terms of the layer that is being read: those that the table and the *)
(* constants will make of them, with the bytes of the others still there   *)
InTerm ==
  /\ Len(got.l) > 0 /\ \A k \in 1..(Len(got.l) - 1) : IsLayer(got, k)
  /\ quad \in Seq(Nat) /\ Len(quad) + todo > 0
  /\ next + (todo * (4 * KBytesPerSizeT)) <= Len(buf)
  /\ \E ts \in Seq(Corner) :
       /\ Len(ts) = Len(quad)
       /\ \A k \in 1..Len(ts) :
            AddsTerm(ts, k, quad, table, constants) /\ InRange(got, Len(got.l), ts[k])
       /\ prev = AsPrev(Prior(ts, Len(ts) + 1))

Stages ==
  {"write", "deliver", "aborted", "header", "constants", "layer", "term", "accepted", "rejected"}
FileTyped ==
  /\ IsCircuit(c) /\ buf \in Seq(Bytes) /\ next \in Nat /\ pc \in Stages
  /\ table \in Seq(Delta) /\ IsCache(cache, table) /\ constants \in Seq(Elt)
  /\ todo \in Nat /\ nl \in Nat
ReadSoFar ==
  /\ pc \in {"write", "deliver", "header"} => next = 0
  /\ pc \in {"constants", "layer", "term", "accepted"} => IsRead(got)
  /\ pc = "constants" => got.l = <<>>
  /\ pc \in {"layer", "accepted"} => \A k \in 1..Len(got.l) : IsLayer(got, k)
  /\ pc = "term" => InTerm
Inside == FileTyped /\ ReadSoFar /\ EnforcedIdBinds

(* A number read where bytes are                                           *)
LEMMA NumberInBuffer ==
  ASSUME buf \in Seq(Bytes), NEW p \in Nat, p + KBytesPerSizeT <= Len(buf)
  PROVE  Number(p, KBytesPerSizeT) \in 0..KMaxValue
<1>1. KBytesPerSizeT \in Nat /\ Len(buf) \in Nat BY TheBytes
<1>2. ASSUME NEW j \in 1..KBytesPerSizeT PROVE buf[p + j] \in Bytes
  <2>1. p + j \in 1..Len(buf) BY <1>1, SMT
  <2> QED BY <2>1
<1> QED BY <1>1, <1>2, NumberIsSmall DEF KMaxValue

(* The k-th number from here                                               *)
LEMMA ReadNumIs ==
  ASSUME buf \in Seq(Bytes), next \in Nat, NEW k \in Nat, NEW m \in Nat, k < m,
         Have(m * KBytesPerSizeT)
  PROVE  read_num(k) \in 0..KMaxValue
<1> DEFINE n == KBytesPerSizeT
<1>1. n \in Nat /\ Len(buf) \in Nat BY TheBytes
<1>2. Len(buf) - next >= m * n BY DEF Have
<1> HIDE DEF n
<1>3. (m - k) - 1 \in Nat /\ m * n = (k * n) + n + (((m - k) - 1) * n) BY <1>1, SMT
<1>4. k * n \in Nat /\ ((m - k) - 1) * n \in Nat BY <1>1, <1>3, SMT
<1> DEFINE p == next + (k * n)
<1>5. p \in Nat /\ p + n <= Len(buf)
  <2> DEFINE a == k * n   b == ((m - k) - 1) * n   e == m * n
  <2>1. a \in Nat /\ b \in Nat /\ e = a + n + b /\ Len(buf) - next >= e BY <1>2, <1>3, <1>4
  <2> HIDE DEF a, b, e
  <2>2. next + a \in Nat /\ (next + a) + n <= Len(buf) BY <1>1, <2>1, SMT
  <2> QED BY <2>2 DEF a
<1>6. Number(p, KBytesPerSizeT) \in 0..KMaxValue
  <2> HIDE DEF p
  <2> QED BY <1>5, NumberInBuffer DEF n
<1> QED BY <1>6 DEF read_num, n

(* Initially                                                               *)
LEMMA InitInside == ASSUME FileInit PROVE Inside
<1>1. IsCircuit(c) BY CircuitsAssumption DEF FileInit
<1>2. /\ buf \in Seq(Bytes) /\ next \in Nat /\ pc \in Stages /\ table \in Seq(Delta)
      /\ constants \in Seq(Elt) /\ todo \in Nat /\ nl \in Nat
  BY DEF FileInit, Stages
<1>3. IsCache(cache, table) BY DEF FileInit, IsCache
<1>4. ReadSoFar /\ EnforcedIdBinds BY DEF FileInit, ReadSoFar, EnforcedIdBinds
<1> QED BY <1>1, <1>2, <1>3, <1>4 DEF Inside, FileTyped

(* when the file is written                                                *)
LEMMA WriteInside == ASSUME Inside, Write PROVE Inside'
<1> USE DEF Inside
<1>1. /\ pc = "write" /\ UNCHANGED <<c, named, field_id, enforce, readerVars>>
      /\ pc' \in {"deliver", "aborted"} /\ next = 0
  BY DEF Write, ReadSoFar
<1>2. buf' \in Seq(Bytes)
  <2>1. CASE Fits(Header(c) \o Body(c))
    <3>1. PICK id \in 0..(Byte - 1) : buf' = to_bytes(c) \o [k \in 1..KIdSize |-> id]
      BY <2>1 DEF Write
    <3>2. to_bytes(c) \in Seq(Bytes) BY BytesAre DEF FileTyped
    <3>3. [k \in 1..KIdSize |-> id] \in Seq(Bytes)
      <4>1. KIdSize \in Nat /\ [k \in 1..KIdSize |-> id] \in [1..KIdSize -> Bytes] BY TheBytes DEF Bytes
      <4> QED BY <4>1, SeqDef
    <3> QED BY <3>1, <3>2, <3>3
  <2>2. CASE ~Fits(Header(c) \o Body(c)) BY <2>2 DEF Write, FileTyped
  <2> QED BY <2>1, <2>2
<1>3. FileTyped' BY <1>1, <1>2 DEF FileTyped, Stages, readerVars, IsCircuit
<1>4. ReadSoFar' /\ EnforcedIdBinds' BY <1>1 DEF ReadSoFar, EnforcedIdBinds, readerVars
<1> QED BY <1>3, <1>4

(* when it is delivered                                                    *)
LEMMA DeliverInside == ASSUME Inside, Deliver PROVE Inside'
<1> USE DEF Inside
<1>1. /\ pc = "deliver" /\ pc' = "header" /\ UNCHANGED <<c, field_id, enforce, readerVars>>
      /\ next = 0
  BY DEF Deliver, ReadSoFar
<1>2. buf' \in Seq(Bytes)
  <2>1. buf \in Seq(Bytes) BY DEF FileTyped
  <2>2. ASSUME NEW k \in DOMAIN buf, NEW b \in 0..(Byte - 1), buf' = [buf EXCEPT ![k] = b]
        PROVE  buf' \in Seq(Bytes)
    BY <2>1, <2>2, ExceptSeq DEF Bytes
  <2>3. ASSUME NEW k \in 0..(Len(buf) - 1), buf' = SubSeq(buf, 1, k) PROVE buf' \in Seq(Bytes)
    BY <2>1, <2>3
  <2>4. ASSUME NEW b \in 0..(Byte - 1), buf' = Append(buf, b) PROVE buf' \in Seq(Bytes)
    BY <2>1, <2>4 DEF Bytes
  <2> QED BY <2>1, <2>2, <2>3, <2>4 DEF Deliver
<1>3. FileTyped' BY <1>1, <1>2 DEF FileTyped, Stages, readerVars, IsCircuit
<1>4. ReadSoFar' /\ EnforcedIdBinds' BY <1>1 DEF ReadSoFar, EnforcedIdBinds, readerVars
<1> QED BY <1>3, <1>4

(* when it is refused                                                      *)
LEMMA RejectInside == ASSUME Inside, Reject PROVE Inside'
<1> USE DEF Inside
<1>1. pc' = "rejected" /\ UNCHANGED <<fixed, readerVars>> BY DEF Reject
<1>2. FileTyped' BY <1>1 DEF FileTyped, Stages, fixed, readerVars, IsCircuit
<1>3. ReadSoFar' /\ EnforcedIdBinds' BY <1>1 DEF ReadSoFar, EnforcedIdBinds
<1> QED BY <1>2, <1>3

(* when its header is read                                                 *)
LEMMA HeaderInside == ASSUME Inside, ReadHeader PROVE Inside'
<1> DEFINE n(k) == Number(1 + (k * KBytesPerSizeT), KBytesPerSizeT)
           good == /\ Have((8 * KBytesPerSizeT) + 1) /\ buf[1] = 1
                   /\ n(0) = field_id /\ n(3) <= n(5) /\ n(4) <= n(5) /\ n(6) <= KMaxLayers
           new == [nv |-> n(1), logv |-> lg(n(1)), nc |-> n(2), logc |-> lg(n(2)),
                   npub_in |-> n(3), subfield_boundary |-> n(4), ninputs |-> n(5), l |-> <<>>]
<1>1. CASE ~good
  <2>1. Reject BY <1>1 DEF ReadHeader
  <2> QED BY <2>1, RejectInside
<1>2. CASE good
  <2>1. /\ pc = "header" /\ got' = new /\ nl' = n(6) /\ todo' = n(7) /\ pc' = "constants"
        /\ next' = 1 + (8 * KBytesPerSizeT)
        /\ UNCHANGED <<fixed, constants, table, cache, quad, prev>>
    BY <1>2 DEF ReadHeader
  <2>2. FileTyped /\ next = 0 BY <2>1 DEF Inside, ReadSoFar
  <2>3. Len(buf) >= (8 * KBytesPerSizeT) + 1 /\ KBytesPerSizeT \in Nat /\ Len(buf) \in Nat
    <3>1. Len(buf) - next >= (8 * KBytesPerSizeT) + 1 BY <1>2 DEF Have
    <3>2. Len(buf) \in Nat BY <2>2 DEF FileTyped
    <3> QED BY <2>2, <3>1, <3>2, TheBytes, SMT
  <2>4. \A k \in 0..7 : n(k) \in 0..KMaxValue
    <3>1. ASSUME NEW k \in 0..7 PROVE n(k) \in 0..KMaxValue
      <4> DEFINE p == 1 + (k * KBytesPerSizeT)
      <4>1. p \in Nat /\ p + KBytesPerSizeT <= Len(buf)
        <5>1. 7 - k \in Nat /\ 8 * KBytesPerSizeT = (k * KBytesPerSizeT) + KBytesPerSizeT + ((7 - k) * KBytesPerSizeT)
          BY <2>3, SMT
        <5>2. k * KBytesPerSizeT \in Nat /\ (7 - k) * KBytesPerSizeT \in Nat BY <2>3, <5>1, SMT
        <5> DEFINE a == k * KBytesPerSizeT   b == (7 - k) * KBytesPerSizeT
        <5>3. a \in Nat /\ b \in Nat /\ 8 * KBytesPerSizeT = a + KBytesPerSizeT + b BY <5>1, <5>2
        <5> HIDE DEF a, b
        <5>4. 1 + a \in Nat /\ (1 + a) + KBytesPerSizeT <= Len(buf) BY <2>3, <5>3, SMT
        <5> QED BY <5>4 DEF a
      <4> HIDE DEF p
      <4>2. Number(p, KBytesPerSizeT) \in 0..KMaxValue BY <2>2, <4>1, NumberInBuffer DEF FileTyped
      <4> QED BY <4>2 DEF p
    <3> QED BY <3>1
  <2>5. n(3) <= n(5) /\ n(4) <= n(5) BY <1>2
  <2> HIDE DEF n
  <2>6. /\ n(1) \in Nat /\ n(2) \in Nat /\ n(3) \in Nat /\ n(4) \in Nat /\ n(5) \in Nat
        /\ n(6) \in Nat /\ n(7) \in Nat /\ n(1) <= KMaxValue
    <3>1. \A k \in 0..7 : n(k) \in Nat /\ n(k) <= KMaxValue BY <2>4, RangesAre, SMT
    <3> QED BY <3>1
  <2>7. /\ new.nv = n(1) /\ new.logv = lg(n(1)) /\ new.nc = n(2) /\ new.logc = lg(n(2))
        /\ new.npub_in = n(3) /\ new.subfield_boundary = n(4) /\ new.ninputs = n(5) /\ new.l = <<>>
        /\ new = [nv |-> n(1), logv |-> lg(n(1)), nc |-> n(2), logc |-> lg(n(2)),
                  npub_in |-> n(3), subfield_boundary |-> n(4), ninputs |-> n(5), l |-> <<>>]
    OBVIOUS
  <2> HIDE DEF new
  <2>8. IsHeader(new) BY <2>5, <2>6, <2>7 DEF IsHeader
  <2>9. IsRead(new) BY <2>6, <2>7, <2>8 DEF IsRead
  <2>10. FileTyped' BY <2>1, <2>2, <2>3, <2>6 DEF FileTyped, Stages, fixed, IsCircuit
  <2>11. ReadSoFar' /\ EnforcedIdBinds' BY <2>1, <2>7, <2>9 DEF ReadSoFar, EnforcedIdBinds
  <2> QED BY <2>10, <2>11 DEF Inside
<1> QED BY <1>1, <1>2

(* when its constants are read                                             *)
LEMMA ConstantsInside == ASSUME Inside, ReadConstants PROVE Inside'
<1> DEFINE v(k) == Number(next + ((k - 1) * EltBytes), EltBytes)
           good == Have(todo * EltBytes) /\ \A k \in 1..todo : v(k) \in Elt
<1>1. CASE ~good
  <2>1. Reject BY <1>1 DEF ReadConstants
  <2> QED BY <2>1, RejectInside
<1>2. CASE good
  <2>1. /\ pc = "constants" /\ constants' = [k \in 1..todo |-> v(k)] /\ todo' = 0 /\ pc' = "layer"
        /\ next' = next + (todo * EltBytes)
        /\ UNCHANGED <<fixed, got, nl, table, cache, quad, prev>>
    BY <1>2 DEF ReadConstants
  <2>2. FileTyped /\ IsRead(got) /\ got.l = <<>> BY <2>1 DEF Inside, ReadSoFar
  <2>3. \A k \in 1..todo : v(k) \in Elt BY <1>2
  <2> HIDE DEF v
  <2>4. constants' \in Seq(Elt)
    <3>1. constants' \in [1..todo -> Elt] BY <2>1, <2>3
    <3> QED BY <2>2, <3>1, SeqDef DEF FileTyped
  <2>5. next' \in Nat
    <3>1. todo * EltBytes \in Nat BY <2>2, TheBytes, SMT DEF FileTyped
    <3> QED BY <2>1, <2>2, <3>1, SMT DEF FileTyped
  <2>6. FileTyped' BY <2>1, <2>2, <2>4, <2>5 DEF FileTyped, Stages, fixed, IsCircuit
  <2>7. 1..Len(got.l) = {} BY <2>2
  <2>8. ReadSoFar' /\ EnforcedIdBinds' BY <2>1, <2>2, <2>7 DEF ReadSoFar, EnforcedIdBinds, IsRead
  <2> QED BY <2>6, <2>8 DEF Inside
<1> QED BY <1>1, <1>2

(* A layer is one whatever comes below it.                                 *)
LEMMA SameLayer ==
  ASSUME NEW x, NEW y, NEW k, x.nv = y.nv, x.l[k] = y.l[k], k # 1 => x.l[k - 1] = y.l[k - 1]
  PROVE  /\ Outputs(x, k) = Outputs(y, k) /\ (IsLayer(x, k) => IsLayer(y, k))
         /\ \A t : InRange(x, k, t) => InRange(y, k, t)
<1>1. Outputs(x, k) = Outputs(y, k) BY DEF Outputs
<1> QED BY <1>1 DEF IsLayer, InRange

(* Outputs are as many as a number of the file.                            *)
LEMMA OutputsAre ==
  ASSUME NEW x, IsRead(x), NEW k \in 1..Len(x.l)
  PROVE  /\ Outputs(x, k) \in Nat /\ Outputs(x, k) <= KMaxValue
         /\ x.l[k].nw \in Nat /\ x.l[k].nw <= KMaxValue
<1>1. \A i \in 1..Len(x.l) : x.l[i].nw \in Nat /\ x.l[i].nw <= KMaxValue
  <2>1. ASSUME NEW i \in 1..Len(x.l) PROVE x.l[i].nw \in Nat /\ x.l[i].nw <= KMaxValue
    <3>1. x.l[i] \in Layer /\ x.l[i].nw <= KMaxValue BY DEF IsRead
    <3> QED BY <3>1 DEF Layer
  <2> QED BY <2>1
<1>2. x.nv \in Nat /\ x.nv <= KMaxValue BY DEF IsRead, IsHeader
<1>3. CASE k = 1 BY <1>1, <1>2, <1>3 DEF Outputs
<1>4. CASE k # 1
  <2>1. Len(x.l) \in Nat BY DEF IsRead
  <2>2. k - 1 \in 1..Len(x.l) BY <1>4, <2>1, SMT
  <2> QED BY <1>1, <1>4, <2>2 DEF Outputs
<1> QED BY <1>3, <1>4

(* when the sizes of a layer are read                                      *)
LEMMA LayerInside == ASSUME Inside, ReadLayer PROVE Inside'
<1> DEFINE nq == read_num(2)
           w == read_num(1)
           lw == read_num(0)
           good == /\ Have(3 * KBytesPerSizeT) /\ lw <= KMaxBindings
                   /\ w > 0 /\ nq > 0 /\ Have((3 + (4 * nq)) * KBytesPerSizeT)
           new == [logw |-> lw, nw |-> w, quad |-> <<>>]
<1>1. CASE ~good
  <2>1. Reject BY <1>1 DEF ReadLayer
  <2> QED BY <2>1, RejectInside
<1>2. CASE good
  <2>1. /\ pc = "layer" /\ got' = [got EXCEPT !.l = Append(got.l, new)]
        /\ todo' = nq /\ quad' = <<>> /\ prev' = Origin
        /\ next' = next + (3 * KBytesPerSizeT) /\ pc' = "term"
        /\ UNCHANGED <<fixed, nl, constants, table, cache>>
    BY <1>2 DEF ReadLayer
  <2>2. FileTyped /\ IsRead(got) /\ \A k \in 1..Len(got.l) : IsLayer(got, k) BY <2>1 DEF Inside, ReadSoFar
  <2>3. nq \in 0..KMaxValue /\ w \in 0..KMaxValue /\ lw \in 0..KMaxValue
    <3>1. buf \in Seq(Bytes) /\ next \in Nat /\ Have(3 * KBytesPerSizeT) BY <1>2, <2>2 DEF FileTyped
    <3>2. \A k \in 0..2 : read_num(k) \in 0..KMaxValue
      <4>1. \A k \in 0..2 : k \in Nat /\ k < 3 BY SMT
      <4> QED BY <3>1, <4>1, ReadNumIs
    <3> QED BY <3>2
  <2>4. w > 0 /\ nq > 0 /\ Have((3 + (4 * nq)) * KBytesPerSizeT) BY <1>2
  <2> HIDE DEF nq, w, lw
  <2>5. nq \in Nat /\ w \in Nat \ {0} /\ w <= KMaxValue /\ lw \in Nat BY <2>3, <2>4, RangesAre, SMT
  <2>6. new \in Layer /\ new.nw = w BY <2>5 DEF Layer
  <2> HIDE DEF new
  <2> DEFINE m == Len(got.l)   l == Append(got.l, new)
  <2>7. /\ l \in Seq(Layer) /\ Len(l) = m + 1 /\ l[m + 1] = new /\ m \in Nat
        /\ \A k \in 1..m : l[k] = got.l[k]
    BY <2>2, <2>6 DEF IsRead
  <2> HIDE DEF l, m
  <2>8. IsHeader(got') /\ got'.l = l /\ got'.nv = got.nv
    <3>1. IsHeader(got) BY <2>2 DEF IsRead
    <3>2. got' = [got EXCEPT !.l = l] BY <2>1 DEF l
    <3>3. got' = WithLayers(got, l) BY <3>2 DEF WithLayers
    <3>4. HasLayers(got', got, l) BY <3>1, <3>3, LayersReplaced
    <3> QED BY <3>4 DEF HasLayers
  <2>9. IsRead(got')
    <3>1. ASSUME NEW k \in 1..Len(l) PROVE l[k].nw <= KMaxValue
      <4>1. k \in 1..m \/ k = m + 1 BY <2>7, SMT
      <4>2. \A i \in 1..m : got.l[i].nw <= KMaxValue BY <2>2 DEF IsRead, m
      <4> QED BY <2>5, <2>6, <2>7, <4>1, <4>2
    <3>2. got.nv <= KMaxValue BY <2>2 DEF IsRead
    <3> QED BY <2>7, <2>8, <3>1, <3>2 DEF IsRead
  <2>10. \A k \in 1..m : IsLayer(got', k)
    <3>1. ASSUME NEW k \in 1..m PROVE IsLayer(got', k)
      <4>1. k # 1 => k - 1 \in 1..m BY <2>7, SMT
      <4>2. got.l[k] = got'.l[k] /\ (k # 1 => got.l[k - 1] = got'.l[k - 1]) BY <2>7, <2>8, <4>1
      <4>3. IsLayer(got, k) BY <2>2 DEF m
      <4> QED BY <2>8, <4>2, <4>3, SameLayer
    <3> QED BY <3>1
  <2>11. next' + (nq * (4 * KBytesPerSizeT)) <= Len(buf) /\ next' \in Nat
    <3> DEFINE n == KBytesPerSizeT   a == nq * n
    <3>1. n \in Nat /\ Len(buf) \in Nat /\ next \in Nat BY <2>2, TheBytes DEF FileTyped
    <3>2. Len(buf) - next >= (3 + (4 * nq)) * n BY <2>4 DEF Have
    <3> HIDE DEF n
    <3>3. (3 + (4 * nq)) * n = (3 * n) + (4 * a) /\ nq * (4 * n) = 4 * a /\ a \in Nat
      BY <2>5, <3>1, SMT
    <3> HIDE DEF a
    <3>4. next' = next + (3 * n) BY <2>1 DEF n
    <3>5. next' + (4 * a) <= Len(buf) /\ next' \in Nat BY <3>1, <3>2, <3>3, <3>4, SMT
    <3> QED BY <3>3, <3>5 DEF n
  <2>12. InTerm'
    <3>1. Len(got'.l) = m + 1 /\ Len(got'.l) > 0 /\ Len(got'.l) - 1 = m BY <2>7, <2>8, SMT
    <3>2. quad' \in Seq(Nat) /\ Len(quad') + todo' > 0 BY <2>1, <2>4, <2>5
    <3>3. \E ts \in Seq(Corner) :
            /\ Len(ts) = Len(quad')
            /\ \A k \in 1..Len(ts) :
                 AddsTerm(ts, k, quad', table', constants') /\ InRange(got', Len(got'.l), ts[k])
            /\ prev' = AsPrev(Prior(ts, Len(ts) + 1))
      <4>1. <<>> \in Seq(Corner) /\ Len(<<>>) = Len(quad') /\ 1..Len(<<>>) = {} BY <2>1
      <4>2. prev' = AsPrev(Prior(<<>>, Len(<<>>) + 1)) BY <2>1 DEF AsPrev, Prior, Origin
      <4> QED BY <4>1, <4>2
    <3>4. buf' = buf /\ next' + (todo' * (4 * KBytesPerSizeT)) <= Len(buf')
      BY <2>1, <2>11 DEF fixed
    <3> QED BY <2>10, <3>1, <3>2, <3>3, <3>4 DEF InTerm
  <2>13. FileTyped' BY <2>1, <2>2, <2>5, <2>11 DEF FileTyped, Stages, fixed, IsCircuit
  <2>14. ReadSoFar' /\ EnforcedIdBinds' BY <2>1, <2>9, <2>12 DEF ReadSoFar, EnforcedIdBinds
  <2> QED BY <2>13, <2>14 DEF Inside
<1> QED BY <1>1, <1>2

(* Terms of a layer over sizes of the file fit a corner.                   *)
LEMMA RangeIsCorner ==
  ASSUME NEW x, IsRead(x), NEW k \in 1..Len(x.l), NEW t \in Corner, InRange(x, k, t)
  PROVE  InCorners(t)
<1>1. /\ Outputs(x, k) \in Nat /\ Outputs(x, k) <= KMaxValue
      /\ x.l[k].nw \in Nat /\ x.l[k].nw <= KMaxValue
  BY OutputsAre
<1>2. t.g \in Nat /\ t.h[1] \in Nat /\ t.h[2] \in Nat BY DEF Corner
<1>3. t.g < Outputs(x, k) /\ t.h[1] < x.l[k].nw /\ t.h[2] < x.l[k].nw BY DEF InRange
<1>4. KMaxValue \in Nat /\ Corners \in Nat /\ KMaxValue < Corners BY RangesAre
<1> QED BY <1>1, <1>2, <1>3, <1>4, SMT DEF InCorners

(* when a term is read                                                     *)
LEMMA TermInside == ASSUME Inside, ReadTerm PROVE Inside'
<1> DEFINE g == read_index(read_num(0), prev.g)
           hl == read_index(read_num(1), prev.hl)
           hr == read_index(read_num(2), prev.hr)
           vi == read_num(3)
           r == dedup([g |-> Wrap(g + (SizeMax - prev.g)), vi |-> vi,
                       h |-> <<Wrap(hl + (SizeMax - prev.hl)), Wrap(hr + (SizeMax - prev.hr))>>])
           good == g < max_g /\ hl < nw /\ hr < nw /\ vi < Len(constants)
<1>1. CASE ~good
  <2>1. Reject BY <1>1 DEF ReadTerm
  <2> QED BY <2>1, RejectInside
<1>2. CASE good
  <2>1. /\ pc = "term" /\ todo > 0
        /\ quad' = Append(quad, r.index) /\ table' = r.table /\ cache' = r.cache
        /\ prev' = [g |-> g, hl |-> hl, hr |-> hr]
        /\ todo' = todo - 1 /\ next' = next + (4 * KBytesPerSizeT)
        /\ UNCHANGED <<fixed, pc, got, nl, constants>>
    BY <1>2 DEF ReadTerm
  <2>2. FileTyped /\ IsRead(got) /\ InTerm BY <2>1 DEF Inside, ReadSoFar
  <2> DEFINE m == Len(got.l)
  <2>3. m \in Nat /\ m > 0 /\ m \in 1..m
    <3>1. m \in Nat /\ m > 0 BY <2>2 DEF IsRead, InTerm
    <3> QED BY <3>1, SMT
  <2>4. /\ buf \in Seq(Bytes) /\ next \in Nat /\ todo \in Nat /\ constants \in Seq(Elt)
        /\ quad \in Seq(Nat) /\ Len(buf) \in Nat /\ KBytesPerSizeT \in Nat
        /\ next + (todo * (4 * KBytesPerSizeT)) <= Len(buf)
        /\ table \in Seq(Delta) /\ IsCache(cache, table)
    BY <2>2, TheBytes DEF FileTyped, InTerm
  <2>5. /\ Have(4 * KBytesPerSizeT) /\ next' \in Nat /\ todo' \in Nat
        /\ next' + (todo' * (4 * KBytesPerSizeT)) <= Len(buf)
    <3> DEFINE n == 4 * KBytesPerSizeT   a == (todo - 1) * n
    <3>1. n \in Nat /\ todo - 1 \in Nat BY <2>1, <2>4, SMT
    <3>2. next + (todo * n) <= Len(buf) /\ next' = next + n /\ todo' = todo - 1 BY <2>1, <2>4
    <3> HIDE DEF n
    <3>3. a \in Nat /\ todo * n = n + a BY <2>4, <3>1, SMT
    <3>4. next + (n + a) <= Len(buf) BY <3>2, <3>3
    <3> HIDE DEF a
    <3>5. Len(buf) - next >= n /\ next + n \in Nat /\ (next + n) + a <= Len(buf)
      BY <2>4, <3>1, <3>3, <3>4, SMT
    <3> QED BY <3>1, <3>2, <3>5 DEF n, a, Have
  <2>6. PICK ts \in Seq(Corner) :
          /\ Len(ts) = Len(quad)
          /\ \A k \in 1..Len(ts) : AddsTerm(ts, k, quad, table, constants) /\ InRange(got, m, ts[k])
          /\ prev = AsPrev(Prior(ts, Len(ts) + 1))
    BY <2>2 DEF InTerm
  <2>7. \A k \in 0..3 : read_num(k) \in 0..KMaxValue
    <3>1. \A k \in 0..3 : k \in Nat /\ k < 4 BY SMT
    <3> QED BY <2>4, <2>5, <3>1, ReadNumIs
  <2> DEFINE i == Len(quad)   n == i + 1   p == Prior(ts, n)
  <2>8. i \in Nat /\ n \in Nat /\ Len(ts) = i /\ \A k \in 1..i : ts[k] \in Corner BY <2>4, <2>6
  <2>9. p.g \in Nat /\ p.h[1] \in Nat /\ p.h[2] \in Nat /\ InCorners(p)
    <3>1. CASE i = 0
      <4>1. p = [g |-> 0, h |-> <<0, 0>>] BY <3>1 DEF Prior
      <4> QED BY <4>1, RangesAre DEF InCorners
    <3>2. CASE i # 0
      <4>1. i \in 1..Len(ts) /\ n # 1 /\ n - 1 = i BY <2>8, <3>2, SMT
      <4>2. p = ts[i] BY <4>1 DEF Prior
      <4>3. ts[i] \in Corner /\ InRange(got, m, ts[i]) BY <2>6, <4>1
      <4>4. InCorners(ts[i]) BY <2>2, <2>3, <4>3, RangeIsCorner
      <4> QED BY <4>2, <4>3, <4>4 DEF Corner
    <3> QED BY <3>1, <3>2
  <2>10. prev.g = p.g /\ prev.hl = p.h[1] /\ prev.hr = p.h[2] /\ prev = AsPrev(p)
    BY <2>6, <2>8 DEF AsPrev
  <2>11. g \in Nat /\ hl \in Nat /\ hr \in Nat /\ vi \in Nat
    <3>1. read_num(0) \in 0..KMaxValue /\ read_num(1) \in 0..KMaxValue
          /\ read_num(2) \in 0..KMaxValue /\ read_num(3) \in 0..KMaxValue
      BY <2>7
    <3>2. vi \in Nat BY <3>1, RangesAre, SMT
    <3>3. prev.g \in Nat /\ prev.hl \in Nat /\ prev.hr \in Nat BY <2>9, <2>10
    <3> QED BY <3>1, <3>2, <3>3, ReadIndexIs
  <2>12. g < Outputs(got, m) /\ hl < got.l[m].nw /\ hr < got.l[m].nw /\ vi < Len(constants)
    BY <1>2 DEF max_g, nw, ly
  <2>13. r = dedup([g |-> Wrap(g + (SizeMax - prev.g)), vi |-> vi,
                    h |-> <<Wrap(hl + (SizeMax - prev.hl)), Wrap(hr + (SizeMax - prev.hr))>>])
    OBVIOUS
  <2> HIDE DEF g, hl, hr, vi, r, p, n, i, m
  <2> DEFINE t == [g |-> g, h |-> <<hl, hr>>, v |-> constants[vi + 1]]
  <2>14. vi + 1 \in 1..Len(constants)
    <3>1. Len(constants) \in Nat BY <2>4
    <3> QED BY <2>11, <2>12, <3>1, SMT
  <2>15. t \in Corner
    <3>1. constants[vi + 1] \in Elt BY <2>4, <2>14
    <3> QED BY <2>11, <3>1 DEF Corner
  <2>16. t.g = g /\ t.h[1] = hl /\ t.h[2] = hr /\ t.v = constants[vi + 1] OBVIOUS
  <2>17. InRange(got, m, t) BY <2>12, <2>16 DEF InRange
  <2>18. InCorners(t)
    <3>1. m \in 1..Len(got.l) BY <2>3 DEF m
    <3>2. IsRead(got) BY <2>2
    <3> HIDE DEF t
    <3> QED BY <2>15, <2>17, <3>1, <3>2, RangeIsCorner, Zenon
  <2> HIDE DEF t
  <2> DEFINE us == Append(ts, t)
  <2>19. /\ us \in Seq(Corner) /\ Len(us) = n /\ us[n] = t
         /\ \A k \in 1..i : us[k] = ts[k]
    BY <2>6, <2>8, <2>15 DEF n
  <2> HIDE DEF us
  <2>20. n \in 1..Len(us) /\ n = Len(quad) + 1 /\ \A k \in 1..n : k \in 1..i \/ k = n
    BY <2>8, <2>19, SMT DEF n, i
  <2>21. \A k \in 1..n : Prior(us, k) = Prior(ts, k)
    <3>1. ASSUME NEW k \in 1..n PROVE Prior(us, k) = Prior(ts, k)
      <4>1. k # 1 => k - 1 \in 1..i BY <2>8, SMT DEF n
      <4> QED BY <2>19, <4>1 DEF Prior
    <3> QED BY <3>1
  <2>22. \A k \in 1..i : AddsTerm(us, k, quad, table, constants)
    <3>1. ASSUME NEW k \in 1..i PROVE AddsTerm(us, k, quad, table, constants)
      <4>1. k \in 1..n BY <2>8, SMT DEF n
      <4>2. Prior(us, k) = Prior(ts, k) /\ us[k] = ts[k] BY <2>19, <2>21, <4>1
      <4>3. AddsTerm(ts, k, quad, table, constants) BY <2>6, <2>8
      <4> QED BY <4>2, <4>3 DEF AddsTerm
    <3> QED BY <3>1
  <2>23. r = dedup(DeltaTo(us[n], prev, vi)) BY <2>13, <2>16, <2>19 DEF DeltaTo
  <2>24. Prior(us, n) = p BY <2>20, <2>21 DEF p
  <2>25. us[n].v = constants[vi + 1] /\ InCorners(us[n]) BY <2>16, <2>18, <2>19
  <2>26. /\ r.table \in Seq(Delta) /\ IsCache(r.cache, r.table)
         /\ Append(quad, r.index) \in Seq(Nat) /\ Len(Append(quad, r.index)) = n
         /\ \A k \in 1..n : AddsTerm(us, k, Append(quad, r.index), r.table, constants)
    <3>1. AllAdd(us, Len(quad), quad, table, constants) BY <2>22 DEF AllAdd, i
    <3>2. prev = AsPrev(Prior(us, n)) /\ InCorners(Prior(us, n)) BY <2>9, <2>10, <2>24
    <3>3. table \in Seq(Delta) /\ IsCache(cache, table) /\ quad \in Seq(Nat) /\ constants \in Seq(Elt)
      BY <2>4
    <3>4. us \in Seq(Corner) /\ n \in 1..Len(us) /\ n = Len(quad) + 1 BY <2>19, <2>20
    <3>5. vi \in Nat /\ vi < Len(constants) BY <2>11, <2>12
    <3>6. IsAdded(r, us, n, Append(quad, r.index), constants)
      BY <2>23, <2>25, <3>1, <3>2, <3>3, <3>4, <3>5, TermIs
    <3> QED BY <3>6 DEF IsAdded, AllAdd
  <2>27. prev' = AsPrev(Prior(us, Len(us) + 1))
    <3>1. Prior(us, n + 1) = t
      <4>1. n + 1 # 1 /\ (n + 1) - 1 = n BY <2>8, SMT DEF n
      <4> QED BY <2>19, <4>1 DEF Prior
    <3> QED BY <2>1, <2>16, <2>19, <3>1 DEF AsPrev
  <2>28. \A k \in 1..n : InRange(got, m, us[k])
    <3>1. ASSUME NEW k \in 1..n PROVE InRange(got, m, us[k])
      <4>1. CASE k = n BY <2>17, <2>19, <4>1
      <4>2. CASE k # n
        <5>1. k \in 1..i BY <2>20, <4>2
        <5> QED BY <2>6, <2>8, <2>19, <5>1
      <4> QED BY <4>1, <4>2
    <3> QED BY <3>1
  <2>29. InTerm'
    <3>1. got' = got /\ constants' = constants /\ buf' = buf BY <2>1 DEF fixed
    <3>2. Len(got.l) > 0 /\ \A k \in 1..(Len(got.l) - 1) : IsLayer(got, k) BY <2>2 DEF InTerm
    <3>3. quad' \in Seq(Nat) /\ Len(quad') = n /\ Len(quad') + todo' > 0
      <4>1. quad' \in Seq(Nat) /\ Len(quad') = n BY <2>1, <2>26
      <4>2. todo' \in Nat BY <2>5
      <4>3. n \in Nat /\ n > 0 BY <2>8, SMT DEF n
      <4>4. \A a, b \in Nat : a > 0 => a + b > 0 BY SMT
      <4>5. n + todo' > 0 BY <4>2, <4>3, <4>4, Zenon
      <4> QED BY <4>1, <4>5
    <3>4. \A k \in 1..Len(us) : AddsTerm(us, k, quad', table', constants') /\ InRange(got', Len(got'.l), us[k])
      BY <2>1, <2>19, <2>26, <2>28, <3>1 DEF m
    <3> QED BY <2>5, <2>19, <2>27, <3>1, <3>2, <3>3, <3>4 DEF InTerm
  <2>30. FileTyped'
    <3>1. table' \in Seq(Delta) /\ IsCache(cache', table') BY <2>1, <2>26
    <3> QED BY <2>1, <2>2, <2>5, <3>1 DEF FileTyped, fixed, IsCircuit
  <2>31. ReadSoFar' /\ EnforcedIdBinds'
    <3>1. pc' = "term" /\ got' = got BY <2>1
    <3> QED BY <2>2, <2>29, <3>1 DEF ReadSoFar, EnforcedIdBinds
  <2> QED BY <2>30, <2>31 DEF Inside
<1> QED BY <1>1, <1>2

(* The terms of a layer are what its differences add up to.                *)
LEMMA DeltasAre ==
  ASSUME quad \in Seq(Nat), NEW ts \in Seq(Corner), Len(ts) = Len(quad),
         \A k \in 1..Len(ts) : AddsTerm(ts, k, quad, table, constants)
  PROVE  iterate(Deltas) = ts
<1> DEFINE n == Len(quad)
           q == Deltas
<1>1. n \in Nat /\ DOMAIN quad = 1..n OBVIOUS
<1>2. q = [k \in 1..n |-> LET d == table[quad[k]]
                          IN  [g |-> d.g, h |-> d.h, v |-> constants[d.vi + 1]]]
  BY <1>1 DEF Deltas
<1> HIDE DEF q
<1>3. q = [k \in 1..n |-> q[k]] BY <1>2, Zenon
<1>4. ASSUME NEW k \in 1..n PROVE ts[k] = Sum2(Prior(ts, k), q[k], q[k].v)
  <2> DEFINE d == table[quad[k]]
  <2>1. q[k] = [g |-> d.g, h |-> d.h, v |-> constants[d.vi + 1]] BY <1>2
  <2>2. ts[k] = Sum2(Prior(ts, k), d, constants[d.vi + 1])
    <3>1. k \in 1..Len(ts) OBVIOUS
    <3> QED BY <3>1 DEF AddsTerm
  <2> HIDE DEF d
  <2>3. q[k].g = d.g /\ q[k].h = d.h /\ q[k].v = constants[d.vi + 1] BY <2>1
  <2> QED BY <2>2, <2>3 DEF Sum2
<1>5. Len(ts) = n OBVIOUS
<1> HIDE DEF n
<1> QED BY <1>1, <1>3, <1>4, <1>5, IterateIs DEF q

(* A circuit with other terms in one layer                                 *)
WithTerms(x, m, ts) == [x EXCEPT !.l[m].quad = ts]
HasTerms(y, x, m, ts) ==
  /\ IsRead(y) /\ Len(y.l) = Len(x.l) /\ y.nv = x.nv
  /\ y.l[m] = [nw |-> x.l[m].nw, logw |-> x.l[m].logw, quad |-> ts]
  /\ \A k \in 1..Len(x.l) : k # m => y.l[k] = x.l[k]
(* Only the terms of one layer change.                                     *)
LEMMA QuadReplaced ==
  ASSUME NEW x, IsRead(x), NEW m \in 1..Len(x.l), NEW ts \in Seq(Corner)
  PROVE  HasTerms(WithTerms(x, m, ts), x, m, ts)
<1> DEFINE new == [nw |-> x.l[m].nw, logw |-> x.l[m].logw, quad |-> ts]
           l == [x.l EXCEPT ![m] = new]
           y == [x EXCEPT !.l = l]
<1>1. IsHeader(x) /\ x.l \in Seq(Layer) /\ x.nv <= KMaxValue
      /\ (\A k \in 1..Len(x.l) : x.l[k].nw <= KMaxValue) /\ Len(x.l) \in Nat
  BY DEF IsRead
<1>2. x.l[m] \in Layer BY <1>1
<1>3. new \in Layer /\ [x.l[m] EXCEPT !.quad = ts] = new BY <1>2 DEF Layer
<1>4. l \in Seq(Layer) BY <1>1, <1>3, ExceptSeq
<1>5. Len(l) = Len(x.l) /\ l[m] = new /\ \A k \in 1..Len(x.l) : k # m => l[k] = x.l[k]
  <2> HIDE DEF new
  <2>1. DOMAIN x.l = 1..Len(x.l) BY <1>1
  <2>2. Len(l) = Len(x.l) BY <1>1, <1>3, ExceptSeq
  <2>3. l[m] = new /\ \A k \in 1..Len(x.l) : k # m => l[k] = x.l[k] BY <2>1
  <2> QED BY <2>2, <2>3
<1>6. WithTerms(x, m, ts) = y BY <1>3 DEF WithTerms
<1>7. IsHeader(y) /\ y.l = l /\ y.nv = x.nv
  <2> HIDE DEF l
  <2>1. y = WithLayers(x, l) BY DEF WithLayers
  <2> HIDE DEF y
  <2>2. HasLayers(y, x, l) BY <1>1, <2>1, LayersReplaced
  <2> QED BY <2>2 DEF HasLayers
<1> HIDE DEF y
<1>8. IsRead(y)
  <2>1. \A k \in 1..Len(x.l) : l[k].nw <= KMaxValue
    <3>1. x.l[m].nw <= KMaxValue /\ new.nw = x.l[m].nw BY <1>1
    <3> HIDE DEF new, l
    <3> QED BY <1>1, <1>5, <3>1
  <2> HIDE DEF l
  <2> QED BY <1>1, <1>4, <1>5, <1>7, <2>1 DEF IsRead
<1> HIDE DEF l, new
<1> QED BY <1>5, <1>6, <1>7, <1>8 DEF new, HasTerms

(* when the terms of a layer are complete                                  *)
LEMMA EndLayerInside == ASSUME Inside, EndLayer PROVE Inside'
<1>1. /\ pc = "term" /\ todo = 0 /\ pc' = "layer"
      /\ UNCHANGED <<fixed, next, nl, constants, table, cache, todo, quad, prev>>
  BY DEF EndLayer
<1>2. FileTyped /\ IsRead(got) /\ InTerm BY <1>1 DEF Inside, ReadSoFar
<1> DEFINE m == Len(got.l)
<1>3. m \in Nat /\ m > 0 /\ m \in 1..m /\ \A k \in 1..(m - 1) : IsLayer(got, k)
  <2>1. m \in Nat /\ m > 0 BY <1>2 DEF IsRead, InTerm
  <2> QED BY <1>2, <2>1, SMT DEF InTerm
<1>4. quad \in Seq(Nat) /\ Len(quad) \in Nat /\ Len(quad) > 0
  <2>1. quad \in Seq(Nat) /\ Len(quad) + todo > 0 BY <1>2 DEF InTerm
  <2> QED BY <1>1, <2>1
<1>5. PICK ts \in Seq(Corner) :
        /\ Len(ts) = Len(quad)
        /\ \A k \in 1..Len(ts) : AddsTerm(ts, k, quad, table, constants) /\ InRange(got, m, ts[k])
  BY <1>2 DEF InTerm
<1>6. iterate(Deltas) = ts BY <1>4, <1>5, DeltasAre
<1>7. got' = [got EXCEPT !.l[m].quad = ts] BY <1>6 DEF EndLayer, ly
<1>8. /\ IsRead(got') /\ Len(got'.l) = m /\ got'.nv = got.nv
      /\ got'.l[m] = [nw |-> got.l[m].nw, logw |-> got.l[m].logw, quad |-> ts]
      /\ \A k \in 1..m : k # m => got'.l[k] = got.l[k]
  <2>1. got' = WithTerms(got, m, ts) BY <1>7 DEF WithTerms
  <2>2. HasTerms(got', got, m, ts) BY <1>2, <1>3, <2>1, QuadReplaced
  <2> QED BY <2>2 DEF HasTerms
<1> HIDE DEF m
<1>9. \A k \in 1..m : IsLayer(got', k)
  <2>1. ASSUME NEW k \in 1..m, k # m PROVE IsLayer(got', k)
    <3>1. k \in 1..(m - 1) /\ (k # 1 => k - 1 \in 1..m /\ k - 1 # m) BY <1>3, <2>1, SMT
    <3>2. got.l[k] = got'.l[k] /\ (k # 1 => got.l[k - 1] = got'.l[k - 1]) BY <1>8, <2>1, <3>1
    <3> QED BY <1>3, <1>8, <3>1, <3>2, SameLayer
  <2>2. IsLayer(got', m)
    <3>1. got'.l[m].quad = ts /\ got'.l[m].nw = got.l[m].nw BY <1>8
    <3>2. Outputs(got', m) = Outputs(got, m)
      <4>1. m # 1 => m - 1 \in 1..m /\ m - 1 # m BY <1>3, SMT
      <4> QED BY <1>8, <4>1 DEF Outputs
    <3>3. ts # <<>> BY <1>4, <1>5
    <3>4. \A k \in 1..Len(ts) : InRange(got', m, ts[k]) BY <1>5, <3>1, <3>2 DEF InRange
    <3> QED BY <3>1, <3>3, <3>4, LayerByTerms
  <2> QED BY <2>1, <2>2
<1>10. FileTyped' BY <1>1, <1>2 DEF FileTyped, Stages, fixed, IsCircuit
<1>11. ReadSoFar' /\ EnforcedIdBinds' BY <1>1, <1>8, <1>9 DEF ReadSoFar, EnforcedIdBinds
<1> QED BY <1>10, <1>11 DEF Inside

(* Circuits of one identifier are the same.                                *)
LEMMA IdBinds ==
  ASSUME NEW x, NEW y, IsHeader(x), IsHeader(y), x.l \in Seq(Layer), y.l \in Seq(Layer),
         NEW f, NEW g, circuit_id(x, f) = circuit_id(y, g)
  PROVE  x = y
<1> DEFINE layers(z) == [k \in DOMAIN z.l |-> <<z.l[k].nw, z.l[k].logw, Len(z.l[k].quad), z.l[k].quad>>]
<1>1. /\ x.nv = y.nv /\ x.nc = y.nc /\ x.ninputs = y.ninputs /\ x.npub_in = y.npub_in
      /\ x.subfield_boundary = y.subfield_boundary /\ Len(x.l) = Len(y.l)
      /\ layers(x) = layers(y)
  BY DEF circuit_id
<1>2. DOMAIN x.l = 1..Len(x.l) /\ DOMAIN y.l = 1..Len(x.l) BY <1>1
<1>3. ASSUME NEW k \in 1..Len(x.l) PROVE x.l[k] = y.l[k]
  <2>1. layers(x)[k] = layers(y)[k] BY <1>1
  <2>2. /\ layers(x)[k] = <<x.l[k].nw, x.l[k].logw, Len(x.l[k].quad), x.l[k].quad>>
        /\ layers(y)[k] = <<y.l[k].nw, y.l[k].logw, Len(y.l[k].quad), y.l[k].quad>>
    BY <1>2
  <2> HIDE DEF layers
  <2>3. x.l[k] \in Layer /\ y.l[k] \in Layer BY <1>1
  <2> DEFINE a == x.l[k]   b == y.l[k]
  <2>4. <<a.nw, a.logw, Len(a.quad), a.quad>> = <<b.nw, b.logw, Len(b.quad), b.quad>>
    BY <2>1, <2>2, Zenon
  <2>5. a \in Layer /\ b \in Layer BY <2>3
  <2> HIDE DEF a, b
  <2>6. a.nw = b.nw /\ a.logw = b.logw /\ a.quad = b.quad
    <3> DEFINE u == <<a.nw, a.logw, Len(a.quad), a.quad>>   v == <<b.nw, b.logw, Len(b.quad), b.quad>>
    <3>1. u[1] = a.nw /\ u[2] = a.logw /\ u[4] = a.quad OBVIOUS
    <3>2. v[1] = b.nw /\ v[2] = b.logw /\ v[4] = b.quad OBVIOUS
    <3>3. u = v BY <2>4
    <3> HIDE DEF u, v
    <3> QED BY <3>1, <3>2, <3>3
  <2>7. a = [nw |-> a.nw, logw |-> a.logw, quad |-> a.quad] BY <2>5 DEF Layer
  <2>8. b = [nw |-> b.nw, logw |-> b.logw, quad |-> b.quad] BY <2>5 DEF Layer
  <2>9. a = b BY <2>6, <2>7, <2>8
  <2> QED BY <2>9 DEF a, b
<1>4. x.l = y.l
  <2>1. L!IsSeq(x.l) /\ L!IsSeq(y.l) BY DEF L!IsSeq
  <2> HIDE DEF layers
  <2> QED BY <1>1, <1>3, <2>1, L!SequenceEquality
<1> HIDE DEF layers
<1> QED BY <1>1, <1>4 DEF IsHeader

(* when the circuit is complete                                            *)
LEMMA IdInside == ASSUME Inside, ReadId PROVE Inside'
<1> DEFINE good == Have(KIdSize) /\ (enforce => IdIsOf(got))
<1>1. CASE ~good
  <2>1. Reject BY <1>1 DEF ReadId
  <2> QED BY <2>1, RejectInside
<1>2. CASE good
  <2>1. /\ pc = "layer" /\ pc' = "accepted" /\ next' = next + KIdSize
        /\ UNCHANGED <<fixed, got, nl, constants, table, cache, todo, quad, prev>>
    BY <1>2 DEF ReadId
  <2>2. FileTyped /\ IsRead(got) /\ \A k \in 1..Len(got.l) : IsLayer(got, k) BY <2>1 DEF Inside, ReadSoFar
  <2>3. next' \in Nat
    <3>1. KIdSize \in Nat /\ next \in Nat BY <2>2, TheBytes DEF FileTyped
    <3> QED BY <2>1, <3>1
  <2>4. FileTyped' BY <2>1, <2>2, <2>3 DEF FileTyped, Stages, fixed, IsCircuit
  <2>5. ReadSoFar' BY <2>1, <2>2 DEF ReadSoFar
  <2>6. EnforcedIdBinds'
    <3>1. ASSUME enforce PROVE got = c
      <4>1. circuit_id(got, field_id) = circuit_id(c, FieldId) BY <1>2, <3>1 DEF IdIsOf
      <4>2. IsHeader(got) /\ got.l \in Seq(Layer) BY <2>2 DEF IsRead
      <4>3. IsHeader(c) /\ c.l \in Seq(Layer) BY <2>2 DEF FileTyped, IsCircuit
      <4> QED BY <4>1, <4>2, <4>3, IdBinds
    <3>2. enforce' = enforce /\ got' = got /\ c' = c BY <2>1 DEF fixed
    <3> QED BY <3>1, <3>2 DEF EnforcedIdBinds
  <2> QED BY <2>4, <2>5, <2>6 DEF Inside
<1> QED BY <1>1, <1>2

(* What is accepted is a circuit.                                          *)
LEMMA InsideAccepts == ASSUME Inside PROVE AcceptedIsCircuit
<1> SUFFICES ASSUME pc = "accepted" PROVE IsCircuit(got) BY DEF AcceptedIsCircuit
<1>1. IsRead(got) /\ \A k \in 1..Len(got.l) : IsLayer(got, k) BY DEF Inside, ReadSoFar
<1>2. IsHeader(got) /\ got.l \in Seq(Layer) BY <1>1 DEF IsRead
<1>3. DOMAIN got.l = 1..Len(got.l) BY <1>2
<1> QED BY <1>1, <1>2, <1>3 DEF IsCircuit

-----------------------------------------------------------------------------
(* Bytes that arrive as they were *)

(* the circuit's bytes are where they were and its name is at their end    *)
Intact == named /\ \A k \in 1..Len(to_bytes(c)) : buf[k] = to_bytes(c)[k]

Reading == {"header", "constants", "layer", "term", "accepted", "rejected"}
Arrived ==
  /\ pc \in {"deliver"} \cup Reading => Fits(Header(c) \o Body(c))
  /\ pc = "deliver" => Len(buf) = Len(to_bytes(c)) + KIdSize
  /\ pc \in Reading /\ named => Len(buf) >= Len(to_bytes(c)) + KIdSize

(* the numbers of the terms from the a-th of the body                      *)
RowsFrom(x, q, a) ==
  \A j \in 1..Len(q) : \A i \in 1..4 : Body(x)[(a + (4 * (j - 1))) + i] = Row(x, q, j)[i]

(* Where the layers are, and their terms                                   *)
LEMMA LayersAre ==
  ASSUME NEW x, IsCircuit(x), NEW k \in 1..Len(x.l)
  PROVE  LET q == x.l[k].quad   a == At(x)[k - 1]
         IN  /\ a \in Nat /\ At(x)[k] = a + 3 + (4 * Len(q)) /\ At(x)[k] <= Len(Body(x))
             /\ Len(q) \in Nat /\ Len(Body(x)) \in Nat
             /\ Body(x)[a + 1] = x.l[k].logw /\ Body(x)[a + 2] = x.l[k].nw
             /\ Body(x)[a + 3] = Len(q)
             /\ RowsFrom(x, q, a + 3)
<1> DEFINE q == x.l[k].quad   n == Len(q)   a == At(x)[k - 1]   ns == LayerNumbers(x, x.l[k])
<1>1. Body(x) \in Seq(Nat) /\ IsLayout(x, At(x)) BY LayoutIs
<1>2. n \in Nat /\ Len(x.l) \in Nat /\ Len(Body(x)) \in Nat BY <1>1, CircuitIsTyped
<1>3. k - 1 \in 0..Len(x.l) /\ k \in 0..Len(x.l) BY <1>2, SMT
<1>4. /\ a \in Nat /\ At(x)[k] = a + 3 + (4 * n) /\ At(x)[k] <= Len(Body(x))
      /\ \A i \in 1..(3 + (4 * n)) : Body(x)[a + i] = ns[i]
  BY <1>1, <1>3 DEF IsLayout
<1>5. /\ ns[1] = x.l[k].logw /\ ns[2] = x.l[k].nw /\ ns[3] = n
      /\ HasRows(x, q, ns)
  BY LayerNumbersAre
<1> HIDE DEF q, n, a, ns
<1>6. 1 \in 1..(3 + (4 * n)) /\ 2 \in 1..(3 + (4 * n)) /\ 3 \in 1..(3 + (4 * n)) BY <1>2, SMT
<1>7. Body(x)[a + 1] = x.l[k].logw /\ Body(x)[a + 2] = x.l[k].nw /\ Body(x)[a + 3] = n
  BY <1>4, <1>5, <1>6
<1>8. ASSUME NEW j \in 1..n, NEW i \in 1..4
      PROVE  Body(x)[(a + 3 + (4 * (j - 1))) + i] = Row(x, q, j)[i]
  <2> DEFINE y == 3 + ((4 * (j - 1)) + i)
  <2>1. y \in 1..(3 + (4 * n)) BY <1>2, SMT
  <2>2. a + y = (a + 3 + (4 * (j - 1))) + i BY <1>4, SMT
  <2>3. ns[y] = Row(x, q, j)[i] BY <1>5 DEF HasRows, n
  <2> HIDE DEF y
  <2>4. Body(x)[a + y] = ns[y] BY <1>4, <2>1
  <2> QED BY <2>2, <2>3, <2>4
<1>9. RowsFrom(x, q, a + 3) BY <1>8 DEF RowsFrom, n
<1> QED BY <1>2, <1>4, <1>7, <1>9 DEF q, n, a

(* The numbers of the body are read from their place.                      *)
LEMMA BodyReads ==
  ASSUME IsCircuit(c), buf \in Seq(Bytes), Fits(Header(c) \o Body(c)), Intact,
         Len(buf) >= Len(to_bytes(c)),
         NEW a \in Nat, next = BodyStart(c) + (a * KBytesPerSizeT),
         NEW n \in Nat, a + n <= Len(Body(c))
  PROVE  /\ Have(n * KBytesPerSizeT)
         /\ \A i \in 0..(n - 1) : read_num(i) = Body(c)[(a + i) + 1]
<1> DEFINE w == KBytesPerSizeT   l == Len(Body(c))   s == BodyStart(c)
<1>1. w \in Nat /\ EltBytes \in Nat /\ l \in Nat /\ Len(buf) \in Nat /\ Len(kvec(c)) \in Nat
  <2>1. Body(c) \in Seq(Nat) /\ kvec(c) \in Seq(Elt) BY LayoutIs, KvecIs
  <2> QED BY <2>1, TheBytes
<1>2. s \in Nat
  <2> DEFINE p == EltBytes * Len(kvec(c))
  <2>1. p \in Nat BY <1>1, SMT
  <2>2. s = (1 + (8 * w)) + p BY DEF BodyStart
  <2> HIDE DEF p, s, w
  <2> QED BY <1>1, <2>1, <2>2, SMT
<1>3. Len(to_bytes(c)) = s + (w * l) BY BytesAre
<1>4. \A i \in 1..l : Number(s + ((i - 1) * w), w) = Body(c)[i] BY ReadIs DEF Intact
<1>5. next = s + (a * w) /\ a + n <= l OBVIOUS
<1> HIDE DEF s, l, w
<1>6. Len(buf) - next >= n * w
  <2> DEFINE e == (l - (a + n)) * w   f == a * w   h == n * w
  <2>1. l - (a + n) \in Nat BY <1>1, <1>5, SMT
  <2>2. e \in Nat /\ f \in Nat /\ h \in Nat /\ w * l = e + f + h BY <1>1, <2>1, SMT
  <2>3. Len(buf) >= s + (e + f + h) BY <1>3, <2>2
  <2>4. next = s + f BY <1>5
  <2> HIDE DEF e, f, h
  <2>5. Len(buf) - next >= h BY <1>1, <1>2, <2>2, <2>3, <2>4, SMT
  <2> QED BY <2>5 DEF h
<1>7. ASSUME NEW i \in 0..(n - 1) PROVE read_num(i) = Body(c)[(a + i) + 1]
  <2> DEFINE y == (a + i) + 1
  <2>1. y \in 1..l /\ y - 1 = a + i BY <1>1, <1>5, SMT
  <2>2. next + (i * w) = s + ((a + i) * w)
    <3> DEFINE f == a * w   h == i * w
    <3>1. i \in Nat /\ f \in Nat /\ h \in Nat /\ (a + i) * w = f + h BY <1>1, SMT
    <3>2. next = s + f BY <1>5
    <3> HIDE DEF f, h
    <3>3. next + h = s + (f + h) BY <1>2, <3>1, <3>2, SMT
    <3> QED BY <3>1, <3>3 DEF h
  <2>3. Number(s + ((y - 1) * w), w) = Body(c)[y]
    <3> HIDE DEF y
    <3> QED BY <1>4, <2>1
  <2>4. Number(s + ((a + i) * w), w) = Body(c)[y] BY <2>1, <2>3
  <2> QED BY <2>2, <2>4 DEF read_num, w
<1> QED BY <1>6, <1>7 DEF Have, w

(* The sizes of a circuit that is written fit a number.                    *)
LEMMA WrittenIsRead ==
  ASSUME NEW x, IsCircuit(x), Fits(Header(x) \o Body(x))
  PROVE  IsRead(x) /\ x.nv \in 0..KMaxValue
<1>1. x.nv \in 0..KMaxValue
  <2>1. Header(x)[2] \in 0..KMaxValue
    <3>1. 2 \in 1..8 BY SMT
    <3> QED BY <3>1, FitsIs
  <2> QED BY <2>1, HeaderIs
<1>2. ASSUME NEW k \in 1..Len(x.l) PROVE x.l[k].nw <= KMaxValue
  <2> DEFINE a == At(x)[k - 1]
  <2>1. /\ a \in Nat /\ At(x)[k] = a + 3 + (4 * Len(x.l[k].quad)) /\ At(x)[k] <= Len(Body(x))
        /\ Len(x.l[k].quad) \in Nat /\ Len(Body(x)) \in Nat /\ Body(x)[a + 2] = x.l[k].nw
    BY LayersAre
  <2> DEFINE n == Len(x.l[k].quad)   l == Len(Body(x))
  <2>5. a \in Nat /\ n \in Nat /\ l \in Nat /\ a + 3 + (4 * n) <= l BY <2>1
  <2> HIDE DEF a, n, l
  <2>6. a + 2 \in 1..l BY <2>5, SMT
  <2>2. a + 2 \in 1..Len(Body(x)) BY <2>6 DEF l
  <2>3. Body(x)[a + 2] \in 0..KMaxValue BY <2>2, FitsIs
  <2>4. KMaxValue \in Nat BY RangesAre
  <2> QED BY <2>1, <2>3, <2>4
<1>3. x.nv <= KMaxValue BY <1>1, RangesAre
<1> QED BY <1>1, <1>2, <1>3 DEF IsRead, IsCircuit

(* Its terms and the terms before them fit a corner.                       *)
LEMMA WrittenInCorners ==
  ASSUME NEW x, IsCircuit(x), IsRead(x), NEW k \in 1..Len(x.l), NEW j \in 1..Len(x.l[k].quad)
  PROVE  LET q == x.l[k].quad
         IN  InRange(x, k, q[j]) /\ InCorners(q[j]) /\ InCorners(Prior(q, j))
<1> DEFINE q == x.l[k].quad
<1>1. q \in Seq(Corner) /\ q # <<>> /\ IsLayer(x, k) /\ Len(q) \in Nat
  <2>1. IsLayer(x, k) /\ q \in Seq(Corner) /\ Len(q) \in Nat BY CircuitIsTyped
  <2> QED BY <2>1 DEF IsLayer
<1>2. \A i \in 1..Len(q) : InRange(x, k, q[i]) BY <1>1, LayerByTerms
<1>3. \A i \in 1..Len(q) : q[i] \in Corner BY <1>1
<1>4. \A i \in 1..Len(q) : InCorners(q[i])
  <2>1. ASSUME NEW i \in 1..Len(q) PROVE InCorners(q[i])
    <3>1. q[i] \in Corner /\ InRange(x, k, q[i]) BY <1>2, <1>3
    <3> HIDE DEF q
    <3> QED BY <3>1, RangeIsCorner
  <2> QED BY <2>1
<1>5. InCorners(Prior(q, j))
  <2>1. CASE j = 1
    <3>1. Prior(q, j) = [g |-> 0, h |-> <<0, 0>>] BY <2>1 DEF Prior
    <3> QED BY <3>1, RangesAre DEF InCorners
  <2>2. CASE j # 1
    <3> HIDE DEF q
    <3>1. j \in 1..Len(q) BY DEF q
    <3>2. j - 1 \in 1..Len(q) BY <1>1, <2>2, <3>1, SMT
    <3> QED BY <1>4, <2>2, <3>2 DEF Prior
  <2> QED BY <2>1, <2>2
<1> QED BY <1>2, <1>4, <1>5

(* the numbers of the j-th term after the b-th of the body                 *)
IsRowAt(x, q, j, b) ==
  /\ b \in Nat /\ b + 4 <= Len(Body(x))
  /\ Body(x)[b + 1] = Index(q[j].g, Prior(q, j).g)
  /\ Body(x)[b + 2] = Index(q[j].h[1], Prior(q, j).h[1])
  /\ Body(x)[b + 3] = Index(q[j].h[2], Prior(q, j).h[2])
  /\ Body(x)[b + 4] = kload(x, q[j].v)

(* The numbers of a term and where they are                                *)
LEMMA RowInBody ==
  ASSUME NEW x, IsCircuit(x), NEW k \in 1..Len(x.l), NEW q, q = x.l[k].quad,
         NEW j \in 1..Len(q), NEW b, b = At(x)[k - 1] + 3 + (4 * (j - 1))
  PROVE  IsRowAt(x, q, j, b)
<1> DEFINE n == Len(q)   a == At(x)[k - 1]
<1>1. /\ a \in Nat /\ At(x)[k] = a + 3 + (4 * n) /\ At(x)[k] <= Len(Body(x))
      /\ n \in Nat /\ Len(Body(x)) \in Nat
  BY LayersAre
<1>7. RowsFrom(x, q, a + 3) BY LayersAre
<1>3. j \in 1..n /\ b = a + 3 + (4 * (j - 1)) OBVIOUS
<1> HIDE DEF a, n
<1>4. b \in Nat /\ b + 4 <= Len(Body(x))
  <2> DEFINE l == Len(Body(x))
  <2>1. a + 3 + (4 * n) <= l /\ l \in Nat BY <1>1
  <2> HIDE DEF l
  <2> QED BY <1>1, <1>3, <2>1, SMT DEF l
<1>2. \A i \in 1..4 : Body(x)[b + i] = Row(x, q, j)[i] BY <1>3, <1>7 DEF RowsFrom, n
<1>5. /\ Body(x)[b + 1] = Row(x, q, j)[1] /\ Body(x)[b + 2] = Row(x, q, j)[2]
      /\ Body(x)[b + 3] = Row(x, q, j)[3] /\ Body(x)[b + 4] = Row(x, q, j)[4]
  BY <1>2
<1>6. /\ Row(x, q, j)[1] = Index(q[j].g, Prior(q, j).g)
      /\ Row(x, q, j)[2] = Index(q[j].h[1], Prior(q, j).h[1])
      /\ Row(x, q, j)[3] = Index(q[j].h[2], Prior(q, j).h[2])
      /\ Row(x, q, j)[4] = kload(x, q[j].v)
  BY DEF Row
<1> QED BY <1>4, <1>5, <1>6 DEF IsRowAt

(* how far the reader of intact bytes is                                   *)
Place(i) == BodyStart(c) + (i * KBytesPerSizeT)
ReadAlike(k) == got.l[k] = c.l[k] /\ c.l[k].logw <= KMaxBindings
Readable ==
  /\ field_id = FieldId /\ Len(c.l) <= KMaxLayers
  /\ \A k \in 1..Len(c.l) : c.l[k].logw <= KMaxBindings
HeaderRead ==
  /\ field_id = FieldId /\ Len(c.l) <= KMaxLayers /\ nl = Len(c.l)
  /\ got = [c EXCEPT !.l = got.l] /\ Len(got.l) <= Len(c.l)
TermsRead(q) ==
  /\ Len(quad) + todo = Len(q)
  /\ next = Place(At(c)[Len(got.l) - 1] + 3 + (4 * Len(quad)))
  /\ \A k \in 1..Len(quad) : AddsTerm(q, k, quad, table, constants)
  /\ prev = AsPrev(Prior(q, Len(quad) + 1))
Followed ==
  /\ pc = "header" => next = 0
  /\ pc = "constants" =>
       HeaderRead /\ got.l = <<>> /\ next = 1 + (8 * KBytesPerSizeT) /\ todo = Len(kvec(c))
  /\ pc \in {"layer", "term"} => HeaderRead /\ constants = kvec(c)
  /\ pc = "layer" => /\ next = Place(At(c)[Len(got.l)])
                     /\ \A k \in 1..Len(got.l) : ReadAlike(k)
  /\ pc = "term" =>
       LET m == Len(got.l)
       IN  /\ \A k \in 1..(m - 1) : ReadAlike(k)
           /\ m > 0 /\ got.l[m] = [c.l[m] EXCEPT !.quad = <<>>] /\ c.l[m].logw <= KMaxBindings
           /\ TermsRead(c.l[m].quad)
  /\ pc = "accepted" => Readable /\ got = c /\ next = Len(to_bytes(c)) + KIdSize
  /\ pc = "rejected" => ~Readable
Follow == Inside /\ Arrived /\ (pc \in Reading /\ Intact => Followed)

(* Before there is anything to read                                        *)
LEMMA InitFollow == ASSUME FileInit PROVE Follow
<1>1. Inside BY InitInside
<1> QED BY <1>1 DEF FileInit, Follow, Arrived, Reading

(* when the file is written                                                *)
LEMMA WriteFollow == ASSUME Follow, Write PROVE Follow'
<1>1. Inside' /\ IsCircuit(c) BY WriteInside DEF Follow, Inside, FileTyped
<1>2. c' = c /\ pc = "write" /\ pc' \in {"deliver", "aborted"} BY DEF Write
<1>3. CASE Fits(Header(c) \o Body(c))
  <2>1. PICK id \in 0..(Byte - 1) : buf' = to_bytes(c) \o [k \in 1..KIdSize |-> id]
    BY <1>3 DEF Write
  <2>2. to_bytes(c) \in Seq(Bytes) BY <1>1, BytesAre
  <2> DEFINE t == [k \in 1..KIdSize |-> id]
  <2>3. t \in Seq(Bytes) /\ Len(t) = KIdSize
    <3>1. KIdSize \in Nat /\ t \in [1..KIdSize -> Bytes] BY TheBytes DEF Bytes
    <3>2. t \in Seq(Bytes) BY <3>1, SeqDef
    <3>3. DOMAIN t = 1..KIdSize OBVIOUS
    <3> HIDE DEF t
    <3> QED BY <3>1, <3>2, <3>3
  <2> HIDE DEF t
  <2>6. L!IsSeq(to_bytes(c)) /\ L!IsSeq(t) BY <2>2, <2>3 DEF L!IsSeq
  <2>7. Len(to_bytes(c) \o t) = Len(to_bytes(c)) + Len(t) BY <2>6, L!Concatenation
  <2>4. Len(buf') = Len(to_bytes(c)) + KIdSize BY <2>1, <2>3, <2>7 DEF t
  <2>5. pc' = "deliver" BY <1>3 DEF Write
  <2> QED BY <1>1, <1>2, <1>3, <2>4, <2>5 DEF Follow, Arrived, Reading
<1>4. CASE ~Fits(Header(c) \o Body(c))
  <2>1. pc' = "aborted" BY <1>4 DEF Write
  <2> QED BY <1>1, <2>1 DEF Follow, Arrived, Reading
<1> QED BY <1>3, <1>4

(* when it arrives                                                         *)
LEMMA DeliverFollow == ASSUME Follow, Deliver PROVE Follow'
<1>1. Inside' /\ IsCircuit(c) /\ buf \in Seq(Bytes) BY DeliverInside DEF Follow, Inside, FileTyped
<1>2. c' = c /\ pc = "deliver" /\ pc' = "header" /\ next' = next /\ next = 0
  BY DEF Deliver, readerVars, Follow, Inside, ReadSoFar
<1>3. Fits(Header(c) \o Body(c)) /\ Len(buf) = Len(to_bytes(c)) + KIdSize BY <1>2 DEF Follow, Arrived
<1> DEFINE n == Len(to_bytes(c)) + KIdSize
<1>4. Len(buf) = n /\ n \in Nat BY <1>1, <1>3
<1> HIDE DEF n
<1>5. named' => Len(buf') >= n
  <2>1. CASE UNCHANGED <<buf, named>> BY <1>4, <2>1
  <2>2. ASSUME NEW k \in DOMAIN buf, NEW b \in 0..(Byte - 1), buf' = [buf EXCEPT ![k] = b]
        PROVE  Len(buf') >= n
    <3>1. Len(buf') = Len(buf) BY <1>1, <2>2, ExceptSeq DEF Bytes
    <3> QED BY <1>4, <3>1
  <2>3. ASSUME NEW b \in 0..(Byte - 1), buf' = Append(buf, b) PROVE Len(buf') >= n
    <3>1. Len(buf') = Len(buf) + 1 BY <1>1, <2>3
    <3> QED BY <1>4, <3>1
  <2> QED BY <2>1, <2>2, <2>3 DEF Deliver
<1>6. Arrived' BY <1>2, <1>3, <1>5 DEF Arrived, n
<1>7. Followed' BY <1>2 DEF Followed
<1> QED BY <1>1, <1>6, <1>7 DEF Follow

(* The bytes and what they are compared with do not change while they are  *)
(* read.                                                                   *)
LEMMA StillIntact ==
  ASSUME Arrived, pc \in Reading, UNCHANGED fixed, pc' \in Reading
  PROVE  Arrived' /\ (Intact' <=> Intact)
<1>1. c' = c /\ buf' = buf /\ named' = named BY DEF fixed
<1> QED BY <1>1 DEF Arrived, Intact, Reading

(* what intact bytes are for the reader                                    *)
LEMMA IntactIs ==
  ASSUME Follow, pc \in Reading, Intact
  PROVE  /\ IsCircuit(c) /\ IsRead(c) /\ buf \in Seq(Bytes) /\ Fits(Header(c) \o Body(c))
         /\ Len(buf) >= Len(to_bytes(c)) + KIdSize /\ Len(buf) >= Len(to_bytes(c))
         /\ \A k \in 1..Len(to_bytes(c)) : buf[k] = to_bytes(c)[k]
<1>1. /\ IsCircuit(c) /\ buf \in Seq(Bytes) /\ Fits(Header(c) \o Body(c))
      /\ Len(buf) >= Len(to_bytes(c)) + KIdSize
  BY DEF Follow, Inside, FileTyped, Arrived, Intact
<1>2. Len(to_bytes(c)) \in Nat /\ Len(buf) \in Nat /\ KIdSize \in Nat
  <2>1. to_bytes(c) \in Seq(Bytes) BY <1>1, BytesAre
  <2> QED BY <1>1, <2>1, TheBytes
<1>3. Len(buf) >= Len(to_bytes(c)) BY <1>1, <1>2, SMT
<1>4. IsRead(c) BY <1>1, WrittenIsRead
<1> QED BY <1>1, <1>3, <1>4 DEF Intact

(* How long the parts of the file are                                      *)
LEMMA SizesAre ==
  ASSUME NEW x, IsCircuit(x)
  PROVE  \E p, q, l \in Nat :
           /\ p = EltBytes * Len(kvec(x)) /\ l = Len(Body(x)) /\ q = KBytesPerSizeT * l
           /\ q = l * KBytesPerSizeT /\ p = Len(kvec(x)) * EltBytes
           /\ BodyStart(x) = (1 + (8 * KBytesPerSizeT)) + p
           /\ Len(to_bytes(x)) = BodyStart(x) + q
           /\ BodyStart(x) \in Nat /\ Len(kvec(x)) \in Nat
<1> DEFINE w == KBytesPerSizeT   p == EltBytes * Len(kvec(x))   l == Len(Body(x))   q == w * l
<1>1. w \in Nat /\ EltBytes \in Nat /\ Len(kvec(x)) \in Nat /\ l \in Nat
  <2>1. Body(x) \in Seq(Nat) /\ kvec(x) \in Seq(Elt) BY LayoutIs, KvecIs
  <2> QED BY <2>1, TheBytes
<1>2. p \in Nat /\ q \in Nat /\ q = l * w /\ p = Len(kvec(x)) * EltBytes
  <2> HIDE DEF w, l
  <2> QED BY <1>1, SMT
<1>3. BodyStart(x) = (1 + (8 * w)) + p BY DEF BodyStart
<1>4. Len(to_bytes(x)) = BodyStart(x) + q BY BytesAre
<1> HIDE DEF p, q, l
<1>5. BodyStart(x) \in Nat BY <1>1, <1>2, <1>3, SMT
<1> QED BY <1>1, <1>2, <1>3, <1>4, <1>5, Zenon DEF p, q, l

(* when the header is read                                                 *)
LEMMA HeaderFollow == ASSUME Follow, ReadHeader PROVE Follow'
<1> DEFINE n(k) == Number(1 + (k * KBytesPerSizeT), KBytesPerSizeT)
           good == /\ Have((8 * KBytesPerSizeT) + 1) /\ buf[1] = 1
                   /\ n(0) = field_id /\ n(3) <= n(5) /\ n(4) <= n(5) /\ n(6) <= KMaxLayers
           new == [nv |-> n(1), logv |-> lg(n(1)), nc |-> n(2), logc |-> lg(n(2)),
                   npub_in |-> n(3), subfield_boundary |-> n(4), ninputs |-> n(5), l |-> <<>>]
<1>1. Inside' BY HeaderInside DEF Follow
<1>2. pc = "header" BY DEF ReadHeader
<1>3. ~good => Reject BY DEF ReadHeader
<1>4. good => /\ got' = new /\ nl' = n(6) /\ todo' = n(7) /\ pc' = "constants"
              /\ next' = 1 + (8 * KBytesPerSizeT)
              /\ UNCHANGED <<fixed, constants, table, cache, quad, prev>>
  BY DEF ReadHeader
<1>5. UNCHANGED fixed /\ pc' \in {"constants", "rejected"} BY <1>3, <1>4 DEF Reject
<1>6. Arrived' /\ (Intact' <=> Intact) BY <1>2, <1>5, StillIntact DEF Reading, Follow
<1> SUFFICES ASSUME Intact PROVE Followed' BY <1>1, <1>6 DEF Follow
<1>7. /\ IsCircuit(c) /\ Fits(Header(c) \o Body(c)) /\ buf \in Seq(Bytes)
      /\ Len(buf) >= Len(to_bytes(c)) /\ \A k \in 1..Len(to_bytes(c)) : buf[k] = to_bytes(c)[k]
  BY <1>2, IntactIs DEF Reading
<1>8. next = 0 /\ Len(buf) \in Nat BY <1>2, <1>7 DEF Follow, Inside, ReadSoFar
<1>9. Have((8 * KBytesPerSizeT) + 1)
  <2> DEFINE e == 8 * KBytesPerSizeT
  <2>1. e \in Nat BY TheBytes, SMT
  <2>2. PICK p, q, l \in Nat :
          BodyStart(c) = (1 + e) + p /\ Len(to_bytes(c)) = BodyStart(c) + q
    BY <1>7, SizesAre
  <2> HIDE DEF e
  <2>3. Len(buf) >= ((1 + e) + p) + q BY <1>7, <2>2
  <2>4. Len(buf) - 0 >= e + 1 BY <1>8, <2>1, <2>3, SMT
  <2> QED BY <1>8, <2>4 DEF e, Have
<1>10. buf[1] = 1 /\ \A i \in 1..8 : n(i - 1) = Header(c)[i] BY <1>7, ReadIs
<1> HIDE DEF n
<1>11. /\ n(0) = Header(c)[1] /\ n(1) = Header(c)[2] /\ n(2) = Header(c)[3] /\ n(3) = Header(c)[4]
       /\ n(4) = Header(c)[5] /\ n(5) = Header(c)[6] /\ n(6) = Header(c)[7] /\ n(7) = Header(c)[8]
  <2>1. /\ n(1 - 1) = Header(c)[1] /\ n(2 - 1) = Header(c)[2] /\ n(3 - 1) = Header(c)[3]
        /\ n(4 - 1) = Header(c)[4] /\ n(5 - 1) = Header(c)[5] /\ n(6 - 1) = Header(c)[6]
        /\ n(7 - 1) = Header(c)[7] /\ n(8 - 1) = Header(c)[8]
    BY <1>10
  <2>2. /\ 1 - 1 = 0 /\ 2 - 1 = 1 /\ 3 - 1 = 2 /\ 4 - 1 = 3 /\ 5 - 1 = 4 /\ 6 - 1 = 5
        /\ 7 - 1 = 6 /\ 8 - 1 = 7
    BY SMT
  <2> QED BY <2>1, <2>2
<1>12. /\ n(0) = FieldId /\ n(1) = c.nv /\ n(2) = c.nc /\ n(3) = c.npub_in
       /\ n(4) = c.subfield_boundary /\ n(5) = c.ninputs /\ n(6) = Len(c.l) /\ n(7) = Len(kvec(c))
  BY <1>7, <1>11, HeaderIs
<1>13. IsHeader(c) /\ Len(c.l) \in Nat BY <1>7, CircuitIsTyped
<1>14. c.npub_in <= c.ninputs /\ c.subfield_boundary <= c.ninputs BY <1>13 DEF IsHeader
<1>15. good <=> field_id = FieldId /\ Len(c.l) <= KMaxLayers BY <1>9, <1>10, <1>12, <1>14
<1>16. CASE good
  <2>1. new = [c EXCEPT !.l = <<>>] /\ new.l = <<>> /\ new = [c EXCEPT !.l = new.l]
    <3>1. new = [nv |-> c.nv, logv |-> lg(c.nv), nc |-> c.nc, logc |-> lg(c.nc),
                 npub_in |-> c.npub_in, subfield_boundary |-> c.subfield_boundary,
                 ninputs |-> c.ninputs, l |-> <<>>]
      BY <1>12
    <3>2. c = [nv |-> c.nv, logv |-> lg(c.nv), nc |-> c.nc, logc |-> lg(c.nc),
               npub_in |-> c.npub_in, subfield_boundary |-> c.subfield_boundary,
               ninputs |-> c.ninputs, l |-> c.l]
      BY <1>13 DEF IsHeader
    <3>3. [c EXCEPT !.l = <<>>] =
            [nv |-> c.nv, logv |-> lg(c.nv), nc |-> c.nc, logc |-> lg(c.nc),
             npub_in |-> c.npub_in, subfield_boundary |-> c.subfield_boundary,
             ninputs |-> c.ninputs, l |-> <<>>]
      BY <3>2
    <3>4. new.l = <<>> OBVIOUS
    <3> HIDE DEF new
    <3> QED BY <3>1, <3>3, <3>4
  <2> HIDE DEF new
  <2>2. /\ got' = new /\ nl' = Len(c.l) /\ todo' = Len(kvec(c)) /\ pc' = "constants"
        /\ next' = 1 + (8 * KBytesPerSizeT) /\ field_id' = field_id /\ c' = c
    BY <1>4, <1>5, <1>12, <1>16 DEF fixed
  <2>3. field_id = FieldId /\ Len(c.l) <= KMaxLayers BY <1>15, <1>16
  <2>4. Len(<<>>) <= Len(c.l) BY <1>13
  <2>5. HeaderRead' BY <2>1, <2>2, <2>3, <2>4 DEF HeaderRead
  <2> QED BY <2>1, <2>2, <2>5 DEF Followed
<1>17. CASE ~good
  <2>1. ~Readable BY <1>15, <1>17 DEF Readable
  <2>2. pc' = "rejected" /\ c' = c /\ field_id' = field_id BY <1>3, <1>5, <1>17 DEF Reject, fixed
  <2>3. ~Readable' BY <2>1, <2>2 DEF Readable
  <2> QED BY <2>2, <2>3 DEF Followed
<1> QED BY <1>16, <1>17

(* when the constants are read                                             *)
LEMMA ConstantsFollow == ASSUME Follow, ReadConstants PROVE Follow'
<1> DEFINE v(k) == Number(next + ((k - 1) * EltBytes), EltBytes)
           good == Have(todo * EltBytes) /\ \A k \in 1..todo : v(k) \in Elt
<1>1. Inside' BY ConstantsInside DEF Follow
<1>2. pc = "constants" BY DEF ReadConstants
<1>3. ~good => Reject BY DEF ReadConstants
<1>4. good => /\ constants' = [k \in 1..todo |-> v(k)] /\ todo' = 0 /\ pc' = "layer"
              /\ next' = next + (todo * EltBytes)
              /\ UNCHANGED <<fixed, got, nl, table, cache, quad, prev>>
  BY DEF ReadConstants
<1>5. UNCHANGED fixed /\ pc' \in {"layer", "rejected"} BY <1>3, <1>4 DEF Reject
<1>6. Arrived' /\ (Intact' <=> Intact) BY <1>2, <1>5, StillIntact DEF Reading, Follow
<1> SUFFICES ASSUME Intact PROVE Followed' BY <1>1, <1>6 DEF Follow
<1>7. /\ IsCircuit(c) /\ Fits(Header(c) \o Body(c)) /\ buf \in Seq(Bytes)
      /\ Len(buf) >= Len(to_bytes(c)) /\ \A k \in 1..Len(to_bytes(c)) : buf[k] = to_bytes(c)[k]
  BY <1>2, IntactIs DEF Reading
<1>8. HeaderRead /\ got.l = <<>> /\ next = 1 + (8 * KBytesPerSizeT) /\ todo = Len(kvec(c))
  BY <1>2 DEF Follow, Followed, Reading
<1>9. PICK p, q, l \in Nat :
        /\ p = todo * EltBytes
        /\ BodyStart(c) = (1 + (8 * KBytesPerSizeT)) + p /\ Len(to_bytes(c)) = BodyStart(c) + q
        /\ todo \in Nat
  BY <1>7, <1>8, SizesAre
<1>10. BodyStart(c) = next + p /\ next \in Nat /\ Len(buf) \in Nat
  <2>1. next \in Nat BY DEF Follow, Inside, FileTyped
  <2> QED BY <1>7, <1>8, <1>9, <2>1
<1>11. Have(todo * EltBytes)
  <2>1. Len(buf) >= (next + p) + q BY <1>7, <1>9, <1>10
  <2>2. Len(buf) - next >= p BY <1>10, <2>1, SMT
  <2> QED BY <1>9, <2>2 DEF Have
<1>12. \A k \in 1..todo : v(k) = kvec(c)[k]
  <2>1. \A i \in 1..Len(kvec(c)) :
          Number((1 + (8 * KBytesPerSizeT)) + ((i - 1) * EltBytes), EltBytes) = kvec(c)[i]
    BY <1>7, ReadIs
  <2> QED BY <1>8, <2>1, Zenon
<1>13. kvec(c) \in Seq(Elt) BY <1>7, KvecIs
<1>14. \A k \in 1..todo : kvec(c)[k] \in Elt BY <1>8, <1>13
<1> HIDE DEF v
<1>15. good BY <1>11, <1>12, <1>14, Zenon
<1>16. [k \in 1..todo |-> v(k)] = kvec(c)
  <2>1. kvec(c) = [k \in 1..todo |-> kvec(c)[k]] BY <1>8, <1>13
  <2> QED BY <1>12, <2>1
<1>17. /\ constants' = kvec(c) /\ pc' = "layer" /\ next' = BodyStart(c) /\ c' = c
       /\ field_id' = field_id /\ got' = got /\ nl' = nl
  <2>1. /\ constants' = [k \in 1..todo |-> v(k)] /\ pc' = "layer"
        /\ next' = next + (todo * EltBytes) /\ UNCHANGED <<fixed, got, nl>>
    BY <1>4, <1>15
  <2> QED BY <1>9, <1>10, <1>16, <2>1 DEF fixed
<1>18. HeaderRead' BY <1>8, <1>17 DEF HeaderRead
<1>19. next' = Place(At(c)[Len(got.l)])
  <2>1. Len(got.l) = 0 /\ At(c)[0] = 0 BY <1>7, <1>8, LayoutIs DEF IsLayout
  <2>2. BodyStart(c) = BodyStart(c) + (0 * KBytesPerSizeT)
    <3>1. BodyStart(c) \in Nat BY <1>9, <1>10
    <3> QED BY <3>1, TheBytes, SMT
  <2> QED BY <1>17, <2>1, <2>2 DEF Place
<1>20. 1..Len(got.l) = {} BY <1>8
<1> QED BY <1>17, <1>18, <1>19, <1>20 DEF Followed, Place

(* Places are apart by whole numbers.                                      *)
LEMMA PlaceIs ==
  ASSUME IsCircuit(c), NEW a \in Nat, NEW n \in Nat
  PROVE  Place(a) + (n * KBytesPerSizeT) = Place(a + n)
<1> DEFINE s == BodyStart(c)   w == KBytesPerSizeT
<1>1. s \in Nat /\ w \in Nat
  <2>1. s \in Nat BY SizesAre
  <2> QED BY <2>1, TheBytes
<1> HIDE DEF s, w
<1>2. (a + n) * w = (a * w) + (n * w) /\ a * w \in Nat /\ n * w \in Nat BY <1>1, SMT
<1> DEFINE e == a * w   f == n * w
<1>3. e \in Nat /\ f \in Nat /\ (a + n) * w = e + f BY <1>2
<1> HIDE DEF e, f
<1>4. (s + e) + f = s + ((a + n) * w) BY <1>1, <1>3, SMT
<1> QED BY <1>4 DEF Place, s, w, e, f

(* when the sizes of a layer are read                                      *)
LEMMA LayerFollow == ASSUME Follow, ReadLayer PROVE Follow'
<1> DEFINE nq == read_num(2)
           w == read_num(1)
           lw == read_num(0)
           good == /\ Have(3 * KBytesPerSizeT) /\ lw <= KMaxBindings
                   /\ w > 0 /\ nq > 0 /\ Have((3 + (4 * nq)) * KBytesPerSizeT)
           new == [logw |-> lw, nw |-> w, quad |-> <<>>]
<1>1. Inside' BY LayerInside DEF Follow
<1>2. pc = "layer" /\ Len(got.l) < nl BY DEF ReadLayer
<1>3. ~good => Reject BY DEF ReadLayer
<1>4. good => /\ got' = [got EXCEPT !.l = Append(got.l, new)]
              /\ todo' = nq /\ quad' = <<>> /\ prev' = Origin
              /\ next' = next + (3 * KBytesPerSizeT) /\ pc' = "term"
              /\ UNCHANGED <<fixed, nl, constants, table, cache>>
  BY DEF ReadLayer
<1>5. UNCHANGED fixed /\ pc' \in {"term", "rejected"} BY <1>3, <1>4 DEF Reject
<1>6. Arrived' /\ (Intact' <=> Intact) BY <1>2, <1>5, StillIntact DEF Reading, Follow
<1> SUFFICES ASSUME Intact PROVE Followed' BY <1>1, <1>6 DEF Follow
<1>7. /\ IsCircuit(c) /\ Fits(Header(c) \o Body(c)) /\ buf \in Seq(Bytes)
      /\ Len(buf) >= Len(to_bytes(c)) /\ \A j \in 1..Len(to_bytes(c)) : buf[j] = to_bytes(c)[j]
  BY <1>2, IntactIs DEF Reading
<1>9. IsRead(got) BY <1>2 DEF Follow, Inside, ReadSoFar
<1>21. PICK m \in Nat : m = Len(got.l)
  <2>1. Len(got.l) \in Nat BY <1>9 DEF IsRead
  <2> QED BY <2>1
<1>22. PICK k \in Nat : k = m + 1 OBVIOUS
<1> DEFINE q == c.l[k].quad
           n == Len(q)
           a == At(c)[m]
<1>8. /\ HeaderRead /\ constants = kvec(c) /\ next = Place(a) /\ \A j \in 1..m : ReadAlike(j)
  BY <1>2, <1>21 DEF Follow, Followed, Reading
<1>10. m \in Nat /\ Len(c.l) \in Nat /\ k \in 1..Len(c.l) /\ k - 1 = m
  <2>1. Len(c.l) \in Nat /\ nl = Len(c.l) BY <1>7, <1>8, CircuitIsTyped DEF HeaderRead
  <2> QED BY <1>2, <1>21, <1>22, <2>1, SMT
<1>11. /\ a \in Nat /\ At(c)[k] = a + 3 + (4 * n) /\ At(c)[k] <= Len(Body(c))
       /\ n \in Nat /\ Len(Body(c)) \in Nat
       /\ Body(c)[a + 1] = c.l[k].logw /\ Body(c)[a + 2] = c.l[k].nw /\ Body(c)[a + 3] = n
  BY <1>7, <1>10, LayersAre
<1>12. /\ c.l[k].nw > 0 /\ c.l[k].nw \in Nat /\ c.l[k].logw \in Nat /\ n > 0 /\ c.l[k] \in Layer
  BY <1>7, <1>10, CircuitIsTyped
<1> HIDE DEF a, n
<1>13. a + (3 + (4 * n)) <= Len(Body(c)) /\ a + 3 <= Len(Body(c))
  <2> DEFINE l == Len(Body(c))
  <2>1. l \in Nat /\ a + 3 + (4 * n) <= l BY <1>11
  <2> HIDE DEF l
  <2>2. a + (3 + (4 * n)) <= l /\ a + 3 <= l BY <1>11, <2>1, SMT
  <2> QED BY <2>2 DEF l
<1>14. next = BodyStart(c) + (a * KBytesPerSizeT) BY <1>8 DEF Place
<1>15. Have(3 * KBytesPerSizeT) /\ \A i \in 0..(3 - 1) : read_num(i) = Body(c)[(a + i) + 1]
  <2>1. 3 \in Nat OBVIOUS
  <2> QED BY <1>7, <1>11, <1>13, <1>14, <2>1, BodyReads
<1>16. Have((3 + (4 * n)) * KBytesPerSizeT)
  <2> DEFINE e == 3 + (4 * n)
  <2>1. e \in Nat /\ a + e <= Len(Body(c)) BY <1>11, <1>13, SMT
  <2> HIDE DEF e
  <2>2. Have(e * KBytesPerSizeT) BY <1>7, <1>11, <1>14, <2>1, BodyReads
  <2> QED BY <2>2 DEF e
<1>17. lw = c.l[k].logw /\ w = c.l[k].nw /\ nq = n
  <2>1. 0 \in 0..(3 - 1) /\ 1 \in 0..(3 - 1) /\ 2 \in 0..(3 - 1) BY SMT
  <2>2. lw = Body(c)[(a + 0) + 1] /\ w = Body(c)[(a + 1) + 1] /\ nq = Body(c)[(a + 2) + 1]
    BY <1>15, <2>1
  <2>3. (a + 0) + 1 = a + 1 /\ (a + 1) + 1 = a + 2 /\ (a + 2) + 1 = a + 3 BY <1>11, SMT
  <2> QED BY <1>11, <2>2, <2>3
<1> HIDE DEF lw, w, nq
<1>18. good <=> c.l[k].logw <= KMaxBindings BY <1>12, <1>15, <1>16, <1>17
<1>19. CASE good
  <2>1. /\ got' = [got EXCEPT !.l = Append(got.l, new)] /\ todo' = n /\ quad' = <<>>
        /\ prev' = Origin /\ next' = next + (3 * KBytesPerSizeT) /\ pc' = "term"
        /\ UNCHANGED <<fixed, nl, constants, table, cache>>
    BY <1>4, <1>17, <1>19
  <2>2. c' = c /\ field_id' = field_id /\ nl' = nl /\ constants' = constants BY <2>1 DEF fixed
  <2>3. new = [c.l[k] EXCEPT !.quad = <<>>] /\ new \in Layer
    <3>1. new = [logw |-> c.l[k].logw, nw |-> c.l[k].nw, quad |-> <<>>] BY <1>17
    <3>2. new \in Layer BY <1>12, <3>1 DEF Layer
    <3> HIDE DEF new
    <3> QED BY <1>12, <3>1, <3>2 DEF Layer
  <2> HIDE DEF new
  <2> DEFINE l == Append(got.l, new)
  <2>4. /\ l \in Seq(Layer) /\ Len(l) = k /\ l[k] = new /\ \A j \in 1..m : l[j] = got.l[j]
    <3>1. got.l \in Seq(Layer) BY <1>9 DEF IsRead
    <3>2. Len(l) = Len(got.l) + 1 /\ l[Len(got.l) + 1] = new /\ l \in Seq(Layer)
          /\ \A j \in 1..Len(got.l) : l[j] = got.l[j]
      BY <2>3, <3>1
    <3> HIDE DEF l
    <3> QED BY <1>21, <1>22, <3>2
  <2> HIDE DEF l
  <2>5. got'.l = l /\ got' = [c EXCEPT !.l = l]
    <3>1. got = [c EXCEPT !.l = got.l] BY <1>8 DEF HeaderRead
    <3>2. IsHeader(got) BY <1>9 DEF IsRead
    <3>3. got' = [got EXCEPT !.l = l] BY <2>1 DEF l
    <3>6. got' = WithLayers(got, l) BY <3>3 DEF WithLayers
    <3>7. HasLayers(got', got, l) BY <3>2, <3>6, LayersReplaced
    <3>4. got'.l = l BY <3>7 DEF HasLayers
    <3>5. [got EXCEPT !.l = l] = [c EXCEPT !.l = l] BY <3>1
    <3> QED BY <3>3, <3>4, <3>5
  <2>6. HeaderRead'
    <3>1. field_id = FieldId /\ Len(c.l) <= KMaxLayers /\ nl = Len(c.l) BY <1>8 DEF HeaderRead
    <3>2. k <= Len(c.l) BY <1>10
    <3> QED BY <2>2, <2>4, <2>5, <3>1, <3>2 DEF HeaderRead
  <2>7. next' = Place(a + 3)
    <3>1. 3 \in Nat OBVIOUS
    <3> QED BY <1>7, <1>8, <1>11, <2>1, <3>1, PlaceIs
  <2>8. TermsRead(q)'
    <3>1. Len(got'.l) - 1 = m BY <1>10, <2>4, <2>5
    <3>2. Len(quad') = 0 /\ 1..Len(quad') = {} BY <2>1
    <3>3. 0 + n = n /\ (a + 3) + (4 * 0) = a + 3 BY <1>11, SMT
    <3>4. next' = Place(At(c)[Len(got'.l) - 1] + 3 + (4 * Len(quad')))
      <4>1. next' = Place((a + 3) + (4 * 0)) BY <2>7, <3>3
      <4> QED BY <3>1, <3>2, <4>1 DEF a
    <3>5. prev' = AsPrev(Prior(q, 0 + 1)) BY <2>1 DEF AsPrev, Prior, Origin
    <3>6. Len(quad') + todo' = Len(q) BY <2>1, <3>2, <3>3 DEF n
    <3> QED BY <2>2, <3>2, <3>4, <3>5, <3>6 DEF TermsRead, Place
  <2>9. \A j \in 1..m : ReadAlike(j)'
    <3>1. ASSUME NEW j \in 1..m PROVE ReadAlike(j)'
      <4>1. ReadAlike(j) BY <1>8
      <4> QED BY <2>2, <2>4, <2>5, <4>1 DEF ReadAlike
    <3> QED BY <3>1
  <2>10. Len(got'.l) = k /\ k > 0 /\ pc' = "term" /\ c.l[k].logw <= KMaxBindings
    BY <1>10, <1>18, <1>19, <2>1, <2>4, <2>5
  <2>11. got'.l[k] = [c'.l[k] EXCEPT !.quad = <<>>] /\ c'.l[k].logw <= KMaxBindings
    BY <2>2, <2>3, <2>4, <2>5, <2>10
  <2>12. \A j \in 1..(k - 1) : ReadAlike(j)' BY <1>10, <2>9
  <2>13. HeaderRead' /\ constants' = kvec(c') BY <1>8, <2>2, <2>6
  <2> HIDE DEF q
  <2> QED BY <2>8, <2>10, <2>11, <2>12, <2>13 DEF Followed, q
<1>20. CASE ~good
  <2>1. ~Readable BY <1>10, <1>18, <1>20 DEF Readable
  <2>2. pc' = "rejected" /\ c' = c /\ field_id' = field_id BY <1>3, <1>5, <1>20 DEF Reject, fixed
  <2>3. ~Readable' BY <2>1, <2>2 DEF Readable
  <2> QED BY <2>2, <2>3 DEF Followed
<1> QED BY <1>19, <1>20

(* when a term is read                                                     *)
LEMMA TermFollow == ASSUME Follow, ReadTerm PROVE Follow'
<1> DEFINE g == read_index(read_num(0), prev.g)
           hl == read_index(read_num(1), prev.hl)
           hr == read_index(read_num(2), prev.hr)
           vi == read_num(3)
           r == dedup([g |-> Wrap(g + (SizeMax - prev.g)), vi |-> vi,
                       h |-> <<Wrap(hl + (SizeMax - prev.hl)), Wrap(hr + (SizeMax - prev.hr))>>])
           good == g < max_g /\ hl < nw /\ hr < nw /\ vi < Len(constants)
<1>1. Inside' BY TermInside DEF Follow
<1>2. pc = "term" /\ todo > 0 BY DEF ReadTerm
<1>3. ~good => Reject BY DEF ReadTerm
<1>4. good => /\ quad' = Append(quad, r.index) /\ table' = r.table /\ cache' = r.cache
              /\ prev' = [g |-> g, hl |-> hl, hr |-> hr]
              /\ todo' = todo - 1 /\ next' = next + (4 * KBytesPerSizeT)
              /\ UNCHANGED <<fixed, pc, got, nl, constants>>
  BY DEF ReadTerm
<1>5. UNCHANGED fixed /\ pc' \in {"term", "rejected"} BY <1>2, <1>3, <1>4 DEF Reject
<1>6. Arrived' /\ (Intact' <=> Intact) BY <1>2, <1>5, StillIntact DEF Reading, Follow
<1> SUFFICES ASSUME Intact PROVE Followed' BY <1>1, <1>6 DEF Follow
<1>7. /\ IsCircuit(c) /\ IsRead(c) /\ Fits(Header(c) \o Body(c)) /\ buf \in Seq(Bytes)
      /\ Len(buf) >= Len(to_bytes(c)) /\ \A j \in 1..Len(to_bytes(c)) : buf[j] = to_bytes(c)[j]
  BY <1>2, IntactIs DEF Reading
<1>8. /\ IsRead(got) /\ todo \in Nat /\ quad \in Seq(Nat) /\ constants \in Seq(Elt)
      /\ table \in Seq(Delta) /\ IsCache(cache, table) /\ Len(quad) \in Nat
  BY <1>2 DEF Follow, Inside, FileTyped, ReadSoFar, InTerm
<1>9. PICK m \in Nat : m = Len(got.l)
  <2>1. Len(got.l) \in Nat BY <1>8 DEF IsRead
  <2> QED BY <2>1
<1> DEFINE q == c.l[m].quad
           a == At(c)[m - 1]
<1>10. /\ HeaderRead /\ constants = kvec(c) /\ \A k \in 1..(m - 1) : ReadAlike(k)
       /\ m > 0 /\ got.l[m] = [c.l[m] EXCEPT !.quad = <<>>] /\ c.l[m].logw <= KMaxBindings
       /\ TermsRead(q)
  BY <1>2, <1>9 DEF Follow, Followed, Reading
<1>11. m \in 1..Len(c.l)
  <2>1. m <= Len(c.l) /\ Len(c.l) \in Nat BY <1>7, <1>9, <1>10, CircuitIsTyped DEF HeaderRead
  <2> QED BY <1>10, <2>1, SMT
<1>12. /\ q \in Seq(Corner) /\ Len(q) \in Nat /\ a \in Nat BY <1>7, <1>11, CircuitIsTyped, LayersAre
<1>13. PICK n \in Nat : n = Len(quad) + 1 BY <1>8
<1>14. n \in 1..Len(q) /\ n - 1 = Len(quad)
  <2>1. Len(quad) + todo = Len(q) BY <1>10 DEF TermsRead
  <2> HIDE DEF q
  <2> QED BY <1>2, <1>8, <1>12, <1>13, <2>1, SMT
<1>15. /\ \A k \in 1..Len(quad) : AddsTerm(q, k, quad, table, constants)
       /\ next = Place(a + 3 + (4 * (n - 1))) /\ prev = AsPrev(Prior(q, n))
  BY <1>9, <1>10, <1>13, <1>14 DEF TermsRead
<1>18. PICK b : b = a + 3 + (4 * (n - 1)) OBVIOUS
<1>16. /\ b \in Nat /\ b + 4 <= Len(Body(c))
       /\ Body(c)[b + 1] = Index(q[n].g, Prior(q, n).g)
       /\ Body(c)[b + 2] = Index(q[n].h[1], Prior(q, n).h[1])
       /\ Body(c)[b + 3] = Index(q[n].h[2], Prior(q, n).h[2])
       /\ Body(c)[b + 4] = kload(c, q[n].v)
  <2>1. m \in 1..Len(c.l) /\ q = c.l[m].quad /\ n \in 1..Len(q) BY <1>11, <1>14
  <2>2. b = At(c)[m - 1] + 3 + (4 * (n - 1)) BY <1>18
  <2>3. IsCircuit(c) BY <1>7
  <2> HIDE DEF q, a
  <2>4. IsRowAt(c, q, n, b) BY <2>1, <2>2, <2>3, RowInBody, Zenon
  <2> QED BY <2>4 DEF IsRowAt
<1>17. InRange(c, m, q[n]) /\ InCorners(q[n]) /\ InCorners(Prior(q, n))
  BY <1>7, <1>11, <1>14, WrittenInCorners
<1>19. /\ kload(c, q[n].v) \in Nat /\ kload(c, q[n].v) < Len(kvec(c))
       /\ kvec(c)[kload(c, q[n].v) + 1] = q[n].v
  BY <1>7, <1>11, <1>14, KloadIs
<1> HIDE DEF a, q
<1>20. b + 4 = a + 3 + (4 * n) BY <1>12, <1>13, <1>18, SMT
<1>21. /\ read_num(0) = Body(c)[b + 1] /\ read_num(1) = Body(c)[b + 2]
       /\ read_num(2) = Body(c)[b + 3] /\ read_num(3) = Body(c)[b + 4]
  <2>1. next = BodyStart(c) + (b * KBytesPerSizeT) BY <1>15, <1>18 DEF Place
  <2>2. 4 \in Nat OBVIOUS
  <2>3. \A i \in 0..(4 - 1) : read_num(i) = Body(c)[(b + i) + 1]
    BY <1>7, <1>16, <2>1, <2>2, BodyReads
  <2>4. 0 \in 0..(4 - 1) /\ 1 \in 0..(4 - 1) /\ 2 \in 0..(4 - 1) /\ 3 \in 0..(4 - 1) BY SMT
  <2>5. (b + 0) + 1 = b + 1 /\ (b + 1) + 1 = b + 2 /\ (b + 2) + 1 = b + 3 /\ (b + 3) + 1 = b + 4
    BY <1>16, SMT
  <2>6. /\ read_num(0) = Body(c)[(b + 0) + 1] /\ read_num(1) = Body(c)[(b + 1) + 1]
        /\ read_num(2) = Body(c)[(b + 2) + 1] /\ read_num(3) = Body(c)[(b + 3) + 1]
    BY <2>3, <2>4
  <2> QED BY <2>5, <2>6
<1>22. /\ q[n].g \in Nat /\ q[n].h[1] \in Nat /\ q[n].h[2] \in Nat /\ q[n].h = <<q[n].h[1], q[n].h[2]>>
       /\ Prior(q, n).g \in Nat /\ Prior(q, n).h[1] \in Nat /\ Prior(q, n).h[2] \in Nat
  BY <1>12, <1>14, PriorIs
<1>23. /\ prev.g = Prior(q, n).g /\ prev.hl = Prior(q, n).h[1] /\ prev.hr = Prior(q, n).h[2]
  BY <1>15 DEF AsPrev
<1>24. g = q[n].g /\ hl = q[n].h[1] /\ hr = q[n].h[2] /\ vi = kload(c, q[n].v)
  <2>1. /\ q[n].g < Corners /\ q[n].h[1] < Corners /\ q[n].h[2] < Corners
        /\ Prior(q, n).g < Corners /\ Prior(q, n).h[1] < Corners /\ Prior(q, n).h[2] < Corners
    BY <1>17 DEF InCorners
  <2>2. /\ read_index(Index(q[n].g, Prior(q, n).g), Prior(q, n).g) = q[n].g
        /\ read_index(Index(q[n].h[1], Prior(q, n).h[1]), Prior(q, n).h[1]) = q[n].h[1]
        /\ read_index(Index(q[n].h[2], Prior(q, n).h[2]), Prior(q, n).h[2]) = q[n].h[2]
    BY <1>22, <2>1, IndexReadsBack
  <2> QED BY <1>16, <1>21, <1>23, <2>2
<1>25. r = dedup([g |-> Wrap(g + (SizeMax - prev.g)), vi |-> vi,
                  h |-> <<Wrap(hl + (SizeMax - prev.hl)), Wrap(hr + (SizeMax - prev.hr))>>])
  OBVIOUS
<1>26. prev' = [g |-> g, hl |-> hl, hr |-> hr] => prev' = AsPrev(q[n]) BY <1>24 DEF AsPrev
<1> HIDE DEF g, hl, hr, vi, r
<1>27. max_g = Outputs(c, m) /\ nw = c.l[m].nw
  <2>1. c.l[m] \in Layer BY <1>7, <1>11, CircuitIsTyped
  <2>2. got.l[m].nw = c.l[m].nw BY <1>10, <2>1 DEF Layer
  <2>3. got.nv = c.nv
    <3>1. IsHeader(c) /\ got = [c EXCEPT !.l = got.l] BY <1>7, <1>10 DEF HeaderRead, IsRead
    <3>2. PICK z : z = got.l OBVIOUS
    <3>4. got = WithLayers(c, z) BY <3>1, <3>2 DEF WithLayers
    <3>5. HasLayers(got, c, z) BY <3>1, <3>4, LayersReplaced
    <3>3. got.nv = c.nv BY <3>5 DEF HasLayers
    <3> QED BY <3>1, <3>2, <3>3
  <2>4. m # 1 => got.l[m - 1] = c.l[m - 1]
    <3>1. m # 1 => m - 1 \in 1..(m - 1) BY <1>10, SMT
    <3> QED BY <1>10, <3>1 DEF ReadAlike
  <2> QED BY <1>9, <2>2, <2>3, <2>4 DEF max_g, nw, ly, Outputs
<1>28. good
  <2>1. q[n].g < Outputs(c, m) /\ q[n].h[1] < c.l[m].nw /\ q[n].h[2] < c.l[m].nw
    BY <1>17 DEF InRange
  <2> QED BY <1>10, <1>19, <1>24, <1>27, <2>1
<1>29. r = dedup(DeltaTo(q[n], prev, vi)) BY <1>24, <1>25 DEF DeltaTo
<1>30. /\ Append(quad, r.index) \in Seq(Nat) /\ Len(Append(quad, r.index)) = n
       /\ \A k \in 1..n : AddsTerm(q, k, Append(quad, r.index), r.table, constants)
  <2>1. vi \in Nat /\ vi < Len(constants) /\ q[n].v = constants[vi + 1] BY <1>10, <1>19, <1>24
  <2>2. n = Len(quad) + 1 BY <1>13
  <2>3. InCorners(q[n]) /\ InCorners(Prior(q, n)) /\ prev = AsPrev(Prior(q, n)) BY <1>15, <1>17
  <2>4. AllAdd(q, Len(quad), quad, table, constants) BY <1>15 DEF AllAdd
  <2>5. table \in Seq(Delta) /\ IsCache(cache, table) /\ quad \in Seq(Nat) /\ constants \in Seq(Elt)
    BY <1>8
  <2>6. q \in Seq(Corner) /\ n \in 1..Len(q) BY <1>12, <1>14
  <2>7. IsAdded(r, q, n, Append(quad, r.index), constants)
    BY <1>29, <2>1, <2>2, <2>3, <2>4, <2>5, <2>6, TermIs
  <2> QED BY <2>7 DEF IsAdded, AllAdd
<1>31. /\ quad' = Append(quad, r.index) /\ table' = r.table /\ prev' = AsPrev(q[n])
       /\ todo' = todo - 1 /\ next' = next + (4 * KBytesPerSizeT) /\ pc' = "term"
       /\ c' = c /\ field_id' = field_id /\ got' = got /\ nl' = nl /\ constants' = constants
  BY <1>2, <1>4, <1>26, <1>28 DEF fixed
<1>32. next' = Place(a + 3 + (4 * n))
  <2>1. next = Place(b) /\ 4 \in Nat BY <1>15, <1>18
  <2>2. next' = Place(b + 4) BY <1>7, <1>16, <1>31, <2>1, PlaceIs
  <2> QED BY <1>20, <2>2
<1>33. prev' = AsPrev(Prior(q, n + 1))
  <2>1. n + 1 # 1 /\ (n + 1) - 1 = n BY <1>14, SMT
  <2>2. Prior(q, n + 1) = q[n] BY <2>1 DEF Prior
  <2> QED BY <1>31, <2>2
<1>34. TermsRead(q)'
  <2>1. Len(quad') = n BY <1>30, <1>31
  <2>2. n + todo' = Len(q)
    <3>1. Len(quad) + todo = Len(q) BY <1>10 DEF TermsRead
    <3>2. \A x, y, z \in Nat : x + y = z => (x + 1) + (y - 1) = z BY SMT
    <3> QED BY <1>8, <1>12, <1>13, <1>31, <3>1, <3>2
  <2>3. q' = q BY <1>31 DEF q
  <2>4. next' = Place(At(c)[Len(got.l) - 1] + 3 + (4 * Len(quad'))) BY <1>9, <1>32, <2>1 DEF a
  <2>5. \A k \in 1..Len(quad') : AddsTerm(q, k, quad', table', constants') BY <1>30, <1>31, <2>1
  <2> QED BY <1>31, <1>33, <2>1, <2>2, <2>3, <2>4, <2>5 DEF TermsRead, Place
<1>35. HeaderRead' /\ constants' = kvec(c') /\ \A k \in 1..(m - 1) : ReadAlike(k)'
  BY <1>10, <1>31 DEF HeaderRead, ReadAlike
<1>36. /\ Len(got'.l) = m /\ got'.l[m] = [c'.l[m] EXCEPT !.quad = <<>>]
       /\ c'.l[m].logw <= KMaxBindings /\ m > 0
  BY <1>9, <1>10, <1>31
<1> QED BY <1>31, <1>34, <1>35, <1>36 DEF Followed, q

(* when the terms of a layer are complete                                  *)
LEMMA EndLayerFollow == ASSUME Follow, EndLayer PROVE Follow'
<1>1. Inside' BY EndLayerInside DEF Follow
<1>2. /\ pc = "term" /\ todo = 0 /\ pc' = "layer"
      /\ UNCHANGED <<fixed, next, nl, constants, table, cache, todo, quad, prev>>
  BY DEF EndLayer
<1>3. Arrived' /\ (Intact' <=> Intact) BY <1>2, StillIntact DEF Reading, Follow
<1> SUFFICES ASSUME Intact PROVE Followed' BY <1>1, <1>3 DEF Follow
<1>4. IsCircuit(c) BY <1>2, IntactIs DEF Reading
<1>5. IsRead(got) /\ quad \in Seq(Nat) /\ Len(quad) \in Nat
  BY <1>2 DEF Follow, Inside, FileTyped, ReadSoFar, InTerm
<1>6. PICK m \in Nat : m = Len(got.l)
  <2>1. Len(got.l) \in Nat BY <1>5 DEF IsRead
  <2> QED BY <2>1
<1> DEFINE q == c.l[m].quad
           a == At(c)[m - 1]
<1>7. /\ HeaderRead /\ constants = kvec(c) /\ \A k \in 1..(m - 1) : ReadAlike(k)
      /\ m > 0 /\ got.l[m] = [c.l[m] EXCEPT !.quad = <<>>] /\ c.l[m].logw <= KMaxBindings
      /\ TermsRead(q)
  BY <1>2, <1>6 DEF Follow, Followed, Reading
<1>8. m \in 1..Len(c.l) /\ m \in 1..Len(got.l)
  <2>1. m <= Len(c.l) /\ Len(c.l) \in Nat BY <1>4, <1>6, <1>7, CircuitIsTyped DEF HeaderRead
  <2> QED BY <1>6, <1>7, <2>1, SMT
<1>9. q \in Seq(Corner) /\ Len(q) \in Nat /\ a \in Nat /\ At(c)[m] = a + 3 + (4 * Len(q))
  BY <1>4, <1>8, CircuitIsTyped, LayersAre
<1>10. /\ Len(quad) = Len(q) /\ next = Place(a + 3 + (4 * Len(quad)))
       /\ \A k \in 1..Len(quad) : AddsTerm(q, k, quad, table, constants)
  BY <1>2, <1>5, <1>6, <1>7 DEF TermsRead
<1>11. iterate(Deltas) = q
  <2> HIDE DEF q
  <2> QED BY <1>5, <1>9, <1>10, DeltasAre
<1>12. got' = [got EXCEPT !.l[m].quad = q] BY <1>6, <1>11 DEF EndLayer, ly
<1>13. /\ got' = [got EXCEPT !.l = got'.l] /\ Len(got'.l) = m
       /\ got'.l[m] = [nw |-> got.l[m].nw, logw |-> got.l[m].logw, quad |-> q]
       /\ \A k \in 1..m : k # m => got'.l[k] = got.l[k]
  <2>1. q \in Seq(Corner) BY <1>9
  <2> HIDE DEF q
  <2>2. IsRead(got) /\ m \in 1..Len(got.l) /\ IsHeader(got) BY <1>5, <1>8 DEF IsRead
  <2>3. /\ Len(got'.l) = Len(got.l)
        /\ got'.l[m] = [nw |-> got.l[m].nw, logw |-> got.l[m].logw, quad |-> q]
        /\ \A k \in 1..Len(got.l) : k # m => got'.l[k] = got.l[k]
    <3>1. got' = WithTerms(got, m, q) BY <1>12 DEF WithTerms
    <3>2. HasTerms(got', got, m, q) BY <2>1, <2>2, <3>1, QuadReplaced
    <3> QED BY <3>2 DEF HasTerms
  <2>4. got' = [got EXCEPT !.l = got'.l]
    <3>1. PICK z : z = [got.l EXCEPT ![m] = [got.l[m] EXCEPT !.quad = q]] OBVIOUS
    <3>2. got' = [got EXCEPT !.l = z] BY <1>12, <3>1
    <3>4. got' = WithLayers(got, z) BY <3>2 DEF WithLayers
    <3>5. HasLayers(got', got, z) BY <2>2, <3>4, LayersReplaced
    <3>3. got'.l = z BY <3>5 DEF HasLayers
    <3> QED BY <3>2, <3>3
  <2> QED BY <1>6, <2>3, <2>4
<1>14. got'.l[m] = c.l[m]
  <2>1. c.l[m] \in Layer BY <1>4, <1>8, CircuitIsTyped
  <2> DEFINE y == c.l[m]
  <2>2. got.l[m] = [y EXCEPT !.quad = <<>>] /\ y \in Layer BY <1>7, <2>1
  <2>3. got'.l[m] = [nw |-> got.l[m].nw, logw |-> got.l[m].logw, quad |-> y.quad] BY <1>13
  <2> HIDE DEF y
  <2>4. got.l[m].nw = y.nw /\ got.l[m].logw = y.logw BY <2>2 DEF Layer
  <2>5. y = [nw |-> y.nw, logw |-> y.logw, quad |-> y.quad] BY <2>2 DEF Layer
  <2>6. got'.l[m] = y BY <2>3, <2>4, <2>5
  <2> QED BY <2>6 DEF y
<1> HIDE DEF q
<1>15. c' = c /\ field_id' = field_id /\ nl' = nl /\ constants' = constants /\ next' = next
  BY <1>2 DEF fixed
<1>16. \A k \in 1..m : ReadAlike(k)'
  <2>1. ASSUME NEW k \in 1..m PROVE ReadAlike(k)'
    <3>1. CASE k = m BY <1>7, <1>14, <1>15, <3>1 DEF ReadAlike
    <3>2. CASE k # m
      <4>1. k \in 1..(m - 1) BY <3>2, SMT
      <4>2. ReadAlike(k) BY <1>7, <4>1
      <4> QED BY <1>13, <1>15, <3>2, <4>2 DEF ReadAlike
    <3> QED BY <3>1, <3>2
  <2> QED BY <2>1
<1>17. HeaderRead'
  <2>1. /\ field_id = FieldId /\ Len(c.l) <= KMaxLayers /\ nl = Len(c.l) /\ Len(got.l) <= Len(c.l)
        /\ got = [c EXCEPT !.l = got.l]
    BY <1>7 DEF HeaderRead
  <2>2. got' = [c EXCEPT !.l = got'.l]
    <3>1. PICK x, z : x = got.l /\ z = got'.l OBVIOUS
    <3>2. got = [c EXCEPT !.l = x] /\ got' = [got EXCEPT !.l = z] BY <1>13, <2>1, <3>1
    <3>3. got' = [c EXCEPT !.l = z] BY <3>2
    <3> QED BY <3>1, <3>3
  <2> QED BY <1>6, <1>13, <1>15, <2>1, <2>2 DEF HeaderRead
<1>18. next' = (Place(At(c)[Len(got.l)]))'
  <2>1. next' = Place(At(c)[m]) BY <1>9, <1>10, <1>15
  <2> QED BY <1>13, <1>15, <2>1 DEF Place
<1> QED BY <1>2, <1>7, <1>13, <1>15, <1>16, <1>17, <1>18 DEF Followed

(* when the circuit is complete                                            *)
LEMMA IdFollow == ASSUME Follow, ReadId PROVE Follow'
<1> DEFINE good == Have(KIdSize) /\ (enforce => IdIsOf(got))
<1>1. Inside' BY IdInside DEF Follow
<1>2. pc = "layer" /\ Len(got.l) = nl BY DEF ReadId
<1>3. ~good => Reject BY DEF ReadId
<1>4. good => /\ pc' = "accepted" /\ next' = next + KIdSize
              /\ UNCHANGED <<fixed, got, nl, constants, table, cache, todo, quad, prev>>
  BY DEF ReadId
<1>5. UNCHANGED fixed /\ pc' \in {"accepted", "rejected"} BY <1>3, <1>4 DEF Reject
<1>6. Arrived' /\ (Intact' <=> Intact) BY <1>2, <1>5, StillIntact DEF Reading, Follow
<1> SUFFICES ASSUME Intact PROVE Followed' BY <1>1, <1>6 DEF Follow
<1>7. IsCircuit(c) /\ buf \in Seq(Bytes) /\ Len(buf) >= Len(to_bytes(c)) + KIdSize
  BY <1>2, IntactIs DEF Reading
<1>8. /\ HeaderRead /\ next = Place(At(c)[Len(got.l)]) /\ \A k \in 1..Len(got.l) : ReadAlike(k)
  BY <1>2 DEF Follow, Followed, Reading
<1>9. IsRead(got) BY <1>2 DEF Follow, Inside, ReadSoFar
<1>10. /\ field_id = FieldId /\ Len(c.l) <= KMaxLayers /\ Len(got.l) = Len(c.l)
       /\ got = [c EXCEPT !.l = got.l]
  BY <1>2, <1>8 DEF HeaderRead
<1>11. IsHeader(c) /\ c.l \in Seq(Layer) /\ got.l \in Seq(Layer) BY <1>7, <1>9 DEF IsCircuit, IsRead
<1>12. got = c
  <2>1. \A k \in 1..Len(c.l) : got.l[k] = c.l[k] BY <1>8, <1>10 DEF ReadAlike
  <2>2. L!IsSeq(c.l) /\ L!IsSeq(got.l) BY <1>11 DEF L!IsSeq
  <2>3. got.l = c.l BY <1>10, <2>1, <2>2, L!SequenceEquality
  <2>4. c = [nv |-> c.nv, logv |-> lg(c.nv), nc |-> c.nc, logc |-> lg(c.nc),
             npub_in |-> c.npub_in, subfield_boundary |-> c.subfield_boundary,
             ninputs |-> c.ninputs, l |-> c.l]
    BY <1>11 DEF IsHeader
  <2>5. got = [c EXCEPT !.l = c.l] BY <1>10, <2>3
  <2>6. [c EXCEPT !.l = c.l] = c BY <2>4
  <2> QED BY <2>5, <2>6
<1>13. Readable
  <2>1. \A k \in 1..Len(c.l) : c.l[k].logw <= KMaxBindings BY <1>8, <1>10 DEF ReadAlike
  <2> QED BY <1>10, <2>1 DEF Readable
<1>14. next = Len(to_bytes(c))
  <2>1. At(c)[Len(c.l)] = Len(Body(c)) BY <1>7, LayoutIs DEF IsLayout
  <2>2. next = BodyStart(c) + (Len(Body(c)) * KBytesPerSizeT) BY <1>8, <1>10, <2>1 DEF Place
  <2>3. PICK p, q, l \in Nat :
          l = Len(Body(c)) /\ q = l * KBytesPerSizeT /\ Len(to_bytes(c)) = BodyStart(c) + q
    BY <1>7, SizesAre
  <2> QED BY <2>2, <2>3
<1>15. good
  <2>1. Len(buf) \in Nat /\ Len(to_bytes(c)) \in Nat /\ KIdSize \in Nat
    <3>1. to_bytes(c) \in Seq(Bytes) BY <1>7, BytesAre
    <3> QED BY <1>7, <3>1, TheBytes
  <2>2. Len(buf) - next >= KIdSize BY <1>7, <1>14, <2>1, SMT
  <2>3. IdIsOf(got) BY <1>10, <1>12, <1>14 DEF IdIsOf, Intact
  <2> QED BY <2>2, <2>3 DEF Have
<1>16. /\ pc' = "accepted" /\ next' = Len(to_bytes(c)) + KIdSize /\ got' = c /\ c' = c
       /\ field_id' = field_id
  BY <1>4, <1>12, <1>14, <1>15 DEF fixed
<1>17. Readable' BY <1>13, <1>16 DEF Readable
<1> QED BY <1>16, <1>17 DEF Followed

(* Intact bytes are followed to the end.                                   *)
THEOREM FollowHolds == FileSpec => []Follow
<1>1. FileInit => Follow BY InitFollow
<1>2. Follow /\ [FileNext]_fileVars => Follow'
  <2> SUFFICES ASSUME Follow, [FileNext]_fileVars PROVE Follow' OBVIOUS
  <2>1. CASE UNCHANGED fileVars
    BY <2>1 DEF fileVars, Follow, Arrived, Intact, Followed, HeaderRead, TermsRead, Readable, ReadAlike,
                Place, Inside, FileTyped, IsCircuit, ReadSoFar, InTerm, EnforcedIdBinds
  <2>2. CASE FileNext
    BY <2>2, WriteFollow, DeliverFollow, HeaderFollow, ConstantsFollow, LayerFollow, TermFollow,
       EndLayerFollow, IdFollow DEF FileNext
  <2> QED BY <2>1, <2>2
<1> QED BY <1>1, <1>2, PTL DEF FileSpec

(* A circuit that arrives is read back, and only one the reader can read.  *)
LEMMA FollowReadsBack == ASSUME Follow PROVE RoundTrip
<1> SUFFICES ASSUME pc \in {"accepted", "rejected"}, named,
                    SubSeq(buf, 1, Len(to_bytes(c))) = to_bytes(c)
             PROVE  IF Readable THEN pc = "accepted" /\ got = c /\ next = Len(to_bytes(c)) + KIdSize
                    ELSE pc = "rejected"
  BY DEF RoundTrip, Readable
<1>1. /\ IsCircuit(c) /\ buf \in Seq(Bytes) /\ Len(buf) >= Len(to_bytes(c)) + KIdSize
  BY DEF Follow, Inside, FileTyped, Arrived, Reading
<1>2. Intact
  <2> DEFINE b == to_bytes(c)   n == Len(b)
  <2>1. b \in Seq(Bytes) /\ n \in Nat BY <1>1, BytesAre
  <2>2. SubSeq(buf, 1, n) = b OBVIOUS
  <2>3. n <= Len(buf) /\ Len(buf) \in Nat
    <3>1. Len(buf) >= n + KIdSize BY <1>1
    <3> HIDE DEF n
    <3> QED BY <1>1, <2>1, <3>1, TheBytes
  <2> HIDE DEF b
  <2>4. ASSUME NEW k \in 1..n PROVE buf[k] = b[k]
    <3>1. SubSeq(buf, 1, n)[k] = buf[k]
      <4>1. \A i \in 1..n : buf[i] \in Bytes
        <5>1. \A i \in 1..Len(buf) : buf[i] \in Bytes BY <1>1
        <5> HIDE DEF n
        <5> QED BY <2>1, <2>3, <5>1
      <4> HIDE DEF n
      <4> QED BY <2>1, <2>3, <4>1, SubSeqProperties
    <3> QED BY <2>2, <3>1
  <2> QED BY <2>4 DEF Intact, b
<1>3. Followed BY <1>2 DEF Follow, Reading
<1> QED BY <1>3 DEF Followed

(* As written, cut, extended or with one byte changed, a file gives a      *)
(* reader the circuit that was written, or a circuit, or a refusal, as the *)
(* comments at the properties say.                                         *)
THEOREM FileTheorem == FileSpec => []FileIsTheCircuit
<1>1. Follow => FileIsTheCircuit
  BY FollowReadsBack, InsideAccepts DEF Follow, Inside, FileIsTheCircuit
<1> QED BY <1>1, FollowHolds, PTL
=============================================================================
