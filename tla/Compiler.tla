-------------------------------- MODULE Compiler -------------------------------
(***************************************************************************)
(* QuadCircuit and Scheduler of src/lib/circuits/compiler.                 *)
(*                                                                         *)
(* A program adds wires by calls; the compiler simplifies each call, finds *)
(* nodes it already has, and mkcircuit() schedules what the outputs and    *)
(* the assertions need into layers of quadratic terms.                     *)
(*                                                                         *)
(* A node is a sum of terms k op0 op1 over earlier nodes, ordered by op1   *)
(* and then op0; op 0 is the constant 1 and a term 0 op0 op1 asserts that  *)
(* the product is zero.  Constants are elements here, not indices of the   *)
(* constant table.  The hash table of the common subexpressions compares   *)
(* a new node with the present contents of old ones, but only finds a node *)
(* under the hash it had when it was inserted: the fields output_wire()    *)
(* changes later are kept a second time as key.                            *)
(*                                                                         *)
(* Beside the compiler the model keeps value, what every wire carries for  *)
(* each assignment of the inputs, solutions, the assignments that satisfy  *)
(* the assertions so far, and shown, the wires declared as outputs.        *)
(***************************************************************************)
EXTENDS Quad, Integers, FiniteSets

CONSTANTS
  Starts,       \* [nodes, limit]: what a program begins with, and the bounds on
                \* its nodes and its calls of output_wire()
  Coefs,        \* constants the program uses
  MaxInputs     \* bound: input wires, the constant one included

VARIABLES
  nodes, ninput, npub_input, subfield_boundary, noutput,  \* of QuadCircuit
  status,          \* "build", "done" or the check that aborts
  cir,             \* the circuit mkcircuit() returns
  limit,           \* the bounds of this program
  value, solutions, shown,
  sound,           \* did every call return a wire with the meaning it should
  tidy             \* were outputs declared last, and as output_wire wants them

vars == <<nodes, ninput, npub_input, subfield_boundary, noutput, status, cir,
          limit, value, solutions, shown, sound, tidy>>

kWireIdUndefined == -1

-----------------------------------------------------------------------------
(* Nodes *)
Upper(a, b) == IF a < b THEN b ELSE a
Term(k, a, b) == IF b < a THEN [k |-> k, op0 |-> b, op1 |-> a]
                 ELSE [k |-> k, op0 |-> a, op1 |-> b]

Node(terms) ==
  [terms |-> terms, depth |-> 0, key |-> <<FALSE, kWireIdUndefined>>,
   is_input |-> FALSE, in_id |-> kWireIdUndefined,
   is_output |-> FALSE, out_id |-> kWireIdUndefined, is_assert0 |-> FALSE]
InputNode(id) == [Node(<<>>) EXCEPT !.is_input = TRUE, !.in_id = id]
TermNode(k, a, b) == Node(IF k = 0 THEN <<>> ELSE <<Term(k, a, b)>>)

IsZero(n) == ~n.is_input /\ n.terms = <<>>
linearp(n) == Len(n.terms) = 1 /\ n.terms[1].op0 = 0
constant(n) == linearp(n) /\ n.terms[1].op1 = 0

Ops(ns) == DOMAIN ns
Content(n) == <<n.is_input, n.in_id, n.is_output, n.out_id, n.terms>>
KeyOf(n) == <<n.is_output, n.out_id>>

(* the nodes cse_.find may return for n *)
Alike(ns, n) == {i \in Ops(ns) : ns[i].key = KeyOf(n) /\ Content(ns[i]) = Content(n)}

DepthOf(ns, n) ==
  Seqs!Max({0} \union {1 + Upper(ns[t.op0].depth, ns[t.op1].depth) : t \in Seqs!ToSet(n.terms)})

(* Operators that build return the nodes and the wire of the result. *)
push_node(ns, n) ==
  IF Alike(ns, n) # {} THEN [ns |-> ns, op |-> CHOOSE i \in Alike(ns, n) : TRUE]
  ELSE LET id == Cardinality(Ops(ns))
           new == [n EXCEPT !.depth = DepthOf(ns, n), !.key = KeyOf(n)]
       IN  [ns |-> [i \in Ops(ns) \union {id} |-> IF i = id THEN new ELSE ns[i]], op |-> id]

materialize_input(ns, op) ==
  IF ns[op].is_input THEN TermNode(1, 0, op) ELSE ns[op]

(* mutant: the terms of an input are left as they are *)
scaleOnce(ns, k, op) ==
  LET n == materialize_input(ns, op)
  IN  [n EXCEPT !.terms = [i \in DOMAIN @ |-> [@[i] EXCEPT !.k = k]]]

Scaled(terms, k) == [i \in DOMAIN terms |-> [terms[i] EXCEPT !.k = mulf(@, k)]]
scale(ns, k, op) ==
  LET n == materialize_input(ns, op) IN [n EXCEPT !.terms = Scaled(n.terms, k)]

eqndx(t, u) == t.op1 = u.op1 /\ t.op0 = u.op0
ltndx(t, u) == t.op1 < u.op1 \/ (t.op1 = u.op1 /\ t.op0 < u.op0)

(* two ordered sums added, from the first term on: like terms become one,  *)
(* zero ones none; i0 and i1 terms have been taken                         *)
merge_step(t0, t1, s) ==
  LET a == t0[s.i0 + 1]   more0 == s.i0 < Len(t0)
      b == t1[s.i1 + 1]   more1 == s.i1 < Len(t1)
      Take(t, n0, n1) ==
        [i0 |-> s.i0 + n0, i1 |-> s.i1 + n1,
         terms |-> IF t.k = 0 THEN s.terms ELSE Append(s.terms, t)]
  IN  IF ~more0 /\ ~more1 THEN s
      ELSE IF more0 /\ more1 /\ eqndx(a, b) THEN Take([a EXCEPT !.k = addf(@, b.k)], 1, 1)
      ELSE IF more0 /\ (more1 => ltndx(a, b)) THEN Take(a, 1, 0)
      ELSE Take(b, 0, 1)
merge_terms(t0, t1) ==
  LET m[i \in 0..(Len(t0) + Len(t1))] ==
        IF i = 0 THEN [i0 |-> 0, i1 |-> 0, terms |-> <<>>] ELSE merge_step(t0, t1, m[i - 1])
  IN  m[Len(t0) + Len(t1)].terms
merge(ns, a, b) == Node(merge_terms(materialize_input(ns, a).terms, materialize_input(ns, b).terms))

-----------------------------------------------------------------------------
(* The calls *)
konst(ns, k) == push_node(ns, TermNode(k, 0, 0))

mul2(ns, k, op) ==
  IF k = 0 THEN konst(ns, k)
  ELSE IF k = 1 \/ IsZero(ns[op]) THEN [ns |-> ns, op |-> op]
  ELSE push_node(ns, scale(ns, k, op))

(* op seen through linear terms: op = k times the result *)
Peel(ns, op) ==
  LET peel[i \in 0..op] ==
        IF linearp(ns[i]) /\ ~constant(ns[i])
        THEN LET r == peel[ns[i].terms[1].op1]
             IN  [r EXCEPT !.k = mulf(@, ns[i].terms[1].k)]
        ELSE [k |-> 1, op |-> i]
  IN  peel[op]
Constant(ns, p) == mulf(p.k, ns[p.op].terms[1].k)

mul3(ns, k, a, b) ==
  LET p == Peel(ns, a)   q == Peel(ns, b)
      kp == mulf(k, p.k)
  IN  IF IsZero(ns[p.op]) THEN [ns |-> ns, op |-> p.op]
      ELSE IF constant(ns[p.op]) THEN mul2(ns, mulf(k, Constant(ns, p)), b)
      ELSE IF IsZero(ns[q.op]) THEN [ns |-> ns, op |-> q.op]
      ELSE IF constant(ns[q.op]) THEN mul2(ns, mulf(kp, Constant(ns, q)), p.op)
      ELSE push_node(ns, TermNode(mulf(kp, q.k), p.op, q.op))

linear(ns, k, op) == mul3(ns, k, 0, op)

(* addends of different depth are not merged: the shallow one becomes one *)
(* term of the sum                                                        *)
add(ns, a, b) ==
  LET Merged(r, x, y) == push_node(r, merge(r, x, y))
  IN  IF IsZero(ns[a]) THEN [ns |-> ns, op |-> b]
      ELSE IF IsZero(ns[b]) THEN [ns |-> ns, op |-> a]
      ELSE IF ns[a].depth < ns[b].depth
      THEN LET r == linear(ns, 1, a) IN Merged(r.ns, r.op, b)
      ELSE IF ns[b].depth < ns[a].depth
      THEN LET r == linear(ns, 1, b) IN Merged(r.ns, a, r.op)
      ELSE Merged(ns, a, b)

sub(ns, a, b) == LET r == mul2(ns, P - 1, b) IN add(r.ns, a, r.op)
axpy(ns, y, k, x) ==
  IF k = 0 THEN [ns |-> ns, op |-> y] ELSE LET r == linear(ns, k, x) IN add(r.ns, y, r.op)
apy(ns, y, k) ==
  IF k = 0 THEN [ns |-> ns, op |-> y] ELSE LET r == konst(ns, k) IN add(r.ns, y, r.op)

assert0(ns, op) ==
  LET under[i \in 0..op] ==      \* what asserting i asserts, -1 for nothing
        IF IsZero(ns[i]) THEN -1
        ELSE IF ~linearp(ns[i]) THEN i
        ELSE IF ns[i].terms[1].k = 0 THEN -1
        ELSE under[ns[i].terms[1].op1]
      r == push_node(ns, Node(<<Term(0, 0, under[op])>>))
  IN  IF under[op] = -1 THEN [ns |-> ns, op |-> op]
      ELSE [r EXCEPT !.ns[r.op].is_assert0 = TRUE]

output_internal(ns, op, id) == [ns EXCEPT ![op].is_output = TRUE, ![op].out_id = id]

-----------------------------------------------------------------------------
(* What calls leave behind.  Node 0 is the input that carries 1; a term is *)
(* over earlier nodes, of which the later one is not an empty sum, and the *)
(* terms of a node are in strict order.                                    *)
TermType == [k : Elt, op0 : Nat, op1 : Nat]
NodeType ==
  [terms : Seq(TermType), depth : Nat, key : BOOLEAN \X Int,
   is_input : BOOLEAN, in_id : (0..(MaxInputs - 1)) \union {kWireIdUndefined},
   is_output : BOOLEAN, out_id : Int, is_assert0 : BOOLEAN]
Typed(ns) ==
  /\ IsFiniteSet(Ops(ns)) /\ Ops(ns) = 0..(Cardinality(Ops(ns)) - 1) /\ 0 \in Ops(ns)
  /\ ns[0].is_input /\ ns[0].in_id = 0
  /\ \A i \in Ops(ns) :
       /\ ns[i] \in NodeType
       /\ ns[i].is_input => ns[i].in_id \in 0..(MaxInputs - 1) /\ ns[i].terms = <<>>
InOrder(ns) ==
  \A i \in Ops(ns) :
    LET n == ns[i]
    IN  /\ \A j \in DOMAIN n.terms :
             LET t == n.terms[j] IN t.op0 <= t.op1 /\ t.op1 < i /\ ~IsZero(ns[t.op1])
        /\ \A j \in 1..(Len(n.terms) - 1) : ltndx(n.terms[j], n.terms[j + 1])
        /\ n.depth = DepthOf(ns, n) /\ (n.is_assert0 => n.terms # <<>> /\ n.terms[1].k = 0)

(* Nothing is an output or asserted yet, the inputs are numbered, and no   *)
(* two nodes are alike.                                                    *)
Untouched(ns) ==
  LET inputs == {i \in Ops(ns) : ns[i].is_input}
  IN  /\ \A i \in Ops(ns) :
           LET n == ns[i]
           IN  /\ ~n.is_output /\ n.out_id = kWireIdUndefined /\ n.key = KeyOf(n) /\ ~n.is_assert0
               /\ \A j \in DOMAIN n.terms : n.terms[j].k # 0 /\ ~IsZero(ns[n.terms[j].op0])
               /\ IF n.is_input THEN n.in_id < Cardinality(inputs) ELSE n.in_id = kWireIdUndefined
      /\ \A i, j \in Ops(ns) : Content(ns[i]) = Content(ns[j]) => i = j

(* A program has made calls before it starts to make those it is free in.  *)
ASSUME StartsAssumption ==
  \A s \in Starts : Typed(s.nodes) /\ InOrder(s.nodes) /\ Untouched(s.nodes)
ASSUME CoefsAssumption == Coefs \subseteq Elt
ASSUME MaxInputsAssumption == MaxInputs \in Nat \ {0}
(* Numbers of wires fit a corner.                                          *)
ASSUME CornersAssumption ==
  /\ Corners \in Nat /\ MaxInputs <= Corners
  /\ \A s \in Starts : s.limit.nodes \in Nat /\ Cardinality(Ops(s.nodes)) <= s.limit.nodes
                                              /\ s.limit.nodes <= Corners
(* The elements are a field.                                               *)
ASSUME FieldAssumption == \A a, b \in Elt : mulf(a, b) = 0 => a = 0 \/ b = 0

-----------------------------------------------------------------------------
(* What a wire carries, for each assignment of the inputs *)
Inputs == {X \in [0..(MaxInputs - 1) -> Elt] : X[0] = 1 % P}
Total(g) == Sum(Len(g), LAMBDA j : g[j + 1])
TermValue(t, val, X) == mulf(t.k, mulf(val[t.op0][X], val[t.op1][X]))
NodeValue(n, val) ==
  [X \in Inputs |->
     IF n.is_input THEN X[n.in_id]
     ELSE Total([j \in DOMAIN n.terms |-> TermValue(n.terms[j], val, X)])]

(* val with the values of the nodes a call has added *)
WithNew(ns, val) ==
  LET v[i \in Ops(ns)] == IF i \in DOMAIN val THEN val[i] ELSE NodeValue(ns[i], v)
  IN  v

Init ==
  \E s \in Starts :
    /\ nodes = s.nodes /\ limit = s.limit
    /\ ninput = Cardinality({i \in Ops(nodes) : nodes[i].is_input})
    /\ value = WithNew(nodes, [i \in {} |-> 0])
    /\ npub_input = 0 /\ subfield_boundary = 0 /\ noutput = 0
    /\ status = "build" /\ cir = [l |-> <<>>]
    /\ solutions = Inputs /\ shown = <<>> /\ sound = TRUE /\ tidy = TRUE

(* A call returned r, a wire that should carry f(X). *)
Returned(r, f(_)) ==
  /\ status = "build" /\ Cardinality(Ops(r.ns)) <= limit.nodes
  /\ nodes' = r.ns /\ value' = WithNew(r.ns, value)
  /\ sound' = (sound /\ \A X \in Inputs : value'[r.op][X] = f(X))
  /\ tidy' = (tidy /\ shown = <<>>)

Val(op, X) == value[op][X]
quiet == <<ninput, npub_input, subfield_boundary, noutput, status, cir, limit, solutions, shown>>

Mul(k, op) == Returned(mul2(nodes, k, op), LAMBDA X : mulf(k, Val(op, X))) /\ UNCHANGED quiet
Mul3(k, a, b) ==
  Returned(mul3(nodes, k, a, b), LAMBDA X : mulf(k, mulf(Val(a, X), Val(b, X)))) /\ UNCHANGED quiet
Add(a, b) == Returned(add(nodes, a, b), LAMBDA X : addf(Val(a, X), Val(b, X))) /\ UNCHANGED quiet
Sub(a, b) == Returned(sub(nodes, a, b), LAMBDA X : subf(Val(a, X), Val(b, X))) /\ UNCHANGED quiet
Konst(k) == Returned(konst(nodes, k), LAMBDA X : k) /\ UNCHANGED quiet
Axpy(y, k, x) ==
  Returned(axpy(nodes, y, k, x), LAMBDA X : addf(Val(y, X), mulf(k, Val(x, X)))) /\ UNCHANGED quiet
Apy(y, k) == Returned(apy(nodes, y, k), LAMBDA X : addf(Val(y, X), k)) /\ UNCHANGED quiet

Assert0(op) ==
  LET r == assert0(nodes, op)
  IN  /\ status = "build" /\ Cardinality(Ops(r.ns)) <= limit.nodes
      /\ nodes' = r.ns /\ value' = WithNew(r.ns, value)
      /\ solutions' = {X \in solutions : Val(op, X) = 0} /\ tidy' = (tidy /\ shown = <<>>)
      /\ UNCHANGED <<ninput, npub_input, subfield_boundary, noutput, status, cir, limit, shown, sound>>

InputWire ==
  /\ ninput < MaxInputs
  /\ Returned(push_node(nodes, InputNode(ninput)), LAMBDA X : X[ninput])
  /\ ninput' = ninput + 1
  /\ UNCHANGED <<npub_input, subfield_boundary, noutput, status, cir, limit, solutions, shown>>

Asserted(op) == \E i \in Ops(nodes) : nodes[i].is_assert0 /\ nodes[i].terms[1].op1 = op

(* checks of the two marks among the inputs: each is set once *)
PrivateInput ==
  /\ status = "build"
  /\ IF npub_input = 0 THEN npub_input' = ninput /\ UNCHANGED status
     ELSE status' = "private_input" /\ UNCHANGED npub_input
  /\ UNCHANGED <<nodes, ninput, subfield_boundary, noutput, cir, limit, value, solutions, shown, sound, tidy>>
BeginFullField ==
  /\ status = "build"
  /\ IF subfield_boundary = 0 THEN subfield_boundary' = ninput /\ UNCHANGED status
     ELSE status' = "begin_full_field" /\ UNCHANGED subfield_boundary
  /\ UNCHANGED <<nodes, ninput, npub_input, noutput, cir, limit, value, solutions, shown, sound, tidy>>

(* outputs are numbered in the order they are declared *)
OutputWire(op) ==
  /\ status = "build" /\ noutput < limit.outputs
  /\ nodes' = output_internal(nodes, op, noutput) /\ noutput' = noutput + 1
  /\ shown' = Append(shown, op)
  /\ tidy' = (tidy /\ ~IsZero(nodes[op]) /\ ~nodes[op].is_output /\ ~Asserted(op))
  /\ UNCHANGED <<ninput, npub_input, subfield_boundary, status, cir, limit, value, solutions, sound>>

-----------------------------------------------------------------------------
(* What is needed *)
compute_depth_ub(ns) ==
  LET Needs(n) == IF n.is_output THEN 1 + n.depth ELSE IF n.is_assert0 THEN n.depth ELSE 0
  IN  Seqs!Max({0} \union {Needs(ns[i]) : i \in Ops(ns)})

(* an assertion beyond the last layer makes its wire an output *)
LastAssertions(ns, ub) ==
  {i \in Ops(ns) : ~ns[i].is_output /\ ns[i].is_assert0 /\ ns[i].depth = ub}
fixup_last_layer_assertions(ns, ub) ==
  LET last == LastAssertions(ns, ub)
      freed == [i \in Ops(ns) |-> IF i \in last THEN [ns[i] EXCEPT !.is_assert0 = FALSE] ELSE ns[i]]
      tops == {ns[i].terms[1].op1 : i \in last}
  IN  [i \in Ops(ns) |-> IF i \in tops
         THEN [freed[i] EXCEPT !.is_output = TRUE, !.out_id = kWireIdUndefined] ELSE freed[i]]

(* mutant: the constant is not kept for copies *)
MarkPlain(ns, need, op, d) == [need EXCEPT ![op] = Upper(@, d)]

(* need: max_needed_depth of every node, 0 while it is not needed; a node  *)
(* needed beyond the next layer is copied, which needs the constant        *)
mark_needed(ns, need, op, d) ==
  LET m == [need EXCEPT ![op] = Upper(@, d)]
  IN  IF d > ns[op].depth + 1 THEN [m EXCEPT ![0] = Upper(@, d - 1)] ELSE m

(* a node that is needed needs its operands in the layer below *)
NeedsOperands(ns, need, n) ==
  LET m[j \in 0..Len(n.terms)] ==
        IF j = 0 THEN need
        ELSE mark_needed(ns, mark_needed(ns, m[j - 1], n.terms[j].op0, n.depth),
                         n.terms[j].op1, n.depth)
  IN  m[Len(n.terms)]
Visit(ns, ub, need, i) ==
  LET n == ns[i]
      When(b, m, d) == IF b THEN mark_needed(ns, m, i, d) ELSE m
      m == When(n.is_assert0, When(n.is_output, When(n.is_input, need, 1), ub), n.depth + 1)
  IN  IF m[i] = 0 THEN m ELSE NeedsOperands(ns, m, n)

compute_needed(ns, ub) ==
  LET count == Cardinality(Ops(ns))
      need[k \in 0..count] ==
        IF k = 0 THEN [i \in Ops(ns) |-> 0] ELSE Visit(ns, ub, need[k - 1], count - k)
  IN  need[count]

-----------------------------------------------------------------------------
(* The schedule *)
desired_wire_id(n, d, ub) ==
  IF n.is_input /\ d = 0 THEN n.in_id
  ELSE IF n.is_output /\ d + 1 = ub THEN n.out_id ELSE kWireIdUndefined

(* the ops at depth d, in order: those computed there, and copies *)
Lives(ns, need, i, d) ==
  /\ need[i] > 0 /\ ~IsZero(ns[i])
  /\ ns[i].depth = d \/ (ns[i].depth < d /\ d < need[i])
Alive(ns, need, d) ==
  LET count == Cardinality(Ops(ns))
      lnodes[k \in 0..count] ==
        IF k = 0 THEN <<>>
        ELSE IF Lives(ns, need, k - 1, d) THEN Append(lnodes[k - 1], k - 1) ELSE lnodes[k - 1]
  IN  lnodes[count]
IsCopy(ns, i, d) == ns[i].depth < d

(* the terms of op i at depth d, on ops of the depth before *)
lterms(ns, need, i, d) ==
  IF IsCopy(ns, i, d) THEN <<[k |-> 1, op0 |-> Alive(ns, need, d - 1)[1], op1 |-> i]>>
  ELSE ns[i].terms

TermBefore(a, b) ==
  \/ a.op0 < b.op0
  \/ a.op0 = b.op0 /\ a.op1 < b.op1
  \/ a.op0 = b.op0 /\ a.op1 = b.op1 /\ a.k < b.k

(* mutant: nodes without a wanted number stay as they come *)
NodeBeforeAsIs(a, b) ==
  a.id # kWireIdUndefined /\ (b.id = kWireIdUndefined \/ a.id < b.id)

(* renamed_lnode::compare *)
NodeBefore(a, b) ==
  LET la == Len(a.terms)   lb == Len(b.terms)
      Back(n, k) == n.terms[Len(n.terms) + 1 - k]
      both == 1..(IF la < lb THEN la ELSE lb)
      Common(k) == \A j \in 1..k : Back(a, j) = Back(b, j)
      undefined == {n \in {a, b} : n.id = kWireIdUndefined}
  IN  IF undefined # {a, b}
      THEN a.id # kWireIdUndefined /\ (b.id = kWireIdUndefined \/ a.id < b.id)
      ELSE \/ \E k \in both : Common(k - 1) /\ TermBefore(Back(a, k), Back(b, k))
           \/ Common(Cardinality(both)) /\ la < lb
           \/ a.terms = b.terms /\ ~a.copy /\ b.copy

uniq(s) == \A i \in 1..(Len(s) - 1) : s[i] # s[i + 1]

(* One layer of assign_wire_ids: the nodes of depth d over the numbers of  *)
(* the wires below, in their order; ids maps ops to numbers.               *)
Renamed(ns, need, ub, d, below) ==
  LET alive == Alive(ns, need, d)
      Of(i) == LET ts == lterms(ns, need, i, d)
               IN  Sorted([j \in DOMAIN ts |-> Term(ts[j].k, below[ts[j].op0], below[ts[j].op1])],
                          TermBefore)
  IN  Sorted([w \in DOMAIN alive |->
                [id |-> desired_wire_id(ns[alive[w]], d, ub), op |-> alive[w],
                 copy |-> IsCopy(ns, alive[w], d), terms |-> Of(alive[w])]], NodeBefore)

LayerCheck(layer) ==
  IF \E w \in DOMAIN layer : ~uniq(layer[w].terms) THEN "rlterms not unique"
  ELSE IF ~uniq([w \in DOMAIN layer |-> <<layer[w].copy, layer[w].terms>>])
  THEN "renamed_at_d not unique"
  ELSE IF \E w \in DOMAIN layer : layer[w].id \notin {kWireIdUndefined, w - 1}
  THEN "wid == lnpi.desired_wire_id" ELSE "done"

Numbers(layer) ==
  [i \in {layer[w].op : w \in DOMAIN layer} |->
     (CHOOSE w \in DOMAIN layer : layer[w].op = i) - 1]

(* all layers above the inputs, and the first check that fails *)
NextLayer(ns, need, ub, d, r) ==
  LET layer == Renamed(ns, need, ub, d, r.below)
  IN  IF r.status # "done" THEN r
      ELSE [layers |-> Append(r.layers, layer), below |-> Numbers(layer), status |-> LayerCheck(layer)]
assign_wire_ids(ns, need, ub) ==
  LET r[d \in 0..(ub - 1)] ==
        IF d = 0
        THEN [layers |-> <<>>, status |-> "done",
              below |-> [i \in Seqs!ToSet(Alive(ns, need, 0)) |-> desired_wire_id(ns[i], 0, ub)]]
        ELSE NextLayer(ns, need, ub, d, r[d - 1])
  IN  r[ub - 1]

(* fill_layers and mkquad: layers count from the outputs *)
mkquad(layer) ==
  LET Row(w) == [j \in DOMAIN layer[w].terms |->
                   [g |-> w - 1, h |-> <<layer[w].terms[j].op0, layer[w].terms[j].op1>>,
                    v |-> layer[w].terms[j].k]]
  IN  compress(canonicalize(Seqs!FlattenSeq([w \in DOMAIN layer |-> Row(w)])))

Circuit(layers, nin) ==
  LET nl == Len(layers)
      Size(d) == IF d = 0 THEN nin ELSE Len(layers[d])
  IN  [nv |-> Size(nl), logv |-> lg(Size(nl)), nl |-> nl, ninputs |-> nin,
       npub_in |-> npub_input, subfield_boundary |-> subfield_boundary,
       l |-> [k \in 1..nl |-> [nw |-> Size(nl - k), logw |-> lg(Size(nl - k)),
                               quad |-> mkquad(layers[nl + 1 - k])]]]

(* mkcircuit: without outputs and assertions there is no layer to fill *)
Scheduled(ns) ==
  LET ub == compute_depth_ub(ns)
      fixed == fixup_last_layer_assertions(ns, ub)
      need == compute_needed(fixed, ub)
  IN  IF ub = 0 THEN [nodes |-> fixed, layers |-> <<>>, status |-> "lnodes.at"]
      ELSE LET r == assign_wire_ids(fixed, need, ub)
           IN  [nodes |-> fixed, layers |-> r.layers, status |-> r.status]

MkCircuit ==
  /\ status = "build"
  /\ LET r == Scheduled(nodes)
     IN  /\ nodes' = r.nodes /\ status' = r.status
         /\ noutput' = noutput + Cardinality(LastAssertions(nodes, compute_depth_ub(nodes)))
         /\ IF r.status = "done" THEN cir' = Circuit(r.layers, ninput) ELSE UNCHANGED cir
  /\ UNCHANGED <<ninput, npub_input, subfield_boundary, limit, value, solutions, shown, sound, tidy>>

Build ==
  \/ \E a, b \in Ops(nodes) : Add(a, b) \/ Sub(a, b) \/ \E k \in Coefs : Mul3(k, a, b) \/ Axpy(a, k, b)
  \/ \E a \in Ops(nodes) : Assert0(a) \/ OutputWire(a) \/ \E k \in Coefs : Mul(k, a) \/ Apy(a, k)
  \/ \E k \in Coefs : Konst(k)
  \/ InputWire \/ PrivateInput \/ BeginFullField
Next == Build \/ MkCircuit
Spec == Init /\ [][Next]_vars

-----------------------------------------------------------------------------
(* Nodes are in topological order and their terms in strict order: what    *)
(* merge, the depths and the schedule rely on.                             *)
NodesAreOrdered == InOrder(nodes)

(* Every call returns a wire that carries what was asked for, whatever was *)
(* folded, peeled, merged or found among the nodes that were there, and    *)
(* leaves the nodes in order.                                              *)
SimplifierIsSound == sound /\ NodesAreOrdered

(* The circuit from the input layer to the outputs: what the layers assert *)
(* on the way, and the outputs.                                            *)
RunLayer(c, j, r) ==
  LET k == c.nl + 1 - j
      quad == iterate(c.l[k].quad)
      nout == IF k = 1 THEN c.nv ELSE c.l[k - 1].nw
  IN  [ok |-> r.ok /\ AssertionsHold(quad, r.W),
       W |-> [g \in 0..(nout - 1) |-> GateValue(quad, r.W, g)]]
RunCircuit(c, X) ==
  LET r[j \in 0..c.nl] == IF j = 0 THEN [ok |-> TRUE, W |-> X] ELSE RunLayer(c, j, r[j - 1])
  IN  r[c.nl]

(* The circuit is satisfied, all its outputs being zero, by the inputs     *)
(* that satisfy the program's assertions and make its outputs zero, and    *)
(* the outputs of a program that declares them last carry the wires it     *)
(* named, by number.  A circuit without layers is never evaluated.         *)
ComputesTheProgram ==
  status = "done" /\ cir.nl > 0 =>
    \A X \in Inputs :
      LET r == RunCircuit(cir, X)
      IN  /\ (r.ok /\ \A g \in DOMAIN r.W : r.W[g] = 0)
               <=> (X \in solutions /\ \A j \in DOMAIN shown : Val(shown[j], X) = 0)
          /\ tidy => \A j \in DOMAIN shown : r.W[j - 1] = Val(shown[j], X)

(* The scheduler's own checks never fail for a program that declares       *)
(* distinct non-zero outputs last and does not also assert them, the terms *)
(* of a node are distinct for every program, and without layers mkcircuit  *)
(* fails only if nothing is declared or asserted.                          *)
TidyProgramsCompile ==
  /\ status # "rlterms not unique"
  /\ status \in {"renamed_at_d not unique", "wid == lnpi.desired_wire_id"} => ~tidy
  /\ status = "lnodes.at" => shown = <<>> /\ \A i \in Ops(nodes) : ~nodes[i].is_assert0

(* A program is either compiled into a circuit that is satisfied by what   *)
(* satisfies the program, or stopped by a check that only programs of the  *)
(* kinds above can fail.                                                   *)
CircuitIsTheProgram == ComputesTheProgram /\ TidyProgramsCompile

(* The nodes with i and i + 1 exchanged *)
Exchanged(i) ==
  LET To(op) == IF op = i THEN i + 1 ELSE IF op = i + 1 THEN i ELSE op
      Moved(n) == [n EXCEPT !.terms =
                     SortSeq([j \in DOMAIN @ |-> Term(@[j].k, To(@[j].op0), To(@[j].op1))], ltndx)]
  IN  [op \in Ops(nodes) |-> Moved(nodes[To(op)])]

(* The circuit does not depend on the order in which a program makes its   *)
(* calls: exchanging two neighbours that do not use each other changes     *)
(* nothing, in the circuit or its identifier.                              *)
OrderIndependent ==
  status = "done" =>
    \A i \in Ops(nodes) \ {0} :
      i + 1 \in Ops(nodes)
        /\ (\A t \in Seqs!ToSet(nodes[i + 1].terms) : i \notin {t.op0, t.op1})
        => LET r == Scheduled(Exchanged(i))
           IN  r.status = "done" /\ Circuit(r.layers, ninput) = cir
================================================================================
