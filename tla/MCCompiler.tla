------------------------------- MODULE MCCompiler ------------------------------
(* Two machines that do not interact, in one run: programs and the circuits *)
(* they compile to (Compiler), and circuits in a file (CircuitIO).          *)
EXTENDS Compiler, CircuitIO

(* the constructor's node; with an input x, its square and its cube        *)
One == (0 :> InputNode(0))
Powers ==
  LET x == push_node(One, InputNode(1)).ns
      x2 == mul3(x, 1, 1, 1).ns
  IN  mul3(x2, 1, 1, 2).ns
Start(ns, n, outputs) == [nodes |-> ns, limit |-> [nodes |-> n, outputs |-> outputs]]
StartsDef == {Start(One, 4, 2), Start(One, 5, 1), Start(Powers, 5, 2), Start(Powers, 6, 1)}

(* Programs declare their inputs before they compute, with one public      *)
(* input and no full-field ones, or with none of the two marks.            *)
InputsFirst ==
  /\ <<ninput, npub_input, subfield_boundary>>' # <<ninput, npub_input, subfield_boundary>>
       => Cardinality(DOMAIN nodes) = ninput
  /\ npub_input' # npub_input => ninput = 1
  /\ subfield_boundary' # subfield_boundary => ninput = 2 /\ npub_input # 0

-----------------------------------------------------------------------------
(* Circuits in a file: bytes of four values, two to an index, one to an     *)
(* element of the field                                                     *)
T(g, h0, h1, v) == [g |-> g, h |-> <<h0, h1>>, v |-> v]
Ly(w, q) == [nw |-> w, logw |-> lg(w), quad |-> q]
InFile(nv, nin, npub, full, l) ==
  [nv |-> nv, logv |-> lg(nv), nc |-> 1, logc |-> 0, npub_in |-> npub,
   subfield_boundary |-> full, ninputs |-> nin, l |-> l]

(* assertions on inputs only: no layer                                     *)
NoLayer == InFile(2, 2, 1, 0, <<>>)
(* one output; differences that repeat while others come between           *)
Small == InFile(1, 3, 1, 2, <<Ly(3, <<T(0, 0, 1, 1), T(0, 0, 2, 2), T(0, 1, 2, 0)>>)>>)
Cached ==
  InFile(2, 4, 2, 3,
    <<Ly(2, <<T(0, 0, 0, 1), T(1, 0, 0, 1), T(0, 0, 1, 2), T(1, 0, 1, 1), T(0, 1, 1, 2)>>),
      Ly(4, <<T(0, 0, 1, 1), T(1, 1, 2, 2), T(1, 2, 3, 1)>>)>>)
(* more layers than a reader takes; more bindings                          *)
Deep == InFile(1, 1, 1, 0, [k \in 1..3 |-> Ly(1, <<T(0, 0, 0, 1)>>)])
Broad == InFile(1, 5, 1, 0, <<Ly(5, <<T(0, 0, 4, 1)>>)>>)
(* the largest difference that has room for its sign, and the next         *)
Far == InFile(8, 4, 1, 0, <<Ly(4, <<T(0, 0, 3, 1), T(7, 0, 0, 1), T(0, 0, 3, 1)>>)>>)
TooFar == InFile(9, 4, 1, 0, <<Ly(4, <<T(8, 0, 3, 1)>>)>>)
CircuitsDef == {NoLayer, Small, Cached, Deep, Broad, Far, TooFar}

FileOff ==
  /\ c = "off" /\ buf = <<>> /\ named = FALSE /\ field_id = 0 /\ enforce = FALSE /\ pc = "off"
  /\ next = 0 /\ got = <<>> /\ nl = 0 /\ constants = <<>> /\ table = <<>> /\ cache = <<>>
  /\ todo = 0 /\ quad = <<>> /\ prev = <<>>

ProgramOff ==
  /\ nodes = <<>> /\ ninput = 0 /\ npub_input = 0 /\ subfield_boundary = 0 /\ noutput = 0
  /\ status = "off" /\ cir = <<>> /\ limit = <<>> /\ value = <<>> /\ solutions = {}
  /\ shown = <<>> /\ sound = TRUE /\ tidy = TRUE

MCInit == (FileOff /\ Init) \/ (ProgramOff /\ FileInit)
MCNext == (Next /\ UNCHANGED fileVars) \/ (FileNext /\ UNCHANGED vars)
MCSpec == MCInit /\ [][MCNext]_<<vars, fileVars>>
================================================================================
