----------------------------- MODULE MCProofIO -----------------------------
(* Small instances of ProofIO: a field of eight elements in two digits,    *)
(* three of which form the subfield.                                       *)
EXTENDS ProofIO

MCLogw == <<1>>

(* Where only its place matters, the k-th element of a list is the k-th of *)
(* these; the opened cells take two values in every way.                   *)
SampleElt == <<3, 7, 0, 5>>
ReqElt == {1, 6}

Sample(n) == [k \in 1..n |-> SampleElt[1 + (k % Len(SampleElt))]]
SampleLayer(i) ==
  [hp |-> [wi \in 1..Logw[i] |-> [hi \in Hands |-> [k \in Poly |->
             SampleElt[1 + ((i + wi + hi + k) % Len(SampleElt))]]]],
   wc |-> [hi \in Hands |-> SampleElt[1 + ((i + hi) % Len(SampleElt))]]]

(* The bytes cut off, with one more, or with one changed, and buffers of   *)
(* one value that have nothing to do with what was written                 *)
MCArrivals(b) ==
  {SubSeq(b, 1, k) : k \in 0..(Len(b) - 1)}
  \union {Append(b, d) : d \in 0..(Byte - 1)}
  \union {[b EXCEPT ![k] = d] : k \in DOMAIN b, d \in 0..(Byte - 1)}
  \union {[k \in 1..n |-> d] : n \in 0..(Len(b) + 1), d \in 0..(Byte - 1)}

MCProofs ==
  {[root |-> 1,
    l |-> [i \in 1..NL |-> SampleLayer(i)],
    y_ldt |-> Sample(Block), y_dot |-> Sample(DBlock),
    y_quad_0 |-> Sample(R), y_quad_2 |-> Sample(DBlock - Block),
    nonce |-> [k \in 1..NReq |-> k % Byte],
    req |-> cells,
    path |-> [k \in 1..sz |-> k % Byte]] :
       cells \in [1..Cells -> ReqElt], sz \in 0..(NReq * PathLen)}
=============================================================================
