------------------------------- MODULE Sampling -------------------------------
(***************************************************************************)
(* RandomEngine::nat and choose (lib/random/random.h): k distinct naturals *)
(* below n, drawn from bytes by rejection and taken out of an array by     *)
(* swaps.  The columns of a Ligero proof are chosen so.                    *)
(***************************************************************************)
EXTENDS Integers, FiniteSets, Sequences, Loops

CONSTANTS Byte,       \* values of a byte, a power of two
          MaxN,       \* n of choose, at most
          MaxRejects  \* draws refused, at most, in a behaviour

VARIABLES n, k,
          A,          \* the array of choose, from 0
          res,        \* res[0..i-1]
          rejects     \* draws refused so far

vars == <<n, k, A, res, rejects>>

i == Len(res)

(* while (nn != 0) { nn >>= 8; ++l; } *)
bytes_of(m) == CHOOSE l \in 1..(MaxN + 1) : Byte ^ (l - 1) <= m /\ m < Byte ^ l

(* mask <<= 1, mask |= 1 until it covers m *)
mask(m) == (2 ^ (CHOOSE b \in 1..(MaxN + 1) : 2 ^ (b - 1) <= m /\ m < 2 ^ b)) - 1

Buffers(m) == [0..(bytes_of(m) - 1) -> 0..(Byte - 1)]

little_endian(buf) ==
  For(Cardinality(DOMAIN buf), 0, LAMBDA j, r : r + (buf[j] * (Byte ^ j)))

(* mutant: the draw is reduced modulo m and never refused *)
maskedModulo(m, buf) == little_endian(buf) % m

(* What a buffer gives: a number below m, or one that is refused; the mask *)
(* is of low bits only.                                                    *)
masked(m, buf) == little_endian(buf) % (mask(m) + 1)

Init ==
  /\ n \in 1..MaxN
  /\ k \in 0..n
  /\ A = Array(n, LAMBDA j : j)
  /\ res = <<>>
  /\ rejects = 0

Refuse ==
  /\ i < k /\ rejects < MaxRejects
  /\ \E buf \in Buffers(n - i) : masked(n - i, buf) >= n - i
  /\ rejects' = rejects + 1
  /\ UNCHANGED <<n, k, A, res>>

(* size_t j = i + nat(n - i); swap; res[i] = A[i] *)
Take ==
  /\ i < k
  /\ \E buf \in Buffers(n - i) :
       \E r \in {masked(n - i, buf)} :
         /\ r < n - i
         /\ A' = Swap(A, i, i + r)
         /\ res' = Append(res, A'[i])
  /\ UNCHANGED <<n, k, rejects>>

Next == Refuse \/ Take

Spec == Init /\ [][Next]_vars

-----------------------------------------------------------------------------
Chosen == {res[j] : j \in 1..i}

Naming(e) == {buf \in Buffers(n - i) : masked(n - i, buf) < n - i
                                       /\ A[i + masked(n - i, buf)] = e}

(***************************************************************************)
(* The next number is every number not chosen yet with the same            *)
(* probability, and none that is: as many buffers name the one as the      *)
(* other.  No draw is refused with a probability above a half, so that the *)
(* loop of nat ends.                                                       *)
(***************************************************************************)
ChoiceIsUniform ==
  /\ Cardinality(Chosen) = i
  /\ Chosen \subseteq 0..(n - 1)
  /\ i < k =>
       LET naming == [e \in 0..(n - 1) |-> Cardinality(Naming(e))]
           rest   == (0..(n - 1)) \ Chosen
       IN  /\ \A e \in Chosen : naming[e] = 0
           /\ \A e, f \in rest : naming[e] = naming[f]
           /\ \A e \in rest : 2 * (n - i) * naming[e] >= Byte ^ bytes_of(n - i)
================================================================================
