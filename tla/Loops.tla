-------------------------------- MODULE Loops ---------------------------------
(***************************************************************************)
(* Loops over arrays.  An array is a function from 0; TLC tabulates a      *)
(* function where Table is applied to it and not at every use, and the     *)
(* singletons of For make it evaluate a turn's value before the next turn. *)
(***************************************************************************)
EXTENDS Integers, TLC

Table(fn) == fn @@ <<>>

(* for (i = 0; i < n; ++i) s = op(i, s) *)
For(n, base, op(_, _)) ==
  LET s[k \in 0..n] ==
        IF k = 0 THEN base ELSE CHOOSE r \in {op(k - 1, v) : v \in {s[k - 1]}} : TRUE
  IN  s[n]

Array(n, v(_)) == Table([i \in 0..(n - 1) |-> v(i)])
Swap(A, i, j) == [A EXCEPT ![i] = A[j], ![j] = A[i]]

(* The pairs (A[i], A[i + s]) with i in at are replaced, all at once: loops *)
(* over butterflies that share no element.                                  *)
Butterflies(A, at, s, butterfly(_, _, _)) ==
  LET pair == Table([i \in at |-> butterfly(i, A[i], A[i + s])])
  IN  Table([i \in DOMAIN A |-> IF i \in at THEN pair[i][1]
                                ELSE IF i - s \in at THEN pair[i - s][2] ELSE A[i]])
================================================================================
