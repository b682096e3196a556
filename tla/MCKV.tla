-------------------------------- MODULE MCKV --------------------------------
(* Model-checking instances of KV. *)
EXTENDS KV, TLC

\* Requests are interchangeable.
Symmetry == Permutations(Requests)
=============================================================================
