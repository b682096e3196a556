----------------------------- MODULE MCRuntime -----------------------------
(* Model-checking instances of Runtime. *)
EXTENDS Runtime, TLC

\* Requests are interchangeable, and so are LoadScript calls.
Symmetry == Permutations(Requests) \cup Permutations(Loaders)
=============================================================================
