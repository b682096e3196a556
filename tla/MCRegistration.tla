--------------------------- MODULE MCRegistration ---------------------------
(* Model-checking instances of Registration. *)
EXTENDS Registration, TLC

\* Requests are interchangeable.
Symmetry == Permutations(Requests)
=============================================================================
