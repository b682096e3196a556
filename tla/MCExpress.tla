----------------------------- MODULE MCExpress -----------------------------
(* Model-checking instances of Express. *)
EXTENDS Express, TLC

\* Requests are interchangeable, and so are RequestContexts.
Symmetry == Permutations(Requests) \cup Permutations(RequestContexts)
=============================================================================
