---------------------------- MODULE MCFetchEvent ----------------------------
(* Model-checking instances of FetchEvent. *)
EXTENDS FetchEvent, TLC

\* Requests, events and extensions are interchangeable.
Symmetry ==
    Permutations(Requests) \cup Permutations(Events)
    \cup Permutations(Extensions)
=============================================================================
