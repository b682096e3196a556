---------------------------- MODULE MCIOContext ----------------------------
(* Model-checking instances of IOContext. *)
EXTENDS IOContext, TLC

\* Requests, contexts and fetches are interchangeable; there is one extension
\* in the runs that use symmetry.
Symmetry == Permutations(Requests) \cup Permutations(Contexts)
            \cup Permutations(Fetches) \cup Permutations(Extensions)
=============================================================================
