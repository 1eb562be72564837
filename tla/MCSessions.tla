----------------------------- MODULE MCSessions -----------------------------
(* Instances of Sessions and of its refinement for TLC.                     *)
EXTENDS SessionRefinement, TLC

\* Requests, accounts and tokens are interchangeable.
Symmetry == Permutations(Requests) \cup Permutations(Users)
            \cup Permutations(Tokens)

=============================================================================
