---------------------------- MODULE MCWebSession ----------------------------
(* Instances of WebSession for TLC.                                         *)
EXTENDS WebSession, TLC, Naturals

Symmetry == Permutations(Requests) \cup Permutations(Tokens)

\* A bound: the visitor signs in once, every other session is a rotation.
OneLogin == Cardinality({t \in Issued : parent[t] = None}) <= 1

=============================================================================
