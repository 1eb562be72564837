------------------------------ MODULE MCPosts -------------------------------
(* Instances of Posts and Threads for TLC.                                 *)
EXTENDS Threads

RequestSymmetry == Permutations(PostRequests) \cup Permutations(TeamRequests)

=============================================================================
