--------------------------- MODULE MCAttachments ----------------------------
(* Instances of Attachments for TLC.                                        *)
EXTENDS Attachments, TLC

AllSymmetry == Permutations(Users) \cup Permutations(Files)
                  \cup Permutations(Entries) \cup Permutations(Calls)

=============================================================================
