------------------------------- MODULE MCFeed --------------------------------
(* An instance of Feed and of its lists for TLC.                            *)
EXTENDS FeedList

=============================================================================
