------------------------------ MODULE FeedList -------------------------------
(* The posts table and the requests of the readers seen as the list of      *)
(* ListWalk: a page counts when it is delivered, whatever was asked for     *)
(* again before.                                                            *)
EXTENDS Feed

Place == [p \in Posts |-> IF post[p].state \in {"live", "deleted"} THEN PositionOf(p) ELSE None]

Lower == {ab \in Position \X Position : Below(ab[1], ab[2])}

PhaseOf(pc) == CASE pc = "new" -> "away" [] pc = "done" -> "end" [] OTHER -> "reading"

Phase == [v \in Readers |-> PhaseOf(reader[v].pc)]

List == INSTANCE ListWalk
          WITH Places <- Position, place <- Place, phase <- Phase,
               seen <- shown, held <- steady

\* However posts are committed late, deleted and purged, and however often a
\* page is lost and asked for again, the cursors keep the promise of ListWalk:
\* each page is new, lies below the pages before it and leaves nothing out
\* above its last entry, also for a reader who never gets to the end.
ReadsAsList == List!Spec

=============================================================================
