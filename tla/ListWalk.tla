------------------------------ MODULE ListWalk ------------------------------
(***************************************************************************)
(* What a list read page by page promises each of its readers: entries     *)
(* have a fixed place, given once and maybe anywhere in the list; a page   *)
(* brings something new, all of it below what was shown; and of what the   *)
(* list has held since the walk began nothing is left above the last entry *)
(* of a page, so that a walk that ends has shown all of it.                *)
(***************************************************************************)
CONSTANTS
    Readers, Posts,
    Places,     \* where a post may stand
    Lower,      \* the pairs of places of which the first is listed later
    None

VARIABLES
    place,      \* the place of a post, None before it has one
    phase,      \* a reader is "away", "reading" a list or at its "end"
    seen,       \* what a reader has been shown
    held        \* what its list has held since it began to read

list == <<place, phase, seen, held>>

Standing == {p \in Posts : place[p] # None}

After(p, q) == <<place[p], place[q]>> \in Lower

Init ==
    /\ place \in [Posts -> Places \cup {None}]
    /\ phase = [v \in Readers |-> "away"]
    /\ seen = [v \in Readers |-> {}]
    /\ held = [v \in Readers |-> {}]

\* Posts get a place, or leave lists.
Change ==
    /\ UNCHANGED <<phase, seen>>
    /\ place' \in [Posts -> Places \cup {None}]
    /\ \A p \in Posts : place[p] \in {None, place'[p]}
    /\ held' \in [Readers -> SUBSET Posts]
    /\ \A v \in Readers : held'[v] \subseteq held[v]

Start(v, L) ==
    /\ phase[v] = "away"
    /\ phase' = [phase EXCEPT ![v] = "reading"]
    /\ seen' = [seen EXCEPT ![v] = {}]
    /\ held' = [held EXCEPT ![v] = L]
    /\ UNCHANGED place

\* Everything shown, or brought by the page S, stands before what is left.
Covers(v, S) ==
    \A p \in held[v] \ (seen[v] \cup S), q \in seen[v] \cup S : After(p, q)

Page(v, S) ==
    /\ phase[v] = "reading"
    /\ seen' = [seen EXCEPT ![v] = @ \cup S]
    /\ S \subseteq Standing
    /\ \A p \in S, q \in seen[v] : After(p, q)
    /\ \/ S # {} /\ Covers(v, S) /\ UNCHANGED phase
       \/ held[v] \subseteq seen[v] \cup S /\ phase' = [phase EXCEPT ![v] = "end"]
    /\ UNCHANGED <<place, held>>

Leave(v) ==
    /\ phase[v] \in {"reading", "end"}
    /\ phase' = [phase EXCEPT ![v] = "away"]
    /\ seen' = [seen EXCEPT ![v] = {}]
    /\ held' = [held EXCEPT ![v] = {}]
    /\ UNCHANGED place

Next ==
    \/ Change
    \/ \E v \in Readers :
          \/ Leave(v)
          \/ \E S \in SUBSET Posts : (S \subseteq Standing /\ Start(v, S)) \/ Page(v, S)

Spec == Init /\ [][Next]_list

=============================================================================
