--------------------------- MODULE SessionLedger ----------------------------
(***************************************************************************)
(* What rotating refresh tokens promise to clients that do not wait for    *)
(* each other: a token opens once; a client may claim it only while it is  *)
(* open; a claim is spent on one exchange, or on closing the token, or on  *)
(* nothing; the token an exchange opens belongs to the same account; and a *)
(* closed token stays closed, so that only the claims made before can      *)
(* still be spent.                                                         *)
(***************************************************************************)
CONSTANTS Users, Tokens, Clients, None

VARIABLES
    status,     \* "unused", "open" or "closed"
    holder,     \* the account of a token
    from,       \* the token this one was exchanged for
    claim       \* the open token a client has presented, None without one

ledger == <<status, holder, from, claim>>

Init ==
    /\ status = [t \in Tokens |-> "unused"]
    /\ holder = [t \in Tokens |-> None]
    /\ from   = [t \in Tokens |-> None]
    /\ claim  = [c \in Clients |-> None]

Open(n, u) ==
    /\ status[n] = "unused"
    /\ status' = [status EXCEPT ![n] = "open"]
    /\ holder' = [holder EXCEPT ![n] = u]
    /\ UNCHANGED <<from, claim>>

Claim(c, t) ==
    /\ claim[c] = None
    /\ status[t] = "open"
    /\ claim' = [claim EXCEPT ![c] = t]
    /\ UNCHANGED <<status, holder, from>>

Spend(c) == claim[c] # None /\ claim' = [claim EXCEPT ![c] = None]

Exchange(c, n) ==
    /\ Spend(c)
    /\ status[n] = "unused"
    /\ status' = [status EXCEPT ![claim[c]] = "closed", ![n] = "open"]
    /\ holder' = [holder EXCEPT ![n] = holder[claim[c]]]
    /\ from'   = [from EXCEPT ![n] = claim[c]]

Close(c) ==
    /\ Spend(c)
    /\ status' = [status EXCEPT ![claim[c]] = "closed"]
    /\ UNCHANGED <<holder, from>>

Withdraw(c) == Spend(c) /\ UNCHANGED <<status, holder, from>>

Next ==
    \/ \E n \in Tokens, u \in Users : Open(n, u)
    \/ \E c \in Clients, t \in Tokens : Claim(c, t) \/ Exchange(c, t)
    \/ \E c \in Clients : Close(c) \/ Withdraw(c)

Spec == Init /\ [][Next]_ledger

=============================================================================
