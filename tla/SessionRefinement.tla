-------------------------- MODULE SessionRefinement --------------------------
(* The sessions table and the requests on it seen as the ledger of          *)
(* SessionLedger: a request that has read a usable session claims it.       *)
EXTENDS Sessions

Status ==
    [t \in Tokens |-> CASE row[t] = "absent" -> "unused"
                        [] row[t] = "active" -> "open"
                        [] row[t] = "revoked" -> "closed"]

Claims ==
    [r \in Requests |-> IF req[r].pc \in {"rotate", "revoke"}
                        THEN req[r].token ELSE None]

Ledger == INSTANCE SessionLedger
            WITH status <- Status, from <- parent, claim <- Claims,
                 Clients <- Requests

\* However the requests overlap, the service keeps the promise of the ledger:
\* Refresh and Logout act on a token only for a request that read it active,
\* and every such read opens at most one new session, for the same account.
ImplementsLedger == Ledger!Spec

\* What one request has read is still so when it writes: no other request
\* ran in between.
StillOpen ==
    \A r \in Requests :
        req[r].pc \in {"rotate", "revoke"} => row[req[r].token] = "active"

=============================================================================
