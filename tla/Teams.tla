------------------------------- MODULE Teams --------------------------------
(***************************************************************************)
(* Publishing identities (internal/projects and internal/publishers):      *)
(* projects, their members and the publishers rows that stand for a user   *)
(* or a project.  A publisher is named by the user or the project it       *)
(* stands for (publishers_identity_check, and both columns are UNIQUE).    *)
(*                                                                         *)
(* The team operations check the caller in one statement and write in a    *)
(* later one, without a transaction: TeamCheck, TeamLoad and the writes    *)
(* are steps of their own.                                                 *)
(***************************************************************************)
EXTENDS FiniteSets

CONSTANTS
    Users,          \* registered accounts
    Legacy,         \* those registered before publishers existed
    Projects,       \* the bound on projects: every id ever drawn
    Slugs,          \* the last part of a project handle
    TeamRequests,   \* team operations that may be in flight together
    None            \* no row, no value

ASSUME IdentityAssumption == /\ None \notin Users \cup Projects \cup Slugs
                             /\ Users \cap Projects = {}
                             /\ Legacy \subseteq Users

VARIABLES
    owner,          \* projects.owner_id, None without a row
    slug,           \* projects.slug
    role,           \* project_members.role, "none" without a row
    pubs,           \* publishers with a row
    team,           \* the team operations in flight
    joined          \* history: who was ever on the team of a project

teamVars == <<owner, slug, role, pubs, team, joined>>

Identities == Users \cup Projects
Roles == {"none", "member", "admin", "owner"}
NoTeam == [u \in Users |-> "none"]

TeamIdle == [pc |-> "idle", op |-> "none", project |-> None, user |-> None]

TeamRequest == [pc      : {"idle", "load", "write"},
                op      : {"none", "add", "remove", "delete"},
                project : Projects \cup {None},
                user    : Users \cup {None}]

Exists(p) == owner[p] # None

TeamsInit ==
    /\ owner  = [p \in Projects |-> None]
    /\ slug   = [p \in Projects |-> None]
    /\ role   = [p \in Projects |-> NoTeam]
    /\ pubs   = Users \ Legacy
    /\ team   = [r \in TeamRequests |-> TeamIdle]
    /\ joined = [p \in Projects |-> {}]

(***************************************************************************)
(* The permission queries.                                                 *)
(***************************************************************************)
RoleOf(p, u) == IF owner[p] = u THEN "owner" ELSE role[p][u]

CanPostAs(p, u) == Exists(p) /\ (owner[p] = u \/ role[p][u] # "none")

CanManagePostsFor(p, u) ==
    Exists(p) /\ (owner[p] = u \/ role[p][u] \in {"owner", "admin"})

\* EnsureForUser: the personal publisher, created when it is missing.
EnsureForUser(u) ==
    /\ pubs' = pubs \cup {u}
    /\ UNCHANGED <<owner, slug, role, team, joined>>

(***************************************************************************)
(* Project: row, owner membership and publisher in one transaction.        *)
(***************************************************************************)
CreateProject(u, p, s) ==
    /\ ~ Exists(p) /\ joined[p] = {}
    /\ \A q \in Projects : ~ (owner[q] = u /\ slug[q] = s)
    /\ owner'  = [owner EXCEPT ![p] = u]
    /\ slug'   = [slug EXCEPT ![p] = s]
    /\ role'   = [role EXCEPT ![p] = [NoTeam EXCEPT ![u] = "owner"]]
    /\ pubs'   = pubs \cup {p}
    /\ joined' = [joined EXCEPT ![p] = {u}]
    /\ UNCHANGED team

\* The handler finds the project and requireOwner passes.  Ids are never
\* reused and an owner never changes, so the two reads are one step; a
\* refusal changes nothing and ends the request here.
TeamCheck(r, op, u, p, m) ==
    /\ team[r].pc = "idle"
    /\ Exists(p) /\ RoleOf(p, u) = "owner"
    /\ team' = [team EXCEPT ![r] =
                  [pc |-> IF op = "delete" THEN "write" ELSE "load",
                   op |-> op, project |-> p, user |-> m]]
    /\ UNCHANGED <<owner, slug, role, pubs, joined>>

TeamDone(r) == team' = [team EXCEPT ![r] = TeamIdle]

\* Mutant: the owner is not refused.
LoadAnyUser(r) ==
    /\ team[r].pc = "load"
    /\ IF Exists(team[r].project)
       THEN team' = [team EXCEPT ![r].pc = "write"]
       ELSE TeamDone(r)
    /\ UNCHANGED <<owner, slug, role, pubs, joined>>

\* AddMember and RemoveMember load the project and refuse its owner.
TeamLoad(r) ==
    /\ team[r].pc = "load"
    /\ LET p == team[r].project IN
       IF Exists(p) /\ owner[p] # team[r].user
       THEN team' = [team EXCEPT ![r].pc = "write"]
       ELSE TeamDone(r)
    /\ UNCHANGED <<owner, slug, role, pubs, joined>>

\* Mutant: project_members has no foreign key.
AddWithoutProject(r) ==
    /\ team[r].pc = "write" /\ team[r].op = "add"
    /\ role'   = [role EXCEPT ![team[r].project][team[r].user] = "member"]
    /\ joined' = [joined EXCEPT ![team[r].project] = @ \cup {team[r].user}]
    /\ TeamDone(r)
    /\ UNCHANGED <<owner, slug, pubs>>

\* An upsert of the role; without the project the foreign key refuses it.
AddMember(r) ==
    /\ team[r].pc = "write" /\ team[r].op = "add"
    /\ LET p == team[r].project
           u == team[r].user
       IN IF Exists(p)
          THEN /\ role'   = [role EXCEPT ![p][u] = "member"]
               /\ joined' = [joined EXCEPT ![p] = @ \cup {u}]
          ELSE UNCHANGED <<role, joined>>
    /\ TeamDone(r)
    /\ UNCHANGED <<owner, slug, pubs>>

\* No row, no change: the answer is 404.
RemoveMember(r) ==
    /\ team[r].pc = "write" /\ team[r].op = "remove"
    /\ role' = [role EXCEPT ![team[r].project][team[r].user] = "none"]
    /\ TeamDone(r)
    /\ UNCHANGED <<owner, slug, pubs, joined>>

\* The members and the publisher go with the row (ON DELETE CASCADE).
DeleteProject(r) ==
    /\ team[r].pc = "write" /\ team[r].op = "delete"
    /\ LET p == team[r].project IN
       /\ owner' = [owner EXCEPT ![p] = None]
       /\ slug'  = [slug EXCEPT ![p] = None]
       /\ role'  = [role EXCEPT ![p] = NoTeam]
       /\ pubs'  = pubs \ {p}
    /\ TeamDone(r)
    /\ UNCHANGED joined

\* A failed statement, or the request timeout: nothing is written.
TeamFail(r) ==
    /\ team[r].pc # "idle"
    /\ TeamDone(r)
    /\ UNCHANGED <<owner, slug, role, pubs, joined>>

\* Every step except those that Posts takes together with its own: DeleteProject,
\* with its cascade, and EnsureForUser, when a post is published.
TeamStep ==
    \/ \E u \in Users, p \in Projects, s \in Slugs : CreateProject(u, p, s)
    \/ \E r \in TeamRequests, u \in Users, p \in Projects :
          \/ TeamCheck(r, "delete", u, p, None)
          \/ \E m \in Users : TeamCheck(r, "add", u, p, m)
                              \/ TeamCheck(r, "remove", u, p, m)
    \/ \E r \in TeamRequests :
          TeamLoad(r) \/ AddMember(r) \/ RemoveMember(r) \/ TeamFail(r)

TeamsNext ==
    \/ TeamStep
    \/ \E u \in Users : EnsureForUser(u)
    \/ \E r \in TeamRequests : DeleteProject(r)

TeamsSpec == TeamsInit /\ [][TeamsNext]_teamVars

-----------------------------------------------------------------------------

\* The tables and the operations in flight are typed.
TeamsTypeOK ==
    /\ owner \in [Projects -> Users \cup {None}]
    /\ slug \in [Projects -> Slugs \cup {None}]
    /\ role \in [Projects -> [Users -> Roles]]
    /\ pubs \subseteq Identities
    /\ team \in [TeamRequests -> TeamRequest]
    /\ joined \in [Projects -> SUBSET Users]

\* The owner holds the owner role and is the only one: adding the owner as a
\* member, or removing it, would demote it, and both are refused one read
\* before the write.
OwnerLeadsTeam ==
    \A p \in Projects, u \in Users : role[p][u] = "owner" <=> owner[p] = u

\* A project can publish as long as it exists, and leaves nothing behind: no
\* publisher and no member row, even with an addition in flight.
ProjectIsWhole ==
    \A p \in Projects :
        /\ Exists(p) <=> p \in pubs
        /\ ~ Exists(p) => role[p] = NoTeam

\* Nobody is on a team without having been put on it by its owner.
TeamHasJoined ==
    \A p \in Projects, u \in Users : CanPostAs(p, u) => u \in joined[p]

=============================================================================
