----------------------------- MODULE TeamsProofs ----------------------------
(***************************************************************************)
(* Proofs about Teams, for any accounts, projects and team operations.     *)
(***************************************************************************)
EXTENDS Teams, TLAPS

\* The code gives the role admin to nobody.
NoAdmins == \A p \in Projects, u \in Users : role[p][u] # "admin"

\* What a team operation has checked still holds: its project has existed (so
\* its id is not drawn again), and whom it is about to add or remove is not
\* the owner, whether the project still exists or not.
CheckHolds(r) ==
    team[r].pc # "idle" =>
        /\ team[r].project \in Projects
        /\ joined[team[r].project] # {}
        /\ team[r].op \in {"add", "remove"} => team[r].user \in Users
        /\ team[r].op \in {"add", "remove"} /\ team[r].pc = "write" =>
              owner[team[r].project] # team[r].user

ChecksHold == \A r \in TeamRequests : CheckHolds(r)

\* The inductive invariant: AddMember and RemoveMember need to know that they
\* do not write the row of the owner.
TeamsInv ==
    /\ TeamsTypeOK
    /\ OwnerLeadsTeam
    /\ ProjectIsWhole
    /\ TeamHasJoined
    /\ NoAdmins
    /\ ChecksHold

-----------------------------------------------------------------------------

\* Lemma: the initial state satisfies the invariant.
LEMMA TeamsInitInv == TeamsInit => TeamsInv
<1> SUFFICES ASSUME TeamsInit PROVE TeamsInv
  OBVIOUS
<1> USE IdentityAssumption DEF TeamsInit
<1>1. TeamsTypeOK
  BY DEF TeamsTypeOK, NoTeam, Roles, Identities, TeamIdle, TeamRequest
<1>2. OwnerLeadsTeam /\ ProjectIsWhole /\ TeamHasJoined /\ NoAdmins
  BY DEF OwnerLeadsTeam, ProjectIsWhole, TeamHasJoined, NoAdmins, CanPostAs, Exists, NoTeam
<1>3. ChecksHold
  BY DEF ChecksHold, CheckHolds, TeamIdle
<1> QED
  BY <1>1, <1>2, <1>3 DEF TeamsInv

\* Lemma: a step that changes only one operation, and leaves what it has
\* checked true, keeps the invariant.
LEMMA OneTeamInv ==
    ASSUME TeamsInv, NEW r \in TeamRequests, NEW c \in TeamRequest,
           team' = [team EXCEPT ![r] = c], CheckHolds(r)',
           UNCHANGED <<owner, slug, role, pubs, joined>>
    PROVE  TeamsInv'
<1> USE DEF TeamsInv
<1>1. TeamsTypeOK'
  BY DEF TeamsTypeOK
<1>2. OwnerLeadsTeam' /\ ProjectIsWhole' /\ TeamHasJoined' /\ NoAdmins'
  BY DEF OwnerLeadsTeam, ProjectIsWhole, TeamHasJoined, NoAdmins, CanPostAs, Exists
<1>3. ASSUME NEW s \in TeamRequests \ {r} PROVE CheckHolds(s)'
  <2>1. team'[s] = team[s]
    BY DEF TeamsTypeOK
  <2> QED
    BY <2>1 DEF ChecksHold, CheckHolds
<1> QED
  BY <1>1, <1>2, <1>3 DEF ChecksHold

\* Lemma: an operation that ends leaves nothing to be checked.
LEMMA TeamDoneChecks ==
    ASSUME TeamsTypeOK, NEW r \in TeamRequests, TeamDone(r)
    PROVE  /\ TeamIdle \in TeamRequest
           /\ team' \in [TeamRequests -> TeamRequest]
           /\ team'[r] = TeamIdle
           /\ CheckHolds(r)'
           /\ \A s \in TeamRequests \ {r} : team'[s] = team[s]
<1>1. TeamIdle \in TeamRequest
  BY DEF TeamIdle, TeamRequest
<1>2. team'[r] = TeamIdle
  BY DEF TeamDone, TeamsTypeOK
<1> QED
  BY <1>1, <1>2 DEF TeamDone, TeamsTypeOK, CheckHolds, TeamIdle

\* Lemma: the first read of an operation.
LEMMA TeamCheckInv ==
    ASSUME TeamsInv, NEW r \in TeamRequests, NEW op \in {"add", "remove", "delete"},
           NEW u \in Users, NEW p \in Projects, NEW m \in Users \cup {None},
           op # "delete" => m \in Users, TeamCheck(r, op, u, p, m)
    PROVE  TeamsInv'
<1> DEFINE c == [pc |-> IF op = "delete" THEN "write" ELSE "load",
                 op |-> op, project |-> p, user |-> m]
<1>1. c \in TeamRequest
  BY DEF TeamRequest
<1>2. team'[r] = c
  BY DEF TeamCheck, TeamsInv, TeamsTypeOK
<1>3. joined[p] # {}
  <2>1. \E v \in Users : owner[p] = v
    BY IdentityAssumption DEF TeamCheck, Exists, TeamsInv, TeamsTypeOK
  <2>2. PICK v \in Users : owner[p] = v
    BY <2>1
  <2>3. CanPostAs(p, v)
    BY <2>2 DEF CanPostAs, TeamCheck
  <2> QED
    BY <2>3 DEF TeamsInv, TeamHasJoined
<1>4. CheckHolds(r)'
  <2>1. joined' = joined
    BY DEF TeamCheck
  <2> QED
    BY <1>2, <1>3, <2>1 DEF CheckHolds
<1> QED
  BY <1>1, <1>4, OneTeamInv DEF TeamCheck

\* Lemma: the second read refuses the owner.
LEMMA TeamLoadInv ==
    ASSUME TeamsInv, NEW r \in TeamRequests, TeamLoad(r)
    PROVE  TeamsInv'
<1> DEFINE p == team[r].project
<1>1. CASE Exists(p) /\ owner[p] # team[r].user
  <2> DEFINE c == [team[r] EXCEPT !.pc = "write"]
  <2>1. team[r] \in TeamRequest /\ team[r].pc = "load"
    BY DEF TeamsInv, TeamsTypeOK, TeamLoad
  <2>2. c \in TeamRequest
    BY <2>1 DEF TeamRequest
  <2>3. team' = [team EXCEPT ![r] = c] /\ team'[r] = c
    BY <1>1 DEF TeamLoad, TeamsInv, TeamsTypeOK
  <2>4. c.project = p /\ c.op = team[r].op /\ c.user = team[r].user /\ c.pc = "write"
    BY <2>1 DEF TeamRequest
  <2>5. owner' = owner /\ joined' = joined
    BY DEF TeamLoad
  <2> HIDE DEF c
  <2>6. CheckHolds(r)'
    BY <1>1, <2>1, <2>3, <2>4, <2>5 DEF TeamsInv, ChecksHold, CheckHolds
  <2> QED
    BY <2>2, <2>3, <2>6, OneTeamInv DEF TeamLoad
<1>2. CASE ~ (Exists(p) /\ owner[p] # team[r].user)
  <2>1. TeamDone(r)
    BY <1>2 DEF TeamLoad
  <2> QED
    BY <2>1, TeamDoneChecks, OneTeamInv DEF TeamLoad, TeamDone, TeamsInv
<1> QED
  BY <1>1, <1>2

\* Lemma: an operation that fails.
LEMMA TeamFailInv ==
    ASSUME TeamsInv, NEW r \in TeamRequests, TeamFail(r)
    PROVE  TeamsInv'
  BY TeamDoneChecks, OneTeamInv DEF TeamFail, TeamDone, TeamsInv

\* Lemma: a write of a member row never touches the owner's.
LEMMA MemberInv ==
    ASSUME TeamsInv, NEW r \in TeamRequests, AddMember(r) \/ RemoveMember(r)
    PROVE  TeamsInv'
<1> USE IdentityAssumption DEF TeamsInv
<1> DEFINE p == team[r].project
           u == team[r].user
<1>1. p \in Projects /\ u \in Users /\ owner[p] # u /\ TeamDone(r)
  BY DEF AddMember, RemoveMember, ChecksHold, CheckHolds
<1>2. owner' = owner /\ slug' = slug /\ pubs' = pubs
  BY DEF AddMember, RemoveMember
<1>3. \/ role' = [role EXCEPT ![p][u] = "none"] /\ joined' = joined
      \/ /\ Exists(p)
         /\ role' = [role EXCEPT ![p][u] = "member"]
         /\ joined' = [joined EXCEPT ![p] = @ \cup {u}]
      \/ role' = role /\ joined' = joined
  BY DEF AddMember, RemoveMember
<1>4. role' \in [Projects -> [Users -> Roles]] /\ joined' \in [Projects -> SUBSET Users]
  <2>1. role' \in [Projects -> [Users -> Roles]]
    <3>1. /\ [role[p] EXCEPT ![u] = "none"] \in [Users -> Roles]
          /\ [role[p] EXCEPT ![u] = "member"] \in [Users -> Roles]
      BY <1>1 DEF TeamsTypeOK, Roles
    <3>2. CASE role' = [role EXCEPT ![p][u] = "none"]
      BY <1>1, <3>1, <3>2 DEF TeamsTypeOK
    <3>3. CASE role' = [role EXCEPT ![p][u] = "member"]
      BY <1>1, <3>1, <3>3 DEF TeamsTypeOK
    <3> QED
      BY <1>3, <3>2, <3>3 DEF TeamsTypeOK
  <2>2. joined' \in [Projects -> SUBSET Users]
    <3>1. [joined EXCEPT ![p] = joined[p] \cup {u}] \in [Projects -> SUBSET Users]
      BY <1>1 DEF TeamsTypeOK
    <3> QED
      BY <1>3, <3>1 DEF TeamsTypeOK
  <2> QED
    BY <2>1, <2>2
<1>5. TeamsTypeOK'
  BY <1>1, <1>2, <1>4, TeamDoneChecks DEF TeamsTypeOK
<1>6. \A q \in Projects, v \in Users :
         role'[q][v] = IF q = p /\ v = u THEN role'[p][u] ELSE role[q][v]
  BY <1>1, <1>3 DEF TeamsTypeOK
<1>7. role'[p][u] \in {"none", "member"} \/ role' = role
  BY <1>1, <1>3 DEF TeamsTypeOK
<1>8. OwnerLeadsTeam'
  BY <1>1, <1>2, <1>6, <1>7 DEF OwnerLeadsTeam
<1>9. NoAdmins'
  BY <1>6, <1>7 DEF NoAdmins
<1>10. ProjectIsWhole'
  <2> SUFFICES ASSUME NEW q \in Projects
               PROVE  (Exists(q) <=> q \in pubs) /\ (~ Exists(q) => role'[q] = NoTeam)
    BY <1>2 DEF ProjectIsWhole, Exists
  <2>1. Exists(q) <=> q \in pubs
    BY DEF ProjectIsWhole
  <2>2. ASSUME ~ Exists(q) PROVE role'[q] = NoTeam
    <3>1. role[q] = NoTeam
      BY <2>2 DEF ProjectIsWhole
    <3>2. CASE role'[q] = role[q]
      BY <3>1, <3>2
    <3>3. CASE role' = [role EXCEPT ![p][u] = "none"] /\ q = p
      BY <3>1, <3>3, <1>1 DEF NoTeam, TeamsTypeOK
    <3> QED
      BY <1>1, <1>3, <2>2, <3>2, <3>3 DEF TeamsTypeOK
  <2> QED
    BY <2>1, <2>2
<1>11. TeamHasJoined'
  <2> SUFFICES ASSUME NEW q \in Projects, NEW v \in Users, CanPostAs(q, v)'
               PROVE  v \in joined'[q]
    BY DEF TeamHasJoined
  <2>1. joined[q] \subseteq joined'[q]
    BY <1>3, <1>1 DEF TeamsTypeOK
  <2>2. CASE CanPostAs(q, v)
    BY <2>1, <2>2 DEF TeamHasJoined
  <2>3. CASE q = p /\ v = u /\ role' = [role EXCEPT ![p][u] = "member"]
             /\ joined' = [joined EXCEPT ![p] = @ \cup {u}]
    BY <1>1, <2>3 DEF TeamsTypeOK
  <2> QED
    BY <1>1, <1>2, <1>3, <1>6, <2>2, <2>3 DEF CanPostAs, Exists, TeamsTypeOK
<1>12. ChecksHold'
  <2> SUFFICES ASSUME NEW s \in TeamRequests \ {r} PROVE CheckHolds(s)'
    BY <1>1, TeamDoneChecks DEF ChecksHold
  <2>1. team'[s] = team[s]
    BY <1>1, TeamDoneChecks
  <2>2. \A q \in Projects : joined[q] # {} => joined'[q] # {}
    BY <1>1, <1>3 DEF TeamsTypeOK
  <2> QED
    BY <1>2, <2>1, <2>2 DEF ChecksHold, CheckHolds
<1> QED
  BY <1>5, <1>8, <1>9, <1>10, <1>11, <1>12

\* Lemma: a project is created whole, under an id no operation knows.
LEMMA CreateProjectInv ==
    ASSUME TeamsInv, NEW u \in Users, NEW p \in Projects, NEW s \in Slugs,
           CreateProject(u, p, s)
    PROVE  TeamsInv'
<1> USE IdentityAssumption DEF TeamsInv
<1>1. TeamsTypeOK'
  BY DEF CreateProject, TeamsTypeOK, Identities, NoTeam, Roles
<1>2. /\ owner'[p] = u /\ joined'[p] = {u} /\ p \in pubs' /\ team' = team
      /\ \A v \in Users : role'[p][v] = IF v = u THEN "owner" ELSE "none"
      /\ \A q \in Projects \ {p} : /\ owner'[q] = owner[q] /\ role'[q] = role[q]
                                   /\ joined'[q] = joined[q]
                                   /\ q \in pubs' <=> q \in pubs
  BY DEF CreateProject, TeamsTypeOK, NoTeam
<1>3. OwnerLeadsTeam' /\ NoAdmins'
  BY <1>2 DEF OwnerLeadsTeam, NoAdmins
<1>4. ProjectIsWhole'
  BY <1>2 DEF ProjectIsWhole, Exists
<1>5. TeamHasJoined'
  <2> SUFFICES ASSUME NEW q \in Projects, NEW v \in Users, CanPostAs(q, v)'
               PROVE  v \in joined'[q]
    BY DEF TeamHasJoined
  <2>1. CASE q = p
    BY <1>2, <2>1 DEF CanPostAs
  <2>2. CASE q # p
    BY <1>2, <2>2 DEF CanPostAs, Exists, TeamHasJoined
  <2> QED
    BY <2>1, <2>2
<1>6. ChecksHold'
  BY <1>2 DEF ChecksHold, CheckHolds, CreateProject
<1> QED
  BY <1>1, <1>3, <1>4, <1>5, <1>6

\* Lemma: a project is deleted whole.
LEMMA DeleteProjectInv ==
    ASSUME TeamsInv, NEW r \in TeamRequests, DeleteProject(r)
    PROVE  TeamsInv'
<1> USE IdentityAssumption DEF TeamsInv
<1> DEFINE p == team[r].project
<1>1. p \in Projects /\ TeamDone(r)
  BY DEF DeleteProject, ChecksHold, CheckHolds
<1>2. TeamsTypeOK'
  BY <1>1, TeamDoneChecks DEF DeleteProject, TeamsTypeOK, NoTeam, Roles
<1>3. /\ owner'[p] = None /\ role'[p] = NoTeam /\ p \notin pubs' /\ joined' = joined
      /\ \A q \in Projects \ {p} : /\ owner'[q] = owner[q] /\ role'[q] = role[q]
                                   /\ q \in pubs' <=> q \in pubs
  BY <1>1 DEF DeleteProject, TeamsTypeOK
<1>4. OwnerLeadsTeam' /\ NoAdmins'
  BY <1>3 DEF OwnerLeadsTeam, NoAdmins, NoTeam
<1>5. ProjectIsWhole'
  BY <1>3 DEF ProjectIsWhole, Exists
<1>6. TeamHasJoined'
  BY <1>3 DEF TeamHasJoined, CanPostAs, Exists
<1>7. ChecksHold'
  <2> SUFFICES ASSUME NEW s \in TeamRequests \ {r} PROVE CheckHolds(s)'
    BY <1>1, TeamDoneChecks DEF ChecksHold
  <2>1. team'[s] = team[s]
    BY <1>1, TeamDoneChecks
  <2> QED
    BY <1>3, <2>1 DEF ChecksHold, CheckHolds
<1> QED
  BY <1>2, <1>4, <1>5, <1>6, <1>7

\* Lemma: a publisher of a user says nothing about projects.
LEMMA EnsureForUserInv ==
    ASSUME TeamsInv, NEW u \in Users, EnsureForUser(u)
    PROVE  TeamsInv'
<1> USE IdentityAssumption DEF TeamsInv, EnsureForUser
<1>1. TeamsTypeOK' /\ ChecksHold'
  BY DEF TeamsTypeOK, Identities, ChecksHold, CheckHolds
<1>2. OwnerLeadsTeam' /\ TeamHasJoined' /\ NoAdmins'
  BY DEF OwnerLeadsTeam, TeamHasJoined, NoAdmins, CanPostAs, Exists
<1>3. ProjectIsWhole'
  BY DEF ProjectIsWhole, Exists
<1> QED
  BY <1>1, <1>2, <1>3

\* Lemma: every step of the teams keeps the invariant.
LEMMA TeamsNextInv == TeamsInv /\ [TeamsNext]_teamVars => TeamsInv'
<1> SUFFICES ASSUME TeamsInv, [TeamsNext]_teamVars PROVE TeamsInv'
  OBVIOUS
<1>1. ASSUME NEW u \in Users, NEW p \in Projects, NEW s \in Slugs, CreateProject(u, p, s)
      PROVE  TeamsInv'
  BY <1>1, CreateProjectInv
<1>2. ASSUME NEW r \in TeamRequests, NEW u \in Users, NEW p \in Projects,
             TeamCheck(r, "delete", u, p, None)
      PROVE  TeamsInv'
  BY <1>2, TeamCheckInv
<1>3. ASSUME NEW r \in TeamRequests, NEW u \in Users, NEW p \in Projects, NEW m \in Users,
             TeamCheck(r, "add", u, p, m) \/ TeamCheck(r, "remove", u, p, m)
      PROVE  TeamsInv'
  BY <1>3, TeamCheckInv
<1>4. ASSUME NEW r \in TeamRequests,
             TeamLoad(r) \/ AddMember(r) \/ RemoveMember(r) \/ TeamFail(r) \/ DeleteProject(r)
      PROVE  TeamsInv'
  BY <1>4, TeamLoadInv, MemberInv, TeamFailInv, DeleteProjectInv
<1>5. ASSUME NEW u \in Users, EnsureForUser(u) PROVE TeamsInv'
  BY <1>5, EnsureForUserInv
<1>6. CASE UNCHANGED teamVars
  BY <1>6 DEF teamVars, TeamsInv, TeamsTypeOK, OwnerLeadsTeam, ProjectIsWhole, TeamHasJoined,
     NoAdmins, ChecksHold, CheckHolds, CanPostAs, Exists
<1> QED
  BY <1>1, <1>2, <1>3, <1>4, <1>5, <1>6 DEF TeamsNext, TeamStep

\* The invariant holds in every reachable state.
THEOREM TeamsInvariance == TeamsSpec => []TeamsInv
<1> QED
  BY TeamsInitInv, TeamsNextInv, PTL DEF TeamsSpec

\* Projects, members and publishers stay typed (projects, publishers).
THEOREM TeamsTyped == TeamsSpec => []TeamsTypeOK
<1>1. TeamsInv => TeamsTypeOK
  BY DEF TeamsInv
<1> QED
  BY <1>1, TeamsInvariance, PTL

\* Overlapping additions and removals never demote the owner
\* (Service.AddMember, Service.RemoveMember).
THEOREM OwnersLeadTheirTeams == TeamsSpec => []OwnerLeadsTeam
<1>1. TeamsInv => OwnerLeadsTeam
  BY DEF TeamsInv
<1> QED
  BY <1>1, TeamsInvariance, PTL

\* A project has its publisher as long as it exists and leaves no member behind
\* (Service.Create, Service.Delete).
THEOREM ProjectsAreWhole == TeamsSpec => []ProjectIsWhole
<1>1. TeamsInv => ProjectIsWhole
  BY DEF TeamsInv
<1> QED
  BY <1>1, TeamsInvariance, PTL

=============================================================================
