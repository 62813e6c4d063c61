------------------------------ MODULE Workspace ------------------------------
(***************************************************************************)
(* Workspaces (organizations): members and their roles, invitations, the   *)
(* workspace a user is in, and the API keys bound to it.  A handler looks  *)
(* at the database, and writes in later steps, while others do the same.   *)
(***************************************************************************)
EXTENDS Integers, FiniteSets

CONSTANTS
  Orgs, Users, Calls,   \* Calls: requests handled at the same time
  NoOrg, NoUser,
  MaxTeam,              \* MAX_TEAM_MEMBERS
  OfferedRoles,         \* roles an invitation or a change of role may give
  MaxInvites            \* bound on the invitations made

WorkspaceAssumption ==
  /\ IsFiniteSet(Orgs) /\ IsFiniteSet(Users) /\ IsFiniteSet(Calls)
  /\ NoOrg \notin Orgs /\ NoUser \notin Users /\ "gone" \notin Users \cup {NoUser}
  /\ MaxTeam \in Nat \ {0} /\ MaxInvites \in Nat
  /\ OfferedRoles \subseteq {"ADMIN", "MEMBER", "VIEWER"}

ASSUME WorkspaceAssumption

VARIABLES
  orgOwner,   \* Organization.ownerId; NoUser: not founded yet; "gone": deleted
  role,       \* role[o][u], "none" if u is not a member
  activeOrg,  \* User.activeOrganizationId
  pending,    \* pending[o]: users with an invitation neither accepted, revoked nor expired
  invited,    \* counter of the bound
  apiKey,     \* an active MCP key: its user and workspace
  call        \* call[c]: the step of a request, its user, workspace and other user

orgRows == <<orgOwner, role, activeOrg>>
workspaceVars == <<orgRows, pending, invited, apiKey, call>>

Roles == {"OWNER", "ADMIN", "MEMBER", "VIEWER"}
NoKey == [user |-> NoUser, org |-> NoOrg]
Free == [step |-> "idle", user |-> NoUser, org |-> NoOrg, other |-> NoUser]
CallSteps == {"idle", "unset", "ready", "create", "personal", "enter", "invite", "revoke",
              "accept", "remove", "reassign", "role", "leave", "moveOn", "delete", "key", "mcp"}

WorkspaceTypeOK ==
  /\ orgOwner \in [Orgs -> Users \cup {NoUser, "gone"}]
  /\ role \in [Orgs -> [Users -> Roles \cup {"none"}]]
  /\ activeOrg \in [Users -> Orgs \cup {NoOrg}]
  /\ pending \in [Orgs -> SUBSET Users] /\ invited \in 0 .. MaxInvites
  /\ apiKey \in [user : Users \cup {NoUser}, org : Orgs \cup {NoOrg}]
  /\ call \in [Calls -> [step : CallSteps, user : Users \cup {NoUser}, org : Orgs \cup {NoOrg},
                         other : Users \cup {NoUser}]]

WorkspaceInit ==
  /\ orgOwner = [o \in Orgs |-> NoUser]
  /\ role = [o \in Orgs |-> [u \in Users |-> "none"]]
  /\ activeOrg = [u \in Users |-> NoOrg]
  /\ pending = [o \in Orgs |-> {}] /\ invited = 0
  /\ apiKey = NoKey
  /\ call = [c \in Calls |-> Free]

Exists(o) == orgOwner[o] \in Users
Members(o) == {u \in Users : role[o][u] # "none"}
TeamSize(o) == Cardinality(Members(o))
RoleIn(u, o) == IF o = NoOrg THEN "none" ELSE role[o][u]
Manages(u, o) == RoleIn(u, o) \in {"OWNER", "ADMIN"}
Owns(u, o) == RoleIn(u, o) = "OWNER"
OwnsAny(u) == \E o \in Orgs : role[o][u] = "OWNER"
OtherOrgs(u, o) == {p \in Orgs \ {o} : role[p][u] # "none"}

\* findFirst: any of them, or none.
SomeOrg(S) == IF S = {} THEN {NoOrg} ELSE S

SetRole(o, u, r) == role' = [role EXCEPT ![o][u] = r]
Goto(c, step) == call' = [call EXCEPT ![c].step = step]
Hangup(c) == call' = [call EXCEPT ![c] = Free]
On(c, step) == call[c].step = step

(***************************************************************************)
(* authMiddleware: the workspace of a request is the active one of its     *)
(* user, if the user is a member of it.                                    *)
(***************************************************************************)
\* Wrong variant: the active workspace is not checked against the memberships.
TrustActive(c, u) ==
  /\ On(c, "idle")
  /\ call' = [call EXCEPT ![c] = [Free EXCEPT !.step = "ready", !.user = u, !.org = activeOrg[u]]]
  /\ UNCHANGED <<orgRows, pending, invited, apiKey>>

Authenticate(c, u) ==
  LET o == activeOrg[u]
      member == RoleIn(u, o) # "none"
  IN /\ On(c, "idle")
     /\ call' = [call EXCEPT ![c] = [Free EXCEPT !.user = u, !.org = IF member THEN o ELSE NoOrg,
                                     !.step = IF o = NoOrg \/ member THEN "ready" ELSE "unset"]]
     /\ UNCHANGED <<orgRows, pending, invited, apiKey>>

Unset(c) ==
  /\ On(c, "unset") /\ Goto(c, "ready")
  /\ activeOrg' = [activeOrg EXCEPT ![call[c].user] = NoOrg]
  /\ UNCHANGED <<orgOwner, role, pending, invited, apiKey>>

(***************************************************************************)
(* What a request looks at before it writes.                               *)
(***************************************************************************)
\* Wrong variant: the owner may be the target.
MayChangeAnybody(u, o, v) == Owns(u, o) /\ role[o][v] # "none"

\* updateMemberRole, removeMember: the owner, on a member who is not an owner.
MayChange(u, o, v) == Owns(u, o) /\ role[o][v] \notin {"none", "OWNER"}

\* inviteMember; updateOrganization and listPendingInvites ask for the same rights.
MayInvite(u, o, v) ==
  /\ Manages(u, o) /\ TeamSize(o) < MaxTeam
  /\ role[o][v] = "none" /\ v \notin pending[o]

\* acceptOrganizationInviteForUser, which reads without locks in its transaction.
RoomInTeam(o) == TeamSize(o) < MaxTeam

Look(c) ==
  LET u == call[c].user
      o == call[c].org
      Next(step, org, other) ==
        call' = [call EXCEPT ![c] = [@ EXCEPT !.step = step, !.org = org, !.other = other]]
  IN /\ On(c, "ready")
     /\ \/ ~OwnsAny(u) /\ Next("create", NoOrg, NoUser)
        \/ /\ activeOrg[u] = NoOrg
           /\ \E p \in SomeOrg({q \in Orgs : orgOwner[q] = u}) : Next("personal", p, NoUser)
        \/ \E p \in Orgs :
             \/ role[p][u] # "none" /\ Next("enter", p, NoUser)
             \/ /\ u \in pending[p] /\ (role[p][u] # "none" \/ RoomInTeam(p))
                /\ Next("accept", p, NoUser)
        \/ \E v \in Users :
             \/ MayInvite(u, o, v) /\ Next("invite", o, v)
             \/ Manages(u, o) /\ v \in pending[o] /\ Next("revoke", o, v)
             \/ MayChange(u, o, v) /\ \E step \in {"remove", "role"} : Next(step, o, v)
        \/ RoleIn(u, o) \notin {"none", "OWNER"} /\ Next("leave", o, NoUser)
        \/ Owns(u, o) /\ Next("delete", o, NoUser)
        \/ Manages(u, o) /\ Next("key", o, NoUser)
        \/ Next("key", NoOrg, NoUser)
     /\ UNCHANGED <<orgRows, pending, invited, apiKey>>

(***************************************************************************)
(* What it writes.                                                         *)
(***************************************************************************)
\* createOrganization: the workspace with its owner, then enter it.
Found(c, o) ==
  /\ orgOwner[o] = NoUser
  /\ orgOwner' = [orgOwner EXCEPT ![o] = call[c].user]
  /\ SetRole(o, call[c].user, "OWNER")

CreateOrg(c, o) ==
  /\ On(c, "create")
  /\ Found(c, o)
  /\ call' = [call EXCEPT ![c] = [@ EXCEPT !.step = "enter", !.org = o]]
  /\ UNCHANGED <<activeOrg, pending, invited, apiKey>>

\* ensurePersonalWorkspace after an activation: a workspace the user owns, or a new one.
EnsurePersonal(c, o) ==
  LET u == call[c].user
  IN /\ On(c, "personal") /\ Hangup(c)
     /\ \/ call[c].org = o /\ Exists(o) /\ SetRole(o, u, "OWNER") /\ UNCHANGED orgOwner
        \/ call[c].org = NoOrg /\ Found(c, o)
     /\ activeOrg' = [activeOrg EXCEPT ![u] = o]
     /\ UNCHANGED <<pending, invited, apiKey>>

\* switchOrganization, the end of createOrganization; a workspace that is gone is refused
\* by the foreign key.
Enter(c) ==
  /\ On(c, "enter") /\ Hangup(c)
  /\ activeOrg' = IF Exists(call[c].org)
                  THEN [activeOrg EXCEPT ![call[c].user] = call[c].org] ELSE activeOrg
  /\ UNCHANGED <<orgOwner, role, pending, invited, apiKey>>

Invite(c) ==
  LET o == call[c].org
  IN /\ On(c, "invite") /\ Hangup(c)
     /\ IF Exists(o) /\ invited < MaxInvites
        THEN pending' = [pending EXCEPT ![o] = @ \cup {call[c].other}] /\ invited' = invited + 1
        ELSE UNCHANGED <<pending, invited>>
     /\ UNCHANGED <<orgRows, apiKey>>

InviteExpires(o, u) ==
  /\ u \in pending[o]
  /\ pending' = [pending EXCEPT ![o] = @ \ {u}]
  /\ UNCHANGED <<orgRows, invited, apiKey, call>>

\* revokeInvite: also one that has been accepted since.
Revoke(c) ==
  /\ On(c, "revoke") /\ Hangup(c)
  /\ pending' = [pending EXCEPT ![call[c].org] = @ \ {call[c].other}]
  /\ UNCHANGED <<orgRows, invited, apiKey>>

\* The transaction commits: membership, invitation and active workspace, or nothing.
Accept(c) ==
  LET o == call[c].org
      u == call[c].user
  IN /\ On(c, "accept") /\ Hangup(c)
     /\ IF ~Exists(o) THEN UNCHANGED <<orgRows, pending>>
        ELSE /\ \E r \in OfferedRoles : SetRole(o, u, IF role[o][u] = "none" THEN r ELSE role[o][u])
             /\ pending' = [pending EXCEPT ![o] = @ \ {u}]
             /\ activeOrg' = [activeOrg EXCEPT ![u] = o]
             /\ UNCHANGED orgOwner
     /\ UNCHANGED <<invited, apiKey>>

\* removeMember and leaveOrganization: delete, find another workspace, make it active.
Remove(c) ==
  /\ On(c, "remove") /\ Goto(c, "reassign")
  /\ SetRole(call[c].org, call[c].other, "none")
  /\ UNCHANGED <<orgOwner, activeOrg, pending, invited, apiKey>>

Reassign(c) ==
  LET v == call[c].other
  IN /\ On(c, "reassign") /\ Hangup(c)
     /\ \E p \in SomeOrg(OtherOrgs(v, call[c].org)) :
          activeOrg' = [activeOrg EXCEPT ![v] = IF @ = call[c].org THEN p ELSE @]
     /\ UNCHANGED <<orgOwner, role, pending, invited, apiKey>>

ChangeRole(c) ==
  /\ On(c, "role") /\ Hangup(c)
  /\ \E r \in OfferedRoles :
       SetRole(call[c].org, call[c].other, IF role[call[c].org][call[c].other] = "none" THEN "none" ELSE r)
  /\ UNCHANGED <<orgOwner, activeOrg, pending, invited, apiKey>>

Leave(c) ==
  /\ On(c, "leave") /\ Goto(c, "moveOn")
  /\ SetRole(call[c].org, call[c].user, "none")
  /\ UNCHANGED <<orgOwner, activeOrg, pending, invited, apiKey>>

\* Unlike removeMember it overwrites whatever workspace is active by now.
MoveOn(c) ==
  /\ On(c, "moveOn") /\ Hangup(c)
  /\ \E p \in SomeOrg(OtherOrgs(call[c].user, call[c].org)) :
       activeOrg' = [activeOrg EXCEPT ![call[c].user] = p]
  /\ UNCHANGED <<orgOwner, role, pending, invited, apiKey>>

\* deleteOrganization: its rows become their users' own, the keys among them; its members
\* go to another workspace; the foreign key clears the active workspace of anybody else.
DeleteOrg(c) ==
  LET o == call[c].org
      Kept(u) == activeOrg[u] # o
  IN /\ On(c, "delete") /\ Hangup(c)
     /\ orgOwner' = [orgOwner EXCEPT ![o] = "gone"]
     /\ role' = [role EXCEPT ![o] = [u \in Users |-> "none"]]
     /\ \E f \in [Users -> Orgs \cup {NoOrg}] :
          /\ \A u \in Users :
               f[u] \in IF Kept(u) THEN {activeOrg[u]}
                        ELSE IF role[o][u] # "none" THEN SomeOrg(OtherOrgs(u, o)) ELSE {NoOrg}
          /\ activeOrg' = f
     /\ pending' = [pending EXCEPT ![o] = {}]
     /\ apiKey' = IF apiKey.org = o THEN [apiKey EXCEPT !.org = NoOrg] ELSE apiKey
     /\ UNCHANGED invited

\* The routes of API keys: create, revoke, delete.
ManageKey(c) ==
  LET u == call[c].user
      o == call[c].org
  IN /\ On(c, "key") /\ Hangup(c)
     /\ \/ apiKey = NoKey /\ (o # NoOrg => Exists(o)) /\ apiKey' = [user |-> u, org |-> o]
        \/ apiKey.org = o /\ (o = NoOrg => apiKey.user = u) /\ apiKey' = NoKey
        \/ UNCHANGED apiKey
     /\ UNCHANGED <<orgRows, pending, invited>>

\* validateMcpApiKey: the key of a workspace is good as long as its user is a member.
UseKey(c) ==
  LET u == apiKey.user
      o == apiKey.org
  IN /\ On(c, "idle") /\ apiKey # NoKey
     /\ o # NoOrg => RoleIn(u, o) # "none"
     /\ call' = [call EXCEPT ![c] = [Free EXCEPT !.step = "mcp", !.user = u, !.org = o]]
     /\ UNCHANGED <<orgRows, pending, invited, apiKey>>

\* A tool runs; neither the role nor the membership is looked at again.
RunTool(c) ==
  /\ On(c, "mcp") /\ Hangup(c)
  /\ UNCHANGED <<orgRows, pending, invited, apiKey>>

CallStep(c) ==
  \/ \E u \in Users : Authenticate(c, u)
  \/ UseKey(c) \/ Unset(c) \/ Look(c) \/ Enter(c) \/ Invite(c) \/ Revoke(c) \/ Accept(c)
  \/ Remove(c) \/ Reassign(c) \/ ChangeRole(c) \/ Leave(c) \/ MoveOn(c) \/ DeleteOrg(c)
  \/ ManageKey(c) \/ RunTool(c)
  \/ \E o \in Orgs : CreateOrg(c, o) \/ EnsurePersonal(c, o)

WorkspaceNext ==
  \/ \E c \in Calls : CallStep(c)
  \/ \E o \in Orgs, u \in Users : InviteExpires(o, u)

WorkspaceSpec == WorkspaceInit /\ [][WorkspaceNext]_workspaceVars

(***************************************************************************)
(* Properties.                                                             *)
(***************************************************************************)
\* A workspace has its owner as its only OWNER, and one that is gone has no members: no
\* removal, change of role, departure or acceptance that looked before another wrote takes
\* that away (organizationControllers.ts:85-130, 243-295, 566-680, 735-775).
OneOwner ==
  \A o \in Orgs :
    /\ Exists(o) => {u \in Users : role[o][u] = "OWNER"} = {orgOwner[o]}
    /\ ~Exists(o) => Members(o) = {}

\* No request and no tool begins in a workspace that its user is not a member of: a removal
\* that a switch, an acceptance or a departure of the same user overtakes leaves the
\* workspace active, but it is not entered (organizationControllers.ts:164-195, 590-612,
\* authMiddleware.ts:46-66, apiKeyService.ts:124-137).
EntersAsMember ==
  [][\A c \in Calls :
       call[c].step = "idle" /\ call'[c].org # NoOrg
         => RoleIn(call'[c].user, call'[c].org) # "none"]_workspaceVars

\* The team limit is exceeded at most by the invitations accepted at the same time as the
\* last one that fits: the count is read in the transaction, which locks nothing
\* (organizationControllers.ts:269-283).
TeamNearlyKept == \A o \in Orgs : TeamSize(o) <= MaxTeam + Cardinality(Calls) - 1

\* Both at once: who is in a workspace is what its owner and the limit allow.
MembershipSound == OneOwner /\ TeamNearlyKept
=============================================================================
