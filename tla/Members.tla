------------------------------ MODULE Members ------------------------------
(***************************************************************************)
(* The members of a workspace (api/src/members) and the invitations by     *)
(* which they join (api/src/invitations).  Requests overlap: each reads,    *)
(* checks and writes in calls of ClickHouse, one action each.               *)
(*                                                                          *)
(* Both tables are ReplacingMergeTree(updated_at): an update inserts a copy *)
(* of the row that was read, the newest row of a key is the one that counts *)
(* and a merge drops the others some time.  ALTER TABLE ... DELETE is a     *)
(* mutation, executed some time after the request has ended.                *)
(***************************************************************************)
EXTENDS Integers, FiniteSets

CONSTANTS
  Users,        \* people, each with one account
  InitialRole,  \* the roles of the first members
  Asked,        \* bound: roles that requests ask for
  TeamCalls,        \* bound: requests; an invitation is named by the teamCall that created it
  MaxTeamFaults     \* bound: requests that fail half-way

Role == {"owner", "admin", "editor", "viewer"}
Rank == [owner |-> 4, admin |-> 3, editor |-> 2, viewer |-> 1]
Manager == {"owner", "admin"}    \* members.invite, members.manage, members.remove

VARIABLES
  rows,      \* workspace_memberships, the rows not merged away
  deletes,   \* mutations to execute: DELETE WHERE id = ...
  offers,    \* invitations: the newest row of each
  clock,     \* the time, counted in writes
  teamCall,  \* what each request does
  teamFaults,  \* counted against its bound
  \* History variables: they record the past and guard nothing.
  teamRaced,  \* was a write ever based on a row that had changed or was to be deleted?
  overlapped,  \* were two requests ever in progress at once?
  twice,     \* users who accepted an invitation while they were members
  gone,      \* users who left or were removed, and have not joined again
  joins,     \* how often each invitation was used
  unmarked   \* invitations used by requests that failed before they marked them

teamPast == <<teamRaced, overlapped, twice, gone, joins, unmarked>>
teamVars == <<rows, deletes, offers, clock, teamCall, teamFaults, teamPast>>

\* A membership keeps its id as its role changes; one made by accept gets a new id.
Id == Users \cup TeamCalls
Row == [user : Users, id : Id, role : Role, stamp : Nat]
Offer == [id : TeamCalls, user : Users, role : Role \ {"owner"}, stamp : Nat,
          status : {"pending", "accepted", "revoked"}, expired : BOOLEAN]
NoMember == [stamp |-> 0]
NoOffer == [status |-> "none"]
TeamNew == [at |-> "new"]
TeamDone == [at |-> "done"]

\* Ids are UUIDs; whoever creates a workspace is its owner.
TeamIsFounded ==
  /\ Users \cap TeamCalls = {} /\ MaxTeamFaults \in Nat
  /\ Asked \subseteq Role
  /\ DOMAIN InitialRole \subseteq Users
  /\ \A u \in DOMAIN InitialRole : InitialRole[u] \in Role
  /\ \E u \in DOMAIN InitialRole : InitialRole[u] = "owner"

\* What a request has read: the role of its actor (as), its target, every membership
\* its checks rest on (seen), an invitation.
TeamRequest == [op : {"updateRole", "remove", "leave", "transfer", "create", "accept",
                      "resend", "revoke"},
                at : {"mine", "target", "count", "pending", "offer", "write", "join", "mark"},
                actor : Users, as : Role, target : Users, role : Role,
                row : Row \cup {NoMember}, mine : Row \cup {NoMember}, seen : SUBSET Row,
                offer : Offer \cup {NoOffer}, invitation : TeamCalls]

\* SELECT ... FINAL.
Newest(u) == {r \in rows : r.user = u /\ \A s \in rows : s.user = u => s.stamp <= r.stamp}
Current == UNION {Newest(u) : u \in Users}
Owners == {r \in Current : r.role = "owner"}
IsMember(u) == Newest(u) # {}
RowOf(u) == CHOOSE r \in Newest(u) : TRUE

TeamTypeOK ==
      /\ rows \in SUBSET Row
      /\ \A r, s \in rows : r.user = s.user /\ r.stamp = s.stamp => r = s
      /\ deletes \in SUBSET [id : Id, stamp : Nat]
      /\ \A i \in TeamCalls : offers[i] = NoOffer \/ (offers[i] \in Offer /\ offers[i].id = i)
      /\ clock \in Nat
      /\ \A c \in TeamCalls : teamCall[c] \in {TeamNew, TeamDone} \/ teamCall[c] \in TeamRequest
      /\ teamFaults \in 0..MaxTeamFaults
      /\ teamRaced \in BOOLEAN /\ overlapped \in BOOLEAN
      /\ twice \subseteq Users /\ gone \subseteq Users
      /\ joins \in [TeamCalls -> Nat]
      /\ unmarked \subseteq TeamCalls

TeamInit ==
      /\ rows = {[user |-> u, id |-> u, role |-> InitialRole[u], stamp |-> 0]
                 : u \in DOMAIN InitialRole}
      /\ deletes = {}
      /\ offers = [c \in TeamCalls |-> NoOffer]
      /\ clock = 0
      /\ teamCall = [c \in TeamCalls |-> TeamNew]
      /\ teamFaults = 0
      /\ teamRaced = FALSE /\ overlapped = FALSE
      /\ twice = {} /\ gone = {}
      /\ joins = [c \in TeamCalls |-> 0]
      /\ unmarked = {}

-----------------------------------------------------------------------------
(* The steps of a request. *)

InProgress == {c \in TeamCalls : teamCall[c].at \notin {"new", "done"}}

Starts(c, request) ==
  /\ teamCall[c] = TeamNew
  /\ teamCall' = [teamCall EXCEPT ![c] = request]
  /\ overlapped' = (overlapped \/ InProgress # {})
  /\ UNCHANGED <<rows, deletes, offers, clock, teamFaults, teamRaced, twice, gone, joins, unmarked>>

\* A read lets the request go on as next, or ends it with an exception.
Reads(c, allowed, next) ==
  /\ teamCall' = [teamCall EXCEPT ![c] = IF allowed THEN next ELSE TeamDone]
  /\ UNCHANGED <<rows, deletes, offers, clock, teamFaults, teamPast>>

IsAt(c, op, at) == c \in InProgress /\ teamCall[c].op = op /\ teamCall[c].at = at

\* A membership that request c has read is no longer what counts, or will not be once a
\* mutation is executed.
Stale(c) ==
  \E r \in teamCall[c].seen : r \notin Current \/ \E d \in deletes : d.id = r.id

\* INSERT INTO workspace_memberships, with the time as updated_at.
Insert(new) ==
  /\ rows' = rows \cup {[r EXCEPT !.stamp = clock + 1] : r \in new}
  /\ clock' = clock + 1

\* WorkspaceAuthGuard: the actor is a member with a role that has the permission of the
\* route.
Guarded(c, op, actor, roles, target, role) ==
  /\ RowOf(actor).role \in roles
  /\ Starts(c, [op |-> op, at |-> IF op = "transfer" THEN "mine" ELSE "target",
                actor |-> actor, as |-> RowOf(actor).role, target |-> target,
                role |-> role, row |-> NoMember, mine |-> NoMember, seen |-> Newest(actor),
                offer |-> NoOffer, invitation |-> c])

-----------------------------------------------------------------------------
(* MembersService. *)

TeamBegins(c) ==
       /\ teamCall[c] = TeamNew
       /\ \E actor \in {u \in Users : IsMember(u)} :
            \/ \E target \in Users :
                 \/ \E role \in Asked : Guarded(c, "updateRole", actor, Manager, target, role)
                 \/ Guarded(c, "remove", actor, Manager, target, "viewer")
                 \/ Guarded(c, "transfer", actor, Role, target, "viewer")
                 \/ \E role \in Asked \ {"owner"} :
                       Guarded(c, "create", actor, Manager, target, role)
            \/ Guarded(c, "leave", actor, Role, actor, "viewer")

\* The checks of updateRole, from the target's role.
MayUpdate(r, targetRole) ==
  /\ r.actor # r.target
  /\ Rank[r.as] > Rank[targetRole]
  /\ IF r.role = "owner" THEN r.as = "owner" ELSE Rank[r.role] < Rank[r.as]

\* The checks of remove, but for the number of owners.
MayRemove(r, targetRole) ==
  /\ r.actor # r.target
  /\ targetRole = "owner" => r.as = "owner"
  /\ targetRole # "owner" => Rank[r.as] > Rank[targetRole]

\* getMembership of the target, and the checks that follow.
ReadTarget(c) ==
  LET r == teamCall[c]
      found == RowOf(r.target)
      next(at) == [r EXCEPT !.at = at, !.row = found, !.seen = @ \cup {found}]
      afterwards == IF found.role = "owner" THEN "count" ELSE "write"
  IN \/ /\ IsAt(c, "updateRole", "target")
        /\ Reads(c, IsMember(r.target) /\ MayUpdate(r, found.role), next("write"))
     \/ /\ IsAt(c, "remove", "target")
        /\ Reads(c, IsMember(r.target) /\ MayRemove(r, found.role), next(afterwards))
     \/ /\ IsAt(c, "leave", "target")
        /\ Reads(c, IsMember(r.target), next(afterwards))
     \/ /\ IsAt(c, "transfer", "target")
        /\ Reads(c, IsMember(r.target), next("write"))

\* transferOwnership: the actor must be an owner, and hand over
\* to somebody else.
MayTransfer(r, myRole) == myRole = "owner" /\ r.actor # r.target

ReadMine(c) ==
  LET r == teamCall[c]
      found == RowOf(r.actor)
  IN /\ IsAt(c, "transfer", "mine")
     /\ Reads(c, IsMember(r.actor) /\ MayTransfer(r, found.role),
              [r EXCEPT !.at = "target", !.mine = found, !.seen = @ \cup {found}])

\* countOwners, and the variant off by one.
AnyOwner(n) == n >= 1
OwnerLeft(n) == n > 1

CountOwners(c) ==
  LET r == teamCall[c]
  IN /\ IsAt(c, "remove", "count") \/ IsAt(c, "leave", "count")
     /\ Reads(c, OwnerLeft(Cardinality(Owners)),
              [r EXCEPT !.at = "write", !.seen = @ \cup Owners])

WriteMembers(c) ==
  LET r == teamCall[c]
  IN /\ IsAt(c, "updateRole", "write") \/ IsAt(c, "transfer", "write")
     /\ Insert(IF r.op = "updateRole" THEN {[r.row EXCEPT !.role = r.role]}
               ELSE {[r.mine EXCEPT !.role = "admin"], [r.row EXCEPT !.role = "owner"]})
     /\ teamRaced' = (teamRaced \/ Stale(c))
     /\ teamCall' = [teamCall EXCEPT ![c] = TeamDone]
     /\ UNCHANGED <<deletes, offers, teamFaults, overlapped, twice, gone, joins, unmarked>>

\* remove and leave submit the mutation and do not wait for it.
DeleteMember(c) ==
  LET r == teamCall[c]
  IN /\ IsAt(c, "remove", "write") \/ IsAt(c, "leave", "write")
     /\ deletes' = deletes \cup {[id |-> r.row.id, stamp |-> clock + 1]}
     /\ clock' = clock + 1
     /\ gone' = gone \cup {r.target}
     /\ teamRaced' = (teamRaced \/ Stale(c))
     /\ teamCall' = [teamCall EXCEPT ![c] = TeamDone]
     /\ UNCHANGED <<rows, offers, teamFaults, overlapped, twice, joins, unmarked>>

-----------------------------------------------------------------------------
(* InvitationsService. *)

\* create: the invited person must not be a member and must have no pending invitation
\* that is still good.
ReadForInvitation(c) ==
  LET r == teamCall[c]
  IN \/ /\ IsAt(c, "create", "target")
        /\ Reads(c, ~IsMember(r.target), [r EXCEPT !.at = "pending"])
     \/ /\ IsAt(c, "create", "pending")
        /\ Reads(c, \A i \in TeamCalls : offers[i] # NoOffer /\ offers[i].user = r.target
                        => offers[i].status # "pending" \/ offers[i].expired,
                 [r EXCEPT !.at = "write"])

\* accept, resend and revoke start by reading the invitation.
BeginInvitation(c) ==
  \E i \in TeamCalls, op \in {"accept", "resend", "revoke"} :
     /\ offers[i] # NoOffer
     /\ Starts(c, [op |-> op, at |-> "offer", actor |-> offers[i].user, as |-> "viewer",
                   target |-> offers[i].user, role |-> offers[i].role, row |-> NoMember,
                   mine |-> NoMember, seen |-> {}, offer |-> NoOffer, invitation |-> i])

ReadOffer(c) ==
  LET r == teamCall[c]
      found == offers[r.invitation]
  IN \/ /\ IsAt(c, "accept", "offer")
        /\ Reads(c, found.status = "pending" /\ ~found.expired,
                 [r EXCEPT !.at = "join", !.offer = found])
     \/ /\ IsAt(c, "resend", "offer") \/ IsAt(c, "revoke", "offer")
        /\ Reads(c, found.status = "pending", [r EXCEPT !.at = "write", !.offer = found])

\* INSERT INTO invitations, of a row stamped earlier than or at the time of the insert.
PutOffer(i, offer) ==
  offers' = [offers EXCEPT ![i] =
               IF @ = NoOffer \/ @.stamp <= offer.stamp THEN offer ELSE @]

WriteOffer(c) ==
  LET r == teamCall[c]
      i == r.invitation
  IN /\ \/ /\ IsAt(c, "create", "write")
           /\ PutOffer(i, [id |-> i, user |-> r.target, role |-> r.role,
                           stamp |-> clock + 1, status |-> "pending", expired |-> FALSE])
           /\ UNCHANGED teamRaced
        \/ /\ IsAt(c, "resend", "write")
           /\ PutOffer(i, [r.offer EXCEPT !.expired = FALSE, !.stamp = clock + 1])
           /\ teamRaced' = (teamRaced \/ offers[i] # r.offer)
        \/ /\ IsAt(c, "revoke", "write")
           /\ PutOffer(i, [r.offer EXCEPT !.status = "revoked", !.stamp = clock + 1])
           /\ teamRaced' = (teamRaced \/ offers[i] # r.offer)
     /\ clock' = clock + 1
     /\ teamCall' = [teamCall EXCEPT ![c] = TeamDone]
     /\ UNCHANGED <<rows, deletes, teamFaults, overlapped, twice, gone, joins, unmarked>>

\* Another request has used the invitation and has not marked it yet.
InUse(c) == \E d \in InProgress \ {c} : IsAt(d, "accept", "mark")
                                            /\ teamCall[d].invitation = teamCall[c].invitation

\* accept creates the membership, whether or not there is one already.
Join(c) ==
  LET r == teamCall[c]
  IN /\ IsAt(c, "accept", "join")
     /\ Insert({[user |-> r.target, id |-> c, role |-> r.offer.role, stamp |-> 0]})
     /\ teamCall' = [teamCall EXCEPT ![c].at = "mark", ![c].offer.stamp = clock + 1]
     /\ teamRaced' = (teamRaced \/ offers[r.invitation] # r.offer \/ InUse(c))
     /\ twice' = IF IsMember(r.target) THEN twice \cup {r.target} ELSE twice
     /\ gone' = gone \ {r.target}
     /\ joins' = [joins EXCEPT ![r.invitation] = @ + 1]
     /\ UNCHANGED <<deletes, offers, teamFaults, overlapped, unmarked>>

\* Then it marks the invitation, with the time taken before the membership was inserted.
StatusMarked == "accepted"

MarkAccepted(c) ==
  LET r == teamCall[c]
  IN /\ IsAt(c, "accept", "mark")
     /\ PutOffer(r.invitation, [r.offer EXCEPT !.status = StatusMarked])
     /\ teamRaced' = (teamRaced \/ offers[r.invitation].stamp > r.offer.stamp)
     /\ teamCall' = [teamCall EXCEPT ![c] = TeamDone]
     /\ UNCHANGED <<rows, deletes, clock, teamFaults, overlapped, twice, gone, joins, unmarked>>

-----------------------------------------------------------------------------
(* The surroundings. *)

\* A teamCall of ClickHouse fails, or the process dies: the request stops where it is.
TeamFails(c) ==
      /\ c \in InProgress
      /\ teamFaults < MaxTeamFaults
      /\ teamFaults' = teamFaults + 1
      /\ unmarked' = IF IsAt(c, "accept", "mark") THEN unmarked \cup {teamCall[c].invitation}
                                                  ELSE unmarked
      /\ teamCall' = [teamCall EXCEPT ![c] = TeamDone]
      /\ UNCHANGED <<rows, deletes, offers, clock, teamRaced, overlapped, twice, gone, joins>>

\* The rows a mutation takes away: all versions that were there when it was submitted, and
\* not only the newest one.
TeamDeleted(d) == {r \in rows : r.id = d.id /\ r.stamp < d.stamp}

Mutate ==
  \E d \in deletes :
     /\ rows' = rows \ TeamDeleted(d)
     /\ deletes' = deletes \ {d}
     /\ UNCHANGED <<offers, clock, teamCall, teamFaults, teamPast>>

Merge ==
  \E u \in Users :
     /\ \E r \in rows \ Current : r.user = u
     /\ rows' = {r \in rows : r.user # u} \cup Newest(u)
     /\ UNCHANGED <<deletes, offers, clock, teamCall, teamFaults, teamPast>>

\* INVITATION_EXPIRY_DAYS pass.
OfferExpires ==
        \E i \in TeamCalls :
           /\ offers[i] # NoOffer /\ offers[i].status = "pending" /\ ~offers[i].expired
           /\ offers' = [offers EXCEPT ![i].expired = TRUE]
           /\ UNCHANGED <<rows, deletes, clock, teamCall, teamFaults, teamPast>>

TeamNext ==
      \/ \E c \in TeamCalls :
           \/ TeamBegins(c) \/ ReadTarget(c) \/ ReadMine(c) \/ CountOwners(c) \/ WriteMembers(c)
           \/ DeleteMember(c) \/ ReadForInvitation(c) \/ BeginInvitation(c) \/ ReadOffer(c)
           \/ WriteOffer(c) \/ Join(c) \/ MarkAccepted(c) \/ TeamFails(c)
      \/ Mutate
      \/ Merge
      \/ OfferExpires

TeamSpec == TeamInit /\ [][TeamNext]_teamVars

-----------------------------------------------------------------------------
(* What the two services guarantee. *)

\* members.service.ts:256, "workspace must always have at least one owner".
HasOwner == Owners # {}

\* There is always an owner as long as no request acts on rows that changed under it or
\* are about to be deleted, and nobody accepts an invitation while being a member.
OwnerRemains == HasOwner \/ teamRaced \/ twice # {}

\* The same when requests merely do not overlap, as a reader of the code expects.
OwnerRemainsInSequence == HasOwner \/ overlapped \/ twice # {}

\* Who left or was removed is no member once the mutation is executed, whatever merges
\* have or have not done, unless some request acted on stale rows or the user had two
\* memberships.
RemovedStaysOut ==
  \A u \in gone : deletes = {} /\ IsMember(u) => teamRaced \/ u \in twice

\* An invitation is used once, unless requests teamRaced or one failed half-way.
AcceptedOnce == \A i \in TeamCalls : joins[i] <= 1 \/ teamRaced \/ i \in unmarked

\* Who is a member was let in: not after being removed, and not twice by one invitation.
MembersWereLetIn == RemovedStaysOut /\ AcceptedOnce

\* The workspace keeps an owner, and nobody is a member but by a way in that was open.
MembershipHolds == OwnerRemains /\ MembersWereLetIn
=============================================================================
