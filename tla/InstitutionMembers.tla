------------------------- MODULE InstitutionMembers -------------------------
(***************************************************************************)
(* The members of one institution: the table institution_users, the        *)
(* deprecated column institutions.auth_user_id, and those who write them.  *)
(*                                                                         *)
(*   api/institution/members      an owner invites, resends an invitation, *)
(*                                gives a member another role or removes it*)
(*   api/auth/accept-invite       the invited user accepts                 *)
(*   api/admin/.../poc-handover   an Acredia admin puts a new owner in the *)
(*                                place of the one that has gone           *)
(*                                                                         *)
(* A request makes its awaited calls one at a time; any number of requests *)
(* of any kind are under way together.  Statements of Postgres, and the    *)
(* function change_institution_member, which locks the rows, are atomic.   *)
(* The mail service is external: it may refuse.                            *)
(***************************************************************************)
EXTENDS Integers, FiniteSets

CONSTANTS
    Users,
    Requests,
    MAX_INSTITUTION_MEMBERS,
    None

Roles == {"owner", "issuer", "viewer"}

ASSUME MembersConstantsOK ==
    MAX_INSTITUTION_MEMBERS \in Nat /\ None \notin Users \cup Roles

VARIABLES
    members,    \* institution_users: at most one row per user (UNIQUE)
    login,      \* institutions.auth_user_id
    accounts,   \* the users with an account; a trigger gives each its profile
    request,    \* what each request knows
    handover    \* the one handover

vars == <<members, login, accounts, request, handover>>

\* "absent": no row.  "expired": an invitation of which invite_expires_at has
\* passed; the column still says invited.  A row keeps its role when it is
\* deactivated.
Membership ==
    [status: {"absent", "invited", "expired", "active", "deactivated"}, role: Roles]

NoMembership == [status |-> "absent", role |-> "viewer"]

Invited(role) == [status |-> "invited", role |-> role]

\* status = 'invited'
Pending == {u \in Users : members[u].status \in {"invited", "expired"}}

ActiveOwners == {u \in Users : members[u].status = "active" /\ members[u].role = "owner"}

ActiveIssuers == {u \in Users : members[u].status = "active" /\ members[u].role # "viewer"}

\* Active members and invitations, expired ones included.
Team == Pending \cup {u \in Users : members[u].status = "active"}

\* resolveInstitutionForUser and canManageMembers: an active owner, or the user
\* of the deprecated column if the membership table has never heard of it.
MayManage(u) ==
    \/ u \in ActiveOwners
    \/ members[u].status = "absent" /\ login = u

\* `user': the caller, until the request turns to one member.
Idle == [phase |-> "idle", user |-> None]

TypeOK ==
    /\ members \in [Users -> Membership]
    /\ login \in Users \cup {None}
    /\ accounts \subseteq Users
    /\ request \in [Requests ->
          {Idle} \cup [phase: {"owner", "counted", "former", "mailing", "newAddress",
                               "invitedNew", "resending", "resent", "accepting"},
                       user: Users]]
    /\ handover \in [phase: {"none", "deactivated", "failed", "done"}, user: {None}]
                    \cup [phase: {"read"}, user: Users \cup {None}]
                    \cup [phase: {"provisioned", "appointed"}, user: Users]

\* api/admin/institutions has provisioned the institution and invited its first
\* owner; the row of the invitation may be missing.
Init ==
    /\ login \in Users
    /\ members \in {[u \in Users |-> IF u = login THEN row ELSE NoMembership] :
                       row \in {NoMembership, Invited("owner")}}
    /\ accounts = {login}
    /\ request = [r \in Requests |-> Idle]
    /\ handover = [phase |-> "none", user |-> None]

-----------------------------------------------------------------------------
(* A request: Enter(r, p, u) is its next await, and it may fail at any.     *)

Enter(r, phase, user) == request' = [request EXCEPT ![r] = [phase |-> phase, user |-> user]]

Finish(r) == request' = [request EXCEPT ![r] = Idle]

\* A query fails, the guard of the function raises an error, the caller is told
\* that the address is in use, the server stops.
Abort(r) ==
    /\ request[r].phase # "idle"
    /\ Finish(r)
    /\ UNCHANGED <<members, login, accounts, handover>>

\* requireInstitutionMemberRequest.  What the caller may do is not looked at
\* again.
Authorize(r, u) ==
    /\ request[r].phase = "idle"
    /\ MayManage(u)
    /\ Enter(r, "owner", u)
    /\ UNCHANGED <<members, login, accounts, handover>>

-----------------------------------------------------------------------------
(* change_institution_member.                                               *)

OwnersLeft(target) == ActiveOwners \ {target} # {}
IssuersLeft(target) == ActiveIssuers \ {target} # {}

\* The count of the others takes in the invited.
KeepsOwnerLoosely(target, role) ==
    target \in ActiveOwners /\ role # "owner"
        => \E u \in Team \ {target} : members[u].role = "owner"

KeepsOwner(target, role) ==
    target \in ActiveOwners /\ role # "owner" => OwnersLeft(target)

KeepsIssuerUnchecked(target, role) == TRUE

KeepsIssuer(target, role) ==
    target \in ActiveIssuers /\ role \notin {"owner", "issuer"} => IssuersLeft(target)

\* A member that loses the role by which it held the login keeps the login.
HandOnLoginOnRemoval(target, role) ==
    IF role = None /\ login = target
    THEN login' \in IF OwnersLeft(target) THEN ActiveOwners \ {target} ELSE {None}
    ELSE UNCHANGED login

\* The longest-standing of the other owners gets the login; who that is is left
\* open.
HandOnLogin(target, role) ==
    IF role # "owner" /\ login = target
    THEN login' \in IF OwnersLeft(target) THEN ActiveOwners \ {target} ELSE {None}
    ELSE UNCHANGED login

\* role = None stands for the action `remove'.
Changed(row, role) ==
    IF role = None THEN [row EXCEPT !.status = "deactivated"] ELSE [row EXCEPT !.role = role]

ChangeMember(r, target, role) ==
    /\ request[r].phase = "owner"
    /\ target \in Team
    /\ KeepsOwner(target, role)
    /\ KeepsIssuer(target, role)
    /\ members' = [members EXCEPT ![target] = Changed(@, role)]
    /\ HandOnLogin(target, role)
    /\ Finish(r)
    /\ UNCHANGED <<accounts, handover>>

-----------------------------------------------------------------------------
(* inviteInstitutionMember.                                                 *)

CountTeam(r) ==
    /\ request[r].phase = "owner"
    /\ Cardinality(Team) < MAX_INSTITUTION_MEMBERS
    /\ Enter(r, "counted", request[r].user)
    /\ UNCHANGED <<members, login, accounts, handover>>

\* The address has a profile, and a membership of this institution that is
\* deactivated.  Any other account is refused, and so is the caller's own.
FindFormerMember(r, u) ==
    /\ request[r].phase = "counted"
    /\ u \in accounts \ {request[r].user}
    /\ members[u].status = "deactivated"
    /\ Enter(r, "former", u)
    /\ UNCHANGED <<members, login, accounts, handover>>

\* The update matches no row if another request has reopened it meanwhile, and
\* that is no error.
ReopenMembership(r) ==
    LET u == request[r].user IN
    /\ request[r].phase = "former"
    /\ \E role \in Roles :
         IF members[u].status = "deactivated"
         THEN members' = [members EXCEPT ![u] = Invited(role)]
         ELSE UNCHANGED members
    /\ Enter(r, "mailing", u)
    /\ UNCHANGED <<login, accounts, handover>>

DeliverInvitation(r) ==
    /\ request[r].phase = "mailing"
    /\ Finish(r)
    /\ UNCHANGED <<members, login, accounts, handover>>

\* The membership is closed again.
DeliveryFails(r) ==
    LET u == request[r].user IN
    /\ request[r].phase = "mailing"
    /\ IF u \in Pending
       THEN members' = [members EXCEPT ![u].status = "deactivated"]
       ELSE UNCHANGED <<members>>
    /\ Finish(r)
    /\ UNCHANGED <<login, accounts, handover>>

\* No profile has the address.
FindNewAddress(r, u) ==
    /\ request[r].phase = "counted"
    /\ u \notin accounts \cup {request[r].user}
    /\ Enter(r, "newAddress", u)
    /\ UNCHANGED <<members, login, accounts, handover>>

\* The account is created and mailed before a membership is written.  An
\* account that another request has created meanwhile, and that nobody has
\* signed in to, is mailed again.
InviteNewAccount(r) ==
    /\ request[r].phase = "newAddress"
    /\ accounts' = accounts \cup {request[r].user}
    /\ Enter(r, "invitedNew", request[r].user)
    /\ UNCHANGED <<members, login, handover>>

\* UNIQUE (institution_id, auth_user_id): a second row of the user is refused.
InsertMembership(r) ==
    LET u == request[r].user IN
    /\ request[r].phase = "invitedNew"
    /\ members[u].status = "absent"
    /\ \E role \in Roles : members' = [members EXCEPT ![u] = Invited(role)]
    /\ Finish(r)
    /\ UNCHANGED <<login, accounts, handover>>

-----------------------------------------------------------------------------
(* resendMemberInvitation.                                                  *)

FindInvitation(r, u) ==
    /\ request[r].phase = "owner"
    /\ u \in Pending
    /\ Enter(r, "resending", u)
    /\ UNCHANGED <<members, login, accounts, handover>>

ResendInvitation(r) ==
    /\ request[r].phase = "resending"
    /\ Enter(r, "resent", request[r].user)
    /\ UNCHANGED <<members, login, accounts, handover>>

RestartWindow(r) ==
    LET u == request[r].user IN
    /\ request[r].phase = "resent"
    /\ members' = IF u \in Pending THEN [members EXCEPT ![u].status = "invited"] ELSE members
    /\ Finish(r)
    /\ UNCHANGED <<login, accounts, handover>>

\* Seven days have passed.
InvitationExpires(u) ==
    /\ members[u].status = "invited"
    /\ members' = [members EXCEPT ![u].status = "expired"]
    /\ UNCHANGED <<login, accounts, request, handover>>

-----------------------------------------------------------------------------
(* accept-invite.                                                           *)

FindAcceptable(r, u) ==
    /\ request[r].phase = "idle"
    /\ members[u].status = "invited"
    /\ Enter(r, "accepting", u)
    /\ UNCHANGED <<members, login, accounts, handover>>

\* The row is found by its id alone.
AcceptUnguarded(r) ==
    LET u == request[r].user IN
    /\ request[r].phase = "accepting"
    /\ members' = [members EXCEPT ![u].status = "active"]
    /\ Finish(r)
    /\ UNCHANGED <<login, accounts, handover>>

\* An update that matches no row is no error: the caller is told of success.
Accept(r) ==
    LET u == request[r].user IN
    /\ request[r].phase = "accepting"
    /\ IF u \in Pending
       THEN members' = [members EXCEPT ![u].status = "active"]
       ELSE UNCHANGED <<members>>
    /\ Finish(r)
    /\ UNCHANGED <<login, accounts, handover>>

-----------------------------------------------------------------------------
(* poc-handover: no lock, and no guard.                                     *)

EnterHandover(phase, user) == handover' = [phase |-> phase, user |-> user]

ReadInstitution ==
    /\ handover.phase = "none"
    /\ EnterHandover("read", login)
    /\ UNCHANGED <<members, login, accounts, request>>

\* The member that had the login when the institution was read.  An error of
\* the update is not looked at.
DeactivateOldPoc ==
    LET old == handover.user IN
    /\ handover.phase = "read"
    /\ \/ /\ old # None
          /\ members[old].status # "absent"
          /\ members' = [members EXCEPT ![old].status = "deactivated"]
       \/ UNCHANGED <<members>>
    /\ EnterHandover("deactivated", None)
    /\ UNCHANGED <<login, accounts, request>>

\* A new account, or one that exists under the address.
ProvisionNewPoc(u) ==
    /\ handover.phase = "deactivated"
    /\ accounts' = accounts \cup {u}
    /\ EnterHandover("provisioned", u)
    /\ UNCHANGED <<members, login, request>>

AppointNewPoc ==
    /\ handover.phase = "provisioned"
    /\ login' = handover.user
    /\ EnterHandover("appointed", handover.user)
    /\ UNCHANGED <<members, accounts, request>>

UpsertNewOwner ==
    LET new == handover.user IN
    /\ handover.phase = "appointed"
    /\ members' = [members EXCEPT ![new].status = "active", ![new].role = "owner"]
    /\ EnterHandover("done", None)
    /\ UNCHANGED <<login, accounts, request>>

\* Nobody looks at the result of the last upsert; the other steps answer with
\* an error.
HandoverFails ==
    /\ handover.phase \in {"read", "deactivated", "provisioned", "appointed"}
    /\ EnterHandover("failed", None)
    /\ UNCHANGED <<members, login, accounts, request>>

-----------------------------------------------------------------------------

Manage(r) ==
    \/ \E u \in Users : Authorize(r, u)
    \/ \E u \in Users, role \in Roles \cup {None} : ChangeMember(r, u, role)

Invite(r) ==
    \/ CountTeam(r)
    \/ \E u \in Users : FindFormerMember(r, u) \/ FindNewAddress(r, u)
    \/ ReopenMembership(r)
    \/ DeliverInvitation(r)
    \/ DeliveryFails(r)
    \/ InviteNewAccount(r)
    \/ InsertMembership(r)

Resend(r) ==
    \/ \E u \in Users : FindInvitation(r, u)
    \/ ResendInvitation(r)
    \/ RestartWindow(r)

AcceptInvite(r) ==
    \/ \E u \in Users : FindAcceptable(r, u)
    \/ Accept(r)

Handover ==
    \/ ReadInstitution
    \/ DeactivateOldPoc
    \/ \E u \in Users : ProvisionNewPoc(u)
    \/ AppointNewPoc
    \/ UpsertNewOwner
    \/ HandoverFails

Next ==
    \/ \E r \in Requests : Manage(r) \/ Invite(r) \/ Resend(r) \/ AcceptInvite(r) \/ Abort(r)
    \/ \E u \in Users : InvitationExpires(u)
    \/ Handover

Spec == Init /\ [][Next]_vars

-----------------------------------------------------------------------------
(* Properties.                                                              *)

\* The step by which a handover takes the place of its former owner away.
HandoverDeactivates == handover.phase = "read" /\ handover'.phase = "deactivated"

(* However requests to remove or demote meet, also those of owners that are *)
(* none any more when the request is carried out, an institution that has   *)
(* an active owner has one afterwards, unless a handover takes the last.    *)
OwnerKept == [][ActiveOwners # {} => ActiveOwners' # {} \/ HandoverDeactivates]_vars

(* The same for members who may issue, in an institution without an owner   *)
(* too: one a handover has left that way, with requests of its former owner *)
(* still under way.                                                         *)
IssuerKept == [][ActiveIssuers # {} => ActiveIssuers' # {} \/ HandoverDeactivates]_vars

(* A removed member, and one whose invitation was withdrawn while it was    *)
(* being accepted, has to be invited again: only a handover makes a member  *)
(* of it at once.                                                           *)
RemovedStaysOut ==
    [][\A u \in Users : members[u].status = "deactivated" /\ members'[u].status = "active"
           => handover.phase = "appointed" /\ handover.user = u]_vars

(* The deprecated column names nobody who has lost the rights of an owner,  *)
(* while no handover is under way or has failed: whoever it names is an     *)
(* active owner, the invited first one, or without a membership.            *)
LoginIsOwner ==
    handover.phase \in {"none", "done"} /\ login # None =>
        \/ login \in ActiveOwners
        \/ login \in Pending /\ members[login].role = "owner"
        \/ members[login].status = "absent"
=============================================================================
