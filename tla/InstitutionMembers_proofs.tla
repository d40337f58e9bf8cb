--------------------- MODULE InstitutionMembers_proofs ---------------------
(* Theorems about InstitutionMembers, for any number of users and requests  *)
(* and any limit of the team.                                               *)
EXTENDS InstitutionMembers, TLAPS

NamesOwner == login \in ActiveOwners \cup {None}

(* The first owner has not yet accepted: nobody is re-inviting it.          *)
FirstOwnerInvited ==
    /\ login \in Pending
    /\ members[login].role = "owner"
    /\ \A r \in Requests : request[r].user = login
                             => request[r].phase \notin {"former", "mailing"}

(* The first owner has no membership: it will get none by an invitation,    *)
(* since it has an account.                                                 *)
FirstOwnerUnlinked ==
    /\ login \in accounts
    /\ members[login].status = "absent"
    /\ \A r \in Requests : request[r].user = login
                             => request[r].phase \notin {"newAddress", "invitedNew"}

(* LoginIsOwner, strengthened: a request that is under way against the user *)
(* with the login, and a handover between its two last writes.              *)
LoginInv ==
    /\ handover.phase = "none" => NamesOwner \/ FirstOwnerInvited \/ FirstOwnerUnlinked
    /\ handover.phase = "appointed" => NamesOwner \/ login = handover.user
    /\ handover.phase = "done" => NamesOwner

IInv == TypeOK /\ LoginInv

-----------------------------------------------------------------------------

LEMMA InitIInv == Init => IInv
  BY MembersConstantsOK
     DEF Init, IInv, TypeOK, LoginInv, NamesOwner, FirstOwnerInvited,
         FirstOwnerUnlinked, Pending, NoMembership, Invited, Membership, Roles, Idle

(* A request goes on to a phase that concerns the caller, or nobody.        *)
LEMMA RequestOnly ==
    ASSUME IInv, NEW r \in Requests,
           UNCHANGED <<members, login, accounts, handover>>,
           request' \in [Requests -> {Idle} \cup
               [phase: {"owner", "counted", "former", "mailing", "newAddress",
                        "invitedNew", "resending", "resent", "accepting"}, user: Users]],
           \A q \in Requests \ {r} : request'[q] = request[q],
           request'[r].phase \in {"former", "mailing"} =>
               \/ request[r].phase \in {"former", "mailing"} /\ request[r].user = request'[r].user
               \/ request'[r].user \notin Pending,
           request'[r].phase \in {"newAddress", "invitedNew"} =>
               \/ request[r].phase \in {"newAddress", "invitedNew"} /\ request[r].user = request'[r].user
               \/ request'[r].user \notin accounts
    PROVE  IInv'
  <1>1. TypeOK'
    BY DEF IInv, TypeOK
  <1>2. ActiveOwners' = ActiveOwners /\ Pending' = Pending
    BY DEF ActiveOwners, Pending
  <1>3. LoginInv'
    BY <1>2 DEF IInv, LoginInv, NamesOwner, FirstOwnerInvited, FirstOwnerUnlinked
  <1> QED
    BY <1>1, <1>3 DEF IInv

(* What an email or an expiry does, and what an acceptance does: the owners *)
(* stay, and an invited one may become one.                                 *)
LEMMA OwnersGrow ==
    ASSUME IInv, TypeOK', UNCHANGED <<login, accounts, handover>>,
           ActiveOwners \subseteq ActiveOwners',
           \A r \in Requests : request'[r] \in {request[r], Idle},
           FirstOwnerInvited =>
               \/ login \in Pending' /\ members'[login].role = "owner"
               \/ login \in ActiveOwners',
           FirstOwnerUnlinked => members'[login].status = "absent"
    PROVE  IInv'
  <1>1. NamesOwner => NamesOwner'
    BY DEF NamesOwner
  <1>2. FirstOwnerInvited => FirstOwnerInvited' \/ NamesOwner'
    BY MembersConstantsOK DEF FirstOwnerInvited, NamesOwner, Idle
  <1>3. FirstOwnerUnlinked => FirstOwnerUnlinked'
    BY MembersConstantsOK DEF FirstOwnerUnlinked, Idle, IInv, TypeOK
  <1> QED
    BY <1>1, <1>2, <1>3 DEF IInv, LoginInv

LEMMA ChangeMemberIInv ==
    ASSUME IInv, NEW r \in Requests, NEW target \in Users, NEW role \in Roles \cup {None},
           ChangeMember(r, target, role)
    PROVE  IInv'
  <1> USE MembersConstantsOK
  <1>1. members'[target] = Changed(members[target], role)
        /\ \A u \in Users \ {target} : members'[u] = members[u]
    BY DEF ChangeMember, IInv, TypeOK
  <1>2. TypeOK'
    <2>1. Changed(members[target], role) \in Membership
      BY DEF Changed, Membership, IInv, TypeOK
    <2>2. login' \in Users \cup {None}
      BY DEF ChangeMember, HandOnLogin, ActiveOwners, IInv, TypeOK
    <2> QED
      BY <2>1, <2>2 DEF ChangeMember, Finish, IInv, TypeOK
  <1>3. ActiveOwners \ {target} \subseteq ActiveOwners'
    BY <1>1 DEF ActiveOwners
  <1>4. CASE login = target /\ role # "owner"
    <2>1. login' \in (ActiveOwners \ {target}) \cup {None}
      BY <1>4 DEF ChangeMember, HandOnLogin
    <2>2. NamesOwner'
      BY <1>3, <2>1 DEF NamesOwner
    <2> QED
      BY <1>2, <2>2 DEF IInv, LoginInv
  <1>5. CASE login = target /\ role = "owner"
    <2>1. members'[target].status = members[target].status /\ members'[target].role = "owner"
      BY <1>1, <1>5 DEF Changed, IInv, TypeOK, Membership, Roles
    <2>2. login' = login /\ handover' = handover /\ accounts' = accounts
      BY <1>5 DEF ChangeMember, HandOnLogin
    <2>3. ActiveOwners \subseteq ActiveOwners'
      BY <1>3, <1>5, <2>1 DEF ActiveOwners
    <2>4. FirstOwnerInvited => login \in Pending' /\ members'[login].role = "owner"
      BY <1>5, <2>1 DEF FirstOwnerInvited, Pending
    <2>5. FirstOwnerUnlinked => members'[login].status = "absent"
      BY <1>5, <2>1 DEF FirstOwnerUnlinked
    <2>6. \A q \in Requests : request'[q] \in {request[q], Idle}
      BY DEF ChangeMember, Finish, IInv, TypeOK
    <2> QED
      BY <1>2, <2>2, <2>3, <2>4, <2>5, <2>6, OwnersGrow
  <1>6. CASE login # target
    <2>1. login' = login /\ handover' = handover /\ accounts' = accounts
      BY <1>6 DEF ChangeMember, HandOnLogin
    <2>2. NamesOwner => NamesOwner'
      BY <1>3, <1>6, <2>1 DEF NamesOwner
    <2>3. \A q \in Requests : request'[q] \in {request[q], Idle}
      BY DEF ChangeMember, Finish, IInv, TypeOK
    <2>4. FirstOwnerInvited => FirstOwnerInvited'
      BY <1>1, <1>6, <2>1, <2>3 DEF FirstOwnerInvited, Pending, Idle
    <2>5. FirstOwnerUnlinked => FirstOwnerUnlinked'
      BY <1>1, <1>6, <2>1, <2>3 DEF FirstOwnerUnlinked, Idle, IInv, TypeOK
    <2> QED
      BY <1>2, <2>1, <2>2, <2>4, <2>5 DEF IInv, LoginInv
  <1> QED
    BY <1>2, <1>4, <1>5, <1>6 DEF IInv

LEMMA RequestIInv ==
    ASSUME IInv, NEW r \in Requests,
           \/ Abort(r)
           \/ \E u \in Users : \/ Authorize(r, u)
                              \/ FindFormerMember(r, u)
                              \/ FindNewAddress(r, u)
                              \/ FindInvitation(r, u)
                              \/ FindAcceptable(r, u)
           \/ CountTeam(r)
           \/ ResendInvitation(r)
    PROVE  IInv'
  <1> USE DEF Enter, Finish, Idle, IInv, TypeOK
  <1>1. CASE Abort(r)
    BY <1>1, RequestOnly DEF Abort
  <1>2. ASSUME NEW u \in Users, Authorize(r, u) PROVE IInv'
    BY <1>2, RequestOnly DEF Authorize
  <1>3. ASSUME NEW u \in Users, FindFormerMember(r, u) PROVE IInv'
    BY <1>3, RequestOnly DEF FindFormerMember, Pending
  <1>4. ASSUME NEW u \in Users, FindNewAddress(r, u) PROVE IInv'
    BY <1>4, RequestOnly DEF FindNewAddress
  <1>5. ASSUME NEW u \in Users, FindInvitation(r, u) PROVE IInv'
    BY <1>5, RequestOnly DEF FindInvitation
  <1>6. ASSUME NEW u \in Users, FindAcceptable(r, u) PROVE IInv'
    BY <1>6, RequestOnly DEF FindAcceptable
  <1>7. CASE CountTeam(r)
    BY <1>7, RequestOnly DEF CountTeam
  <1>8. CASE ResendInvitation(r)
    BY <1>8, RequestOnly DEF ResendInvitation
  <1> QED
    BY <1>1, <1>2, <1>3, <1>4, <1>5, <1>6, <1>7, <1>8

LEMMA DeliverInvitationIInv ==
    ASSUME IInv, NEW r \in Requests, DeliverInvitation(r)
    PROVE  IInv'
  <1>1. TypeOK'
    BY DEF DeliverInvitation, Finish, IInv, TypeOK, Idle
  <1> QED
    BY <1>1, OwnersGrow
       DEF DeliverInvitation, Finish, ActiveOwners, Pending, FirstOwnerInvited,
           FirstOwnerUnlinked, IInv, TypeOK

LEMMA DeliveryFailsIInv ==
    ASSUME IInv, NEW r \in Requests, DeliveryFails(r)
    PROVE  IInv'
  <1>1. PICK u \in Users : u = request[r].user
    BY DEF DeliveryFails, IInv, TypeOK, Idle
  <1>2. TypeOK'
    BY <1>1 DEF DeliveryFails, Finish, IInv, TypeOK, Idle, Membership
  <1>3. /\ \A v \in Users \ {u} : members'[v] = members[v]
        /\ u \notin Pending => members'[u] = members[u]
    BY <1>1 DEF DeliveryFails, IInv, TypeOK
  <1>4. ActiveOwners \subseteq ActiveOwners'
    BY <1>3 DEF ActiveOwners, Pending
  <1>5. FirstOwnerInvited => login # u /\ login \in Users
    BY <1>1 DEF FirstOwnerInvited, DeliveryFails, Pending
  <1>6. FirstOwnerUnlinked => members'[login].status = "absent"
    BY <1>3 DEF FirstOwnerUnlinked, Pending, IInv, TypeOK
  <1>7. \A q \in Requests : request'[q] \in {request[q], Idle}
    BY DEF DeliveryFails, Finish, IInv, TypeOK
  <1>8. UNCHANGED <<login, accounts, handover>>
    BY DEF DeliveryFails
  <1>9. FirstOwnerInvited => login \in Pending' /\ members'[login].role = "owner"
    BY <1>3, <1>5, <1>8 DEF FirstOwnerInvited, Pending
  <1> QED
    BY <1>2, <1>4, <1>6, <1>7, <1>8, <1>9, OwnersGrow

(* Reopening reaches nobody who is an owner or invited, but the request is  *)
(* about to mail the user it has reopened.                                  *)
LEMMA ReopenMembershipIInv ==
    ASSUME IInv, NEW r \in Requests, ReopenMembership(r)
    PROVE  IInv'
  <1>1. PICK u \in Users : u = request[r].user
    BY DEF ReopenMembership, IInv, TypeOK, Idle
  <1>2. /\ request[r].phase = "former"
        /\ request' = [request EXCEPT ![r] = [phase |-> "mailing", user |-> u]]
        /\ UNCHANGED <<login, accounts, handover>>
    BY <1>1 DEF ReopenMembership, Enter
  <1>3. \/ members' = members
        \/ /\ members[u].status = "deactivated"
           /\ \E role \in Roles : members' = [members EXCEPT ![u] = Invited(role)]
    <2>1. PICK role \in Roles :
             IF members[u].status = "deactivated"
             THEN members' = [members EXCEPT ![u] = Invited(role)]
             ELSE UNCHANGED members
      BY <1>1 DEF ReopenMembership
    <2> QED
      BY <2>1
  <1>4. TypeOK'
    BY <1>2, <1>3 DEF IInv, TypeOK, Invited, Membership, Roles
  <1>5. \A v \in Users : members[v].status # "deactivated" => members'[v] = members[v]
    BY <1>3 DEF IInv, TypeOK
  <1>6. NamesOwner => NamesOwner'
    BY <1>2, <1>5 DEF NamesOwner, ActiveOwners
  <1>7. FirstOwnerInvited => FirstOwnerInvited'
    BY <1>1, <1>2, <1>5 DEF FirstOwnerInvited, Pending, IInv, TypeOK
  <1>8. FirstOwnerUnlinked => FirstOwnerUnlinked'
    BY <1>2, <1>5 DEF FirstOwnerUnlinked, IInv, TypeOK
  <1> QED
    BY <1>2, <1>4, <1>6, <1>7, <1>8 DEF IInv, LoginInv

LEMMA InviteNewAccountIInv ==
    ASSUME IInv, NEW r \in Requests, InviteNewAccount(r)
    PROVE  IInv'
  <1>1. TypeOK'
    BY DEF InviteNewAccount, Enter, IInv, TypeOK, Idle
  <1>2. ActiveOwners' = ActiveOwners /\ Pending' = Pending
    BY DEF InviteNewAccount, ActiveOwners, Pending
  <1>3. NamesOwner' = NamesOwner /\ UNCHANGED <<login, members, handover>>
    BY <1>2 DEF InviteNewAccount, NamesOwner
  <1>4. FirstOwnerInvited => FirstOwnerInvited'
    BY <1>2, <1>3 DEF InviteNewAccount, Enter, FirstOwnerInvited, IInv, TypeOK
  <1>5. FirstOwnerUnlinked => FirstOwnerUnlinked'
    BY <1>3 DEF InviteNewAccount, Enter, FirstOwnerUnlinked, IInv, TypeOK
  <1> QED
    BY <1>1, <1>3, <1>4, <1>5 DEF IInv, LoginInv

LEMMA InsertMembershipIInv ==
    ASSUME IInv, NEW r \in Requests, InsertMembership(r)
    PROVE  IInv'
  <1>0. PICK u \in Users : u = request[r].user
    BY DEF InsertMembership, IInv, TypeOK, Idle
  <1>1. PICK role \in Roles :
           u = request[r].user /\ members' = [members EXCEPT ![u] = Invited(role)]
    BY <1>0 DEF InsertMembership
  <1>2. TypeOK'
    BY <1>1 DEF InsertMembership, Finish, IInv, TypeOK, Idle, Invited, Membership, Roles
  <1>3. members[u].status = "absent" /\ \A v \in Users \ {u} : members'[v] = members[v]
    BY <1>1 DEF InsertMembership, IInv, TypeOK
  <1>4. ActiveOwners \subseteq ActiveOwners'
    BY <1>3 DEF ActiveOwners
  <1>5. UNCHANGED <<login, handover, accounts>>
    BY DEF InsertMembership
  <1>6. FirstOwnerInvited => login \in Pending' /\ members'[login].role = "owner"
    BY <1>3, <1>5 DEF FirstOwnerInvited, Pending
  <1>7. FirstOwnerUnlinked => members'[login].status = "absent"
    BY <1>1, <1>3 DEF FirstOwnerUnlinked, InsertMembership, IInv, TypeOK
  <1>8. \A q \in Requests : request'[q] \in {request[q], Idle}
    BY DEF InsertMembership, Finish, IInv, TypeOK
  <1> QED
    BY <1>2, <1>4, <1>5, <1>6, <1>7, <1>8, OwnersGrow

(* A step that turns one invited member into a member, or renews or ends    *)
(* its window.                                                              *)
LEMMA PendingTurns ==
    ASSUME IInv, TypeOK', NEW u \in Pending,
           UNCHANGED <<login, accounts, handover>>,
           members'[u].status \in {"invited", "expired", "active"},
           members'[u].role = members[u].role,
           \A v \in Users \ {u} : members'[v] = members[v],
           \A q \in Requests : request'[q] \in {request[q], Idle}
    PROVE  IInv'
  <1>1. ActiveOwners \subseteq ActiveOwners'
    BY DEF ActiveOwners, Pending
  <1>2. FirstOwnerInvited => \/ login \in Pending' /\ members'[login].role = "owner"
                             \/ login \in ActiveOwners'
    BY DEF FirstOwnerInvited, ActiveOwners, Pending
  <1>3. FirstOwnerUnlinked => members'[login].status = "absent"
    BY DEF FirstOwnerUnlinked, Pending, IInv, TypeOK
  <1> QED
    BY <1>1, <1>2, <1>3, OwnersGrow

LEMMA WindowIInv ==
    ASSUME IInv, \/ \E r \in Requests : RestartWindow(r) \/ Accept(r)
                 \/ \E u \in Users : InvitationExpires(u)
    PROVE  IInv'
  <1> USE DEF Finish, Membership
  <1>1. ASSUME NEW r \in Requests, RestartWindow(r) PROVE IInv'
    <2>1. TypeOK'
      BY <1>1 DEF RestartWindow, IInv, TypeOK, Idle
    <2>2. CASE request[r].user \in Pending
      BY <1>1, <2>1, <2>2, PendingTurns DEF RestartWindow, Pending, IInv, TypeOK
    <2>3. CASE request[r].user \notin Pending
      BY <1>1, <2>3, RequestOnly DEF RestartWindow, IInv, TypeOK, Idle
    <2> QED
      BY <2>2, <2>3
  <1>2. ASSUME NEW r \in Requests, Accept(r) PROVE IInv'
    <2>1. TypeOK'
      BY <1>2 DEF Accept, IInv, TypeOK, Idle
    <2>2. CASE request[r].user \in Pending
      BY <1>2, <2>1, <2>2, PendingTurns DEF Accept, Pending, IInv, TypeOK
    <2>3. CASE request[r].user \notin Pending
      BY <1>2, <2>3, RequestOnly DEF Accept, IInv, TypeOK, Idle
    <2> QED
      BY <2>2, <2>3
  <1>3. ASSUME NEW u \in Users, InvitationExpires(u) PROVE IInv'
    <2>1. TypeOK'
      BY <1>3 DEF InvitationExpires, IInv, TypeOK
    <2> QED
      BY <1>3, <2>1, PendingTurns DEF InvitationExpires, Pending, IInv, TypeOK
  <1> QED
    BY <1>1, <1>2, <1>3

LEMMA HandoverIInv ==
    ASSUME IInv, Handover
    PROVE  IInv'
  <1> USE DEF EnterHandover, IInv, TypeOK, LoginInv
  <1>1. CASE ReadInstitution
    BY <1>1 DEF ReadInstitution
  <1>2. CASE DeactivateOldPoc
    <2>1. members' \in [Users -> Membership]
      <3>1. CASE UNCHANGED members
        BY <3>1
      <3>2. ASSUME NEW old \in Users,
                   members' = [members EXCEPT ![old].status = "deactivated"]
            PROVE  members' \in [Users -> Membership]
        BY <3>2 DEF Membership
      <3> QED
        BY <1>2, <3>1, <3>2 DEF DeactivateOldPoc
    <2> QED
      BY <1>2, <2>1 DEF DeactivateOldPoc
  <1>3. ASSUME NEW u \in Users, ProvisionNewPoc(u) PROVE IInv'
    BY <1>3 DEF ProvisionNewPoc
  <1>4. CASE AppointNewPoc
    BY <1>4 DEF AppointNewPoc
  <1>5. CASE UpsertNewOwner
    <2>1. PICK new \in Users : new = handover.user
      BY <1>5 DEF UpsertNewOwner
    <2>2. /\ members'[new].status = "active"
          /\ members'[new].role = "owner"
          /\ \A v \in Users \ {new} : members'[v] = members[v]
      BY <1>5, <2>1 DEF UpsertNewOwner, Membership
    <2>3. TypeOK'
      BY <1>5, <2>1 DEF UpsertNewOwner, Membership, Roles
    <2>4. ActiveOwners \cup {new} \subseteq ActiveOwners'
      BY <2>2 DEF ActiveOwners
    <2>5. NamesOwner'
      BY <1>5, <2>1, <2>4 DEF UpsertNewOwner, NamesOwner
    <2> QED
      BY <2>3, <2>5, <1>5 DEF UpsertNewOwner
  <1>6. CASE HandoverFails
    BY <1>6 DEF HandoverFails
  <1> QED
    BY <1>1, <1>2, <1>3, <1>4, <1>5, <1>6 DEF Handover

LEMMA StutterIInv ==
    ASSUME IInv, UNCHANGED vars
    PROVE  IInv'
  BY DEF vars, IInv, TypeOK, LoginInv, NamesOwner, FirstOwnerInvited,
         FirstOwnerUnlinked, Pending, ActiveOwners

LEMMA StepIInv == IInv /\ [Next]_vars => IInv'
  <1> SUFFICES ASSUME IInv, [Next]_vars PROVE IInv'
    OBVIOUS
  <1>1. ASSUME NEW r \in Requests, Manage(r) PROVE IInv'
    BY <1>1, RequestIInv, ChangeMemberIInv DEF Manage
  <1>2. ASSUME NEW r \in Requests, Invite(r) PROVE IInv'
    BY <1>2, RequestIInv, ReopenMembershipIInv, DeliverInvitationIInv, DeliveryFailsIInv,
       InviteNewAccountIInv, InsertMembershipIInv DEF Invite
  <1>3. ASSUME NEW r \in Requests, Resend(r) PROVE IInv'
    BY <1>3, RequestIInv, WindowIInv DEF Resend
  <1>4. ASSUME NEW r \in Requests, AcceptInvite(r) PROVE IInv'
    BY <1>4, RequestIInv, WindowIInv DEF AcceptInvite
  <1>5. ASSUME NEW r \in Requests, Abort(r) PROVE IInv'
    BY <1>5, RequestIInv
  <1>6. ASSUME NEW u \in Users, InvitationExpires(u) PROVE IInv'
    BY <1>6, WindowIInv
  <1>7. CASE Handover
    BY <1>7, HandoverIInv
  <1>8. CASE UNCHANGED vars
    BY <1>8, StutterIInv
  <1> QED
    BY <1>1, <1>2, <1>3, <1>4, <1>5, <1>6, <1>7, <1>8 DEF Next

LEMMA InductiveInvariant == Spec => []IInv
  BY InitIInv, StepIInv, PTL DEF Spec

(* Every reachable state has the values the model allows.                   *)
THEOREM TypeCorrect == Spec => []TypeOK
  <1>1. IInv => TypeOK
    BY DEF IInv
  <1> QED
    BY InductiveInvariant, <1>1, PTL

(* The deprecated column institutions.auth_user_id, which still gives       *)
(* access to a user without a membership, never names a member that has     *)
(* lost the rights of an owner, however many requests run at a time.        *)
THEOREM LoginNamesOwner == Spec => []LoginIsOwner
  <1>1. IInv => LoginIsOwner
    BY DEF IInv, TypeOK, LoginInv, LoginIsOwner, NamesOwner, FirstOwnerInvited, FirstOwnerUnlinked
  <1> QED
    BY InductiveInvariant, <1>1, PTL

-----------------------------------------------------------------------------
(* What a step does to the members.                                         *)

StaysMember(u) ==
    members[u].status = "active" =>
        members'[u].status = "active" /\ members'[u].role \in {members[u].role, "owner"}

ComesBack(u) == members[u].status = "deactivated" /\ members'[u].status = "active"

IsAppointed(u) == handover.phase = "appointed" /\ handover.user = u

(* A step at one user only, who is not an active member.                    *)
LEMMA OneUserTurns ==
    ASSUME IInv, NEW u \in Users,
           \A v \in Users \ {u} : members'[v] = members[v],
           members'[u] = members[u] \/ (members[u].status # "active" /\ ~ComesBack(u))
    PROVE  \A v \in Users : StaysMember(v) /\ ~ComesBack(v)
  BY DEF StaysMember, ComesBack, IInv, TypeOK, Membership

LEMMA RequestKeepsMembers ==
    ASSUME IInv, NEW r \in Requests,
           Invite(r) \/ Resend(r) \/ AcceptInvite(r) \/ Abort(r)
    PROVE  \A v \in Users : StaysMember(v) /\ ~ComesBack(v)
  <1> USE DEF ComesBack, Pending
  <1>1. ASSUME UNCHANGED members PROVE \A v \in Users : StaysMember(v) /\ ~ComesBack(v)
    BY <1>1 DEF StaysMember, IInv, TypeOK, Membership
  <1>2. ASSUME NEW u \in Users, NEW row \in Membership,
               members' = members \/ members' = [members EXCEPT ![u] = row],
               members[u].status # "active",
               members[u].status = "deactivated" => row.status # "active"
        PROVE  \A v \in Users : StaysMember(v) /\ ~ComesBack(v)
    BY <1>2, OneUserTurns DEF IInv, TypeOK
  <1>3. ASSUME NEW u \in Users, NEW status \in {"invited", "deactivated", "active"},
               members[u].status \in {"invited", "expired"},
               members' = [members EXCEPT ![u].status = status]
        PROVE  \A v \in Users : StaysMember(v) /\ ~ComesBack(v)
    BY <1>3, OneUserTurns DEF IInv, TypeOK, Membership
  <1>4. request[r].phase \notin {"idle", "owner", "counted"} => request[r].user \in Users
    BY DEF IInv, TypeOK, Idle
  <1>5. \A role \in Roles : Invited(role) \in Membership /\ Invited(role).status = "invited"
    BY DEF Invited, Membership
  <1>6. CASE ReopenMembership(r)
    <2>1. PICK u \in Users : u = request[r].user
      BY <1>4, <1>6 DEF ReopenMembership
    <2>2. \/ UNCHANGED members
          \/ /\ members[u].status = "deactivated"
             /\ \E role \in Roles : members' = [members EXCEPT ![u] = Invited(role)]
      <3>1. PICK role \in Roles :
               IF members[u].status = "deactivated"
               THEN members' = [members EXCEPT ![u] = Invited(role)]
               ELSE UNCHANGED members
        BY <1>6, <2>1 DEF ReopenMembership
      <3> QED
        BY <3>1
    <2> QED
      BY <1>1, <1>2, <1>5, <2>2
  <1>7. CASE InsertMembership(r)
    <2>1. PICK u \in Users : u = request[r].user
      BY <1>4, <1>7 DEF InsertMembership
    <2>2. PICK role \in Roles : members' = [members EXCEPT ![u] = Invited(role)]
      BY <1>7, <2>1 DEF InsertMembership
    <2>3. members[u].status = "absent"
      BY <1>7, <2>1 DEF InsertMembership
    <2> QED
      BY <1>2, <1>5, <2>2, <2>3
  <1>8. CASE DeliveryFails(r)
    BY <1>1, <1>3, <1>4, <1>8 DEF DeliveryFails
  <1>9. CASE RestartWindow(r)
    BY <1>1, <1>3, <1>4, <1>9 DEF RestartWindow
  <1>10. CASE Accept(r)
    BY <1>1, <1>3, <1>4, <1>10 DEF Accept
  <1> QED
    BY <1>1, <1>6, <1>7, <1>8, <1>9, <1>10
       DEF Invite, Resend, AcceptInvite, Abort, CountTeam, FindFormerMember, FindNewAddress,
           DeliverInvitation, InviteNewAccount, FindInvitation, ResendInvitation,
           FindAcceptable

LEMMA ChangeMemberKeeps ==
    ASSUME IInv, NEW r \in Requests, NEW target \in Users, NEW role \in Roles \cup {None},
           ChangeMember(r, target, role)
    PROVE  /\ ActiveOwners # {} => ActiveOwners' # {}
           /\ ActiveIssuers # {} => ActiveIssuers' # {}
           /\ \A v \in Users : ~ComesBack(v)
  <1> USE MembersConstantsOK
  <1>1. members'[target] = Changed(members[target], role)
        /\ \A v \in Users \ {target} : members'[v] = members[v]
    BY DEF ChangeMember, IInv, TypeOK
  <1>2. /\ role = None => members'[target].status = "deactivated"
        /\ role # None => /\ members'[target].status = members[target].status
                          /\ members'[target].role = role
    BY <1>1 DEF Changed, IInv, TypeOK, Membership
  <1>3. ActiveOwners # {} => ActiveOwners' # {}
    <2>1. ActiveOwners \ {target} \subseteq ActiveOwners'
      BY <1>1 DEF ActiveOwners
    <2>2. CASE target \in ActiveOwners /\ role = "owner"
      BY <1>2, <2>2 DEF ActiveOwners, Roles
    <2>3. CASE target \in ActiveOwners /\ role # "owner"
      BY <2>1, <2>3 DEF ChangeMember, KeepsOwner, OwnersLeft
    <2> QED
      BY <2>1, <2>2, <2>3
  <1>4. ActiveIssuers # {} => ActiveIssuers' # {}
    <2>1. ActiveIssuers \ {target} \subseteq ActiveIssuers'
      BY <1>1 DEF ActiveIssuers
    <2>2. CASE target \in ActiveIssuers /\ role \in {"owner", "issuer"}
      BY <1>2, <2>2 DEF ActiveIssuers, Roles
    <2>3. CASE target \in ActiveIssuers /\ role \notin {"owner", "issuer"}
      BY <2>1, <2>3 DEF ChangeMember, KeepsIssuer, IssuersLeft
    <2> QED
      BY <2>1, <2>2, <2>3
  <1> QED
    BY <1>1, <1>2, <1>3, <1>4 DEF ComesBack

LEMMA HandoverKeepsMembers ==
    ASSUME IInv, Handover
    PROVE  /\ HandoverDeactivates \/ \A v \in Users : StaysMember(v)
           /\ \A v \in Users : ComesBack(v) => IsAppointed(v)
  <1>1. CASE DeactivateOldPoc
    <2>1. PICK old \in Users \cup {None} : old = handover.user
      BY <1>1 DEF DeactivateOldPoc, IInv, TypeOK
    <2>2. HandoverDeactivates
      BY <1>1 DEF DeactivateOldPoc, EnterHandover, HandoverDeactivates
    <2>3. \A v \in Users : ~ComesBack(v)
      BY <1>1, <2>1 DEF DeactivateOldPoc, ComesBack, IInv, TypeOK, Membership
    <2> QED
      BY <2>2, <2>3
  <1>2. CASE UpsertNewOwner
    <2>1. PICK new \in Users : new = handover.user /\ handover.phase = "appointed"
      BY <1>2 DEF UpsertNewOwner, IInv, TypeOK
    <2>2. /\ members'[new].status = "active"
          /\ members'[new].role = "owner"
          /\ \A v \in Users \ {new} : members'[v] = members[v]
      BY <1>2, <2>1 DEF UpsertNewOwner, IInv, TypeOK, Membership
    <2> QED
      BY <2>1, <2>2 DEF StaysMember, ComesBack, IsAppointed
  <1>3. ASSUME UNCHANGED members
        PROVE  \A v \in Users : StaysMember(v) /\ ~ComesBack(v)
    BY <1>3 DEF StaysMember, ComesBack
  <1> QED
    BY <1>1, <1>2, <1>3
       DEF Handover, ReadInstitution, ProvisionNewPoc, AppointNewPoc, HandoverFails

(* The three action properties of one step.                                 *)
LEMMA StepKeeps ==
    ASSUME IInv, [Next]_vars
    PROVE  /\ ActiveOwners # {} => ActiveOwners' # {} \/ HandoverDeactivates
           /\ ActiveIssuers # {} => ActiveIssuers' # {} \/ HandoverDeactivates
           /\ \A u \in Users : ComesBack(u) => IsAppointed(u)
  <1>1. ASSUME \A v \in Users : StaysMember(v)
        PROVE  /\ ActiveOwners # {} => ActiveOwners' # {}
               /\ ActiveIssuers # {} => ActiveIssuers' # {}
    BY <1>1 DEF StaysMember, ActiveOwners, ActiveIssuers
  <1>2. ASSUME UNCHANGED members
        PROVE  \A v \in Users : StaysMember(v) /\ ~ComesBack(v)
    BY <1>2 DEF StaysMember, ComesBack
  <1>3. ASSUME NEW r \in Requests, Manage(r)
        PROVE  /\ ActiveOwners # {} => ActiveOwners' # {}
               /\ ActiveIssuers # {} => ActiveIssuers' # {}
               /\ \A v \in Users : ~ComesBack(v)
    BY <1>1, <1>2, <1>3, ChangeMemberKeeps DEF Manage, Authorize
  <1>4. ASSUME NEW u \in Users, InvitationExpires(u)
        PROVE  \A v \in Users : StaysMember(v) /\ ~ComesBack(v)
    BY <1>4, OneUserTurns DEF InvitationExpires, ComesBack, IInv, TypeOK, Membership
  <1>5. CASE Handover
    BY <1>1, <1>5, HandoverKeepsMembers
  <1>6. CASE UNCHANGED vars
    BY <1>1, <1>2, <1>6 DEF vars
  <1>7. ASSUME NEW r \in Requests, Invite(r) \/ Resend(r) \/ AcceptInvite(r) \/ Abort(r)
        PROVE  \A v \in Users : StaysMember(v) /\ ~ComesBack(v)
    BY <1>7, RequestKeepsMembers
  <1> QED
    BY <1>1, <1>3, <1>4, <1>5, <1>6, <1>7 DEF Next

(* Whichever requests meet, no removal and no new role takes the last       *)
(* active owner: change_institution_member counts the others itself.        *)
THEOREM OwnerIsKept == Spec => OwnerKept
  <1>1. IInv /\ [Next]_vars =>
           [ActiveOwners # {} => ActiveOwners' # {} \/ HandoverDeactivates]_vars
    BY StepKeeps
  <1> QED
    BY InductiveInvariant, <1>1, PTL DEF Spec, OwnerKept

(* Nor does it take the last member who may issue, in an institution that   *)
(* a handover has left without an owner either.                             *)
THEOREM IssuerIsKept == Spec => IssuerKept
  <1>1. IInv /\ [Next]_vars =>
           [ActiveIssuers # {} => ActiveIssuers' # {} \/ HandoverDeactivates]_vars
    BY StepKeeps
  <1> QED
    BY InductiveInvariant, <1>1, PTL DEF Spec, IssuerKept

(* An invitation withdrawn while it is being accepted stays withdrawn, and  *)
(* a removed member comes back by a new invitation or a handover only.      *)
THEOREM RemovedMemberStaysOut == Spec => RemovedStaysOut
  <1>1. IInv /\ [Next]_vars =>
           [\A u \in Users : members[u].status = "deactivated" /\ members'[u].status = "active"
               => handover.phase = "appointed" /\ handover.user = u]_vars
    BY StepKeeps DEF ComesBack, IsAppointed
  <1> QED
    BY InductiveInvariant, <1>1, PTL DEF Spec, RemovedStaysOut
=============================================================================
