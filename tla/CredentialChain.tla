--------------------------- MODULE CredentialChain ---------------------------
(***************************************************************************)
(* What the contract shows to those who follow its events: the token ids   *)
(* handed out and revoked, the issuers authorized, and the events of the   *)
(* last ledger.  A ledger that closes changes at most one of the three,    *)
(* and its events say what it changed, all of it and nothing else.  Nobody *)
(* who reads every event in order can therefore be wrong about the rest.   *)
(***************************************************************************)
EXTENDS Integers

VARIABLES
    count,         \* the token ids handed out are 1..count
    revoked,       \* those of them that are revoked
    authorized,    \* the issuers
    published      \* the events of the last ledger

vars == <<count, revoked, authorized, published>>

Event(name, subject) == [name |-> name, subject |-> subject]

Init ==
    /\ count = 0
    /\ revoked = {}
    /\ authorized = {}
    /\ published = {}

\* Ids are handed out in order, any number of them by one transaction.
Issue ==
    /\ count' > count
    /\ published' = {Event("credential_issued", t) : t \in (count + 1)..count'}
    /\ UNCHANGED <<revoked, authorized>>

\* A token is revoked once, by its issuer or by the owner of the contract.
Revoke ==
    \E t \in (1..count) \ revoked :
        /\ revoked' = revoked \cup {t}
        /\ \E name \in {"credential_revoked", "credential_revoked_by_owner"} :
              published' = {Event(name, t)}
        /\ UNCHANGED <<count, authorized>>

\* An event says that an issuer was added, which was none until then.
Authorize ==
    \E a \in authorized' \ authorized :
        /\ authorized' = authorized \cup {a}
        /\ published' = {Event("issuer_authorized", a)}
        /\ UNCHANGED <<count, revoked>>

Dismiss ==
    \E a \in authorized :
        /\ authorized' = authorized \ {a}
        /\ published' = {Event("issuer_revoked", a)}
        /\ UNCHANGED <<count, revoked>>

\* No event: nothing of this has changed.
Silence ==
    /\ published' = {}
    /\ UNCHANGED <<count, revoked, authorized>>

Next == Issue \/ Revoke \/ Authorize \/ Dismiss \/ Silence

Spec == Init /\ [][Next]_vars
=============================================================================
