-------------------------- MODULE CredentialAudit ---------------------------
(***************************************************************************)
(* AcrediaCredential with three observations added to every step that no   *)
(* action reads: who signed the last transaction, when the pending upgrade *)
(* was announced, and what events were published last.  They let a         *)
(* property say on whose authority a change was made, how long it had been *)
(* announced, and what those who follow the contract's events know of it.  *)
(***************************************************************************)
EXTENDS AcrediaCredential

VARIABLES
    lastSigner,    \* who signed the last transaction, None for the clock
    announcedAt,   \* the ledger of the last propose_upgrade, None before
    published      \* the events of the last transaction, {} for the clock

auditVars == <<vars, lastSigner, announcedAt, published>>

-----------------------------------------------------------------------------
(* The events, of those the indexer handles.  It takes no notice of the     *)
(* summary of a batch, nor of what else an administration publishes.        *)

Event(name, subject) == [name |-> name, subject |-> subject]

\* An issuer is announced again with every call.
AuthorizationEventAlways(issuer) == {Event("issuer_authorized", issuer)}

AuthorizationEvent(issuer) ==
    {Event("issuer_authorized", a) : a \in {issuer} \ authorized}

DismissalEvent(issuer) ==
    {Event("issuer_revoked", a) : a \in {issuer} \cap authorized}

\* One event for each credential stored, whichever entry point stored it.
IssuanceEvents ==
    {Event("credential_issued", t) : t \in nextTokenId..(nextTokenId' - 1)}

PublishingCall(signer) ==
    \/ \E a \in Addresses :
          AuthorizeIssuer(signer, a) /\ published' = AuthorizationEvent(a)
    \/ \E a \in Addresses :
          RevokeIssuer(signer, a) /\ published' = DismissalEvent(a)
    \/ \E row \in BatchCredentialInput :
          IssueCredential(signer, row) /\ published' = IssuanceEvents
    \/ \E rows \in Batches :
          BatchIssueCredential(signer, rows) /\ published' = IssuanceEvents
    \/ \E t \in 1..nextTokenId :
          RevokeCredential(signer, t) /\ published' = {Event("credential_revoked", t)}
    \/ \E t \in 1..nextTokenId :
          /\ AdminRevokeCredential(signer, t)
          /\ published' = {Event("credential_revoked_by_owner", t)}
    \/ Administration(signer) /\ published' = {}

-----------------------------------------------------------------------------

AuditInit == Init /\ lastSigner = None /\ announcedAt = None /\ published = {}

AuditNext ==
    \/ \E signer \in Addresses :
          /\ PublishingCall(signer)
          /\ lastSigner' = signer
          /\ announcedAt' = IF pendingUpgrade' \notin {None, pendingUpgrade}
                            THEN ledger ELSE announcedAt
    \/ CloseLedger /\ lastSigner' = None /\ UNCHANGED announcedAt /\ published' = {}

AuditSpec == AuditInit /\ [][AuditNext]_auditVars

(* Whatever a transaction changes was the signer's to change: governance    *)
(* belongs to the owner at that time (and a handover to the proposed owner),*)
(* a profile to its issuer, a credential to its issuer and, for revocation, *)
(* to the owner.  A past owner and a proposed owner who has not accepted    *)
(* have no say.                                                             *)
Authority ==
    [][/\ UNCHANGED owner \/ lastSigner' = pendingOwner
       /\ owner' # owner \/ UNCHANGED pendingOwner \/ lastSigner' = owner
       /\ UNCHANGED <<authorized, paused, upgradeVars>> \/ lastSigner' = owner
       /\ \A a \in Addresses :
             issuerProfile'[a] = issuerProfile[a] \/ lastSigner' = a
       /\ \A t \in DOMAIN credentials' \ DOMAIN credentials :
             credentials'[t].issuer = lastSigner'
       /\ \A t \in DOMAIN credentials :
             credentials'[t] = credentials[t]
                \/ lastSigner' \in {credentials[t].issuer, owner}
      ]_auditVars

(* Code changes only to what was announced at least the timelock ago, and   *)
(* no other announcement was made in between: proposing again, cancelling,  *)
(* pausing or handing the contract over never shortens the notice.          *)
UpgradeNotice ==
    [][wasm' # wasm =>
          /\ announcedAt # None
          /\ ledger >= announcedAt + UPGRADE_TIMELOCK_LEDGERS
          /\ pendingUpgrade # None
          /\ wasm' = pendingUpgrade.wasm_hash]_auditVars

\* What those who follow the events know of the contract.
Chain == INSTANCE CredentialChain WITH
    count <- nextTokenId - 1,
    revoked <- {t \in DOMAIN credentials : credentials[t].revoked}

(* The events tell all there is to know of credentials and issuers: a call  *)
(* that changes nothing publishes nothing, a batch publishes what it has    *)
(* stored and no refused row, and no change goes unannounced.               *)
ImplementsChain == Chain!Spec
=============================================================================
