-------------------------- MODULE AcrediaCredential --------------------------
(***************************************************************************)
(* The Soroban contract contracts/src/lib.rs.                              *)
(*                                                                         *)
(* One action is one entry point called in one transaction.  The host      *)
(* executes transactions one at a time and rolls back a call that returns  *)
(* an error or fails require_auth, so the error returns are guards: the    *)
(* action is not possible.  `signer' is the account whose authorization    *)
(* the transaction carries.                                                *)
(*                                                                         *)
(* `ledger' is the closing ledger: the code reads its sequence number (the *)
(* upgrade timelock) and its timestamp (issue and expiry dates).  Both     *)
(* grow with every close and are never compared with each other, so one    *)
(* clock stands for both.                                                  *)
(*                                                                         *)
(* Storage TTLs are left out: no line of the contract reads one.           *)
(*                                                                         *)
(* A definition whose name extends that of another (RowErrorStoredOnly,    *)
(* CountIssuedOnce, ...) is a faulty variant of it, used only to show that *)
(* a property tells the two apart.                                         *)
(***************************************************************************)
EXTENDS Integers, Sequences, FiniteSets

CONSTANTS
    Addresses,               \* accounts that sign: owners and issuers
    Students,                \* accounts credentials are issued to
    Hashes,                  \* credential hashes
    WasmHashes,              \* code that may be proposed as an upgrade
    Profiles,                \* contents of an issuer profile
    OversizeProfiles,        \* the contents longer than the caps allow
    Expiries,                \* the expiry dates a caller may ask for
    MAX_BATCH_SIZE,
    UPGRADE_TIMELOCK_LEDGERS,
    MaxLedger,               \* bound on the clock
    None                     \* Rust's Option::None

ASSUME ConstantsOK ==
    /\ MAX_BATCH_SIZE \in Nat \ {0}
    /\ UPGRADE_TIMELOCK_LEDGERS \in Nat
    /\ MaxLedger \in Nat
    /\ OversizeProfiles \subseteq Profiles
    /\ Expiries \subseteq Nat \cup {None}
    /\ None \notin Nat
    /\ None \notin Addresses
    /\ None \notin WasmHashes

VARIABLES
    owner,             \* DataKey::Owner
    pendingOwner,      \* DataKey::PendingOwner
    authorized,        \* the issuers with DataKey::Authorized(issuer) set
    issuerProfile,     \* DataKey::IssuerProfile(issuer)
    credentials,       \* DataKey::Credential(token_id)
    hashIndex,         \* DataKey::HashIndex(credential_hash)
    nextTokenId,       \* DataKey::NextTokenId
    totalCredentials,  \* DataKey::TotalCredentials
    paused,            \* DataKey::Paused
    pendingUpgrade,    \* DataKey::PendingUpgrade
    storageVersion,    \* DataKey::StorageVersion
    wasm,              \* the code the host runs; None is the code deployed
    ledger             \* the ledger the next transaction closes in

ownerVars == <<owner, pendingOwner>>
issuerVars == <<authorized, issuerProfile>>
credentialVars == <<credentials, hashIndex, nextTokenId, totalCredentials>>
upgradeVars == <<pendingUpgrade, storageVersion, wasm>>
vars == <<ownerVars, issuerVars, credentialVars, paused, upgradeVars, ledger>>

-----------------------------------------------------------------------------
(* The stored types.                                                        *)

Credential ==
    [token_id: Nat, student: Students, issuer: Addresses,
     credential_hash: Hashes, issued_at: Nat, expires_at: Nat \cup {None},
     revoked: BOOLEAN]

BatchCredentialInput ==
    [student: Students, credential_hash: Hashes, expires_at: Expiries]

IssuerProfile == [content: Profiles, updated_at: Nat]

PendingUpgrade == [wasm_hash: WasmHashes, ready_ledger: Nat]

-----------------------------------------------------------------------------
(* Reads.                                                                   *)

ExpiryIsValid(expires_at) == expires_at # None => expires_at > ledger

IsExpired(credential) ==
    credential.expires_at # None /\ ledger >= credential.expires_at

\* HashIndex(hash) is stored.
IsAnchoredUnrevoked(hash) ==
    hash \in DOMAIN hashIndex /\ ~credentials[hashIndex[hash]].revoked

IsAnchored(hash) == hash \in DOMAIN hashIndex

VerifyCredential(hash) ==
    IF hash \in DOMAIN hashIndex /\ hashIndex[hash] \in DOMAIN credentials
    THEN credentials[hashIndex[hash]]
    ELSE None

CredentialStatusExpiredFirst(token) ==
    IF token \notin DOMAIN credentials THEN "NotFound"
    ELSE IF IsExpired(credentials[token]) THEN "Expired"
    ELSE IF credentials[token].revoked THEN "Revoked"
    ELSE "Valid"

CredentialStatus(token) ==
    IF token \notin DOMAIN credentials THEN "NotFound"
    ELSE IF credentials[token].revoked THEN "Revoked"
    ELSE IF IsExpired(credentials[token]) THEN "Expired"
    ELSE "Valid"

-----------------------------------------------------------------------------
(* Deployment and ownership.                                                *)

Init ==
    /\ owner \in Addresses
    /\ pendingOwner = None
    /\ authorized = {}
    /\ issuerProfile = [a \in Addresses |-> None]
    /\ credentials = [t \in {} |-> None]
    /\ hashIndex = [h \in {} |-> 0]
    /\ nextTokenId = 1
    /\ totalCredentials = 0
    /\ paused = FALSE
    /\ pendingUpgrade = None
    /\ storageVersion = 1
    /\ wasm = None
    /\ ledger = 0

TransferOwner(signer, newOwner) ==
    /\ signer = owner
    /\ newOwner # owner
    /\ pendingOwner' = newOwner
    /\ UNCHANGED <<owner, issuerVars, credentialVars, paused, upgradeVars, ledger>>

AcceptOwnerUnsigned(signer) ==
    /\ pendingOwner # None
    /\ owner' = pendingOwner
    /\ pendingOwner' = None
    /\ UNCHANGED <<issuerVars, credentialVars, paused, upgradeVars, ledger>>

AcceptOwner(signer) ==
    /\ pendingOwner # None
    /\ signer = pendingOwner
    /\ owner' = pendingOwner
    /\ pendingOwner' = None
    /\ UNCHANGED <<issuerVars, credentialVars, paused, upgradeVars, ledger>>

-----------------------------------------------------------------------------
(* Issuers.  Authorizing an authorized issuer, or revoking one that is not  *)
(* authorized, succeeds and changes nothing.                                *)

AuthorizeIssuer(signer, issuer) ==
    /\ signer = owner
    /\ authorized' = authorized \cup {issuer}
    /\ UNCHANGED <<ownerVars, issuerProfile, credentialVars, paused, upgradeVars, ledger>>

RevokeIssuer(signer, issuer) ==
    /\ signer = owner
    /\ authorized' = authorized \ {issuer}
    /\ UNCHANGED <<ownerVars, issuerProfile, credentialVars, paused, upgradeVars, ledger>>

SetIssuerProfile(signer, content) ==
    /\ signer \in authorized
    /\ content \notin OversizeProfiles
    /\ issuerProfile' = [issuerProfile EXCEPT
                            ![signer] = [content |-> content, updated_at |-> ledger]]
    /\ UNCHANGED <<ownerVars, authorized, credentialVars, paused, upgradeVars, ledger>>

-----------------------------------------------------------------------------
(* Credentials.                                                             *)

NewCredential(token, issuer, row) ==
    [token_id |-> token, student |-> row.student, issuer |-> issuer,
     credential_hash |-> row.credential_hash, issued_at |-> ledger,
     expires_at |-> row.expires_at, revoked |-> FALSE]

CountIssuedOnce(n) ==
    /\ nextTokenId' = nextTokenId + n
    /\ totalCredentials' = totalCredentials + 1

CountIssued(n) ==
    /\ nextTokenId' = nextTokenId + n
    /\ totalCredentials' = totalCredentials + n

IssueCredential(signer, row) ==
    /\ ~paused
    /\ signer \in authorized
    /\ ExpiryIsValid(row.expires_at)
    /\ ~IsAnchored(row.credential_hash)
    /\ credentials' = [t \in DOMAIN credentials \cup {nextTokenId} |->
                          IF t = nextTokenId
                          THEN NewCredential(t, signer, row)
                          ELSE credentials[t]]
    /\ hashIndex' = [h \in DOMAIN hashIndex \cup {row.credential_hash} |->
                        IF h = row.credential_hash THEN nextTokenId ELSE hashIndex[h]]
    /\ CountIssued(1)
    /\ UNCHANGED <<ownerVars, issuerVars, paused, upgradeVars, ledger>>

(* The error codes a batch reports for a row.                               *)
CredentialAlreadyExists == 3
InvalidExpiry == 18

RowErrorStoredOnly(rows, i) ==
    IF ~ExpiryIsValid(rows[i].expires_at) THEN InvalidExpiry
    ELSE IF IsAnchored(rows[i].credential_hash) THEN CredentialAlreadyExists
    ELSE 0

RowErrorAnyEarlier(rows, i) ==
    IF ~ExpiryIsValid(rows[i].expires_at) THEN InvalidExpiry
    ELSE IF \/ IsAnchored(rows[i].credential_hash)
            \/ \E j \in 1..(i-1) : rows[j].credential_hash = rows[i].credential_hash
         THEN CredentialAlreadyExists
    ELSE 0

(* Why the loop of batch_issue_credential refuses row i, or 0 if it issues  *)
(* it.  An invalid expiry is found first; a duplicate is a hash that is     *)
(* stored already or that an earlier row of the batch has issued.  An       *)
(* earlier row with a valid expiry and the same hash was either issued or   *)
(* itself a duplicate, so looking at its expiry is enough.                  *)
RowError(rows, i) ==
    IF ~ExpiryIsValid(rows[i].expires_at) THEN InvalidExpiry
    ELSE IF \/ IsAnchored(rows[i].credential_hash)
            \/ \E j \in 1..(i-1) :
                  /\ ExpiryIsValid(rows[j].expires_at)
                  /\ rows[j].credential_hash = rows[i].credential_hash
         THEN CredentialAlreadyExists
    ELSE 0

Accepted(rows) == {i \in DOMAIN rows : RowError(rows, i) = 0}

(* order is the list of the accepted rows, in batch order.                  *)
IsAcceptanceOrder(rows, order) ==
    /\ \A j, k \in DOMAIN order : j < k => order[j] < order[k]
    /\ {order[k] : k \in DOMAIN order} = Accepted(rows)

(* Token ids are handed out to the n accepted rows in order.                *)
WriteAccepted(issuer, rows, n, order) ==
    LET new == nextTokenId..(nextTokenId + n - 1)
        rowOf(t) == rows[order[t - nextTokenId + 1]]
        newHashes == {rows[i].credential_hash : i \in Accepted(rows)}
    IN  /\ credentials' = [t \in DOMAIN credentials \cup new |->
                              IF t \in new
                              THEN NewCredential(t, issuer, rowOf(t))
                              ELSE credentials[t]]
        /\ hashIndex' = [h \in DOMAIN hashIndex \cup newHashes |->
                            IF h \in DOMAIN hashIndex
                            THEN hashIndex[h]
                            ELSE CHOOSE t \in new : rowOf(t).credential_hash = h]
        /\ CountIssued(n)

BatchIssueCredential(signer, rows) ==
    /\ ~paused
    /\ signer \in authorized
    /\ Len(rows) \in 1..MAX_BATCH_SIZE
    /\ \E n \in 0..Len(rows) : \E order \in [1..n -> DOMAIN rows] :
          /\ IsAcceptanceOrder(rows, order)
          /\ WriteAccepted(signer, rows, n, order)
    /\ UNCHANGED <<ownerVars, issuerVars, paused, upgradeVars, ledger>>

(* An issuer may revoke what it issued even after losing its authorization. *)
RevokeCredential(signer, token) ==
    /\ ~paused
    /\ token \in DOMAIN credentials
    /\ credentials[token].issuer = signer
    /\ ~credentials[token].revoked
    /\ credentials' = [credentials EXCEPT ![token].revoked = TRUE]
    /\ UNCHANGED <<ownerVars, issuerVars, hashIndex, nextTokenId, totalCredentials,
                   paused, upgradeVars, ledger>>

AdminRevokeCredential(signer, token) ==
    /\ signer = owner
    /\ ~paused
    /\ token \in DOMAIN credentials
    /\ ~credentials[token].revoked
    /\ credentials' = [credentials EXCEPT ![token].revoked = TRUE]
    /\ UNCHANGED <<ownerVars, issuerVars, hashIndex, nextTokenId, totalCredentials,
                   paused, upgradeVars, ledger>>

-----------------------------------------------------------------------------
(* The circuit breaker and upgrades.                                        *)

Pause(signer) ==
    /\ signer = owner
    /\ paused' = TRUE
    /\ UNCHANGED <<ownerVars, issuerVars, credentialVars, upgradeVars, ledger>>

Unpause(signer) ==
    /\ signer = owner
    /\ paused' = FALSE
    /\ UNCHANGED <<ownerVars, issuerVars, credentialVars, upgradeVars, ledger>>

ProposeUpgradeKeepsTimelock(signer, wasmHash) ==
    /\ signer = owner
    /\ pendingUpgrade' =
          [wasm_hash |-> wasmHash,
           ready_ledger |-> IF pendingUpgrade = None
                            THEN ledger + UPGRADE_TIMELOCK_LEDGERS
                            ELSE pendingUpgrade.ready_ledger]
    /\ UNCHANGED <<ownerVars, issuerVars, credentialVars, paused, storageVersion, wasm, ledger>>

ProposeUpgrade(signer, wasmHash) ==
    /\ signer = owner
    /\ pendingUpgrade' = [wasm_hash |-> wasmHash,
                          ready_ledger |-> ledger + UPGRADE_TIMELOCK_LEDGERS]
    /\ UNCHANGED <<ownerVars, issuerVars, credentialVars, paused, storageVersion, wasm, ledger>>

CancelUpgrade(signer) ==
    /\ signer = owner
    /\ pendingUpgrade # None
    /\ pendingUpgrade' = None
    /\ UNCHANGED <<ownerVars, issuerVars, credentialVars, paused, storageVersion, wasm, ledger>>

Upgrade(signer, wasmHash) ==
    /\ signer = owner
    /\ pendingUpgrade # None
    /\ pendingUpgrade.wasm_hash = wasmHash
    /\ ledger >= pendingUpgrade.ready_ledger
    /\ pendingUpgrade' = None
    /\ wasm' = wasmHash   \* the new code is taken to keep these rules
    /\ UNCHANGED <<ownerVars, issuerVars, credentialVars, paused, storageVersion, ledger>>

Migrate(signer) ==
    /\ signer = owner
    /\ storageVersion' = IF storageVersion < 2 THEN 2 ELSE storageVersion
    /\ UNCHANGED <<ownerVars, issuerVars, credentialVars, paused, pendingUpgrade, wasm, ledger>>

-----------------------------------------------------------------------------
(* The clock, and the transactions `signer' can have executed.              *)

Batches == UNION {[1..n -> BatchCredentialInput] : n \in 1..MAX_BATCH_SIZE}

CloseLedger ==
    /\ ledger < MaxLedger
    /\ ledger' = ledger + 1
    /\ UNCHANGED <<ownerVars, issuerVars, credentialVars, paused, upgradeVars>>

\* The entry points that touch neither credentials nor issuers' permissions.
Administration(signer) ==
    \/ \E a \in Addresses : TransferOwner(signer, a)
    \/ AcceptOwner(signer)
    \/ \E p \in Profiles : SetIssuerProfile(signer, p)
    \/ Pause(signer)
    \/ Unpause(signer)
    \/ \E w \in WasmHashes : ProposeUpgrade(signer, w)
    \/ CancelUpgrade(signer)
    \/ \E w \in WasmHashes : Upgrade(signer, w)
    \/ Migrate(signer)

Call(signer) ==
    \/ \E a \in Addresses : AuthorizeIssuer(signer, a)
    \/ \E a \in Addresses : RevokeIssuer(signer, a)
    \/ \E row \in BatchCredentialInput : IssueCredential(signer, row)
    \/ \E rows \in Batches : BatchIssueCredential(signer, rows)
    \/ \E t \in 1..nextTokenId : RevokeCredential(signer, t)
    \/ \E t \in 1..nextTokenId : AdminRevokeCredential(signer, t)
    \/ Administration(signer)

Next ==
    \/ \E signer \in Addresses : Call(signer)
    \/ CloseLedger

Spec == Init /\ [][Next]_vars

-----------------------------------------------------------------------------
(* Properties.                                                              *)

(* Every stored value has the type its DataKey is written with.             *)
TypeOK ==
    /\ owner \in Addresses
    /\ pendingOwner \in Addresses \cup {None}
    /\ authorized \subseteq Addresses
    /\ issuerProfile \in [Addresses -> IssuerProfile \cup {None}]
    /\ nextTokenId \in Nat \ {0}
    /\ totalCredentials \in Nat
    /\ DOMAIN credentials \subseteq Nat
    /\ \A t \in DOMAIN credentials : credentials[t] \in Credential
    /\ credentials = [t \in DOMAIN credentials |-> credentials[t]]
    /\ DOMAIN hashIndex \subseteq Hashes
    /\ \A h \in DOMAIN hashIndex : hashIndex[h] \in Nat
    /\ hashIndex = [h \in DOMAIN hashIndex |-> hashIndex[h]]
    /\ paused \in BOOLEAN
    /\ pendingUpgrade \in PendingUpgrade \cup {None}
    /\ storageVersion \in {1, 2}
    /\ wasm \in WasmHashes \cup {None}
    /\ ledger \in Nat

(* Token ids are sequential, each credential is stored under its own id,    *)
(* and the counter of credentials agrees, however single issues, batches    *)
(* with refused rows and revocations follow one another.                    *)
SequentialTokenIds ==
    /\ DOMAIN credentials = 1..(nextTokenId - 1)
    /\ totalCredentials = nextTokenId - 1
    /\ \A t \in DOMAIN credentials : credentials[t].token_id = t

(* Every credential is found by its id and by its hash, and the two lookups *)
(* agree: no write overwrites or loses an entry of the hash index.          *)
HashIndexConsistent ==
    /\ \A t \in DOMAIN credentials :
          /\ IsAnchored(credentials[t].credential_hash)
          /\ VerifyCredential(credentials[t].credential_hash) = credentials[t]
    /\ \A h \in DOMAIN hashIndex :
          /\ hashIndex[h] \in DOMAIN credentials
          /\ credentials[hashIndex[h]].credential_hash = h

(* What a credential says is fixed at issuance, no credential disappears,   *)
(* and a revocation is never undone, by any transaction of anyone.          *)
CredentialsPermanent ==
    [][\A t \in DOMAIN credentials :
          /\ t \in DOMAIN credentials'
          /\ credentials'[t] \in {credentials[t], [credentials[t] EXCEPT !.revoked = TRUE]}
      ]_vars

StatusOrder == <<"Valid", "Expired", "Revoked">>

StatusRank(status) == CHOOSE i \in 1..3 : StatusOrder[i] = status

(* What credential_status answers only moves from Valid to Expired to       *)
(* Revoked: a verifier never sees a credential become better.               *)
StatusNeverImproves ==
    [][\A t \in DOMAIN credentials :
          StatusRank(CredentialStatus(t)') >= StatusRank(CredentialStatus(t))]_vars

(* A credential is valid at the moment it is issued, and it was issued by   *)
(* an authorized issuer of a contract that was not paused, whichever of the *)
(* two issuing entry points made it.                                        *)
IssuedByAuthorizedIssuer ==
    [][\A t \in DOMAIN credentials' \ DOMAIN credentials :
          /\ ~paused
          /\ credentials'[t].issuer \in authorized
          /\ CredentialStatus(t)' = "Valid"]_vars

(* While the contract is paused nothing changes a credential, although the  *)
(* owner may still change issuers, ownership and code.                      *)
PauseFreezesCredentials == [][paused => UNCHANGED credentialVars]_vars

(* The account may not issue, and whatever it did issue is revoked.         *)
Contained(a) ==
    /\ a \notin authorized
    /\ \A t \in DOMAIN credentials : credentials[t].issuer = a => credentials[t].revoked

(* The containment of a fraudulent issuer (incident-response.md, 7.4):      *)
(* once it is dismissed and each credential that names it is revoked, by    *)
(* itself or by whoever owns the contract at the time, no later batch,      *)
(* handover or second revocation leaves a good credential in its name,      *)
(* unless the account is authorized again.                                  *)
ContainmentLasts ==
    [][\A a \in Addresses :
          Contained(a) /\ a \notin authorized' => Contained(a)']_vars

(* What a verifier reads by hash behaves as an append-only registry.        *)
Registry == INSTANCE CredentialRegistry WITH
    registry <- [h \in DOMAIN hashIndex |-> VerifyCredential(h)]

ImplementsRegistry == Registry!Spec
=============================================================================
