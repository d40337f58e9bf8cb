---------------------- MODULE AcrediaCredential_proofs ----------------------
(***************************************************************************)
(* Proofs about the contract, for any accounts, hashes, code, batch size,  *)
(* timelock and clock.                                                     *)
(***************************************************************************)
EXTENDS CredentialAudit, BatchLoop, TLAPS

(* The inductive invariant: the types, and the shape of the three stores    *)
(* that issuing writes together.                                            *)
IInv == TypeOK /\ SequentialTokenIds /\ HashIndexConsistent

LEMMA InitIInv == Init => IInv
<1> SUFFICES ASSUME Init PROVE IInv
  OBVIOUS
<1>1. TypeOK
  <2>1. issuerProfile \in [Addresses -> IssuerProfile \cup {None}]
    BY DEF Init
  <2>2. /\ DOMAIN credentials = {}
        /\ credentials = [t \in DOMAIN credentials |-> credentials[t]]
    BY DEF Init
  <2>3. /\ DOMAIN hashIndex = {}
        /\ hashIndex = [h \in DOMAIN hashIndex |-> hashIndex[h]]
    BY DEF Init
  <2>4. /\ owner \in Addresses
        /\ pendingOwner \in Addresses \cup {None}
        /\ authorized \subseteq Addresses
        /\ nextTokenId \in Nat \ {0}
        /\ totalCredentials \in Nat
        /\ pendingUpgrade \in PendingUpgrade \cup {None}
        /\ storageVersion \in {1, 2}
        /\ wasm \in WasmHashes \cup {None}
        /\ ledger \in Nat
    BY DEF Init
  <2>5. paused \in BOOLEAN
    BY DEF Init
  <2> QED
    BY <2>1, <2>2, <2>3, <2>4, <2>5 DEF TypeOK
<1>2. SequentialTokenIds
  BY DEF Init, SequentialTokenIds
<1>3. HashIndexConsistent
  BY DEF Init, HashIndexConsistent
<1> QED
  BY <1>1, <1>2, <1>3 DEF IInv

(* Under the invariant the index and the credentials are inverse.           *)
LEMMA IndexIsInverse ==
  ASSUME IInv
  PROVE  /\ \A t \in DOMAIN credentials :
               /\ credentials[t].credential_hash \in DOMAIN hashIndex
               /\ hashIndex[credentials[t].credential_hash] = t
         /\ \A h \in DOMAIN hashIndex :
               /\ hashIndex[h] \in DOMAIN credentials
               /\ credentials[hashIndex[h]].credential_hash = h
  BY DEF IInv, SequentialTokenIds, HashIndexConsistent, IsAnchored, VerifyCredential

(* The converse, in the form the steps establish it.                        *)
LEMMA InverseIsConsistent ==
  ASSUME \A t \in DOMAIN credentials :
            /\ credentials[t].credential_hash \in DOMAIN hashIndex
            /\ hashIndex[credentials[t].credential_hash] = t,
         \A h \in DOMAIN hashIndex :
            /\ hashIndex[h] \in DOMAIN credentials
            /\ credentials[hashIndex[h]].credential_hash = h
  PROVE  HashIndexConsistent
  BY DEF HashIndexConsistent, IsAnchored, VerifyCredential

(* Rows of a batch that are issued have different hashes.                   *)
LEMMA AcceptedHashesDiffer ==
  ASSUME NEW rows,
         DOMAIN rows \subseteq Nat \ {0},
         NEW i \in Accepted(rows), NEW j \in Accepted(rows),
         rows[i].credential_hash = rows[j].credential_hash
  PROVE  i = j
<1>1. i \in Nat \ {0} /\ j \in Nat \ {0}
  BY DEF Accepted
<1>2. /\ ExpiryIsValid(rows[i].expires_at) /\ RowError(rows, i) = 0
      /\ ExpiryIsValid(rows[j].expires_at) /\ RowError(rows, j) = 0
  BY DEF Accepted, RowError, InvalidExpiry
<1>3. ~(i < j)
  BY <1>1, <1>2 DEF RowError, CredentialAlreadyExists
<1>4. ~(j < i)
  BY <1>1, <1>2 DEF RowError, CredentialAlreadyExists
<1> QED
  BY <1>1, <1>3, <1>4

-----------------------------------------------------------------------------
(* Steps that leave the credentials alone.                                  *)

LEMMA UntouchedCredentials ==
  ASSUME IInv, UNCHANGED credentialVars
  PROVE  SequentialTokenIds' /\ HashIndexConsistent'
  BY DEF IInv, credentialVars, SequentialTokenIds, HashIndexConsistent,
         VerifyCredential, IsAnchored

LEMMA GovernanceStep ==
  ASSUME IInv,
         NEW signer \in Addresses,
         \/ \E a \in Addresses : TransferOwner(signer, a)
         \/ AcceptOwner(signer)
         \/ \E a \in Addresses : AuthorizeIssuer(signer, a)
         \/ \E a \in Addresses : RevokeIssuer(signer, a)
         \/ \E p \in Profiles : SetIssuerProfile(signer, p)
         \/ Pause(signer)
         \/ Unpause(signer)
         \/ \E w \in WasmHashes : ProposeUpgrade(signer, w)
         \/ CancelUpgrade(signer)
         \/ \E w \in WasmHashes : Upgrade(signer, w)
         \/ Migrate(signer)
  PROVE  IInv' /\ UNCHANGED credentialVars
<1> USE DEF IInv, TypeOK, ownerVars, issuerVars, credentialVars, upgradeVars
<1>1. CASE \E a \in Addresses : TransferOwner(signer, a)
  BY <1>1, UntouchedCredentials DEF TransferOwner
<1>2. CASE AcceptOwner(signer)
  BY <1>2, UntouchedCredentials DEF AcceptOwner
<1>3. CASE \E a \in Addresses : AuthorizeIssuer(signer, a)
  BY <1>3, UntouchedCredentials DEF AuthorizeIssuer
<1>4. CASE \E a \in Addresses : RevokeIssuer(signer, a)
  BY <1>4, UntouchedCredentials DEF RevokeIssuer
<1>5. CASE \E p \in Profiles : SetIssuerProfile(signer, p)
  BY <1>5, UntouchedCredentials DEF SetIssuerProfile, IssuerProfile
<1>6. CASE Pause(signer)
  BY <1>6, UntouchedCredentials DEF Pause
<1>7. CASE Unpause(signer)
  BY <1>7, UntouchedCredentials DEF Unpause
<1>8. CASE \E w \in WasmHashes : ProposeUpgrade(signer, w)
  BY <1>8, UntouchedCredentials, ConstantsOK DEF ProposeUpgrade, PendingUpgrade
<1>9. CASE CancelUpgrade(signer)
  BY <1>9, UntouchedCredentials DEF CancelUpgrade
<1>10. CASE \E w \in WasmHashes : Upgrade(signer, w)
  BY <1>10, UntouchedCredentials DEF Upgrade
<1>11. CASE Migrate(signer)
  BY <1>11, UntouchedCredentials DEF Migrate
<1> QED
  BY <1>1, <1>2, <1>3, <1>4, <1>5, <1>6, <1>7, <1>8, <1>9, <1>10, <1>11

LEMMA ClockStep ==
  ASSUME IInv, CloseLedger
  PROVE  IInv' /\ UNCHANGED credentialVars
  BY UntouchedCredentials
  DEF CloseLedger, IInv, TypeOK, ownerVars, issuerVars, credentialVars, upgradeVars

LEMMA StutteringStep ==
  ASSUME IInv, UNCHANGED vars
  PROVE  IInv' /\ UNCHANGED credentialVars
  BY UntouchedCredentials
  DEF vars, IInv, TypeOK, ownerVars, issuerVars, credentialVars, upgradeVars

-----------------------------------------------------------------------------
(* Steps that change credentials.  A revocation rewrites one record and     *)
(* keeps its key and its hash.                                              *)

LEMMA RevocationStep ==
  ASSUME IInv,
         NEW signer \in Addresses,
         NEW token \in DOMAIN credentials,
         RevokeCredential(signer, token) \/ AdminRevokeCredential(signer, token)
  PROVE  IInv'
<1>1. /\ ~credentials[token].revoked
      /\ credentials' = [credentials EXCEPT ![token].revoked = TRUE]
      /\ UNCHANGED <<ownerVars, issuerVars, hashIndex, nextTokenId, totalCredentials,
                     paused, upgradeVars, ledger>>
  BY DEF RevokeCredential, AdminRevokeCredential
<1>2. /\ DOMAIN credentials' = DOMAIN credentials
      /\ credentials' = [t \in DOMAIN credentials' |-> credentials'[t]]
  BY <1>1
<1>3. ASSUME NEW t \in DOMAIN credentials
      PROVE  /\ credentials'[t] \in Credential
             /\ credentials'[t].token_id = credentials[t].token_id
             /\ credentials'[t].credential_hash = credentials[t].credential_hash
  BY <1>1, <1>3 DEF IInv, TypeOK, Credential
<1>4. TypeOK'
  BY <1>1, <1>2, <1>3 DEF IInv, TypeOK, ownerVars, issuerVars, upgradeVars
<1>5. SequentialTokenIds'
  BY <1>1, <1>2, <1>3 DEF IInv, SequentialTokenIds
<1>6. HashIndexConsistent'
  <2>1. /\ \A t \in DOMAIN credentials' :
              /\ credentials'[t].credential_hash \in DOMAIN hashIndex'
              /\ hashIndex'[credentials'[t].credential_hash] = t
        /\ \A h \in DOMAIN hashIndex' :
              /\ hashIndex'[h] \in DOMAIN credentials'
              /\ credentials'[hashIndex'[h]].credential_hash = h
    BY <1>1, <1>2, <1>3, IndexIsInverse
  <2> QED
    BY <2>1 DEF HashIndexConsistent, IsAnchored, VerifyCredential
<1> QED
  BY <1>4, <1>5, <1>6 DEF IInv

(* What one issuing transaction does, single or batch: n new credentials;   *)
(* `row' gives the input of each new token id, `token' the id of each new   *)
(* hash.                                                                    *)
Issues(n, issuer, row, newHashes, token) ==
  LET new == nextTokenId..(nextTokenId + n - 1) IN
  /\ ~paused /\ issuer \in authorized
  /\ \A t \in new : /\ row[t] \in BatchCredentialInput
                    /\ ExpiryIsValid(row[t].expires_at)
                    /\ row[t].credential_hash \in newHashes
                    /\ token[row[t].credential_hash] = t
  /\ \A h \in newHashes : /\ h \notin DOMAIN hashIndex
                          /\ token[h] \in new
                          /\ row[token[h]].credential_hash = h
  /\ credentials' = [t \in DOMAIN credentials \cup new |->
                        IF t \in new THEN NewCredential(t, issuer, row[t])
                        ELSE credentials[t]]
  /\ hashIndex' = [h \in DOMAIN hashIndex \cup newHashes |->
                      IF h \in DOMAIN hashIndex THEN hashIndex[h] ELSE token[h]]
  /\ CountIssued(n)
  /\ UNCHANGED <<ownerVars, issuerVars, paused, upgradeVars, ledger>>

LEMMA IssuingStep ==
  ASSUME IInv,
         NEW n \in Nat,
         NEW issuer \in Addresses,
         NEW row, NEW newHashes, NEW token,
         Issues(n, issuer, row, newHashes, token)
  PROVE  IInv'
<1> USE DEF Issues
<1> DEFINE New == nextTokenId..(nextTokenId + n - 1)
<1>1. /\ nextTokenId \in Nat \ {0}
      /\ DOMAIN credentials = 1..(nextTokenId - 1)
      /\ totalCredentials = nextTokenId - 1
      /\ nextTokenId' = nextTokenId + n
      /\ totalCredentials' = totalCredentials + n
  BY DEF IInv, TypeOK, SequentialTokenIds, CountIssued
<1>2. /\ DOMAIN credentials' = 1..(nextTokenId' - 1)
      /\ DOMAIN credentials' = DOMAIN credentials \cup New
      /\ DOMAIN credentials \cap New = {}
      /\ New \subseteq Nat
      /\ credentials' = [t \in DOMAIN credentials' |-> credentials'[t]]
  BY <1>1
<1>3. ASSUME NEW t \in DOMAIN credentials
      PROVE  credentials'[t] = credentials[t]
  BY <1>2
<1>4. ASSUME NEW t \in New
      PROVE  /\ credentials'[t] = NewCredential(t, issuer, row[t])
             /\ credentials'[t] \in Credential
             /\ credentials'[t].token_id = t
             /\ credentials'[t].credential_hash = row[t].credential_hash
  <2>1. credentials'[t] = NewCredential(t, issuer, row[t])
    BY <1>2
  <2>2. row[t] \in BatchCredentialInput
    OBVIOUS
  <2>3. t \in Nat /\ ledger \in Nat
    BY <1>2 DEF IInv, TypeOK
  <2> QED
    BY <2>1, <2>2, <2>3, ConstantsOK DEF NewCredential, BatchCredentialInput, Credential
<1>5. /\ DOMAIN hashIndex' = DOMAIN hashIndex \cup newHashes
      /\ hashIndex' = [h \in DOMAIN hashIndex' |-> hashIndex'[h]]
      /\ \A h \in DOMAIN hashIndex : hashIndex'[h] = hashIndex[h]
      /\ \A h \in newHashes : hashIndex'[h] = token[h]
  OBVIOUS
<1>6. newHashes \subseteq Hashes
  BY DEF BatchCredentialInput
<1>7. TypeOK'
  <2>1. /\ DOMAIN hashIndex' \subseteq Hashes
        /\ \A h \in DOMAIN hashIndex' : hashIndex'[h] \in Nat
    BY <1>2, <1>5, <1>6 DEF IInv, TypeOK
  <2>2. /\ DOMAIN credentials' \subseteq Nat
        /\ \A t \in DOMAIN credentials' : credentials'[t] \in Credential
    BY <1>2, <1>3, <1>4 DEF IInv, TypeOK
  <2>3. nextTokenId' \in Nat \ {0} /\ totalCredentials' \in Nat
    BY <1>1
  <2> QED
    BY <2>1, <2>2, <2>3, <1>2, <1>5 DEF IInv, TypeOK, ownerVars, issuerVars, upgradeVars
<1>8. SequentialTokenIds'
  <2>1. ASSUME NEW t \in DOMAIN credentials' PROVE credentials'[t].token_id = t
    <3>1. CASE t \in DOMAIN credentials
      BY <3>1, <1>3 DEF IInv, SequentialTokenIds
    <3>2. CASE t \in New
      BY <3>2, <1>4
    <3> QED
      BY <3>1, <3>2, <1>2
  <2>2. totalCredentials' = nextTokenId' - 1
    BY <1>1
  <2> QED
    BY <2>1, <2>2, <1>2 DEF SequentialTokenIds
<1>9. HashIndexConsistent'
  <2>1. ASSUME NEW t \in DOMAIN credentials'
        PROVE  /\ credentials'[t].credential_hash \in DOMAIN hashIndex'
               /\ hashIndex'[credentials'[t].credential_hash] = t
    <3>1. CASE t \in DOMAIN credentials
      <4>1. /\ credentials[t].credential_hash \in DOMAIN hashIndex
            /\ hashIndex[credentials[t].credential_hash] = t
        BY <3>1, IndexIsInverse
      <4>2. credentials'[t] = credentials[t]
        BY <3>1, <1>3
      <4> QED
        BY <4>1, <4>2, <1>5
    <3>2. CASE t \in New
      <4>1. credentials'[t].credential_hash = row[t].credential_hash
        BY <3>2, <1>4
      <4> QED
        BY <3>2, <4>1, <1>5
    <3> QED
      BY <3>1, <3>2, <1>2
  <2>2. ASSUME NEW h \in DOMAIN hashIndex'
        PROVE  /\ hashIndex'[h] \in DOMAIN credentials'
               /\ credentials'[hashIndex'[h]].credential_hash = h
    <3>1. CASE h \in DOMAIN hashIndex
      <4>1. /\ hashIndex[h] \in DOMAIN credentials
            /\ credentials[hashIndex[h]].credential_hash = h
        BY <3>1, IndexIsInverse
      <4>2. credentials'[hashIndex[h]] = credentials[hashIndex[h]]
        BY <4>1, <1>3
      <4> QED
        BY <3>1, <4>1, <4>2, <1>2, <1>5
    <3>2. CASE h \in newHashes
      <4>1. hashIndex'[h] \in New /\ row[hashIndex'[h]].credential_hash = h
        BY <3>2, <1>5
      <4>2. credentials'[hashIndex'[h]].credential_hash = h
        BY <4>1, <1>4
      <4> QED
        BY <4>1, <4>2, <1>2
    <3> QED
      BY <3>1, <3>2, <1>5
  <2> QED
    BY <2>1, <2>2 DEF HashIndexConsistent, IsAnchored, VerifyCredential
<1> QED
  BY <1>7, <1>8, <1>9 DEF IInv

LEMMA SingleIssues ==
  ASSUME IInv,
         NEW signer \in Addresses,
         NEW row \in BatchCredentialInput,
         IssueCredential(signer, row)
  PROVE  \E n \in Nat : \E rowOf, newHashes, tokenOf :
            Issues(n, signer, rowOf, newHashes, tokenOf)
<1> DEFINE New == nextTokenId..(nextTokenId + 1 - 1)
           rows == [t \in New |-> row]
           hashes == {row.credential_hash}
           tokens == [h \in hashes |-> nextTokenId]
<1>1. nextTokenId \in Nat /\ New = {nextTokenId}
  BY DEF IInv, TypeOK
<1>2. row.credential_hash \notin DOMAIN hashIndex
  BY DEF IssueCredential, IsAnchored
<1>3. \A t \in New : /\ rows[t] \in BatchCredentialInput
                     /\ ExpiryIsValid(rows[t].expires_at)
                     /\ rows[t].credential_hash \in hashes
                     /\ tokens[rows[t].credential_hash] = t
  BY <1>1 DEF IssueCredential
<1>4. \A h \in hashes : /\ h \notin DOMAIN hashIndex
                           /\ tokens[h] \in New
                           /\ rows[tokens[h]].credential_hash = h
  BY <1>1, <1>2
<1>5. credentials' = [t \in DOMAIN credentials \cup New |->
                        IF t \in New THEN NewCredential(t, signer, rows[t])
                        ELSE credentials[t]]
  BY <1>1 DEF IssueCredential
<1>6. hashIndex' = [h \in DOMAIN hashIndex \cup hashes |->
                      IF h \in DOMAIN hashIndex THEN hashIndex[h] ELSE tokens[h]]
  BY <1>2 DEF IssueCredential
<1>7. /\ CountIssued(1) /\ ~paused /\ signer \in authorized
      /\ UNCHANGED <<ownerVars, issuerVars, paused, upgradeVars, ledger>>
  BY DEF IssueCredential
<1> HIDE DEF rows, tokens, hashes
<1>8. Issues(1, signer, rows, hashes, tokens)
  BY <1>3, <1>4, <1>5, <1>6, <1>7 DEF Issues
<1> QED
  BY <1>8

LEMMA BatchIssues ==
  ASSUME IInv,
         NEW signer \in Addresses,
         NEW rows \in Batches,
         BatchIssueCredential(signer, rows)
  PROVE  \E n \in Nat : \E rowOf, newHashes, tokenOf :
            Issues(n, signer, rowOf, newHashes, tokenOf)
<1>1. PICK m \in 1..MAX_BATCH_SIZE : rows \in [1..m -> BatchCredentialInput]
  BY DEF Batches
<1>2. DOMAIN rows = 1..m /\ m \in Nat
  BY <1>1
<1>3. PICK n \in 0..Len(rows) : \E order \in [1..n -> DOMAIN rows] :
         IsAcceptanceOrder(rows, order) /\ WriteAccepted(signer, rows, n, order)
  BY DEF BatchIssueCredential
<1>4. PICK order \in [1..n -> DOMAIN rows] :
         IsAcceptanceOrder(rows, order) /\ WriteAccepted(signer, rows, n, order)
  BY <1>3
<1> DEFINE New == nextTokenId..(nextTokenId + n - 1)
           place(t) == order[t - nextTokenId + 1]
           inputs == [t \in New |-> rows[place(t)]]
           hashes == {rows[i].credential_hash : i \in Accepted(rows)}
           tokens == [h \in hashes |->
                         CHOOSE t \in New : rows[place(t)].credential_hash = h]
<1>0. n \in Nat /\ nextTokenId \in Nat
  BY DEF IInv, TypeOK
<1>5. /\ \A j, k \in 1..n : j < k => order[j] < order[k]
      /\ {order[k] : k \in 1..n} = Accepted(rows)
  BY <1>4 DEF IsAcceptanceOrder
<1>6. ASSUME NEW t \in New
      PROVE  place(t) \in Accepted(rows) /\ t - nextTokenId + 1 \in 1..n
  BY <1>0, <1>5
<1>7. \A i \in Accepted(rows) : rows[i].credential_hash \notin DOMAIN hashIndex
  BY DEF Accepted, RowError, InvalidExpiry, CredentialAlreadyExists, IsAnchored
<1>8. ASSUME NEW t \in New, NEW u \in New,
             rows[place(t)].credential_hash = rows[place(u)].credential_hash
      PROVE  t = u
  <2>1. place(t) = place(u)
    <3>1. DOMAIN rows \subseteq Nat \ {0}
      BY <1>2
    <3>2. place(t) \in Accepted(rows) /\ place(u) \in Accepted(rows)
      BY <1>6
    <3> QED
      BY <3>1, <3>2, <1>8, AcceptedHashesDiffer
  <2>2. /\ t - nextTokenId + 1 \in 1..n /\ u - nextTokenId + 1 \in 1..n
        /\ t \in Int /\ u \in Int
    BY <1>6, <1>0
  <2>3. /\ ~(t - nextTokenId + 1 < u - nextTokenId + 1)
        /\ ~(u - nextTokenId + 1 < t - nextTokenId + 1)
    <3>1. place(t) \in Int /\ place(u) \in Int
      BY <1>6, <1>2 DEF Accepted
    <3> QED
      BY <2>1, <2>2, <3>1, <1>5
  <2> QED
    BY <2>2, <2>3, <1>0
<1>9. ASSUME NEW h \in hashes
      PROVE  \E t \in New : rows[place(t)].credential_hash = h
  <2>1. PICK i \in Accepted(rows) : rows[i].credential_hash = h
    OBVIOUS
  <2>2. PICK k \in 1..n : order[k] = i
    BY <1>5
  <2>3. /\ nextTokenId + k - 1 \in New
        /\ (nextTokenId + k - 1) - nextTokenId + 1 = k
    BY <1>0
  <2> QED
    BY <2>1, <2>2, <2>3
<1>10. ASSUME NEW h \in hashes
       PROVE  tokens[h] \in New /\ rows[place(tokens[h])].credential_hash = h
  BY <1>9
<1>11. \A t \in New : /\ inputs[t] \in BatchCredentialInput
                      /\ ExpiryIsValid(inputs[t].expires_at)
                      /\ inputs[t].credential_hash \in hashes
                      /\ tokens[inputs[t].credential_hash] = t
  <2> TAKE t \in New
  <2>1. inputs[t] = rows[place(t)] /\ place(t) \in DOMAIN rows
    BY <1>6 DEF Accepted
  <2>2. inputs[t] \in BatchCredentialInput
    BY <2>1, <1>1
  <2>3. inputs[t].credential_hash \in hashes
    BY <2>1, <1>6
  <2>4. tokens[inputs[t].credential_hash] = t
    BY <2>1, <2>3, <1>8, <1>10
  <2>5. ExpiryIsValid(inputs[t].expires_at)
    BY <2>1, <1>6 DEF Accepted, RowError, InvalidExpiry
  <2> QED
    BY <2>2, <2>3, <2>4, <2>5
<1>12. \A h \in hashes : /\ h \notin DOMAIN hashIndex
                            /\ tokens[h] \in New
                            /\ inputs[tokens[h]].credential_hash = h
  <2> TAKE h \in hashes
  <2>1. h \notin DOMAIN hashIndex
    BY <1>7
  <2>2. tokens[h] \in New /\ rows[place(tokens[h])].credential_hash = h
    BY <1>10
  <2>3. inputs[tokens[h]] = rows[place(tokens[h])]
    BY <2>2
  <2> QED
    BY <2>1, <2>2, <2>3
<1>13. credentials' = [t \in DOMAIN credentials \cup New |->
                         IF t \in New THEN NewCredential(t, signer, inputs[t])
                         ELSE credentials[t]]
  BY <1>4 DEF WriteAccepted
<1>14. hashIndex' = [h \in DOMAIN hashIndex \cup hashes |->
                       IF h \in DOMAIN hashIndex THEN hashIndex[h] ELSE tokens[h]]
  BY <1>4 DEF WriteAccepted
<1>15. /\ CountIssued(n) /\ ~paused /\ signer \in authorized
       /\ UNCHANGED <<ownerVars, issuerVars, paused, upgradeVars, ledger>>
  BY <1>4 DEF WriteAccepted, BatchIssueCredential
<1> HIDE DEF inputs, tokens, hashes
<1>16. Issues(n, signer, inputs, hashes, tokens)
  BY <1>11, <1>12, <1>13, <1>14, <1>15 DEF Issues
<1> QED
  BY <1>0, <1>16

-----------------------------------------------------------------------------
(* Every step either leaves the credentials alone, issues, or revokes.      *)

IssuesSome ==
  \E issuer \in Addresses, n \in Nat : \E row, newHashes, token :
     Issues(n, issuer, row, newHashes, token)

RevokesOne ==
  \E signer \in Addresses, token \in DOMAIN credentials :
     RevokeCredential(signer, token) \/ AdminRevokeCredential(signer, token)

LEMMA StepKinds ==
  ASSUME IInv, [Next]_vars
  PROVE  \/ IInv' /\ UNCHANGED credentialVars
         \/ IssuesSome
         \/ RevokesOne
<1>1. CASE CloseLedger
  BY <1>1, ClockStep
<1>2. CASE UNCHANGED vars
  BY <1>2, StutteringStep
<1>3. ASSUME NEW signer \in Addresses, Call(signer)
      PROVE  \/ IInv' /\ UNCHANGED credentialVars
             \/ IssuesSome
             \/ RevokesOne
  <2>1. CASE \E row \in BatchCredentialInput : IssueCredential(signer, row)
    BY <2>1, SingleIssues DEF IssuesSome
  <2>2. CASE \E rows \in Batches : BatchIssueCredential(signer, rows)
    BY <2>2, BatchIssues DEF IssuesSome
  <2>3. CASE \/ \E t \in 1..nextTokenId : RevokeCredential(signer, t)
             \/ \E t \in 1..nextTokenId : AdminRevokeCredential(signer, t)
    BY <2>3 DEF RevokeCredential, AdminRevokeCredential, RevokesOne
  <2> QED
    BY <1>3, <2>1, <2>2, <2>3, GovernanceStep DEF Call, Administration
<1> QED
  BY <1>1, <1>2, <1>3 DEF Next

LEMMA InvariantStep == IInv /\ [Next]_vars => IInv'
<1> SUFFICES ASSUME IInv, [Next]_vars PROVE IInv'
  OBVIOUS
<1>1. CASE IssuesSome
  BY <1>1, IssuingStep DEF IssuesSome
<1>2. CASE RevokesOne
  BY <1>2, RevocationStep DEF RevokesOne
<1> QED
  BY <1>1, <1>2, StepKinds

LEMMA Invariance == Spec => []IInv
  BY InitIInv, InvariantStep, PTL DEF Spec

(* Every stored value keeps its type.                                       *)
THEOREM TypeCorrect == Spec => []TypeOK
  BY Invariance, PTL DEF IInv

(* Token ids are sequential and counted, whatever mixture of single issues, *)
(* batches with refused rows and revocations is executed.                   *)
THEOREM TokenIdsCorrect == Spec => []SequentialTokenIds
  BY Invariance, PTL DEF IInv

(* The hash index and the credentials stay inverse to each other.           *)
THEOREM HashIndexCorrect == Spec => []HashIndexConsistent
  BY Invariance, PTL DEF IInv

-----------------------------------------------------------------------------
(* What a step may do to the credentials.                                   *)

LEMMA IssuingAdds ==
  ASSUME IInv,
         NEW n \in Nat,
         NEW issuer \in Addresses,
         NEW row, NEW newHashes, NEW token,
         Issues(n, issuer, row, newHashes, token)
  PROVE  /\ DOMAIN credentials' =
               DOMAIN credentials \cup nextTokenId..(nextTokenId + n - 1)
         /\ DOMAIN credentials \cap nextTokenId..(nextTokenId + n - 1) = {}
         /\ \A t \in DOMAIN credentials : credentials'[t] = credentials[t]
         /\ \A t \in nextTokenId..(nextTokenId + n - 1) :
               credentials'[t] = NewCredential(t, issuer, row[t])
<1>1. DOMAIN credentials \cap nextTokenId..(nextTokenId + n - 1) = {}
  BY DEF IInv, TypeOK, SequentialTokenIds
<1> QED
  BY <1>1 DEF Issues

LEMMA RevocationRewrites ==
  ASSUME IInv, RevokesOne
  PROVE  \E token \in DOMAIN credentials :
            /\ ~credentials[token].revoked
            /\ credentials' = [credentials EXCEPT ![token].revoked = TRUE]
            /\ UNCHANGED <<hashIndex, ledger>>
            /\ ~paused
  BY DEF RevokesOne, RevokeCredential, AdminRevokeCredential

(* No transaction alters or removes what a credential says, nor undoes a    *)
(* revocation.                                                              *)
THEOREM CredentialsArePermanent == Spec => CredentialsPermanent
<1> DEFINE Permanent ==
      \A t \in DOMAIN credentials :
          /\ t \in DOMAIN credentials'
          /\ credentials'[t] \in {credentials[t], [credentials[t] EXCEPT !.revoked = TRUE]}
<1>1. ASSUME IInv, [Next]_vars PROVE Permanent
  <2>1. CASE UNCHANGED credentialVars
    BY <2>1 DEF credentialVars
  <2>2. CASE IssuesSome
    BY <1>1, <2>2, IssuingAdds DEF IssuesSome
  <2>3. CASE RevokesOne
    BY <1>1, <2>3, RevocationRewrites
  <2> QED
    BY <1>1, <2>1, <2>2, <2>3, StepKinds
<1>2. IInv /\ [Next]_vars => [Permanent]_vars
  BY <1>1
<1> QED
  BY <1>2, Invariance, PTL DEF Spec, CredentialsPermanent

(* A paused contract issues and revokes nothing.                            *)
THEOREM PauseIsComplete == Spec => PauseFreezesCredentials
<1>1. IInv /\ [Next]_vars => [paused => UNCHANGED credentialVars]_vars
  <2> SUFFICES ASSUME IInv, [Next]_vars, paused
               PROVE  UNCHANGED credentialVars
    OBVIOUS
  <2>1. ~IssuesSome
    BY DEF IssuesSome, Issues
  <2>2. ~RevokesOne
    BY RevocationRewrites
  <2> QED
    BY <2>1, <2>2, StepKinds
<1> QED
  BY <1>1, Invariance, PTL DEF Spec, PauseFreezesCredentials

(* Whatever issues a credential, its issuer was authorized, the contract    *)
(* was not paused and the credential is valid when it appears.              *)
THEOREM IssuedByAuthorized == Spec => IssuedByAuthorizedIssuer
<1> DEFINE Authorized ==
      \A t \in DOMAIN credentials' \ DOMAIN credentials :
          /\ ~paused
          /\ credentials'[t].issuer \in authorized
          /\ CredentialStatus(t)' = "Valid"
<1>1. ASSUME IInv, [Next]_vars PROVE Authorized
  <2>1. CASE UNCHANGED credentialVars
    BY <2>1 DEF credentialVars
  <2>2. CASE IssuesSome
    <3>1. PICK issuer \in Addresses, n \in Nat : \E row, newHashes, token :
             Issues(n, issuer, row, newHashes, token)
      BY <2>2 DEF IssuesSome
    <3>2. PICK row, newHashes, token : Issues(n, issuer, row, newHashes, token)
      BY <3>1
    <3>3. ASSUME NEW t \in DOMAIN credentials' \ DOMAIN credentials
          PROVE  /\ credentials'[t] = NewCredential(t, issuer, row[t])
                 /\ ExpiryIsValid(row[t].expires_at)
      BY <1>1, <3>2, IssuingAdds DEF Issues
    <3>4. ledger' = ledger /\ ledger \in Nat
      BY <1>1, <3>2 DEF Issues, IInv, TypeOK
    <3>5. ASSUME NEW t \in DOMAIN credentials' \ DOMAIN credentials
          PROVE  CredentialStatus(t)' = "Valid"
      <4>1. /\ credentials'[t].expires_at = row[t].expires_at
            /\ ~credentials'[t].revoked
            /\ t \in DOMAIN credentials'
        BY <3>3 DEF NewCredential
      <4>2. row[t].expires_at \in Nat \cup {None}
        BY <1>1, <3>2, IssuingAdds, ConstantsOK DEF Issues, BatchCredentialInput
      <4>3. ~IsExpired(credentials[t])'
        BY <3>3, <3>4, <4>1, <4>2 DEF IsExpired, ExpiryIsValid
      <4> QED
        BY <4>1, <4>3 DEF CredentialStatus
    <3> QED
      BY <3>2, <3>3, <3>5 DEF Issues, NewCredential
  <2>3. CASE RevokesOne
    BY <1>1, <2>3, RevocationRewrites
  <2> QED
    BY <1>1, <2>1, <2>2, <2>3, StepKinds
<1>2. IInv /\ [Next]_vars => [Authorized]_vars
  BY <1>1
<1> QED
  BY <1>2, Invariance, PTL DEF Spec, IssuedByAuthorizedIssuer

LEMMA StatusRanks ==
  /\ StatusRank("Valid") = 1
  /\ StatusRank("Expired") = 2
  /\ StatusRank("Revoked") = 3
  BY DEF StatusRank, StatusOrder

(* The status a verifier reads never improves, as the clock runs and as     *)
(* transactions are executed.                                               *)
THEOREM StatusIsMonotone == Spec => StatusNeverImproves
<1> DEFINE NotBetter ==
      \A t \in DOMAIN credentials :
          StatusRank(CredentialStatus(t)') >= StatusRank(CredentialStatus(t))
<1>1. ASSUME IInv, [Next]_vars PROVE NotBetter
  <2> SUFFICES ASSUME NEW t \in DOMAIN credentials
               PROVE  StatusRank(CredentialStatus(t)') >= StatusRank(CredentialStatus(t))
    OBVIOUS
  <2>1. /\ t \in DOMAIN credentials'
        /\ credentials'[t].expires_at = credentials[t].expires_at
        /\ credentials[t].revoked => credentials'[t].revoked
        /\ credentials[t].expires_at \in Nat \cup {None}
    <3>1. credentials[t] \in Credential
      BY <1>1 DEF IInv, TypeOK
    <3>2. CASE UNCHANGED credentialVars
      BY <3>1, <3>2 DEF credentialVars, Credential
    <3>3. CASE IssuesSome
      BY <1>1, <3>1, <3>3, IssuingAdds DEF IssuesSome, Credential
    <3>4. CASE RevokesOne
      <4>1. PICK token \in DOMAIN credentials :
               credentials' = [credentials EXCEPT ![token].revoked = TRUE]
        BY <1>1, <3>4, RevocationRewrites
      <4>2. credentials'[t] = credentials[t]
              \/ credentials'[t] = [credentials[t] EXCEPT !.revoked = TRUE]
        BY <4>1
      <4> QED
        BY <3>1, <4>1, <4>2 DEF Credential
    <3> QED
      BY <1>1, <3>2, <3>3, <3>4, StepKinds
  <2>2. ledger' >= ledger /\ ledger \in Nat /\ ledger' \in Nat
    <3>1. ledger \in Nat
      BY <1>1 DEF IInv, TypeOK
    <3>2. ledger' = ledger \/ ledger' = ledger + 1
      BY <1>1 DEF Next, Call, Administration, vars, CloseLedger, TransferOwner, AcceptOwner,
        AuthorizeIssuer, RevokeIssuer, SetIssuerProfile, IssueCredential,
        BatchIssueCredential, RevokeCredential, AdminRevokeCredential, Pause, Unpause,
        ProposeUpgrade, CancelUpgrade, Upgrade, Migrate
    <3> QED
      BY <3>1, <3>2
  <2>3. IsExpired(credentials[t]) => IsExpired(credentials[t])'
    BY <2>1, <2>2, ConstantsOK DEF IsExpired
  <2> QED
    BY <2>1, <2>3, StatusRanks DEF CredentialStatus
<1>2. IInv /\ [Next]_vars => [NotBetter]_vars
  BY <1>1
<1> QED
  BY <1>2, Invariance, PTL DEF Spec, StatusNeverImproves

(* A dismissed issuer all of whose credentials are revoked keeps none that  *)
(* is good, whatever is executed, until it is authorized again.             *)
THEOREM ContainmentIsLasting == Spec => ContainmentLasts
<1> DEFINE Lasts ==
      \A a \in Addresses : Contained(a) /\ a \notin authorized' => Contained(a)'
<1>1. ASSUME IInv, [Next]_vars PROVE Lasts
  <2> SUFFICES ASSUME NEW a \in Addresses, Contained(a), a \notin authorized',
                      NEW t \in DOMAIN credentials', credentials'[t].issuer = a
               PROVE  credentials'[t].revoked
    BY DEF Contained
  <2>1. CASE UNCHANGED credentialVars
    BY <2>1 DEF credentialVars, Contained
  <2>2. CASE IssuesSome
    <3>1. PICK issuer \in Addresses, n \in Nat : \E row, newHashes, token :
             Issues(n, issuer, row, newHashes, token)
      BY <2>2 DEF IssuesSome
    <3>2. PICK row, newHashes, token : Issues(n, issuer, row, newHashes, token)
      BY <3>1
    <3>3. issuer # a
      BY <3>2 DEF Issues, Contained
    <3>4. t \in DOMAIN credentials
      <4> SUFFICES ASSUME t \notin DOMAIN credentials PROVE FALSE
        OBVIOUS
      <4>0. /\ DOMAIN credentials' =
                    DOMAIN credentials \cup nextTokenId..(nextTokenId + n - 1)
            /\ \A u \in nextTokenId..(nextTokenId + n - 1) :
                    credentials'[u] = NewCredential(u, issuer, row[u])
        BY <1>1, <3>2, IssuingAdds
      <4>1. credentials'[t] = NewCredential(t, issuer, row[t])
        BY <4>0
      <4> QED
        BY <3>3, <4>1 DEF NewCredential
    <3>5. credentials'[t] = credentials[t]
      BY <1>1, <3>2, <3>4, IssuingAdds
    <3> QED
      BY <3>4, <3>5 DEF Contained
  <2>3. CASE RevokesOne
    <3>1. PICK token \in DOMAIN credentials :
             credentials' = [credentials EXCEPT ![token].revoked = TRUE]
      BY <1>1, <2>3, RevocationRewrites
    <3>2. t \in DOMAIN credentials /\ credentials[t] \in Credential
      BY <1>1, <3>1 DEF IInv, TypeOK
    <3>3. CASE t = token
      BY <3>1, <3>2, <3>3 DEF Credential
    <3>4. CASE t # token
      BY <3>1, <3>2, <3>4 DEF Contained
    <3> QED
      BY <3>3, <3>4
  <2> QED
    BY <1>1, <2>1, <2>2, <2>3, StepKinds
<1>2. IInv /\ [Next]_vars => [Lasts]_vars
  BY <1>1
<1> QED
  BY <1>2, Invariance, PTL DEF Spec, ContainmentLasts

-----------------------------------------------------------------------------
(* The contract implements the registry of CredentialRegistry.              *)

registryOf == [h \in DOMAIN hashIndex |-> VerifyCredential(h)]

LEMMA RegistryEntries ==
  ASSUME IInv
  PROVE  \A h \in DOMAIN hashIndex : registryOf[h] = credentials[hashIndex[h]]
  BY IndexIsInverse DEF registryOf, VerifyCredential

LEMMA IssuingAnchors ==
  ASSUME IInv, IInv', IssuesSome
  PROVE  Registry!Anchor
<1>1. PICK issuer \in Addresses, n \in Nat : \E row, newHashes, token :
         Issues(n, issuer, row, newHashes, token)
  BY DEF IssuesSome
<1>2. PICK row, newHashes, token : Issues(n, issuer, row, newHashes, token)
  BY <1>1
<1> DEFINE New == nextTokenId..(nextTokenId + n - 1)
<1>3. /\ DOMAIN hashIndex' = DOMAIN hashIndex \cup newHashes
      /\ \A h \in DOMAIN hashIndex : hashIndex'[h] = hashIndex[h]
      /\ \A h \in newHashes : /\ hashIndex'[h] = token[h]
                              /\ token[h] \in New
                              /\ row[token[h]].credential_hash = h
  BY <1>2 DEF Issues
<1>4. ASSUME NEW h \in DOMAIN hashIndex
      PROVE  registryOf'[h] = registryOf[h]
  <2>1. hashIndex[h] \in DOMAIN credentials
    BY IndexIsInverse
  <2>2. credentials'[hashIndex[h]] = credentials[hashIndex[h]]
    BY <1>2, <2>1, IssuingAdds
  <2>3. hashIndex[h] \in DOMAIN credentials'
    BY <1>2, <2>1, IssuingAdds
  <2> QED
    BY <1>3, <2>1, <2>2, <2>3 DEF registryOf, VerifyCredential
<1>5. ASSUME NEW h \in newHashes
      PROVE  registryOf'[h] = NewCredential(token[h], issuer, row[token[h]])
  <2>1. token[h] \in New /\ hashIndex'[h] = token[h] /\ h \in DOMAIN hashIndex'
    BY <1>3
  <2>2. /\ token[h] \in DOMAIN credentials'
        /\ credentials'[token[h]] = NewCredential(token[h], issuer, row[token[h]])
    <3>1. \A t \in New : credentials'[t] = NewCredential(t, issuer, row[t])
      BY <1>2, IssuingAdds
    <3>2. New \subseteq DOMAIN credentials'
      BY <1>2, IssuingAdds
    <3> QED
      BY <2>1, <3>1, <3>2
  <2> QED
    BY <2>1, <2>2 DEF registryOf, VerifyCredential
<1>6. ASSUME NEW h \in newHashes
      PROVE  /\ registryOf'[h].credential_hash = h
             /\ ~registryOf'[h].revoked
             /\ registryOf'[h].issuer = issuer
             /\ registryOf'[h].issued_at = ledger
             /\ registryOf'[h].token_id = token[h]
  <2>1. registryOf'[h] = NewCredential(token[h], issuer, row[token[h]])
    BY <1>5
  <2>2. row[token[h]].credential_hash = h
    BY <1>3
  <2> QED
    BY <2>1, <2>2 DEF NewCredential
<1>7. \A g, h \in newHashes : token[g] = token[h] => g = h
  BY <1>3
<1>8. DOMAIN registryOf = DOMAIN hashIndex /\ DOMAIN registryOf' = DOMAIN hashIndex'
  BY DEF registryOf
<1>9. DOMAIN registryOf' \ DOMAIN registryOf \subseteq newHashes
  BY <1>3, <1>8
<1>10. /\ \A h \in DOMAIN registryOf' \ DOMAIN registryOf :
             registryOf'[h].credential_hash = h /\ ~registryOf'[h].revoked
       /\ \A g, h \in DOMAIN registryOf' \ DOMAIN registryOf :
             /\ registryOf'[g].issuer = registryOf'[h].issuer
             /\ registryOf'[g].issued_at = registryOf'[h].issued_at
             /\ registryOf'[g].token_id = registryOf'[h].token_id => g = h
  BY <1>6, <1>7, <1>9
<1> QED
  BY <1>3, <1>4, <1>8, <1>10 DEF Registry!Anchor, Registry!Anchored, registryOf

LEMMA RevocationRevokes ==
  ASSUME IInv, IInv', RevokesOne
  PROVE  Registry!Revoke
<1>1. PICK token \in DOMAIN credentials :
         /\ ~credentials[token].revoked
         /\ credentials' = [credentials EXCEPT ![token].revoked = TRUE]
         /\ UNCHANGED hashIndex
  BY RevocationRewrites
<1> DEFINE hash == credentials[token].credential_hash
<1>2. /\ hash \in DOMAIN hashIndex
      /\ hashIndex[hash] = token
  BY <1>1, IndexIsInverse
<1>3. /\ registryOf = [h \in DOMAIN hashIndex |-> credentials[hashIndex[h]]]
      /\ registryOf' = [h \in DOMAIN hashIndex |-> credentials'[hashIndex[h]]]
  <2>1. \A h \in DOMAIN hashIndex : hashIndex[h] \in DOMAIN credentials
    BY IndexIsInverse
  <2> QED
    BY <1>1, <2>1 DEF registryOf, VerifyCredential
<1>4. \A h \in DOMAIN hashIndex :
         /\ hashIndex[h] \in DOMAIN credentials
         /\ hashIndex[h] = token => h = hash
  BY IndexIsInverse
<1>5. registryOf' = [registryOf EXCEPT ![hash].revoked = TRUE]
  BY <1>1, <1>2, <1>3, <1>4
<1>6. ~registryOf[hash].revoked /\ hash \in DOMAIN registryOf
  BY <1>1, <1>2, <1>3
<1> QED
  BY <1>5, <1>6 DEF Registry!Revoke, Registry!Anchored, registryOf

(* Read by hash, the contract is an append-only registry whose entries      *)
(* change only by being revoked.                                            *)
THEOREM ContractImplementsRegistry == Spec => ImplementsRegistry
<1>1. Init => Registry!Init
  BY DEF Init, Registry!Init
<1>2. ASSUME IInv, IInv', [Next]_vars
      PROVE  Registry!Next \/ registryOf' = registryOf
  <2>1. CASE UNCHANGED credentialVars
    BY <2>1 DEF credentialVars, registryOf, VerifyCredential
  <2>2. CASE IssuesSome
    BY <1>2, <2>2, IssuingAnchors DEF Registry!Next
  <2>3. CASE RevokesOne
    BY <1>2, <2>3, RevocationRevokes DEF Registry!Next
  <2> QED
    BY <1>2, <2>1, <2>2, <2>3, StepKinds
<1>3. IInv /\ IInv' /\ [Next]_vars => [Registry!Next]_registryOf
  BY <1>2
<1> QED
  BY <1>1, <1>3, Invariance, PTL
  DEF Spec, ImplementsRegistry, Registry!Spec, registryOf

-----------------------------------------------------------------------------
(* On whose authority, and after what notice.  The observations are         *)
(* history only: a step of AuditSpec is a step of Spec.                     *)

LEMMA PublishingIsCall ==
  ASSUME NEW signer \in Addresses, PublishingCall(signer)
  PROVE  Call(signer)
  BY DEF PublishingCall, Call

LEMMA AuditIsNext == [AuditNext]_auditVars => [Next]_vars
  BY PublishingIsCall DEF AuditNext, auditVars, Next

LEMMA AuditSteps ==
  ASSUME AuditNext
  PROVE  \/ /\ CloseLedger
            /\ lastSigner' = None /\ UNCHANGED announcedAt /\ published' = {}
         \/ \E signer \in Addresses :
               /\ Call(signer)
               /\ lastSigner' = signer
               /\ announcedAt' = IF pendingUpgrade' \notin {None, pendingUpgrade}
                                 THEN ledger ELSE announcedAt
  BY PublishingIsCall DEF AuditNext

LEMMA AuditInvariance == AuditSpec => []IInv
<1>1. AuditInit => IInv
  BY InitIInv DEF AuditInit
<1> QED
  BY <1>1, InvariantStep, AuditIsNext, PTL DEF AuditSpec

(* What the transactions of one signer leave to others, entry point by      *)
(* entry point.                                                             *)
LEMMA CallAuthority ==
  ASSUME IInv, NEW signer \in Addresses, Call(signer)
  PROVE  /\ UNCHANGED owner \/ signer = pendingOwner
         /\ owner' # owner \/ UNCHANGED pendingOwner \/ signer = owner
         /\ UNCHANGED <<authorized, paused, upgradeVars>> \/ signer = owner
         /\ \A a \in Addresses : issuerProfile'[a] = issuerProfile[a] \/ signer = a
<1> USE DEF ownerVars, issuerVars, upgradeVars
<1>1. CASE \E a \in Addresses : TransferOwner(signer, a)
  BY <1>1 DEF TransferOwner
<1>2. CASE AcceptOwner(signer)
  BY <1>2 DEF AcceptOwner
<1>3. CASE \E a \in Addresses :
              AuthorizeIssuer(signer, a) \/ RevokeIssuer(signer, a)
  BY <1>3 DEF AuthorizeIssuer, RevokeIssuer
<1>4. CASE \E p \in Profiles : SetIssuerProfile(signer, p)
  BY <1>4 DEF SetIssuerProfile, IInv, TypeOK
<1>5. CASE \E row \in BatchCredentialInput : IssueCredential(signer, row)
  BY <1>5 DEF IssueCredential
<1>6. CASE \E rows \in Batches : BatchIssueCredential(signer, rows)
  BY <1>6 DEF BatchIssueCredential
<1>7. CASE \E t \in 1..nextTokenId :
              RevokeCredential(signer, t) \/ AdminRevokeCredential(signer, t)
  BY <1>7 DEF RevokeCredential, AdminRevokeCredential
<1>8. CASE Pause(signer) \/ Unpause(signer) \/ CancelUpgrade(signer) \/ Migrate(signer)
  BY <1>8 DEF Pause, Unpause, CancelUpgrade, Migrate
<1>9. CASE \E w \in WasmHashes : ProposeUpgrade(signer, w) \/ Upgrade(signer, w)
  BY <1>9 DEF ProposeUpgrade, Upgrade
<1> QED
  BY <1>1, <1>2, <1>3, <1>4, <1>5, <1>6, <1>7, <1>8, <1>9 DEF Call, Administration

(* A new credential names the signer as its issuer; a credential changes    *)
(* only at the hand of its issuer or of the owner.                          *)
LEMMA CredentialAuthority ==
  ASSUME IInv, NEW signer \in Addresses, Call(signer)
  PROVE  /\ \A t \in DOMAIN credentials' \ DOMAIN credentials :
               credentials'[t].issuer = signer
         /\ \A t \in DOMAIN credentials :
               credentials'[t] = credentials[t]
                  \/ signer \in {credentials[t].issuer, owner}
<1> DEFINE Goal ==
      /\ \A t \in DOMAIN credentials' \ DOMAIN credentials :
            credentials'[t].issuer = signer
      /\ \A t \in DOMAIN credentials :
            credentials'[t] = credentials[t]
               \/ signer \in {credentials[t].issuer, owner}
<1>1. ASSUME NEW n \in Nat, NEW row, NEW newHashes, NEW token,
             Issues(n, signer, row, newHashes, token)
      PROVE  Goal
  <2> DEFINE New == nextTokenId..(nextTokenId + n - 1)
  <2>1. /\ DOMAIN credentials' = DOMAIN credentials \cup New
        /\ \A t \in DOMAIN credentials : credentials'[t] = credentials[t]
        /\ \A t \in New : credentials'[t] = NewCredential(t, signer, row[t])
    BY <1>1, IssuingAdds, Zenon
  <2>2. \A t \in New : credentials'[t].issuer = signer
    <3>1. \A t \in New : NewCredential(t, signer, row[t]).issuer = signer
      BY DEF NewCredential
    <3> QED
      BY <2>1, <3>1, Zenon
  <2> HIDE DEF New
  <2> QED
    BY <2>1, <2>2
<1>2. CASE \E row \in BatchCredentialInput : IssueCredential(signer, row)
  BY <1>1, <1>2, SingleIssues
<1>3. CASE \E rows \in Batches : BatchIssueCredential(signer, rows)
  BY <1>1, <1>3, BatchIssues
<1>4. CASE \E t \in 1..nextTokenId : RevokeCredential(signer, t)
  BY <1>4 DEF RevokeCredential
<1>5. CASE \E t \in 1..nextTokenId : AdminRevokeCredential(signer, t)
  BY <1>5 DEF AdminRevokeCredential
<1>6. CASE UNCHANGED credentialVars
  BY <1>6 DEF credentialVars
<1> QED
  BY <1>2, <1>3, <1>4, <1>5, <1>6, GovernanceStep DEF Call, Administration

(* Whatever a transaction changes was its signer's to change.               *)
THEOREM ChangesAreAuthorized == AuditSpec => Authority
<1> DEFINE Authorized ==
      /\ UNCHANGED owner \/ lastSigner' = pendingOwner
      /\ owner' # owner \/ UNCHANGED pendingOwner \/ lastSigner' = owner
      /\ UNCHANGED <<authorized, paused, upgradeVars>> \/ lastSigner' = owner
      /\ \A a \in Addresses :
            issuerProfile'[a] = issuerProfile[a] \/ lastSigner' = a
      /\ \A t \in DOMAIN credentials' \ DOMAIN credentials :
            credentials'[t].issuer = lastSigner'
      /\ \A t \in DOMAIN credentials :
            credentials'[t] = credentials[t]
               \/ lastSigner' \in {credentials[t].issuer, owner}
<1>1. ASSUME IInv, AuditNext PROVE Authorized
  <2>1. CASE CloseLedger
    BY <2>1 DEF CloseLedger, ownerVars, issuerVars, credentialVars
  <2>2. ASSUME NEW signer \in Addresses, Call(signer), lastSigner' = signer
        PROVE  Authorized
    BY <1>1, <2>2, CallAuthority, CredentialAuthority
  <2> QED
    BY <1>1, <2>1, <2>2, AuditSteps
<1>2. IInv /\ [AuditNext]_auditVars => [Authorized]_auditVars
  BY <1>1
<1> QED
  BY <1>2, AuditInvariance, PTL DEF AuditSpec, Authority

(* An upgrade that is pending was announced, and becomes executable only    *)
(* when the timelock has passed since.                                      *)
Announced ==
  pendingUpgrade # None =>
      /\ announcedAt \in Nat
      /\ pendingUpgrade.ready_ledger >= announcedAt + UPGRADE_TIMELOCK_LEDGERS

LEMMA AnnouncedStep ==
  ASSUME IInv, Announced, AuditNext
  PROVE  Announced'
<1> USE DEF Announced
<1>1. CASE UNCHANGED pendingUpgrade
  BY <1>1, AuditSteps
<1>2. CASE pendingUpgrade' = None
  BY <1>2
<1>3. ASSUME NEW signer \in Addresses, NEW w \in WasmHashes, ProposeUpgrade(signer, w),
             pendingUpgrade' \notin {None, pendingUpgrade}
      PROVE  Announced'
  <2>1. announcedAt' = ledger
    BY <1>3, AuditSteps DEF CloseLedger, upgradeVars
  <2>2. pendingUpgrade'.ready_ledger = ledger + UPGRADE_TIMELOCK_LEDGERS
    BY <1>3 DEF ProposeUpgrade
  <2> QED
    BY <2>1, <2>2, ConstantsOK DEF IInv, TypeOK
<1>4. \/ UNCHANGED pendingUpgrade
      \/ pendingUpgrade' = None
      \/ \E signer \in Addresses, w \in WasmHashes : ProposeUpgrade(signer, w)
  BY AuditSteps DEF Call, Administration, CloseLedger, upgradeVars, TransferOwner, AcceptOwner,
    AuthorizeIssuer, RevokeIssuer, SetIssuerProfile, IssueCredential,
    BatchIssueCredential, RevokeCredential, AdminRevokeCredential, Pause, Unpause,
    CancelUpgrade, Upgrade, Migrate
<1> QED
  BY <1>1, <1>2, <1>3, <1>4

LEMMA AnnouncedInvariance == AuditSpec => []Announced
<1>1. AuditInit => Announced
  BY DEF AuditInit, Init, Announced
<1>2. Announced /\ UNCHANGED auditVars => Announced'
  BY DEF auditVars, vars, upgradeVars, Announced
<1> QED
  BY <1>1, <1>2, AnnouncedStep, AuditInvariance, PTL DEF AuditSpec

(* Code changes only to what was announced at least the timelock ago.       *)
THEOREM UpgradesAreAnnounced == AuditSpec => UpgradeNotice
<1> DEFINE Noticed ==
      wasm' # wasm =>
          /\ announcedAt # None
          /\ ledger >= announcedAt + UPGRADE_TIMELOCK_LEDGERS
          /\ pendingUpgrade # None
          /\ wasm' = pendingUpgrade.wasm_hash
<1>1. ASSUME IInv, Announced, AuditNext, wasm' # wasm
      PROVE  Noticed
  <2>1. PICK signer \in Addresses, w \in WasmHashes : Upgrade(signer, w)
    BY <1>1, AuditSteps DEF Call, Administration, CloseLedger, upgradeVars, TransferOwner, AcceptOwner,
      AuthorizeIssuer, RevokeIssuer, SetIssuerProfile, IssueCredential,
      BatchIssueCredential, RevokeCredential, AdminRevokeCredential, Pause, Unpause,
      ProposeUpgrade, CancelUpgrade, Migrate
  <2>2. /\ pendingUpgrade # None
        /\ pendingUpgrade \in PendingUpgrade
        /\ ledger \in Nat
    BY <1>1, <2>1 DEF Upgrade, IInv, TypeOK
  <2> QED
    BY <1>1, <2>1, <2>2, ConstantsOK DEF Upgrade, Announced, PendingUpgrade
<1>2. IInv /\ Announced /\ [AuditNext]_auditVars => [Noticed]_auditVars
  BY <1>1
<1> QED
  BY <1>2, AuditInvariance, AnnouncedInvariance, PTL DEF AuditSpec, UpgradeNotice

-----------------------------------------------------------------------------
(* The events tell everything.  Each entry point that changes a credential  *)
(* or an issuer is matched with what it publishes.                          *)

revokedOf == {t \in DOMAIN credentials : credentials[t].revoked}

LEMMA IssuanceChain ==
  ASSUME IInv, NEW signer \in Addresses, published' = IssuanceEvents,
         \/ \E row \in BatchCredentialInput : IssueCredential(signer, row)
         \/ \E rows \in Batches : BatchIssueCredential(signer, rows)
  PROVE  Chain!Issue \/ Chain!Silence
<1>1. PICK n \in Nat : \E row, newHashes, token : Issues(n, signer, row, newHashes, token)
  BY SingleIssues, BatchIssues
<1>2. PICK row, newHashes, token : Issues(n, signer, row, newHashes, token)
  BY <1>1
<1> DEFINE New == nextTokenId..(nextTokenId + n - 1)
<1>3. /\ DOMAIN credentials' = DOMAIN credentials \cup New
      /\ \A t \in DOMAIN credentials : credentials'[t] = credentials[t]
      /\ \A t \in New : credentials'[t] = NewCredential(t, signer, row[t])
  BY <1>2, IssuingAdds, Zenon
<1>4. \A t \in New : ~NewCredential(t, signer, row[t]).revoked
  BY DEF NewCredential
<1>5. revokedOf' = revokedOf
  <2>1. \A t \in New : ~credentials'[t].revoked
    BY <1>3, <1>4, Zenon
  <2> HIDE DEF New
  <2> QED
    BY <1>3, <2>1 DEF revokedOf
<1>6. /\ nextTokenId' = nextTokenId + n
      /\ nextTokenId \in Nat \ {0}
      /\ UNCHANGED authorized
  BY <1>2 DEF Issues, CountIssued, IInv, TypeOK, issuerVars
<1>7. CASE n = 0
  <2>1. published' = {}
    BY <1>6, <1>7 DEF IssuanceEvents
  <2> QED
    BY <1>5, <1>6, <1>7, <2>1 DEF Chain!Silence, revokedOf
<1>8. CASE n > 0
  <2>1. published' = {Chain!Event("credential_issued", t) :
                         t \in (nextTokenId - 1 + 1)..(nextTokenId' - 1)}
    BY <1>6 DEF IssuanceEvents, Chain!Event, Event
  <2> QED
    BY <1>5, <1>6, <1>8, <2>1 DEF Chain!Issue, revokedOf
<1> QED
  BY <1>7, <1>8

LEMMA RevocationChain ==
  ASSUME IInv, NEW signer \in Addresses, NEW t \in 1..nextTokenId,
         \/ /\ RevokeCredential(signer, t)
            /\ published' = {Event("credential_revoked", t)}
         \/ /\ AdminRevokeCredential(signer, t)
            /\ published' = {Event("credential_revoked_by_owner", t)}
  PROVE  Chain!Revoke
<1>1. /\ t \in DOMAIN credentials
      /\ ~credentials[t].revoked
      /\ credentials' = [credentials EXCEPT ![t].revoked = TRUE]
      /\ UNCHANGED <<authorized, nextTokenId>>
  BY DEF RevokeCredential, AdminRevokeCredential, issuerVars
<1>2. DOMAIN credentials = 1..(nextTokenId - 1) /\ credentials[t] \in Credential
  BY <1>1 DEF IInv, TypeOK, SequentialTokenIds
<1>3. revokedOf' = revokedOf \cup {t}
  <2>1. credentials'[t].revoked
    BY <1>1, <1>2 DEF Credential
  <2>2. \A u \in DOMAIN credentials : u # t => credentials'[u] = credentials[u]
    BY <1>1
  <2>3. DOMAIN credentials' = DOMAIN credentials
    BY <1>1
  <2> QED
    BY <1>1, <2>1, <2>2, <2>3 DEF revokedOf
<1>4. t \in (1..(nextTokenId - 1)) \ revokedOf
  BY <1>1, <1>2 DEF revokedOf
<1>5. \E name \in {"credential_revoked", "credential_revoked_by_owner"} :
         published' = {Chain!Event(name, t)}
  BY DEF Chain!Event, Event
<1> QED
  BY <1>1, <1>3, <1>4, <1>5 DEF Chain!Revoke, revokedOf

LEMMA QuietChain ==
  ASSUME IInv, UNCHANGED <<credentialVars, authorized>>
  PROVE  revokedOf' = revokedOf /\ UNCHANGED <<nextTokenId, authorized>>
  BY DEF credentialVars, revokedOf

LEMMA IssuerChain ==
  ASSUME IInv, NEW signer \in Addresses, NEW a \in Addresses,
         \/ AuthorizeIssuer(signer, a) /\ published' = AuthorizationEvent(a)
         \/ RevokeIssuer(signer, a) /\ published' = DismissalEvent(a)
  PROVE  Chain!Authorize \/ Chain!Dismiss \/ Chain!Silence
<1>1. revokedOf' = revokedOf /\ UNCHANGED nextTokenId
  BY DEF AuthorizeIssuer, RevokeIssuer, credentialVars, revokedOf
<1>2. CASE AuthorizeIssuer(signer, a) /\ published' = AuthorizationEvent(a)
  <2>1. authorized' = authorized \cup {a}
    BY <1>2 DEF AuthorizeIssuer
  <2>2. CASE a \in authorized
    <3>1. authorized' = authorized /\ published' = {}
      BY <1>2, <2>1, <2>2 DEF AuthorizationEvent
    <3> QED
      BY <1>1, <3>1 DEF Chain!Silence, revokedOf
  <2>3. CASE a \notin authorized
    <3>1. published' = {Chain!Event("issuer_authorized", a)}
      BY <1>2, <2>3 DEF AuthorizationEvent, Event, Chain!Event
    <3> QED
      BY <1>1, <2>1, <2>3, <3>1 DEF Chain!Authorize, revokedOf
  <2> QED
    BY <2>2, <2>3
<1>3. CASE RevokeIssuer(signer, a) /\ published' = DismissalEvent(a)
  <2>1. authorized' = authorized \ {a}
    BY <1>3 DEF RevokeIssuer
  <2>2. CASE a \in authorized
    <3>1. published' = {Chain!Event("issuer_revoked", a)}
      BY <1>3, <2>2 DEF DismissalEvent, Event, Chain!Event
    <3> QED
      BY <1>1, <2>1, <2>2, <3>1 DEF Chain!Dismiss, revokedOf
  <2>3. CASE a \notin authorized
    <3>1. authorized' = authorized /\ published' = {}
      BY <1>3, <2>1, <2>3 DEF DismissalEvent
    <3> QED
      BY <1>1, <3>1 DEF Chain!Silence, revokedOf
  <2> QED
    BY <2>2, <2>3
<1> QED
  BY <1>2, <1>3

LEMMA ChainStep ==
  ASSUME IInv, [AuditNext]_auditVars
  PROVE  [Chain!Next]_(Chain!vars)
<1>1. CASE UNCHANGED auditVars
  BY <1>1 DEF auditVars, vars, issuerVars, credentialVars, Chain!vars
<1>2. CASE CloseLedger /\ published' = {}
  BY <1>2 DEF CloseLedger, issuerVars, credentialVars, Chain!Next, Chain!Silence
<1>3. ASSUME NEW signer \in Addresses, PublishingCall(signer)
      PROVE  Chain!Next
  <2>1. CASE \/ \E row \in BatchCredentialInput :
                  IssueCredential(signer, row) /\ published' = IssuanceEvents
             \/ \E rows \in Batches :
                  BatchIssueCredential(signer, rows) /\ published' = IssuanceEvents
    BY <2>1, IssuanceChain DEF Chain!Next
  <2>2. CASE \/ \E a \in Addresses :
                  AuthorizeIssuer(signer, a) /\ published' = AuthorizationEvent(a)
             \/ \E a \in Addresses :
                  RevokeIssuer(signer, a) /\ published' = DismissalEvent(a)
    BY <2>2, IssuerChain DEF Chain!Next
  <2>3. CASE \/ \E t \in 1..nextTokenId :
                  RevokeCredential(signer, t) /\ published' = {Event("credential_revoked", t)}
             \/ \E t \in 1..nextTokenId :
                  /\ AdminRevokeCredential(signer, t)
                  /\ published' = {Event("credential_revoked_by_owner", t)}
    BY <2>3, RevocationChain DEF Chain!Next
  <2>4. CASE Administration(signer) /\ published' = {}
    <3>1. UNCHANGED credentialVars
      BY <2>4, GovernanceStep DEF Administration
    <3>2. UNCHANGED authorized
      BY <2>4 DEF Administration, TransferOwner, AcceptOwner, SetIssuerProfile, Pause,
        Unpause, ProposeUpgrade, CancelUpgrade, Upgrade, Migrate, issuerVars
    <3> QED
      BY <2>4, <3>1, <3>2, QuietChain DEF Chain!Next, Chain!Silence, revokedOf
  <2> QED
    BY <1>3, <2>1, <2>2, <2>3, <2>4 DEF PublishingCall
<1> QED
  BY <1>1, <1>2, <1>3 DEF AuditNext

(* The contract is a chain of CredentialChain: its events tell everything   *)
(* about credentials and issuers, in batches of any size.                   *)
THEOREM ContractImplementsChain == AuditSpec => ImplementsChain
<1>1. AuditInit => Chain!Init
  BY DEF AuditInit, Init, Chain!Init
<1>2. IInv /\ [AuditNext]_auditVars => [Chain!Next]_(Chain!vars)
  BY ChainStep
<1> QED
  BY <1>1, <1>2, AuditInvariance, PTL DEF AuditSpec, ImplementsChain, Chain!Spec

-----------------------------------------------------------------------------
(* The loop of batch_issue_credential and its closed form.                  *)

Locals == {"issuer", "input", "index", "credentials", "hashIndex", "seen_hashes",
           "next_token_id", "issued_count", "results"}

BatchIssueResult == [success : BOOLEAN, token_id : Nat, error_code : Nat]

(* The call under way was entitled to start, and nothing has changed since. *)
CallTyped ==
  /\ DOMAIN loop = Locals
  /\ ~paused
  /\ loop.issuer \in authorized
  /\ loop.input \in Batches
  /\ loop.index \in 0..Len(loop.input)
  /\ loop.issued_count \in 0..loop.index
  /\ loop.next_token_id = nextTokenId + loop.issued_count
  /\ loop.results \in Seq(BatchIssueResult)
  /\ Len(loop.results) = loop.index

(* The rows issued so far, in order, are those the closed form accepts, and *)
(* whatever later row has a hash of a row with a valid expiry is duplicate. *)
Progress(order) ==
  /\ order \in [1..loop.issued_count -> 1..loop.index]
  /\ \A j, k \in 1..loop.issued_count : j < k => order[j] < order[k]
  /\ {order[k] : k \in 1..loop.issued_count}
        = {i \in 1..loop.index : RowError(loop.input, i) = 0}
  /\ loop.seen_hashes
        = {loop.input[order[k]].credential_hash : k \in 1..loop.issued_count}
  /\ \A i \in 1..loop.index :
        ExpiryIsValid(loop.input[i].expires_at)
            => IsDuplicate(loop.input[i].credential_hash)

(* What the loop has stored and answered for them.                          *)
Stored(order) ==
  loop.credentials =
     [t \in DOMAIN credentials \cup nextTokenId..(nextTokenId + loop.issued_count - 1) |->
         IF t \in nextTokenId..(nextTokenId + loop.issued_count - 1)
         THEN NewCredential(t, loop.issuer, loop.input[order[t - nextTokenId + 1]])
         ELSE credentials[t]]

Indexed(order) ==
  /\ loop.hashIndex = [h \in DOMAIN hashIndex \cup loop.seen_hashes |-> loop.hashIndex[h]]
  /\ \A h \in DOMAIN hashIndex : loop.hashIndex[h] = hashIndex[h]
  /\ \A k \in 1..loop.issued_count :
        loop.hashIndex[loop.input[order[k]].credential_hash] = nextTokenId + k - 1

Answers(order) ==
  /\ \A k \in 1..loop.issued_count : loop.results[order[k]] = Issued(nextTokenId + k - 1)
  /\ \A i \in 1..loop.index :
        RowError(loop.input, i) # 0
            => loop.results[i] = Refused(RowError(loop.input, i))

LoopInv ==
  loop # None =>
     /\ CallTyped
     /\ \E order : Progress(order) /\ Stored(order) /\ Indexed(order) /\ Answers(order)

(* The loop's verdict on a row is the closed form's.  Of the earlier rows   *)
(* with a valid expiry the closed form asks whether one has the same hash,  *)
(* the loop whether an issued one has it: an earlier row that was refused   *)
(* as a duplicate has the hash of one that was issued, or of a stored one.  *)
LEMMA RowVerdict ==
  ASSUME CallTyped, NEW order, Progress(order), HasRow
  PROVE  RowError(loop.input, loop.index + 1)
            = IF ~ExpiryIsValid(CurrentRow.expires_at) THEN InvalidExpiry
              ELSE IF IsDuplicate(CurrentRow.credential_hash) THEN CredentialAlreadyExists
              ELSE 0
<1>1. loop.index \in Nat /\ (loop.index + 1) - 1 = loop.index
  BY DEF CallTyped
<1> DEFINE hash == CurrentRow.credential_hash
           earlier == \E j \in 1..loop.index :
                         /\ ExpiryIsValid(loop.input[j].expires_at)
                         /\ loop.input[j].credential_hash = hash
<1>2. ASSUME earlier PROVE IsDuplicate(hash)
  BY <1>2 DEF Progress
<1>3. ASSUME hash \in loop.seen_hashes PROVE earlier
  <2>1. PICK k \in 1..loop.issued_count : loop.input[order[k]].credential_hash = hash
    BY <1>3 DEF Progress
  <2>2. order[k] \in 1..loop.index /\ RowError(loop.input, order[k]) = 0
    BY DEF Progress
  <2>3. ExpiryIsValid(loop.input[order[k]].expires_at)
    BY <2>2 DEF RowError, InvalidExpiry
  <2> QED
    BY <2>1, <2>2, <2>3
<1>4. RowError(loop.input, loop.index + 1)
         = IF ~ExpiryIsValid(CurrentRow.expires_at) THEN InvalidExpiry
           ELSE IF IsAnchored(hash) \/ earlier THEN CredentialAlreadyExists
           ELSE 0
  BY <1>1 DEF RowError, CurrentRow
<1>5. (IsAnchored(hash) \/ earlier) <=> IsDuplicate(hash)
  BY <1>2, <1>3 DEF IsDuplicate
<1> QED
  BY <1>4, <1>5

(* A step of the loop leaves what it reads of the contract alone.           *)
LEMMA LoopFrame ==
  ASSUME UNCHANGED vars
  PROVE  /\ UNCHANGED <<credentials, hashIndex, nextTokenId, totalCredentials, paused,
                        authorized, ledger>>
         /\ \A rows, i : RowError(rows, i)' = RowError(rows, i)
         /\ \A expires_at : ExpiryIsValid(expires_at)' = ExpiryIsValid(expires_at)
         /\ \A hash : IsAnchored(hash)' = IsAnchored(hash)
         /\ \A t, issuer, row : NewCredential(t, issuer, row)' = NewCredential(t, issuer, row)
<1>1. UNCHANGED <<credentials, hashIndex, nextTokenId, totalCredentials, paused,
                  authorized, ledger>>
  BY DEF vars, credentialVars, issuerVars
<1>2. /\ \A expires_at : ExpiryIsValid(expires_at)' = ExpiryIsValid(expires_at)
      /\ \A hash : IsAnchored(hash)' = IsAnchored(hash)
  BY <1>1 DEF ExpiryIsValid, IsAnchored
<1>3. \A rows, i : RowError(rows, i)' = RowError(rows, i)
  BY <1>1, <1>2 DEF RowError, InvalidExpiry, CredentialAlreadyExists
<1>4. \A t, issuer, row : NewCredential(t, issuer, row)' = NewCredential(t, issuer, row)
  BY <1>1 DEF NewCredential
<1> QED
  BY <1>1, <1>2, <1>3, <1>4

(* A call that starts has nothing done yet.                                 *)
LEMMA BeginStep ==
  ASSUME IInv, NEW signer \in Addresses, NEW rows \in Batches, BeginBatch(signer, rows)
  PROVE  LoopInv'
<1>1. /\ DOMAIN loop' = Locals
      /\ loop'.issuer = signer /\ loop'.input = rows /\ loop'.index = 0
      /\ loop'.credentials = credentials /\ loop'.hashIndex = hashIndex
      /\ loop'.seen_hashes = {} /\ loop'.next_token_id = nextTokenId
      /\ loop'.issued_count = 0 /\ loop'.results = <<>>
  BY DEF BeginBatch, Locals
<1>2. UNCHANGED vars
  BY DEF BeginBatch
<1>3. CallTyped'
  <2>1. nextTokenId \in Nat /\ signer \in authorized /\ ~paused /\ Len(rows) \in Nat
    BY DEF IInv, TypeOK, BeginBatch
  <2> QED
    BY <1>1, <1>2, <2>1, LoopFrame DEF CallTyped
<1> DEFINE order == [k \in 1..0 |-> 0]
<1>4. PICK none : none = order
  OBVIOUS
<1>5. Progress(none)'
  BY <1>1, <1>4 DEF Progress
<1>6. Stored(none)'
  <2>1. credentials = [t \in DOMAIN credentials |-> credentials[t]] /\ nextTokenId \in Nat
    BY DEF IInv, TypeOK
  <2> DEFINE new == nextTokenId..(nextTokenId + 0 - 1)
  <2>2. new = {}
    BY <2>1
  <2>3. loop'.credentials = [t \in DOMAIN credentials \cup new |->
            IF t \in new
            THEN NewCredential(t, signer, rows[none[t - nextTokenId + 1]])
            ELSE credentials[t]]
    BY <1>1, <2>1, <2>2
  <2> QED
    BY <1>1, <1>2, <2>3, LoopFrame DEF Stored
<1>7. Indexed(none)'
  <2>1. hashIndex = [h \in DOMAIN hashIndex |-> hashIndex[h]]
    BY DEF IInv, TypeOK
  <2> QED
    BY <1>1, <1>2, <2>1, LoopFrame DEF Indexed
<1>8. Answers(none)'
  BY <1>1 DEF Answers
<1> QED
  BY <1>3, <1>5, <1>6, <1>7, <1>8 DEF LoopInv

(* A refused row leaves everything but the answers as it was.               *)
LEMMA RefusalStep ==
  ASSUME CallTyped, NEW order,
         Progress(order), Stored(order), Indexed(order), Answers(order),
         HasRow, NEW error \in Nat \ {0},
         RowError(loop.input, loop.index + 1) = error,
         ExpiryIsValid(CurrentRow.expires_at) => IsDuplicate(CurrentRow.credential_hash),
         RefuseRow(error)
  PROVE  LoopInv'
<1>1. /\ loop'.index = loop.index + 1
      /\ loop'.results = Append(loop.results, Refused(error))
      /\ DOMAIN loop' = Locals
      /\ loop'.issuer = loop.issuer /\ loop'.input = loop.input
      /\ loop'.credentials = loop.credentials /\ loop'.hashIndex = loop.hashIndex
      /\ loop'.seen_hashes = loop.seen_hashes /\ loop'.next_token_id = loop.next_token_id
      /\ loop'.issued_count = loop.issued_count
  BY DEF RefuseRow, CallTyped, Locals
<1>2. UNCHANGED vars
  BY DEF RefuseRow
<1>3. /\ loop.index \in Nat /\ loop.index < Len(loop.input) /\ Len(loop.input) \in Nat
      /\ loop.issued_count \in 0..loop.index
      /\ loop.results \in Seq(BatchIssueResult) /\ Len(loop.results) = loop.index
  <2>1. PICK m \in 1..MAX_BATCH_SIZE : loop.input \in [1..m -> BatchCredentialInput]
    BY DEF CallTyped, Batches
  <2> QED
    BY <2>1, ConstantsOK DEF CallTyped, HasRow
<1>4. Refused(error) \in BatchIssueResult
  BY DEF Refused, BatchIssueResult
<1>5. /\ loop'.results \in Seq(BatchIssueResult)
      /\ Len(loop'.results) = loop.index + 1
      /\ loop'.results[loop.index + 1] = Refused(error)
      /\ \A i \in 1..loop.index : loop'.results[i] = loop.results[i]
  BY <1>1, <1>3, <1>4
<1>6. CallTyped'
  BY <1>1, <1>2, <1>3, <1>5, LoopFrame DEF CallTyped
<1>7. Progress(order)'
  <2>1. order \in [1..loop'.issued_count -> 1..loop'.index]
    <3>1. \A i \in 1..loop.index : i \in 1..loop'.index
      BY <1>1, <1>3
    <3> QED
      BY <1>1, <3>1 DEF Progress
  <2>2. {order[k] : k \in 1..loop'.issued_count}
           = {i \in 1..loop'.index : RowError(loop.input, i) = 0}
    <3>1. {i \in 1..loop'.index : RowError(loop.input, i) = 0}
             = {i \in 1..loop.index : RowError(loop.input, i) = 0}
      BY <1>1, <1>3
    <3> QED
      BY <1>1, <3>1 DEF Progress
  <2>3. ASSUME NEW i \in 1..loop'.index, ExpiryIsValid(loop.input[i].expires_at)
        PROVE  IsDuplicate(loop.input[i].credential_hash)
    <3>1. CASE i = loop.index + 1
      BY <2>3, <3>1 DEF CurrentRow
    <3>2. CASE i \in 1..loop.index
      BY <2>3, <3>2 DEF Progress
    <3> QED
      BY <1>1, <1>3, <3>1, <3>2
  <2>4. \A hash : IsDuplicate(hash)' = IsDuplicate(hash)
    BY <1>1, <1>2, LoopFrame DEF IsDuplicate
  <2>5. /\ \A j, k \in 1..loop'.issued_count : j < k => order[j] < order[k]
        /\ loop'.seen_hashes
              = {loop'.input[order[k]].credential_hash : k \in 1..loop'.issued_count}
    BY <1>1 DEF Progress
  <2> QED
    BY <1>1, <1>2, <2>1, <2>2, <2>3, <2>4, <2>5, LoopFrame DEF Progress
<1>8. Stored(order)'
  BY <1>1, <1>2, LoopFrame DEF Stored
<1>9. Indexed(order)'
  BY <1>1, <1>2, LoopFrame DEF Indexed
<1>10. Answers(order)'
  <2>1. \A k \in 1..loop.issued_count : loop'.results[order[k]] = Issued(nextTokenId + k - 1)
    BY <1>5 DEF Answers, Progress
  <2>2. ASSUME NEW i \in 1..loop'.index, RowError(loop.input, i) # 0
        PROVE  loop'.results[i] = Refused(RowError(loop.input, i))
    <3>1. CASE i = loop.index + 1
      BY <1>5, <3>1
    <3>2. CASE i \in 1..loop.index
      BY <1>5, <2>2, <3>2 DEF Answers
    <3> QED
      BY <1>1, <1>3, <3>1, <3>2
  <2>3. \A token : Issued(token)' = Issued(token)
    BY DEF Issued
  <2> QED
    BY <1>1, <1>2, <2>1, <2>2, <2>3, LoopFrame DEF Answers
<1> QED
  BY <1>6, <1>7, <1>8, <1>9, <1>10 DEF LoopInv

(* An issued row takes the next id, and is the last of those issued.        *)
LEMMA IssueRowStep ==
  ASSUME IInv, CallTyped, NEW order,
         Progress(order), Stored(order), Indexed(order), Answers(order), IssueRow
  PROVE  LoopInv'
<1> DEFINE place == loop.issued_count + 1
           token == nextTokenId + loop.issued_count
           row == CurrentRow
           hash == CurrentRow.credential_hash
<1>1. /\ loop.index \in Nat /\ loop.index < Len(loop.input) /\ Len(loop.input) \in Nat
      /\ loop.issued_count \in Nat /\ nextTokenId \in Nat
      /\ loop.results \in Seq(BatchIssueResult) /\ Len(loop.results) = loop.index
      /\ loop.next_token_id = token
  <2>1. PICK m \in 1..MAX_BATCH_SIZE : loop.input \in [1..m -> BatchCredentialInput]
    BY DEF CallTyped, Batches
  <2> QED
    BY <2>1, ConstantsOK DEF CallTyped, IssueRow, HasRow, IInv, TypeOK
<1>2. /\ loop'.index = loop.index + 1
      /\ loop'.results = Append(loop.results, Issued(token))
      /\ DOMAIN loop' = Locals
      /\ loop'.issuer = loop.issuer /\ loop'.input = loop.input
      /\ loop'.credentials = [t \in DOMAIN loop.credentials \cup {token} |->
             IF t = token THEN NewCredential(token, loop.issuer, row)
             ELSE loop.credentials[t]]
      /\ loop'.hashIndex = [h \in DOMAIN loop.hashIndex \cup {hash} |->
             IF h = hash THEN token ELSE loop.hashIndex[h]]
      /\ loop'.seen_hashes = loop.seen_hashes \cup {hash}
      /\ loop'.next_token_id = token + 1
      /\ loop'.issued_count = place
  BY <1>1 DEF IssueRow, CallTyped, Locals
<1>3. UNCHANGED vars
  BY DEF IssueRow
<1>4. /\ ExpiryIsValid(row.expires_at) /\ ~IsDuplicate(hash)
      /\ row = loop.input[loop.index + 1]
      /\ RowError(loop.input, loop.index + 1) = 0
  BY RowVerdict DEF IssueRow, CurrentRow
<1>5. Issued(token) \in BatchIssueResult
  BY <1>1 DEF Issued, BatchIssueResult
<1>6. /\ loop'.results \in Seq(BatchIssueResult)
      /\ Len(loop'.results) = loop.index + 1
      /\ loop'.results[loop.index + 1] = Issued(token)
      /\ \A i \in 1..loop.index : loop'.results[i] = loop.results[i]
  BY <1>1, <1>2, <1>5
<1>7. CallTyped'
  BY <1>1, <1>2, <1>3, <1>6, LoopFrame DEF CallTyped
<1>8. PICK after : after = [k \in 1..place |-> IF k = place THEN loop.index + 1
                                               ELSE order[k]]
  OBVIOUS
<1>9. /\ after[place] = loop.index + 1
      /\ \A k \in 1..loop.issued_count :
            /\ k \in 1..place /\ k # place
            /\ after[k] = order[k] /\ order[k] \in 1..loop.index
      /\ \A k \in 1..place : k = place \/ k \in 1..loop.issued_count
  <2>1. \A k \in 1..loop.issued_count : order[k] \in 1..loop.index
    BY DEF Progress
  <2>2. /\ \A k \in 1..place : k = place \/ k \in 1..loop.issued_count
        /\ \A k \in 1..loop.issued_count : k \in 1..place /\ k # place
        /\ place \in 1..place
    BY <1>1
  <2> QED
    BY <1>8, <2>1, <2>2
<1>10. Progress(after)'
  <2>1. after \in [1..place -> 1..loop.index + 1]
    <3>1. /\ loop.index + 1 \in 1..loop.index + 1
          /\ \A i \in 1..loop.index : i \in 1..loop.index + 1
      BY <1>1
    <3>2. \A k \in 1..place : after[k] \in 1..loop.index + 1
      BY <1>9, <3>1
    <3> QED
      BY <1>8, <3>2
  <2>2. \A j, k \in 1..place : j < k => after[j] < after[k]
    <3> SUFFICES ASSUME NEW j \in 1..place, NEW k \in 1..place, j < k
                 PROVE  after[j] < after[k]
      OBVIOUS
    <3>1. j \in 1..loop.issued_count
      BY <1>1
    <3>2. CASE k = place
      BY <1>1, <1>9, <3>1, <3>2
    <3>3. CASE k \in 1..loop.issued_count
      BY <1>9, <3>1, <3>3 DEF Progress
    <3> QED
      BY <1>9, <3>2, <3>3
  <2>3. {after[k] : k \in 1..place}
           = {order[k] : k \in 1..loop.issued_count} \cup {loop.index + 1}
    <3>1. place \in 1..place
      BY <1>1
    <3> HIDE DEF place
    <3>2. \A k \in 1..place :
             after[k] \in {order[j] : j \in 1..loop.issued_count} \cup {loop.index + 1}
      BY <1>9
    <3>3. /\ loop.index + 1 \in {after[k] : k \in 1..place}
          /\ \A j \in 1..loop.issued_count : order[j] \in {after[k] : k \in 1..place}
      BY <1>9, <3>1
    <3> QED
      BY <3>2, <3>3
  <2>4. {i \in 1..loop.index + 1 : RowError(loop.input, i) = 0}
           = {i \in 1..loop.index : RowError(loop.input, i) = 0} \cup {loop.index + 1}
    BY <1>1, <1>4
  <2>5. {after[k] : k \in 1..place}
           = {i \in 1..loop.index + 1 : RowError(loop.input, i) = 0}
    BY <2>3, <2>4 DEF Progress
  <2>6. loop'.seen_hashes = {loop.input[after[k]].credential_hash : k \in 1..place}
    <3>1. loop.seen_hashes
             = {loop.input[order[k]].credential_hash : k \in 1..loop.issued_count}
      BY DEF Progress
    <3>2. place \in 1..place /\ loop.input[after[place]].credential_hash = hash
      BY <1>1, <1>4, <1>9
    <3> QED
      BY <1>2, <1>9, <3>1, <3>2
  <2>7. ASSUME NEW i \in 1..loop.index + 1, ExpiryIsValid(loop.input[i].expires_at)
        PROVE  IsDuplicate(loop.input[i].credential_hash)'
    <3>1. \A h : IsDuplicate(h)' <=> (IsDuplicate(h) \/ h = hash)
      BY <1>2, <1>3, LoopFrame DEF IsDuplicate
    <3>2. CASE i = loop.index + 1
      BY <1>2, <1>4, <3>1, <3>2
    <3>3. CASE i \in 1..loop.index
      BY <1>2, <2>7, <3>1, <3>3 DEF Progress
    <3> QED
      BY <1>1, <3>2, <3>3
  <2>8. {i \in 1..loop.index + 1 : RowError(loop.input, i) = 0}
           = {i \in 1..loop'.index : RowError(loop.input, i)' = 0}
    BY <1>2, <1>3, LoopFrame
  <2>9. ASSUME NEW i \in 1..loop'.index, ExpiryIsValid(loop.input[i].expires_at)'
        PROVE  IsDuplicate(loop.input[i].credential_hash)'
    <3>1. i \in 1..loop.index + 1 /\ ExpiryIsValid(loop.input[i].expires_at)
      BY <1>2, <1>3, <2>9, LoopFrame
    <3>2. IsDuplicate(loop.input[i].credential_hash)'
      BY <2>7, <3>1
    <3> QED
      BY <3>2
  <2>10. loop'.issued_count = place /\ loop'.index = loop.index + 1 /\ loop'.input = loop.input
    BY <1>2
  <2> HIDE DEF place
  <2> QED
    BY ONLY <2>1, <2>2, <2>5, <2>6, <2>8, <2>9, <2>10 DEF Progress
<1>0. /\ loop'.issuer = loop.issuer /\ loop'.input = loop.input
      /\ loop'.index = loop.index + 1 /\ loop'.issued_count = place
  BY <1>2
<1>11. Stored(after)'
  <2> DEFINE new == nextTokenId..(nextTokenId + loop.issued_count - 1)
             more == nextTokenId..(nextTokenId + place - 1)
  <2>1. /\ more = new \cup {token} /\ token \notin new
        /\ \A t \in new : t - nextTokenId + 1 \in 1..loop.issued_count
        /\ token - nextTokenId + 1 = place
    BY <1>1
  <2>2. DOMAIN loop.credentials = DOMAIN credentials \cup new
    BY DEF Stored
  <2>3. token \notin DOMAIN credentials
    BY <1>1 DEF IInv, SequentialTokenIds
  <2>4. ASSUME NEW t \in new
        PROVE  loop.credentials[t]
                  = NewCredential(t, loop.issuer, loop.input[after[t - nextTokenId + 1]])
    BY <1>9, <2>1 DEF Stored
  <2>5. ASSUME NEW t \in DOMAIN credentials, t \notin new
        PROVE  loop.credentials[t] = credentials[t]
    BY <2>5 DEF Stored
  <2>6. NewCredential(token, loop.issuer, row)
           = NewCredential(token, loop.issuer, loop.input[after[token - nextTokenId + 1]])
    BY <1>4, <1>9, <2>1
  <2>7. loop'.credentials = [t \in DOMAIN credentials \cup more |->
            IF t \in more
            THEN NewCredential(t, loop.issuer, loop.input[after[t - nextTokenId + 1]])
            ELSE credentials[t]]
    <3> HIDE DEF token, new, more
    <3> QED
      BY <1>2, <2>1, <2>2, <2>3, <2>4, <2>5, <2>6
  <2> HIDE DEF place
  <2> QED
    BY <1>0, <1>3, <2>7, LoopFrame DEF Stored
<1>12. Indexed(after)'
  <2>0. loop'.hashIndex[hash] = token
        /\ \A h \in DOMAIN loop.hashIndex : h # hash => loop'.hashIndex[h] = loop.hashIndex[h]
    BY <1>2
  <2>1. ~IsAnchored(hash) /\ hash \notin loop.seen_hashes
    BY <1>4 DEF IsDuplicate
  <2>2. hash \notin DOMAIN hashIndex
    BY <2>1 DEF IsAnchored
  <2>3. /\ DOMAIN loop.hashIndex = DOMAIN hashIndex \cup loop.seen_hashes
        /\ \A h \in DOMAIN hashIndex : loop.hashIndex[h] = hashIndex[h]
    BY DEF Indexed
  <2>4. \A h \in DOMAIN hashIndex : loop'.hashIndex[h] = hashIndex[h]
    BY <1>2, <2>2, <2>3
  <2>5. ASSUME NEW k \in 1..loop.issued_count
        PROVE  loop'.hashIndex[loop.input[after[k]].credential_hash] = nextTokenId + k - 1
    <3>1. loop.input[order[k]].credential_hash \in loop.seen_hashes
      BY DEF Progress
    <3>2. loop.hashIndex[loop.input[order[k]].credential_hash] = nextTokenId + k - 1
      BY DEF Indexed
    <3>3. /\ loop.input[order[k]].credential_hash # hash
          /\ loop.input[order[k]].credential_hash \in DOMAIN loop.hashIndex
      BY <2>1, <2>3, <3>1
    <3>4. loop'.hashIndex[loop.input[order[k]].credential_hash] = nextTokenId + k - 1
      BY <2>0, <3>2, <3>3, Zenon
    <3> QED
      BY <1>9, <3>4
  <2>6. loop'.hashIndex[loop.input[after[place]].credential_hash] = nextTokenId + place - 1
    <3>1. loop'.hashIndex[hash] = token
      BY <1>2
    <3> QED
      BY <1>1, <1>4, <1>9, <3>1
  <2>7. loop'.hashIndex
           = [h \in DOMAIN hashIndex \cup loop'.seen_hashes |-> loop'.hashIndex[h]]
    BY <1>2, <2>3
  <2>8. \A k \in 1..place :
           loop'.hashIndex[loop.input[after[k]].credential_hash] = nextTokenId + k - 1
    BY <1>9, <2>5, <2>6
  <2> QED
    BY <1>2, <1>3, <2>4, <2>7, <2>8, LoopFrame DEF Indexed
<1>13. Answers(after)'
  <2>1. \A t : Issued(t)' = Issued(t)
    BY DEF Issued
  <2>2. ASSUME NEW k \in 1..place
        PROVE  loop'.results[after[k]] = Issued(nextTokenId + k - 1)
    <3>1. CASE k = place
      <4>1. nextTokenId + k - 1 = token
        BY <1>1, <3>1
      <4> QED
        BY <1>6, <1>9, <3>1, <4>1
    <3>2. CASE k \in 1..loop.issued_count
      BY <1>6, <1>9, <3>2 DEF Answers
    <3> QED
      BY <1>9, <3>1, <3>2
  <2>3. ASSUME NEW i \in 1..loop.index + 1, RowError(loop.input, i) # 0
        PROVE  loop'.results[i] = Refused(RowError(loop.input, i))
    <3>1. i \in 1..loop.index
      BY <1>1, <1>4, <2>3
    <3> QED
      BY <1>6, <2>3, <3>1 DEF Answers
  <2> HIDE DEF place
  <2> QED
    BY <1>0, <1>3, <2>1, <2>2, <2>3, LoopFrame DEF Answers
<1> QED
  BY <1>7, <1>10, <1>11, <1>12, <1>13 DEF LoopInv

(* A call that returns has done what the closed form says, and answered so. *)
LEMMA ReturnStep ==
  ASSUME IInv, CallTyped, NEW order,
         Progress(order), Stored(order), Indexed(order), Answers(order), ReturnResults
  PROVE  /\ BatchIssueCredential(loop.issuer, loop.input)
         /\ Len(loop.results) = Len(loop.input)
         /\ \A i \in DOMAIN loop.input : loop.results[i] = Answered(loop.input, i)
<1> DEFINE rows == loop.input
           n == loop.issued_count
           new == nextTokenId..(nextTokenId + n - 1)
           rowOf(t) == rows[order[t - nextTokenId + 1]]
           hashes == {rows[i].credential_hash : i \in Accepted(rows)}
<1>1. /\ DOMAIN rows = 1..Len(rows) /\ Len(rows) \in 1..MAX_BATCH_SIZE
      /\ Len(rows) \in Nat /\ loop.index = Len(rows)
      /\ n \in 0..Len(rows) /\ n \in Nat /\ nextTokenId \in Nat
  <2>1. PICK m \in 1..MAX_BATCH_SIZE : rows \in [1..m -> BatchCredentialInput]
    BY DEF CallTyped, Batches
  <2> QED
    BY <2>1, ConstantsOK DEF CallTyped, ReturnResults, IInv, TypeOK
<1>2. /\ order \in [1..n -> DOMAIN rows]
      /\ \A j, k \in 1..n : j < k => order[j] < order[k]
      /\ {order[k] : k \in 1..n} = Accepted(rows)
  BY <1>1 DEF Progress, Accepted
<1>3. IsAcceptanceOrder(rows, order)
  BY <1>2 DEF IsAcceptanceOrder
<1>4. \A k \in 1..n : order[k] \in Accepted(rows)
  BY <1>2
<1>5. ASSUME NEW j \in 1..n, NEW k \in 1..n,
             rows[order[j]].credential_hash = rows[order[k]].credential_hash
      PROVE  j = k
  <2>1. DOMAIN rows \subseteq Nat \ {0}
    BY <1>1
  <2>2. order[j] = order[k]
    BY <1>4, <1>5, <2>1, AcceptedHashesDiffer
  <2>3. order[j] \in Int /\ order[k] \in Int
    BY <1>1, <1>2
  <2> QED
    BY <1>1, <1>2, <2>2, <2>3
<1>6. loop.seen_hashes = hashes
  BY <1>2 DEF Progress
<1>7. ASSUME NEW h \in hashes, h \notin DOMAIN hashIndex
      PROVE  loop.hashIndex[h] = CHOOSE t \in new : rowOf(t).credential_hash = h
  <2>1. PICK k \in 1..n : rows[order[k]].credential_hash = h
    BY <1>2
  <2> DEFINE token == nextTokenId + k - 1
  <2>2. token \in new /\ token - nextTokenId + 1 = k
    BY <1>1
  <2>3. rowOf(token).credential_hash = h
    BY <2>1, <2>2
  <2>4. ASSUME NEW t \in new, rowOf(t).credential_hash = h
        PROVE  t = token
    <3>1. t - nextTokenId + 1 \in 1..n /\ t \in Int
      BY <1>1
    <3>2. t - nextTokenId + 1 = k
      BY <1>5, <2>1, <2>4, <3>1
    <3> QED
      BY <1>1, <3>1, <3>2
  <2>5. loop.hashIndex[h] = token
    BY <2>1 DEF Indexed
  <2>6. (CHOOSE t \in new : rowOf(t).credential_hash = h) = token
    <3> HIDE DEF new, rowOf, token
    <3> QED
      BY <2>2, <2>3, <2>4
  <2> QED
    BY <2>5, <2>6
<1>8. hashIndex' = [h \in DOMAIN hashIndex \cup hashes |->
                       IF h \in DOMAIN hashIndex THEN hashIndex[h]
                       ELSE CHOOSE t \in new : rowOf(t).credential_hash = h]
  <2>1. hashIndex' = [h \in DOMAIN hashIndex \cup hashes |-> loop.hashIndex[h]]
    BY <1>6 DEF Indexed, ReturnResults
  <2>2. \A h \in DOMAIN hashIndex : loop.hashIndex[h] = hashIndex[h]
    BY DEF Indexed
  <2> HIDE DEF new, rowOf, hashes
  <2> QED
    BY <1>7, <2>1, <2>2
<1>9. credentials' = [t \in DOMAIN credentials \cup new |->
                         IF t \in new THEN NewCredential(t, loop.issuer, rowOf(t))
                         ELSE credentials[t]]
  BY DEF Stored, ReturnResults
<1>10. CountIssued(n)
  BY DEF CountIssued, CallTyped, ReturnResults
<1>11. WriteAccepted(loop.issuer, rows, n, order)
  BY <1>8, <1>9, <1>10 DEF WriteAccepted
<1>12. BatchIssueCredential(loop.issuer, rows)
  BY <1>1, <1>2, <1>3, <1>11 DEF BatchIssueCredential, CallTyped, ReturnResults
<1>13. ASSUME NEW i \in DOMAIN rows
       PROVE  loop.results[i] = Answered(rows, i)
  <2>1. CASE i \in Accepted(rows)
    <3>1. PICK k \in 1..n : order[k] = i
      BY <1>2, <2>1
    <3>2. hashIndex'[rows[i].credential_hash] = nextTokenId + k - 1
      BY <3>1 DEF Indexed, ReturnResults
    <3> QED
      BY <2>1, <3>1, <3>2 DEF Answers, Answered
  <2>2. CASE i \notin Accepted(rows)
    <3>1. i \in 1..loop.index /\ RowError(rows, i) # 0
      BY <1>1, <2>2 DEF Accepted
    <3> QED
      BY <2>2, <3>1 DEF Answers, Answered
  <2> QED
    BY <2>1, <2>2
<1>14. Len(loop.results) = Len(rows)
  BY <1>1 DEF CallTyped
<1> QED
  BY <1>12, <1>13, <1>14

LEMMA ReturnMatches ==
  ASSUME IInv, LoopInv, ReturnResults
  PROVE  /\ BatchIssueCredential(loop.issuer, loop.input)
         /\ Len(loop.results) = Len(loop.input)
         /\ \A i \in DOMAIN loop.input : loop.results[i] = Answered(loop.input, i)
<1>1. CallTyped
  BY DEF LoopInv, ReturnResults
<1>2. PICK order : Progress(order) /\ Stored(order) /\ Indexed(order) /\ Answers(order)
  BY DEF LoopInv, ReturnResults
<1> QED
  BY <1>1, <1>2, ReturnStep

(* Each step of the loop is a step of the contract, a return, or stutters.  *)
LEMMA LoopStepIsStep ==
  ASSUME IInv, LoopInv, [LoopNext]_loopVars
  PROVE  [Next]_vars /\ LoopInv'
<1>1. CASE loop = None /\ Next /\ UNCHANGED loop
  BY <1>1 DEF LoopInv
<1>2. ASSUME NEW signer \in Addresses, NEW rows \in Batches, BeginBatch(signer, rows)
      PROVE  LoopInv' /\ UNCHANGED vars /\ loop = None
  BY <1>2, BeginStep DEF BeginBatch
<1>3. CASE RefuseExpired
  <2>1. /\ HasRow /\ RefuseRow(InvalidExpiry)
        /\ ~ExpiryIsValid(CurrentRow.expires_at) /\ InvalidExpiry \in Nat \ {0}
    BY <1>3 DEF RefuseExpired, InvalidExpiry
  <2>2. CallTyped
    BY <2>1 DEF LoopInv, HasRow
  <2>3. PICK order : Progress(order) /\ Stored(order) /\ Indexed(order) /\ Answers(order)
    BY <2>1 DEF LoopInv, HasRow
  <2>4. RowError(loop.input, loop.index + 1) = InvalidExpiry
    BY <2>1, <2>2, <2>3, RowVerdict
  <2>5. LoopInv'
    BY <2>1, <2>2, <2>3, <2>4, RefusalStep
  <2> QED
    BY <2>1, <2>5 DEF RefuseRow
<1>4. CASE RefuseDuplicate
  <2>1. /\ HasRow /\ RefuseRow(CredentialAlreadyExists)
        /\ ExpiryIsValid(CurrentRow.expires_at)
        /\ IsDuplicate(CurrentRow.credential_hash) /\ CredentialAlreadyExists \in Nat \ {0}
    BY <1>4 DEF RefuseDuplicate, CredentialAlreadyExists
  <2>2. CallTyped
    BY <2>1 DEF LoopInv, HasRow
  <2>3. PICK order : Progress(order) /\ Stored(order) /\ Indexed(order) /\ Answers(order)
    BY <2>1 DEF LoopInv, HasRow
  <2>4. RowError(loop.input, loop.index + 1) = CredentialAlreadyExists
    BY <2>1, <2>2, <2>3, RowVerdict
  <2>5. LoopInv'
    BY <2>1, <2>2, <2>3, <2>4, RefusalStep
  <2> QED
    BY <2>1, <2>5 DEF RefuseRow
<1>5. CASE IssueRow
  <2>1. LoopInv'
    BY <1>5, IssueRowStep DEF LoopInv, IssueRow, HasRow
  <2> QED
    BY <1>5, <2>1 DEF IssueRow
<1>6. CASE ReturnResults
  <2>1. loop # None /\ loop' = None
    BY <1>6 DEF ReturnResults
  <2>2. BatchIssueCredential(loop.issuer, loop.input)
    BY <1>6, ReturnMatches
  <2>3. loop.issuer \in Addresses /\ loop.input \in Batches
    BY <2>1 DEF LoopInv, CallTyped, IInv, TypeOK
  <2>4. Next
    BY <2>2, <2>3 DEF Next, Call
  <2> QED
    BY <2>1, <2>2, <2>4 DEF LoopInv
<1>7. CASE UNCHANGED loopVars
  <2>1. UNCHANGED loop /\ UNCHANGED vars
    BY <1>7 DEF loopVars
  <2>2. CallTyped <=> CallTyped'
    BY <2>1, LoopFrame DEF CallTyped
  <2>3. \A order : /\ Progress(order) <=> Progress(order)'
                   /\ Stored(order) <=> Stored(order)'
                   /\ Indexed(order) <=> Indexed(order)'
                   /\ Answers(order) <=> Answers(order)'
    BY <2>1, LoopFrame DEF Progress, Stored, Indexed, Answers, IsDuplicate, Issued, Refused
  <2> QED
    BY <2>1, <2>2, <2>3 DEF LoopInv
<1> QED
  BY <1>1, <1>2, <1>3, <1>4, <1>5, <1>6, <1>7 DEF LoopNext

LEMMA LoopInvariance == LoopSpec => [](IInv /\ LoopInv)
<1>1. LoopInit => IInv /\ LoopInv
  BY InitIInv DEF LoopInit, LoopInv
<1>2. IInv /\ LoopInv /\ [LoopNext]_loopVars => (IInv /\ LoopInv)'
  BY LoopStepIsStep, InvariantStep
<1> QED
  BY <1>1, <1>2, PTL DEF LoopSpec

(* Whatever batch is sent in whatever state, of any size, the loop of the   *)
(* code stores, indexes, counts and answers what the closed form says.      *)
THEOREM BatchIsItsLoop == LoopSpec => BatchMatchesLoop
<1>1. IInv /\ LoopInv /\ [LoopNext]_loopVars =>
         [ReturnResults =>
             /\ BatchIssueCredential(loop.issuer, loop.input)
             /\ Len(loop.results) = Len(loop.input)
             /\ \A i \in DOMAIN loop.input :
                   loop.results[i] = Answered(loop.input, i)]_loopVars
  BY ReturnMatches
<1> QED
  BY <1>1, LoopInvariance, PTL DEF LoopSpec, BatchMatchesLoop

(* The contract with its loop implements the contract in closed form, so    *)
(* that every theorem about the latter holds of the former.                 *)
THEOREM LoopImplementsContract == LoopSpec => Spec
<1>1. LoopInit => Init
  BY DEF LoopInit
<1>2. IInv /\ LoopInv /\ [LoopNext]_loopVars => [Next]_vars
  BY LoopStepIsStep
<1> QED
  BY <1>1, <1>2, LoopInvariance, PTL DEF LoopSpec, Spec
=============================================================================
