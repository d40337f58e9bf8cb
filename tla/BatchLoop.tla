------------------------------ MODULE BatchLoop ------------------------------
(***************************************************************************)
(* The loop of batch_issue_credential, a step for each row, with the       *)
(* locals the code has.  AcrediaCredential states what a batch does in     *)
(* closed form, so that every other property can be reasoned about without *)
(* a loop; here the loop runs beside it and is shown to do the same.       *)
(*                                                                         *)
(* No other transaction runs meanwhile, and what the loop writes is seen   *)
(* by others when the call returns.                                        *)
(***************************************************************************)
EXTENDS AcrediaCredential

VARIABLE loop     \* the call under way, None between two calls

loopVars == <<vars, loop>>

-----------------------------------------------------------------------------

BeginBatchUnauthorized(signer, rows) ==
    /\ loop = None
    /\ ~paused
    /\ Len(rows) \in 1..MAX_BATCH_SIZE
    /\ loop' = [issuer |-> signer, input |-> rows, index |-> 0,
                credentials |-> credentials, hashIndex |-> hashIndex,
                seen_hashes |-> {}, next_token_id |-> nextTokenId,
                issued_count |-> 0, results |-> <<>>]
    /\ UNCHANGED vars

BeginBatch(signer, rows) ==
    /\ loop = None
    /\ ~paused
    /\ signer \in authorized
    /\ Len(rows) \in 1..MAX_BATCH_SIZE
    /\ loop' = [issuer |-> signer, input |-> rows, index |-> 0,
                credentials |-> credentials, hashIndex |-> hashIndex,
                seen_hashes |-> {}, next_token_id |-> nextTokenId,
                issued_count |-> 0, results |-> <<>>]
    /\ UNCHANGED vars

\* The loop has come to this row.
HasRow == loop # None /\ loop.index < Len(loop.input)

CurrentRow == loop.input[loop.index + 1]

(* Stored already, or issued by an earlier row of this batch.  Whether the  *)
(* store shows the call its own writes makes no difference: these are the   *)
(* hashes it would show.                                                    *)
IsDuplicate(hash) == IsAnchored(hash) \/ hash \in loop.seen_hashes

Refused(error) == [success |-> FALSE, token_id |-> 0, error_code |-> error]

Issued(token) == [success |-> TRUE, token_id |-> token, error_code |-> 0]

RefuseRow(error) ==
    /\ loop' = [loop EXCEPT !.index = @ + 1,
                            !.results = Append(@, Refused(error))]
    /\ UNCHANGED vars

RefuseExpired ==
    /\ HasRow
    /\ ~ExpiryIsValid(CurrentRow.expires_at)
    /\ RefuseRow(InvalidExpiry)

RefuseDuplicate ==
    /\ HasRow
    /\ ExpiryIsValid(CurrentRow.expires_at)
    /\ IsDuplicate(CurrentRow.credential_hash)
    /\ RefuseRow(CredentialAlreadyExists)

IssueRow ==
    /\ HasRow
    /\ ExpiryIsValid(CurrentRow.expires_at)
    /\ ~IsDuplicate(CurrentRow.credential_hash)
    /\ LET token == loop.next_token_id
           hash == CurrentRow.credential_hash
       IN  loop' = [loop EXCEPT
               !.index = @ + 1,
               !.credentials = [t \in DOMAIN @ \cup {token} |->
                   IF t = token THEN NewCredential(token, loop.issuer, CurrentRow)
                   ELSE @[t]],
               !.hashIndex = [h \in DOMAIN @ \cup {hash} |->
                   IF h = hash THEN token ELSE @[h]],
               !.seen_hashes = @ \cup {hash},
               !.next_token_id = @ + 1,
               !.issued_count = @ + 1,
               !.results = Append(@, Issued(token))]
    /\ UNCHANGED vars

ReturnResults ==
    /\ loop # None
    /\ loop.index = Len(loop.input)
    /\ credentials' = loop.credentials
    /\ hashIndex' = loop.hashIndex
    /\ nextTokenId' = loop.next_token_id
    /\ totalCredentials' = totalCredentials + loop.issued_count
    /\ loop' = None
    /\ UNCHANGED <<ownerVars, issuerVars, paused, upgradeVars, ledger>>

-----------------------------------------------------------------------------

LoopInit == Init /\ loop = None

\* Any other transaction, or a batch in closed form; or a batch row by row.
LoopNext ==
    \/ loop = None /\ Next /\ UNCHANGED loop
    \/ \E signer \in Addresses, rows \in Batches : BeginBatch(signer, rows)
    \/ RefuseExpired
    \/ RefuseDuplicate
    \/ IssueRow
    \/ ReturnResults

LoopSpec == LoopInit /\ [][LoopNext]_loopVars

-----------------------------------------------------------------------------

(* What a call answers for its i-th row: the id under which the row is      *)
(* stored, or why it was refused.                                           *)
Answered(rows, i) ==
    IF i \in Accepted(rows) THEN Issued(hashIndex'[rows[i].credential_hash])
    ELSE Refused(RowError(rows, i))

(* A batch stores, indexes, counts and answers exactly what the closed form *)
(* says: duplicates inside the batch, rows refused for their expiry that    *)
(* leave their hash free for a later row, and batches in which no row       *)
(* succeeds included.                                                       *)
BatchMatchesLoop ==
    [][ReturnResults =>
          /\ BatchIssueCredential(loop.issuer, loop.input)
          /\ Len(loop.results) = Len(loop.input)
          /\ \A i \in DOMAIN loop.input :
                loop.results[i] = Answered(loop.input, i)]_loopVars
=============================================================================
