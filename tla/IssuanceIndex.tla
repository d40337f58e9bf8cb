--------------------------- MODULE IssuanceIndex ---------------------------
(***************************************************************************)
(* The table `credentials' and those who write it: the issuing browser     *)
(* (credentialService.ts, batchCredentialService.ts), the revoking browser *)
(* (revokeCredentialById) and the indexer (indexerEvent.ts).               *)
(*                                                                         *)
(* The table is an index of the contract.  A credential is issued or       *)
(* revoked when its transaction closes; the browser polls for that, 20     *)
(* times, and only then writes the table, while a transaction stays valid  *)
(* for 300 seconds.  The chain here is the one AcrediaCredential describes,*)
(* reduced to its events: token ids are sequential, a token is revoked     *)
(* once.                                                                   *)
(*                                                                         *)
(* One institution and its wallet.  Statements of Postgres are atomic.     *)
(***************************************************************************)
EXTENDS EventIndexer, FiniteSets

CONSTANTS
    Sessions,     \* issuances: one form or one chunk of a batch import each
    MaxRows,      \* credentials issued by one transaction
    None

ASSUME IssuanceConstantsOK ==
    /\ IsFiniteSet(Sessions)
    /\ MaxRows \in Nat \ {0}
    /\ None \notin {"issuer", "platform"}

VARIABLES
    issuance,     \* per session: where its issuance is, and the tokens it learned
    revocation,   \* per token: where the issuing institution's revocation is
    credentials,  \* the table, by token_id
    linked        \* institutions.wallet_address is the issuing wallet

browserVars == <<issuance, revocation>>
vars == <<networkVars, indexerVars, browserVars, credentials, linked>>

Tokens == 1..(Cardinality(Sessions) * MaxRows)

-----------------------------------------------------------------------------
(* The chain, as its events tell it.                                        *)

EventNames == {"credential_issued", "credential_revoked", "credential_revoked_by_owner"}

EventsOf(token, names) ==
    {e \in {events[i] : i \in DOMAIN events} : e.subject = token /\ e.name \in names}

IssuedEvents(token) == EventsOf(token, {"credential_issued"})

RevokedEvents(token) ==
    EventsOf(token, {"credential_revoked", "credential_revoked_by_owner"})

Issued == {t \in Tokens : IssuedEvents(t) # {}}
Revoked == {t \in Tokens : RevokedEvents(t) # {}}

-----------------------------------------------------------------------------
(* The table.                                                               *)

\* `institution': institution_id names the institution (it may be null).
\* `content': metadata is the credential document, not the empty object.
Row == [institution: BOOLEAN, content: BOOLEAN, revoked: BOOLEAN,
        revocation_source: {"issuer", "platform", None}]

Indexed == DOMAIN credentials

\* The rows the issuing browser sends.  An upsert names neither revoked_at nor
\* revocation_source, so a row that is there keeps them.
BuiltRow(token) ==
    [institution |-> TRUE, content |-> TRUE, revoked |-> FALSE,
     revocation_source |-> IF token \in Indexed
                           THEN credentials[token].revocation_source ELSE None]

TypeOK ==
    /\ IndexerTypeOK
    /\ \A i \in DOMAIN events : events[i].name \in EventNames /\ events[i].subject \in Tokens
    /\ issuance \in [Sessions -> [pc: {"idle", "queued", "abandoned", "landed", "closed"},
                                  tokens: SUBSET Tokens]]
    /\ revocation \in [Tokens -> {"idle", "queued", "abandoned", "landed"}]
    /\ Indexed \subseteq Tokens
    /\ credentials \in [Indexed -> Row]
    /\ linked \in BOOLEAN

Init ==
    /\ IndexerInit
    /\ issuance = [s \in Sessions |-> [pc |-> "idle", tokens |-> {}]]
    /\ revocation = [t \in Tokens |-> "idle"]
    /\ credentials = [t \in {} |-> None]
    /\ linked \in BOOLEAN

-----------------------------------------------------------------------------
(* An issuance.  queued: the transaction is sent and the browser polls.     *)
(* abandoned: it is sent and nobody polls.  landed: the browser has learned *)
(* the token ids and looks up the students before it saves the rows.        *)

Submit(s) ==
    /\ issuance[s].pc = "idle"
    /\ issuance' = [issuance EXCEPT ![s].pc = "queued"]
    /\ UNCHANGED <<networkVars, indexerVars, revocation, credentials, linked>>

\* The polls are used up, or the tab is closed.  Either way the registrar is
\* not told of a token.
GiveUp(s) ==
    /\ issuance[s].pc = "queued"
    /\ issuance' = [issuance EXCEPT ![s].pc = "abandoned"]
    /\ UNCHANGED <<networkVars, indexerVars, revocation, credentials, linked>>

Land(s) ==
    /\ issuance[s].pc \in {"queued", "abandoned"}
    /\ \E n \in 1..MaxRows :
         LET next == Cardinality(Issued) + 1
         IN  /\ Emit([i \in 1..n |->
                       [name |-> "credential_issued", subject |-> next + i - 1]])
             /\ issuance' = [issuance EXCEPT ![s] =
                    IF @.pc = "queued" THEN [pc |-> "landed", tokens |-> next..(next + n - 1)]
                                       ELSE [@ EXCEPT !.pc = "closed"]]
    /\ UNCHANGED <<indexerVars, revocation, credentials, linked>>

\* It fails on chain, or its 300 seconds pass.
Reject(s) ==
    /\ issuance[s].pc \in {"queued", "abandoned"}
    /\ issuance' = [issuance EXCEPT ![s].pc = "closed"]
    /\ UNCHANGED <<networkVars, indexerVars, revocation, credentials, linked>>

\* The row policies of the table: an institution may insert rows that name it,
\* and update those that did so before.
PolicyAllows(tokens) == \A t \in tokens \cap Indexed : credentials[t].institution

\* One upsert for all the rows.
SaveRows(s) ==
    LET tokens == issuance[s].tokens IN
    /\ issuance[s].pc = "landed"
    /\ PolicyAllows(tokens)
    /\ credentials' = [t \in Indexed \cup tokens |->
                          IF t \in tokens THEN BuiltRow(t) ELSE credentials[t]]
    /\ issuance' = [issuance EXCEPT ![s].pc = "closed"]
    /\ UNCHANGED <<networkVars, indexerVars, revocation, linked>>

\* The upsert is refused (the row policy above, an institution that is not
\* verified, a database error) or the tab is closed.  The single form reports
\* it as a failure, the batch import as a success.
LoseRows(s) ==
    /\ issuance[s].pc = "landed"
    /\ issuance' = [issuance EXCEPT ![s].pc = "closed"]
    /\ UNCHANGED <<networkVars, indexerVars, revocation, credentials, linked>>

-----------------------------------------------------------------------------
(* A revocation by the institution, from the list of its credentials.       *)

\* The row is read, and the simulation finds the token unrevoked.
BeginRevocation(t) ==
    /\ revocation[t] = "idle"
    /\ t \in Indexed
    /\ credentials[t].institution
    /\ ~credentials[t].revoked
    /\ t \notin Revoked
    /\ revocation' = [revocation EXCEPT ![t] = "queued"]
    /\ UNCHANGED <<networkVars, indexerVars, issuance, credentials, linked>>

GiveUpRevocation(t) ==
    /\ revocation[t] = "queued"
    /\ revocation' = [revocation EXCEPT ![t] = "abandoned"]
    /\ UNCHANGED <<networkVars, indexerVars, issuance, credentials, linked>>

LandRevocation(t) ==
    /\ revocation[t] \in {"queued", "abandoned"}
    /\ t \notin Revoked
    /\ Emit(<<[name |-> "credential_revoked", subject |-> t]>>)
    /\ revocation' = [revocation EXCEPT ![t] =
                         IF @ = "queued" THEN "landed" ELSE "idle"]
    /\ UNCHANGED <<indexerVars, issuance, credentials, linked>>

RejectRevocation(t) ==
    /\ revocation[t] \in {"queued", "abandoned"}
    /\ revocation' = [revocation EXCEPT ![t] = "idle"]
    /\ UNCHANGED <<networkVars, indexerVars, issuance, credentials, linked>>

\* The row is marked before the transaction is confirmed.
SaveRevocationUnconfirmed(t) ==
    /\ revocation[t] \in {"queued", "landed"}
    /\ credentials' = [credentials EXCEPT ![t].revoked = TRUE]
    /\ revocation' = [revocation EXCEPT ![t] = "idle"]
    /\ UNCHANGED <<networkVars, indexerVars, issuance, linked>>

SaveRevocation(t) ==
    /\ revocation[t] = "landed"
    /\ credentials' = [credentials EXCEPT ![t].revoked = TRUE]
    /\ revocation' = [revocation EXCEPT ![t] = "idle"]
    /\ UNCHANGED <<networkVars, indexerVars, issuance, linked>>

\* A database error or a closed tab; an update the row policy hides the row
\* from changes nothing and reports no error.
LoseRevocation(t) ==
    /\ revocation[t] = "landed"
    /\ revocation' = [revocation EXCEPT ![t] = "idle"]
    /\ UNCHANGED <<networkVars, indexerVars, issuance, credentials, linked>>

-----------------------------------------------------------------------------
(* What happens to the index from outside.                                  *)

\* The owner's revocation does not look whether the token is revoked.
OwnerRevokesAgain(t) ==
    /\ t \in Issued
    /\ Emit(<<[name |-> "credential_revoked_by_owner", subject |-> t]>>)
    /\ UNCHANGED <<indexerVars, browserVars, credentials, linked>>

\* admin_revoke_credential, called by the owner of the contract.  No page of
\* the application calls it.
OwnerRevokes(t) ==
    /\ t \in Issued \ Revoked
    /\ Emit(<<[name |-> "credential_revoked_by_owner", subject |-> t]>>)
    /\ UNCHANGED <<indexerVars, browserVars, credentials, linked>>

\* A ledger without an event of this institution's credentials.
CloseLedger ==
    /\ Emit(<<>>)
    /\ UNCHANGED <<indexerVars, browserVars, credentials, linked>>

\* The institution links another wallet to its profile, or this one again.
ChangeWallet ==
    /\ linked' = ~linked
    /\ UNCHANGED <<networkVars, indexerVars, browserVars, credentials>>

-----------------------------------------------------------------------------
(* processEvent.                                                            *)

StatusOnlyRow ==
    [institution |-> linked, content |-> FALSE, revoked |-> FALSE, revocation_source |-> None]

\* The upsert does not ignore duplicates.
IndexIssuedCredentialOverwrites ==
    /\ HasEvent
    /\ CurrentEvent.name = "credential_issued"
    /\ credentials' = [t \in Indexed \cup {CurrentEvent.subject} |->
                          IF t = CurrentEvent.subject THEN StatusOnlyRow ELSE credentials[t]]
    /\ EventDone
    /\ UNCHANGED <<browserVars, linked>>

\* The upsert leaves the content of a duplicate alone, but not its status.
IndexIssuedCredentialResets ==
    /\ HasEvent
    /\ CurrentEvent.name = "credential_issued"
    /\ LET token == CurrentEvent.subject IN
       credentials' = IF token \in Indexed
                      THEN [credentials EXCEPT ![token].revoked = FALSE]
                      ELSE [t \in Indexed \cup {token} |->
                              IF t = token THEN StatusOnlyRow ELSE credentials[t]]
    /\ EventDone
    /\ UNCHANGED <<browserVars, linked>>

IndexIssuedCredential ==
    /\ HasEvent
    /\ CurrentEvent.name = "credential_issued"
    /\ credentials' = [t \in Indexed \cup {CurrentEvent.subject} |->
                          IF t \in Indexed THEN credentials[t] ELSE StatusOnlyRow]
    /\ EventDone
    /\ UNCHANGED <<browserVars, linked>>

\* An update that matches no row is taken for done.
IndexRevocationUnchecked ==
    /\ HasEvent
    /\ CurrentEvent.name # "credential_issued"
    /\ LET token == CurrentEvent.subject
           source == IF CurrentEvent.name = "credential_revoked" THEN "issuer" ELSE "platform"
       IN  credentials' = [t \in Indexed |->
               IF t = token THEN [credentials[t] EXCEPT !.revoked = TRUE,
                                                        !.revocation_source = source]
                            ELSE credentials[t]]
    /\ EventDone
    /\ UNCHANGED <<browserVars, linked>>

IndexRevocation ==
    /\ HasEvent
    /\ CurrentEvent.name # "credential_issued"
    /\ LET token == CurrentEvent.subject
           source == IF CurrentEvent.name = "credential_revoked" THEN "issuer" ELSE "platform"
       IN  \/ /\ token \in Indexed
              /\ credentials' = [credentials EXCEPT ![token].revoked = TRUE,
                                                    ![token].revocation_source = source]
              /\ EventDone
           \/ /\ token \notin Indexed
              /\ EventThrown
              /\ UNCHANGED credentials
    /\ UNCHANGED <<browserVars, linked>>

-----------------------------------------------------------------------------

Indexer ==
    \/ IndexIssuedCredential
    \/ IndexRevocation
    \/ LoopStep /\ UNCHANGED <<browserVars, credentials, linked>>

Issuance(s) ==
    Submit(s) \/ GiveUp(s) \/ Land(s) \/ Reject(s) \/ SaveRows(s) \/ LoseRows(s)

Revocation(t) ==
    \/ BeginRevocation(t)
    \/ GiveUpRevocation(t)
    \/ LandRevocation(t)
    \/ RejectRevocation(t)
    \/ SaveRevocation(t)
    \/ LoseRevocation(t)

Next ==
    \/ Indexer
    \/ Interrupt /\ UNCHANGED <<browserVars, credentials, linked>>
    \/ \E s \in Sessions : Issuance(s)
    \/ \E t \in Tokens : Revocation(t) \/ OwnerRevokes(t)
    \/ CloseLedger
    \/ ChangeWallet

Spec == Init /\ [][Next]_vars

(* The loop never ends by itself.  Nobody has to finish an issuance or a    *)
(* revocation.                                                              *)
FairSpec == Spec /\ WF_vars(Indexer)

-----------------------------------------------------------------------------
(* Safety.                                                                  *)

(* A ledger the cursor has passed holds no event of a credential without a  *)
(* row: neither an error in the middle of a page, nor a restart, nor a      *)
(* ledger that closes during the sync makes the loop skip one.              *)
CursorCoversRows ==
    \A i \in DOMAIN events : Covered(events[i]) => events[i].subject \in Indexed

(* The index never says more than the chain: a row is of an issued token,   *)
(* one shown as revoked is revoked, by the party the row names.             *)
RowsTruthful ==
    \A t \in Indexed :
        /\ t \in Issued
        /\ credentials[t].revoked => t \in Revoked
        /\ credentials[t].revocation_source = "issuer"
              => EventsOf(t, {"credential_revoked"}) # {}
        /\ credentials[t].revocation_source = "platform"
              => EventsOf(t, {"credential_revoked_by_owner"}) # {}

(* A revocation the cursor has passed leaves a trace in the row for ever:   *)
(* the late write of the issuing browser, which resets the flag `revoked',  *)
(* does not reset revocation_source.                                        *)
RevocationTraced ==
    \A t \in Tokens : \A e \in RevokedEvents(t) :
        Covered(e) => t \in Indexed /\ credentials[t].revocation_source # None

(* No step, replayed events included, takes the content of a credential     *)
(* out of its row.                                                          *)
ContentKept ==
    [][\A t \in Indexed : t \in Indexed' /\ (credentials[t].content => credentials'[t].content)]_vars

(* Once a row has its content, a revocation it shows stays: the one writer  *)
(* that can take a revocation back is the one that first brings the content.*)
RevocationKept ==
    [][\A t \in Indexed : credentials[t].content /\ credentials[t].revoked
                             => credentials'[t].revoked]_vars

\* The chain as its events have it; of one institution only, whose standing as
\* an issuer is no matter here.
Chain == INSTANCE CredentialChain WITH
    count <- Cardinality(Issued),
    revoked <- Revoked,
    authorized <- {},
    published <- LatestEvents

(* The chain under the index, reduced to its events, shows what the         *)
(* contract shows: ids in order, a token revoked once and only after it was *)
(* issued, however late the transactions of the browsers land.              *)
ImplementsChain == Chain!Spec

(* docs/architecture.md, 4.3: after a revocation "the index is updated, and *)
(* the credential shows as revoked everywhere".                             *)
ShownAsRevoked ==
    \A t \in Tokens : \A e \in RevokedEvents(t) :
        Covered(e) => t \in Indexed /\ credentials[t].revoked

-----------------------------------------------------------------------------
(* Liveness.                                                                *)

\* The cursor stands before a revocation of a token that has no row and whose
\* issuance was never to be read: every sync throws at it.
Stuck ==
    \E t \in Tokens \ Indexed : \E e \in RevokedEvents(t) :
        e.ledger > lastLedger /\ \A i \in IssuedEvents(t) : i.ledger <= firstLedger

(* A credential issued after the first start gets a row, whatever becomes   *)
(* of the browser that issued it, unless the loop is stuck.                 *)
EventuallyIndexed ==
    \A t \in Tokens :
        (firstLedger # NoCursor /\ \E e \in IssuedEvents(t) : e.ledger > firstLedger)
            ~> (t \in Indexed \/ Stuck)

(* A revocation the loop has not recorded yet is shown in the end if the    *)
(* row has its content by now, even when the revoking browser saves nothing.*)
RevocationEventuallyShown ==
    \A t \in Tokens :
        (/\ firstLedger # NoCursor
         /\ \E e \in RevokedEvents(t) : e.ledger > firstLedger
         /\ t \in Indexed
         /\ credentials[t].content /\ credentials[t].revocation_source = None)
            ~> ((t \in Indexed /\ credentials[t].revoked) \/ Stuck)
=============================================================================
