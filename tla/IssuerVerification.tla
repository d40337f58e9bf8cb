------------------------- MODULE IssuerVerification -------------------------
(***************************************************************************)
(* Whether an institution counts as verified.  The contract decides which  *)
(* wallets may issue; the columns verified and status of `institutions'    *)
(* repeat it, and the row policies of `credentials' rely on them.  The     *)
(* route api/admin/institutions inserts the row.  Three parties write it:  *)
(* the indexer (indexIssuerAuthorization), the route                       *)
(* api/admin/update-authorization, which the admin console calls once its  *)
(* authorize_issuer transaction is confirmed, and the route                *)
(* api/institution/link-wallet, which is called when a member connects a   *)
(* wallet other than the one on record.                                    *)
(*                                                                         *)
(* The routes run on a web server, any number of requests at a time; each  *)
(* await is a point where the others run.                                  *)
(***************************************************************************)
EXTENDS EventIndexer

CONSTANTS
    Institutions,
    Wallets,
    Requests,     \* calls of update-authorization
    Null

ASSUME VerificationConstantsOK == Null \notin Wallets /\ Null \notin Institutions

VARIABLES
    authorized,     \* the wallets the contract authorizes
    institutions,   \* the table: a row for every institution there is
    compared,       \* the <<i, w>> such that i has had another wallet than w
    request         \* the calls under way

verificationVars == <<networkVars, indexerVars, authorized, institutions, compared, request>>

\* `tx': authorization_tx_hash is set.  verified is (status = "verified").
InstitutionRow == [wallet_address: Wallets \cup {Null}, status: {"pending", "verified", "suspended"},
        tx: BOOLEAN]

Pending(w) == [wallet_address |-> w, status |-> "pending", tx |-> FALSE]

Existing == DOMAIN institutions

Verified(i) == institutions[i].status = "verified"

\* UNIQUE (wallet_address)
WalletsUnique ==
    \A i, j \in Existing :
        institutions[i].wallet_address = institutions[j].wallet_address
            => i = j \/ institutions[i].wallet_address = Null

HasWallet(i, w) == i \in Existing /\ institutions[i].wallet_address = w

\* No institution has w.
Untaken(w) == \A i \in Existing : ~HasWallet(i, w)

VerificationTypeOK ==
    /\ IndexerTypeOK
    /\ \A i \in DOMAIN events :
          events[i].name \in {"issuer_authorized", "issuer_revoked"} /\ events[i].subject \in Wallets
    /\ authorized \subseteq Wallets
    /\ institutions \in UNION {[S -> InstitutionRow] : S \in SUBSET Institutions}
    /\ WalletsUnique
    /\ compared \subseteq Existing \X Wallets
    /\ request \in [Requests -> [phase: {"none", "checked", "found", "done"},
                                 wallet: Wallets \cup {Null},
                                 institution: Institutions \cup {Null}]]

\* The institutions that signed themselves up before administrators provisioned
\* them have no wallet; a migration suspended them, and an administrator may have
\* set one back to pending.
SelfSignups == [wallet_address: {Null}, status: {"pending", "suspended"}, tx: {FALSE}]

VerificationInit ==
    /\ IndexerInit
    /\ authorized = {}
    /\ institutions \in UNION {[S -> SelfSignups] : S \in SUBSET Institutions}
    /\ compared = Existing \X Wallets
    /\ request = [r \in Requests |-> [phase |-> "none", wallet |-> Null, institution |-> Null]]

-----------------------------------------------------------------------------
(* The contract: authorizing or revoking a wallet a second time is a call   *)
(* that succeeds and emits nothing.                                         *)

\* Every call emits the event.
AuthorizeIssuerAgain(w) ==
    /\ authorized' = authorized \cup {w}
    /\ Emit(<<[name |-> "issuer_authorized", subject |-> w]>>)
    /\ UNCHANGED <<indexerVars, institutions, compared, request>>

AuthorizeIssuer(w) ==
    /\ w \notin authorized
    /\ authorized' = authorized \cup {w}
    /\ Emit(<<[name |-> "issuer_authorized", subject |-> w]>>)
    /\ UNCHANGED <<indexerVars, institutions, compared, request>>

RevokeIssuer(w) ==
    /\ w \in authorized
    /\ authorized' = authorized \ {w}
    /\ Emit(<<[name |-> "issuer_revoked", subject |-> w]>>)
    /\ UNCHANGED <<indexerVars, institutions, compared, request>>

-----------------------------------------------------------------------------
(* api/admin/institutions.  The wallet may be one the contract knows already; *)
(* the row says nothing of that.                                            *)

\* An insert of another institution's wallet fails (UNIQUE).
Provision(i, w) ==
    /\ i \notin Existing
    /\ Untaken(w)
    /\ institutions' = [j \in Existing \cup {i} |->
                          IF j = i THEN Pending(w) ELSE institutions[j]]
    /\ compared' = compared \cup ({i} \X (Wallets \ {w}))
    /\ UNCHANGED <<networkVars, indexerVars, authorized, request>>

-----------------------------------------------------------------------------
(* api/institution/link-wallet.  A call that finds the wallet it links on   *)
(* record changes nothing; any other writes in a later step, when another   *)
(* call may have linked the same wallet.  Calls of either kind may be under *)
(* way in any number, so `compared' says all of them that may have to write.*)

\* The new wallet keeps the standing of the old one.
LinkWalletUnreset(i, w) ==
    /\ <<i, w>> \in compared
    /\ \A j \in Existing \ {i} : ~HasWallet(j, w)
    /\ institutions' = [institutions EXCEPT ![i].wallet_address = w]
    /\ compared' = compared \cup ({i} \X (Wallets \ {w}))
    /\ UNCHANGED <<networkVars, indexerVars, authorized, request>>

\* An update to the wallet of another institution fails (UNIQUE).
LinkWallet(i, w) ==
    /\ <<i, w>> \in compared
    /\ \A j \in Existing \ {i} : ~HasWallet(j, w)
    /\ institutions' = [institutions EXCEPT ![i] = Pending(w)]
    /\ compared' = compared \cup ({i} \X (Wallets \ {w}))
    /\ UNCHANGED <<networkVars, indexerVars, authorized, request>>

-----------------------------------------------------------------------------
(* api/admin/update-authorization.                                          *)

AuthorizationEmitted(w) ==
    \E i \in DOMAIN events : events[i].name = "issuer_authorized" /\ events[i].subject = w

\* verifyAdminAuthorizationTransaction: the transaction has emitted the event,
\* and the contract authorizes the wallet now.
CheckTransaction(r, w) ==
    /\ request[r].phase = "none"
    /\ AuthorizationEmitted(w)
    /\ w \in authorized
    /\ request' = [request EXCEPT ![r].phase = "checked", ![r].wallet = w]
    /\ UNCHANGED <<networkVars, indexerVars, authorized, institutions, compared>>

FindInstitution(r, i) ==
    /\ request[r].phase = "checked"
    /\ HasWallet(i, request[r].wallet)
    /\ request' = [request EXCEPT ![r].phase = "found", ![r].institution = i]
    /\ UNCHANGED <<networkVars, indexerVars, authorized, institutions, compared>>

\* No institution has the wallet: the route answers with success.
FindNoInstitution(r) ==
    /\ request[r].phase = "checked"
    /\ Untaken(request[r].wallet)
    /\ request' = [request EXCEPT ![r].phase = "done"]
    /\ UNCHANGED <<networkVars, indexerVars, authorized, institutions, compared>>

\* The row is found again by its id, not by the wallet.
UpdateInstitution(r) ==
    /\ request[r].phase = "found"
    /\ institutions' = [institutions EXCEPT ![request[r].institution].status = "verified",
                                            ![request[r].institution].tx = TRUE]
    /\ request' = [request EXCEPT ![r].phase = "done"]
    /\ UNCHANGED <<networkVars, indexerVars, authorized, compared>>

\* The function times out or a query fails.
AbortRequest(r) ==
    /\ request[r].phase \in {"checked", "found"}
    /\ request' = [request EXCEPT ![r].phase = "done"]
    /\ UNCHANGED <<networkVars, indexerVars, authorized, institutions, compared>>

UpdateAuthorization(r) ==
    \/ \E w \in Wallets : CheckTransaction(r, w)
    \/ \E i \in Institutions : FindInstitution(r, i)
    \/ FindNoInstitution(r)
    \/ UpdateInstitution(r)
    \/ AbortRequest(r)

-----------------------------------------------------------------------------
(* processEvent.                                                            *)

\* A revoked issuer keeps its standing.
IndexIssuerAuthorizationOnly ==
    /\ HasEvent
    /\ institutions' = [i \in Existing |->
           IF HasWallet(i, CurrentEvent.subject)
              /\ CurrentEvent.name = "issuer_authorized"
           THEN [institutions[i] EXCEPT !.status = "verified"]
           ELSE institutions[i]]
    /\ EventDone
    /\ UNCHANGED <<authorized, compared, request>>

\* An update that matches no institution is no error.
IndexIssuerAuthorization ==
    /\ HasEvent
    /\ LET status == IF CurrentEvent.name = "issuer_authorized" THEN "verified" ELSE "suspended"
       IN  institutions' = [i \in Existing |->
               IF HasWallet(i, CurrentEvent.subject)
               THEN [institutions[i] EXCEPT !.status = status]
               ELSE institutions[i]]
    /\ EventDone
    /\ UNCHANGED <<authorized, compared, request>>

AuthorizationIndexer ==
    \/ IndexIssuerAuthorization
    \/ LoopStep /\ UNCHANGED <<authorized, institutions, compared, request>>

VerificationNext ==
    \/ AuthorizationIndexer
    \/ Interrupt /\ UNCHANGED <<authorized, institutions, compared, request>>
    \/ \E w \in Wallets : AuthorizeIssuer(w) \/ RevokeIssuer(w)
    \/ \E i \in Institutions, w \in Wallets : Provision(i, w) \/ LinkWallet(i, w)
    \/ \E r \in Requests : UpdateAuthorization(r)

VerificationSpec == VerificationInit /\ [][VerificationNext]_verificationVars

(* The indexer's loop never ends by itself; nobody has to call a route.     *)
FairVerificationSpec == VerificationSpec /\ WF_verificationVars(AuthorizationIndexer)

-----------------------------------------------------------------------------
(* Safety.                                                                  *)

(* An institution is verified for the wallet it has now: the contract has   *)
(* authorized that wallet at some time, or else the admin route has left    *)
(* the hash of the transaction that authorized an earlier one.              *)
VerifiedHasEvidence ==
    \A i \in Existing : Verified(i) =>
        AuthorizationEmitted(institutions[i].wallet_address) \/ institutions[i].tx

\* The last the contract said of the wallet is that it may not issue, and the
\* indexer is past that.
RevokedAndCovered(w) ==
    \E n \in DOMAIN events :
        /\ events[n].name = "issuer_revoked" /\ events[n].subject = w
        /\ Covered(events[n])
        /\ \A m \in DOMAIN events : events[m].subject = w => m <= n

(* Once the indexer is past a revocation, only the admin route can have the *)
(* institution verified: neither a replay of older events nor a wallet      *)
(* linked, dropped and linked again brings the standing back.               *)
RevocationStands ==
    \A i \in Existing :
        Verified(i) /\ RevokedAndCovered(institutions[i].wallet_address) => institutions[i].tx

(* An institution that no administrator has marked is verified only while   *)
(* the contract authorizes the wallet it has now, or while the revocation   *)
(* is one the indexer is still to read: whatever the institution linked,    *)
(* dropped and linked again, and whatever was read twice or in between.     *)
StandingFollowsContract ==
    \A i \in Existing :
        Verified(i) /\ ~institutions[i].tx =>
            \/ institutions[i].wallet_address \in authorized
            \/ \E n \in DOMAIN events :
                  /\ events[n].name = "issuer_revoked"
                  /\ events[n].subject = institutions[i].wallet_address
                  /\ events[n].ledger > lastLedger

\* The chain as its events have it; credentials are no matter here.
VerificationChain == INSTANCE CredentialChain WITH
    count <- 0,
    revoked <- {},
    published <- LatestEvents

(* The issuers under the table of institutions come and go as the contract  *)
(* shows them: one in a ledger, and each with the event that says so.       *)
VerificationImplementsChain == VerificationChain!Spec

-----------------------------------------------------------------------------
(* Liveness.                                                                *)

(* An authorization the indexer has still to read verifies the institution  *)
(* that has the wallet, with no help from the admin route, unless wallet or *)
(* authorization are changed first.                                         *)
AuthorizationArrives ==
    \A i \in Institutions, w \in Wallets :
        (/\ HasWallet(i, w)
         /\ \E n \in DOMAIN events : /\ events[n].name = "issuer_authorized"
                                     /\ events[n].subject = w
                                     /\ Unread(n))
            ~> (HasWallet(i, w) /\ w \in authorized => Verified(i))
=============================================================================
