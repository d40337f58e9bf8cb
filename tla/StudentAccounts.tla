--------------------------- MODULE StudentAccounts ---------------------------
(***************************************************************************)
(* The students table and the accounts it is linked to: the roster of an   *)
(* institution (frontend/src/app/api/institution/students), invitations    *)
(* (.../[id]/invite), the claim of a wallet (api/claim), the link at       *)
(* sign-in (api/student/provision) and the erasure of an account           *)
(* (api/account/erase).                                                    *)
(*                                                                         *)
(* Every request reads, decides and writes in separate statements, with no *)
(* transaction around them; only the UNIQUE constraints and the foreign    *)
(* keys of the tables hold across requests.  A request may end after any   *)
(* of its statements.                                                      *)
(***************************************************************************)
EXTENDS Naturals, FiniteSets

CONSTANTS
    RowIds,         \* ids of students
    AccountIds,     \* ids of auth users, never used twice
    Emails,
    Wallets,
    Nonces,         \* challenges of wallet_claim_nonces
    Requests,       \* requests under way at a time
    MaxCalls,       \* bound on what is asked of the system
    None

ASSUME StudentConstantsOK ==
    /\ None \notin RowIds \cup AccountIds \cup Emails \cup Wallets \cup Nonces
    /\ MaxCalls \in Nat

ASSUME NamesDistinct ==
    /\ None \notin {"no credential", "processing", "deleting"}
    /\ "no credential" \notin RowIds

VARIABLES
    rows,           \* students
    held,           \* the wallets each row has ever had (observation)
    accounts,       \* auth.users; a deleted one stays, no longer live
    nonces,         \* wallet_claim_nonces: the wallet, and whether consumed
    studentOf,      \* credentials.student_id of the credentials of a wallet
    erasure,        \* how far the erasure of each account is
    request,        \* the requests under way
    calls           \* what is still asked of the system

vars == <<rows, held, accounts, nonces, studentOf, erasure, request, calls>>

Row == [email : Emails, wallet : Wallets \cup {None}, account : AccountIds \cup {None},
        deactivated : BOOLEAN, rostered : BOOLEAN]

(* An account made by a claim has the wallet in its metadata; the nonce it  *)
(* was made with is an observation.                                         *)
Account == [email : Emails, wallet : Wallets \cup {None}, nonce : Nonces \cup {None},
            live : BOOLEAN]

(* A request keeps what it was given and what it has read: the row, the     *)
(* account the row was linked to then, and the account to link it to.       *)
Request == [kind : {"claim", "invite", "provision"},
            step : {"consume", "find", "email", "create", "attach", "backfill"},
            email : Emails, wallet : Wallets \cup {None}, nonce : Nonces \cup {None},
            row : RowIds \cup {None}, seen : AccountIds \cup {None},
            account : AccountIds \cup {None}]

Nonce == [wallet : Wallets, consumed : BOOLEAN]

ASSUME NoneIsNoRecord == None \notin Row \cup Account \cup Request \cup Nonce

NoCredential == "no credential"

Exists(r) == rows[r] # None

Live(a) == accounts[a] # None /\ accounts[a].live

AccountsAt(email) == {a \in AccountIds : Live(a) /\ accounts[a].email = email}

RowsOf(a) == {r \in RowIds : Exists(r) /\ rows[r].account = a}

RowsWithWallet(wallet) == {r \in RowIds : Exists(r) /\ rows[r].wallet = wallet}

RowsWithEmail(email) == {r \in RowIds : Exists(r) /\ rows[r].email = email}

At(q, kind, step) == request[q] # None /\ request[q].kind = kind /\ request[q].step = step

Init ==
    /\ rows = [r \in RowIds |-> None]
    /\ held = [r \in RowIds |-> {}]
    /\ accounts = [a \in AccountIds |-> None]
    /\ nonces = [n \in Nonces |-> None]
    /\ studentOf = [w \in Wallets |-> NoCredential]
    /\ erasure = [a \in AccountIds |-> None]
    /\ request = [q \in Requests |-> None]
    /\ calls = MaxCalls

Call == calls > 0 /\ calls' = calls - 1

-----------------------------------------------------------------------------
(* The roster.  The look-ups before these writes only word the refusal: the *)
(* constraints decide.                                                      *)

InsertRow(r, row) ==
    /\ ~Exists(r)
    /\ RowsWithEmail(row.email) = {}
    /\ row.wallet # None => RowsWithWallet(row.wallet) = {}
    /\ rows' = [rows EXCEPT ![r] = row]
    /\ held' = [held EXCEPT ![r] = {row.wallet} \ {None}]

AddStudent(r, email, wallet) ==
    /\ Call
    /\ InsertRow(r, [email |-> email, wallet |-> wallet, account |-> None,
                     deactivated |-> FALSE, rostered |-> TRUE])
    /\ UNCHANGED <<accounts, nonces, studentOf, erasure, request>>

UpdateStudent(r, wallet, deactivated) ==
    /\ Call
    /\ Exists(r) /\ rows[r].rostered
    /\ wallet # None => RowsWithWallet(wallet) \subseteq {r}
    /\ rows' = [rows EXCEPT ![r].wallet = wallet, ![r].deactivated = deactivated]
    /\ held' = [held EXCEPT ![r] = @ \cup ({wallet} \ {None})]
    /\ UNCHANGED <<accounts, nonces, studentOf, erasure, request>>

Roster ==
    \E r \in RowIds, wallet \in Wallets \cup {None} :
        \/ \E email \in Emails : AddStudent(r, email, wallet)
        \/ \E deactivated \in BOOLEAN : UpdateStudent(r, wallet, deactivated)

(* A credential is issued to a wallet; its student is the row the issuer or *)
(* the indexer had found for the wallet, if there was one by then.          *)
IssueCredential(wallet) ==
    /\ Call
    /\ studentOf[wallet] = NoCredential
    /\ \E r \in {None} \cup {s \in RowIds : wallet \in held[s]} :
           studentOf' = [studentOf EXCEPT ![wallet] = r]
    /\ UNCHANGED <<rows, held, accounts, nonces, erasure, request>>

-----------------------------------------------------------------------------
(* What requests have in common.                                            *)

NewAccount(a, email, wallet, nonce) ==
    /\ accounts[a] = None
    /\ AccountsAt(email) = {}
    /\ accounts' = [accounts EXCEPT ![a] =
                        [email |-> email, wallet |-> wallet, nonce |-> nonce, live |-> TRUE]]

(* An answer, an error, or the end of the process.                          *)
End(q) ==
    /\ request[q] # None
    /\ request' = [request EXCEPT ![q] = None]
    /\ UNCHANGED <<rows, held, accounts, nonces, studentOf, erasure, calls>>

Begin(q, fields) ==
    /\ request[q] = None
    /\ request' = [request EXCEPT ![q] = fields]

-----------------------------------------------------------------------------
(* The claim of a wallet, by somebody who can sign for it.  A challenge     *)
(* that expires only refuses a claim, which as well may not be made.        *)

IssueNonce(n, wallet) ==
    /\ Call
    /\ nonces[n] = None
    /\ nonces' = [nonces EXCEPT ![n] = [wallet |-> wallet, consumed |-> FALSE]]
    /\ UNCHANGED <<rows, held, accounts, studentOf, erasure, request>>

StartClaim(q, n, email) ==
    /\ Call
    /\ nonces[n] # None
    /\ ~nonces[n].consumed
    /\ Begin(q, [kind |-> "claim", step |-> "consume", email |-> email,
                 wallet |-> nonces[n].wallet, nonce |-> n,
                 row |-> None, seen |-> None, account |-> None])
    /\ UNCHANGED <<rows, held, accounts, nonces, studentOf, erasure>>

ConsumeUnguarded(q) ==
    /\ At(q, "claim", "consume")
    /\ nonces' = [nonces EXCEPT ![request[q].nonce].consumed = TRUE]
    /\ request' = [request EXCEPT ![q].step = "find"]
    /\ UNCHANGED <<rows, held, accounts, studentOf, erasure, calls>>

(* The update asks for consumed_at IS NULL; who loses the race ends.        *)
Consume(q) ==
    /\ At(q, "claim", "consume")
    /\ ~nonces[request[q].nonce].consumed
    /\ nonces' = [nonces EXCEPT ![request[q].nonce].consumed = TRUE]
    /\ request' = [request EXCEPT ![q].step = "find"]
    /\ UNCHANGED <<rows, held, accounts, studentOf, erasure, calls>>

FindClaimedUnchecked(q) ==
    /\ At(q, "claim", "find")
    /\ studentOf[request[q].wallet] # NoCredential
    /\ \E r \in RowsWithWallet(request[q].wallet) :
           request' = [request EXCEPT ![q].step = "create", ![q].row = r,
                                      ![q].seen = rows[r].account]
    /\ UNCHANGED <<rows, held, accounts, nonces, studentOf, erasure, calls>>

(* The wallet has a credential, and its row, if there is one, no account.   *)
(* A lookup that fails is taken for one that finds no row.                  *)
FindClaimed(q) ==
    /\ At(q, "claim", "find")
    /\ studentOf[request[q].wallet] # NoCredential
    /\ \/ request' = [request EXCEPT ![q].step = "create"]
       \/ \E r \in RowsWithWallet(request[q].wallet) :
              /\ rows[r].account = None
              /\ request' = [request EXCEPT ![q].step = "create", ![q].row = r]
    /\ UNCHANGED <<rows, held, accounts, nonces, studentOf, erasure, calls>>

CreateClaimUser(q, a) ==
    /\ At(q, "claim", "create")
    /\ NewAccount(a, request[q].email, request[q].wallet, request[q].nonce)
    /\ request' = [request EXCEPT ![q].step = "attach", ![q].account = a]
    /\ UNCHANGED <<rows, held, nonces, studentOf, erasure, calls>>

(* The row is updated by its id; a foreign key wants the account to exist.  *)
AttachClaim(q) ==
    /\ At(q, "claim", "attach")
    /\ request[q].row # None
    /\ Live(request[q].account)
    /\ rows' = [rows EXCEPT ![request[q].row].account = request[q].account,
                            ![request[q].row].deactivated = FALSE]
    /\ request' = [request EXCEPT ![q].step = "backfill"]
    /\ UNCHANGED <<held, accounts, nonces, studentOf, erasure, calls>>

InsertClaimed(q, r) ==
    /\ At(q, "claim", "attach")
    /\ request[q].row = None
    /\ Live(request[q].account)
    /\ InsertRow(r, [email |-> request[q].email, wallet |-> request[q].wallet,
                     account |-> request[q].account, deactivated |-> FALSE,
                     rostered |-> FALSE])
    /\ request' = [request EXCEPT ![q].step = "backfill", ![q].row = r]
    /\ UNCHANGED <<accounts, nonces, studentOf, erasure, calls>>

Backfill(q) ==
    /\ At(q, "claim", "backfill")
    /\ studentOf' = [studentOf EXCEPT ![request[q].wallet] =
                        IF @ = None THEN request[q].row ELSE @]
    /\ request' = [request EXCEPT ![q] = None]
    /\ UNCHANGED <<rows, held, accounts, nonces, erasure, calls>>

Claim(q) ==
    \/ \E n \in Nonces, email \in Emails : StartClaim(q, n, email)
    \/ Consume(q)
    \/ FindClaimed(q)
    \/ \E a \in AccountIds : CreateClaimUser(q, a)
    \/ AttachClaim(q)
    \/ \E r \in RowIds : InsertClaimed(q, r)
    \/ Backfill(q)

-----------------------------------------------------------------------------
(* The invitation of a student on the roster, any number of times.          *)

StartInvite(q, r) ==
    /\ Call
    /\ Exists(r) /\ rows[r].rostered
    /\ ~rows[r].deactivated
    /\ Begin(q, [kind |-> "invite",
                 step |-> IF rows[r].account = None THEN "create" ELSE "attach",
                 email |-> rows[r].email, wallet |-> None, nonce |-> None,
                 row |-> r, seen |-> rows[r].account, account |-> rows[r].account])
    /\ UNCHANGED <<rows, held, accounts, nonces, studentOf, erasure>>

CreateInvited(q, a) ==
    /\ At(q, "invite", "create")
    /\ NewAccount(a, request[q].email, None, None)
    /\ request' = [request EXCEPT ![q].step = "attach", ![q].account = a]
    /\ UNCHANGED <<rows, held, nonces, studentOf, erasure, calls>>

InvitedAtAnyAddress(q) == {a \in AccountIds : Live(a)}

(* An account at the student's address is taken as the student's.           *)
InvitedAt(q) == AccountsAt(request[q].email)

FindInvited(q) ==
    /\ At(q, "invite", "create")
    /\ \E a \in InvitedAt(q) :
           request' = [request EXCEPT ![q].step = "attach", ![q].account = a]
    /\ UNCHANGED <<rows, held, accounts, nonces, studentOf, erasure, calls>>

(* The link has been made; it is recorded with the account, by id.  An      *)
(* error of the update, as for an account that is gone, is only logged.     *)
AttachInvited(q) ==
    /\ At(q, "invite", "attach")
    /\ Live(request[q].account)
    /\ rows' = [rows EXCEPT ![request[q].row].account = request[q].account]
    /\ request' = [request EXCEPT ![q] = None]
    /\ UNCHANGED <<held, accounts, nonces, studentOf, erasure, calls>>

Invite(q) ==
    \/ \E r \in RowIds : StartInvite(q, r)
    \/ \E a \in AccountIds : CreateInvited(q, a)
    \/ FindInvited(q)
    \/ AttachInvited(q)

-----------------------------------------------------------------------------
(* The link at sign-in, by an account with a confirmed address.             *)

StartProvision(q, a) ==
    /\ Call
    /\ Live(a)
    /\ RowsOf(a) = {}
    /\ Begin(q, [kind |-> "provision", step |-> "email", email |-> accounts[a].email,
                 wallet |-> None, nonce |-> None, row |-> None, seen |-> None,
                 account |-> a])
    /\ UNCHANGED <<rows, held, accounts, nonces, studentOf, erasure>>

(* Never a row that belongs to another account.                             *)
FindByEmail(q) ==
    /\ At(q, "provision", "email")
    /\ \E r \in RowsWithEmail(request[q].email) :
           /\ rows[r].account \in {None, request[q].account}
           /\ request' = [request EXCEPT ![q].step = "attach", ![q].row = r,
                                         ![q].seen = rows[r].account]
    /\ UNCHANGED <<rows, held, accounts, nonces, studentOf, erasure, calls>>

AttachByEmail(q) ==
    /\ At(q, "provision", "attach")
    /\ Live(request[q].account)
    /\ rows' = [rows EXCEPT ![request[q].row].account = request[q].account]
    /\ request' = [request EXCEPT ![q] = None]
    /\ UNCHANGED <<held, accounts, nonces, studentOf, erasure, calls>>

Provision(q) ==
    \/ \E a \in AccountIds : StartProvision(q, a)
    \/ FindByEmail(q)
    \/ AttachByEmail(q)

-----------------------------------------------------------------------------
(* Erasure, at the request of the account.                                  *)

RequestErasure(a) ==
    /\ Call
    /\ Live(a)
    /\ erasure[a] = None
    /\ erasure' = [erasure EXCEPT ![a] = "processing"]
    /\ UNCHANGED <<rows, held, accounts, nonces, studentOf, request>>

Unlink(a) ==
    rows' = [r \in RowIds |->
                IF r \in RowsOf(a) THEN [rows[r] EXCEPT !.account = None] ELSE rows[r]]

(* process_erasure, one transaction.                                        *)
ProcessErasure(a) ==
    /\ erasure[a] = "processing"
    /\ Unlink(a)
    /\ erasure' = [erasure EXCEPT ![a] = "deleting"]
    /\ UNCHANGED <<held, accounts, nonces, studentOf, request, calls>>

(* The foreign keys clear what still refers to the account.                 *)
DeleteUser(a) ==
    /\ erasure[a] = "deleting"
    /\ accounts' = [accounts EXCEPT ![a].live = FALSE]
    /\ Unlink(a)
    /\ erasure' = [erasure EXCEPT ![a] = None]
    /\ UNCHANGED <<held, nonces, studentOf, request, calls>>

(* The transaction fails, or deleteUser does, which is only logged and      *)
(* leaves the login, or the request ends before either.                     *)
ErasureEnds(a) ==
    /\ erasure[a] # None
    /\ erasure' = [erasure EXCEPT ![a] = None]
    /\ UNCHANGED <<rows, held, accounts, nonces, studentOf, request, calls>>

Erase ==
    \E a \in AccountIds :
        \/ RequestErasure(a)
        \/ ProcessErasure(a)
        \/ DeleteUser(a)
        \/ ErasureEnds(a)

Next ==
    \/ Roster
    \/ \E wallet \in Wallets :
           IssueCredential(wallet) \/ \E n \in Nonces : IssueNonce(n, wallet)
    \/ \E q \in Requests :
           Claim(q) \/ Invite(q) \/ Provision(q) \/ End(q)
    \/ Erase

Spec == Init /\ [][Next]_vars

-----------------------------------------------------------------------------
(* Types.                                                                   *)
TypeOK ==
    /\ rows \in [RowIds -> Row \cup {None}]
    /\ held \in [RowIds -> SUBSET Wallets]
    /\ accounts \in [AccountIds -> Account \cup {None}]
    /\ nonces \in [Nonces -> Nonce \cup {None}]
    /\ studentOf \in [Wallets -> RowIds \cup {None, NoCredential}]
    /\ erasure \in [AccountIds -> {None, "processing", "deleting"}]
    /\ request \in [Requests -> Request \cup {None}]
    /\ calls \in 0..MaxCalls

(* A record is only ever linked to a live account that has its address or   *)
(* has proved a wallet of it, and a credential only to a record that has    *)
(* had its wallet: through requests that act on what they read long ago,    *)
(* wallets that are moved, and accounts that are deleted meanwhile.         *)
LinkEvidence ==
    /\ \A r \in RowIds :
          Exists(r) /\ rows[r].account # None =>
              LET a == rows[r].account IN
              /\ Live(a)
              /\ \/ accounts[a].email = rows[r].email
                 \/ accounts[a].wallet \in held[r]
    /\ \A wallet \in Wallets :
          studentOf[wallet] \in RowIds => wallet \in held[studentOf[wallet]]

(* "a replayed request cannot produce a second account" (claim/verify):     *)
(* however often, and in whatever order, claims with one challenge are sent.*)
OneAccountPerNonce ==
    \A a, b \in AccountIds :
        /\ accounts[a] # None /\ accounts[b] # None
        /\ accounts[a].nonce # None
        /\ accounts[a].nonce = accounts[b].nonce
        => a = b

(* A link is replaced by another only by a request that had found the       *)
(* record free, or linked as it leaves it: nobody takes a record they have  *)
(* seen to be another account's.                                            *)
NoneTakenKnowingly ==
    [][\A r \in RowIds :
          /\ Exists(r) /\ rows[r].account # None
          /\ rows'[r].account \notin {None, rows[r].account}
          => \E q \in Requests :
                /\ request[q] # None
                /\ request'[q] # request[q]
                /\ request[q].row = r
                /\ request[q].seen \in {None, rows'[r].account}]_vars
=============================================================================
