------------------------- MODULE StudentAccounts_proofs -------------------------
(* Theorems about StudentAccounts, for any number of students, accounts,    *)
(* challenges and requests under way.                                       *)
EXTENDS StudentAccounts, TLAPS

(* An account, live or deleted, may be linked to a record.                  *)
Evidence(a, r) ==
    /\ a \in AccountIds
    /\ accounts[a] # None
    /\ \/ accounts[a].email = rows[r].email
       \/ accounts[a].wallet \in held[r]

(* What a request has read is still so, as far as it does not change: rows  *)
(* are never deleted and keep their address, and the wallets a row has had  *)
(* and what an account was made with are for good.                          *)
ClaimOK(p) ==
    p.kind = "claim" =>
        /\ p.wallet \in Wallets /\ p.nonce \in Nonces /\ nonces[p.nonce] # None
        /\ p.row # None => p.wallet \in held[p.row]
        /\ p.seen = None
        /\ p.step = "attach" => /\ p.account \in AccountIds
                                /\ accounts[p.account] # None
                                /\ accounts[p.account].wallet = p.wallet
        /\ p.step = "backfill" => p.row # None

InviteOK(p) ==
    p.kind = "invite" =>
        /\ p.row # None
        /\ p.email = rows[p.row].email
        /\ p.step = "create" => p.seen = None
        /\ p.step = "attach" => Evidence(p.account, p.row) /\ p.seen \in {None, p.account}

ProvisionOK(p) ==
    p.kind = "provision" =>
        /\ p.account \in AccountIds
        /\ accounts[p.account] # None
        /\ accounts[p.account].email = p.email
        /\ p.step = "attach" => /\ p.row # None
                                /\ rows[p.row].email = p.email
                                /\ p.seen \in {None, p.account}

RequestOK(q) ==
    request[q] # None =>
        /\ request[q].row # None => Exists(request[q].row)
        /\ ClaimOK(request[q]) /\ InviteOK(request[q]) /\ ProvisionOK(request[q])

HeldOK ==
    \A r \in RowIds :
        IF Exists(r) THEN rows[r].wallet \in held[r] \cup {None} ELSE held[r] = {}

Erased == \A a \in AccountIds : erasure[a] # None => accounts[a] # None

(* LinkEvidence, strengthened.                                              *)
IInv ==
    /\ TypeOK
    /\ HeldOK
    /\ Erased
    /\ LinkEvidence
    /\ \A q \in Requests : RequestOK(q)

(* A claim that has consumed its challenge and has not made its account.    *)
Spends(q) ==
    request[q] # None /\ request[q].kind = "claim" /\ request[q].step \in {"find", "create"}

(* OneAccountPerNonce, strengthened: a challenge that is consumed has one   *)
(* claim that may still make an account, or one account, or neither.        *)
NonceInv ==
    /\ \A a \in AccountIds :
          accounts[a] # None /\ accounts[a].nonce # None =>
              nonces[accounts[a].nonce] # None /\ nonces[accounts[a].nonce].consumed
    /\ \A q \in Requests :
          Spends(q) => /\ nonces[request[q].nonce] # None
                       /\ nonces[request[q].nonce].consumed
                       /\ \A a \in AccountIds :
                              accounts[a] # None => accounts[a].nonce # request[q].nonce
    /\ \A q, p \in Requests :
          Spends(q) /\ Spends(p) /\ request[q].nonce = request[p].nonce => q = p
    /\ OneAccountPerNonce

USE StudentConstantsOK DEF StudentConstantsOK

-----------------------------------------------------------------------------
(* Types.                                                                   *)

LEMMA InitTyped == Init => TypeOK
  <1> SUFFICES ASSUME Init PROVE TypeOK
    OBVIOUS
  <1>1. rows \in [RowIds -> Row \cup {None}] /\ held \in [RowIds -> SUBSET Wallets]
    BY DEF Init
  <1>2. calls \in 0..MaxCalls
    BY DEF Init
  <1> QED
    BY <1>1, <1>2 DEF Init, TypeOK

LEMMA InsertTyped ==
    ASSUME TypeOK, NEW r \in RowIds, NEW row \in Row, InsertRow(r, row)
    PROVE  rows' \in [RowIds -> Row \cup {None}] /\ held' \in [RowIds -> SUBSET Wallets]
  BY DEF InsertRow, TypeOK, Row

LEMMA RosterTyped == TypeOK /\ Roster => TypeOK'
  <1> SUFFICES ASSUME TypeOK, NEW r \in RowIds, NEW wallet \in Wallets \cup {None},
                      \/ \E email \in Emails : AddStudent(r, email, wallet)
                      \/ \E deactivated \in BOOLEAN : UpdateStudent(r, wallet, deactivated)
               PROVE  TypeOK'
    BY DEF Roster
  <1>1. ASSUME NEW email \in Emails, AddStudent(r, email, wallet) PROVE TypeOK'
    <2>1. [email |-> email, wallet |-> wallet, account |-> None,
           deactivated |-> FALSE, rostered |-> TRUE] \in Row
      BY DEF Row
    <2> QED
      BY <1>1, <2>1, InsertTyped DEF AddStudent, TypeOK, Call
  <1>2. ASSUME NEW deactivated \in BOOLEAN, UpdateStudent(r, wallet, deactivated)
        PROVE  TypeOK'
    <2> DEFINE row == [[rows[r] EXCEPT !.wallet = wallet] EXCEPT !.deactivated = deactivated]
    <2>1. rows[r] \in Row
      BY <1>2 DEF UpdateStudent, TypeOK, Exists
    <2>2. row \in Row
      BY <2>1 DEF Row
    <2>3. rows' = [rows EXCEPT ![r] = row]
      BY <1>2 DEF UpdateStudent, TypeOK
    <2>4. rows' \in [RowIds -> Row \cup {None}]
      BY <2>2, <2>3 DEF TypeOK
    <2>5. held' \in [RowIds -> SUBSET Wallets]
      BY <1>2 DEF UpdateStudent, TypeOK
    <2>6. /\ UNCHANGED <<accounts, nonces, studentOf, erasure, request>>
          /\ calls > 0 /\ calls' = calls - 1
      BY <1>2 DEF UpdateStudent, Call
    <2> QED
      BY <2>4, <2>5, <2>6 DEF TypeOK
  <1> QED
    BY <1>1, <1>2

LEMMA IssuingTyped ==
    ASSUME TypeOK, NEW wallet \in Wallets,
           IssueCredential(wallet) \/ \E n \in Nonces : IssueNonce(n, wallet)
    PROVE  TypeOK'
  <1>1. ASSUME IssueCredential(wallet) PROVE TypeOK'
    BY <1>1 DEF TypeOK, IssueCredential, Call
  <1>2. ASSUME NEW n \in Nonces, IssueNonce(n, wallet) PROVE TypeOK'
    BY <1>2 DEF TypeOK, IssueNonce, Call, Nonce
  <1> QED
    BY <1>1, <1>2

LEMMA AccountTyped ==
    ASSUME TypeOK, NEW a \in AccountIds, NEW email \in Emails,
           NEW wallet \in Wallets \cup {None}, NEW nonce \in Nonces \cup {None},
           NewAccount(a, email, wallet, nonce)
    PROVE  accounts' \in [AccountIds -> Account \cup {None}]
  BY DEF NewAccount, TypeOK, Account

(* The account of a row, and the row itself, of a request under way.        *)
LEMMA RequestTyped ==
    ASSUME TypeOK, NEW q \in Requests, request[q] # None
    PROVE  request[q] \in Request
  BY DEF TypeOK

LEMMA RowTyped ==
    ASSUME TypeOK, NEW r \in RowIds, Exists(r)
    PROVE  rows[r] \in Row
  BY DEF TypeOK, Exists

(* Linking a record keeps the type of the table.                            *)
LEMMA LinkTyped ==
    ASSUME TypeOK, NEW r \in RowIds, Exists(r), NEW a \in AccountIds \cup {None}
    PROVE  /\ [rows EXCEPT ![r].account = a] \in [RowIds -> Row \cup {None}]
           /\ [rows EXCEPT ![r].account = a, ![r].deactivated = FALSE]
                 \in [RowIds -> Row \cup {None}]
  <1> DEFINE linked == [rows[r] EXCEPT !.account = a]
             restored == [linked EXCEPT !.deactivated = FALSE]
  <1>1. linked \in Row /\ restored \in Row
    BY RowTyped DEF Row
  <1>2. /\ [rows EXCEPT ![r].account = a] = [rows EXCEPT ![r] = linked]
        /\ [rows EXCEPT ![r].account = a, ![r].deactivated = FALSE]
              = [rows EXCEPT ![r] = restored]
    BY DEF TypeOK
  <1>3. [rows EXCEPT ![r] = linked] \in [RowIds -> Row \cup {None}]
    BY <1>1 DEF TypeOK
  <1>4. [rows EXCEPT ![r] = restored] \in [RowIds -> Row \cup {None}]
    BY <1>1 DEF TypeOK
  <1> QED
    BY <1>2, <1>3, <1>4

LEMMA ClaimTyped ==
    ASSUME IInv, NEW q \in Requests, Claim(q)
    PROVE  TypeOK'
  <1> USE DEF IInv
  <1>1. ASSUME NEW n \in Nonces, NEW email \in Emails, StartClaim(q, n, email) PROVE TypeOK'
    <2>0. nonces[n].wallet \in Wallets
      BY <1>1 DEF StartClaim, TypeOK, Nonce
    <2>1. request' \in [Requests -> Request \cup {None}]
      BY <1>1, <2>0 DEF StartClaim, Begin, TypeOK, Request
    <2> QED
      BY <1>1, <2>1 DEF StartClaim, TypeOK, Call
  <1>2. CASE Consume(q)
    <2>1. request' \in [Requests -> Request \cup {None}]
      BY <1>2, RequestTyped DEF Consume, At, TypeOK, Request
    <2>2. nonces' \in [Nonces -> Nonce \cup {None}]
      <3>1. request[q].nonce \in Nonces /\ nonces[request[q].nonce] # None
        BY <1>2 DEF Consume, At, RequestOK, ClaimOK
      <3> QED
        BY <1>2, <3>1 DEF Consume, TypeOK, Nonce
    <2> QED
      BY <1>2, <2>1, <2>2 DEF Consume, TypeOK
  <1>3. CASE FindClaimed(q)
    <2>1. request' \in [Requests -> Request \cup {None}]
      BY <1>3, RequestTyped DEF FindClaimed, At, TypeOK, Request, RowsWithWallet
    <2> QED
      BY <1>3, <2>1 DEF FindClaimed, TypeOK
  <1>4. ASSUME NEW a \in AccountIds, CreateClaimUser(q, a) PROVE TypeOK'
    <2>1. request[q] \in Request
      BY <1>4, RequestTyped DEF CreateClaimUser, At
    <2>2. accounts' \in [AccountIds -> Account \cup {None}]
      BY <1>4, <2>1, AccountTyped DEF CreateClaimUser, Request
    <2>3. request' \in [Requests -> Request \cup {None}]
      BY <1>4, <2>1 DEF CreateClaimUser, TypeOK, Request
    <2> QED
      BY <1>4, <2>2, <2>3 DEF CreateClaimUser, TypeOK
  <1>5. CASE AttachClaim(q)
    <2>1. request[q] \in Request /\ request[q].row \in RowIds /\ Exists(request[q].row)
      BY <1>5, RequestTyped DEF AttachClaim, At, Request, RequestOK
    <2>2. rows' \in [RowIds -> Row \cup {None}]
      BY <1>5, <2>1, LinkTyped DEF AttachClaim, Request
    <2>3. request' \in [Requests -> Request \cup {None}]
      BY <1>5, <2>1 DEF AttachClaim, TypeOK, Request
    <2> QED
      BY <1>5, <2>2, <2>3 DEF AttachClaim, TypeOK
  <1>6. ASSUME NEW r \in RowIds, InsertClaimed(q, r) PROVE TypeOK'
    <2>1. request[q] \in Request
      BY <1>6, RequestTyped DEF InsertClaimed, At
    <2>2. [email |-> request[q].email, wallet |-> request[q].wallet,
           account |-> request[q].account, deactivated |-> FALSE, rostered |-> FALSE] \in Row
      BY <2>1 DEF Request, Row
    <2>3. rows' \in [RowIds -> Row \cup {None}] /\ held' \in [RowIds -> SUBSET Wallets]
      BY <1>6, <2>2, InsertTyped DEF InsertClaimed
    <2>4. request' \in [Requests -> Request \cup {None}]
      BY <1>6, <2>1 DEF InsertClaimed, TypeOK, Request
    <2> QED
      BY <1>6, <2>3, <2>4 DEF InsertClaimed, TypeOK
  <1>7. CASE Backfill(q)
    <2>1. request[q] \in Request
      BY <1>7, RequestTyped DEF Backfill, At
    <2>2. studentOf' \in [Wallets -> RowIds \cup {None, NoCredential}]
      BY <1>7, <2>1 DEF Backfill, TypeOK, Request
    <2> QED
      BY <1>7, <2>2 DEF Backfill, TypeOK
  <1> QED
    BY <1>1, <1>2, <1>3, <1>4, <1>5, <1>6, <1>7 DEF Claim

(* A request that has found what it links.                                  *)
LEMMA AttachStepTyped ==
    ASSUME TypeOK, NEW q \in Requests, request[q] # None
    PROVE  /\ \A a \in AccountIds :
                 [request EXCEPT ![q].step = "attach", ![q].account = a]
                   \in [Requests -> Request \cup {None}]
           /\ \A r \in RowIds, a \in AccountIds \cup {None} :
                 [request EXCEPT ![q].step = "attach", ![q].row = r, ![q].seen = a]
                   \in [Requests -> Request \cup {None}]
  <1>1. request[q] \in Request
    BY RequestTyped
  <1>2. ASSUME NEW p \in Request
        PROVE  [request EXCEPT ![q] = p] \in [Requests -> Request \cup {None}]
    BY DEF TypeOK
  <1>3. ASSUME NEW a \in AccountIds
        PROVE  [request EXCEPT ![q].step = "attach", ![q].account = a]
                  \in [Requests -> Request \cup {None}]
    <2> DEFINE p == [[request[q] EXCEPT !.step = "attach"] EXCEPT !.account = a]
    <2>1. p \in Request
      BY <1>1 DEF Request
    <2>2. [request EXCEPT ![q].step = "attach", ![q].account = a] = [request EXCEPT ![q] = p]
      BY DEF TypeOK
    <2> QED
      BY <1>2, <2>1, <2>2
  <1>4. ASSUME NEW r \in RowIds, NEW a \in AccountIds \cup {None}
        PROVE  [request EXCEPT ![q].step = "attach", ![q].row = r, ![q].seen = a]
                  \in [Requests -> Request \cup {None}]
    <2> DEFINE p == [[[request[q] EXCEPT !.step = "attach"] EXCEPT !.row = r] EXCEPT !.seen = a]
    <2>1. p \in Request
      BY <1>1 DEF Request
    <2>2. [request EXCEPT ![q].step = "attach", ![q].row = r, ![q].seen = a]
             = [request EXCEPT ![q] = p]
      BY DEF TypeOK
    <2> QED
      BY <1>2, <2>1, <2>2
  <1> QED
    BY <1>3, <1>4

LEMMA InviteTyped ==
    ASSUME IInv, NEW q \in Requests, Invite(q)
    PROVE  TypeOK'
  <1> USE DEF IInv
  <1>1. ASSUME NEW r \in RowIds, StartInvite(q, r) PROVE TypeOK'
    <2>1. rows[r] \in Row
      BY <1>1, RowTyped DEF StartInvite
    <2>2. request' \in [Requests -> Request \cup {None}]
      BY <1>1, <2>1 DEF StartInvite, Begin, TypeOK, Request, Row
    <2> QED
      BY <1>1, <2>2 DEF StartInvite, TypeOK, Call
  <1>2. ASSUME NEW a \in AccountIds, CreateInvited(q, a) PROVE TypeOK'
    <2>1. request[q] \in Request
      BY <1>2, RequestTyped DEF CreateInvited, At
    <2>2. accounts' \in [AccountIds -> Account \cup {None}]
      BY <1>2, <2>1, AccountTyped DEF CreateInvited, Request
    <2>3. request' \in [Requests -> Request \cup {None}]
      BY <1>2, <2>1 DEF CreateInvited, TypeOK, Request
    <2> QED
      BY <1>2, <2>2, <2>3 DEF CreateInvited, TypeOK
  <1>3. CASE FindInvited(q)
    <2>0. PICK a \in AccountIds :
              request' = [request EXCEPT ![q].step = "attach", ![q].account = a]
      BY <1>3 DEF FindInvited, InvitedAt, AccountsAt
    <2>1. request' \in [Requests -> Request \cup {None}]
      BY <1>3, <2>0, AttachStepTyped DEF FindInvited, At
    <2> QED
      BY <1>3, <2>1 DEF FindInvited, TypeOK
  <1>4. CASE AttachInvited(q)
    <2>1. /\ request[q].account \in AccountIds \cup {None}
          /\ request[q].row \in RowIds /\ Exists(request[q].row)
      BY <1>4, RequestTyped DEF AttachInvited, At, Request, RequestOK, InviteOK
    <2>2. rows' \in [RowIds -> Row \cup {None}]
      BY <1>4, <2>1, LinkTyped DEF AttachInvited
    <2> QED
      BY <1>4, <2>2 DEF AttachInvited, TypeOK
  <1> QED
    BY <1>1, <1>2, <1>3, <1>4 DEF Invite

LEMMA ProvisionTyped ==
    ASSUME IInv, NEW q \in Requests, Provision(q)
    PROVE  TypeOK'
  <1> USE DEF IInv
  <1>1. ASSUME NEW a \in AccountIds, StartProvision(q, a) PROVE TypeOK'
    <2>1. accounts[a] \in Account
      BY <1>1 DEF StartProvision, Live, TypeOK
    <2>2. request' \in [Requests -> Request \cup {None}]
      BY <1>1, <2>1 DEF StartProvision, Begin, TypeOK, Request, Account
    <2> QED
      BY <1>1, <2>2 DEF StartProvision, TypeOK, Call
  <1>2. CASE FindByEmail(q)
    <2>1. PICK r \in RowsWithEmail(request[q].email) :
              request' = [request EXCEPT ![q].step = "attach", ![q].row = r,
                                         ![q].seen = rows[r].account]
      BY <1>2 DEF FindByEmail
    <2>2. r \in RowIds /\ rows[r].account \in AccountIds \cup {None}
      BY <2>1, RowTyped DEF RowsWithEmail, Row
    <2>3. request' \in [Requests -> Request \cup {None}]
      BY <1>2, <2>1, <2>2, AttachStepTyped DEF FindByEmail, At
    <2> QED
      BY <1>2, <2>3 DEF FindByEmail, TypeOK
  <1>3. CASE AttachByEmail(q)
    <2>1. /\ request[q].account \in AccountIds \cup {None}
          /\ request[q].row \in RowIds /\ Exists(request[q].row)
      BY <1>3, RequestTyped DEF AttachByEmail, At, Request, RequestOK, ProvisionOK
    <2>2. rows' \in [RowIds -> Row \cup {None}]
      BY <1>3, <2>1, LinkTyped DEF AttachByEmail
    <2> QED
      BY <1>3, <2>2 DEF AttachByEmail, TypeOK
  <1> QED
    BY <1>1, <1>2, <1>3 DEF Provision

LEMMA UnlinkTyped ==
    ASSUME TypeOK, NEW a \in AccountIds, Unlink(a)
    PROVE  rows' \in [RowIds -> Row \cup {None}]
  <1>1. ASSUME NEW r \in RowIds
        PROVE  (IF r \in RowsOf(a) THEN [rows[r] EXCEPT !.account = None] ELSE rows[r])
                  \in Row \cup {None}
    <2>1. CASE r \in RowsOf(a)
      <3>1. rows[r] \in Row
        BY <2>1, RowTyped DEF RowsOf
      <3>2. [rows[r] EXCEPT !.account = None] \in Row
        BY <3>1 DEF Row
      <3> QED
        BY <2>1, <3>2
    <2>2. CASE r \notin RowsOf(a)
      BY <2>2 DEF TypeOK
    <2> QED
      BY <2>1, <2>2
  <1> QED
    BY <1>1 DEF Unlink

LEMMA EraseTyped ==
    ASSUME IInv, Erase
    PROVE  TypeOK'
  <1> USE DEF IInv
  <1> SUFFICES ASSUME NEW a \in AccountIds,
                      \/ RequestErasure(a) \/ ProcessErasure(a)
                      \/ DeleteUser(a) \/ ErasureEnds(a)
               PROVE  TypeOK'
    BY DEF Erase
  <1>1. CASE RequestErasure(a)
    BY <1>1 DEF RequestErasure, TypeOK, Call
  <1>2. CASE ProcessErasure(a)
    BY <1>2, UnlinkTyped DEF ProcessErasure, TypeOK
  <1>3. CASE DeleteUser(a)
    <2>1. accounts' \in [AccountIds -> Account \cup {None}]
      <3>1. accounts[a] \in Account
        BY <1>3, NamesDistinct DEF DeleteUser, TypeOK, Erased, NamesDistinct
      <3> QED
        BY <1>3, <3>1 DEF DeleteUser, TypeOK, Account
    <2>2. rows' \in [RowIds -> Row \cup {None}]
      BY <1>3, UnlinkTyped DEF DeleteUser
    <2> QED
      BY <1>3, <2>1, <2>2 DEF DeleteUser, TypeOK
  <1>4. CASE ErasureEnds(a)
    BY <1>4 DEF ErasureEnds, TypeOK
  <1> QED
    BY <1>1, <1>2, <1>3, <1>4

LEMMA NextTyped == IInv /\ [Next]_vars => TypeOK'
  <1> SUFFICES ASSUME IInv, [Next]_vars PROVE TypeOK'
    OBVIOUS
  <1>1. ASSUME NEW q \in Requests, End(q) PROVE TypeOK'
    BY <1>1 DEF End, IInv, TypeOK
  <1>2. CASE UNCHANGED vars
    BY <1>2 DEF vars, IInv, TypeOK
  <1> QED
    BY <1>1, <1>2, RosterTyped, IssuingTyped, ClaimTyped, InviteTyped, ProvisionTyped,
       EraseTyped DEF Next, IInv

-----------------------------------------------------------------------------
(* LinkEvidence.                                                            *)

(* What a step keeps: rows and accounts stay, with their addresses, and the *)
(* wallets they have had or were made with.                                 *)
Grows ==
    /\ \A r \in RowIds : Exists(r) => /\ Exists(r)'
                                      /\ rows'[r].email = rows[r].email
                                      /\ held[r] \subseteq held'[r]
    /\ \A a \in AccountIds :
          accounts[a] # None => /\ accounts'[a] # None
                                /\ accounts'[a].email = accounts[a].email
                                /\ accounts'[a].wallet = accounts[a].wallet
    /\ \A n \in Nonces : nonces[n] # None => nonces'[n] # None

LEMMA EvidenceStays ==
    ASSUME Grows, NEW a, NEW r \in RowIds, Exists(r), Evidence(a, r)
    PROVE  Evidence(a, r)'
  BY DEF Grows, Evidence

(* A request that goes on as it was still knows what it knew.               *)
LEMMA RequestStays ==
    ASSUME IInv, Grows, NEW q \in Requests, request'[q] = request[q]
    PROVE  RequestOK(q)'
  <1> SUFFICES ASSUME request[q] # None PROVE RequestOK(q)'
    BY DEF RequestOK
  <1> DEFINE p == request[q]
  <1>1. RequestOK(q) /\ p \in Request
    BY RequestTyped DEF IInv
  <1>2. p.row # None => p.row \in RowIds /\ Exists(p.row) /\ Exists(p.row)'
    BY <1>1 DEF RequestOK, Request, Grows
  <1>3. ClaimOK(p)'
    BY <1>1, <1>2 DEF RequestOK, ClaimOK, Grows
  <1>4. InviteOK(p)'
    BY <1>1, <1>2, EvidenceStays DEF RequestOK, InviteOK, Grows
  <1>5. ProvisionOK(p)'
    BY <1>1, <1>2 DEF RequestOK, ProvisionOK, Grows
  <1> QED
    BY <1>2, <1>3, <1>4, <1>5 DEF RequestOK

(* A link that stays as it was, to an account that stays live, stays right. *)
LinkOK(r) ==
    Exists(r) /\ rows[r].account # None =>
        Live(rows[r].account) /\ Evidence(rows[r].account, r)

StudentOK(w) == studentOf[w] \in RowIds => w \in held[studentOf[w]]

LEMMA LinkEvidenceByParts ==
    ASSUME TypeOK
    PROVE  LinkEvidence <=> /\ \A r \in RowIds : LinkOK(r)
                            /\ \A w \in Wallets : StudentOK(w)
  <1>1. ASSUME NEW r \in RowIds, Exists(r), rows[r].account # None
        PROVE  rows[r].account \in AccountIds
    BY <1>1, RowTyped DEF Row
  <1> QED
    BY <1>1 DEF LinkEvidence, LinkOK, StudentOK, Evidence, Live

LEMMA LinkEvidenceByPartsAfter ==
    ASSUME TypeOK'
    PROVE  LinkEvidence' <=> /\ \A r \in RowIds : LinkOK(r)'
                             /\ \A w \in Wallets : StudentOK(w)'
  <1>1. ASSUME NEW r \in RowIds, Exists(r)', rows'[r].account # None
        PROVE  rows'[r].account \in AccountIds
    BY <1>1 DEF TypeOK, Exists, Row
  <1> QED
    BY <1>1 DEF LinkEvidence, LinkOK, StudentOK, Evidence, Live

LEMMA LinkStays ==
    ASSUME IInv, Grows, NEW r \in RowIds, Exists(r),
           rows'[r].account \in {None, rows[r].account},
           rows'[r].account # None /\ Live(rows[r].account) => Live(rows[r].account)'
    PROVE  LinkOK(r)'
  BY LinkEvidenceByParts, EvidenceStays DEF IInv, LinkOK

LEMMA StudentStays ==
    ASSUME IInv, Grows, NEW w \in Wallets, studentOf'[w] = studentOf[w]
    PROVE  StudentOK(w)'
  <1>1. studentOf[w] \in RowIds => Exists(studentOf[w])
    BY LinkEvidenceByParts DEF IInv, StudentOK, HeldOK
  <1> QED
    BY <1>1, LinkEvidenceByParts DEF IInv, StudentOK, Grows

LEMMA InitIInv == Init => IInv
  <1> SUFFICES ASSUME Init PROVE IInv
    OBVIOUS
  <1>1. HeldOK /\ Erased /\ (\A q \in Requests : RequestOK(q))
    BY DEF Init, HeldOK, Erased, RequestOK, Exists
  <1>2. LinkEvidence
    BY NamesDistinct DEF Init, LinkEvidence, Exists, NoCredential, NamesDistinct
  <1> QED
    BY <1>1, <1>2, InitTyped DEF IInv

LEMMA ByParts ==
    ASSUME IInv, TypeOK', HeldOK', Erased',
           \A r \in RowIds : LinkOK(r)', \A w \in Wallets : StudentOK(w)',
           \A q \in Requests : RequestOK(q)'
    PROVE  IInv'
  BY LinkEvidenceByPartsAfter DEF IInv

(* A step that changes no row, no account and no challenge that is there.   *)
LEMMA RowChange ==
    ASSUME IInv, TypeOK', NEW r \in RowIds,
           UNCHANGED <<accounts, nonces, studentOf, erasure, request>>,
           \A s \in RowIds \ {r} : rows'[s] = rows[s] /\ held'[s] = held[s],
           rows'[r] # None, rows'[r].wallet \in held'[r] \cup {None},
           \/ ~Exists(r) /\ rows'[r].account = None
           \/ /\ Exists(r) /\ rows'[r].account = rows[r].account
              /\ rows'[r].email = rows[r].email /\ held[r] \subseteq held'[r]
    PROVE  IInv'
  <1>1. Grows
    BY DEF Grows, Exists
  <1>2. HeldOK' /\ Erased'
    BY DEF IInv, HeldOK, Erased, Exists
  <1>3. \A q \in Requests : RequestOK(q)'
    BY <1>1, RequestStays
  <1>4. \A w \in Wallets : StudentOK(w)'
    BY <1>1, StudentStays
  <1>5. \A a : Live(a)' <=> Live(a)
    BY DEF Live
  <1>6. \A s \in RowIds \ {r} : LinkOK(s)'
    <2> SUFFICES ASSUME NEW s \in RowIds \ {r}, Exists(s) PROVE LinkOK(s)'
      BY DEF LinkOK, Exists
    <2> QED
      BY <1>1, <1>5, LinkStays
  <1>7. LinkOK(r)'
    BY <1>1, <1>5, LinkStays DEF LinkOK
  <1> QED
    BY <1>2, <1>3, <1>4, <1>6, <1>7, ByParts

LEMMA RosterKeeps == IInv /\ Roster => IInv'
  <1> SUFFICES ASSUME IInv, NEW r \in RowIds, NEW wallet \in Wallets \cup {None},
                      \/ \E email \in Emails : AddStudent(r, email, wallet)
                      \/ \E deactivated \in BOOLEAN : UpdateStudent(r, wallet, deactivated)
               PROVE  IInv'
    BY DEF Roster
  <1>1. TypeOK'
    BY RosterTyped DEF IInv, Roster
  <1>2. ASSUME NEW email \in Emails, AddStudent(r, email, wallet) PROVE IInv'
    <2> DEFINE row == [email |-> email, wallet |-> wallet, account |-> None,
                       deactivated |-> FALSE, rostered |-> TRUE]
    <2>1. row \in Row
      BY DEF Row
    <2>2. rows' = [rows EXCEPT ![r] = row] /\ ~Exists(r)
      BY <1>2 DEF AddStudent, InsertRow
    <2>3. rows'[r] = row /\ \A s \in RowIds \ {r} : rows'[s] = rows[s]
      BY <2>2 DEF IInv, TypeOK
    <2>4. \A s \in RowIds \ {r} : held'[s] = held[s]
      BY <1>2 DEF AddStudent, InsertRow, IInv, TypeOK
    <2>5. rows'[r] # None /\ rows'[r].account = None
      <3>1. row # None
        BY <2>1, NoneIsNoRecord DEF NoneIsNoRecord
      <3>2. row.account = None
        OBVIOUS
      <3> HIDE DEF row
      <3> QED
        BY <3>1, <3>2, <2>3
    <2>6. rows'[r].wallet \in held'[r] \cup {None}
      BY <1>2, <2>3 DEF AddStudent, InsertRow, IInv, TypeOK
    <2> QED
      BY <1>1, <1>2, <2>2, <2>3, <2>4, <2>5, <2>6, RowChange DEF AddStudent
  <1>3. ASSUME NEW deactivated \in BOOLEAN, UpdateStudent(r, wallet, deactivated)
        PROVE  IInv'
    <2>1. rows[r] \in Row /\ Exists(r)
      BY <1>3, RowTyped DEF UpdateStudent, IInv
    <2>2. \A s \in RowIds \ {r} : rows'[s] = rows[s] /\ held'[s] = held[s]
      BY <1>3 DEF UpdateStudent, IInv, TypeOK
    <2>3. rows'[r].account = rows[r].account /\ rows'[r].email = rows[r].email
          /\ rows'[r] = [[rows[r] EXCEPT !.wallet = wallet] EXCEPT !.deactivated = deactivated]
      BY <1>3, <2>1 DEF UpdateStudent, IInv, TypeOK, Row
    <2>4. rows'[r] # None
      BY <2>1, <2>3, NoneIsNoRecord DEF NoneIsNoRecord, Row
    <2>5. held[r] \subseteq held'[r] /\ (wallet # None => wallet \in held'[r])
      BY <1>3 DEF UpdateStudent, IInv, TypeOK
    <2>6. rows'[r].wallet = wallet
      BY <2>1, <2>3 DEF Row
    <2> QED
      BY <1>1, <1>3, <2>1, <2>2, <2>3, <2>4, <2>5, <2>6, RowChange DEF UpdateStudent
  <1> QED
    BY <1>2, <1>3

LEMMA IssuingKeeps ==
    ASSUME IInv, NEW wallet \in Wallets,
           IssueCredential(wallet) \/ \E n \in Nonces : IssueNonce(n, wallet)
    PROVE  IInv'
  <1>1. TypeOK'
    BY IssuingTyped DEF IInv
  <1>2. UNCHANGED <<rows, held, accounts, erasure, request>>
    BY DEF IssueCredential, IssueNonce
  <1>3. \A n \in Nonces : nonces[n] # None => nonces'[n] # None
    BY DEF IssueCredential, IssueNonce, IInv, TypeOK
  <1>4. Grows
    BY <1>2, <1>3 DEF Grows, Exists
  <1>5. HeldOK' /\ Erased'
    BY <1>2 DEF IInv, HeldOK, Erased, Exists
  <1>6. \A q \in Requests : RequestOK(q)'
    BY <1>2, <1>4, RequestStays
  <1>7. \A r \in RowIds : LinkOK(r)'
    <2> SUFFICES ASSUME NEW r \in RowIds, Exists(r) PROVE LinkOK(r)'
      BY <1>2 DEF LinkOK, Exists
    <2> QED
      BY <1>2, <1>4, LinkStays DEF Live
  <1>8. \A w \in Wallets : StudentOK(w)'
    <2> SUFFICES ASSUME NEW w \in Wallets PROVE StudentOK(w)'
      OBVIOUS
    <2>1. CASE studentOf'[w] = studentOf[w]
      BY <1>4, <2>1, StudentStays
    <2>2. CASE studentOf'[w] # studentOf[w]
      BY <1>2, <2>2 DEF IssueCredential, IssueNonce, IInv, TypeOK, StudentOK
    <2> QED
      BY <2>1, <2>2
  <1> QED
    BY <1>1, <1>5, <1>6, <1>7, <1>8, ByParts

(* A step of a request that changes no record and no account.               *)
LEMMA RequestChange ==
    ASSUME IInv, TypeOK', NEW q \in Requests,
           UNCHANGED <<rows, held, accounts, erasure, studentOf>>,
           \A n \in Nonces : nonces[n] # None => nonces'[n] # None,
           \A p \in Requests \ {q} : request'[p] = request[p],
           RequestOK(q)'
    PROVE  IInv'
  <1>1. Grows
    BY DEF Grows, Exists
  <1>2. HeldOK' /\ Erased'
    BY DEF IInv, HeldOK, Erased, Exists
  <1>3. \A p \in Requests : RequestOK(p)'
    BY <1>1, RequestStays
  <1>4. \A r \in RowIds : LinkOK(r)'
    <2> SUFFICES ASSUME NEW r \in RowIds, Exists(r) PROVE LinkOK(r)'
      BY DEF LinkOK, Exists
    <2> QED
      BY <1>1, LinkStays DEF Live
  <1>5. \A w \in Wallets : StudentOK(w)'
    BY <1>1, StudentStays
  <1> QED
    BY <1>2, <1>3, <1>4, <1>5, ByParts

(* A step of a request that makes an account.                               *)
LEMMA AccountMade ==
    ASSUME IInv, TypeOK', NEW q \in Requests,
           NEW a \in AccountIds, NEW email \in Emails, NEW wallet, NEW nonce,
           NewAccount(a, email, wallet, nonce),
           UNCHANGED <<rows, held, nonces, erasure, studentOf>>,
           \A p \in Requests \ {q} : request'[p] = request[p],
           Grows => RequestOK(q)'
    PROVE  IInv'
  <1>1. \A b \in AccountIds \ {a} : accounts'[b] = accounts[b]
    BY DEF NewAccount, IInv, TypeOK
  <1>2. accounts[a] = None
    BY DEF NewAccount
  <1>3. Grows
    BY <1>1, <1>2 DEF Grows, Exists
  <1>4. HeldOK' /\ Erased'
    BY <1>3 DEF IInv, HeldOK, Erased, Exists, Grows
  <1>5. \A p \in Requests : RequestOK(p)'
    BY <1>3, RequestStays
  <1>6. \A r \in RowIds : LinkOK(r)'
    <2> SUFFICES ASSUME NEW r \in RowIds, Exists(r) PROVE LinkOK(r)'
      BY DEF LinkOK, Exists
    <2>1. rows[r].account \in AccountIds \cup {None}
      BY RowTyped DEF IInv, Row
    <2>2. rows'[r].account # None /\ Live(rows[r].account) => Live(rows[r].account)'
      BY <1>1, <1>2, <2>1 DEF Live
    <2> QED
      BY <1>3, <2>2, LinkStays
  <1>7. \A w \in Wallets : StudentOK(w)'
    BY <1>3, StudentStays
  <1> QED
    BY <1>4, <1>5, <1>6, <1>7, ByParts

(* A step of a request that links a record to a live account with evidence. *)
LEMMA LinkMade ==
    ASSUME IInv, TypeOK', NEW q \in Requests, NEW r \in RowIds, NEW a \in AccountIds,
           Exists(r), Live(a), Evidence(a, r), rows'[r] # None,
           rows'[r].email = rows[r].email, rows'[r].account = a,
           rows'[r].wallet = rows[r].wallet,
           \A s \in RowIds \ {r} : rows'[s] = rows[s],
           UNCHANGED <<held, accounts, nonces, erasure, studentOf>>,
           \A p \in Requests \ {q} : request'[p] = request[p],
           Grows => RequestOK(q)'
    PROVE  IInv'
  <1>1. Grows
    BY DEF Grows, Exists
  <1>2. HeldOK' /\ Erased'
    BY DEF IInv, HeldOK, Erased, Exists
  <1>3. \A p \in Requests : RequestOK(p)'
    BY <1>1, RequestStays
  <1>4. \A s \in RowIds \ {r} : LinkOK(s)'
    <2> SUFFICES ASSUME NEW s \in RowIds \ {r}, Exists(s) PROVE LinkOK(s)'
      BY DEF LinkOK, Exists
    <2> QED
      BY <1>1, LinkStays DEF Live
  <1>5. LinkOK(r)'
    BY <1>1, EvidenceStays DEF LinkOK, Live
  <1>6. \A w \in Wallets : StudentOK(w)'
    BY <1>1, StudentStays
  <1> QED
    BY <1>2, <1>3, <1>4, <1>5, <1>6, ByParts

LEMMA EndKeeps ==
    ASSUME IInv, NEW q \in Requests, End(q)
    PROVE  IInv'
  <1>1. TypeOK'
    BY DEF End, IInv, TypeOK
  <1>2. /\ \A p \in Requests \ {q} : request'[p] = request[p]
        /\ request'[q] = None
    BY DEF End, IInv, TypeOK
  <1>3. RequestOK(q)'
    BY <1>2 DEF RequestOK
  <1> QED
    BY <1>1, <1>2, <1>3, RequestChange DEF End

(* What the fields of a request under way are.                              *)
LEMMA Fields ==
    ASSUME IInv, NEW q \in Requests, request[q] # None
    PROVE  /\ request[q] \in Request
           /\ request[q].row # None => request[q].row \in RowIds /\ Exists(request[q].row)
           /\ ClaimOK(request[q]) /\ InviteOK(request[q]) /\ ProvisionOK(request[q])
  BY RequestTyped DEF IInv, RequestOK, Request

(* A claim that goes on, with a row perhaps, and knows no account.          *)
LEMMA ClaimKeeps ==
    ASSUME IInv, NEW q \in Requests, Claim(q)
    PROVE  IInv'
  <1>1. TypeOK'
    BY ClaimTyped
  <1>2. ASSUME NEW n \in Nonces, NEW email \in Emails, StartClaim(q, n, email) PROVE IInv'
    <2> DEFINE p == [kind |-> "claim", step |-> "consume", email |-> email,
                     wallet |-> nonces[n].wallet, nonce |-> n,
                     row |-> None, seen |-> None, account |-> None]
    <2>1. request' = [request EXCEPT ![q] = p]
      BY <1>2 DEF StartClaim, Begin
    <2>2. request'[q] = p /\ \A o \in Requests \ {q} : request'[o] = request[o]
      BY <2>1 DEF IInv, TypeOK
    <2>3. nonces[n] # None /\ nonces[n].wallet \in Wallets /\ nonces' = nonces
      BY <1>2 DEF StartClaim, IInv, TypeOK, Nonce
    <2>4. RequestOK(q)'
      BY <2>2, <2>3 DEF RequestOK, ClaimOK, InviteOK, ProvisionOK
    <2> QED
      BY <1>1, <1>2, <2>2, <2>3, <2>4, RequestChange DEF StartClaim
  <1>3. CASE Consume(q)
    <2> DEFINE p == [request[q] EXCEPT !.step = "find"]
    <2>1. request' = [request EXCEPT ![q] = p] /\ request[q] # None /\ request[q].kind = "claim"
      BY <1>3 DEF Consume, At, IInv, TypeOK
    <2>2. request'[q] = p /\ \A o \in Requests \ {q} : request'[o] = request[o]
      BY <2>1 DEF IInv, TypeOK
    <2>3. \A n \in Nonces : nonces[n] # None => nonces'[n] # None
      <3>1. request[q].nonce \in Nonces /\ nonces[request[q].nonce] \in Nonce
        BY <2>1, Fields DEF ClaimOK, IInv, TypeOK
      <3>2. [nonces[request[q].nonce] EXCEPT !.consumed = TRUE] \in Nonce
        BY <3>1 DEF Nonce
      <3>3. nonces' = [nonces EXCEPT ![request[q].nonce] =
                          [nonces[request[q].nonce] EXCEPT !.consumed = TRUE]]
        BY <1>3, <3>1 DEF Consume, IInv, TypeOK
      <3> QED
        BY <3>1, <3>2, <3>3, NoneIsNoRecord DEF NoneIsNoRecord, IInv, TypeOK
    <2>4. /\ request'[q].kind = "claim" /\ request'[q].step = "find"
          /\ request'[q].wallet = request[q].wallet /\ request'[q].nonce = request[q].nonce
          /\ request'[q].row = request[q].row /\ request'[q].seen = request[q].seen
      BY <2>1, <2>2, Fields DEF Request
    <2>5. RequestOK(q)'
      BY <1>3, <2>1, <2>3, <2>4, Fields
         DEF Consume, RequestOK, ClaimOK, InviteOK, ProvisionOK, Exists
    <2> QED
      BY <1>1, <1>3, <2>2, <2>3, <2>5, RequestChange DEF Consume
  <1>4. CASE FindClaimed(q)
    <2>1. /\ request[q] # None /\ request[q].kind = "claim" /\ request[q].step = "find"
          /\ UNCHANGED <<rows, held, accounts, nonces, studentOf, erasure>>
      BY <1>4 DEF FindClaimed, At
    <2>2. request[q] \in Request
      BY <2>1, Fields
    <2> DEFINE Goes(p) == /\ p # None
                          /\ p.kind = "claim" /\ p.step = "create"
                          /\ p.wallet = request[q].wallet /\ p.nonce = request[q].nonce
                          /\ p.seen = request[q].seen
                          /\ \/ p.row = request[q].row
                             \/ p.row \in RowsWithWallet(request[q].wallet)
    <2>3. (\A o \in Requests \ {q} : request'[o] = request[o]) /\ Goes(request'[q])
      <3>1. CASE request' = [request EXCEPT ![q].step = "create"]
        <4>1. request'[q] = [request[q] EXCEPT !.step = "create"]
              /\ \A o \in Requests \ {q} : request'[o] = request[o]
          BY <3>1 DEF IInv, TypeOK
        <4>2. request'[q] \in Request
          BY <2>2, <4>1 DEF Request
        <4> QED
          BY <2>1, <2>2, <4>1, <4>2, NoneIsNoRecord DEF Request, NoneIsNoRecord
      <3>2. ASSUME NEW r \in RowsWithWallet(request[q].wallet),
                   request' = [request EXCEPT ![q].step = "create", ![q].row = r]
            PROVE  (\A o \in Requests \ {q} : request'[o] = request[o]) /\ Goes(request'[q])
        <4>1. request'[q] = [[request[q] EXCEPT !.step = "create"] EXCEPT !.row = r]
              /\ \A o \in Requests \ {q} : request'[o] = request[o]
          BY <3>2 DEF IInv, TypeOK
        <4>2. request'[q] \in Request
          BY <2>2, <4>1 DEF Request, RowsWithWallet
        <4> QED
          BY <2>1, <2>2, <4>1, <4>2, NoneIsNoRecord DEF Request, NoneIsNoRecord
      <3> HIDE DEF Goes
      <3> QED
        BY <1>4, <3>1, <3>2 DEF FindClaimed
    <2>4. \A r \in RowsWithWallet(request[q].wallet) :
              r \in RowIds /\ Exists(r) /\ request[q].wallet \in held[r]
      BY <2>1, Fields DEF RowsWithWallet, IInv, HeldOK, ClaimOK
    <2>5. RequestOK(q)'
      BY <2>1, <2>3, <2>4, Fields DEF RequestOK, ClaimOK, InviteOK, ProvisionOK, Exists
    <2> HIDE DEF Goes
    <2> QED
      BY <1>1, <2>1, <2>3, <2>5, RequestChange
  <1>5. ASSUME NEW a \in AccountIds, CreateClaimUser(q, a) PROVE IInv'
    <2> DEFINE p == [[request[q] EXCEPT !.step = "attach"] EXCEPT !.account = a]
    <2>1. /\ request[q] # None /\ request[q].kind = "claim"
          /\ NewAccount(a, request[q].email, request[q].wallet, request[q].nonce)
          /\ UNCHANGED <<rows, held, nonces, erasure, studentOf>>
      BY <1>5 DEF CreateClaimUser, At
    <2>2. request[q] \in Request /\ request[q].email \in Emails
      BY <2>1, Fields DEF Request
    <2>3. request'[q] = p /\ \A o \in Requests \ {q} : request'[o] = request[o]
      BY <1>5 DEF CreateClaimUser, IInv, TypeOK
    <2>4. /\ p.kind = "claim" /\ p.step = "attach" /\ p.account = a
          /\ p.wallet = request[q].wallet /\ p.nonce = request[q].nonce
          /\ p.seen = request[q].seen /\ p.row = request[q].row
      BY <2>1, <2>2 DEF Request
    <2>5. accounts'[a] # None /\ accounts'[a].wallet = request[q].wallet
      <3>1. accounts'[a] = [email |-> request[q].email, wallet |-> request[q].wallet,
                            nonce |-> request[q].nonce, live |-> TRUE]
        BY <2>1 DEF NewAccount, IInv, TypeOK
      <3>2. accounts'[a] \in Account
        BY <2>2, <3>1 DEF Account, Request
      <3>3. accounts'[a].wallet = request[q].wallet
        BY <3>1
      <3> QED
        BY <3>2, <3>3, NoneIsNoRecord DEF NoneIsNoRecord
    <2>6. Grows => RequestOK(q)'
      <3> HIDE DEF p
      <3> QED
        BY <2>1, <2>3, <2>4, <2>5, Fields
           DEF RequestOK, ClaimOK, InviteOK, ProvisionOK, Grows
    <2> QED
      BY <1>1, <2>1, <2>2, <2>3, <2>6, AccountMade
  <1>6. CASE AttachClaim(q)
    <2> DEFINE r == request[q].row
               a == request[q].account
               row == [[rows[r] EXCEPT !.account = a] EXCEPT !.deactivated = FALSE]
               p == [request[q] EXCEPT !.step = "backfill"]
    <2>1. /\ request[q] # None /\ request[q].kind = "claim" /\ request[q].step = "attach"
          /\ r # None /\ Live(a)
          /\ UNCHANGED <<held, accounts, nonces, erasure, studentOf>>
      BY <1>6 DEF AttachClaim, At
    <2>2. request[q] \in Request /\ r \in RowIds /\ Exists(r) /\ rows[r] \in Row
      BY <2>1, Fields, RowTyped DEF IInv
    <2>3. a \in AccountIds /\ Evidence(a, r)
      BY <2>1, Fields DEF ClaimOK, Evidence
    <2>4. row \in Row /\ row.email = rows[r].email /\ row.account = a
          /\ row.wallet = rows[r].wallet
      BY <2>2, <2>3 DEF Row
    <2>5. rows'[r] = row /\ \A s \in RowIds \ {r} : rows'[s] = rows[s]
      BY <1>6, <2>2 DEF AttachClaim, IInv, TypeOK
    <2>6. request'[q] = p /\ \A o \in Requests \ {q} : request'[o] = request[o]
      BY <1>6 DEF AttachClaim, IInv, TypeOK
    <2>7. /\ p.kind = "claim" /\ p.step = "backfill" /\ p.row = r
          /\ p.wallet = request[q].wallet /\ p.nonce = request[q].nonce
          /\ p.seen = request[q].seen
      BY <2>1, <2>2 DEF Request
    <2>8. row # None
      BY <2>4, NoneIsNoRecord DEF NoneIsNoRecord
    <2> HIDE DEF p, row
    <2>9. Grows => RequestOK(q)'
      BY <2>1, <2>2, <2>6, <2>7, Fields
         DEF RequestOK, ClaimOK, InviteOK, ProvisionOK, Grows
    <2> HIDE DEF r, a
    <2> QED
      BY <1>1, <2>1, <2>2, <2>3, <2>4, <2>5, <2>6, <2>8, <2>9, LinkMade
  <1>7. ASSUME NEW r \in RowIds, InsertClaimed(q, r) PROVE IInv'
    <2> DEFINE row == [email |-> request[q].email, wallet |-> request[q].wallet,
                       account |-> request[q].account, deactivated |-> FALSE,
                       rostered |-> FALSE]
               p == [[request[q] EXCEPT !.step = "backfill"] EXCEPT !.row = r]
    <2>1. /\ request[q] # None /\ request[q].kind = "claim" /\ request[q].step = "attach"
          /\ request[q].row = None /\ Live(request[q].account) /\ ~Exists(r)
          /\ UNCHANGED <<accounts, nonces, erasure, studentOf>>
      BY <1>7 DEF InsertClaimed, InsertRow, At
    <2>2. request[q] \in Request /\ request[q].account \in AccountIds
          /\ request[q].wallet \in Wallets
          /\ accounts[request[q].account].wallet = request[q].wallet
          /\ accounts[request[q].account] # None
      BY <2>1, Fields DEF ClaimOK
    <2>3. row \in Row
      BY <2>2 DEF Request, Row
    <2>4. /\ rows'[r] = row /\ \A s \in RowIds \ {r} : rows'[s] = rows[s]
          /\ held'[r] = {request[q].wallet} /\ \A s \in RowIds \ {r} : held'[s] = held[s]
      BY <1>7, <2>2 DEF InsertClaimed, InsertRow, IInv, TypeOK
    <2>5. request'[q] = p /\ \A o \in Requests \ {q} : request'[o] = request[o]
      BY <1>7 DEF InsertClaimed, IInv, TypeOK
    <2>6. /\ p.kind = "claim" /\ p.step = "backfill" /\ p.row = r
          /\ p.wallet = request[q].wallet /\ p.nonce = request[q].nonce
          /\ p.seen = request[q].seen
      BY <2>1, <2>2 DEF Request
    <2>7. row # None /\ row.account = request[q].account /\ row.wallet = request[q].wallet
      BY <2>3, NoneIsNoRecord DEF NoneIsNoRecord
    <2> HIDE DEF p, row
    <2>8. Grows /\ HeldOK' /\ Erased'
      <3>1. Grows
        BY <2>1, <2>4 DEF Grows, Exists
      <3> QED
        BY <2>1, <2>4, <2>7, <3>1 DEF HeldOK, Erased, Exists, IInv
    <2>9. \A o \in Requests : RequestOK(o)'
      <3>1. RequestOK(q)'
        BY <2>1, <2>2, <2>4, <2>5, <2>6, <2>7, <2>8, Fields
           DEF RequestOK, ClaimOK, InviteOK, ProvisionOK, Grows, Exists
      <3> QED
        BY <2>5, <2>8, <3>1, RequestStays
    <2>10. \A s \in RowIds : LinkOK(s)'
      <3>1. \A s \in RowIds \ {r} : LinkOK(s)'
        <4> SUFFICES ASSUME NEW s \in RowIds \ {r}, Exists(s) PROVE LinkOK(s)'
          BY <2>4 DEF LinkOK, Exists
        <4> QED
          BY <2>1, <2>4, <2>8, LinkStays DEF Live
      <3>2. LinkOK(r)'
        BY <2>1, <2>2, <2>4, <2>7 DEF LinkOK, Evidence, Live
      <3> QED
        BY <3>1, <3>2
    <2>11. \A w \in Wallets : StudentOK(w)'
      BY <2>1, <2>8, StudentStays
    <2> QED
      BY <1>1, <2>8, <2>9, <2>10, <2>11, ByParts
  <1>8. CASE Backfill(q)
    <2>1. /\ request[q] # None /\ request[q].kind = "claim" /\ request[q].step = "backfill"
          /\ UNCHANGED <<rows, held, accounts, nonces, erasure>>
      BY <1>8 DEF Backfill, At
    <2>2. /\ request[q].wallet \in Wallets /\ request[q].row \in RowIds
          /\ request[q].wallet \in held[request[q].row]
      BY <2>1, Fields DEF ClaimOK
    <2>3. Grows /\ HeldOK' /\ Erased'
      BY <2>1 DEF Grows, Exists, HeldOK, Erased, IInv
    <2>4. request'[q] = None /\ \A o \in Requests \ {q} : request'[o] = request[o]
      BY <1>8 DEF Backfill, IInv, TypeOK
    <2>5. \A o \in Requests : RequestOK(o)'
      <3>1. RequestOK(q)'
        BY <2>4 DEF RequestOK
      <3> QED
        BY <2>3, <2>4, <3>1, RequestStays
    <2>6. \A s \in RowIds : LinkOK(s)'
      <3> SUFFICES ASSUME NEW s \in RowIds, Exists(s) PROVE LinkOK(s)'
        BY <2>1 DEF LinkOK, Exists
      <3> QED
        BY <2>1, <2>3, LinkStays DEF Live
    <2>7. \A w \in Wallets : StudentOK(w)'
      <3> SUFFICES ASSUME NEW w \in Wallets PROVE StudentOK(w)'
        OBVIOUS
      <3>1. studentOf'[w] \in {studentOf[w]} \cup (IF w = request[q].wallet THEN {request[q].row} ELSE {})
        BY <1>8, <2>2 DEF Backfill, IInv, TypeOK
      <3> QED
        BY <2>1, <2>2, <2>3, <3>1, StudentStays DEF StudentOK
    <2> QED
      BY <1>1, <2>3, <2>5, <2>6, <2>7, ByParts
  <1> QED
    BY <1>2, <1>3, <1>4, <1>5, <1>6, <1>7, <1>8 DEF Claim

LEMMA InviteKeeps ==
    ASSUME IInv, NEW q \in Requests, Invite(q)
    PROVE  IInv'
  <1>1. TypeOK'
    BY InviteTyped
  <1>2. ASSUME NEW r \in RowIds, StartInvite(q, r) PROVE IInv'
    <2> DEFINE p == [kind |-> "invite",
                     step |-> IF rows[r].account = None THEN "create" ELSE "attach",
                     email |-> rows[r].email, wallet |-> None, nonce |-> None,
                     row |-> r, seen |-> rows[r].account, account |-> rows[r].account]
    <2>1. Exists(r) /\ UNCHANGED <<rows, held, accounts, nonces, studentOf, erasure>>
      BY <1>2 DEF StartInvite
    <2>2. request'[q] = p /\ \A o \in Requests \ {q} : request'[o] = request[o]
      BY <1>2 DEF StartInvite, Begin, IInv, TypeOK
    <2>3. rows[r].account # None => Evidence(rows[r].account, r)
      BY <2>1, LinkEvidenceByParts DEF IInv, LinkOK
    <2>4. /\ p.kind = "invite" /\ p.row = r /\ p.email = rows[r].email
          /\ p.seen = rows[r].account /\ p.account = rows[r].account
          /\ p.step = IF rows[r].account = None THEN "create" ELSE "attach"
      OBVIOUS
    <2>5. r # None
      OBVIOUS
    <2> HIDE DEF p
    <2>6. RequestOK(q)'
      BY <2>1, <2>2, <2>3, <2>4, <2>5
         DEF RequestOK, ClaimOK, InviteOK, ProvisionOK, Exists, Evidence
    <2> QED
      BY <1>1, <2>1, <2>2, <2>6, RequestChange
  <1>3. ASSUME NEW a \in AccountIds, CreateInvited(q, a) PROVE IInv'
    <2> DEFINE p == [[request[q] EXCEPT !.step = "attach"] EXCEPT !.account = a]
    <2>1. /\ request[q] # None /\ request[q].kind = "invite" /\ request[q].step = "create"
          /\ NewAccount(a, request[q].email, None, None)
          /\ UNCHANGED <<rows, held, nonces, erasure, studentOf>>
      BY <1>3 DEF CreateInvited, At
    <2>2. request[q] \in Request /\ request[q].email \in Emails
      BY <2>1, Fields DEF Request
    <2>3. request'[q] = p /\ \A o \in Requests \ {q} : request'[o] = request[o]
      BY <1>3 DEF CreateInvited, IInv, TypeOK
    <2>4. /\ p.kind = "invite" /\ p.step = "attach" /\ p.account = a
          /\ p.email = request[q].email /\ p.seen = request[q].seen /\ p.row = request[q].row
      BY <2>1, <2>2 DEF Request
    <2>5. accounts'[a] # None /\ accounts'[a].email = request[q].email
      <3>1. accounts'[a] = [email |-> request[q].email, wallet |-> None,
                            nonce |-> None, live |-> TRUE]
        BY <2>1 DEF NewAccount, IInv, TypeOK
      <3>2. accounts'[a] \in Account
        BY <2>2, <3>1 DEF Account
      <3>3. accounts'[a].email = request[q].email
        BY <3>1
      <3> QED
        BY <3>2, <3>3, NoneIsNoRecord DEF NoneIsNoRecord
    <2>6. Grows => RequestOK(q)'
      <3> HIDE DEF p
      <3> QED
        BY <2>1, <2>3, <2>4, <2>5, Fields
           DEF RequestOK, ClaimOK, InviteOK, ProvisionOK, Grows, Evidence
    <2> QED
      BY <1>1, <2>1, <2>2, <2>3, <2>6, AccountMade
  <1>4. CASE FindInvited(q)
    <2>1. PICK a \in AccountsAt(request[q].email) :
              request' = [request EXCEPT ![q].step = "attach", ![q].account = a]
      BY <1>4 DEF FindInvited, InvitedAt
    <2> DEFINE p == [[request[q] EXCEPT !.step = "attach"] EXCEPT !.account = a]
    <2>2. /\ request[q] # None /\ request[q].kind = "invite" /\ request[q].step = "create"
          /\ UNCHANGED <<rows, held, accounts, nonces, erasure, studentOf>>
      BY <1>4 DEF FindInvited, At
    <2>3. request[q] \in Request
      BY <2>2, Fields
    <2>4. request'[q] = p /\ \A o \in Requests \ {q} : request'[o] = request[o]
      BY <2>1 DEF IInv, TypeOK
    <2>5. /\ p.kind = "invite" /\ p.step = "attach" /\ p.account = a
          /\ p.email = request[q].email /\ p.seen = request[q].seen /\ p.row = request[q].row
      BY <2>2, <2>3 DEF Request
    <2>6. Evidence(a, request[q].row)
      BY <2>1, <2>2, Fields DEF AccountsAt, Live, Evidence, InviteOK
    <2> HIDE DEF p
    <2>7. RequestOK(q)'
      BY <2>2, <2>4, <2>5, <2>6, Fields
         DEF RequestOK, ClaimOK, InviteOK, ProvisionOK, Evidence, Exists
    <2> QED
      BY <1>1, <2>2, <2>4, <2>7, RequestChange
  <1>5. CASE AttachInvited(q)
    <2> DEFINE r == request[q].row
               a == request[q].account
               row == [rows[r] EXCEPT !.account = a]
    <2>1. /\ request[q] # None /\ request[q].kind = "invite" /\ request[q].step = "attach"
          /\ Live(a)
          /\ UNCHANGED <<held, accounts, nonces, erasure, studentOf>>
      BY <1>5 DEF AttachInvited, At
    <2>2. /\ r \in RowIds /\ Exists(r) /\ rows[r] \in Row
          /\ Evidence(a, r) /\ a \in AccountIds
      BY <2>1, Fields, RowTyped DEF IInv, InviteOK, Evidence
    <2>3. row \in Row /\ row.email = rows[r].email /\ row.account = a
          /\ row.wallet = rows[r].wallet
      BY <2>2 DEF Row
    <2>4. row # None
      BY <2>3, NoneIsNoRecord DEF NoneIsNoRecord
    <2>5. rows'[r] = row /\ \A s \in RowIds \ {r} : rows'[s] = rows[s]
      BY <1>5, <2>2 DEF AttachInvited, IInv, TypeOK
    <2>6. request'[q] = None /\ \A o \in Requests \ {q} : request'[o] = request[o]
      BY <1>5 DEF AttachInvited, IInv, TypeOK
    <2>7. RequestOK(q)'
      BY <2>6 DEF RequestOK
    <2> HIDE DEF r, a, row
    <2> QED
      BY <1>1, <2>1, <2>2, <2>3, <2>4, <2>5, <2>6, <2>7, LinkMade
  <1> QED
    BY <1>2, <1>3, <1>4, <1>5 DEF Invite

LEMMA ProvisionKeeps ==
    ASSUME IInv, NEW q \in Requests, Provision(q)
    PROVE  IInv'
  <1>1. TypeOK'
    BY ProvisionTyped
  <1>2. ASSUME NEW a \in AccountIds, StartProvision(q, a) PROVE IInv'
    <2> DEFINE p == [kind |-> "provision", step |-> "email", email |-> accounts[a].email,
                     wallet |-> None, nonce |-> None, row |-> None, seen |-> None,
                     account |-> a]
    <2>1. Live(a) /\ UNCHANGED <<rows, held, accounts, nonces, studentOf, erasure>>
      BY <1>2 DEF StartProvision
    <2>2. request'[q] = p /\ \A o \in Requests \ {q} : request'[o] = request[o]
      BY <1>2 DEF StartProvision, Begin, IInv, TypeOK
    <2>3. /\ p.kind = "provision" /\ p.step = "email" /\ p.email = accounts[a].email
          /\ p.row = None /\ p.account = a
      OBVIOUS
    <2> HIDE DEF p
    <2>4. RequestOK(q)'
      BY <2>1, <2>2, <2>3 DEF RequestOK, ClaimOK, InviteOK, ProvisionOK, Live
    <2> QED
      BY <1>1, <2>1, <2>2, <2>4, RequestChange
  <1>3. CASE FindByEmail(q)
    <2>1. PICK r \in RowsWithEmail(request[q].email) :
              /\ rows[r].account \in {None, request[q].account}
              /\ request' = [request EXCEPT ![q].step = "attach", ![q].row = r,
                                            ![q].seen = rows[r].account]
      BY <1>3 DEF FindByEmail
    <2> DEFINE p == [[[request[q] EXCEPT !.step = "attach"] EXCEPT !.row = r]
                        EXCEPT !.seen = rows[r].account]
    <2>2. /\ request[q] # None /\ request[q].kind = "provision" /\ request[q].step = "email"
          /\ UNCHANGED <<rows, held, accounts, nonces, erasure, studentOf>>
      BY <1>3 DEF FindByEmail, At
    <2>3. request[q] \in Request
      BY <2>2, Fields
    <2>4. request'[q] = p /\ \A o \in Requests \ {q} : request'[o] = request[o]
      BY <2>1 DEF IInv, TypeOK
    <2>5. /\ p.kind = "provision" /\ p.step = "attach" /\ p.row = r
          /\ p.email = request[q].email /\ p.account = request[q].account
          /\ p.seen = rows[r].account
      BY <2>2, <2>3 DEF Request
    <2>6. /\ r \in RowIds /\ r # None /\ Exists(r) /\ rows[r].email = request[q].email
          /\ rows[r].account \in {None, request[q].account}
      BY <2>1 DEF RowsWithEmail
    <2> HIDE DEF p
    <2>7. RequestOK(q)'
      BY <2>2, <2>4, <2>5, <2>6, Fields
         DEF RequestOK, ClaimOK, InviteOK, ProvisionOK, Exists
    <2> QED
      BY <1>1, <2>2, <2>4, <2>7, RequestChange
  <1>4. CASE AttachByEmail(q)
    <2> DEFINE r == request[q].row
               a == request[q].account
               row == [rows[r] EXCEPT !.account = a]
    <2>1. /\ request[q] # None /\ request[q].kind = "provision" /\ request[q].step = "attach"
          /\ Live(a)
          /\ UNCHANGED <<held, accounts, nonces, erasure, studentOf>>
      BY <1>4 DEF AttachByEmail, At
    <2>2. /\ r \in RowIds /\ Exists(r) /\ rows[r] \in Row
          /\ Evidence(a, r) /\ a \in AccountIds
      BY <2>1, Fields, RowTyped DEF IInv, ProvisionOK, Evidence
    <2>3. row \in Row /\ row.email = rows[r].email /\ row.account = a
          /\ row.wallet = rows[r].wallet
      BY <2>2 DEF Row
    <2>4. row # None
      BY <2>3, NoneIsNoRecord DEF NoneIsNoRecord
    <2>5. rows'[r] = row /\ \A s \in RowIds \ {r} : rows'[s] = rows[s]
      BY <1>4, <2>2 DEF AttachByEmail, IInv, TypeOK
    <2>6. request'[q] = None /\ \A o \in Requests \ {q} : request'[o] = request[o]
      BY <1>4 DEF AttachByEmail, IInv, TypeOK
    <2>7. RequestOK(q)'
      BY <2>6 DEF RequestOK
    <2> HIDE DEF r, a, row
    <2> QED
      BY <1>1, <2>1, <2>2, <2>3, <2>4, <2>5, <2>6, <2>7, LinkMade
  <1> QED
    BY <1>2, <1>3, <1>4 DEF Provision

(* What Unlink does to each record.                                         *)
LEMMA Unlinked ==
    ASSUME IInv, NEW a \in AccountIds, Unlink(a), NEW r \in RowIds
    PROVE  /\ ~Exists(r) => rows'[r] = rows[r]
           /\ Exists(r) => /\ rows'[r] # None
                           /\ rows'[r].email = rows[r].email
                           /\ rows'[r].wallet = rows[r].wallet
                           /\ rows'[r].account = IF rows[r].account = a THEN None
                                                 ELSE rows[r].account
  <1>1. CASE r \in RowsOf(a)
    <2> DEFINE row == [rows[r] EXCEPT !.account = None]
    <2>1. rows[r] \in Row /\ Exists(r) /\ rows[r].account = a
      BY <1>1, RowTyped DEF RowsOf, IInv
    <2>2. row \in Row /\ row.email = rows[r].email /\ row.wallet = rows[r].wallet
          /\ row.account = None
      BY <2>1 DEF Row
    <2>3. row # None
      BY <2>2, NoneIsNoRecord DEF NoneIsNoRecord
    <2>4. rows'[r] = row
      BY <1>1 DEF Unlink
    <2> QED
      BY <2>1, <2>2, <2>3, <2>4
  <1>2. CASE r \notin RowsOf(a)
    <2>1. rows'[r] = rows[r] /\ (Exists(r) => rows[r].account # a)
      BY <1>2 DEF Unlink, RowsOf
    <2> QED
      BY <2>1 DEF Exists
  <1> QED
    BY <1>1, <1>2

LEMMA UnlinkGrows ==
    ASSUME IInv, NEW a \in AccountIds, Unlink(a), UNCHANGED <<held, nonces>>,
           \A b \in AccountIds :
               accounts[b] # None => /\ accounts'[b] # None
                                     /\ accounts'[b].email = accounts[b].email
                                     /\ accounts'[b].wallet = accounts[b].wallet
    PROVE  Grows /\ HeldOK'
  <1>1. Grows
    BY Unlinked DEF Grows, Exists
  <1>2. HeldOK'
    BY Unlinked DEF HeldOK, Exists, IInv
  <1> QED
    BY <1>1, <1>2

LEMMA EraseKeeps == IInv /\ Erase => IInv'
  <1> SUFFICES ASSUME IInv, Erase, NEW a \in AccountIds,
                      \/ RequestErasure(a) \/ ProcessErasure(a)
                      \/ DeleteUser(a) \/ ErasureEnds(a)
               PROVE  IInv'
    BY DEF Erase
  <1>1. TypeOK'
    BY EraseTyped
  <1>2. UNCHANGED <<held, nonces, studentOf, request>>
    BY DEF RequestErasure, ProcessErasure, DeleteUser, ErasureEnds
  <1>3. CASE RequestErasure(a) \/ ErasureEnds(a)
    <2>1. UNCHANGED <<rows, accounts>>
      BY <1>3 DEF RequestErasure, ErasureEnds
    <2>2. Grows /\ HeldOK'
      BY <1>2, <2>1 DEF Grows, Exists, HeldOK, IInv
    <2>3. Erased'
      BY <1>3, <2>1, NamesDistinct
         DEF RequestErasure, ErasureEnds, Erased, IInv, TypeOK, Live, NamesDistinct
    <2>4. \A r \in RowIds : LinkOK(r)'
      <3> SUFFICES ASSUME NEW r \in RowIds, Exists(r) PROVE LinkOK(r)'
        BY <2>1 DEF LinkOK, Exists
      <3> QED
        BY <2>1, <2>2, LinkStays DEF Live
    <2>5. \A w \in Wallets : StudentOK(w)'
      BY <1>2, <2>2, StudentStays
    <2>6. \A q \in Requests : RequestOK(q)'
      BY <1>2, <2>2, RequestStays
    <2> QED
      BY <1>1, <2>2, <2>3, <2>4, <2>5, <2>6, ByParts
  <1>4. CASE ProcessErasure(a)
    <2>1. Unlink(a) /\ UNCHANGED accounts
      BY <1>4 DEF ProcessErasure
    <2>2. Grows /\ HeldOK'
      BY <1>2, <2>1, UnlinkGrows
    <2>3. Erased'
      BY <1>4, <2>1, NamesDistinct DEF ProcessErasure, Erased, IInv, TypeOK, NamesDistinct
    <2>4. \A r \in RowIds : LinkOK(r)'
      <3> SUFFICES ASSUME NEW r \in RowIds, Exists(r)' PROVE LinkOK(r)'
        BY DEF LinkOK, Exists
      <3>1. Exists(r) /\ rows'[r].account \in {None, rows[r].account}
        BY <2>1, Unlinked DEF Exists
      <3> QED
        BY <2>1, <2>2, <3>1, LinkStays DEF Live
    <2>5. \A w \in Wallets : StudentOK(w)'
      BY <1>2, <2>2, StudentStays
    <2>6. \A q \in Requests : RequestOK(q)'
      BY <1>2, <2>2, RequestStays
    <2> QED
      BY <1>1, <2>2, <2>3, <2>4, <2>5, <2>6, ByParts
  <1>5. CASE DeleteUser(a)
    <2> DEFINE gone == [accounts[a] EXCEPT !.live = FALSE]
    <2>1. Unlink(a) /\ accounts' = [accounts EXCEPT ![a] = gone]
      BY <1>5 DEF DeleteUser, IInv, TypeOK
    <2>2. accounts[a] \in Account
      BY <1>5, NamesDistinct DEF DeleteUser, IInv, TypeOK, Erased, NamesDistinct
    <2>3. gone \in Account /\ gone.email = accounts[a].email /\ gone.wallet = accounts[a].wallet
      BY <2>2 DEF Account
    <2>4. gone # None
      BY <2>3, NoneIsNoRecord DEF NoneIsNoRecord
    <2>5. accounts'[a] = gone /\ \A b \in AccountIds \ {a} : accounts'[b] = accounts[b]
      BY <2>1 DEF IInv, TypeOK
    <2> HIDE DEF gone
    <2>6. Grows /\ HeldOK'
      BY <1>2, <2>1, <2>3, <2>4, <2>5, UnlinkGrows
    <2>7. Erased'
      BY <1>5, <2>4, <2>5 DEF DeleteUser, Erased, IInv, TypeOK
    <2>8. \A r \in RowIds : LinkOK(r)'
      <3> SUFFICES ASSUME NEW r \in RowIds, Exists(r)' PROVE LinkOK(r)'
        BY DEF LinkOK, Exists
      <3>1. /\ Exists(r)
            /\ rows'[r].account = IF rows[r].account = a THEN None ELSE rows[r].account
        BY <2>1, Unlinked DEF Exists
      <3>2. rows[r].account \in AccountIds \cup {None}
        BY <3>1, RowTyped DEF IInv, Row
      <3>3. rows'[r].account # None => Live(rows[r].account) <=> Live(rows[r].account)'
        BY <2>5, <3>1, <3>2 DEF Live
      <3> QED
        BY <2>6, <3>1, <3>3, LinkStays
    <2>9. \A w \in Wallets : StudentOK(w)'
      BY <1>2, <2>6, StudentStays
    <2>10. \A q \in Requests : RequestOK(q)'
      BY <1>2, <2>6, RequestStays
    <2> QED
      BY <1>1, <2>6, <2>7, <2>8, <2>9, <2>10, ByParts
  <1> QED
    BY <1>3, <1>4, <1>5

LEMMA NextIInv == IInv /\ [Next]_vars => IInv'
  <1> SUFFICES ASSUME IInv, [Next]_vars PROVE IInv'
    OBVIOUS
  <1>1. CASE UNCHANGED vars
    <2>1. TypeOK'
      BY <1>1, NextTyped
    <2>2. Grows /\ HeldOK' /\ Erased'
      BY <1>1 DEF vars, Grows, Exists, HeldOK, Erased, IInv
    <2>3. \A r \in RowIds : LinkOK(r)'
      <3> SUFFICES ASSUME NEW r \in RowIds, Exists(r) PROVE LinkOK(r)'
        BY <1>1 DEF LinkOK, Exists, vars
      <3> QED
        BY <1>1, <2>2, LinkStays DEF Live, vars
    <2>4. \A w \in Wallets : StudentOK(w)'
      BY <1>1, <2>2, StudentStays DEF vars
    <2>5. \A q \in Requests : RequestOK(q)'
      BY <1>1, <2>2, RequestStays DEF vars
    <2> QED
      BY <2>1, <2>2, <2>3, <2>4, <2>5, ByParts
  <1> QED
    BY <1>1, RosterKeeps, IssuingKeeps, ClaimKeeps, InviteKeeps, ProvisionKeeps, EndKeeps,
       EraseKeeps DEF Next

(* The tables, the requests under way and the erasures keep their types.    *)
THEOREM StudentsTyped == Spec => []TypeOK
  <1>1. IInv => TypeOK
    BY DEF IInv
  <1> QED
    BY InitIInv, NextIInv, <1>1, PTL DEF Spec

(* However requests interleave or end, wallets move and accounts are        *)
(* erased, a link has its evidence.                                         *)
THEOREM LinksHaveEvidence == Spec => []LinkEvidence
  <1>1. IInv => LinkEvidence
    BY DEF IInv
  <1> QED
    BY InitIInv, NextIInv, <1>1, PTL DEF Spec

-----------------------------------------------------------------------------
(* OneAccountPerNonce.                                                      *)

(* A step that makes no account with a challenge, and no claim that may.    *)
Quiet ==
    /\ \A a \in AccountIds :
          accounts'[a] # None =>
              \/ accounts[a] # None /\ accounts'[a].nonce = accounts[a].nonce
              \/ accounts'[a].nonce = None
    /\ \A n \in Nonces :
          nonces[n] # None => nonces'[n] # None /\ (nonces[n].consumed => nonces'[n].consumed)
    /\ \A q \in Requests : Spends(q)' => Spends(q) /\ request'[q].nonce = request[q].nonce

LEMMA NoncesTyped ==
    ASSUME IInv
    PROVE  /\ \A a \in AccountIds : accounts[a] # None => accounts[a].nonce \in Nonces \cup {None}
           /\ \A q \in Requests : Spends(q) => request[q].nonce \in Nonces
  <1>1. ASSUME NEW q \in Requests, Spends(q) PROVE request[q].nonce \in Nonces
    BY <1>1, Fields DEF Spends, ClaimOK
  <1> QED
    BY <1>1 DEF IInv, TypeOK, Account

LEMMA QuietKeeps ==
    ASSUME IInv, NonceInv, Quiet
    PROVE  NonceInv'
  <1>1. ASSUME NEW a \in AccountIds, accounts'[a] # None, accounts'[a].nonce # None
        PROVE  /\ accounts[a] # None /\ accounts'[a].nonce = accounts[a].nonce
               /\ nonces'[accounts'[a].nonce] # None /\ nonces'[accounts'[a].nonce].consumed
    BY <1>1, NoncesTyped DEF NonceInv, Quiet
  <1>2. ASSUME NEW q \in Requests, Spends(q)'
        PROVE  /\ nonces'[request'[q].nonce] # None
               /\ nonces'[request'[q].nonce].consumed
               /\ \A a \in AccountIds :
                      accounts'[a] # None => accounts'[a].nonce # request'[q].nonce
    <2>1. Spends(q) /\ request'[q].nonce = request[q].nonce /\ request[q].nonce \in Nonces
      BY <1>2, NoncesTyped DEF Quiet
    <2>2. /\ nonces[request[q].nonce] # None /\ nonces[request[q].nonce].consumed
          /\ \A a \in AccountIds : accounts[a] # None => accounts[a].nonce # request[q].nonce
      BY <2>1 DEF NonceInv
    <2> QED
      BY <1>1, <2>1, <2>2 DEF Quiet
  <1>3. \A q, p \in Requests :
            Spends(q)' /\ Spends(p)' /\ request'[q].nonce = request'[p].nonce => q = p
    BY DEF NonceInv, Quiet
  <1>4. OneAccountPerNonce'
    BY <1>1 DEF NonceInv, OneAccountPerNonce
  <1> QED
    BY <1>1, <1>2, <1>3, <1>4 DEF NonceInv

(* A request that is not a claim about to make an account spends nothing.   *)
LEMMA NotSpending ==
    ASSUME NEW q \in Requests,
           \A p \in Requests \ {q} : request'[p] = request[p],
           \/ request'[q] = None
           \/ request'[q].kind # "claim"
           \/ request'[q].step \notin {"find", "create"}
           \/ /\ Spends(q)
              /\ request'[q].nonce = request[q].nonce
    PROVE  \A p \in Requests : Spends(p)' => Spends(p) /\ request'[p].nonce = request[p].nonce
  BY DEF Spends

LEMMA ClaimNonces ==
    ASSUME IInv, NonceInv, NEW q \in Requests, Claim(q)
    PROVE  NonceInv'
  <1>1. \A p \in Requests \ {q} : request'[p] = request[p]
    BY DEF Claim, StartClaim, Begin, Consume, FindClaimed, CreateClaimUser, AttachClaim,
       InsertClaimed, Backfill, IInv, TypeOK
  <1>2. CASE (\E n \in Nonces, email \in Emails : StartClaim(q, n, email)) \/ AttachClaim(q)
             \/ (\E r \in RowIds : InsertClaimed(q, r)) \/ Backfill(q)
    <2>1. UNCHANGED <<accounts, nonces>>
      BY <1>2 DEF StartClaim, AttachClaim, InsertClaimed, Backfill
    <2>2. request'[q] = None \/ request'[q].step \in {"consume", "backfill"}
      <3>1. ASSUME NEW n \in Nonces, NEW email \in Emails, StartClaim(q, n, email)
            PROVE  request'[q].step = "consume"
        BY <3>1 DEF StartClaim, Begin, IInv, TypeOK
      <3>2. CASE AttachClaim(q)
        BY <3>2, Fields DEF AttachClaim, At, IInv, TypeOK, Request
      <3>3. ASSUME NEW r \in RowIds, InsertClaimed(q, r)
            PROVE  request'[q].step = "backfill"
        <4>1. request'[q] = [[request[q] EXCEPT !.step = "backfill"] EXCEPT !.row = r]
          BY <3>3 DEF InsertClaimed, IInv, TypeOK
        <4>2. request[q] \in Request
          BY <3>3, Fields DEF InsertClaimed, At
        <4> QED
          BY <4>1, <4>2 DEF Request
      <3>4. CASE Backfill(q)
        BY <3>4 DEF Backfill, IInv, TypeOK
      <3> QED
        BY <1>2, <3>1, <3>2, <3>3, <3>4
    <2>3. Quiet
      BY <1>1, <2>1, <2>2, NotSpending DEF Quiet
    <2> QED
      BY <2>3, QuietKeeps
  <1>3. CASE FindClaimed(q)
    <2>1. UNCHANGED <<accounts, nonces>> /\ Spends(q)
      BY <1>3 DEF FindClaimed, At, Spends
    <2>2. request[q] \in Request
      BY <2>1, Fields DEF Spends
    <2>3. request'[q].nonce = request[q].nonce
      <3>1. CASE request' = [request EXCEPT ![q].step = "create"]
        BY <2>2, <3>1 DEF Request, IInv, TypeOK
      <3>2. ASSUME NEW r \in RowsWithWallet(request[q].wallet),
                   request' = [request EXCEPT ![q].step = "create", ![q].row = r]
            PROVE  request'[q].nonce = request[q].nonce
        <4>1. request'[q] = [[request[q] EXCEPT !.step = "create"] EXCEPT !.row = r]
          BY <3>2 DEF IInv, TypeOK
        <4> QED
          BY <2>2, <4>1 DEF Request
      <3> QED
        BY <1>3, <3>1, <3>2 DEF FindClaimed
    <2>4. Quiet
      BY <1>1, <2>1, <2>3, NotSpending DEF Quiet
    <2> QED
      BY <2>4, QuietKeeps
  <1>4. CASE Consume(q)
    <2> DEFINE n == request[q].nonce
    <2>1. /\ request[q] # None /\ request[q].kind = "claim" /\ request[q].step = "consume"
          /\ ~nonces[n].consumed /\ UNCHANGED accounts
      BY <1>4 DEF Consume, At
    <2>2. request[q] \in Request /\ n \in Nonces /\ nonces[n] \in Nonce
      BY <2>1, Fields DEF ClaimOK, IInv, TypeOK
    <2>3. request'[q].nonce = n
      <3>1. request'[q] = [request[q] EXCEPT !.step = "find"]
        BY <1>4 DEF Consume, IInv, TypeOK
      <3> QED
        BY <2>2, <3>1 DEF Request
    <2>4. nonces'[n] # None /\ nonces'[n].consumed
      <3>1. nonces'[n] = [nonces[n] EXCEPT !.consumed = TRUE]
        BY <1>4, <2>2 DEF Consume, IInv, TypeOK
      <3>2. nonces'[n] \in Nonce
        BY <2>2, <3>1 DEF Nonce
      <3>3. nonces'[n].consumed
        BY <2>2, <3>1 DEF Nonce
      <3> QED
        BY <3>2, <3>3, NoneIsNoRecord DEF NoneIsNoRecord
    <2>5. \A m \in Nonces \ {n} : nonces'[m] = nonces[m]
      BY <1>4 DEF Consume, IInv, TypeOK
    <2>6. \A a \in AccountIds : accounts[a] # None => accounts[a].nonce # n
      BY <2>1, <2>2 DEF NonceInv
    <2>7. \A p \in Requests \ {q} : Spends(p) => request[p].nonce # n
      BY <2>1 DEF NonceInv
    <2>8. \A p \in Requests \ {q} : Spends(p)' <=> Spends(p)
      BY <1>1 DEF Spends
    <2>9. \A p \in Requests : Spends(p) => request[p].nonce \in Nonces
      BY NoncesTyped
    <2>10. \A a \in AccountIds : accounts[a] # None => accounts[a].nonce \in Nonces \cup {None}
      BY NoncesTyped
    <2> HIDE DEF n
    <2>11. \A a \in AccountIds :
              accounts'[a] # None /\ accounts'[a].nonce # None =>
                  nonces'[accounts'[a].nonce] # None /\ nonces'[accounts'[a].nonce].consumed
      BY <2>1, <2>4, <2>5, <2>10 DEF NonceInv
    <2>12. \A p \in Requests \ {q} :
              Spends(p)' => /\ nonces'[request'[p].nonce] # None
                            /\ nonces'[request'[p].nonce].consumed
                            /\ \A a \in AccountIds :
                                   accounts'[a] # None => accounts'[a].nonce # request'[p].nonce
      BY <1>1, <2>1, <2>5, <2>7, <2>8, <2>9 DEF NonceInv
    <2>13. \A a \in AccountIds : accounts'[a] # None => accounts'[a].nonce # request'[q].nonce
      BY <2>1, <2>3, <2>6
    <2>14. \A o, p \in Requests :
              Spends(o)' /\ Spends(p)' /\ request'[o].nonce = request'[p].nonce => o = p
      BY <1>1, <2>3, <2>7, <2>8 DEF NonceInv
    <2>15. OneAccountPerNonce'
      BY <2>1 DEF NonceInv, OneAccountPerNonce
    <2> QED
      BY <2>3, <2>4, <2>11, <2>12, <2>13, <2>14, <2>15 DEF NonceInv
  <1>5. ASSUME NEW a \in AccountIds, CreateClaimUser(q, a) PROVE NonceInv'
    <2> DEFINE n == request[q].nonce
    <2>1. /\ Spends(q) /\ UNCHANGED nonces /\ accounts[a] = None
          /\ NewAccount(a, request[q].email, request[q].wallet, n)
      BY <1>5 DEF CreateClaimUser, NewAccount, At, Spends
    <2>2. request[q] \in Request /\ n \in Nonces
      BY <2>1, Fields, NoncesTyped DEF Spends
    <2>3. accounts'[a].nonce = n /\ \A b \in AccountIds \ {a} : accounts'[b] = accounts[b]
      BY <2>1 DEF NewAccount, IInv, TypeOK
    <2>4. request'[q].step = "attach"
      <3>1. request'[q] = [[request[q] EXCEPT !.step = "attach"] EXCEPT !.account = a]
        BY <1>5 DEF CreateClaimUser, IInv, TypeOK
      <3> QED
        BY <2>2, <3>1 DEF Request
    <2>5. ~Spends(q)' /\ \A p \in Requests \ {q} : Spends(p)' <=> Spends(p)
      BY <1>1, <2>4 DEF Spends
    <2>6. /\ nonces[n] # None /\ nonces[n].consumed
          /\ \A b \in AccountIds : accounts[b] # None => accounts[b].nonce # n
          /\ \A p \in Requests \ {q} : Spends(p) => request[p].nonce # n
      BY <2>1 DEF NonceInv
    <2> HIDE DEF n
    <2>7. \A b \in AccountIds :
              accounts'[b] # None /\ accounts'[b].nonce # None =>
                  nonces'[accounts'[b].nonce] # None /\ nonces'[accounts'[b].nonce].consumed
      BY <2>1, <2>3, <2>6 DEF NonceInv
    <2>8. \A p \in Requests :
              Spends(p)' => /\ nonces'[request'[p].nonce] # None
                            /\ nonces'[request'[p].nonce].consumed
                            /\ \A b \in AccountIds :
                                   accounts'[b] # None => accounts'[b].nonce # request'[p].nonce
      BY <1>1, <2>1, <2>3, <2>5, <2>6 DEF NonceInv
    <2>9. \A o, p \in Requests :
              Spends(o)' /\ Spends(p)' /\ request'[o].nonce = request'[p].nonce => o = p
      BY <1>1, <2>5 DEF NonceInv
    <2>10. OneAccountPerNonce'
      BY <2>3, <2>6 DEF NonceInv, OneAccountPerNonce
    <2> QED
      BY <2>7, <2>8, <2>9, <2>10 DEF NonceInv
  <1> QED
    BY <1>2, <1>3, <1>4, <1>5 DEF Claim

LEMMA OthersNonces ==
    ASSUME IInv, NonceInv, NEW q \in Requests, Invite(q) \/ Provision(q) \/ End(q)
    PROVE  NonceInv'
  <1>1. \A p \in Requests \ {q} : request'[p] = request[p]
    BY DEF Invite, StartInvite, Begin, CreateInvited, FindInvited, AttachInvited,
       Provision, StartProvision, FindByEmail, AttachByEmail, End, IInv, TypeOK
  <1>2. UNCHANGED nonces
    BY DEF Invite, StartInvite, CreateInvited, FindInvited, AttachInvited,
       Provision, StartProvision, FindByEmail, AttachByEmail, End
  <1>3. \A a \in AccountIds :
            accounts'[a] # None =>
                \/ accounts[a] # None /\ accounts'[a].nonce = accounts[a].nonce
                \/ accounts'[a].nonce = None
    <2>1. CASE UNCHANGED accounts
      BY <2>1
    <2>2. ASSUME NEW a \in AccountIds, CreateInvited(q, a)
          PROVE  accounts'[a].nonce = None /\ \A b \in AccountIds \ {a} : accounts'[b] = accounts[b]
      BY <2>2 DEF CreateInvited, NewAccount, IInv, TypeOK
    <2> QED
      BY <2>1, <2>2 DEF Invite, StartInvite, FindInvited, AttachInvited,
         Provision, StartProvision, FindByEmail, AttachByEmail, End
  <1>4. request'[q] = None \/ request'[q].kind # "claim"
    <2>1. CASE Invite(q)
      <3>1. ASSUME NEW r \in RowIds, StartInvite(q, r) PROVE request'[q].kind = "invite"
        BY <3>1 DEF StartInvite, Begin, IInv, TypeOK
      <3>2. ASSUME NEW a \in AccountIds, request[q] # None, request[q].kind = "invite",
                   request' = [request EXCEPT ![q].step = "attach", ![q].account = a]
            PROVE  request'[q].kind = "invite"
        <4>1. request'[q] = [[request[q] EXCEPT !.step = "attach"] EXCEPT !.account = a]
          BY <3>2 DEF IInv, TypeOK
        <4>2. request[q] \in Request
          BY <3>2, Fields
        <4> QED
          BY <3>2, <4>1, <4>2 DEF Request
      <3>3. AttachInvited(q) => request'[q] = None
        BY DEF AttachInvited, IInv, TypeOK
      <3>4. \A a \in InvitedAt(q) : a \in AccountIds
        BY DEF InvitedAt, AccountsAt
      <3> QED
        BY <2>1, <3>1, <3>2, <3>3, <3>4 DEF Invite, CreateInvited, FindInvited, At
    <2>2. CASE Provision(q)
      <3>1. ASSUME NEW a \in AccountIds, StartProvision(q, a) PROVE request'[q].kind = "provision"
        BY <3>1 DEF StartProvision, Begin, IInv, TypeOK
      <3>2. ASSUME NEW r \in RowIds, NEW seen, request[q] # None, request[q].kind = "provision",
                   request' = [request EXCEPT ![q].step = "attach", ![q].row = r,
                                              ![q].seen = seen]
            PROVE  request'[q].kind = "provision"
        <4> DEFINE p == [[[request[q] EXCEPT !.step = "attach"] EXCEPT !.row = r]
                            EXCEPT !.seen = seen]
        <4>1. request'[q] = p
          BY <3>2 DEF IInv, TypeOK
        <4>2. request[q] \in Request
          BY <3>2, Fields
        <4>3. p.kind = "provision"
          BY <3>2, <4>2 DEF Request
        <4> QED
          BY <4>1, <4>3
      <3>3. AttachByEmail(q) => request'[q] = None
        BY DEF AttachByEmail, IInv, TypeOK
      <3> QED
        BY <2>2, <3>1, <3>2, <3>3 DEF Provision, FindByEmail, RowsWithEmail, At
    <2>3. CASE End(q)
      BY <2>3 DEF End, IInv, TypeOK
    <2> QED
      BY <2>1, <2>2, <2>3
  <1>5. Quiet
    BY <1>1, <1>2, <1>3, <1>4, NotSpending DEF Quiet
  <1> QED
    BY <1>5, QuietKeeps

LEMMA NextNonceInv == IInv /\ NonceInv /\ [Next]_vars => NonceInv'
  <1> SUFFICES ASSUME IInv, NonceInv, [Next]_vars PROVE NonceInv'
    OBVIOUS
  <1>1. CASE Roster \/ UNCHANGED vars
    <2>1. UNCHANGED <<accounts, nonces, request>>
      BY <1>1 DEF Roster, AddStudent, UpdateStudent, vars
    <2> QED
      BY <2>1, QuietKeeps DEF Quiet, Spends
  <1>2. ASSUME NEW wallet \in Wallets, IssueCredential(wallet) PROVE NonceInv'
    <2>1. UNCHANGED <<accounts, nonces, request>>
      BY <1>2 DEF IssueCredential
    <2> QED
      BY <2>1, QuietKeeps DEF Quiet, Spends
  <1>3. ASSUME NEW wallet \in Wallets, NEW n \in Nonces, IssueNonce(n, wallet) PROVE NonceInv'
    <2>1. UNCHANGED <<accounts, request>>
      BY <1>3 DEF IssueNonce
    <2>2. nonces[n] = None /\ \A m \in Nonces \ {n} : nonces'[m] = nonces[m]
      BY <1>3 DEF IssueNonce, IInv, TypeOK
    <2> QED
      BY <2>1, <2>2, QuietKeeps DEF Quiet, Spends
  <1>4. ASSUME NEW a \in AccountIds,
               \/ RequestErasure(a) \/ ProcessErasure(a)
               \/ DeleteUser(a) \/ ErasureEnds(a)
        PROVE  NonceInv'
    <2>1. UNCHANGED <<nonces, request>>
      BY <1>4 DEF RequestErasure, ProcessErasure, DeleteUser, ErasureEnds
    <2>2. \A b \in AccountIds :
              accounts'[b] # None => accounts[b] # None /\ accounts'[b].nonce = accounts[b].nonce
      <3>1. CASE UNCHANGED accounts
        BY <3>1
      <3>2. CASE DeleteUser(a)
        <4>1. accounts[a] \in Account
          BY <3>2, NamesDistinct DEF DeleteUser, IInv, TypeOK, Erased, NamesDistinct
        <4>2. accounts'[a].nonce = accounts[a].nonce /\ accounts[a] # None
          BY <3>2, <4>1, NoneIsNoRecord DEF DeleteUser, IInv, TypeOK, Account, NoneIsNoRecord
        <4>3. \A b \in AccountIds \ {a} : accounts'[b] = accounts[b]
          BY <3>2 DEF DeleteUser, IInv, TypeOK
        <4> QED
          BY <4>2, <4>3
      <3> QED
        BY <1>4, <3>1, <3>2 DEF RequestErasure, ProcessErasure, ErasureEnds
    <2> QED
      BY <2>1, <2>2, QuietKeeps DEF Quiet, Spends
  <1> QED
    BY <1>1, <1>2, <1>3, <1>4, ClaimNonces, OthersNonces DEF Next, Erase

LEMMA InitNonceInv == Init => NonceInv
  BY DEF Init, NonceInv, Spends, OneAccountPerNonce

(* Claims with one challenge, however many at a time, make one account.     *)
THEOREM OneAccountPerChallenge == Spec => []OneAccountPerNonce
  <1>1. NonceInv => OneAccountPerNonce
    BY DEF NonceInv
  <1> QED
    BY InitIInv, NextIInv, InitNonceInv, NextNonceInv, <1>1, PTL DEF Spec

-----------------------------------------------------------------------------
(* NoneTakenKnowingly.                                                      *)

Taken(r) ==
    /\ Exists(r) /\ rows[r].account # None
    /\ rows'[r].account \notin {None, rows[r].account}

Unknowing(r, q) ==
    /\ request[q] # None
    /\ request'[q] # request[q]
    /\ request[q].row = r
    /\ request[q].seen \in {None, rows'[r].account}

LEMMA ClaimTakes ==
    ASSUME IInv, NEW q \in Requests, Claim(q), NEW r \in RowIds, Taken(r)
    PROVE  Unknowing(r, q)
  <1>1. CASE AttachClaim(q)
    <2>1. request[q] # None /\ request[q].kind = "claim" /\ request[q].step = "attach"
          /\ request[q].row # None
      BY <1>1 DEF AttachClaim, At
    <2>2. request[q] \in Request /\ request[q].row \in RowIds /\ request[q].seen = None
      BY <2>1, Fields DEF ClaimOK
    <2>3. request'[q].step = "backfill"
      BY <1>1, <2>2 DEF AttachClaim, IInv, TypeOK, Request
    <2>4. \A s \in RowIds \ {request[q].row} : rows'[s] = rows[s]
      BY <1>1, <2>2 DEF AttachClaim, IInv, TypeOK
    <2> QED
      BY <2>1, <2>2, <2>3, <2>4 DEF Taken, Unknowing
  <1>2. ASSUME NEW s \in RowIds, InsertClaimed(q, s) PROVE FALSE
    <2>1. ~Exists(s) /\ \A o \in RowIds \ {s} : rows'[o] = rows[o]
      BY <1>2 DEF InsertClaimed, InsertRow, IInv, TypeOK
    <2> QED
      BY <2>1 DEF Taken
  <1>3. CASE UNCHANGED rows
    BY <1>3 DEF Taken
  <1> QED
    BY <1>1, <1>2, <1>3 DEF Claim, StartClaim, Consume, FindClaimed, CreateClaimUser, Backfill

LEMMA AttachTakes ==
    ASSUME IInv, NEW q \in Requests, AttachInvited(q) \/ AttachByEmail(q),
           NEW r \in RowIds, Taken(r)
    PROVE  Unknowing(r, q)
  <1>1. /\ request[q] # None /\ request[q].step = "attach"
        /\ request[q].kind \in {"invite", "provision"}
        /\ rows' = [rows EXCEPT ![request[q].row].account = request[q].account]
        /\ request'[q] = None
    BY DEF AttachInvited, AttachByEmail, At, IInv, TypeOK
  <1>2. /\ request[q].row \in RowIds /\ Exists(request[q].row)
        /\ request[q].seen \in {None, request[q].account}
    BY <1>1, Fields DEF InviteOK, ProvisionOK
  <1>3. \A s \in RowIds \ {request[q].row} : rows'[s] = rows[s]
    BY <1>1, <1>2 DEF IInv, TypeOK
  <1>4. rows'[request[q].row].account = request[q].account
    <2>1. rows[request[q].row] \in Row
      BY <1>2, RowTyped DEF IInv
    <2> QED
      BY <1>1, <1>2, <2>1 DEF IInv, TypeOK, Row
  <1> QED
    BY <1>1, <1>2, <1>3, <1>4 DEF Taken, Unknowing

LEMMA NextTakes ==
    ASSUME IInv, [Next]_vars, NEW r \in RowIds, Taken(r)
    PROVE  \E q \in Requests : Unknowing(r, q)
  <1>1. CASE UNCHANGED rows
    BY <1>1 DEF Taken
  <1>2. CASE Roster
    <2>1. ASSUME NEW s \in RowIds, NEW wallet, NEW email, AddStudent(s, email, wallet)
          PROVE  FALSE
      <3>1. ~Exists(s) /\ \A o \in RowIds \ {s} : rows'[o] = rows[o]
        BY <2>1 DEF AddStudent, InsertRow, IInv, TypeOK
      <3> QED
        BY <3>1 DEF Taken
    <2>2. ASSUME NEW s \in RowIds, NEW wallet, NEW deactivated,
                 UpdateStudent(s, wallet, deactivated)
          PROVE  FALSE
      <3>1. rows[s] \in Row
        BY <2>2, RowTyped DEF UpdateStudent, IInv
      <3>2. \A o \in RowIds \ {s} : rows'[o] = rows[o]
        BY <2>2 DEF UpdateStudent, IInv, TypeOK
      <3>3. rows'[s] = [[rows[s] EXCEPT !.wallet = wallet] EXCEPT !.deactivated = deactivated]
        BY <2>2 DEF UpdateStudent, IInv, TypeOK
      <3>4. rows'[s].account = rows[s].account
        BY <3>1, <3>3 DEF Row
      <3> QED
        BY <3>2, <3>4 DEF Taken
    <2> QED
      BY <1>2, <2>1, <2>2 DEF Roster
  <1>3. CASE Erase
    <2>1. PICK a \in AccountIds : UNCHANGED rows \/ Unlink(a)
      BY <1>3 DEF Erase, RequestErasure, ProcessErasure, DeleteUser, ErasureEnds
    <2> QED
      BY <1>1, <2>1, Unlinked DEF Taken
  <1>4. ASSUME NEW q \in Requests, Claim(q) PROVE Unknowing(r, q)
    BY <1>4, ClaimTakes
  <1>5. ASSUME NEW q \in Requests, Invite(q) \/ Provision(q), rows' # rows
        PROVE  Unknowing(r, q)
    BY <1>5, AttachTakes DEF Invite, StartInvite, CreateInvited, FindInvited,
       Provision, StartProvision, FindByEmail
  <1> QED
    BY <1>1, <1>2, <1>3, <1>4, <1>5 DEF Next, IssueCredential, IssueNonce, End, vars

(* Whoever replaces a link had found the record free or their own.          *)
THEOREM NobodyTakesKnowingly == Spec => NoneTakenKnowingly
  <1>1. IInv /\ [Next]_vars =>
          [\A r \in RowIds :
              /\ Exists(r) /\ rows[r].account # None
              /\ rows'[r].account \notin {None, rows[r].account}
              => \E q \in Requests :
                    /\ request[q] # None
                    /\ request'[q] # request[q]
                    /\ request[q].row = r
                    /\ request[q].seen \in {None, rows'[r].account}]_vars
    BY NextTakes DEF Taken, Unknowing
  <1> QED
    BY InitIInv, NextIInv, <1>1, PTL DEF Spec, NoneTakenKnowingly
=============================================================================
