# Acredia: specifications, model checks and proofs

Acredia issues academic credentials. The record of a credential is an entry of a
Soroban contract on Stellar; a Next.js application with a Supabase (Postgres)
database lets institutions issue and revoke, students show and anybody verify them.
The database is an index of the contract, written by browsers after their
transactions are confirmed and by a background indexer that follows the contract's
events.

This directory holds TLA+ models of the parts of that system in which order, failure
or repetition decides whether it is right, the TLC configurations that check them,
and proofs of what holds for every size.

    tlc -workers 2 -config MCIssuanceIndex.cfg MCIssuanceIndex
    tlapm AcrediaCredential_proofs.tla

## 1. Inventory

| Component | State it keeps | Operations | Talks to |
|---|---|---|---|
| Credential contract, `contracts/src/lib.rs` | owner and proposed owner, authorized issuers and their profiles, credentials by token id, hash index, two counters, pause flag, pending upgrade, storage version | `transfer_owner`, `accept_owner`, `authorize_issuer`, `revoke_issuer`, `set_issuer_profile`, `issue_credential`, `batch_issue_credential`, `revoke_credential`, `admin_revoke_credential`, `pause`, `unpause`, `propose_upgrade`, `cancel_upgrade`, `upgrade`, `migrate`, reads, TTL bumps | emits the events the indexer reads |
| Event indexer, `frontend/scripts/indexer.ts` | the row `main` of `indexer_state` (last ledger done) | one polling loop: range, pages, `processEvent` per event, cursor | RPC of the network; writes credentials and institutions |
| Credential index, table `credentials` (`credentialService.ts`, `batchCredentialService.ts`, `contracts.ts`, `indexerEvent.ts`) | one row per token | issue and save, revoke and save, index an issuance, index a revocation | contract, through transactions that outlive the wait for them |
| Institution verification, table `institutions` (`admin/institutions`, `institution/link-wallet`, `admin/update-authorization`, `adminAuthorizationVerification.ts`, `indexerEvent.ts`) | wallet, verified/status, authorization hash | provision, link a wallet, confirm an authorization, index an authorization or its end | contract; the row policies of `credentials` read it |
| Email queue (`lib/queue.ts`, `next_job`, `scripts/emailWorker.ts`) | table `jobs` | enqueue, claim, process, complete, retry or fail | mail provider |
| Institution membership (`institutionMembers.ts`, `change_institution_member`, `accept-invite`, `poc-handover`) | `institution_users`, `institutions.auth_user_id` | invite, accept, change role, remove, hand over | Supabase auth |
| TTL keeper (`api/cron/ttl-keeper`, `lib/ttlKeeper.ts`) | lock row with a lease, run log with cursor and retry list | claim the lock, plan, check and bump tokens, log, release | contract TTLs |
| Wallet claim and students (`api/claim/*`, `api/institution/students`, `api/student/provision`) | nonces, students, auth users | roster, invite, nonce, verify signature, create account, attach student, link at sign-in | Supabase auth; `credentials.student_id` |
| Account erasure and retention (`api/account/erase`, `process_erasure`, `api/cron/retention`) | students, profiles, requests | anonymise, delete the login, purge | Supabase auth |
| Public verification (`api/verify/[token]`, `api/credentials/share`, `verificationCache.ts`, `onChainStatus.ts`) | cached revocation and authorization flags, cached record, HTTP caches | read chain, read and write cache, answer | contract, Redis |
| Rate limiting (`lib/rateLimit.ts` and the routes that call it) | bucket in Redis, bucket and mode in each server instance | increment, fall back, refuse | Redis |
| Sessions and API keys, wallets and signing, documents and hashing, pages | per request, or in the browser | | |

Hard behaviours, and where they are dealt with:

- A transaction is valid for 300 seconds, the browser waits for 30. A result may
  arrive when nobody waits for it (`IssuanceIndex`).
- Three writers, browser, indexer and admin route, write the same rows from what
  they read some awaits ago (`IssuanceIndex`, `IssuerVerification`).
- The indexer repeats: after any error it starts again from its stored cursor and
  handles events a second time; it also stops for ever at an event it cannot handle
  (`EventIndexer`).
- Workers die between claiming, sending and recording (`EmailQueue`).
- Owners remove and demote each other, invitations are withdrawn while they are
  accepted and mailed while another delivery fails, and an admin's handover writes
  the same rows without a lock (`InstitutionMembers`).
- The platform ends a function at any point, and what it had sent may arrive after
  another one has started (`TtlKeeper`).
- Requests that create accounts and link them read, decide and write in separate
  statements without a transaction (`StudentAccounts`).
- Two layers of caches, filled in the background, stand before a fact that changes
  (`PublicVerification`).
- A counter is shared by all instances as long as Redis answers, and split among
  them when it does not (`RateLimiter`).
- A batch on chain is partly refused row by row (`AcrediaCredential`, `BatchLoop`),
  ownership changes in two steps, upgrades wait for a
  timelock.

What makes each component correct:

- Contract: sequential ids, hash index inverse to the store, nothing taken back,
  only the entitled change anything, pause stops all credential writes, notice
  before an upgrade. Together: an append-only registry to a verifier, and to whoever
  follows its events a chain on which no change goes unannounced.
- Indexer and index: no event skipped, rows never say more than the chain, content
  and revocations are not lost again, everything arrives.
- Institutions: unless an administrator has marked it, an institution is verified only
  while the contract authorizes its wallet or the indexer has yet to read that it no
  longer does; a revoked issuer does not come back by a replay or by relinking;
  authorizations arrive.
- Queue: one holder, at most `max_attempts` tries, no starvation, final is final.
  Together: bounded delivery.
- Membership: an institution keeps an owner and an issuer, who is removed stays out,
  the deprecated login column names nobody who has lost the rights of an owner.
- TTL keeper: one run at a time, every token is bumped before its TTL ends, and
  tokens that always fail do not keep the others from their turn.
- Claim, roster, erasure: a link has its evidence, a challenge makes one account,
  nobody takes a record known to be another's.
- Public verification: an answer is at most so old, and never says "revoked" of what is
  not.
- Rate limiting: no more than the budget, and nobody is shut out for good.

`PROJECT.json` lists the hazards, each at its line of code with the properties that
guard against it, including those no property covers yet.

## 2. Modules

| Module | Models |
|---|---|
| `CredentialRegistry` | the abstract promise to a verifier: a registry keyed by hash that only grows and in which an entry may only become revoked |
| `AcrediaCredential` | `contracts/src/lib.rs`, one action per writing entry point; states that it implements `CredentialRegistry` |
| `BatchLoop` | extends it with the loop of `batch_issue_credential`, a step for each row; states that the loop does what the closed form says |
| `CredentialChain` | the abstract promise to those who follow the events: at most one change in a ledger, and events that say what it was |
| `CredentialAudit` | extends `AcrediaCredential` with who signed the last transaction, when the pending upgrade was announced, and the events published; states that it implements `CredentialChain` |
| `AcrediaCredential_proofs` | theorems on the three |
| `MCAcrediaCredential`, `MCCredentialAudit` | instances: the contract with its loop; the contract with its record |
| `EventIndexer` | the loop of `indexer.ts` without `processEvent` |
| `IssuanceIndex` | extends it: the table `credentials`, issuing and revoking browsers, `indexIssuedCredential`, `indexRevocation`; states that the chain underneath implements `CredentialChain` |
| `IssuerVerification` | extends it: the table `institutions`, its provisioning, `link-wallet`, `update-authorization`, `indexIssuerAuthorization`; states the same of its chain |
| `EventIndexer_proofs` | theorems on `EventIndexer`, `IssuanceIndex` and `IssuerVerification` |
| `MCIssuanceIndex`, `MCIssuerVerification` | instances |
| `BoundedDelivery` | the abstract promise of a queue: tries are bounded, a try delivers at most once, a settled job was tried and is not touched again |
| `EmailQueue`, `EmailQueue_proofs`, `MCEmailQueue` | the queue and its workers, which implement it, theorems, instance |
| `InstitutionMembers`, `InstitutionMembers_proofs`, `MCInstitutionMembers` | the members of one institution, their invitations and the handover, theorems, instance |
| `TtlKeeper`, `TtlKeeper_proofs`, `MCTtlKeeper` | the daily job against the TTLs of the contract's entries, theorems, instance |
| `StudentAccounts`, `StudentAccounts_proofs`, `MCStudentAccounts` | students, accounts and claims, theorems, instance |
| `PublicVerification`, `PublicVerification_proofs`, `MCPublicVerification` | one credential's status through the caches, theorems, instance |
| `RateLimiter`, `RateLimiter_proofs`, `MCRateLimiter` | one budget over all instances, theorems, instance |

A definition whose name extends that of another (`RowErrorStoredOnly` beside
`RowError`, `BeginSyncSkipping` beside `BeginSync`) is a faulty variant: putting it
in the place of the other must make a named property fail, which shows that the
property depends on that line of the code. No specification uses one.

### AcrediaCredential

A variable per `DataKey`. An entry point is an action with the signer as a
parameter; `require_auth` and the error returns are guards, since the host rolls
back a call that fails. `ledger` stands for the sequence number (upgrade timelock)
and the timestamp (expiry) at once: the code never compares the two.
`batch_issue_credential` is stated in closed form (`RowError`, `Accepted`,
`WriteAccepted`), so that everything else can be reasoned about without a loop.
Left out: storage TTLs (no line of the contract reads
one; `TtlKeeper` has them), the wrap-around of the u64 counters, and what new code
installed by `upgrade` would do, which is taken to follow the same rules.

### BatchLoop

`loop` holds the locals of a call of `batch_issue_credential`, and what it has
written, until it returns: the host shows nobody a transaction that is not finished,
and runs no other meanwhile. `BeginBatch` is the checks of the whole call,
`RefuseExpired`, `RefuseDuplicate` and `IssueRow` the three ends of the loop's body,
`ReturnResults` the counters and the answer. `BatchMatchesLoop` says that a call which
returns has made one step of the closed form, and has answered for each row the id it
is stored under or the reason it was refused. Outside a call the contract moves as in
`AcrediaCredential`, so that one run checks both.

### CredentialAudit

`PublishingCall` is every call again with its events, of those the indexer handles.
The ids of `IssuanceEvents` are read off the counter, since that is what a caller of
either entry point can rely on; `AuthorizationEvent` and `DismissalEvent` are empty
where the contract keeps quiet. `ImplementsChain` maps the contract to
`CredentialChain`: what is on the chain is what its followers have been told.

### EventIndexer

`events` is what the network has closed, `lastLedger` the stored cursor, `sync` the
iteration under way. `FirstStart` puts the cursor at the newest ledger without
reading anything, `BeginSync` fixes the range (the `MAX_LEDGER_RANGE` limit),
`FetchPage` reads the next page (`EVENT_BATCH_SIZE`), `processEvent` ends in
`EventDone` or `EventThrown`, `AdvanceCursor` stores the cursor. Ledgers close
between any two of these, and a page may return events past the range, as the RPC
does. `Interrupt` is an RPC error, a database error or a restart. Assumed of the
network: `getEvents` returns all events, in order, however long ago they were (the
real RPC keeps about seven days); one indexer runs; a transaction has a ledger of
its own.

### IssuanceIndex

A session of `issuance` is one form or one chunk of an import, and makes one
transaction. `queued`: sent, and polled for; `abandoned`: sent, no longer polled
for; `landed`: the token ids are known and the rows about to be written. `Land` is
possible in both of the first two states. `SaveRows` is the upsert of the browser,
under the row policies; `LoseRows` everything that prevents it. `revocation` is the
same for a revocation by the institution; `OwnerRevokes` is
`admin_revoke_credential`, which no page calls. A row keeps what the properties tell
apart: whether it names the institution, has its content, is revoked, and by whom.
`ChangeWallet` is the profile's wallet being changed to another and back, which
decides whether the indexer finds an institution for the issuer. The chain is reduced
to its events; `ImplementsChain` says that as far as they go it shows what
`CredentialAudit` shows, both being implementations of `CredentialChain`.

### IssuerVerification

`institutions` has wallet, status (of which `verified` is a copy) and whether an
authorization hash is set, and is a row for each institution there is: at first the
ones that signed up by themselves, without a wallet, as they did before
administrators provisioned them (`SelfSignups`: a migration has suspended them, and an
administrator may have set one back). `Provision` is the insert of the admin's route; its
check for duplicates, some awaits earlier, is implied by the UNIQUE constraint. An
institution may thus get a wallet whose authorization the indexer is past: it stays
pending until `update-authorization` is called, since no event will verify it. That
route is three steps
(`CheckTransaction`, `FindInstitution`, `UpdateInstitution`) with `AbortRequest` for
a failure between them. `link-wallet` compares and then writes: `compared` holds the
pairs of institution and wallet for which some call may have passed the comparison.
The indexer writes every row with the wallet of the event. A second authorization of
an authorized wallet emits nothing, as in the contract
(`VerificationImplementsChain`). Left out: the row policy of
`20260808000000_institution_membership.sql:196-200`, under which the members who may
issue can update their institution's row directly, `verified` and `status` included.
No page of the repository writes those columns that way, and with such writes no
property could relate them to the contract; what is stated here is what the three
writers above do.

### EmailQueue

`next_job` is one atomic statement (`FOR UPDATE SKIP LOCKED`), the provider and the
final update are steps of their own, `Lose` is a worker's death at any of them or an
update whose error the worker does not look at. `tries` and `sent` only count, no
action reads them. The provider may have sent an email and still report a failure.
`ImplementsDelivery` maps pending and processing to one standing, "open": who enqueues
a job cannot tell a retry from a first try.

### InstitutionMembers

One institution. `members` is `institution_users`: UNIQUE gives a user at most one
row, and an invitation whose window has passed has a status of its own, "expired",
which the column does not have. `login` is `institutions.auth_user_id`. `request[r]`
is what one call knows between two awaits: that its caller may manage members
(`Authorize`, never looked at again), that the team was not full (`CountTeam`),
whose membership it is about to reopen, mail, insert, renew or accept. Any two calls
interleave at every await, and each may stop at any (`Abort`). `ChangeMember` is
`change_institution_member`, one atomic step because it locks the rows of the
institution; its guards and its effect on `login` are operators of their own.
`Handover` is the admin's route: five steps, no lock and no guard, of which the last
write may fail without a word. Creating an account creates its profile, by a
trigger, so there is one set `accounts` for both. Taken as one step: the two or
three queries that resolve a caller. Left open: who among the other owners is the
longest-standing. Left out: the recovery link of an admin (which renews windows),
account deletion and erasure, roles of the older vocabulary, a second handover, and
the legacy columns of the first invitation.

### TtlKeeper

`run[r]` is one invocation of the route: `Claim` is `claim_ttl_keeper_lock`, `Plan`
reads the newest row of the run log and plans with `planCredentialSweep`
(`PageStart`, `Page`, `PageNext`, `RetryIds`; `Filtered` is `Array.filter`, and a
`Set` that takes the retries first), `CheckToken` handles one token,
`Record` writes the row, `Release` gives up the lock if it is still the run's own.
`Throw` is an error that ends the run, `RecordFailure` the row it leaves, which has
neither cursor nor list; `Die` is the platform ending the function, after which a
release already sent may still arrive (`LateRelease`). Tokens in `Poison` fail
whenever they are looked at. Time is in minutes while a lease is held and in days
between runs. `ttl` counts days until an entry is archived; `checked` only observes.
Left out: alerts, the balance, the instance entry of the contract, restoring
archived entries, and the manual `action` of the route.

### StudentAccounts

`rows` is `students`, with the UNIQUE constraints on email, wallet and account as
guards; `accounts` is `auth.users`; `nonces` is `wallet_claim_nonces`. A request is
a record of what one call has read, with a step per statement of the handler that
others could come between: the claim has six, the invitation and the link at sign-in
two. `End` stands for a refusal, an error and the end of the process, possible after
every step. Updates go by the id of the row found earlier, as in the code, so that
the row may meanwhile be linked, moved to another wallet, or rid of its account.
`Erase` is the mark, `process_erasure` as one transaction, and the deletion of the
login, which may fail. `held` and the nonce in an account only observe. Left out:
profiles, the status between invited and active, clocks of nonces and links, the
other sources of a wallet link.

### PublicVerification

One credential. Reading a flag from the contract and storing it in Redis are two
steps, the second in the background (`writes`), so that an old answer may overtake a
new one; `edge` is what a shared HTTP cache keeps, served for `EdgeAge`, then while
another is fetched for `EdgeStale`. `Tick` is the clock; it waits for requests and
writes that have reached their limits, which are constants. A request fixes the status
in the step that has the second flag (`StatusAfter`, the end of `readOnChainStatus`)
and answers in a later one, after the labels and the log: an answer may be as late
about an expiry as its request is long. `lastHeld` observes when a flag last had a
value. Left out: API keys and share links beyond their refusal
(`End`), and the comparison of document and hash.

### RateLimiter

One subject and one prefix. `Distributed` is a call Redis answers, `FallBack` one it
does not, which may still have counted, `InMemory` a deployment without Redis. The
two routes that look at the mode before they call the limiter are `GatedRoute`.
Counts are kept up to one past the limit, since no line tells larger ones apart.
`answered` observes when Redis last let requests through, as many as two budgets and
one more, which is what a bound on any stretch of a window speaks of; `lastAdmitted`
when anybody did. The subject's requests that an instance counts alone, without an
answer of Redis, are bounded by the budget of that instance only, and are not among
them.

## 3. Runs

| Run | Configuration | Distinct states | Shows |
|---|---|---|---|
| `contract` | `MCAcrediaCredential.cfg` | 989,760 | ids, hash index, status, containment of a dismissed issuer; the refinement of `CredentialRegistry`; the loop of a batch does what the closed form says |
| `audit` | `MCCredentialAudit.cfg` | 806,337 | every change was the signer's to make; upgrades have had their notice; the refinement of `CredentialChain` |
| `index` | `MCIssuanceIndex.cfg` | 268,844 | no event skipped, truthful rows, traces of revocations, content and revocations kept, arrival; the chain underneath is `CredentialChain` |
| `issuer` | `MCIssuerVerification.cfg` | 684,146 | standing follows the contract, revocation stands, authorizations arrive; the chain underneath is `CredentialChain` |
| `email` | `MCEmailQueue.cfg` | 102,923 | one holder, budget, no starvation, settlement; the refinement of `BoundedDelivery` |
| `members` | `MCInstitutionMembers.cfg` | 667,135 | an owner and an issuer remain, removed members stay out, the login names an owner |
| `verification` | `MCPublicVerification.cfg` | 4,265,569 | how old an answer can be, for both flags and through both caches |
| `limiter` | `MCRateLimiter.cfg` | 457,189 | the budget on the answers of Redis, and that nobody is shut out whatever it does |
| `ttl` | `MCTtlKeeper.cfg` | 184,645 | one run at a time, nothing archived, every token looked at again and again |
| `students` | `MCStudentAccounts.cfg` | 392,510 | links have evidence, one account per challenge, no record taken knowingly |
| `index_revoked`, `limiter_refuses` | the other two | | disagreements, section 5 |

Bounds, and why they are enough:

- `contract`: two accounts that are owner or issuer in any combination, two hashes,
  one expiry date that the clock passes, batches of up to three rows: the least in
  which an expired row, an issued row and a repeat of either meet, and a later batch
  meets stored hashes. There is no code to propose and no profile here: they touch
  nothing the properties of this run speak of. Accounts and hashes are symmetric; no
  property is a liveness property.
- `audit`: two accounts, two codes, two profiles of which one is too long, a
  timelock of one ledger and a clock of two, so that a proposal can mature, be
  replaced, and mature again. One hash is enough, since authority does not depend on
  it; batches of two rows, of which one is a duplicate then, so that a batch publishes
  less than it was asked for, or nothing. A batch that issues several rows does not
  occur here; the theorem `ContractImplementsChain` has it.
- `index`: one session that issues one or two credentials, three ledgers with
  events, one error. Page size 1 and range 1 make every page boundary and range
  boundary occur. Two tokens in one transaction give the batch cases; the second
  session an import would have touches other tokens only.
- `issuer`: two institutions and two wallets (swaps, and the UNIQUE constraint), one
  admin call, three ledgers, one error.
- `email`: three jobs, two workers, the real budget of three attempts, two losses.
- `members`: three users (an owner, a member, and one who is new, invited or handed
  the institution) and two requests at a time, which is what every race here takes:
  each property relates one request to one other, or to the handover. The limit of
  the team is two, so that it is reached, and passed by two invitations at once.
  Users are symmetric, and so are requests; every property is a safety property.
- `verification`: one request at a time but two writes in the background, so that an
  old write overtakes a new one; each duration one or zero time units and a clock of
  six, long enough for the longest chain of delays (request, cache, request, edge,
  stale edge). The theorems cover any number of requests and any durations.
- `limiter`: two instances, a budget of two per window of two, and a clock of six:
  two windows meet, each with its whole budget, and a bucket outlives an outage.
- `ttl`: two runs (one that works, and one that has ended or waits), three tokens of
  which one always fails, pages of two with one retry, so that the page wraps around
  and the retry takes a place in it; two faults. The lease is a minute longer than a
  run, as in the code. The threshold is nine days against a full TTL of ten: see
  section 4 (`RoomForSweeps`) for why the room between threshold and zero matters;
  nine is three sweeps of three days, the least the theorem admits.
- `students`: two rows, two accounts, two addresses, one wallet, two challenges, two
  requests at once and eight calls in all, in which each race of two requests,
  followed by an erasure, fits.

CHECK_DEADLOCK is off where the system may rest: all jobs settled, the bounded
ledgers, calls or time used up, or nobody left who may invite. `MaxLedger`,
`MaxErrors`, `MaxLosses`, `MaxFaults`, `MaxTotal`, `MaxCalls`, `MaxTime`,
`MaxWrites` and `MaxRows` are the bounds that are not in the code.

Fairness: the loop of the indexer (`while (true)`, every error caught) and the loop
of each worker are weakly fair, taken as a whole, so that no choice inside is
forced. Nothing else is: a browser need not finish, an admin need not call a route,
a ledger need not close. `Interrupt` and `Lose` are bounded, that is, errors are
assumed to stop; without that no loop makes progress. For the TTL keeper the
scheduler of `vercel.json` starts a run every day, a run that is not ended goes on,
what has been sent arrives, and time passes; faults (an error, an ended function, a
day without a run) are bounded in the same way.

Two conditions in the liveness properties are limits of the code. `Stuck`: a
revocation of a credential that has no row, issued before the indexer's first start,
makes every sync throw, and the cursor never gets past it; the events of everybody
wait behind it. `Orphaned`: a job whose worker died stays `processing`, and no
statement ever looks at it again. The hazards behind the two are in the code, and no
property of this project would fail for them; the same is true of a credential issued
before the indexer's first start, of a late call of `update-authorization`, of a
handover that stops half-way, and of a student record that is taken between the two
steps of a claim. Each is in a model, excused by name in the property next to it, and
marked so in the list of hazards.

## 4. Proofs

`AcrediaCredential_proofs`, for all accounts, hashes, profiles, batch sizes,
timelocks and clocks, from `ConstantsOK`:

- `TypeCorrect`, `TokenIdsCorrect`, `HashIndexCorrect`: the inductive invariant is
  `TypeOK /\ SequentialTokenIds /\ HashIndexConsistent`. None of the three is
  inductive alone: that the new id is free needs the ids to be sequential, and that
  the index stays inverse needs the new id to be free and the refused hash to be
  absent. Only issuing and batch issuing take an argument; the batch case rests on
  lemmas that accepted rows have distinct hashes, that none is stored already, and
  that the acceptance order is a bijection to the new ids.
- `CredentialsArePermanent`, `PauseIsComplete`, `IssuedByAuthorized`,
  `StatusIsMonotone`: action properties, from the same invariant.
- `ChangesAreAuthorized`, `UpgradesAreAnnounced`, of `CredentialAudit`. The first
  follows from the actions one by one, each of which is guarded by the account it is
  for; its proof says which guard protects which record. The second needs an
  invariant: a pending upgrade has been announced, and its `ready_ledger` is no
  earlier than the announcement and the timelock together. Proposing anew moves both,
  proposing the same code again moves neither back, cancelling and applying leave
  nothing pending, and no change of owner or pause touches either.
- `ContractImplementsRegistry`: the refinement. Issuing and batches map to `Anchor`,
  both revocations to `Revoke`, every other entry point and the clock to a stutter;
  that a revocation changes one entry only is `HashIndexConsistent`.
- `ContractImplementsChain`, of `CredentialAudit`: issuing and batches map to `Issue`,
  or to `Silence` where no row is accepted, revocations to `Revoke`, `authorize_issuer`
  and `revoke_issuer` to `Authorize` and `Dismiss` or, repeated, to `Silence`; all else
  is silent. That the ids announced are the ids stored is `SequentialTokenIds`.
- `BatchIsItsLoop`, `LoopImplementsContract`, of `BatchLoop`: for batches of any size,
  the loop does what the closed form says, so that the theorems above hold of it too.
  The invariant, `LoopInv`, describes a call that has come to some row: the rows issued
  so far are those the closed form accepts, in order (`Progress`); stored, indexed and
  answered is what they call for (`Stored`, `Indexed`, `Answers`). The two do not ask
  the same question of a row (`RowVerdict`): the closed form looks for an earlier row
  with the hash and a valid expiry, the loop among the hashes it has issued. That they
  agree takes the last conjunct of `Progress`: each earlier row with a valid expiry has
  a hash that is stored or was issued in this call. Since the loop is a sequence of
  steps here, the induction over the rows is the one over steps of the specification.
- `ContainmentIsLasting`: an action property again. A step that could break it adds a
  credential in the name of the dismissed issuer, and what issues takes the name of an
  account that is authorized in that state.

`EmailQueue_proofs`, for any number of jobs, workers, attempts and losses, from
`QueueConstantsOK`: `QueueTyped`, `ClaimsAreExclusive`, `RetriesAreBounded`,
`NoJobStarves`, `SettledForGood`, `QueueImplementsDelivery`. The invariant adds to the checked ones that a job
is enqueued with its whole budget, that a holder knows the attempt count of its job,
that tries never exceed the attempts counted, and that a job being sent has fewer
emails than tries. The last two are why double counting is safe, though wasteful.
The refinement adds that a job somebody holds was tried (`HeldIsTried`), without which
a job could be settled that no worker ever had.

`InstitutionMembers_proofs`, for any number of users, requests and members, from
`MembersConstantsOK`: `TypeCorrect`, `LoginNamesOwner`, `OwnerIsKept`,
`IssuerIsKept`, `RemovedMemberStaysOut`. The last three are step properties: the
guarded function counts the others itself, and no other step takes an active member
away or makes a deactivated one active, save the handover. `LoginIsOwner` is not
inductive: a failed delivery may close a membership, and an insert may give the user
of the login a lesser role. The invariant therefore says that no delivery is under
way to the first owner while it is invited, that no insert is under way for one
without a membership, since it has an account, and that between the last two writes
of a handover the login is the new owner's or already another owner's.

`TtlKeeper_proofs`, for any runs, pages, tokens and faults, from `KeeperConstantsOK`,
`NoneIsNoValue`, `LeaseOutlivesRuns` and `RoomForSweeps`: `KeeperTyped`,
`OnlyOneKeeper`, `NoTokenArchived`. The invariant of the second says that a run under
way holds the lock, and that the lease is as much shorter as the run is old; with a
lease no longer than the limit of a run, the next one could claim the lock then. That
a release still to arrive cannot free the lock of the run after it needs that run ids
are not used again, and that a release asks whose the lock is. The third rests on the
first two. Its invariant, `SweepInv`, gives every token that can be bumped a number
of days: those its entry has left, less the days of a whole sweep for every fault
still to come, less one when today's sweep is recorded. In so many pages the cursor
reaches it (`InTime`). During a run each such token has been found fresh, or is still
in the list, or will be nearer to the cursor by a page (`Covers`); before a cursor is
lost, every token has the days of a sweep (`SweepOf`, stage `fail`). That the page goes
round (`PageAdvances`), that nothing of it is dropped between retries and page
(`TokenIdsCover`), and that retries leave `PAGE_SIZE - MAX_RETRIES` places are lemmas.
`RoomForSweeps` is what the numbers must be: the threshold of about 180 days covers
`MaxFaults + 1` sweeps, each of as many days as there are pages of 40 (50 less ten
retries). The route's own warning, `capacityExceeded`, comes when a sweep takes more
than 90 days. A keeper that always has ten tokens to retry and does not warn is
therefore proved to survive one fault, and not two. A day without a run is one. A run
that throws is two, unless somebody starts another the same day: the scheduler starts
none before the next, so that the day goes by without a sweep as well. Two faults are
covered when a sweep takes no more than 60 days; between 60 and 90 days the warning is
silent and a thrown run is more than the proof allows for.

`StudentAccounts_proofs`, for any number of everything, from `StudentConstantsOK`,
`NamesDistinct` and `NoneIsNoRecord`: `StudentsTyped`, `LinksHaveEvidence`,
`OneAccountPerChallenge`, `NobodyTakesKnowingly`. `LinkEvidence` is not inductive,
since a link is written long after it was decided: the invariant adds that every
request's row existed and had the address or the wallet of the request, that its
account is the one it was given, and that what is linked is alive because deletion
unlinks first. For `OneAccountPerNonce` it adds that a consumed challenge has one
claim that may still make an account, or one account, or neither.

`PublicVerification_proofs`, for any number of requests and writes, any durations
and either flag, from `VerificationConstantsOK`: `VerificationTyped`,
`StatusWithinWindow`, `AuthorizationWithinWindow`. The invariant bounds the age of a
flag wherever it is: read by a request, on its way to the cache, in the cache, in
the request that found it there, at the edge. `StatusesKnown` says of a request that
has only to answer that its status was right at some time since it began, which is
the most the handler can promise.

`RateLimiter_proofs`, for any instances, budget and window, from
`LimiterConstantsOK`: `LimiterTyped`, `BudgetHolds`, `NobodyLockedOut`. For the
budget the invariant relates the times in `answered` to the bucket in Redis: the
requests of the open window are no more than its count and than the budget, and from
any request of an earlier window the one a whole budget before it is more than a
window before the open one. Hence two budgets back are a window back, wherever in the
windows the count begins. For the lockout it says of every bucket that counts that
somebody was let through when it was opened, or, for the shared one, less than a
window before: its opener may have got no answer and been refused by its instance's
own bucket.

`EventIndexer_proofs`, for any number of sessions, rows, pages, errors and
restarts, from `IndexerConstantsOK` and `IssuanceConstantsOK`: `IndexTyped`,
`CursorCoversRowsHolds`, `RowsTruthfulHolds`, `RevocationTracedHolds`,
`ContentKeptHolds`, `RevocationKeptHolds`. The invariant has three parts beside the
checked ones. `CursorInv` is about the iteration under way: every event before
`sync.next` has left its row, `highest` is no newer than the newest ledger, and once
an empty page has ended the reading, what is unread is newer than `highest`. That is
why storing `highest` skips nothing although pages run past the range and ledgers
close meanwhile. `BrowserInv`: the tokens a browser is about to save are issued, are
nobody else's, and their rows have no content yet, so its late write is the only one
that can take a revocation back. `CountInv`: a session issues once, so that the ids
stay below sessions times rows. `IndexFollowsChain` is the refinement of
`CredentialChain`; a revocation under way must be of a token that was issued
(`QueuedIssued`), since it lands without asking again.

The same module, for any number of institutions, wallets and requests, from
`IndexerConstantsOK` and `VerificationConstantsOK`: `VerificationTypeCorrect`,
`VerifiedOnEvidence`, `RevocationsStand`. Here the indexer writes standings and not
rows of tokens, so that a replay repeats what has been overtaken since. Its invariant
adds `Standing`, which is `RevocationStands` for every event the loop is past, also
those of the iteration under way (`Past`) that the stored cursor does not cover yet.
`LoopInv` says of the iteration that it is past nothing it has still to read; so when
it handles an authorization which a revocation has overtaken, it is not past that
revocation, and handles it later. A wallet that is linked anew has its institution
pending, whatever the loop is past.

`VerificationFollowsChain` is the refinement of `CredentialChain` again.
`InstitutionsFollowContract` says of the standing itself what `RevocationStands` says
of a revocation. `StandingFollowsContract` is not inductive: a replay verifies an
institution by an event the contract has long overtaken. `StandingInv` adds that
ledgers are ordered (`InOrder`), that the last event about a wallet is what the
contract has of it (`LastWord`), and that the wallet of whoever is verified without
the mark has an authorization among the events the indexer has to read
(`VerifiedByReading`). If the contract does not authorize the wallet, its last event
is a revocation after that one; were the indexer past it, `RevocationStands` would
have the mark; so it is still to be read.

`IndexCursorAdvances` and `VerificationCursorAdvances`: the stored cursor never goes
back, and an iteration that stores it without an error stores a later one. This is the
part of `EventuallyIndexed` and `AuthorizationArrives` that is a step property, and no
matter of fairness. `CursorOrder` is its invariant: an iteration under way will store
a ledger later than the cursor, since none is begun before a ledger has closed after
it, and pages only raise `highest`.

Proved and in no run, since a stronger property is: `CredentialsPermanent` (beside
`ImplementsRegistry`), `SettledIsFinal` (beside `ImplementsDelivery`),
`VerifiedHasEvidence` (beside `StandingFollowsContract`). Proved and in no run, for
their own sake: `PauseFreezesCredentials`, `IssuedByAuthorizedIssuer`,
`CursorAdvances`, and the type invariants.

Only model-checked: everything with fairness (`EventuallyIndexed`,
`RevocationEventuallyShown`, `AuthorizationArrives`, `EveryJobSettles`,
`EverySwept`), which the prover does not treat. What can be proved of them without is
`CursorAdvances`.

## 5. Where code and documentation disagree

Shown by a run:

- `index_revoked`: architecture.md says a revocation shows everywhere once indexed;
  the issuing browser's save, if it comes after, writes `revoked: false` over it.
  `revocation_source` keeps the trace (`RevocationTraced`).
- `limiter_refuses`: an instance reports "in-memory-unconfigured" until a call of
  the limiter has reached Redis, and two routes refuse in that mode before they call
  it.

Met while modelling, and visible in the models, with no run of their own:

- architecture.md says only the issuing address can revoke; the owner can too
  (`AdminRevokeCredential`).
- An email job counts as exhausted after two of three attempts, since `next_job` and
  the worker both add one (`EmailQueue`).
- A call of `update-authorization` that checked the chain before the issuer was
  revoked marks the institution verified after the indexer has suspended it
  (`UpdateInstitution`); incident-response.md relies on the suspension.
- The message of a failed invitation says nothing was lost; the failure closes the
  membership it had reopened, also when another owner has resent that invitation
  meanwhile and the email is out (`DeliveryFails`).
- Two challenges of one wallet can both create an account, and the second replaces
  the link of the first (`AttachClaim`): a challenge makes one account, a wallet
  need not. A claim that ends after `CreateClaimUser` leaves an account that holds
  the email, so that the claim cannot be made again with it. So does one whose lookup
  of the student fails, since the error is taken for "no such student" (`FindClaimed`):
  the account is made, and whether it can be attached is found out afterwards.
- `provision` says that it never adopts a row of another account. It looks and then
  updates by id, so it may replace a link made in between. What holds is
  `NoneTakenKnowingly`.
- An erased account whose `deleteUser` fails is told it has been erased; it can sign
  in, and be linked again by its address (`StartProvision`).
- A claim reactivates a student the institution has deactivated (`AttachClaim`).
- A credential whose student was looked up before the claim has no student
  afterwards: `Backfill` runs once, and the late save writes nothing into it
  (`IssueCredential`).
- The room below the threshold of the keeper must cover about one rotation through
  all tokens more than there are lost cursors, since a failed run leaves a row
  without a cursor and the next one starts at token 1 (`RecordFailure`, `Cursor`).
  With 180 days and a rotation of 90 (4,500 credentials in pages of 50), one such run
  leaves no days over, its own day being lost as well, and a second in the same
  rotation is not covered.
- A revocation is said to reach verifiers "within ~45 s" (incident-response.md:109 and
  287, the tabletop exercise 2026-10-17-fraudulent-issuer-tabletop.md:74), and a
  comment of the verify route (270-274) that it propagates to all cached copies within
  the documented window. 45 seconds is the life of one copy in Redis. What
  `StatusInWindow` bounds, and what happens in the model, adds up: a request that read
  the flag just before, the write of it (up to 3 seconds, the timeout in
  verificationCache.ts:72), the 45 seconds, and a request that found it there; and 75
  more at a shared HTTP cache, 45 while the copy is fresh and 30 while another is
  fetched.
- poc-handover.md:73 says the handover is done "atomically"; it is five writes, and one
  that stops half-way leaves an institution without an owner (`HandoverFails`).

## 6. Plan

Done: contract and registry; indexer, credential index, institution verification;
email queue; membership; TTL keeper; students, claims and erasure; public
verification; rate limiting. Proofs for all of them. The contract's events and what the
indexer is modelled to follow are tied by one abstract chain, `CredentialChain`.

Left, in this order:

1. A retry that issues a second credential for one achievement, which needs an
   identity of achievements that the code does not have.
2. Account deletion in `InstitutionMembers`, which clears the login by a foreign key
   and deactivates memberships; the limit of the team, which does not hold and of
   which only a weaker bound could be stated.
3. The wallet session in the browser (`StellarContext`, the adapters).

## 7. Not modelled

- Sessions, roles and API keys: checks of one request against rows no modelled
  action writes. Where such a check guards a modelled action it is a guard there.
- Writes a row policy allows and no code makes, such as a member's direct update of its
  institution's row (section 2, `IssuerVerification`).
- Wallets and signing: adapters around extensions; a transaction is sent or is not,
  which `IssuanceIndex` leaves open. Signatures are cryptography.
- Documents and hashing: formats, canonical JSON, CSV parsing and uploads are
  functions of one input without control a property could be about.
- User interface: pages, forms and presentation, the larger part of the lines of the
  repository. Those of its handlers that write to the chain or the database are in
  the models of what they write.
- Profiles and the invited/active status; retention purges, which delete rows by age
  that nothing else reads; the continuity report and the admin's recovery link.
- Taken as the code intends: the REST interface of Redis (that `SET` with an expiry
  and the pipeline of INCR and EXPIRE NX do what their callers assume), that a
  function may finish background writes within `WriteTime` of its answer, and that
  `getEvents` keeps events for ever.
