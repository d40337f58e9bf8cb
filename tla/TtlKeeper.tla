------------------------------ MODULE TtlKeeper ------------------------------
(***************************************************************************)
(* The daily job that keeps the credentials of the contract from being     *)
(* archived: frontend/src/app/api/cron/ttl-keeper/route.ts, the page it    *)
(* plans (lib/ttlKeeper.ts), the lock and the run log of                   *)
(* 20261002000000_ttl_keeper_run_log.sql, against the storage TTLs of      *)
(* contracts/src/lib.rs.                                                   *)
(*                                                                         *)
(* Two clocks run: minutes, while a run or a lease is about, and days,     *)
(* which only pass between runs.  Both are kept as what is left of them,   *)
(* so that the model has no horizon.                                       *)
(***************************************************************************)
EXTENDS Integers, Sequences, FiniteSets

CONSTANTS
    Runs,               \* invocations of the route that may overlap
    Poison,             \* tokens whose reads and bumps fail, every time
    PAGE_SIZE,          \* KEEPER_PAGE_SIZE, 50
    MAX_RETRIES,        \* failed tokens tried again first, 10
    LEASE,              \* minutes of the lock, 6
    MAX_DURATION,       \* minutes until the platform ends a run, 5
    THRESHOLD,          \* TTL_THRESHOLD_LEDGERS, in days (about 180)
    BUMP_AMOUNT,        \* PERSISTENT_BUMP_AMOUNT, in days (about 365)
    MaxTotal,           \* bound on the credentials issued
    MaxFaults,          \* bound on what goes wrong
    None

Tokens == 1..MaxTotal

ASSUME KeeperConstantsOK ==
    /\ MaxTotal \in Nat
    /\ Poison \subseteq Tokens
    /\ MAX_RETRIES \in Nat
    /\ PAGE_SIZE \in Nat /\ PAGE_SIZE > MAX_RETRIES
    /\ MAX_DURATION \in Nat /\ LEASE \in Nat
    /\ THRESHOLD \in Nat /\ BUMP_AMOUNT \in Nat /\ THRESHOLD < BUMP_AMOUNT
    /\ MaxFaults \in Nat
    /\ None \notin Runs

(* Six minutes against a maxDuration of five.                               *)
ASSUME LeaseOutlivesRuns == LEASE > MAX_DURATION

(* A run comes to at least PAGE_SIZE - MAX_RETRIES tokens of its page, and  *)
(* the threshold leaves the days of a sweep through all tokens, once for    *)
(* itself and once for each fault.                                          *)
ASSUME RoomForSweeps ==
    \E days \in 0..THRESHOLD :
        /\ MaxTotal <= days * (PAGE_SIZE - MAX_RETRIES)
        /\ (MaxFaults + 1) * days <= THRESHOLD

(* null is neither a token nor a row of the log.                            *)
ASSUME NoneIsNoValue ==
    None \notin Nat \cup [nextTokenId : Nat \cup {None}, failedTokenIds : Seq(Tokens)]

VARIABLES
    total,          \* total_credentials of the contract
    ttl,            \* days until the entry of each token is archived
    holder,         \* owner_run_id
    lease,          \* minutes until locked_until
    log,            \* the newest row of cron_run_log, None before the first
    run,            \* the runs under way
    late,           \* releases sent by runs that have ended, still to arrive
    sweptToday,     \* whether a run has recorded its sweep since the day began
    faults,         \* what may still go wrong
    checked         \* the token the last step looked at (observation)

chainVars == <<total, ttl>>
lockVars == <<holder, lease>>
vars == <<chainVars, lockVars, log, run, late, sweptToday, faults, checked>>

(* A row of the log.  A failed run leaves no cursor and no list in it.      *)
Row == [nextTokenId : Nat \cup {None}, failedTokenIds : Seq(Tokens)]

Running == [stage : {"plan", "tokens", "record", "fail", "release"}, age : 0..MAX_DURATION,
            todo : Seq(Tokens), failed : Seq(Tokens), nextTokenId : Nat]

Active == {r \in Runs : run[r] # None}

At(r, stage) == run[r] # None /\ run[r].stage = stage

Init ==
    /\ total \in 0..MaxTotal
    /\ ttl = [t \in Tokens |-> BUMP_AMOUNT]
    /\ holder = None
    /\ lease = 0
    /\ log = None
    /\ run = [r \in Runs |-> None]
    /\ late = {}
    /\ sweptToday = FALSE
    /\ faults = MaxFaults
    /\ checked = None

-----------------------------------------------------------------------------
(* planCredentialSweep.                                                     *)

SmallerOf(a, b) == IF a < b THEN a ELSE b

LargerOf(a, b) == IF a > b THEN a ELSE b

(* The page starts at the cursor and wraps around.                          *)
PageStart(cursor) == SmallerOf(LargerOf(cursor, 1), total)

PageLength(size) == SmallerOf(total, size)

Page(cursor, size) ==
    [i \in 1..PageLength(size) |-> ((PageStart(cursor) - 1 + i - 1) % total) + 1]

PageNextStuck(cursor, size) == IF total = 0 THEN 1 ELSE PageStart(cursor)

PageNext(cursor, size) ==
    IF total = 0 THEN 1 ELSE ((PageStart(cursor) - 1 + PageLength(size)) % total) + 1

(* What the next run takes from the newest row.                             *)
Cursor == IF log = None \/ log.nextTokenId = None THEN 1 ELSE log.nextTokenId

FailedTokenIds == IF log = None THEN <<>> ELSE log.failedTokenIds

(* The one list that has what is at these positions of another, in order.   *)
Filtered(list, positions) ==
    {[k \in DOMAIN order |-> list[order[k]]] :
        order \in {o \in UNION {[1..n -> positions] : n \in 0..Len(list)} :
                       /\ \A j, k \in DOMAIN o : j < k => o[j] < o[k]
                       /\ {o[k] : k \in DOMAIN o} = positions}}

(* What failed in the last run, as far as the contract has it, but no more  *)
(* than MAX_RETRIES.                                                        *)
RetryIds ==
    {SubSeq(failed, 1, SmallerOf(Len(failed), MAX_RETRIES)) :
        failed \in Filtered(FailedTokenIds,
                      {i \in DOMAIN FailedTokenIds : FailedTokenIds[i] <= total})}

(* The retries first, then what of the page is not among them.              *)
TokenIds(retries, page) ==
    {retries \o rest :
        rest \in Filtered(page,
                    {i \in DOMAIN page : \A j \in DOMAIN retries : retries[j] # page[i]})}

-----------------------------------------------------------------------------
(* A run.                                                                   *)

Fault == faults > 0 /\ faults' = faults - 1

(* claim_ttl_keeper_lock; a run that does not get the lock answers 409.     *)
Claim(r) ==
    /\ run[r] = None
    /\ r \notin late
    /\ lease = 0
    /\ holder' = r
    /\ lease' = LEASE
    /\ run' = [run EXCEPT ![r] = [stage |-> "plan", age |-> 0, todo |-> <<>>,
                                  failed |-> <<>>, nextTokenId |-> 1]]
    /\ checked' = None
    /\ UNCHANGED <<chainVars, log, late, sweptToday, faults>>

Plan(r) ==
    /\ At(r, "plan")
    /\ \E retries \in RetryIds :
          LET size == PAGE_SIZE - Len(retries)
          IN  \E tokenIds \in TokenIds(retries, Page(Cursor, size)) :
                 run' = [run EXCEPT ![r] = [stage |-> "tokens", age |-> @.age,
                                            todo |-> tokenIds, failed |-> <<>>,
                                            nextTokenId |-> PageNext(Cursor, size)]]
    /\ checked' = None
    /\ UNCHANGED <<chainVars, lockVars, log, late, sweptToday, faults>>

DueLate(t) == 2 * ttl[t] <= THRESHOLD

Due(t) == ttl[t] <= THRESHOLD

(* bump_credential extends an entry below the threshold to the full amount; *)
(* an archived one it does not find.                                        *)
Extend(t) == ttl' = [ttl EXCEPT ![t] = BUMP_AMOUNT]

TokenDone(r, failed) ==
    /\ run' = [run EXCEPT ![r].todo = Tail(@), ![r].failed = failed]
    /\ checked' = Head(run[r].todo)
    /\ UNCHANGED <<total, lockVars, log, late, sweptToday>>

CheckToken(r) ==
    /\ At(r, "tokens")
    /\ run[r].todo # <<>>
    /\ LET t == Head(run[r].todo)
           failed == Append(run[r].failed, t)
       IN  \/ /\ t \notin Poison /\ ttl[t] > 0 /\ ~Due(t)
              /\ UNCHANGED <<ttl, faults>>
              /\ TokenDone(r, run[r].failed)
           \/ /\ t \notin Poison /\ ttl[t] > 0 /\ Due(t)
              /\ Extend(t)
              /\ UNCHANGED faults
              /\ TokenDone(r, run[r].failed)
           \/ /\ t \in Poison \/ ttl[t] = 0
              /\ UNCHANGED <<ttl, faults>>
              /\ TokenDone(r, failed)
           \/ /\ t \notin Poison /\ ttl[t] > 0
              /\ Fault     \* the read or the bump fails, or its confirmation is late
              /\ UNCHANGED ttl \/ (Due(t) /\ Extend(t))
              /\ TokenDone(r, failed)

TokensDone(r) ==
    /\ At(r, "tokens")
    /\ run[r].todo = <<>>
    /\ run' = [run EXCEPT ![r].stage = "record"]
    /\ checked' = None
    /\ UNCHANGED <<chainVars, lockVars, log, late, sweptToday, faults>>

Record(r) ==
    /\ At(r, "record")
    /\ log' = [nextTokenId |-> run[r].nextTokenId, failedTokenIds |-> run[r].failed]
    /\ sweptToday' = TRUE
    /\ run' = [run EXCEPT ![r].stage = "release"]
    /\ checked' = None
    /\ UNCHANGED <<chainVars, lockVars, late, faults>>

(* Configuration, balance, cursor, total, count, ledger or the insert of    *)
(* the row: an error ends the run.                                          *)
Throw(r) ==
    /\ run[r] # None
    /\ run[r].stage \in {"plan", "record"}
    /\ Fault
    /\ run' = [run EXCEPT ![r].stage = "fail"]
    /\ checked' = None
    /\ UNCHANGED <<chainVars, lockVars, log, late, sweptToday>>

(* The row of a failed run is stored, or is not either.                     *)
RecordFailure(r) ==
    /\ At(r, "fail")
    /\ \/ log' = [nextTokenId |-> None, failedTokenIds |-> <<>>] /\ UNCHANGED faults
       \/ UNCHANGED log /\ Fault
    /\ run' = [run EXCEPT ![r].stage = "release"]
    /\ checked' = None
    /\ UNCHANGED <<chainVars, lockVars, late, sweptToday>>

ReleasesAnyones(r) == holder' = None /\ lease' = 0

(* release_ttl_keeper_lock: a no-op unless the lock is the run's own.       *)
Releases(r) ==
    IF holder = r THEN holder' = None /\ lease' = 0 ELSE UNCHANGED lockVars

Release(r) ==
    /\ At(r, "release")
    /\ Releases(r)
    /\ run' = [run EXCEPT ![r] = None]
    /\ checked' = None
    /\ UNCHANGED <<chainVars, log, late, sweptToday, faults>>

(* The platform ends a run, at its time limit or before.  A release it has  *)
(* sent may still arrive.                                                   *)
Die(r) ==
    /\ run[r] # None
    /\ Fault
    /\ run' = [run EXCEPT ![r] = None]
    /\ late' \in {late, late \cup IF run[r].stage = "release" THEN {r} ELSE {}}
    /\ checked' = None
    /\ UNCHANGED <<chainVars, lockVars, log, sweptToday>>

LateRelease(r) ==
    /\ r \in late
    /\ Releases(r)
    /\ late' = late \ {r}
    /\ checked' = None
    /\ UNCHANGED <<chainVars, log, run, sweptToday, faults>>

Work(r) ==
    \/ Plan(r) \/ CheckToken(r) \/ TokensDone(r) \/ Record(r)
    \/ RecordFailure(r) \/ Release(r)

-----------------------------------------------------------------------------
(* Time, and the contract.                                                  *)

(* A run that has reached its limit gets no further minute.                 *)
Minute ==
    /\ lease > 0
    /\ \A r \in Active : run[r].age < MAX_DURATION
    /\ lease' = lease - 1
    /\ run' = [r \in Runs |-> IF run[r] = None THEN None ELSE [run[r] EXCEPT !.age = @ + 1]]
    /\ checked' = None
    /\ UNCHANGED <<chainVars, holder, log, late, sweptToday, faults>>

(* A day without a finished sweep is one of the faults.                     *)
Day ==
    /\ Active = {} /\ lease = 0 /\ late = {}
    /\ IF sweptToday THEN UNCHANGED faults ELSE Fault
    /\ ttl' = [t \in Tokens |-> IF t <= total /\ ttl[t] > 0 THEN ttl[t] - 1 ELSE ttl[t]]
    /\ sweptToday' = FALSE
    /\ checked' = None
    /\ UNCHANGED <<total, lockVars, log, run, late>>

(* Issuing writes the entry with its full TTL.                              *)
Issue ==
    /\ total < MaxTotal
    /\ total' = total + 1
    /\ ttl' = [ttl EXCEPT ![total + 1] = BUMP_AMOUNT]
    /\ checked' = None
    /\ UNCHANGED <<lockVars, log, run, late, sweptToday, faults>>

Next ==
    \/ \E r \in Runs : Claim(r) \/ Work(r) \/ Throw(r) \/ Die(r) \/ LateRelease(r)
    \/ Minute \/ Day \/ Issue

Spec == Init /\ [][Next]_vars

(* The scheduler starts a run every day and a run goes on.                  *)
Fairness ==
    /\ WF_vars(\E r \in Runs : ~sweptToday /\ Claim(r))
    /\ \A r \in Runs : WF_vars(Work(r)) /\ WF_vars(LateRelease(r))
    /\ WF_vars(Minute)
    /\ WF_vars(Day)

FairSpec == Spec /\ Fairness
-----------------------------------------------------------------------------
(* Types.                                                                   *)
TypeOK ==
    /\ total \in 0..MaxTotal
    /\ ttl \in [Tokens -> 0..BUMP_AMOUNT]
    /\ holder \in Runs \cup {None}
    /\ lease \in 0..LEASE
    /\ log \in Row \cup {None}
    /\ run \in [Runs -> Running \cup {None}]
    /\ late \subseteq Runs
    /\ sweptToday \in BOOLEAN
    /\ faults \in 0..MaxFaults
    /\ checked \in Tokens \cup {None}

(* At most one run works at a time, although leases run out, runs are ended *)
(* at any point, and a release may arrive after its run has ended.          *)
OneKeeper == \A r, s \in Active : r = s

(* With no more than MaxFaults errors, ended runs and missed days, no       *)
(* credential is archived, save one whose bumps always fail; that one does  *)
(* not take the others with it.                                             *)
NoneArchived == \A t \in 1..total : t \notin Poison => ttl[t] > 0

(* Every credential the contract has is looked at again and again, however  *)
(* many tokens fail for ever and take their places among the retries.       *)
EverySwept == \A t \in Tokens : [](t <= total => <>(checked = t))
=============================================================================
