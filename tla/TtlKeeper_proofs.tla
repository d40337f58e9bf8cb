--------------------------- MODULE TtlKeeper_proofs ---------------------------
(* Theorems about TtlKeeper, for any number of runs, tokens and faults, any  *)
(* lease that outlives a run, and a threshold with room for the sweeps.      *)
EXTENDS TtlKeeper, SequenceTheorems, TLAPS

USE KeeperConstantsOK, LeaseOutlivesRuns DEF KeeperConstantsOK, LeaseOutlivesRuns

(* What a run is made of, whatever its lists hold.                          *)
Shaped(p) ==
    p = [stage |-> p.stage, age |-> p.age, todo |-> p.todo, failed |-> p.failed,
         nextTokenId |-> p.nextTokenId]

(* The run that is under way has the lock, and the lease is as much shorter *)
(* as the run is old; a run with a release still to arrive has ended.       *)
KeeperInv ==
    /\ run = [r \in Runs |-> run[r]]
    /\ holder \in Runs \cup {None}
    /\ lease \in 0..LEASE
    /\ late \subseteq Runs
    /\ \A r \in late : run[r] = None
    /\ \A r \in Runs :
          run[r] # None => /\ Shaped(run[r])
                           /\ holder = r
                           /\ run[r].age \in 0..MAX_DURATION
                           /\ lease = LEASE - run[r].age

LEMMA InitKeeper == Init => KeeperInv
  BY DEF Init, KeeperInv

(* A step of one run that leaves its age and the lock.                      *)
LEMMA RunGoesOn ==
    ASSUME KeeperInv, NEW r \in Runs, run[r] # None, NEW p, Shaped(p), p.age = run[r].age,
           run' = [run EXCEPT ![r] = p], UNCHANGED <<holder, lease, late>>
    PROVE  KeeperInv'
  <1>1. run'[r] = p /\ \A s \in Runs \ {r} : run'[s] = run[s]
    BY DEF KeeperInv
  <1>2. run' = [s \in Runs |-> run'[s]]
    BY DEF KeeperInv
  <1> QED
    BY <1>1, <1>2 DEF KeeperInv, Shaped

(* A step that ends a run and may give up its lock.                         *)
LEMMA RunEnds ==
    ASSUME KeeperInv, NEW r \in Runs, run[r] # None,
           run' = [run EXCEPT ![r] = None],
           late' \subseteq late \cup {r},
           UNCHANGED lockVars \/ (holder' = None /\ lease' = 0)
    PROVE  KeeperInv'
  <1>1. run'[r] = None /\ \A s \in Runs \ {r} : run[s] = None /\ run'[s] = None
    BY DEF KeeperInv
  <1>2. run' = [s \in Runs |-> run'[s]]
    BY DEF KeeperInv
  <1> QED
    BY <1>1, <1>2 DEF KeeperInv, lockVars

(* Changing what is not its age leaves a run its shape and its age.         *)
LEMMA Updated ==
    ASSUME NEW p, Shaped(p), NEW x
    PROVE  /\ Shaped([p EXCEPT !.stage = x]) /\ [p EXCEPT !.stage = x].age = p.age
           /\ Shaped([p EXCEPT !.todo = x]) /\ [p EXCEPT !.todo = x].age = p.age
           /\ Shaped([p EXCEPT !.failed = x]) /\ [p EXCEPT !.failed = x].age = p.age
           /\ Shaped([p EXCEPT !.nextTokenId = x]) /\ [p EXCEPT !.nextTokenId = x].age = p.age
           /\ Shaped([p EXCEPT !.age = x]) /\ [p EXCEPT !.age = x].age = x
  <1>0. PICK a, b, c, d, e :
            p = [stage |-> a, age |-> b, todo |-> c, failed |-> d, nextTokenId |-> e]
    BY DEF Shaped
  <1>1. [p EXCEPT !.stage = x]
           = [stage |-> x, age |-> b, todo |-> c, failed |-> d, nextTokenId |-> e]
    BY <1>0
  <1>2. [p EXCEPT !.todo = x]
           = [stage |-> a, age |-> b, todo |-> x, failed |-> d, nextTokenId |-> e]
    BY <1>0
  <1>3. [p EXCEPT !.failed = x]
           = [stage |-> a, age |-> b, todo |-> c, failed |-> x, nextTokenId |-> e]
    BY <1>0
  <1>4. [p EXCEPT !.nextTokenId = x]
           = [stage |-> a, age |-> b, todo |-> c, failed |-> d, nextTokenId |-> x]
    BY <1>0
  <1>5. [p EXCEPT !.age = x]
           = [stage |-> a, age |-> x, todo |-> c, failed |-> d, nextTokenId |-> e]
    BY <1>0
  <1> QED
    BY <1>0, <1>1, <1>2, <1>3, <1>4, <1>5 DEF Shaped

LEMMA WorkKeeps ==
    ASSUME KeeperInv, NEW r \in Runs, Work(r) \/ Throw(r)
    PROVE  KeeperInv'
  <1> DEFINE p == run[r]
  <1>0. run[r] # None /\ Shaped(p)
    BY DEF Work, Throw, Plan, CheckToken, TokensDone, Record, RecordFailure, Release, At,
       KeeperInv
  <1>1. CASE Plan(r)
    <2>1. PICK todo, nextTokenId :
             /\ run' = [run EXCEPT ![r] = [stage |-> "tokens", age |-> run[r].age, todo |-> todo,
                                           failed |-> <<>>, nextTokenId |-> nextTokenId]]
             /\ UNCHANGED <<holder, lease, late>>
      BY <1>1 DEF Plan, lockVars, KeeperInv
    <2> DEFINE q == [stage |-> "tokens", age |-> p.age, todo |-> todo, failed |-> <<>>,
                     nextTokenId |-> nextTokenId]
    <2>2. Shaped(q) /\ q.age = p.age
      BY DEF Shaped
    <2>3. run' = [run EXCEPT ![r] = q]
      BY <2>1 DEF KeeperInv
    <2> HIDE DEF q
    <2> QED
      BY <1>0, <2>1, <2>2, <2>3, RunGoesOn
  <1>2. CASE CheckToken(r)
    <2>1. PICK failed : TokenDone(r, failed)
      BY <1>2 DEF CheckToken
    <2> DEFINE q == [[p EXCEPT !.todo = Tail(p.todo)] EXCEPT !.failed = failed]
    <2>2. Shaped(q) /\ q.age = p.age
      <3> DEFINE p1 == [p EXCEPT !.todo = Tail(p.todo)]
      <3>1. Shaped(p1) /\ p1.age = p.age
        BY <1>0, Updated
      <3> HIDE DEF p1
      <3>2. Shaped([p1 EXCEPT !.failed = failed]) /\ [p1 EXCEPT !.failed = failed].age = p1.age
        BY <3>1, Updated
      <3> QED
        BY <3>1, <3>2 DEF p1
    <2>3. run' = [run EXCEPT ![r] = q] /\ UNCHANGED <<holder, lease, late>>
      BY <1>0, <2>1 DEF TokenDone, KeeperInv, lockVars
    <2> HIDE DEF q
    <2> QED
      BY <1>0, <2>2, <2>3, RunGoesOn
  <1>3. CASE TokensDone(r) \/ Record(r) \/ Throw(r) \/ RecordFailure(r)
    <2>1. PICK stage : /\ run' = [run EXCEPT ![r].stage = stage]
                       /\ UNCHANGED <<holder, lease, late>>
      BY <1>3 DEF TokensDone, Record, Throw, RecordFailure, lockVars
    <2> DEFINE q == [p EXCEPT !.stage = stage]
    <2>2. Shaped(q) /\ q.age = p.age
      BY <1>0, Updated
    <2>3. run' = [run EXCEPT ![r] = q]
      BY <2>1 DEF KeeperInv
    <2> HIDE DEF q
    <2> QED
      BY <1>0, <2>1, <2>2, <2>3, RunGoesOn
  <1>4. CASE Release(r)
    <2>1. /\ run' = [run EXCEPT ![r] = None] /\ late' = late
          /\ UNCHANGED lockVars \/ (holder' = None /\ lease' = 0)
      BY <1>4 DEF Release, Releases
    <2> QED
      BY <1>0, <2>1, RunEnds
  <1> QED
    BY <1>1, <1>2, <1>3, <1>4 DEF Work

LEMMA ClaimKeeps ==
    ASSUME KeeperInv, NEW r \in Runs, Claim(r)
    PROVE  KeeperInv'
  <1> DEFINE p == [stage |-> "plan", age |-> 0, todo |-> <<>>, failed |-> <<>>, nextTokenId |-> 1]
  <1>1. Shaped(p) /\ p.age = 0
    BY DEF Shaped
  <1>2. \A s \in Runs : run[s] = None
    <2> SUFFICES ASSUME NEW s \in Runs, run[s] # None PROVE FALSE
      OBVIOUS
    <2>1. run[s].age \in Nat /\ run[s].age <= MAX_DURATION /\ lease = LEASE - run[s].age
      BY DEF KeeperInv
    <2>2. lease = 0
      BY DEF Claim
    <2> QED
      BY <2>1, <2>2
  <1>3. run' = [run EXCEPT ![r] = p] /\ holder' = r /\ lease' = LEASE /\ late' = late
        /\ r \notin late
    BY DEF Claim
  <1> HIDE DEF p
  <1>4. run'[r] = p /\ \A s \in Runs \ {r} : run'[s] = None
    BY <1>2, <1>3 DEF KeeperInv
  <1>5. run' = [s \in Runs |-> run'[s]]
    BY <1>3 DEF KeeperInv
  <1> QED
    BY <1>1, <1>3, <1>4, <1>5 DEF KeeperInv

LEMMA MinuteKeeps == KeeperInv /\ Minute => KeeperInv'
  <1> SUFFICES ASSUME KeeperInv, Minute PROVE KeeperInv'
    OBVIOUS
  <1>1. /\ lease \in Nat /\ lease > 0 /\ lease' = lease - 1
        /\ UNCHANGED <<holder, late>>
    BY DEF Minute, KeeperInv
  <1>2. run' = [s \in Runs |-> run'[s]]
    BY DEF Minute
  <1>3. ASSUME NEW r \in Runs, run'[r] # None
        PROVE  /\ Shaped(run'[r]) /\ holder' = r /\ run'[r].age \in 0..MAX_DURATION
               /\ lease' = LEASE - run'[r].age
    <2>1. run[r] # None /\ run'[r] = [run[r] EXCEPT !.age = run[r].age + 1]
      BY <1>3 DEF Minute
    <2>2. /\ Shaped(run[r]) /\ holder = r /\ run[r].age \in 0..MAX_DURATION
          /\ lease = LEASE - run[r].age /\ run[r].age < MAX_DURATION
      BY <2>1 DEF KeeperInv, Minute, Active
    <2>3. Shaped(run'[r]) /\ run'[r].age = run[r].age + 1
      <3> DEFINE p == run[r]
                 older == p.age + 1
      <3>1. run'[r] = [p EXCEPT !.age = older] /\ Shaped(p)
        BY <2>1, <2>2
      <3> HIDE DEF p, older
      <3>2. Shaped([p EXCEPT !.age = older]) /\ [p EXCEPT !.age = older].age = older
        BY <3>1, Updated
      <3> QED
        BY <3>1, <3>2 DEF p, older
    <2> QED
      BY <1>1, <2>2, <2>3
  <1>4. \A r \in late : run'[r] = None
    BY DEF Minute, KeeperInv
  <1>5. lease' \in 0..LEASE
    BY <1>1 DEF KeeperInv
  <1> QED
    BY <1>1, <1>2, <1>3, <1>4, <1>5 DEF KeeperInv

LEMMA NextKeeper == KeeperInv /\ [Next]_vars => KeeperInv'
  <1> SUFFICES ASSUME KeeperInv, [Next]_vars PROVE KeeperInv'
    OBVIOUS
  <1>1. ASSUME NEW r \in Runs, Die(r) PROVE KeeperInv'
    <2>1. /\ run[r] # None /\ run' = [run EXCEPT ![r] = None]
          /\ late' \subseteq late \cup {r} /\ UNCHANGED lockVars
      BY <1>1 DEF Die
    <2> QED
      BY <2>1, RunEnds
  <1>2. ASSUME NEW r \in Runs, LateRelease(r) PROVE KeeperInv'
    <2>1. /\ run[r] = None /\ run' = run /\ late' = late \ {r}
          /\ IF holder = r THEN holder' = None /\ lease' = 0
             ELSE holder' = holder /\ lease' = lease
      BY <1>2 DEF LateRelease, Releases, lockVars, KeeperInv
    <2> QED
      BY <2>1 DEF KeeperInv
  <1>3. CASE Day \/ Issue \/ UNCHANGED vars
    <2>1. UNCHANGED <<run, holder, lease, late>>
      BY <1>3 DEF Day, Issue, vars, lockVars
    <2> QED
      BY <2>1 DEF KeeperInv
  <1> QED
    BY <1>1, <1>2, <1>3, WorkKeeps, ClaimKeeps, MinuteKeeps DEF Next

(* A run that the platform has to end in time, and a lock that outlives it: *)
(* no two runs work on the cursor, whenever leases run out, runs end and    *)
(* releases arrive.                                                         *)
THEOREM OnlyOneKeeper == Spec => []OneKeeper
  <1>1. KeeperInv => OneKeeper
    BY DEF KeeperInv, OneKeeper, Active
  <1> QED
    BY InitKeeper, NextKeeper, <1>1, PTL DEF Spec

-----------------------------------------------------------------------------
(* The lists a run works through.                                           *)

LEMMA FilteredList ==
    ASSUME NEW S, NEW list \in Seq(S), NEW positions \in SUBSET DOMAIN list,
           NEW kept \in Filtered(list, positions)
    PROVE  /\ kept \in Seq(S)
           /\ \A i \in positions : \E k \in DOMAIN kept : kept[k] = list[i]
  <1> DEFINE Orders == UNION {[1..n -> positions] : n \in 0..Len(list)}
  <1>0. PICK order \in Orders : /\ kept = [k \in DOMAIN order |-> list[order[k]]]
                                /\ {order[k] : k \in DOMAIN order} = positions
    <2> HIDE DEF Orders
    <2> QED
      BY DEF Filtered, Orders
  <1>1. PICK n \in 0..Len(list) : order \in [1..n -> positions]
    BY <1>0
  <1>2. DOMAIN list = 1..Len(list) /\ Len(list) \in Nat /\ \A i \in DOMAIN list : list[i] \in S
    OBVIOUS
  <1>3. kept \in [1..n -> S]
    BY <1>0, <1>1, <1>2
  <1>4. n \in Nat
    BY <1>2
  <1> QED
    BY <1>0, <1>1, <1>3, <1>4

LEMMA PageTyped ==
    ASSUME total \in 0..MaxTotal, NEW cursor \in Nat, NEW size \in Nat
    PROVE  /\ Page(cursor, size) \in Seq(Tokens)
           /\ PageNext(cursor, size) \in 1..LargerOf(total, 1)
  <1> DEFINE start == PageStart(cursor)
             length == PageLength(size)
  <1>1. /\ length \in 0..total
        /\ start \in 0..total /\ (total > 0 => start > 0)
    BY DEF PageStart, PageLength, SmallerOf, LargerOf
  <1> HIDE DEF start, length
  <1>2. ASSUME NEW a \in Nat, total > 0 PROVE (a % total) + 1 \in 1..total
    BY <1>2
  <1>3. ASSUME NEW i \in 1..length PROVE ((start - 1 + i - 1) % total) + 1 \in Tokens
    <2>1. start - 1 + i - 1 \in Nat /\ total > 0
      BY <1>1
    <2>2. ((start - 1 + i - 1) % total) + 1 \in 1..total
      BY <1>2, <2>1
    <2> QED
      BY <2>2 DEF Tokens
  <1>4. Page(cursor, size) \in [1..length -> Tokens]
    BY <1>3 DEF Page, start, length
  <1>5. total > 0 => start - 1 + length \in Nat
    BY <1>1
  <1>6. PageNext(cursor, size) \in 1..LargerOf(total, 1)
    BY <1>2, <1>5 DEF PageNext, start, length, LargerOf
  <1> QED
    BY <1>1, <1>4, <1>6

LEMMA RetriesTyped ==
    ASSUME log = None \/ log.failedTokenIds \in Seq(Tokens), NEW retries \in RetryIds
    PROVE  retries \in Seq(Tokens) /\ Len(retries) \in 0..MAX_RETRIES
  <1>1. FailedTokenIds \in Seq(Tokens)
    BY DEF FailedTokenIds
  <1> DEFINE positions == {i \in DOMAIN FailedTokenIds : FailedTokenIds[i] <= total}
  <1>2. PICK failed \in Filtered(FailedTokenIds, positions) :
            retries = SubSeq(failed, 1, SmallerOf(Len(failed), MAX_RETRIES))
    BY DEF RetryIds
  <1>3. failed \in Seq(Tokens)
    <2>1. positions \in SUBSET DOMAIN FailedTokenIds
      OBVIOUS
    <2> HIDE DEF positions
    <2> QED
      BY <1>1, <1>2, <2>1, FilteredList
  <1>4. SmallerOf(Len(failed), MAX_RETRIES) \in 0..MAX_RETRIES
        /\ SmallerOf(Len(failed), MAX_RETRIES) <= Len(failed) /\ Len(failed) \in Nat
    BY <1>3 DEF SmallerOf
  <1> DEFINE n == SmallerOf(Len(failed), MAX_RETRIES)
  <1> HIDE DEF n
  <1>5. SubSeq(failed, 1, n) \in Seq(Tokens) /\ Len(SubSeq(failed, 1, n)) = n
    BY <1>3, <1>4, SubSeqProperties DEF n
  <1> QED
    BY <1>2, <1>4, <1>5 DEF n

(* Nothing of the page is left out.                                         *)
LEMMA TokenIdsCover ==
    ASSUME NEW retries \in Seq(Tokens), NEW page \in Seq(Tokens),
           NEW tokenIds \in TokenIds(retries, page)
    PROVE  /\ tokenIds \in Seq(Tokens)
           /\ \A i \in DOMAIN page : \E k \in DOMAIN tokenIds : tokenIds[k] = page[i]
  <1> DEFINE positions == {i \in DOMAIN page : \A j \in DOMAIN retries : retries[j] # page[i]}
  <1>1. PICK rest \in Filtered(page, positions) : tokenIds = retries \o rest
    BY DEF TokenIds
  <1>2. /\ rest \in Seq(Tokens)
        /\ \A i \in positions : \E k \in DOMAIN rest : rest[k] = page[i]
    <2>1. positions \in SUBSET DOMAIN page
      OBVIOUS
    <2> HIDE DEF positions
    <2> QED
      BY <1>1, <2>1, FilteredList
  <1>3. /\ tokenIds \in Seq(Tokens)
        /\ Len(retries) \in Nat /\ Len(rest) \in Nat
        /\ DOMAIN retries = 1..Len(retries) /\ DOMAIN rest = 1..Len(rest)
        /\ DOMAIN tokenIds = 1..(Len(retries) + Len(rest))
        /\ \A k \in DOMAIN retries : tokenIds[k] = retries[k]
        /\ \A k \in DOMAIN rest : tokenIds[Len(retries) + k] = rest[k]
    BY <1>1, <1>2
  <1>4. ASSUME NEW i \in DOMAIN page PROVE \E k \in DOMAIN tokenIds : tokenIds[k] = page[i]
    <2>1. CASE \E j \in DOMAIN retries : retries[j] = page[i]
      BY <2>1, <1>3
    <2>2. CASE i \in positions
      <3>1. PICK k \in DOMAIN rest : rest[k] = page[i]
        BY <2>2, <1>2
      <3>2. Len(retries) + k \in DOMAIN tokenIds
        BY <1>3
      <3> QED
        BY <1>3, <3>1, <3>2
    <2> QED
      BY <2>1, <2>2
  <1> QED
    BY <1>3, <1>4

(* A page comes at least so far.                                            *)
Pace == PAGE_SIZE - MAX_RETRIES

(* How far a token is from the cursor, around all the contract may have.    *)
Distance(cursor, t) == IF cursor <= t THEN t - cursor ELSE MaxTotal - cursor + t

LEMMA PaceTyped == Pace \in Nat /\ Pace > 0
  BY DEF Pace

LEMMA DistanceTyped ==
    ASSUME NEW cursor \in 1..MaxTotal, NEW t \in 1..MaxTotal
    PROVE  Distance(cursor, t) \in 0..(MaxTotal - 1)
  BY DEF Distance

(* A token is in the page, or the cursor comes nearer to it.                *)
LEMMA PageAdvances ==
    ASSUME total \in 1..MaxTotal, NEW cursor \in 1..total, NEW t \in 1..total,
           NEW size \in Nat, Pace <= size
    PROVE  \/ \E i \in DOMAIN Page(cursor, size) : Page(cursor, size)[i] = t
           \/ Distance(PageNext(cursor, size), t) + Pace <= Distance(cursor, t)
  <1>1. PageStart(cursor) = cursor
    BY DEF PageStart, SmallerOf, LargerOf
  <1> DEFINE length == PageLength(size)
  <1>2. length \in 1..total /\ (length = total \/ length = size)
    BY PaceTyped DEF PageLength, SmallerOf
  <1>3. /\ DOMAIN Page(cursor, size) = 1..length
        /\ \A i \in 1..length : Page(cursor, size)[i] = ((cursor - 1 + i - 1) % total) + 1
    BY <1>1 DEF Page
  <1>4. PageNext(cursor, size) = ((cursor - 1 + length) % total) + 1
    BY <1>1 DEF PageNext
  <1> HIDE DEF length
  <1>5. ASSUME NEW a \in Nat
        PROVE  /\ a < total => a % total = a
               /\ total <= a /\ a < 2 * total => a % total = a - total
    <2>1. a < total => a % total = a
      OBVIOUS
    <2>2. ASSUME total <= a, a < 2 * total PROVE a % total = a - total
      BY <2>2
    <2> QED
      BY <2>1, <2>2
  <1>6. CASE cursor <= t /\ t < cursor + length
    <2> DEFINE i == t - cursor + 1
    <2>1. i \in 1..length /\ cursor - 1 + i - 1 = t - 1 /\ t - 1 \in Nat /\ t - 1 < total
      BY <1>2, <1>6
    <2>2. (t - 1) % total = t - 1
      BY <2>1, <1>5
    <2> QED
      BY <2>1, <2>2, <1>3
  <1>7. CASE t < cursor /\ t + total < cursor + length
    <2> DEFINE i == total - cursor + t + 1
    <2>1. /\ i \in 1..length /\ cursor - 1 + i - 1 = total + t - 1
          /\ total + t - 1 \in Nat /\ total <= total + t - 1 /\ total + t - 1 < 2 * total
      BY <1>2, <1>7
    <2>2. (total + t - 1) % total = t - 1
      BY <2>1, <1>5
    <2> QED
      BY <2>1, <2>2, <1>3
  <1>8. CASE cursor + length <= t
    <2>1. /\ cursor - 1 + length \in Nat /\ cursor - 1 + length < total
          /\ length = size
      BY <1>2, <1>8
    <2>2. PageNext(cursor, size) = cursor + length
      BY <2>1, <1>4, <1>5
    <2> QED
      BY <1>2, <1>8, <2>1, <2>2, PaceTyped DEF Distance
  <1>9. CASE t < cursor /\ cursor + length <= t + total
    <2>1. /\ cursor - 1 + length \in Nat /\ cursor - 1 + length < 2 * total
          /\ length = size
      BY <1>2, <1>9
    <2>2. CASE cursor - 1 + length < total
      <3>1. PageNext(cursor, size) = cursor + length
        BY <2>1, <2>2, <1>4, <1>5
      <3> QED
        BY <1>2, <1>9, <2>1, <3>1, PaceTyped DEF Distance
    <2>3. CASE total <= cursor - 1 + length
      <3>1. PageNext(cursor, size) = cursor + length - total
        BY <2>1, <2>3, <1>4, <1>5
      <3> QED
        BY <1>2, <1>9, <2>1, <2>3, <3>1, PaceTyped DEF Distance
    <2> QED
      BY <2>1, <2>2, <2>3, <1>2
  <1> QED
    BY <1>2, <1>6, <1>7, <1>8, <1>9

-----------------------------------------------------------------------------
(* Types.                                                                   *)

LEMMA InitTyped == Init => TypeOK
  <1> SUFFICES ASSUME Init PROVE TypeOK
    OBVIOUS
  <1>1. ttl \in [Tokens -> 0..BUMP_AMOUNT] /\ run \in [Runs -> Running \cup {None}]
    BY DEF Init
  <1>2. lease \in 0..LEASE /\ faults \in 0..MaxFaults /\ total \in 0..MaxTotal
    BY DEF Init
  <1> QED
    BY <1>1, <1>2 DEF Init, TypeOK

(* A step of one run.                                                       *)
LEMMA RunTyped ==
    ASSUME TypeOK, NEW r \in Runs, NEW p \in Running \cup {None},
           run' = [run EXCEPT ![r] = p]
    PROVE  run' \in [Runs -> Running \cup {None}]
  BY DEF TypeOK

LEMMA RunningTyped ==
    ASSUME NEW p \in Running
    PROVE  /\ p = [stage |-> p.stage, age |-> p.age, todo |-> p.todo, failed |-> p.failed,
                   nextTokenId |-> p.nextTokenId]
           /\ p.age \in 0..MAX_DURATION /\ p.todo \in Seq(Tokens) /\ p.failed \in Seq(Tokens)
           /\ p.nextTokenId \in Nat
           /\ p.stage \in {"plan", "tokens", "record", "fail", "release"}
  BY DEF Running

(* What a plan makes of a run: its lists are of tokens, and hold a page.    *)
PlannedRun(r, size, tokenIds) ==
    [stage |-> "tokens", age |-> run[r].age, todo |-> tokenIds, failed |-> <<>>,
     nextTokenId |-> PageNext(Cursor, size)]

LEMMA Planned ==
    ASSUME TypeOK, NEW r \in Runs, Plan(r)
    PROVE  \E size \in Nat, tokenIds \in Seq(Tokens) :
              /\ Pace <= size
              /\ PageNext(Cursor, size) \in 1..LargerOf(total, 1)
              /\ \A i \in DOMAIN Page(Cursor, size) :
                    \E k \in DOMAIN tokenIds : tokenIds[k] = Page(Cursor, size)[i]
              /\ PlannedRun(r, size, tokenIds) \in Running
              /\ run' = [run EXCEPT ![r] = PlannedRun(r, size, tokenIds)]
  <1>1. run[r] \in Running
    BY DEF Plan, At, TypeOK
  <1>2. log = None \/ (log.failedTokenIds \in Seq(Tokens) /\ log.nextTokenId \in Nat \cup {None})
    BY DEF TypeOK, Row
  <1>3. PICK retries \in RetryIds :
          LET size == PAGE_SIZE - Len(retries)
          IN  \E tokenIds \in TokenIds(retries, Page(Cursor, size)) :
                 run' = [run EXCEPT ![r] = PlannedRun(r, size, tokenIds)]
    BY DEF Plan, PlannedRun, TypeOK
  <1> DEFINE size == PAGE_SIZE - Len(retries)
  <1>4. retries \in Seq(Tokens) /\ size \in Nat /\ Pace <= size
    BY <1>2, RetriesTyped DEF Pace
  <1> HIDE DEF size
  <1>5. PICK tokenIds \in TokenIds(retries, Page(Cursor, size)) :
          run' = [run EXCEPT ![r] = PlannedRun(r, size, tokenIds)]
    BY <1>3 DEF size
  <1>6. Cursor \in Nat
    BY <1>2 DEF Cursor
  <1>7. /\ Page(Cursor, size) \in Seq(Tokens)
        /\ PageNext(Cursor, size) \in 1..LargerOf(total, 1)
        /\ PageNext(Cursor, size) \in Nat
    BY <1>4, <1>6, PageTyped DEF TypeOK, LargerOf
  <1>8. /\ tokenIds \in Seq(Tokens)
        /\ \A i \in DOMAIN Page(Cursor, size) :
              \E k \in DOMAIN tokenIds : tokenIds[k] = Page(Cursor, size)[i]
    BY <1>4, <1>5, <1>7, TokenIdsCover
  <1>9. PlannedRun(r, size, tokenIds) \in Running
    BY <1>1, <1>7, <1>8, RunningTyped DEF PlannedRun, Running
  <1> QED
    BY <1>4, <1>5, <1>7, <1>8, <1>9

LEMMA PlanTyped == TypeOK /\ (\E r \in Runs : Plan(r)) => TypeOK'
  <1> SUFFICES ASSUME TypeOK, NEW r \in Runs, Plan(r) PROVE TypeOK'
    OBVIOUS
  <1>1. PICK p \in Running : run' = [run EXCEPT ![r] = p]
    BY Planned
  <1>2. run' \in [Runs -> Running \cup {None}]
    BY <1>1, RunTyped
  <1> QED
    BY <1>2 DEF Plan, TypeOK, chainVars, lockVars

LEMMA RunningUpdated ==
    ASSUME NEW p \in Running
    PROVE  /\ \A stage \in {"plan", "tokens", "record", "fail", "release"} :
                 [p EXCEPT !.stage = stage] \in Running
           /\ \A todo \in Seq(Tokens), failed \in Seq(Tokens) :
                 [p EXCEPT !.todo = todo, !.failed = failed] \in Running
           /\ \A age \in 0..MAX_DURATION : [p EXCEPT !.age = age] \in Running
  BY DEF Running

LEMMA CheckTokenTyped == TypeOK /\ (\E r \in Runs : CheckToken(r)) => TypeOK'
  <1> SUFFICES ASSUME TypeOK, NEW r \in Runs, CheckToken(r) PROVE TypeOK'
    OBVIOUS
  <1> DEFINE t == Head(run[r].todo)
  <1>1. run[r] \in Running /\ run[r].todo # <<>>
    BY DEF CheckToken, At, TypeOK
  <1>2. run[r].todo \in Seq(Tokens) /\ run[r].failed \in Seq(Tokens)
    BY <1>1, RunningTyped
  <1>3. t \in Tokens /\ Tail(run[r].todo) \in Seq(Tokens)
        /\ Append(run[r].failed, t) \in Seq(Tokens)
    BY <1>1, <1>2
  <1> HIDE DEF t
  <1>4. PICK failed \in {run[r].failed, Append(run[r].failed, t)} : TokenDone(r, failed)
    BY DEF CheckToken, t
  <1>5. /\ ttl' = ttl \/ ttl' = [ttl EXCEPT ![t] = BUMP_AMOUNT]
        /\ faults' = faults \/ (faults > 0 /\ faults' = faults - 1)
    BY DEF CheckToken, t, Extend, Fault
  <1>6. ttl' \in [Tokens -> 0..BUMP_AMOUNT] /\ faults' \in 0..MaxFaults
    BY <1>3, <1>5 DEF TypeOK
  <1>7. run' \in [Runs -> Running \cup {None}]
    <2> DEFINE p == [run[r] EXCEPT !.todo = Tail(run[r].todo), !.failed = failed]
    <2>1. p \in Running
      BY <1>1, <1>2, <1>3, <1>4, RunningUpdated
    <2>2. run' = [run EXCEPT ![r] = p]
      BY <1>4 DEF TokenDone, TypeOK
    <2> HIDE DEF p
    <2> QED
      BY <2>1, <2>2 DEF TypeOK
  <1>8. checked' = t /\ UNCHANGED <<total, lockVars, log, late, sweptToday>>
    BY <1>4 DEF TokenDone, t
  <1> QED
    BY <1>3, <1>6, <1>7, <1>8 DEF TypeOK, lockVars

LEMMA StageTyped ==
    ASSUME TypeOK, NEW r \in Runs,
           TokensDone(r) \/ Record(r) \/ Throw(r) \/ RecordFailure(r)
    PROVE  TypeOK'
  <1>1. run[r] \in Running
    BY DEF TokensDone, Record, Throw, RecordFailure, At, TypeOK
  <1>2. PICK stage \in {"record", "fail", "release"} :
           run' = [run EXCEPT ![r].stage = stage]
    BY DEF TokensDone, Record, Throw, RecordFailure
  <1>3. run' \in [Runs -> Running \cup {None}]
    <2> DEFINE p == [run[r] EXCEPT !.stage = stage]
    <2>1. p \in Running
      BY <1>1, RunningUpdated
    <2>2. run' = [run EXCEPT ![r] = p]
      BY <1>2 DEF TypeOK
    <2> HIDE DEF p
    <2> QED
      BY <2>1, <2>2 DEF TypeOK
  <1>4. log' \in Row \cup {None}
    <2>1. <<>> \in Seq(Tokens)
      OBVIOUS
    <2>2. \/ log' = log
          \/ log' = [nextTokenId |-> run[r].nextTokenId, failedTokenIds |-> run[r].failed]
          \/ log' = [nextTokenId |-> None, failedTokenIds |-> <<>>]
      BY DEF TokensDone, Record, Throw, RecordFailure
    <2>3. run[r].nextTokenId \in Nat /\ run[r].failed \in Seq(Tokens)
      BY <1>1, RunningTyped
    <2>4. \A next \in Nat \cup {None}, failed \in Seq(Tokens) :
             [nextTokenId |-> next, failedTokenIds |-> failed] \in Row
      BY DEF Row
    <2>5. log \in Row \cup {None}
      BY DEF TypeOK
    <2> QED
      BY <2>1, <2>2, <2>3, <2>4, <2>5
  <1>5. faults' = faults \/ (faults > 0 /\ faults' = faults - 1)
    BY DEF TokensDone, Record, Throw, RecordFailure, Fault
  <1>6. sweptToday' \in BOOLEAN /\ checked' = None /\ UNCHANGED <<chainVars, lockVars, late>>
    BY DEF TokensDone, Record, Throw, RecordFailure, TypeOK
  <1> QED
    BY <1>3, <1>4, <1>5, <1>6 DEF TypeOK, chainVars, lockVars

LEMMA EndTyped ==
    ASSUME TypeOK, NEW r \in Runs, Claim(r) \/ Release(r) \/ Die(r) \/ LateRelease(r)
    PROVE  TypeOK'
  <1> DEFINE p == [stage |-> "plan", age |-> 0, todo |-> <<>>, failed |-> <<>>, nextTokenId |-> 1]
  <1>1. p \in Running
    BY DEF Running
  <1>2. run' = run \/ run' = [run EXCEPT ![r] = p] \/ run' = [run EXCEPT ![r] = None]
    BY DEF Claim, Release, Die, LateRelease
  <1> HIDE DEF p
  <1>3. run' \in [Runs -> Running \cup {None}]
    BY <1>1, <1>2 DEF TypeOK
  <1>4. holder' \in Runs \cup {None} /\ lease' \in 0..LEASE
    BY DEF Claim, Release, Die, LateRelease, Releases, lockVars, TypeOK
  <1>5. late' \subseteq Runs
    BY DEF Claim, Release, Die, LateRelease, TypeOK
  <1>6. faults' = faults \/ (faults > 0 /\ faults' = faults - 1)
    BY DEF Claim, Release, Die, LateRelease, Fault
  <1>7. checked' = None /\ UNCHANGED <<chainVars, log, sweptToday>>
    BY DEF Claim, Release, Die, LateRelease
  <1> QED
    BY <1>3, <1>4, <1>5, <1>6, <1>7 DEF TypeOK, chainVars

LEMMA TimeTyped ==
    ASSUME TypeOK, Minute \/ Day \/ Issue
    PROVE  TypeOK'
  <1>1. CASE Minute
    <2>1. ASSUME NEW r \in Runs PROVE run'[r] \in Running \cup {None}
      <3>1. CASE run[r] = None
        BY <1>1, <3>1 DEF Minute
      <3>2. CASE run[r] # None
        <4>1. run[r] \in Running /\ run[r].age < MAX_DURATION
          BY <1>1, <3>2 DEF Minute, Active, TypeOK
        <4>2. run[r].age + 1 \in 0..MAX_DURATION
          BY <4>1, RunningTyped
        <4>3. run'[r] = [run[r] EXCEPT !.age = run[r].age + 1]
          BY <1>1, <3>2 DEF Minute
        <4> QED
          BY <4>1, <4>2, <4>3, RunningUpdated
      <3> QED
        BY <3>1, <3>2
    <2>2. run' \in [Runs -> Running \cup {None}]
      BY <1>1, <2>1 DEF Minute
    <2>3. lease' \in 0..LEASE
      BY <1>1 DEF Minute, TypeOK
    <2> QED
      BY <1>1, <2>2, <2>3 DEF Minute, TypeOK, chainVars
  <1>2. CASE Day
    <2>1. ttl' \in [Tokens -> 0..BUMP_AMOUNT]
      BY <1>2 DEF Day, TypeOK
    <2>2. faults' = faults \/ (faults > 0 /\ faults' = faults - 1)
      BY <1>2 DEF Day, Fault
    <2>3. /\ UNCHANGED <<total, holder, lease, log, run, late>>
          /\ sweptToday' = FALSE /\ checked' = None
      BY <1>2 DEF Day, lockVars
    <2>4. faults' \in 0..MaxFaults
      BY <2>2 DEF TypeOK
    <2>5. sweptToday' \in BOOLEAN /\ checked' \in Tokens \cup {None}
      BY <2>3
    <2> QED
      BY <2>1, <2>3, <2>4, <2>5, Zenon DEF TypeOK
  <1>3. CASE Issue
    <2>1. ttl' \in [Tokens -> 0..BUMP_AMOUNT]
      <3>1. ttl' = [ttl EXCEPT ![total + 1] = BUMP_AMOUNT] /\ ttl \in [Tokens -> 0..BUMP_AMOUNT]
        BY <1>3 DEF Issue, TypeOK
      <3>2. BUMP_AMOUNT \in 0..BUMP_AMOUNT
        OBVIOUS
      <3> QED
        BY <3>1, <3>2
    <2>2. total' \in 0..MaxTotal
      BY <1>3 DEF Issue, TypeOK
    <2> QED
      BY <1>3, <2>1, <2>2 DEF Issue, TypeOK, lockVars
  <1> QED
    BY <1>1, <1>2, <1>3

LEMMA NextTyped == TypeOK /\ [Next]_vars => TypeOK'
  <1> SUFFICES ASSUME TypeOK, [Next]_vars PROVE TypeOK'
    OBVIOUS
  <1>1. CASE UNCHANGED vars
    BY <1>1 DEF TypeOK, vars, chainVars, lockVars
  <1>2. CASE Next
    BY <1>2, PlanTyped, CheckTokenTyped, StageTyped, EndTyped, TimeTyped DEF Next, Work
  <1> QED
    BY <1>1, <1>2

(* The counters, the lists and the log keep their types, for any number of  *)
(* runs and tokens.                                                         *)
THEOREM KeeperTyped == Spec => []TypeOK
  BY InitTyped, NextTyped, PTL DEF Spec

-----------------------------------------------------------------------------
(* The sweep.  The room that RoomForSweeps asks for, as a number of days.   *)
Days ==
    CHOOSE days \in 0..THRESHOLD :
        /\ MaxTotal <= days * Pace
        /\ (MaxFaults + 1) * days <= THRESHOLD

(* The tokens that can be bumped.                                           *)
Sound == (1..total) \ Poison

(* The days left of a token when every fault has cost a sweep and the day   *)
(* that has been swept has ended.                                           *)
Spare(t) == ttl[t] - faults * Days - (IF sweptToday THEN 1 ELSE 0)

(* Looked at in this sweep: the next may come as late as it can.            *)
Fresh(t) == ttl[t] > (faults + 1) * Days

(* The cursor comes to a token before it is archived.                       *)
InTime(t) == Distance(Cursor, t) < Pace * Spare(t)

(* A token is among those the run has still to look at, or the run has done *)
(* so, or leaves the cursor nearer to it.                                   *)
Covers(p, t) ==
    \/ Fresh(t)
    \/ \E i \in DOMAIN p.todo : p.todo[i] = t
    \/ Distance(p.nextTokenId, t) + Pace <= Distance(Cursor, t)

SweepOf(p) ==
    /\ p.stage \in {"tokens", "record"} => /\ p.nextTokenId \in 1..LargerOf(total, 1)
                                           /\ \A t \in Sound : Covers(p, t)
    /\ p.stage = "record" => p.todo = <<>>
    /\ p.stage = "fail" => \A t \in Sound : Days <= Spare(t)

SweepInv ==
    /\ Cursor \in 1..LargerOf(total, 1)
    /\ \A t \in Sound : InTime(t)
    /\ \A r \in Active : \A p \in Running : run[r] = p => SweepOf(p)

(* Days of any number of pages.                                             *)
LEMMA DaysTyped ==
    Days \in Nat /\ MaxTotal <= Days * Pace /\ (MaxFaults + 1) * Days <= THRESHOLD
  <1>1. \E days \in 0..THRESHOLD : MaxTotal <= days * Pace /\ (MaxFaults + 1) * days <= THRESHOLD
    BY RoomForSweeps DEF Pace
  <1>2. /\ Days \in 0..THRESHOLD
        /\ MaxTotal <= Days * Pace /\ (MaxFaults + 1) * Days <= THRESHOLD
    BY <1>1 DEF Days
  <1> QED
    BY <1>2

LEMMA PageIsADay ==
    ASSUME NEW d \in Nat, NEW e \in Nat, NEW x \in Int, e + Pace <= d, d < Pace * x
    PROVE  e < Pace * (x - 1)
  <1>1. Pace * (x - 1) = Pace * x - Pace
    BY PaceTyped
  <1> QED
    BY <1>1, PaceTyped

LEMMA MoreDays ==
    ASSUME NEW d \in Nat, NEW x \in Int, NEW y \in Int, x <= y, d < Pace * x
    PROVE  d < Pace * y
  <1>1. Pace * x <= Pace * y
    BY PaceTyped
  <1> QED
    BY <1>1, PaceTyped

LEMMA DaysLeft ==
    ASSUME NEW d \in Nat, NEW x \in Int, d < Pace * x
    PROVE  x >= 1
  <1>1. ASSUME x <= 0 PROVE Pace * x <= 0
    BY <1>1, PaceTyped
  <1> QED
    BY <1>1, PaceTyped

LEMMA SweepIsEnough ==
    ASSUME NEW d \in Nat, NEW x \in Int, d < MaxTotal, Days <= x
    PROVE  d < Pace * x
  <1>1. d < Pace * Days
    <2>1. Days * Pace = Pace * Days
      BY DaysTyped, PaceTyped
    <2> QED
      BY <2>1, DaysTyped, PaceTyped
  <1> QED
    BY <1>1, DaysTyped, MoreDays

LEMMA SweepTakesDays ==
    ASSUME NEW t \in 1..MaxTotal
    PROVE  Days >= 1
  <1>1. ASSUME Days = 0 PROVE FALSE
    BY <1>1, DaysTyped, PaceTyped
  <1> QED
    BY <1>1, DaysTyped

(* What a fault is worth.                                                   *)
LEMMA FaultIsASweep ==
    ASSUME NEW f \in Nat
    PROVE  /\ f * Days \in Nat /\ (f + 1) * Days = f * Days + Days
           /\ f > 0 => (f - 1) * Days = f * Days - Days
           /\ \A g \in Nat : g <= f => g * Days <= f * Days
           /\ f <= MaxFaults => (f + 1) * Days <= THRESHOLD
  <1>1. f * Days \in Nat /\ (f + 1) * Days = f * Days + Days
        /\ (f - 1) * Days = f * Days - Days
    BY DaysTyped
  <1>2. ASSUME NEW g \in Nat, NEW h \in Nat, g <= h PROVE g * Days <= h * Days
    BY <1>2, DaysTyped
  <1>3. ASSUME f <= MaxFaults PROVE (f + 1) * Days <= THRESHOLD
    <2>1. (f + 1) * Days <= (MaxFaults + 1) * Days
      BY <1>2, <1>3
    <2>2. (f + 1) * Days \in Nat /\ (MaxFaults + 1) * Days \in Nat
      BY DaysTyped
    <2> QED
      BY <2>1, <2>2, DaysTyped
  <1> QED
    BY <1>1, <1>2, <1>3

(* The numbers of a token.                                                  *)
LEMMA SoundTyped ==
    ASSUME TypeOK, NEW t \in Sound
    PROVE  /\ t \in 1..total /\ t \in 1..MaxTotal /\ t \in Tokens /\ t \notin Poison
           /\ total \in 1..MaxTotal
           /\ ttl[t] \in 0..BUMP_AMOUNT /\ Spare(t) \in Int
           /\ faults \in Nat /\ faults <= MaxFaults /\ faults * Days \in Nat
           /\ LargerOf(total, 1) = total
  <1>1. /\ t \in 1..total /\ t \in 1..MaxTotal /\ t \in Tokens /\ t \notin Poison
        /\ total \in 1..MaxTotal
    BY DEF TypeOK, Sound, Tokens
  <1>2. ttl[t] \in 0..BUMP_AMOUNT /\ faults \in Nat /\ faults <= MaxFaults
    BY <1>1 DEF TypeOK
  <1>3. faults * Days \in Nat
    BY <1>2, FaultIsASweep
  <1>4. Spare(t) \in Int
    BY <1>2, <1>3 DEF Spare
  <1> QED
    BY <1>1, <1>2, <1>3, <1>4 DEF LargerOf

LEMMA SoundSpare ==
    ASSUME TypeOK, SweepInv, NEW t \in Sound
    PROVE  /\ Distance(Cursor, t) \in 0..(MaxTotal - 1)
           /\ Spare(t) >= 1 /\ ttl[t] >= faults * Days + 1
  <1>1. Cursor \in 1..MaxTotal /\ InTime(t)
    BY SoundTyped DEF SweepInv
  <1>2. Distance(Cursor, t) \in 0..(MaxTotal - 1)
    BY <1>1, SoundTyped, DistanceTyped
  <1>3. Spare(t) >= 1
    BY <1>1, <1>2, SoundTyped, DaysLeft DEF InTime
  <1> QED
    BY <1>2, <1>3, SoundTyped DEF Spare

LEMMA SweepSuffices == TypeOK /\ SweepInv => NoneArchived
  <1> SUFFICES ASSUME TypeOK, SweepInv, NEW t \in 1..total, t \notin Poison PROVE ttl[t] > 0
    BY DEF NoneArchived
  <1>1. t \in Sound
    BY DEF Sound
  <1> QED
    BY <1>1, SoundTyped, SoundSpare

(* Steps that leave the cursor and take no day from a token.                *)
Eased ==
    /\ Cursor' = Cursor
    /\ sweptToday' = sweptToday
    /\ faults' <= faults
    /\ total <= total'
    /\ \A t \in Sound : ttl[t] <= ttl'[t]
    /\ \A t \in (total + 1)..total' : ttl'[t] = BUMP_AMOUNT

LEMMA EasedToken ==
    ASSUME TypeOK, TypeOK', SweepInv, Eased, NEW t \in Sound'
    PROVE  \/ /\ t \in Sound
              /\ Spare(t) <= Spare(t)'
              /\ Fresh(t) => Fresh(t)'
           \/ /\ t \notin Sound
              /\ Fresh(t)'
              /\ Days <= Spare(t)'
  <1>1. /\ t \in 1..total' /\ t \in 1..MaxTotal /\ t \notin Poison
        /\ ttl'[t] \in 0..BUMP_AMOUNT
        /\ faults' \in Nat /\ faults' <= MaxFaults
    BY DEF TypeOK, Sound, Tokens
  <1>2. faults \in Nat /\ faults' <= faults /\ total \in Nat /\ total' \in Nat
    BY DEF TypeOK, Eased
  <1>3. /\ faults' * Days \in Nat /\ faults * Days \in Nat
        /\ faults' * Days <= faults * Days
        /\ (faults' + 1) * Days = faults' * Days + Days
        /\ (faults + 1) * Days = faults * Days + Days
        /\ (faults' + 1) * Days <= THRESHOLD
    BY <1>1, <1>2, FaultIsASweep
  <1>4. CASE t \in Sound
    <2>1. ttl[t] \in Nat /\ ttl[t] <= ttl'[t]
      BY <1>4, SoundTyped DEF Eased
    <2>2. Spare(t) <= Spare(t)'
      BY <1>1, <1>3, <2>1 DEF Spare, Eased
    <2>3. Fresh(t) => Fresh(t)'
      BY <1>1, <1>3, <2>1, DaysTyped DEF Fresh
    <2> QED
      BY <1>4, <2>2, <2>3
  <1>5. CASE t \notin Sound
    <2>1. t \in (total + 1)..total'
      BY <1>1, <1>2, <1>5 DEF Sound
    <2>2. ttl'[t] = BUMP_AMOUNT
      BY <2>1 DEF Eased
    <2>3. Fresh(t)'
      BY <1>3, <2>2, DaysTyped DEF Fresh
    <2>4. Days <= Spare(t)'
      BY <1>3, <2>2, DaysTyped DEF Spare
    <2> QED
      BY <1>5, <2>3, <2>4
  <1> QED
    BY <1>4, <1>5

LEMMA EasedKeeps ==
    ASSUME TypeOK, TypeOK', SweepInv, Eased
    PROVE  /\ Cursor' \in 1..LargerOf(total', 1)
           /\ \A t \in Sound' : InTime(t)'
           /\ \A p \in Running : SweepOf(p) => SweepOf(p)'
  <1>1. LargerOf(total, 1) <= LargerOf(total', 1)
        /\ LargerOf(total, 1) \in Nat /\ LargerOf(total', 1) \in Nat
    BY DEF Eased, TypeOK, LargerOf
  <1>2. Cursor' = Cursor /\ Cursor \in 1..LargerOf(total, 1)
    BY DEF Eased, SweepInv
  <1>3. ASSUME NEW t \in Sound' PROVE InTime(t)'
    <2>1. /\ t \in 1..MaxTotal /\ Cursor \in 1..MaxTotal /\ Spare(t)' \in Int
      <3>1. /\ t \in 1..total' /\ total' \in 0..MaxTotal /\ ttl'[t] \in Nat
            /\ faults' \in Nat
        BY DEF TypeOK, Sound, Tokens
      <3>2. faults' * Days \in Nat
        BY <3>1, FaultIsASweep
      <3>3. Spare(t)' \in Int
        BY <3>1, <3>2 DEF Spare
      <3>4. Cursor \in 1..MaxTotal
        BY <1>1, <1>2, <3>1 DEF LargerOf
      <3> QED
        BY <3>1, <3>3, <3>4
    <2>2. Distance(Cursor, t) \in Nat /\ Distance(Cursor, t) < MaxTotal
      BY <2>1, DistanceTyped
    <2>3. CASE t \in Sound /\ Spare(t) <= Spare(t)'
      <3>1. Distance(Cursor, t) < Pace * Spare(t) /\ Spare(t) \in Int
        BY <2>3, SoundTyped DEF SweepInv, InTime
      <3>2. Distance(Cursor, t) < Pace * Spare(t)'
        BY <2>1, <2>2, <2>3, <3>1, MoreDays
      <3> QED
        BY <3>2, <1>2 DEF InTime
    <2>4. CASE Days <= Spare(t)'
      <3>1. Distance(Cursor, t) < Pace * Spare(t)'
        BY <2>1, <2>2, <2>4, SweepIsEnough
      <3> QED
        BY <3>1, <1>2 DEF InTime
    <2> QED
      BY <2>3, <2>4, EasedToken
  <1>4. ASSUME NEW p \in Running, SweepOf(p) PROVE SweepOf(p)'
    <2>1. p.nextTokenId \in 1..LargerOf(total, 1) => p.nextTokenId \in 1..LargerOf(total', 1)
      BY <1>1
    <2>2. ASSUME NEW t \in Sound', \A u \in Sound : Covers(p, u) PROVE Covers(p, t)'
      <3>1. CASE t \in Sound /\ (Fresh(t) => Fresh(t)')
        BY <2>2, <3>1, <1>2 DEF Covers
      <3>2. CASE Fresh(t)'
        BY <3>2 DEF Covers
      <3> QED
        BY <3>1, <3>2, EasedToken
    <2>3. ASSUME NEW t \in Sound', \A u \in Sound : Days <= Spare(u) PROVE Days <= Spare(t)'
      <3>1. CASE t \in Sound /\ Spare(t) <= Spare(t)'
        <4>1. Spare(t) \in Int /\ Spare(t)' \in Int
          <5>1. ttl'[t] \in Nat /\ faults' \in Nat
            BY DEF TypeOK, Sound, Tokens
          <5>2. faults' * Days \in Nat
            BY <5>1, FaultIsASweep
          <5>3. Spare(t)' \in Int
            BY <5>1, <5>2 DEF Spare
          <5> QED
            BY <3>1, <5>3, SoundTyped
        <4> QED
          BY <2>3, <3>1, <4>1, DaysTyped
      <3> QED
        BY <3>1, EasedToken
    <2> QED
      BY <1>4, <2>1, <2>2, <2>3 DEF SweepOf
  <1> QED
    BY <1>1, <1>2, <1>3, <1>4

(* An eased step of the run r.                                              *)
LEMMA EasedStep ==
    ASSUME TypeOK, TypeOK', SweepInv, Eased, NEW r \in Runs, NEW p \in Running \cup {None},
           run' = [run EXCEPT ![r] = p], p # None => SweepOf(p)'
    PROVE  SweepInv'
  <1>1. ASSUME NEW s \in Active', NEW q \in Running, run'[s] = q PROVE SweepOf(q)'
    <2>1. s \in Runs /\ run'[s] # None
      BY DEF Active
    <2>2. CASE s = r
      BY <1>1, <2>1, <2>2 DEF TypeOK
    <2>3. CASE s # r
      <3>1. run[s] = q /\ s \in Active
        BY <1>1, <2>1, <2>3 DEF TypeOK, Active
      <3> QED
        BY <3>1, EasedKeeps DEF SweepInv
    <2> QED
      BY <2>2, <2>3
  <1> QED
    BY <1>1, EasedKeeps DEF SweepInv

(* Nothing but the runs has changed, or a fault.                            *)
LEMMA UnchangedIsEased ==
    ASSUME TypeOK, UNCHANGED <<chainVars, log, sweptToday>>,
           faults' = faults \/ (faults > 0 /\ faults' = faults - 1)
    PROVE  Eased
  <1>1. total' = total /\ ttl' = ttl /\ Cursor' = Cursor /\ sweptToday' = sweptToday
    BY DEF chainVars, Cursor
  <1>2. faults \in Nat /\ faults' <= faults /\ total \in Nat
    BY DEF TypeOK
  <1>3. \A t \in Sound : ttl[t] \in Nat
    BY SoundTyped
  <1> QED
    BY <1>1, <1>2, <1>3 DEF Eased

LEMMA PlanSweeps ==
    ASSUME TypeOK, TypeOK', SweepInv, NEW r \in Runs, Plan(r)
    PROVE  SweepInv'
  <1>1. PICK size \in Nat, tokenIds \in Seq(Tokens) :
           /\ Pace <= size
           /\ PageNext(Cursor, size) \in 1..LargerOf(total, 1)
           /\ \A i \in DOMAIN Page(Cursor, size) :
                 \E k \in DOMAIN tokenIds : tokenIds[k] = Page(Cursor, size)[i]
           /\ PlannedRun(r, size, tokenIds) \in Running
           /\ run' = [run EXCEPT ![r] = PlannedRun(r, size, tokenIds)]
    BY Planned
  <1>2. PICK p : p = PlannedRun(r, size, tokenIds)
    OBVIOUS
  <1>3. p \in Running /\ run' = [run EXCEPT ![r] = p]
    BY <1>1, <1>2
  <1>4. p.stage = "tokens" /\ p.todo = tokenIds /\ p.nextTokenId = PageNext(Cursor, size)
    BY <1>2 DEF PlannedRun
  <1>5. Eased
    BY UnchangedIsEased DEF Plan
  <1>6. SweepOf(p)
    <2>1. ASSUME NEW t \in Sound PROVE Covers(p, t)
      <3>1. Cursor \in 1..total /\ total \in 1..MaxTotal /\ t \in 1..total
        BY SoundTyped DEF SweepInv
      <3>2. CASE \E i \in DOMAIN Page(Cursor, size) : Page(Cursor, size)[i] = t
        BY <1>1, <1>4, <3>2 DEF Covers
      <3>3. CASE Distance(PageNext(Cursor, size), t) + Pace <= Distance(Cursor, t)
        BY <1>4, <3>3 DEF Covers
      <3> QED
        BY <1>1, <3>1, <3>2, <3>3, PageAdvances
    <2> QED
      BY <1>1, <1>4, <2>1 DEF SweepOf
  <1>7. SweepOf(p)'
    BY <1>3, <1>5, <1>6, EasedKeeps
  <1> QED
    BY <1>3, <1>5, <1>7, EasedStep

LEMMA CheckTokenSweeps ==
    ASSUME TypeOK, TypeOK', SweepInv, NEW r \in Runs, CheckToken(r)
    PROVE  SweepInv'
  <1>1. PICK p : p = run[r]
    OBVIOUS
  <1>2. /\ p \in Running /\ p # None /\ p.stage = "tokens" /\ p.todo # <<>>
        /\ p.todo \in Seq(Tokens) /\ p.failed \in Seq(Tokens) /\ p.nextTokenId \in Nat
    <2>1. p \in Running /\ p # None /\ p.stage = "tokens" /\ p.todo # <<>>
      BY <1>1 DEF CheckToken, At, TypeOK
    <2> QED
      BY <2>1, RunningTyped
  <1>3. SweepOf(p)
    BY <1>1, <1>2 DEF SweepInv, Active
  <1> DEFINE h == Head(p.todo)
  <1>4. h \in Tokens
    BY <1>2
  <1>5. PICK failed \in {p.failed, Append(p.failed, h)} : TokenDone(r, failed)
    BY <1>1 DEF CheckToken
  <1>6. PICK q : q = [p EXCEPT !.todo = Tail(p.todo), !.failed = failed]
    OBVIOUS
  <1>7. run' = [run EXCEPT ![r] = q]
    BY <1>1, <1>5, <1>6 DEF TokenDone, TypeOK
  <1>8. q \in Running /\ q.stage = "tokens" /\ q.todo = Tail(p.todo)
        /\ q.nextTokenId = p.nextTokenId
    <2>1. Tail(p.todo) \in Seq(Tokens) /\ Append(p.failed, h) \in Seq(Tokens)
      <3> HIDE DEF h
      <3> QED
        BY <1>2, <1>4
    <2> QED
      <3>1. failed \in Seq(Tokens)
        BY <1>2, <1>5, <2>1
      <3>2. q \in Running
        BY <1>2, <1>6, <2>1, <3>1, RunningUpdated
      <3>3. PICK a, b, c, d, e :
                p = [stage |-> a, age |-> b, todo |-> c, failed |-> d, nextTokenId |-> e]
        BY <1>2, RunningTyped
      <3>4. q = [stage |-> a, age |-> b, todo |-> Tail(p.todo), failed |-> failed,
                 nextTokenId |-> e]
        BY <1>6, <3>3
      <3>5. p.stage = a /\ p.nextTokenId = e
        BY <3>3
      <3> QED
        BY <1>2, <3>2, <3>4, <3>5
  <1> HIDE DEF h
  <1>9. /\ total' = total /\ Cursor' = Cursor /\ sweptToday' = sweptToday
        /\ faults' = faults \/ (faults > 0 /\ faults' = faults - 1)
        /\ ttl' = ttl \/ ttl' = [ttl EXCEPT ![h] = BUMP_AMOUNT]
    BY <1>1, <1>5 DEF CheckToken, TokenDone, Fault, Extend, Cursor, h
  <1>10. Eased
    <2>1. \A t \in Tokens : ttl[t] <= ttl'[t]
      BY <1>4, <1>9 DEF TypeOK
    <2>2. Sound \subseteq Tokens
      BY SoundTyped
    <2> QED
      BY <1>9, <2>1, <2>2 DEF Eased, TypeOK
  <1>11. h \in Sound => Fresh(h)'
    <2> SUFFICES ASSUME h \in Sound PROVE Fresh(h)'
      OBVIOUS
    <2>1. /\ h \notin Poison /\ ttl[h] \in Nat /\ ttl'[h] \in Nat /\ ttl[h] <= ttl'[h]
          /\ faults \in Nat /\ faults <= MaxFaults /\ faults * Days \in Nat
          /\ ttl[h] >= faults * Days + 1
      BY <1>4, <1>9, SoundTyped, SoundSpare DEF TypeOK
    <2>2. ttl[h] > 0
      BY <2>1
    <2>3. CASE ttl[h] > THRESHOLD /\ faults' = faults
      <3>1. (faults + 1) * Days <= THRESHOLD /\ (faults + 1) * Days \in Nat
        BY <2>1, FaultIsASweep, DaysTyped
      <3> QED
        BY <2>1, <2>3, <3>1 DEF Fresh
    <2>4. CASE ttl' = [ttl EXCEPT ![h] = BUMP_AMOUNT] /\ faults' = faults
      <3>1. (faults + 1) * Days <= THRESHOLD /\ (faults + 1) * Days \in Nat
        BY <2>1, FaultIsASweep, DaysTyped
      <3>2. ttl'[h] = BUMP_AMOUNT
        BY <1>4, <2>4 DEF TypeOK
      <3> QED
        BY <2>4, <3>1, <3>2 DEF Fresh
    <2>5. CASE faults > 0 /\ faults' = faults - 1
      <3>1. (faults' + 1) * Days = faults * Days
        BY <2>1, <2>5
      <3> QED
        BY <2>1, <3>1 DEF Fresh
    <2> QED
      BY <1>1, <2>1, <2>2, <2>3, <2>4, <2>5 DEF CheckToken, Due, Extend, Fault, h
  <1>12. SweepOf(p)'
    BY <1>2, <1>3, <1>10, EasedKeeps
  <1>13. ASSUME NEW t \in Sound' PROVE Covers(q, t)'
    <2>1. Covers(p, t)'
      BY <1>2, <1>12 DEF SweepOf
    <2>2. ASSUME NEW i \in DOMAIN p.todo, p.todo[i] = t
          PROVE  t = h \/ \E j \in DOMAIN q.todo : q.todo[j] = t
      <3>1. CASE i = 1
        BY <1>2, <2>2, <3>1 DEF h
      <3>2. CASE i # 1
        <4>1. i - 1 \in DOMAIN Tail(p.todo) /\ Tail(p.todo)[i - 1] = p.todo[i]
          BY <1>2, <3>2
        <4> QED
          BY <1>8, <2>2, <4>1
      <3> QED
        BY <3>1, <3>2
    <2>3. t = h => Fresh(t)'
      BY <1>9, <1>11 DEF Sound
    <2> QED
      BY <1>8, <2>1, <2>2, <2>3 DEF Covers
  <1>14. SweepOf(q)'
    BY <1>2, <1>8, <1>12, <1>13 DEF SweepOf
  <1> QED
    BY <1>7, <1>8, <1>10, <1>14, EasedStep

LEMMA StageSweeps ==
    ASSUME TypeOK, TypeOK', SweepInv, NEW r \in Runs,
           \/ TokensDone(r)
           \/ Throw(r)
           \/ RecordFailure(r) /\ UNCHANGED log
    PROVE  SweepInv'
  <1>1. PICK p : p = run[r]
    OBVIOUS
  <1>2. p \in Running /\ p # None /\ SweepOf(p)
    BY <1>1 DEF TokensDone, Throw, RecordFailure, At, TypeOK, SweepInv, Active
  <1>3. Eased
    BY UnchangedIsEased DEF TokensDone, Throw, RecordFailure, Fault, chainVars
  <1>4. PICK stage \in {"record", "fail", "release"} :
           /\ run' = [run EXCEPT ![r].stage = stage]
           /\ stage = "record" => p.stage = "tokens" /\ p.todo = <<>>
           /\ stage = "fail" => Fault
    BY <1>1 DEF TokensDone, Throw, RecordFailure, At
  <1>5. PICK q : q = [p EXCEPT !.stage = stage]
    OBVIOUS
  <1>6. run' = [run EXCEPT ![r] = q] /\ q \in Running
    <2>1. q \in Running
      BY <1>2, <1>5, RunningUpdated
    <2> QED
      BY <1>1, <1>4, <1>5, <2>1 DEF TypeOK
  <1>7. q.stage = stage /\ q.todo = p.todo /\ q.nextTokenId = p.nextTokenId
    <2>1. PICK a, b, c, d, e :
              p = [stage |-> a, age |-> b, todo |-> c, failed |-> d, nextTokenId |-> e]
      BY <1>2, RunningTyped
    <2>2. q = [stage |-> stage, age |-> b, todo |-> c, failed |-> d, nextTokenId |-> e]
      BY <1>5, <2>1
    <2> QED
      BY <2>1, <2>2
  <1>8. SweepOf(q)'
    <2>1. CASE stage = "record"
      <3>1. SweepOf(q)
        BY <1>2, <1>4, <1>7, <2>1 DEF SweepOf, Covers
      <3> QED
        BY <1>3, <1>6, <3>1, EasedKeeps
    <2>2. CASE stage = "fail"
      <3>1. ASSUME NEW t \in Sound' PROVE Days <= Spare(t)'
        <4>1. UNCHANGED <<total, ttl, sweptToday>> /\ faults > 0 /\ faults' = faults - 1
          BY <1>4, <2>2 DEF Throw, TokensDone, RecordFailure, Fault, chainVars
        <4>2. t \in Sound
          BY <4>1 DEF Sound
        <4>3. /\ Spare(t) >= 1 /\ Spare(t) \in Int /\ ttl[t] \in Nat
              /\ faults \in Nat /\ faults * Days \in Nat
          BY <4>2, SoundTyped, SoundSpare
        <4>4. faults' * Days = faults * Days - Days
          BY <4>1, <4>3, FaultIsASweep
        <4>5. Spare(t)' = Spare(t) + Days
          BY <4>1, <4>3, <4>4, DaysTyped DEF Spare
        <4> QED
          BY <4>3, <4>5, DaysTyped
      <3> QED
        BY <1>7, <2>2, <3>1 DEF SweepOf
    <2>3. CASE stage = "release"
      BY <1>7, <2>3 DEF SweepOf
    <2> QED
      BY <2>1, <2>2, <2>3
  <1> QED
    BY <1>3, <1>6, <1>8, EasedStep

LEMMA EndSweeps ==
    ASSUME TypeOK, TypeOK', SweepInv, NEW r \in Runs,
           Claim(r) \/ Release(r) \/ Die(r) \/ LateRelease(r)
    PROVE  SweepInv'
  <1>1. Eased
    BY UnchangedIsEased DEF Claim, Release, Die, LateRelease, Fault, chainVars
  <1>2. CASE Claim(r)
    <2>1. PICK p : p = [stage |-> "plan", age |-> 0, todo |-> <<>>, failed |-> <<>>,
                        nextTokenId |-> 1]
      OBVIOUS
    <2>2. p \in Running
      BY <2>1 DEF Running
    <2>3. run' = [run EXCEPT ![r] = p]
      BY <1>2, <2>1 DEF Claim
    <2>4. SweepOf(p)'
      BY <2>1 DEF SweepOf
    <2> QED
      BY <1>1, <2>2, <2>3, <2>4, EasedStep
  <1>3. CASE Release(r) \/ Die(r)
    <2>1. run' = [run EXCEPT ![r] = None]
      BY <1>3 DEF Release, Die
    <2> QED
      BY <1>1, <2>1, EasedStep
  <1>4. CASE LateRelease(r)
    <2>1. PICK p : p = run[r]
      OBVIOUS
    <2>2. p \in Running \cup {None} /\ run' = [run EXCEPT ![r] = p]
      BY <1>4, <2>1 DEF LateRelease, TypeOK
    <2>3. p # None => SweepOf(p)'
      <3>1. p # None => SweepOf(p) /\ p \in Running
        BY <2>1, <2>2 DEF SweepInv, Active
      <3> QED
        BY <1>1, <3>1, EasedKeeps
    <2> QED
      BY <1>1, <2>2, <2>3, EasedStep
  <1> QED
    BY <1>2, <1>3, <1>4

(* The cursor moves on: what is not fresh has come nearer by a day's worth. *)
LEMMA RecordSweeps ==
    ASSUME TypeOK, TypeOK', SweepInv, OneKeeper, NEW r \in Runs, Record(r)
    PROVE  SweepInv'
  <1>1. PICK p : p = run[r]
    OBVIOUS
  <1>2. /\ p \in Running /\ p # None /\ p.stage = "record" /\ SweepOf(p)
        /\ p.nextTokenId \in Nat
    <2>1. p \in Running /\ p # None /\ p.stage = "record" /\ SweepOf(p)
      BY <1>1 DEF Record, At, TypeOK, SweepInv, Active
    <2> QED
      BY <2>1, RunningTyped
  <1>3. /\ UNCHANGED <<total, ttl, faults>> /\ sweptToday' = TRUE
        /\ log' = [nextTokenId |-> p.nextTokenId, failedTokenIds |-> p.failed]
        /\ run' = [run EXCEPT ![r].stage = "release"]
    BY <1>1 DEF Record, chainVars
  <1>4. Cursor' = p.nextTokenId
    <2>1. log'.nextTokenId = p.nextTokenId /\ p.nextTokenId # None
      BY <1>2, <1>3, NoneIsNoValue
    <2>2. log' # None
      <3>1. p.failed \in Seq(Tokens)
        BY <1>2, RunningTyped
      <3> QED
        BY <1>2, <1>3, <3>1, NoneIsNoValue
    <2> QED
      BY <2>1, <2>2 DEF Cursor
  <1>5. ASSUME NEW t \in Sound' PROVE InTime(t)'
    <2>1. t \in Sound
      BY <1>3 DEF Sound
    <2>2. /\ Distance(Cursor, t) \in Nat /\ Distance(Cursor, t) < Pace * Spare(t)
          /\ Spare(t) \in Int /\ ttl[t] \in Nat /\ faults \in Nat /\ faults * Days \in Nat
          /\ (faults + 1) * Days = faults * Days + Days
      <3>1. Distance(Cursor, t) < Pace * Spare(t)
        BY <2>1 DEF SweepInv, InTime
      <3>2. Distance(Cursor, t) \in Nat /\ Spare(t) \in Int /\ ttl[t] \in Nat /\ faults \in Nat
        BY <2>1, SoundTyped, SoundSpare
      <3> QED
        BY <3>1, <3>2, FaultIsASweep
    <2>3. Distance(p.nextTokenId, t) \in Nat /\ Distance(p.nextTokenId, t) < MaxTotal
      <3>1. p.nextTokenId \in 1..MaxTotal /\ t \in 1..MaxTotal
        BY <1>2, <2>1, SoundTyped DEF SweepOf
      <3> QED
        BY <3>1, DistanceTyped
    <2>4. Spare(t)' = ttl[t] - faults * Days - 1
      BY <1>3 DEF Spare
    <2>5. CASE Fresh(t)
      <3>1. Days <= Spare(t)' /\ Spare(t)' \in Int
        BY <2>2, <2>4, <2>5, DaysTyped DEF Fresh
      <3>2. Distance(p.nextTokenId, t) < Pace * Spare(t)'
        BY <2>3, <3>1, SweepIsEnough
      <3> QED
        BY <1>4, <3>2 DEF InTime
    <2>6. CASE Distance(p.nextTokenId, t) + Pace <= Distance(Cursor, t)
      <3>1. Distance(p.nextTokenId, t) < Pace * (Spare(t) - 1)
        BY <2>2, <2>3, <2>6, PageIsADay
      <3>2. Spare(t) - 1 <= Spare(t)' /\ Spare(t)' \in Int
        BY <2>2, <2>4 DEF Spare
      <3>3. Distance(p.nextTokenId, t) < Pace * Spare(t)'
        BY <2>2, <2>3, <3>1, <3>2, MoreDays
      <3> QED
        BY <1>4, <3>3 DEF InTime
    <2> QED
      BY <1>2, <2>1, <2>5, <2>6 DEF SweepOf, Covers
  <1>6. Cursor' \in 1..LargerOf(total', 1)
    BY <1>2, <1>3, <1>4 DEF SweepOf
  <1>7. ASSUME NEW s \in Active', NEW q \in Running, run'[s] = q PROVE SweepOf(q)'
    <2>1. s = r
      BY <1>1, <1>2, <1>3, <1>7 DEF OneKeeper, Active, TypeOK
    <2>2. q = [p EXCEPT !.stage = "release"]
      BY <1>1, <1>3, <1>7, <2>1 DEF TypeOK
    <2>3. q.stage = "release"
      BY <1>2, <2>2, RunningTyped DEF Running
    <2> QED
      BY <2>3 DEF SweepOf
  <1> QED
    BY <1>5, <1>6, <1>7 DEF SweepInv

(* The cursor is lost: every token has a sweep's days left.                 *)
LEMMA FailureSweeps ==
    ASSUME TypeOK, TypeOK', SweepInv, OneKeeper, NEW r \in Runs, RecordFailure(r),
           log' = [nextTokenId |-> None, failedTokenIds |-> <<>>], UNCHANGED faults
    PROVE  SweepInv'
  <1>1. PICK p : p = run[r]
    OBVIOUS
  <1>2. p \in Running /\ p # None /\ p.stage = "fail" /\ SweepOf(p)
    BY <1>1 DEF RecordFailure, At, TypeOK, SweepInv, Active
  <1>3. /\ UNCHANGED <<total, ttl, sweptToday>>
        /\ run' = [run EXCEPT ![r].stage = "release"]
    BY DEF RecordFailure, chainVars
  <1>4. Cursor' = 1
    BY DEF Cursor
  <1>5. ASSUME NEW t \in Sound' PROVE InTime(t)'
    <2>1. t \in Sound
      BY <1>3 DEF Sound
    <2>2. Days <= Spare(t)' /\ Spare(t)' \in Int
      <3>1. Spare(t)' = Spare(t)
        BY <1>3 DEF Spare
      <3> QED
        BY <1>2, <2>1, <3>1, SoundTyped DEF SweepOf
    <2>3. Distance(1, t) \in Nat /\ Distance(1, t) < MaxTotal
      <3>1. 1 \in 1..MaxTotal /\ t \in 1..MaxTotal
        BY <2>1, SoundTyped
      <3> QED
        BY <3>1, DistanceTyped
    <2>4. Distance(1, t) < Pace * Spare(t)'
      BY <2>2, <2>3, SweepIsEnough
    <2> QED
      BY <1>4, <2>4 DEF InTime
  <1>6. Cursor' \in 1..LargerOf(total', 1)
    BY <1>4 DEF LargerOf, TypeOK
  <1>7. ASSUME NEW s \in Active', NEW q \in Running, run'[s] = q PROVE SweepOf(q)'
    <2>1. s = r
      BY <1>1, <1>2, <1>3, <1>7 DEF OneKeeper, Active, TypeOK
    <2>2. q = [p EXCEPT !.stage = "release"]
      BY <1>1, <1>3, <1>7, <2>1 DEF TypeOK
    <2>3. q.stage = "release"
      BY <1>2, <2>2, RunningTyped DEF Running
    <2> QED
      BY <2>3 DEF SweepOf
  <1> QED
    BY <1>5, <1>6, <1>7 DEF SweepInv

LEMMA MinuteSweeps ==
    ASSUME TypeOK, TypeOK', SweepInv, Minute
    PROVE  SweepInv'
  <1>1. Eased
    BY UnchangedIsEased DEF Minute, chainVars
  <1>2. ASSUME NEW s \in Active', NEW q \in Running, run'[s] = q PROVE SweepOf(q)'
    <2>1. PICK p : p = run[s]
      OBVIOUS
    <2>2. s \in Runs /\ p # None /\ q = [p EXCEPT !.age = p.age + 1]
      BY <1>2, <2>1 DEF Active, Minute
    <2>3. p \in Running /\ SweepOf(p)
      BY <2>1, <2>2 DEF SweepInv, Active, TypeOK
    <2>4. q.stage = p.stage /\ q.todo = p.todo /\ q.nextTokenId = p.nextTokenId
      <3>1. PICK a, b, c, d, e :
                p = [stage |-> a, age |-> b, todo |-> c, failed |-> d, nextTokenId |-> e]
        BY <2>3, RunningTyped
      <3>2. q = [stage |-> a, age |-> b + 1, todo |-> c, failed |-> d, nextTokenId |-> e]
        BY <2>2, <3>1
      <3> QED
        BY <3>1, <3>2
    <2>5. SweepOf(q)
      BY <2>3, <2>4 DEF SweepOf, Covers
    <2> QED
      BY <1>1, <2>5, EasedKeeps
  <1> QED
    BY <1>1, <1>2, EasedKeeps DEF SweepInv

(* A day costs a day, which the sweep has paid for, or a fault does.        *)
LEMMA DaySweeps ==
    ASSUME TypeOK, TypeOK', SweepInv, Day
    PROVE  SweepInv'
  <1>1. /\ total' = total /\ Cursor' = Cursor /\ sweptToday' = FALSE /\ run' = run
        /\ Active = {}
        /\ IF sweptToday THEN faults' = faults ELSE faults > 0 /\ faults' = faults - 1
    BY DEF Day, Cursor, Fault
  <1>2. ASSUME NEW t \in Sound' PROVE InTime(t)'
    <2>1. t \in Sound
      BY <1>1 DEF Sound
    <2>2. /\ Distance(Cursor, t) \in Nat /\ Distance(Cursor, t) < Pace * Spare(t)
          /\ Spare(t) \in Int /\ ttl[t] \in Nat /\ faults \in Nat /\ faults * Days \in Nat
          /\ ttl[t] >= 1 /\ Days >= 1 /\ t \in 1..total /\ t \in Tokens
      BY <2>1, SoundTyped, SoundSpare, SweepTakesDays DEF SweepInv, InTime
    <2>3. ttl'[t] = ttl[t] - 1
      BY <2>2 DEF Day, TypeOK
    <2>4. faults > 0 => (faults - 1) * Days = faults * Days - Days
      BY <2>2, FaultIsASweep
    <2>5. Spare(t) <= Spare(t)' /\ Spare(t)' \in Int
      <3>1. CASE sweptToday
        BY <1>1, <2>2, <2>3, <3>1 DEF Spare
      <3>2. CASE ~sweptToday
        <4>1. faults' * Days = faults * Days - Days
          BY <1>1, <2>4, <3>2
        <4> QED
          BY <1>1, <2>2, <2>3, <3>2, <4>1, DaysTyped DEF Spare
      <3> QED
        BY <3>1, <3>2
    <2>6. Distance(Cursor, t) < Pace * Spare(t)'
      BY <2>2, <2>5, MoreDays
    <2> QED
      BY <1>1, <2>6 DEF InTime
  <1>3. Active' = {}
    BY <1>1 DEF Active
  <1> QED
    BY <1>1, <1>2, <1>3 DEF SweepInv

LEMMA RunsUnchangedSweep ==
    ASSUME TypeOK, TypeOK', SweepInv, Issue \/ UNCHANGED vars
    PROVE  SweepInv'
  <1>1. Eased
    <2>1. CASE Issue
      <3>1. /\ Cursor' = Cursor /\ sweptToday' = sweptToday /\ faults' = faults
            /\ total \in Nat /\ total' = total + 1 /\ total + 1 \in Tokens
            /\ ttl' = [ttl EXCEPT ![total + 1] = BUMP_AMOUNT]
            /\ faults \in Nat
        BY <2>1 DEF Issue, Cursor, TypeOK, Tokens
      <3>2. \A t \in Tokens : ttl'[t] = IF t = total + 1 THEN BUMP_AMOUNT ELSE ttl[t]
        BY <3>1 DEF TypeOK
      <3>3. \A t \in Sound : t \in Tokens /\ t # total + 1 /\ ttl[t] \in Nat
        BY <3>1, SoundTyped
      <3> QED
        BY <3>1, <3>2, <3>3 DEF Eased
    <2>2. CASE UNCHANGED vars
      BY <2>2, UnchangedIsEased DEF vars
    <2> QED
      BY <2>1, <2>2
  <1>2. run' = run
    BY DEF Issue, vars
  <1>3. ASSUME NEW s \in Active', NEW q \in Running, run'[s] = q PROVE SweepOf(q)'
    <2>1. s \in Active /\ run[s] = q
      BY <1>2, <1>3 DEF Active
    <2> QED
      BY <1>1, <2>1, EasedKeeps DEF SweepInv
  <1> QED
    BY <1>1, <1>3, EasedKeeps DEF SweepInv

LEMMA NextSweeps == TypeOK /\ TypeOK' /\ SweepInv /\ OneKeeper /\ [Next]_vars => SweepInv'
  <1> SUFFICES ASSUME TypeOK, TypeOK', SweepInv, OneKeeper, [Next]_vars PROVE SweepInv'
    OBVIOUS
  <1>1. ASSUME NEW r \in Runs, RecordFailure(r) PROVE SweepInv'
    <2>1. \/ UNCHANGED log
          \/ log' = [nextTokenId |-> None, failedTokenIds |-> <<>>] /\ UNCHANGED faults
      BY <1>1 DEF RecordFailure
    <2> QED
      BY <1>1, <2>1, StageSweeps, FailureSweeps
  <1> QED
    BY <1>1, PlanSweeps, CheckTokenSweeps, StageSweeps, EndSweeps, RecordSweeps,
       MinuteSweeps, DaySweeps, RunsUnchangedSweep DEF Next, Work

LEMMA InitSweeps == Init => SweepInv
  <1> SUFFICES ASSUME Init PROVE SweepInv
    OBVIOUS
  <1>1. Cursor = 1 /\ Active = {}
    BY DEF Init, Cursor, Active
  <1>2. ASSUME NEW t \in Sound PROVE InTime(t)
    <2>1. t \in 1..MaxTotal /\ t \in Tokens
      BY InitTyped, SoundTyped
    <2>2. Distance(1, t) \in Nat /\ Distance(1, t) < MaxTotal
      BY <2>1, DistanceTyped
    <2>3. Spare(t) = BUMP_AMOUNT - MaxFaults * Days
      <3>1. ttl[t] = BUMP_AMOUNT /\ faults = MaxFaults /\ sweptToday = FALSE
        BY <2>1 DEF Init
      <3>2. MaxFaults * Days \in Nat
        BY FaultIsASweep
      <3> QED
        BY <3>1, <3>2 DEF Spare
    <2>4. Days <= Spare(t) /\ Spare(t) \in Int
      <3>1. MaxFaults * Days \in Nat /\ MaxFaults * Days + Days <= THRESHOLD
        BY FaultIsASweep
      <3> QED
        BY <2>3, <3>1, DaysTyped
    <2> QED
      BY <1>1, <2>2, <2>4, SweepIsEnough DEF InTime
  <1>3. Cursor \in 1..LargerOf(total, 1)
    BY <1>1 DEF Init, LargerOf
  <1> QED
    BY <1>1, <1>2, <1>3 DEF SweepInv

(* Where the threshold leaves the days of a sweep for each fault and one    *)
(* sweep more, no token that can be bumped is archived: whatever the size   *)
(* of a page, however many tokens fail for ever, wherever a run ends and    *)
(* whenever its cursor is lost.                                             *)
THEOREM NoTokenArchived == Spec => []NoneArchived
  <1>1. Spec => []TypeOK
    BY KeeperTyped
  <1>2. Spec => []OneKeeper
    BY OnlyOneKeeper
  <1> QED
    BY <1>1, <1>2, InitSweeps, NextSweeps, SweepSuffices, PTL DEF Spec
===============================================================================
