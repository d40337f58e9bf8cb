-------------------------- MODULE RateLimiter_proofs --------------------------
(* Theorems about RateLimiter, for any number of server instances, any      *)
(* budget and any length of the window.                                     *)
EXTENDS RateLimiter, TLAPS

(* A bucket is about: its window has begun and has not ended.               *)
Open(bucket) == bucket.resetAt > now /\ bucket.resetAt <= now + windowSeconds

(* Who opened an instance's bucket was let through.                         *)
LocalOpened(i) ==
    Open(local[i]) /\ local[i].resetAt - windowSeconds <= lastAdmitted

(* Who opened the shared bucket was let through, or got no answer and was   *)
(* refused by an instance whose own bucket was open, hence had been opened  *)
(* by somebody let through less than a window before.                       *)
SharedOpened ==
    Open(shared) /\ shared.resetAt - 2 * windowSeconds < lastAdmitted

Opened ==
    /\ shared # None => SharedOpened
    /\ \A i \in Instances : local[i] # None => LocalOpened(i)

(* The k-th of the requests let through at `times', counted from the newest,*)
(* belongs to the window that begins at `start'.                            *)
InWindow(times, k, start) == times[k] >= start

(* A window holds no more requests than its count, nor than the budget; a   *)
(* budget before a request of an earlier window, a whole window has passed. *)
WindowCounts(times, start, count) ==
    /\ \A k \in Places : InWindow(times, k, start) => k < count /\ k < maxRequests
    /\ \A k \in 0..maxRequests :
          ~InWindow(times, k, start) => times[k + maxRequests] < start - windowSeconds

Counted ==
    IF shared = None THEN WindowCounts(answered, now, 0)
    ELSE WindowCounts(answered, shared.resetAt - windowSeconds, shared.count)

(* NoLockout and AdmissionBounded, strengthened.                            *)
IInv == TypeOK /\ Opened /\ Counted /\ NoLockout /\ AdmissionBounded

USE LimiterConstantsOK DEF LimiterConstantsOK

-----------------------------------------------------------------------------

(* What counting a request does to a bucket.                                *)
LEMMA IncrementTyped ==
    ASSUME NEW bucket \in Bucket \cup {None}, now \in Nat
    PROVE  Increment(bucket) \in Bucket
  BY DEF Increment, Bucket

LEMMA IncrementOpens ==
    ASSUME now \in Nat
    PROVE  /\ Increment(None).resetAt = now + windowSeconds
           /\ Increment(None).count = 1
           /\ Within(Increment(None))
  BY DEF Increment, Within

LEMMA IncrementCounts ==
    ASSUME NEW bucket \in Bucket, bucket # None
    PROVE  /\ Increment(bucket).resetAt = bucket.resetAt
           /\ bucket.count <= Increment(bucket).count
           /\ Within(Increment(bucket)) => Increment(bucket).count = bucket.count + 1
  BY DEF Increment, Within, Bucket

(* The places and their times.                                              *)
LEMMA PlacesTyped ==
    ASSUME TypeOK
    PROVE  /\ now \in Nat
           /\ \A k \in Places : answered[k] \in Int /\ answered[k] <= now /\ k \in Nat
           /\ \A k \in 0..maxRequests : k \in Places /\ k + maxRequests \in Places
           /\ 2 * maxRequests \in Places /\ 2 * maxRequests - 1 \in Places /\ 0 \in Places
           /\ lastAdmitted \in Int /\ lastAdmitted <= now
  BY DEF TypeOK, Places, Time, Never

LEMMA InitIInv == Init => IInv
  <1> SUFFICES ASSUME Init PROVE IInv
    OBVIOUS
  <1>1. Never \in Never..now /\ Never < now /\ Never < now - windowSeconds
    BY DEF Init, Never
  <1>2. answered \in [Places -> Never..now] /\ lastAdmitted \in Never..now
    BY <1>1 DEF Init
  <1>3. now \in Time
    BY DEF Init, Time
  <1>4. local \in [Instances -> Bucket \cup {None}] /\ currentMode \in [Instances -> Modes]
    BY DEF Init, Modes
  <1>5. TypeOK
    BY <1>2, <1>3, <1>4 DEF Init, TypeOK
  <1>6. Counted
    <2>1. \A k \in Places : answered[k] = Never
      BY DEF Init
    <2>2. \A k \in 0..maxRequests : answered[k + maxRequests] = Never
      BY <1>5, <2>1, PlacesTyped
    <2>3. \A k \in Places : ~InWindow(answered, k, now)
      BY <1>1, <2>1 DEF InWindow, Init, Never
    <2> QED
      BY <1>1, <2>2, <2>3 DEF Counted, WindowCounts, Init
  <1>7. AdmissionBounded
    BY <1>5, PlacesTyped DEF Init, AdmissionBounded
  <1> QED
    BY <1>5, <1>6, <1>7 DEF Init, IInv, Opened, NoLockout

(* An answer that lets through is remembered; the others change nothing.    *)
LEMMA AnswerEffect ==
    ASSUME TypeOK, NEW bucket \in Bucket, Answer(bucket)
    PROVE  /\ lastAdmitted' \in Never..now
           /\ verdict' \in Verdicts
           /\ lastAdmitted <= lastAdmitted'
           /\ Within(bucket) => lastAdmitted' = now
           /\ verdict' = "429" => ~Within(bucket)
  BY DEF TypeOK, Answer, Verdicts, Time, Never

(* An instance's own bucket after a request: open, and opened by somebody   *)
(* let through.                                                             *)
LEMMA LocalStep ==
    ASSUME IInv, NEW i \in Instances, Answer(Increment(local[i]))
    PROVE  LET after == Increment(local[i]) IN
           /\ after \in Bucket
           /\ Open(after)
           /\ after.resetAt - windowSeconds <= lastAdmitted'
  <1>1. now \in Nat /\ local[i] \in Bucket \cup {None}
    BY DEF IInv, TypeOK, Time
  <1>2. Increment(local[i]) \in Bucket
    BY <1>1, IncrementTyped
  <1>3. CASE local[i] = None
    <2>1. Increment(local[i]).resetAt = now + windowSeconds /\ Within(Increment(local[i]))
      BY <1>1, <1>3, IncrementOpens
    <2>2. lastAdmitted' = now
      BY <2>1, <1>2, AnswerEffect DEF IInv
    <2> QED
      BY <1>1, <1>2, <2>1, <2>2 DEF Open
  <1>4. CASE local[i] # None
    <2>1. Increment(local[i]).resetAt = local[i].resetAt
      BY <1>1, <1>4, IncrementCounts
    <2>2. LocalOpened(i)
      BY <1>4 DEF IInv, Opened
    <2>3. lastAdmitted <= lastAdmitted' /\ lastAdmitted \in Int /\ lastAdmitted' \in Int
      BY <1>2, AnswerEffect, PlacesTyped DEF IInv, Never
    <2> QED
      BY <1>2, <2>1, <2>2, <2>3 DEF LocalOpened, Open, Bucket
  <1> QED
    BY <1>3, <1>4

(* The same of the shared bucket, when Redis answers.                       *)
LEMMA SharedStep ==
    ASSUME IInv, Answer(Increment(shared))
    PROVE  LET after == Increment(shared) IN
           /\ after \in Bucket
           /\ Open(after)
           /\ after.resetAt - 2 * windowSeconds < lastAdmitted'
  <1>1. now \in Nat /\ shared \in Bucket \cup {None}
    BY DEF IInv, TypeOK, Time
  <1>2. Increment(shared) \in Bucket
    BY <1>1, IncrementTyped
  <1>3. CASE shared = None
    <2>1. Increment(shared).resetAt = now + windowSeconds /\ Within(Increment(shared))
      BY <1>1, <1>3, IncrementOpens
    <2>2. lastAdmitted' = now
      BY <2>1, <1>2, AnswerEffect DEF IInv
    <2> QED
      BY <1>1, <1>2, <2>1, <2>2 DEF Open
  <1>4. CASE shared # None
    <2>1. Increment(shared).resetAt = shared.resetAt
      BY <1>1, <1>4, IncrementCounts
    <2>2. SharedOpened
      BY <1>4 DEF IInv, Opened
    <2>3. lastAdmitted <= lastAdmitted' /\ lastAdmitted \in Int /\ lastAdmitted' \in Int
      BY <1>2, AnswerEffect, PlacesTyped DEF IInv, Never
    <2> QED
      BY <1>2, <2>1, <2>2, <2>3 DEF SharedOpened, Open, Bucket
  <1> QED
    BY <1>3, <1>4

(* A bucket opened earlier is still opened after an answer.                 *)
LEMMA StaysOpened ==
    ASSUME TypeOK, now' = now, lastAdmitted' \in Int, lastAdmitted <= lastAdmitted'
    PROVE  /\ \A i \in Instances :
                 local[i] # None /\ LocalOpened(i) /\ local'[i] = local[i] => LocalOpened(i)'
           /\ shared # None /\ SharedOpened /\ shared' = shared => SharedOpened'
  <1>1. ASSUME NEW i \in Instances, local[i] # None, LocalOpened(i), local'[i] = local[i]
        PROVE  LocalOpened(i)'
    <2>1. lastAdmitted \in Int
      BY PlacesTyped
    <2>2. local[i].resetAt - windowSeconds <= lastAdmitted /\ Open(local[i])
      BY <1>1 DEF LocalOpened
    <2>3. local[i].resetAt \in Int
      BY <1>1 DEF TypeOK, Bucket
    <2> QED
      BY <1>1, <2>1, <2>2, <2>3 DEF LocalOpened, Open
  <1>2. ASSUME shared # None, SharedOpened, shared' = shared PROVE SharedOpened'
    <2>1. lastAdmitted \in Int /\ shared.resetAt \in Int
      BY <1>2, PlacesTyped DEF TypeOK, Bucket
    <2> QED
      BY <1>2, <2>1 DEF SharedOpened, Open
  <1> QED
    BY <1>1, <1>2
-----------------------------------------------------------------------------
(* The shared window and what it has let through.                           *)

LEMMA WindowTyped ==
    ASSUME TypeOK, shared # None
    PROVE  /\ shared.resetAt \in Nat /\ shared.count \in Nat
           /\ shared.resetAt - windowSeconds \in Int
  BY DEF TypeOK, Bucket

(* A request is let through in a window that had room for it: the one two   *)
(* budgets before it is older than the window before.                       *)
LEMMA WindowTakesOne ==
    ASSUME TypeOK, NEW start \in Int, NEW count \in Nat, NEW after \in Nat,
           WindowCounts(answered, start, count), count + 1 <= after, after <= maxRequests,
           start <= now, now' = now, answered' = Admitted
    PROVE  /\ WindowCounts(answered', start, after)
           /\ answered'[0] = now
           /\ answered'[2 * maxRequests] < now - windowSeconds
  <1>1. /\ \A k \in Places : answered[k] \in Int /\ k \in Nat
        /\ \A k \in 0..maxRequests : k \in Places /\ k + maxRequests \in Places
        /\ now \in Int
    BY PlacesTyped
  <1>2. \A k \in Places : answered'[k] = IF k = 0 THEN now ELSE answered[k - 1]
    BY DEF Admitted
  <1>3. ASSUME NEW k \in Places, k # 0
        PROVE  k - 1 \in Places /\ answered'[k] = answered[k - 1]
    BY <1>2, <1>3 DEF Places
  <1>4. ASSUME NEW k \in Places, InWindow(answered', k, start)
        PROVE  k < after /\ k < maxRequests
    <2>1. CASE k = 0
      BY <2>1
    <2>2. CASE k # 0
      <3>1. k - 1 \in Places /\ InWindow(answered, k - 1, start)
        BY <1>3, <1>4, <2>2 DEF InWindow
      <3>2. k - 1 < count
        BY <3>1 DEF WindowCounts
      <3> QED
        BY <1>1, <3>2
    <2> QED
      BY <2>1, <2>2
  <1>5. ASSUME NEW k \in 0..maxRequests, ~InWindow(answered', k, start)
        PROVE  answered'[k + maxRequests] < start - windowSeconds
    <2>1. k # 0
      BY <1>1, <1>2, <1>5 DEF InWindow
    <2>2. k - 1 \in 0..maxRequests /\ ~InWindow(answered, k - 1, start)
      BY <1>1, <1>3, <1>5, <2>1 DEF InWindow
    <2>3. answered[(k - 1) + maxRequests] < start - windowSeconds
      BY <2>2 DEF WindowCounts
    <2>4. (k - 1) + maxRequests = (k + maxRequests) - 1 /\ k + maxRequests # 0
          /\ k + maxRequests \in Places
      BY <1>1, <2>1
    <2> QED
      BY <1>3, <2>3, <2>4
  <1>6. answered'[0] = now
    BY <1>1, <1>2
  <1>7. answered'[2 * maxRequests] < now - windowSeconds
    <2>1. maxRequests - 1 \in 0..maxRequests /\ maxRequests - 1 \in Places
      BY <1>1
    <2>2. ~InWindow(answered, maxRequests - 1, start)
      BY <2>1 DEF WindowCounts
    <2>3. answered[(maxRequests - 1) + maxRequests] < start - windowSeconds
      BY <2>1, <2>2 DEF WindowCounts
    <2>4. answered'[2 * maxRequests] = answered[2 * maxRequests - 1]
          /\ 2 * maxRequests - 1 \in Places
      BY <1>3, PlacesTyped
    <2>5. (maxRequests - 1) + maxRequests = 2 * maxRequests - 1
      OBVIOUS
    <2> QED
      BY <1>1, <2>3, <2>4, <2>5
  <1> QED
    BY <1>4, <1>5, <1>6, <1>7 DEF WindowCounts, Places

(* A window counts requests it does not let through, too.                   *)
LEMMA WindowCountsMore ==
    ASSUME NEW start \in Int, NEW count \in Nat, NEW after \in Nat,
           WindowCounts(answered, start, count), count <= after, UNCHANGED answered
    PROVE  WindowCounts(answered', start, after)
  <1>1. \A k \in Places : k \in Nat
    BY DEF Places
  <1> QED
    BY <1>1 DEF WindowCounts, InWindow, Places

(* Whether or not a bucket is about, the one that counts a request has room *)
(* for one more than before.                                                *)
LEMMA CountedBefore ==
    ASSUME IInv
    PROVE  LET after == Increment(shared)
               start == after.resetAt - windowSeconds
           IN  \E count \in Nat : /\ WindowCounts(answered, start, count)
                                  /\ count <= after.count
                                  /\ Within(after) => count + 1 <= after.count
                                  /\ start \in Int /\ start <= now
                                  /\ after.count \in Nat
  <1>1. now \in Nat /\ shared \in Bucket \cup {None}
    BY DEF IInv, TypeOK, Time
  <1>2. CASE shared = None
    <2>1. /\ Increment(shared).resetAt = now + windowSeconds
          /\ Increment(shared).count = 1
      BY <1>1, <1>2, IncrementOpens
    <2>2. WindowCounts(answered, now, 0)
      BY <1>2 DEF IInv, Counted
    <2>3. Increment(shared).resetAt - windowSeconds = now
      BY <1>1, <2>1
    <2> QED
      BY <1>1, <2>1, <2>2, <2>3
  <1>3. CASE shared # None
    <2>1. /\ Increment(shared).resetAt = shared.resetAt
          /\ shared.count <= Increment(shared).count
          /\ Within(Increment(shared)) => Increment(shared).count = shared.count + 1
          /\ Increment(shared) \in Bucket
      BY <1>1, <1>3, IncrementCounts, IncrementTyped
    <2>2. WindowCounts(answered, shared.resetAt - windowSeconds, shared.count)
      BY <1>3 DEF IInv, Counted
    <2>3. /\ shared.resetAt \in Nat /\ shared.count \in Nat
          /\ shared.resetAt - windowSeconds \in Int
          /\ Increment(shared).count \in Nat
      BY <1>3, <2>1, WindowTyped DEF IInv, Bucket
    <2>4. shared.resetAt - windowSeconds <= now
      BY <1>1, <1>3, <2>3 DEF IInv, Opened, SharedOpened, Open
    <2>5. Within(Increment(shared)) => shared.count + 1 <= Increment(shared).count
      BY <2>1, <2>3
    <2> QED
      BY <2>1, <2>2, <2>3, <2>4, <2>5
  <1> QED
    BY <1>2, <1>3

-----------------------------------------------------------------------------
(* The steps.                                                               *)

LEMMA DistributedKeeps ==
    ASSUME IInv, NEW i \in Instances, Distributed(i)
    PROVE  IInv'
  <1> DEFINE after == Increment(shared)
             start == after.resetAt - windowSeconds
  <1>1. /\ after \in Bucket
        /\ Open(after)
        /\ after.resetAt - 2 * windowSeconds < lastAdmitted'
    BY SharedStep DEF Distributed
  <1>2. /\ lastAdmitted' \in Never..now
        /\ verdict' \in Verdicts
        /\ lastAdmitted <= lastAdmitted'
    BY <1>1, AnswerEffect DEF Distributed, IInv
  <1>3. now' = now /\ shared' = after /\ local' = local /\ after # None /\ now \in Nat
    BY <1>1, PlacesTyped DEF Distributed, Bucket, Open, IInv, TypeOK
  <1>4. PICK count \in Nat : /\ WindowCounts(answered, start, count)
                             /\ count <= after.count
                             /\ Within(after) => count + 1 <= after.count
                             /\ start \in Int /\ start <= now
                             /\ after.count \in Nat
    BY CountedBefore
  <1> HIDE DEF start
  <1>5. /\ WindowCounts(answered', start, after.count)
        /\ answered' \in [Places -> Never..now]
        /\ AdmissionBounded'
    <2>1. CASE Within(after)
      <3>1. answered' = Admitted /\ after.count <= maxRequests
        BY <1>3, <2>1 DEF Distributed, Within
      <3>2. /\ WindowCounts(answered', start, after.count)
            /\ answered'[0] = now
            /\ answered'[2 * maxRequests] < now - windowSeconds
        BY <1>3, <1>4, <2>1, <3>1, WindowTakesOne DEF IInv
      <3>3. answered' \in [Places -> Never..now]
        BY <1>3, <3>1 DEF Admitted, IInv, TypeOK, Places, Never
      <3>4. AdmissionBounded'
        <4>1. answered'[2 * maxRequests] \in Int
          BY <3>3, PlacesTyped DEF IInv, Never
        <4> QED
          BY <1>3, <3>2, <4>1 DEF AdmissionBounded
      <3> QED
        BY <3>2, <3>3, <3>4
    <2>2. CASE ~Within(after)
      <3>1. answered' = answered
        BY <1>3, <2>2 DEF Distributed
      <3>2. WindowCounts(answered', start, after.count)
        BY <1>4, <3>1, WindowCountsMore
      <3>3. answered' \in [Places -> Never..now] /\ AdmissionBounded'
        BY <3>1 DEF IInv, TypeOK, AdmissionBounded
      <3> QED
        BY <3>2, <3>3
    <2> QED
      BY <2>1, <2>2
  <1>6. TypeOK'
    BY <1>1, <1>2, <1>3, <1>5 DEF IInv, TypeOK, Distributed, Modes
  <1>7. NoLockout'
    BY <1>1, <1>2, <1>3 DEF NoLockout, Open, Bucket, Never
  <1>8. Opened'
    <2>1. SharedOpened'
      BY <1>1, <1>3 DEF SharedOpened, Open
    <2>2. lastAdmitted' \in Int
      BY <1>2 DEF Never
    <2>3. \A j \in Instances : local'[j] # None => LocalOpened(j)'
      BY <1>2, <1>3, <2>2, StaysOpened DEF IInv, Opened
    <2> QED
      BY <2>1, <2>3 DEF Opened
  <1>9. Counted'
    BY <1>3, <1>5 DEF Counted, start
  <1> QED
    BY <1>5, <1>6, <1>7, <1>8, <1>9 DEF IInv

(* An answer from an instance's own bucket.                                 *)
LEMMA FromMemory ==
    ASSUME IInv, NEW i \in Instances,
           now' = now, local' = [local EXCEPT ![i] = Increment(@)],
           Answer(local'[i])
    PROVE  /\ local' \in [Instances -> Bucket \cup {None}]
           /\ lastAdmitted' \in Never..now /\ verdict' \in Verdicts
           /\ LocalOpened(i)'
           /\ \A j \in Instances : local'[j] # None => LocalOpened(j)'
           /\ NoLockout'
           /\ lastAdmitted' \in Int /\ lastAdmitted <= lastAdmitted'
  <1> DEFINE after == Increment(local[i])
  <1>1. local'[i] = after /\ \A j \in Instances \ {i} : local'[j] = local[j]
    BY DEF IInv, TypeOK
  <1>2. /\ after \in Bucket
        /\ Open(after)
        /\ after.resetAt - windowSeconds <= lastAdmitted'
    BY <1>1, LocalStep
  <1>3. /\ lastAdmitted' \in Never..now /\ verdict' \in Verdicts
        /\ lastAdmitted' \in Int /\ lastAdmitted <= lastAdmitted'
    BY <1>1, <1>2, AnswerEffect DEF IInv, Never
  <1>4. LocalOpened(i)'
    BY <1>1, <1>2 DEF LocalOpened, Open
  <1>5. \A j \in Instances \ {i} : local'[j] # None => LocalOpened(j)'
    BY <1>1, <1>3, StaysOpened DEF IInv, Opened
  <1>6. NoLockout'
    <2>1. after.resetAt \in Nat /\ now \in Nat
      BY <1>2 DEF Bucket, IInv, TypeOK, Time
    <2> QED
      BY <1>2, <1>3, <2>1 DEF NoLockout, Open
  <1>7. local' \in [Instances -> Bucket \cup {None}]
    BY <1>2 DEF IInv, TypeOK
  <1> QED
    BY <1>3, <1>4, <1>5, <1>6, <1>7

LEMMA FallBackKeeps ==
    ASSUME IInv, NEW i \in Instances, FallBack(i)
    PROVE  IInv'
  <1>1. /\ now' = now /\ local' = [local EXCEPT ![i] = Increment(@)] /\ Answer(local'[i])
        /\ answered' = answered
    BY DEF FallBack
  <1>2. /\ local' \in [Instances -> Bucket \cup {None}]
        /\ lastAdmitted' \in Never..now /\ verdict' \in Verdicts
        /\ LocalOpened(i)'
        /\ \A j \in Instances : local'[j] # None => LocalOpened(j)'
        /\ NoLockout'
        /\ lastAdmitted' \in Int /\ lastAdmitted <= lastAdmitted'
    BY <1>1, FromMemory
  <1>3. shared' \in Bucket \cup {None}
    BY IncrementTyped DEF FallBack, IInv, TypeOK, Time
  <1>4. TypeOK'
    BY <1>1, <1>2, <1>3 DEF IInv, TypeOK, FallBack, Modes
  <1>5. AdmissionBounded'
    BY <1>1 DEF IInv, AdmissionBounded
  <1>6. CASE shared' = shared
    <2>1. Counted'
      BY <1>1, <1>6 DEF IInv, Counted, WindowCounts, InWindow, Places
    <2>2. Opened'
      BY <1>1, <1>2, <1>6, StaysOpened DEF IInv, Opened
    <2> QED
      BY <1>2, <1>4, <1>5, <2>1, <2>2 DEF IInv
  <1>7. CASE shared' # shared
    <2> DEFINE after == Increment(shared)
               start == after.resetAt - windowSeconds
    <2>1. shared' = after /\ after \in Bucket /\ after # None
      <3>1. shared' = after
        BY <1>7 DEF FallBack
      <3>2. after \in Bucket
        BY IncrementTyped DEF IInv, TypeOK, Time
      <3>3. after # None
        BY <3>1, <1>7, IncrementTyped DEF Increment, IInv, TypeOK, Bucket
      <3> QED
        BY <3>1, <3>2, <3>3
    <2>2. Counted'
      <3>1. PICK count \in Nat : /\ WindowCounts(answered, start, count)
                                 /\ count <= after.count
                                 /\ start \in Int
                                 /\ after.count \in Nat
        BY CountedBefore
      <3> HIDE DEF start
      <3>2. WindowCounts(answered', start, after.count)
        BY <1>1, <3>1, WindowCountsMore
      <3> QED
        BY <2>1, <3>2 DEF Counted, start
    <2>3. CASE shared # None
      <3>1. shared'.resetAt = shared.resetAt /\ SharedOpened
        BY <2>1, <2>3, IncrementCounts DEF IInv, TypeOK, Opened
      <3>2. shared.resetAt \in Int /\ lastAdmitted \in Int /\ windowSeconds \in Int
        BY <2>3, WindowTyped, PlacesTyped DEF IInv
      <3>3. SharedOpened'
        BY <1>1, <1>2, <3>1, <3>2 DEF SharedOpened, Open
      <3> QED
        BY <1>2, <1>4, <1>5, <2>2, <3>3 DEF IInv, Opened
    <2>4. CASE shared = None
      (* It opens the shared bucket now; its instance's was opened before.  *)
      <3>1. shared'.resetAt = now + windowSeconds /\ now \in Nat
        BY <2>1, <2>4, IncrementOpens DEF IInv, TypeOK, Time
      <3>2. /\ now < local'[i].resetAt /\ local'[i].resetAt - windowSeconds <= lastAdmitted'
            /\ local'[i].resetAt \in Int
        <4>1. local'[i] \in Bucket
          BY <1>1, IncrementTyped DEF IInv, TypeOK, Time
        <4> QED
          BY <1>1, <1>2, <4>1 DEF LocalOpened, Open, Bucket
      <3>3. SharedOpened'
        BY <1>1, <1>2, <3>1, <3>2 DEF SharedOpened, Open
      <3> QED
        BY <1>2, <1>4, <1>5, <2>2, <3>3 DEF IInv, Opened
    <2> QED
      BY <2>3, <2>4
  <1> QED
    BY <1>6, <1>7

LEMMA InMemoryKeeps ==
    ASSUME IInv, NEW i \in Instances, InMemory(i)
    PROVE  IInv'
  <1>1. /\ now' = now /\ local' = [local EXCEPT ![i] = Increment(@)] /\ Answer(local'[i])
        /\ answered' = answered /\ shared' = shared
    BY DEF InMemory
  <1>2. /\ local' \in [Instances -> Bucket \cup {None}]
        /\ lastAdmitted' \in Never..now /\ verdict' \in Verdicts
        /\ \A j \in Instances : local'[j] # None => LocalOpened(j)'
        /\ NoLockout'
        /\ lastAdmitted' \in Int /\ lastAdmitted <= lastAdmitted'
    BY <1>1, FromMemory
  <1>3. TypeOK'
    BY <1>1, <1>2 DEF IInv, TypeOK, InMemory
  <1>4. Counted' /\ AdmissionBounded'
    BY <1>1 DEF IInv, Counted, WindowCounts, InWindow, Places, AdmissionBounded
  <1> QED
    BY <1>1, <1>2, <1>3, <1>4, StaysOpened DEF IInv, Opened

(* Requests refused for the mode, and new instances, leave no bucket that   *)
(* nobody has opened.                                                       *)
LEMMA OthersKeep ==
    ASSUME IInv, NEW i \in Instances, Misconfigured(i) \/ ColdStart(i)
    PROVE  IInv'
  <1>1. TypeOK'
    BY DEF IInv, TypeOK, Misconfigured, ColdStart, Verdicts, Modes
  <1>2. /\ now' = now /\ lastAdmitted' = lastAdmitted /\ shared' = shared
        /\ answered' = answered
        /\ \A j \in Instances : local'[j] \in {None, local[j]}
    BY DEF IInv, TypeOK, Misconfigured, ColdStart
  <1>3. Opened'
    <2>1. lastAdmitted' \in Int /\ lastAdmitted <= lastAdmitted'
      BY <1>2, PlacesTyped DEF IInv
    <2> QED
      BY <1>2, <2>1, StaysOpened DEF IInv, Opened
  <1>4. NoLockout'
    BY <1>2 DEF IInv, NoLockout, Misconfigured, ColdStart
  <1>5. Counted' /\ AdmissionBounded'
    BY <1>2 DEF IInv, Counted, WindowCounts, InWindow, Places, AdmissionBounded
  <1> QED
    BY <1>1, <1>3, <1>4, <1>5 DEF IInv

(* When the shared window ends, a whole window has passed since it began.   *)
LEMMA WindowEnds ==
    ASSUME IInv, Tick
    PROVE  Counted'
  <1>1. /\ now \in Nat /\ now' = now + 1 /\ answered' = answered
        /\ shared' = IF Ended(shared) THEN None ELSE shared
    BY PlacesTyped DEF Tick, IInv
  <1>2. \A k \in Places : answered[k] \in Int /\ answered[k] <= now
    BY PlacesTyped DEF IInv
  <1>3. \A k \in 0..maxRequests : k \in Places /\ k + maxRequests \in Places
    BY PlacesTyped DEF IInv
  <1>4. \A k \in Places : ~InWindow(answered', k, now')
    BY <1>1, <1>2 DEF InWindow
  <1>5. CASE shared # None /\ ~Ended(shared)
    BY <1>1, <1>5 DEF IInv, Counted, WindowCounts, InWindow, Places
  <1>6. CASE shared = None \/ Ended(shared)
    <2>1. shared' = None
      BY <1>1, <1>6
    <2>2. ASSUME NEW k \in 0..maxRequests
          PROVE  answered[k + maxRequests] < now + 1 - windowSeconds
      <3>1. CASE shared = None
        <4>1. WindowCounts(answered, now, 0)
          BY <3>1 DEF IInv, Counted
        <4>2. ~InWindow(answered, k, now)
          BY <1>3, <4>1 DEF WindowCounts, Places
        <4>3. answered[k + maxRequests] < now - windowSeconds
          BY <4>1, <4>2 DEF WindowCounts
        <4> QED
          BY <1>1, <1>2, <1>3, <4>3
      <3>2. CASE shared # None
        <4> DEFINE start == shared.resetAt - windowSeconds
        <4>1. WindowCounts(answered, start, shared.count) /\ start \in Int /\ shared.resetAt \in Int
          BY <3>2, WindowTyped DEF IInv, Counted
        <4>2. start <= now + 1 - windowSeconds
          BY <1>1, <1>6, <3>2, <4>1 DEF Ended
        <4> HIDE DEF start
        <4>3. answered[k + maxRequests] \in Int /\ k + maxRequests \in Places
              /\ k + maxRequests >= maxRequests
          BY <1>2, <1>3
        <4>4. answered[k + maxRequests] < start
          BY <4>1, <4>3 DEF WindowCounts, InWindow
        <4> QED
          BY <1>1, <4>1, <4>2, <4>3, <4>4
      <3> QED
        BY <3>1, <3>2
    <2> QED
      BY <1>1, <1>4, <2>1, <2>2 DEF Counted, WindowCounts, Places
  <1> QED
    BY <1>5, <1>6

LEMMA TickKeeps ==
    ASSUME IInv, Tick
    PROVE  IInv'
  <1>1. TypeOK'
    <2>1. answered' \in [Places -> Never..now'] /\ lastAdmitted' \in Never..now'
          /\ now' \in Time
      BY DEF IInv, TypeOK, Tick, Time, Never
    <2> QED
      BY <2>1 DEF IInv, TypeOK, Tick
  <1>2. shared' # None => SharedOpened'
    BY DEF IInv, TypeOK, Opened, SharedOpened, Open, Tick, Ended, Time, Bucket
  <1>3. \A j \in Instances : local'[j] # None => LocalOpened(j)'
    BY DEF IInv, TypeOK, Opened, LocalOpened, Open, Tick, Ended, Time, Bucket
  <1>4. NoLockout' /\ AdmissionBounded'
    BY DEF IInv, NoLockout, AdmissionBounded, Tick, Verdicts
  <1> QED
    BY <1>1, <1>2, <1>3, <1>4, WindowEnds DEF IInv, Opened

LEMMA StutterKeeps ==
    ASSUME IInv, UNCHANGED vars
    PROVE  IInv'
  BY DEF IInv, TypeOK, Opened, LocalOpened, SharedOpened, Open, Counted, WindowCounts,
         InWindow, NoLockout, AdmissionBounded, vars

LEMMA NextIInv == IInv /\ [Next]_vars => IInv'
  <1> SUFFICES ASSUME IInv, [Next]_vars PROVE IInv'
    OBVIOUS
  <1>1. ASSUME NEW i \in Instances, EnforceRateLimit(i) PROVE IInv'
    BY <1>1, DistributedKeeps, FallBackKeeps, InMemoryKeeps DEF EnforceRateLimit
  <1>2. ASSUME NEW i \in Instances, GatedRoute(i) PROVE IInv'
    BY <1>1, <1>2, OthersKeep DEF GatedRoute
  <1>3. ASSUME NEW i \in Instances, PlainRoute(i) PROVE IInv'
    BY <1>1, <1>3 DEF PlainRoute
  <1>4. ASSUME NEW i \in Instances, ColdStart(i) PROVE IInv'
    BY <1>4, OthersKeep
  <1>5. CASE Tick
    BY <1>5, TickKeeps
  <1>6. CASE UNCHANGED vars
    BY <1>6, StutterKeeps
  <1> QED
    BY <1>2, <1>3, <1>4, <1>5, <1>6 DEF Next

(* Types.                                                                   *)
THEOREM LimiterTyped == Spec => []TypeOK
  <1>1. IInv => TypeOK
    BY DEF IInv
  <1> QED
    BY InitIInv, NextIInv, <1>1, PTL DEF Spec

(* On the answers of Redis, enforceRateLimit lets through at most two       *)
(* budgets in any stretch no longer than a window, however many instances   *)
(* there are, however often they start anew, and however many requests      *)
(* Redis counts without answering.                                          *)
THEOREM BudgetHolds == Spec => []AdmissionBounded
  <1>1. IInv => AdmissionBounded
    BY DEF IInv
  <1> QED
    BY InitIInv, NextIInv, <1>1, PTL DEF Spec

(* enforceRateLimit never locks a caller out: who is refused has been let   *)
(* through within the last two windows, whatever happens to Redis and to    *)
(* the instances.                                                           *)
THEOREM NobodyLockedOut == Spec => []NoLockout
  <1>1. IInv => NoLockout
    BY DEF IInv
  <1> QED
    BY InitIInv, NextIInv, <1>1, PTL DEF Spec
=============================================================================
