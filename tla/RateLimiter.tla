----------------------------- MODULE RateLimiter -----------------------------
(***************************************************************************)
(* frontend/src/lib/rateLimit.ts and its use by the routes.  The budget of *)
(* one subject (an address, an account or an API key) under one prefix is a*)
(* fixed window, counted in Redis for all server instances together, or    *)
(* by an instance alone in the calls that Redis does not answer.           *)
(***************************************************************************)
EXTENDS Integers

CONSTANTS
    Instances,          \* server instances
    maxRequests,        \* requests allowed per window
    windowSeconds,      \* length of a window
    MaxTime,            \* bound on the clock
    None

ASSUME LimiterConstantsOK ==
    /\ maxRequests \in Nat \ {0}
    /\ windowSeconds \in Nat \ {0}
    /\ MaxTime \in Nat
    /\ None \notin {"admitted", "429", "500"}
    /\ None \notin [count : Nat, resetAt : Nat]

VARIABLES
    now,            \* the clock
    configured,     \* whether UPSTASH_REDIS_* are set
    shared,         \* the bucket in Redis
    local,          \* the bucket each instance keeps in memory
    currentMode,    \* what each instance reports of its limiter
    answered,       \* when Redis last let requests through (observation)
    lastAdmitted,   \* when a request was last let through (observation)
    verdict         \* the last answer, and the route's kind (observation)

vars == <<now, configured, shared, local, currentMode, answered, lastAdmitted,
          verdict>>

Time == 0..MaxTime
Modes == {"distributed", "in-memory-fallback", "in-memory-unconfigured"}
Verdicts == {"admitted", "429", "500"}

(* Before the start: no window reaches back so far.                         *)
Never == -2 * windowSeconds

(* The times of the last requests, one more than two budgets of them, the   *)
(* newest first.                                                            *)
Places == 0..2 * maxRequests

(* A count past the limit says no more than the first such count does.      *)
Bucket == [count : 1..maxRequests + 1, resetAt : Nat]

Init ==
    /\ now = 0
    /\ configured \in BOOLEAN
    /\ shared = None
    /\ local = [i \in Instances |-> None]
    /\ currentMode = [i \in Instances |-> "in-memory-unconfigured"]
    /\ answered = [k \in Places |-> Never]
    /\ lastAdmitted = Never
    /\ verdict = None

IncrementSliding(bucket) ==
    IF bucket = None
    THEN [count |-> 1, resetAt |-> now + windowSeconds]
    ELSE [count |-> IF bucket.count > maxRequests THEN bucket.count ELSE bucket.count + 1,
          resetAt |-> now + windowSeconds]

(* The first request opens a window; the others count and leave its end     *)
(* where it is (EXPIRE NX).                                                 *)
Increment(bucket) ==
    IF bucket = None
    THEN [count |-> 1, resetAt |-> now + windowSeconds]
    ELSE [bucket EXCEPT !.count = IF @ > maxRequests THEN @ ELSE @ + 1]

WithinInclusive(bucket) == bucket.count - 1 <= maxRequests

Within(bucket) == bucket.count <= maxRequests

(* checkRateLimit and enforceRateLimit, from the bucket after the increment.*)
Answer(bucket) ==
    IF Within(bucket)
    THEN verdict' = "admitted" /\ lastAdmitted' = now
    ELSE verdict' = "429" /\ UNCHANGED lastAdmitted

Admitted == [k \in Places |-> IF k = 0 THEN now ELSE answered[k - 1]]

(* verify/[token] and credentials/share look at the mode first, in          *)
(* production; no other route does.                                         *)
Gated(i) == currentMode[i] = "in-memory-unconfigured"

Misconfigured(i) ==
    /\ Gated(i)
    /\ verdict' = "500"
    /\ UNCHANGED <<now, configured, shared, local, currentMode, answered,
                   lastAdmitted>>

(* Redis answers.                                                           *)
Distributed(i) ==
    /\ configured
    /\ shared' = Increment(shared)
    /\ currentMode' = [currentMode EXCEPT ![i] = "distributed"]
    /\ Answer(shared')
    /\ answered' = IF Within(shared') THEN Admitted ELSE answered
    /\ UNCHANGED <<now, configured, local>>

(* Redis does not, whether or not it has counted the request.               *)
FallBack(i) ==
    /\ configured
    /\ shared' \in {shared, Increment(shared)}
    /\ local' = [local EXCEPT ![i] = Increment(@)]
    /\ currentMode' = [currentMode EXCEPT ![i] = "in-memory-fallback"]
    /\ Answer(local'[i])
    /\ UNCHANGED <<now, configured, answered>>

(* Without Redis, the instance's own memory is all there is.                *)
InMemory(i) ==
    /\ ~configured
    /\ local' = [local EXCEPT ![i] = Increment(@)]
    /\ Answer(local'[i])
    /\ UNCHANGED <<now, configured, shared, currentMode, answered>>

EnforceRateLimit(i) == Distributed(i) \/ FallBack(i) \/ InMemory(i)

GatedRoute(i) == Misconfigured(i) \/ (~Gated(i) /\ EnforceRateLimit(i))

PlainRoute(i) == EnforceRateLimit(i)

(* An instance is replaced by a new one.                                    *)
ColdStart(i) ==
    /\ local' = [local EXCEPT ![i] = None]
    /\ currentMode' = [currentMode EXCEPT ![i] = "in-memory-unconfigured"]
    /\ UNCHANGED <<now, configured, shared, answered, lastAdmitted, verdict>>

Ended(bucket) == bucket # None /\ bucket.resetAt <= now + 1

(* Windows end: Redis drops the key, an instance starts a new bucket.       *)
Tick ==
    /\ now < MaxTime
    /\ now' = now + 1
    /\ shared' = IF Ended(shared) THEN None ELSE shared
    /\ local' = [i \in Instances |-> IF Ended(local[i]) THEN None ELSE local[i]]
    /\ verdict' = None
    /\ UNCHANGED <<configured, currentMode, answered, lastAdmitted>>

Next ==
    \/ \E i \in Instances : GatedRoute(i) \/ PlainRoute(i) \/ ColdStart(i)
    \/ Tick

Spec == Init /\ [][Next]_vars

-----------------------------------------------------------------------------
(* Types.                                                                   *)
TypeOK ==
    /\ now \in Time
    /\ configured \in BOOLEAN
    /\ shared \in Bucket \cup {None}
    /\ local \in [Instances -> Bucket \cup {None}]
    /\ currentMode \in [Instances -> Modes]
    /\ answered \in [Places -> Never..now]
    /\ lastAdmitted \in Never..now
    /\ verdict \in Verdicts \cup {None}

(* All instances together, however often they are replaced and whatever     *)
(* requests Redis leaves to them, let through on the answers of Redis at    *)
(* most two budgets in any stretch no longer than a window: two fixed       *)
(* windows may meet in it.                                                  *)
AdmissionBounded ==
    answered[2 * maxRequests] # Never =>
        answered[0] - answered[2 * maxRequests] >= windowSeconds

(* Nobody is locked out: who is refused has been let through within the     *)
(* last two windows, through outages of Redis, answers of Redis that are    *)
(* lost, and callers that keep calling.                                     *)
NoLockout == verdict = "429" => now - 2 * windowSeconds < lastAdmitted

(* rateLimit.ts says of the mode in-memory-unconfigured that the UPSTASH    *)
(* "env vars were never set", and the verify route refuses in it under the  *)
(* comment "Fail closed in production if Upstash is not configured".        *)
ConfiguredServes == configured => verdict # "500"
=============================================================================
