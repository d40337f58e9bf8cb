------------------------- MODULE PublicVerification -------------------------
(***************************************************************************)
(* The status of one credential as the public sees it:                     *)
(* frontend/src/app/api/verify/[token]/route.ts and                        *)
(* api/credentials/share/[shareToken]/route.ts, which read the contract    *)
(* through lib/onChainStatus.ts and the Redis cache of                     *)
(* lib/verificationCache.ts.  The answers of the first are kept by shared  *)
(* HTTP caches ("the edge") as its Cache-Control header allows.            *)
(*                                                                         *)
(* Two flags of the contract may change, revocation and the authorization  *)
(* of the issuer.  Each is read in one step and stored in the cache in     *)
(* another, in the background, and any number of requests are under way.   *)
(***************************************************************************)
EXTENDS Integers, FiniteSets

CONSTANTS
    Requests,                   \* requests the servers work on at a time
    REVOCATION_TTL,             \* REVOCATION_TTL_SECONDS, 45
    EdgeAge,                    \* s-maxage: the same 45 seconds
    EdgeStale,                  \* stale-while-revalidate, 30 seconds
    RequestTime,                \* the longest a request runs on the server
    WriteTime,                  \* when redisSet is aborted, 3 seconds
    ExpiresAt,                  \* expires_at of the credential
    MaxTime,                    \* bound on the clock
    MaxWrites,                  \* bound on the writes under way at a time
    None

ASSUME VerificationConstantsOK ==
    /\ REVOCATION_TTL \in Nat /\ EdgeAge \in Nat /\ EdgeStale \in Nat
    /\ RequestTime \in Nat /\ WriteTime \in Nat
    /\ ExpiresAt \in Nat /\ MaxTime \in Nat /\ MaxWrites \in Nat

VARIABLES
    now,        \* the clock, seconds
    issued,     \* whether the contract has the credential
    chain,      \* the flags as the contract has them
    lastHeld,   \* when each flag last had each value, -1 for never (observation)
    record,     \* whether the immutable record is cached
    cache,      \* the cached flags, with the time they expire
    writes,     \* flags being written to the cache in the background
    request,    \* the requests on the servers
    edge,       \* the answer the edge keeps
    served      \* the answer a client got by the last step (observation)

vars == <<now, issued, chain, lastHeld, record, cache, writes, request, edge, served>>
chainVars == <<issued, chain, lastHeld>>
cacheVars == <<record, cache, writes>>

Flags == {"revoked", "authorized"}
Time == 0..MaxTime
Statuses == {"valid", "revoked", "expired"}

(* A cached flag, a write under way, a request (the flags and the status it *)
(* has so far, and the time it started), an answer.                         *)
Entry == [value : BOOLEAN, expires : Nat]
Write == [flag : Flags, value : BOOLEAN, started : Time]
Request == [kind : {"verify", "share"},
            step : {"record", "revoked", "revoked read", "authorized",
                    "authorized read", "answer"},
            revoked : BOOLEAN, authorized : BOOLEAN, status : Statuses,
            since : Time]
Answer == [status : Statuses, authorized : BOOLEAN, at : Time, by : {"server", "edge"}]
EdgeEntry == [status : Statuses, authorized : BOOLEAN, stored : Time]

Init ==
    /\ now = 0
    /\ issued \in BOOLEAN
    /\ chain = [f \in Flags |-> f = "authorized"]
    /\ lastHeld = [f \in Flags |-> [b \in BOOLEAN |-> IF b = (f = "authorized") THEN 0 ELSE -1]]
    /\ record = FALSE
    /\ cache = [f \in Flags |-> None]
    /\ writes = {}
    /\ request = [r \in Requests |-> None]
    /\ edge = None
    /\ served = None

-----------------------------------------------------------------------------
(* The contract and the clock.                                              *)

Issue ==
    /\ ~issued
    /\ issued' = TRUE
    /\ UNCHANGED <<now, chain, lastHeld, cacheVars, request, edge>>
    /\ served' = None

SetFlag(f, value) ==
    /\ issued
    /\ chain[f] # value
    /\ chain' = [chain EXCEPT ![f] = value]
    /\ lastHeld' = [lastHeld EXCEPT ![f][value] = now]
    /\ UNCHANGED <<now, issued, cacheVars, request, edge>>
    /\ served' = None

(* A revocation is for good; authorizations come and go.                    *)
Contract ==
    \/ Issue
    \/ SetFlag("revoked", TRUE)
    \/ \E value \in BOOLEAN : SetFlag("authorized", value)

(* No request outlasts the platform's limit, no write its abort signal; what*)
(* Redis or the edge has kept for its time is gone.                         *)
Expired(entry) == entry # None /\ entry.expires <= now + 1

EdgeExpired == edge # None /\ edge.stored + EdgeAge + EdgeStale <= now + 1

Tick ==
    /\ now < MaxTime
    /\ \A r \in Requests : request[r] # None => now < request[r].since + RequestTime
    /\ \A w \in writes : now < w.started + WriteTime
    /\ now' = now + 1
    /\ lastHeld' = [f \in Flags |-> [lastHeld[f] EXCEPT ![chain[f]] = now + 1]]
    /\ cache' = [f \in Flags |->
                    IF Expired(cache[f]) THEN None ELSE cache[f]]
    /\ edge' = IF EdgeExpired THEN None ELSE edge
    /\ UNCHANGED <<issued, chain, record, writes, request>>
    /\ served' = None

-----------------------------------------------------------------------------
(* A request on the server.                                                 *)

Begin(r, kind) ==
    request' = [request EXCEPT ![r] =
        [kind |-> kind, step |-> "record", revoked |-> FALSE, authorized |-> FALSE,
         status |-> "valid", since |-> now]]

(* It is refused (a bad or revoked API key, the rate limit, no such share   *)
(* link), finds that the contract has no such credential, or ends in an     *)
(* error, as it does when the chain cannot be read: 401 to 503, never       *)
(* cached, and never a guess.                                               *)
End(r) ==
    /\ request[r] # None
    /\ request' = [request EXCEPT ![r] = None]
    /\ UNCHANGED <<now, chainVars, cacheVars, edge>>
    /\ served' = None

(* The immutable record, cached or read; one read is cached.                *)
ReadRecord(r) ==
    /\ request[r] # None
    /\ request[r].step = "record"
    /\ record \/ issued
    /\ record' \in {record, TRUE}
    /\ request' = [request EXCEPT ![r].step = "revoked"]
    /\ UNCHANGED <<now, chainVars, cache, writes, edge>>
    /\ served' = None

CredentialStatusAtExpiryFirst(revoked) ==
    IF now >= ExpiresAt THEN "expired" ELSE IF revoked THEN "revoked" ELSE "valid"

(* credentialStatusAt: revocation wins over expiry.                         *)
CredentialStatusAt(revoked) ==
    IF revoked THEN "revoked" ELSE IF now >= ExpiresAt THEN "expired" ELSE "valid"

StepAfter(f) == IF f = "revoked" THEN "authorized" ELSE "answer"

Reading(f) == IF f = "revoked" THEN "revoked read" ELSE "authorized read"

(* The status is fixed with the second flag, before what the answer still   *)
(* waits for: the display labels, the content check, the log.               *)
StatusAfter(r, f) ==
    IF f = "authorized" THEN CredentialStatusAt(request[r].revoked)
    ELSE request[r].status

FlagHit(r, f) ==
    /\ request[r] # None
    /\ request[r].step = f
    /\ cache[f] # None
    /\ request' = [request EXCEPT ![r].step = StepAfter(f), ![r].status = StatusAfter(r, f),
                                  ![r][f] = cache[f].value]
    /\ UNCHANGED <<now, chainVars, cacheVars, edge>>
    /\ served' = None

(* A miss, or a cache that does not answer: the contract is asked.          *)
FlagRead(r, f) ==
    /\ request[r] # None
    /\ request[r].step = f
    /\ request' = [request EXCEPT ![r].step = Reading(f), ![r][f] = chain[f]]
    /\ UNCHANGED <<now, chainVars, cacheVars, edge>>
    /\ served' = None

(* The answer has arrived; storing it is begun and not waited for.          *)
FlagStore(r, f) ==
    /\ request[r] # None
    /\ request[r].step = Reading(f)
    /\ Cardinality(writes) < MaxWrites
    /\ writes' = writes \cup {[flag |-> f, value |-> request[r][f], started |-> now]}
    /\ request' = [request EXCEPT ![r].step = StepAfter(f), ![r].status = StatusAfter(r, f)]
    /\ UNCHANGED <<now, chainVars, record, cache, edge>>
    /\ served' = None

(* The edge keeps the answer of the verify route; the share page's has      *)
(* personal data and is not stored anywhere.                                *)
Respond(r) ==
    /\ request[r] # None
    /\ request[r].step = "answer"
    /\ served' = [status |-> request[r].status, authorized |-> request[r].authorized,
                  at |-> now, by |-> "server"]
    /\ edge' = IF request[r].kind = "verify"
               THEN [status |-> request[r].status, authorized |-> request[r].authorized,
                     stored |-> now]
               ELSE edge
    /\ request' = [request EXCEPT ![r] = None]
    /\ UNCHANGED <<now, chainVars, cacheVars>>

-----------------------------------------------------------------------------
(* The cache and the edge.                                                  *)

SetCachedFlagAsRecord(w) ==
    /\ cache' = [cache EXCEPT ![w.flag] =
                    [value |-> w.value, expires |-> now + 4 * REVOCATION_TTL]]
    /\ writes' = writes \ {w}
    /\ UNCHANGED <<now, chainVars, record, request, edge>>
    /\ served' = None

(* A write arrives, with a life counted from its arrival, or is lost.       *)
SetCachedFlag(w) ==
    /\ cache' = [cache EXCEPT ![w.flag] =
                    [value |-> w.value, expires |-> now + REVOCATION_TTL]]
    /\ writes' = writes \ {w}
    /\ UNCHANGED <<now, chainVars, record, request, edge>>
    /\ served' = None

LoseWrite(w) ==
    /\ writes' = writes \ {w}
    /\ UNCHANGED <<now, chainVars, record, cache, request, edge>>
    /\ served' = None

(* Redis drops what it likes, the record after its four hours at the latest.*)
DropRecord ==
    /\ record
    /\ record' = FALSE
    /\ UNCHANGED <<now, chainVars, cache, writes, request, edge>>
    /\ served' = None

ServeFromEdge ==
    served' = [status |-> edge.status, authorized |-> edge.authorized,
               at |-> now, by |-> "edge"]

EdgeHit ==
    /\ edge # None
    /\ now < edge.stored + EdgeAge
    /\ ServeFromEdge
    /\ UNCHANGED <<now, chainVars, cacheVars, request, edge>>

(* stale-while-revalidate: the old answer is served, a new one is fetched.  *)
EdgeRevalidate(r) ==
    /\ edge # None
    /\ now >= edge.stored + EdgeAge
    /\ request[r] = None
    /\ ServeFromEdge
    /\ Begin(r, "verify")
    /\ UNCHANGED <<now, chainVars, cacheVars, edge>>

(* A request reaches the server: a share page, or past the edge because     *)
(* nothing is there any more, or because another region has nothing.        *)
Arrive(r, kind) ==
    /\ request[r] = None
    /\ Begin(r, kind)
    /\ UNCHANGED <<now, chainVars, cacheVars, edge>>
    /\ served' = None

Server ==
    \E r \in Requests :
        \/ \E kind \in {"verify", "share"} : Arrive(r, kind)
        \/ ReadRecord(r)
        \/ \E f \in Flags : FlagHit(r, f) \/ FlagRead(r, f) \/ FlagStore(r, f)
        \/ Respond(r)
        \/ End(r)

Caches ==
    \/ \E w \in writes : SetCachedFlag(w) \/ LoseWrite(w)
    \/ DropRecord
    \/ EdgeHit
    \/ \E r \in Requests : EdgeRevalidate(r)

Next == Contract \/ Tick \/ Server \/ Caches

Spec == Init /\ [][Next]_vars

-----------------------------------------------------------------------------
(* Types.                                                                   *)
TypeOK ==
    /\ now \in Time
    /\ issued \in BOOLEAN
    /\ chain \in [Flags -> BOOLEAN]
    /\ lastHeld \in [Flags -> [BOOLEAN -> Time \cup {-1}]]
    /\ record \in BOOLEAN
    /\ cache \in [Flags -> Entry \cup {None}]
    /\ writes \subseteq Write
    /\ request \in [Requests -> Request \cup {None}]
    /\ edge \in EdgeEntry \cup {None}
    /\ served \in Answer \cup {None}

(* How old a flag may be in an answer of the server: read by a request that *)
(* took its time, written late, kept, and found by another slow request.    *)
ServerWindow == RequestTime + WriteTime + REVOCATION_TTL + RequestTime

EdgeDelay(by) == IF by = "edge" THEN EdgeAge + EdgeStale ELSE 0

Window(by) == ServerWindow + EdgeDelay(by)

(* A verifier is told that a credential is not revoked only if it was not   *)
(* within the window, whichever writes overtook each other; and is never    *)
(* told that it is revoked, or has expired, when it is not.  That it has    *)
(* expired may be missed for as long as the request takes, which fixed the  *)
(* status before its last awaits, and the edge then keeps the answer.       *)
StatusInWindow ==
    served # None =>
        /\ served.status = "revoked" => chain["revoked"]
        /\ served.status # "revoked" =>
              lastHeld["revoked"][FALSE] >= served.at - Window(served.by)
        /\ served.status = "expired" => served.at >= ExpiresAt
        /\ served.status = "valid" =>
                 served.at < ExpiresAt + RequestTime + EdgeDelay(served.by)

(* What a verifier is told of the issuer's authorization was true within    *)
(* the same window, although authorizations change in both directions.      *)
AuthorizationInWindow ==
    served # None =>
        lastHeld["authorized"][served.authorized] >= served.at - Window(served.by)
=============================================================================
