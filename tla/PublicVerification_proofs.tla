---------------------- MODULE PublicVerification_proofs ----------------------
(* Theorems about PublicVerification, for any lives of the cached values,   *)
(* any times requests and writes may take, and any number of requests.      *)
EXTENDS PublicVerification, TLAPS

USE VerificationConstantsOK DEF VerificationConstantsOK

-----------------------------------------------------------------------------
(* Types.                                                                   *)

LEMMA InitTyped == Init => TypeOK
  <1> SUFFICES ASSUME Init PROVE TypeOK
    OBVIOUS
  <1>1. now \in Time /\ 0 \in Time
    BY DEF Init, Time
  <1>2. lastHeld \in [Flags -> [BOOLEAN -> Time \cup {-1}]]
    BY <1>1 DEF Init
  <1>3. chain \in [Flags -> BOOLEAN]
    BY DEF Init
  <1> QED
    BY <1>1, <1>2, <1>3 DEF Init, TypeOK

LEMMA RequestTyped ==
    ASSUME TypeOK, NEW r \in Requests, request[r] # None
    PROVE  request[r] \in Request
  BY DEF TypeOK

LEMMA ContractTyped == TypeOK /\ Contract => TypeOK'
  <1>1. ASSUME TypeOK, NEW f \in Flags, NEW value \in BOOLEAN, SetFlag(f, value)
        PROVE  TypeOK'
    <2>1. chain' \in [Flags -> BOOLEAN]
      BY <1>1 DEF SetFlag, TypeOK
    <2>2. lastHeld' \in [Flags -> [BOOLEAN -> Time \cup {-1}]]
      BY <1>1 DEF SetFlag, TypeOK
    <2> QED
      BY <1>1, <2>1, <2>2 DEF SetFlag, TypeOK, cacheVars
  <1>2. TypeOK /\ Issue => TypeOK'
    BY DEF TypeOK, Issue, cacheVars
  <1> QED
    BY <1>1, <1>2 DEF Contract, Flags

LEMMA TickTyped == TypeOK /\ Tick => TypeOK'
  <1> SUFFICES ASSUME TypeOK, Tick PROVE TypeOK'
    OBVIOUS
  <1>1. now' \in Time
    BY DEF Tick, TypeOK, Time
  <1>2. lastHeld' \in [Flags -> [BOOLEAN -> Time \cup {-1}]]
    <2>1. now + 1 \in Time
      BY DEF Tick, TypeOK, Time
    <2> QED
      BY <2>1 DEF Tick, TypeOK
  <1>3. cache' \in [Flags -> Entry \cup {None}]
    BY DEF Tick, TypeOK
  <1>4. edge' \in EdgeEntry \cup {None}
    BY DEF Tick, TypeOK
  <1> QED
    BY <1>1, <1>2, <1>3, <1>4 DEF Tick, TypeOK

Steps == {"record", "revoked", "revoked read", "authorized", "authorized read", "answer"}

(* What a request becomes.                                                  *)
LEMMA BeginTyped ==
    ASSUME TypeOK, NEW r \in Requests, NEW kind \in {"verify", "share"}, Begin(r, kind)
    PROVE  request' \in [Requests -> Request \cup {None}]
  <1> PICK p : p = [kind |-> kind, step |-> "record", revoked |-> FALSE, authorized |-> FALSE,
                    status |-> "valid", since |-> now]
    OBVIOUS
  <1>1. p \in Request
    BY DEF TypeOK, Request, Statuses
  <1>2. request' = [request EXCEPT ![r] = p]
    BY DEF Begin
  <1> QED
    BY <1>1, <1>2 DEF TypeOK

(* The status goes with the flag, or stays.                                 *)
Sets(r, f, b, step, status) ==
    \/ request' = [request EXCEPT ![r].step = step, ![r].status = status, ![r][f] = b]
    \/ /\ request' = [request EXCEPT ![r].step = step, ![r][f] = b]
       /\ status = request[r].status

OneSet(r, f, b, step, status) ==
    /\ request'[r].step = step /\ request'[r].since = request[r].since
    /\ request'[r].status = status
    /\ request'[r][f] = b
    /\ f = "revoked" => request'[r].authorized = request[r].authorized
    /\ f = "authorized" => request'[r].revoked = request[r].revoked

LEMMA FlagTyped ==
    ASSUME TypeOK, NEW r \in Requests, request[r] # None, NEW f \in Flags, NEW b \in BOOLEAN,
           NEW step \in Steps, NEW status \in Statuses,
           Sets(r, f, b, step, status)
    PROVE  /\ request' \in [Requests -> Request \cup {None}]
           /\ OneSet(r, f, b, step, status)
  <1>0. request[r] \in Request
    BY RequestTyped
  <1>1. CASE f = "revoked"
    <2>1. PICK p : /\ request' = [request EXCEPT ![r] = p]
                   /\ p \in Request
                   /\ p.step = step /\ p.since = request[r].since /\ p.status = status
                   /\ p.revoked = b /\ p.authorized = request[r].authorized
      <3>1. CASE request' = [request EXCEPT ![r].step = step, ![r].status = status, ![r][f] = b]
        <4> DEFINE p == [[[request[r] EXCEPT !.step = step] EXCEPT !.status = status]
                            EXCEPT !.revoked = b]
        <4>1. request' = [request EXCEPT ![r] = p]
          BY <1>1, <3>1 DEF TypeOK
        <4>2. p \in Request
          BY <1>0 DEF Request, Steps
        <4>3. /\ p.step = step /\ p.since = request[r].since /\ p.status = status
              /\ p.revoked = b /\ p.authorized = request[r].authorized
          BY <1>0 DEF Request
        <4> HIDE DEF p
        <4> QED
          BY <4>1, <4>2, <4>3
      <3>2. CASE /\ request' = [request EXCEPT ![r].step = step, ![r][f] = b]
                 /\ status = request[r].status
        <4> DEFINE p == [[request[r] EXCEPT !.step = step] EXCEPT !.revoked = b]
        <4>1. request' = [request EXCEPT ![r] = p]
          BY <1>1, <3>2 DEF TypeOK
        <4>2. p \in Request
          BY <1>0 DEF Request, Steps
        <4>3. /\ p.step = step /\ p.since = request[r].since /\ p.status = status
              /\ p.revoked = b /\ p.authorized = request[r].authorized
          BY <1>0, <3>2 DEF Request
        <4> HIDE DEF p
        <4> QED
          BY <4>1, <4>2, <4>3
      <3> QED
        BY <3>1, <3>2 DEF Sets
    <2>2. request'[r] = p
      BY <2>1 DEF TypeOK
    <2>3. request' \in [Requests -> Request \cup {None}]
      BY <2>1 DEF TypeOK
    <2> QED
      BY <1>1, <2>1, <2>2, <2>3 DEF OneSet
  <1>2. CASE f = "authorized"
    <2>1. PICK p : /\ request' = [request EXCEPT ![r] = p]
                   /\ p \in Request
                   /\ p.step = step /\ p.since = request[r].since /\ p.status = status
                   /\ p.authorized = b /\ p.revoked = request[r].revoked
      <3>1. CASE request' = [request EXCEPT ![r].step = step, ![r].status = status, ![r][f] = b]
        <4> DEFINE p == [[[request[r] EXCEPT !.step = step] EXCEPT !.status = status]
                            EXCEPT !.authorized = b]
        <4>1. request' = [request EXCEPT ![r] = p]
          BY <1>2, <3>1 DEF TypeOK
        <4>2. p \in Request
          BY <1>0 DEF Request, Steps
        <4>3. /\ p.step = step /\ p.since = request[r].since /\ p.status = status
              /\ p.authorized = b /\ p.revoked = request[r].revoked
          BY <1>0 DEF Request
        <4> HIDE DEF p
        <4> QED
          BY <4>1, <4>2, <4>3
      <3>2. CASE /\ request' = [request EXCEPT ![r].step = step, ![r][f] = b]
                 /\ status = request[r].status
        <4> DEFINE p == [[request[r] EXCEPT !.step = step] EXCEPT !.authorized = b]
        <4>1. request' = [request EXCEPT ![r] = p]
          BY <1>2, <3>2 DEF TypeOK
        <4>2. p \in Request
          BY <1>0 DEF Request, Steps
        <4>3. /\ p.step = step /\ p.since = request[r].since /\ p.status = status
              /\ p.authorized = b /\ p.revoked = request[r].revoked
          BY <1>0, <3>2 DEF Request
        <4> HIDE DEF p
        <4> QED
          BY <4>1, <4>2, <4>3
      <3> QED
        BY <3>1, <3>2 DEF Sets
    <2>2. request'[r] = p
      BY <2>1 DEF TypeOK
    <2>3. request' \in [Requests -> Request \cup {None}]
      BY <2>1 DEF TypeOK
    <2> QED
      BY <1>2, <2>1, <2>2, <2>3 DEF OneSet
  <1> QED
    BY <1>1, <1>2 DEF Flags

LEMMA StepTyped ==
    ASSUME TypeOK, NEW r \in Requests, request[r] # None,
           NEW step \in Steps,
           request' = [request EXCEPT ![r].step = step]
    PROVE  /\ request' \in [Requests -> Request \cup {None}]
           /\ request'[r].step = step /\ request'[r].since = request[r].since
           /\ request'[r].revoked = request[r].revoked
           /\ request'[r].authorized = request[r].authorized
  <1>1. request[r] \in Request
    BY RequestTyped
  <1> QED
    BY <1>1 DEF TypeOK, Request, Steps

LEMMA StatusStepTyped ==
    ASSUME TypeOK, NEW r \in Requests, request[r] # None,
           NEW step \in Steps, NEW status \in Statuses,
           request' = [request EXCEPT ![r].step = step, ![r].status = status]
    PROVE  /\ request' \in [Requests -> Request \cup {None}]
           /\ request'[r].step = step /\ request'[r].since = request[r].since
           /\ request'[r].status = status
           /\ request'[r].revoked = request[r].revoked
           /\ request'[r].authorized = request[r].authorized
  <1>1. request[r] \in Request
    BY RequestTyped
  <1> DEFINE p == [[request[r] EXCEPT !.step = step] EXCEPT !.status = status]
  <1>2. request' = [request EXCEPT ![r] = p]
    BY DEF TypeOK
  <1>3. p \in Request
    BY <1>1 DEF Request, Steps
  <1>4. /\ p.step = step /\ p.since = request[r].since /\ p.status = status
        /\ p.revoked = request[r].revoked /\ p.authorized = request[r].authorized
    BY <1>1 DEF Request
  <1> HIDE DEF p
  <1>5. request'[r] = p /\ request' \in [Requests -> Request \cup {None}]
    BY <1>2, <1>3 DEF TypeOK
  <1> QED
    BY <1>4, <1>5

LEMMA StatusTyped ==
    ASSUME NEW b \in BOOLEAN
    PROVE  CredentialStatusAt(b) \in Statuses
  BY DEF CredentialStatusAt, Statuses

LEMMA StatusAfterTyped ==
    ASSUME TypeOK, NEW r \in Requests, request[r] # None, NEW f \in Flags
    PROVE  StatusAfter(r, f) \in Statuses
  <1>1. request[r] \in Request
    BY RequestTyped
  <1>2. request[r].revoked \in BOOLEAN /\ request[r].status \in Statuses
    BY <1>1 DEF Request
  <1> QED
    BY <1>2, StatusTyped DEF StatusAfter

LEMMA RespondTyped ==
    ASSUME TypeOK, NEW r \in Requests, Respond(r)
    PROVE  TypeOK'
  <1>1. request[r] \in Request
    BY RequestTyped DEF Respond
  <1>2. request[r].status \in Statuses /\ request[r].authorized \in BOOLEAN
    BY <1>1 DEF Request
  <1>3. served' \in Answer /\ edge' \in EdgeEntry \cup {None}
    BY <1>2 DEF Respond, Answer, EdgeEntry, TypeOK
  <1>4. request' \in [Requests -> Request \cup {None}]
    BY DEF Respond, TypeOK
  <1> QED
    BY <1>3, <1>4 DEF Respond, TypeOK, chainVars, cacheVars

LEMMA ServerTyped ==
    ASSUME TypeOK, NEW r \in Requests,
           \/ \E kind \in {"verify", "share"} : Arrive(r, kind)
           \/ ReadRecord(r)
           \/ \E f \in Flags : FlagHit(r, f) \/ FlagRead(r, f) \/ FlagStore(r, f)
           \/ Respond(r)
           \/ End(r)
    PROVE  TypeOK'
  <1>1. ASSUME NEW kind \in {"verify", "share"}, Arrive(r, kind) PROVE TypeOK'
    BY <1>1, BeginTyped DEF Arrive, TypeOK, chainVars, cacheVars
  <1>2. CASE ReadRecord(r)
    <2>1. request' \in [Requests -> Request \cup {None}]
      BY <1>2, StepTyped DEF ReadRecord, Steps
    <2> QED
      BY <1>2, <2>1 DEF ReadRecord, TypeOK, chainVars
  <1>3. ASSUME NEW f \in Flags, FlagHit(r, f) PROVE TypeOK'
    <2>1. cache[f].value \in BOOLEAN
      BY <1>3 DEF FlagHit, TypeOK, Entry
    <2>2. StepAfter(f) \in Steps
      BY DEF StepAfter, Steps
    <2>3. request' \in [Requests -> Request \cup {None}]
      <3>1. StatusAfter(r, f) \in Statuses /\ request[r] # None
        BY <1>3, StatusAfterTyped DEF FlagHit
      <3>2. Sets(r, f, cache[f].value, StepAfter(f), StatusAfter(r, f))
        BY <1>3 DEF FlagHit, Sets
      <3> QED
        BY <2>1, <2>2, <3>1, <3>2, FlagTyped
    <2> QED
      BY <1>3, <2>3 DEF FlagHit, TypeOK, chainVars, cacheVars
  <1>4. ASSUME NEW f \in Flags, FlagRead(r, f) PROVE TypeOK'
    <2>1. chain[f] \in BOOLEAN
      BY DEF TypeOK
    <2>2. Reading(f) \in Steps
      BY DEF Reading, Steps
    <2>3. request' \in [Requests -> Request \cup {None}]
      <3>1. request[r].status \in Statuses /\ request[r] # None
        BY <1>4, RequestTyped DEF FlagRead, Request
      <3>2. Sets(r, f, chain[f], Reading(f), request[r].status)
        BY <1>4 DEF FlagRead, Sets
      <3> QED
        BY <2>1, <2>2, <3>1, <3>2, FlagTyped
    <2> QED
      BY <1>4, <2>3 DEF FlagRead, TypeOK, chainVars, cacheVars
  <1>5. ASSUME NEW f \in Flags, FlagStore(r, f) PROVE TypeOK'
    <2>1. request[r] \in Request
      BY <1>5, RequestTyped DEF FlagStore
    <2>2. request[r][f] \in BOOLEAN
      BY <2>1 DEF Flags, Request
    <2>3. writes' \subseteq Write
      <3> PICK w : w = [flag |-> f, value |-> request[r][f], started |-> now]
        OBVIOUS
      <3>1. w \in Write
        BY <2>2 DEF TypeOK, Write
      <3>2. writes' = writes \cup {w}
        BY <1>5 DEF FlagStore
      <3> QED
        BY <3>1, <3>2 DEF TypeOK
    <2>4. StepAfter(f) \in Steps
      BY DEF StepAfter, Steps
    <2>5. request' \in [Requests -> Request \cup {None}]
      BY <1>5, <2>4, StatusAfterTyped, StatusStepTyped DEF FlagStore
    <2> QED
      BY <1>5, <2>3, <2>5 DEF FlagStore, TypeOK, chainVars
  <1>6. CASE End(r)
    BY <1>6 DEF End, TypeOK, chainVars, cacheVars
  <1> QED
    BY <1>1, <1>2, <1>3, <1>4, <1>5, <1>6, RespondTyped

LEMMA EdgeTyped ==
    ASSUME TypeOK, edge # None, ServeFromEdge
    PROVE  served' \in Answer
  <1>1. edge \in EdgeEntry
    BY DEF TypeOK
  <1> QED
    BY <1>1 DEF ServeFromEdge, EdgeEntry, Answer, TypeOK

LEMMA CachesTyped == TypeOK /\ Caches => TypeOK'
  <1> SUFFICES ASSUME TypeOK, Caches PROVE TypeOK'
    OBVIOUS
  <1>1. ASSUME NEW w \in writes, SetCachedFlag(w) PROVE TypeOK'
    <2>1. w.flag \in Flags /\ w.value \in BOOLEAN /\ now + REVOCATION_TTL \in Nat
      BY DEF TypeOK, Write, Time
    <2>2. cache' \in [Flags -> Entry \cup {None}]
      BY <1>1, <2>1 DEF SetCachedFlag, TypeOK, Entry
    <2> QED
      BY <1>1, <2>2 DEF SetCachedFlag, TypeOK, chainVars
  <1>2. ASSUME NEW w \in writes, LoseWrite(w) PROVE TypeOK'
    BY <1>2 DEF LoseWrite, TypeOK, chainVars
  <1>3. CASE DropRecord
    BY <1>3 DEF DropRecord, TypeOK, chainVars
  <1>4. CASE EdgeHit
    BY <1>4, EdgeTyped DEF EdgeHit, TypeOK, chainVars, cacheVars
  <1>5. ASSUME NEW r \in Requests, EdgeRevalidate(r) PROVE TypeOK'
    BY <1>5, EdgeTyped, BeginTyped DEF EdgeRevalidate, TypeOK, chainVars, cacheVars
  <1> QED
    BY <1>1, <1>2, <1>3, <1>4, <1>5 DEF Caches

LEMMA NextTyped == TypeOK /\ [Next]_vars => TypeOK'
  <1>1. TypeOK /\ UNCHANGED vars => TypeOK'
    BY DEF TypeOK, vars
  <1> QED
    BY <1>1, ContractTyped, TickTyped, ServerTyped, CachesTyped DEF Next, Server

(* Values keep their types, however long the clock runs.                    *)
THEOREM VerificationTyped == Spec => []TypeOK
  BY InitTyped, NextTyped, PTL DEF Spec

-----------------------------------------------------------------------------
(* The windows.                                                             *)

(* How old a flag may be in the cache, or in a request that has it.         *)
Kept == REVOCATION_TTL + WriteTime + RequestTime

(* A flag had the value at a time or later; that a credential is revoked    *)
(* was never untrue once it is said.                                        *)
Held(f, b, time) == lastHeld[f][b] >= time

Truth(f, b) == f = "revoked" /\ b => chain[f]

CacheOK(f, c) ==
    c # None => /\ now <= c.expires
                /\ Held(f, c.value, c.expires - Kept)
                /\ Truth(f, c.value)

WriteOK(w) ==
    /\ now <= w.started + WriteTime
    /\ Held(w.flag, w.value, w.started - RequestTime)
    /\ Truth(w.flag, w.value)

RequestOK(p) ==
    p # None =>
        /\ p.since <= now /\ now <= p.since + RequestTime
        /\ Truth("revoked", p.revoked)
        /\ p.step = "revoked read" => Held("revoked", p.revoked, p.since)
        /\ p.step = "authorized read" => Held("authorized", p.authorized, p.since)
        /\ p.step \in {"authorized", "authorized read", "answer"} =>
              Held("revoked", p.revoked, p.since - Kept)
        /\ p.step = "answer" => Held("authorized", p.authorized, p.since - Kept)

EdgeOK(e) ==
    e # None =>
        /\ e.stored <= now /\ now <= e.stored + EdgeAge + EdgeStale
        /\ e.status = "revoked" => chain["revoked"]
        /\ e.status # "revoked" => Held("revoked", FALSE, e.stored - ServerWindow)
        /\ e.status = "expired" => e.stored >= ExpiresAt
        /\ e.status = "valid" => e.stored < ExpiresAt + RequestTime
        /\ Held("authorized", e.authorized, e.stored - ServerWindow)

Clock ==
    \A f \in Flags :
        lastHeld[f][chain[f]] = now /\ \A b \in BOOLEAN : lastHeld[f][b] <= now

WindowInv ==
    /\ TypeOK
    /\ Clock
    /\ \A f \in Flags : CacheOK(f, cache[f])
    /\ \A w \in writes : WriteOK(w)
    /\ \A r \in Requests : RequestOK(request[r])
    /\ EdgeOK(edge)

LEMMA InitWindow == Init => WindowInv
  <1> SUFFICES ASSUME Init PROVE WindowInv
    OBVIOUS
  <1>1. Clock
    BY DEF Init, Clock
  <1>2. /\ \A f \in Flags : CacheOK(f, cache[f])
        /\ \A w \in writes : WriteOK(w)
        /\ \A r \in Requests : RequestOK(request[r])
        /\ EdgeOK(edge)
    BY DEF Init, CacheOK, RequestOK, EdgeOK
  <1> QED
    BY <1>1, <1>2, InitTyped DEF WindowInv

(* Time goes on, and what was held was held.                                *)
Later ==
    /\ \A f \in Flags, b \in BOOLEAN : lastHeld'[f][b] >= lastHeld[f][b]
    /\ chain["revoked"] => chain'["revoked"]

LEMMA HeldStays ==
    ASSUME TypeOK, TypeOK', Later, NEW f \in Flags, NEW b \in BOOLEAN, NEW time \in Int,
           Held(f, b, time)
    PROVE  Held(f, b, time)'
  <1>1. lastHeld[f][b] \in Int /\ lastHeld'[f][b] \in Int
    BY DEF TypeOK, Time
  <1> QED
    BY <1>1 DEF Held, Later

LEMMA NextLater == WindowInv /\ [Next]_vars => Later /\ Clock'
  <1> SUFFICES ASSUME WindowInv, [Next]_vars PROVE Later /\ Clock'
    OBVIOUS
  <1>1. now \in Int /\ \A f \in Flags, b \in BOOLEAN : lastHeld[f][b] \in Int
    BY DEF WindowInv, TypeOK, Time
  <1>2. CASE UNCHANGED <<now, chain, lastHeld>>
    BY <1>1, <1>2 DEF WindowInv, Clock, Later
  <1>3. ASSUME NEW f \in Flags, NEW value \in BOOLEAN, SetFlag(f, value),
               f = "revoked" => value
        PROVE  Later /\ Clock'
    <2>1. /\ \A g \in Flags, b \in BOOLEAN :
                lastHeld'[g][b] = IF g = f /\ b = value THEN now ELSE lastHeld[g][b]
          /\ \A g \in Flags : chain'[g] = IF g = f THEN value ELSE chain[g]
          /\ now' = now
      BY <1>3 DEF SetFlag, WindowInv, TypeOK
    <2>2. \A g \in Flags : chain[g] \in BOOLEAN
      BY DEF WindowInv, TypeOK
    <2>3. "revoked" \in Flags
      BY DEF Flags
    <2> QED
      BY <1>1, <1>3, <2>1, <2>2, <2>3 DEF WindowInv, Clock, Later
  <1>4. CASE Tick
    <2>1. /\ \A g \in Flags, b \in BOOLEAN :
                lastHeld'[g][b] = IF b = chain[g] THEN now + 1 ELSE lastHeld[g][b]
          /\ chain' = chain /\ now' = now + 1
      BY <1>4 DEF Tick, WindowInv, TypeOK
    <2>2. \A g \in Flags : chain[g] \in BOOLEAN
      BY DEF WindowInv, TypeOK
    <2> QED
      BY <1>1, <2>1, <2>2 DEF WindowInv, Clock, Later
  <1>5. CASE Contract
    <2>1. Issue => UNCHANGED <<now, chain, lastHeld>>
      BY DEF Issue
    <2> QED
      BY <1>2, <1>3, <1>5, <2>1 DEF Contract, Flags
  <1>6. CASE Server \/ Caches
    <2>1. UNCHANGED <<now, chain, lastHeld>>
      BY <1>6 DEF Server, Arrive, ReadRecord, FlagHit, FlagRead, FlagStore, Respond, End,
         Caches, SetCachedFlag, LoseWrite, DropRecord, EdgeHit, EdgeRevalidate, chainVars
    <2> QED
      BY <1>2, <2>1
  <1>7. UNCHANGED vars => UNCHANGED <<now, chain, lastHeld>>
    BY DEF vars, chainVars
  <1> QED
    BY <1>2, <1>4, <1>5, <1>6, <1>7 DEF Next

LEMMA Numbers ==
    /\ Kept \in Nat /\ ServerWindow \in Nat
    /\ ServerWindow = Kept + RequestTime
    /\ Kept = REVOCATION_TTL + WriteTime + RequestTime
  BY DEF Kept, ServerWindow

(* What stays as it was, while no time passes.                              *)
LEMMA CacheStays ==
    ASSUME WindowInv, TypeOK', Later, now' = now, NEW f \in Flags, cache'[f] = cache[f]
    PROVE  CacheOK(f, cache[f])'
  <1> SUFFICES ASSUME cache[f] # None PROVE CacheOK(f, cache[f])'
    BY DEF CacheOK
  <1>1. /\ cache[f].value \in BOOLEAN /\ cache[f].expires \in Nat
        /\ Held(f, cache[f].value, cache[f].expires - Kept)
        /\ now <= cache[f].expires /\ Truth(f, cache[f].value)
    BY DEF WindowInv, CacheOK, TypeOK, Entry
  <1>2. lastHeld'[f][cache[f].value] >= cache[f].expires - Kept
    BY <1>1, HeldStays, Numbers DEF Held, WindowInv
  <1> QED
    BY <1>1, <1>2 DEF CacheOK, Held, Truth, Later

LEMMA WriteStays ==
    ASSUME WindowInv, TypeOK', Later, now' = now, NEW w \in writes
    PROVE  WriteOK(w)'
  <1>1. /\ w.value \in BOOLEAN /\ w.flag \in Flags /\ w.started \in Nat
        /\ Held(w.flag, w.value, w.started - RequestTime)
        /\ now <= w.started + WriteTime /\ Truth(w.flag, w.value)
    BY DEF WindowInv, WriteOK, TypeOK, Write, Time
  <1>2. Held(w.flag, w.value, w.started - RequestTime)'
    BY <1>1, HeldStays DEF WindowInv
  <1> QED
    BY <1>1, <1>2 DEF WriteOK, Truth, Later

LEMMA RequestStays ==
    ASSUME WindowInv, TypeOK', Later, now' = now, NEW r \in Requests,
           request'[r] = request[r]
    PROVE  RequestOK(request[r])'
  <1> SUFFICES ASSUME request[r] # None PROVE RequestOK(request[r])'
    BY DEF RequestOK
  <1> DEFINE p == request[r]
  <1>0. p \in Request /\ RequestOK(p)
    BY RequestTyped DEF WindowInv
  <1>1. p.since \in Time /\ p.revoked \in BOOLEAN /\ p.authorized \in BOOLEAN
    BY <1>0 DEF Request
  <1>4. p.since \in Int /\ p.since - Kept \in Int
    BY <1>1, Numbers DEF Time
  <1>2. "revoked" \in Flags /\ "authorized" \in Flags
    BY DEF Flags
  <1>3. \A f \in Flags, b \in BOOLEAN, time \in Int :
            lastHeld[f][b] >= time => lastHeld'[f][b] >= time
    BY HeldStays DEF Held, WindowInv
  <1> QED
    BY <1>0, <1>1, <1>2, <1>3, <1>4 DEF RequestOK, Held, Truth, Later

LEMMA EdgeStays ==
    ASSUME WindowInv, TypeOK', Later, now' = now, edge' = edge
    PROVE  EdgeOK(edge)'
  <1> SUFFICES ASSUME edge # None PROVE EdgeOK(edge)'
    BY DEF EdgeOK
  <1>1. /\ edge.stored \in Nat /\ edge.authorized \in BOOLEAN /\ EdgeOK(edge)
        /\ edge.stored - ServerWindow \in Int
    BY Numbers DEF WindowInv, TypeOK, EdgeEntry, Time
  <1>2. "revoked" \in Flags /\ "authorized" \in Flags
    BY DEF Flags
  <1>3. \A f \in Flags, b \in BOOLEAN, time \in Int :
            lastHeld[f][b] >= time => lastHeld'[f][b] >= time
    BY HeldStays DEF Held, WindowInv
  <1> QED
    BY <1>1, <1>2, <1>3 DEF EdgeOK, Held, Later

(* Only what a step changes needs to be looked at.                          *)
LEMMA Timeless ==
    ASSUME WindowInv, [Next]_vars, now' = now,
           \A f \in Flags : cache'[f] = cache[f] \/ CacheOK(f, cache[f])',
           \A w \in writes' : w \in writes \/ WriteOK(w)',
           \A r \in Requests : request'[r] = request[r] \/ RequestOK(request[r])',
           edge' = edge \/ EdgeOK(edge)'
    PROVE  WindowInv'
  <1>1. TypeOK'
    BY NextTyped DEF WindowInv
  <1>2. Later /\ Clock'
    BY NextLater
  <1>3. \A f \in Flags : CacheOK(f, cache[f])'
    BY <1>1, <1>2, CacheStays
  <1>4. \A w \in writes' : WriteOK(w)'
    BY <1>1, <1>2, WriteStays
  <1>5. \A r \in Requests : RequestOK(request[r])'
    BY <1>1, <1>2, RequestStays
  <1>6. EdgeOK(edge)'
    BY <1>1, <1>2, EdgeStays
  <1> QED
    BY <1>1, <1>2, <1>3, <1>4, <1>5, <1>6 DEF WindowInv

(* The clock moves on only while requests and writes have time left, and    *)
(* drops what has had its time.                                             *)
LEMMA TickKeeps == WindowInv /\ Tick => WindowInv'
  <1> SUFFICES ASSUME WindowInv, Tick PROVE WindowInv'
    OBVIOUS
  <1>1. TypeOK' /\ Later /\ Clock'
    BY NextTyped, NextLater DEF WindowInv, Next
  <1>2. /\ now \in Nat /\ now' = now + 1
        /\ UNCHANGED <<issued, chain, record, writes, request>>
    BY DEF Tick, WindowInv, TypeOK, Time
  <1>3. \A f \in Flags, b \in BOOLEAN, time \in Int :
            lastHeld[f][b] >= time => lastHeld'[f][b] >= time
    BY <1>1, HeldStays DEF Held, WindowInv
  <1>4. "revoked" \in Flags /\ "authorized" \in Flags
    BY DEF Flags
  <1>5. ASSUME NEW f \in Flags PROVE CacheOK(f, cache[f])'
    <2> SUFFICES ASSUME cache'[f] # None PROVE CacheOK(f, cache[f])'
      BY DEF CacheOK
    <2>1. cache'[f] = cache[f] /\ cache[f] # None /\ ~(cache[f].expires <= now + 1)
      BY DEF Tick, Expired
    <2>2. /\ cache[f].value \in BOOLEAN /\ cache[f].expires \in Nat /\ CacheOK(f, cache[f])
          /\ cache[f].expires - Kept \in Int
      BY <2>1, Numbers DEF WindowInv, TypeOK, Entry
    <2> QED
      BY <1>2, <1>3, <2>1, <2>2 DEF CacheOK, Held, Truth
  <1>6. ASSUME NEW w \in writes PROVE WriteOK(w)'
    <2>1. /\ w.value \in BOOLEAN /\ w.flag \in Flags /\ w.started \in Nat
          /\ w.started - RequestTime \in Int
          /\ WriteOK(w) /\ now < w.started + WriteTime
      BY DEF WindowInv, TypeOK, Write, Time, Tick
    <2> QED
      BY <1>2, <1>3, <2>1 DEF WriteOK, Held, Truth
  <1>7. ASSUME NEW r \in Requests PROVE RequestOK(request[r])'
    <2> SUFFICES ASSUME request[r] # None PROVE RequestOK(request[r])'
      BY <1>2 DEF RequestOK
    <2> DEFINE p == request[r]
    <2>1. p \in Request /\ RequestOK(p) /\ now < p.since + RequestTime
      BY RequestTyped DEF WindowInv, Tick
    <2>2. p.since \in Time /\ p.revoked \in BOOLEAN /\ p.authorized \in BOOLEAN
      BY <2>1 DEF Request
    <2>3. p.since \in Int /\ p.since - Kept \in Int
      BY <2>2, Numbers DEF Time
    <2>4. request'[r] = p
      BY <1>2
    <2> HIDE DEF p
    <2>5. p # None => p.since <= now' /\ now' <= p.since + RequestTime
      <3>1. p # None => p.since <= now /\ now < p.since + RequestTime
        BY <2>1 DEF RequestOK
      <3> QED
        BY <1>2, <2>3, <3>1
    <2>7. p # None /\ p.revoked => chain'["revoked"]
      <3>1. chain' = chain /\ (p # None => Truth("revoked", p.revoked))
        BY <1>2, <2>1 DEF RequestOK
      <3> QED
        BY <3>1 DEF Truth
    <2>6. /\ p # None /\ p.step = "revoked read" =>
                lastHeld'["revoked"][p.revoked] >= p.since
          /\ p # None /\ p.step = "authorized read" =>
                lastHeld'["authorized"][p.authorized] >= p.since
          /\ p # None /\ p.step \in {"authorized", "authorized read", "answer"} =>
                lastHeld'["revoked"][p.revoked] >= p.since - Kept
          /\ p # None /\ p.step = "answer" =>
                lastHeld'["authorized"][p.authorized] >= p.since - Kept
      BY <1>3, <1>4, <2>1, <2>2, <2>3 DEF RequestOK, Held
    <2> QED
      BY <2>4, <2>5, <2>6, <2>7 DEF RequestOK, Held, Truth
  <1>8. EdgeOK(edge)'
    <2> SUFFICES ASSUME edge' # None PROVE EdgeOK(edge)'
      BY DEF EdgeOK
    <2>1. edge' = edge /\ edge # None /\ ~(edge.stored + EdgeAge + EdgeStale <= now + 1)
      BY DEF Tick, EdgeExpired
    <2>2. /\ edge.stored \in Nat /\ edge.authorized \in BOOLEAN /\ EdgeOK(edge)
          /\ edge.stored - ServerWindow \in Int
      BY <2>1, Numbers DEF WindowInv, TypeOK, EdgeEntry, Time
    <2> DEFINE e == edge
    <2>3. edge' = e
      BY <2>1
    <2>4. /\ e # None /\ e.stored \in Nat /\ e.authorized \in BOOLEAN /\ EdgeOK(e)
          /\ e.stored - ServerWindow \in Int /\ ~(e.stored + EdgeAge + EdgeStale <= now + 1)
      BY <2>1, <2>2
    <2> HIDE DEF e
    <2>5. /\ e.stored <= now' /\ now' <= e.stored + EdgeAge + EdgeStale
          /\ e.status = "revoked" => chain'["revoked"]
          /\ e.status = "expired" => e.stored >= ExpiresAt
          /\ e.status = "valid" => e.stored < ExpiresAt + RequestTime
      BY <1>2, <2>4 DEF EdgeOK
    <2>6. /\ e.status # "revoked" => lastHeld'["revoked"][FALSE] >= e.stored - ServerWindow
          /\ lastHeld'["authorized"][e.authorized] >= e.stored - ServerWindow
      BY <1>3, <1>4, <2>4 DEF EdgeOK, Held
    <2> QED
      BY <2>3, <2>5, <2>6 DEF EdgeOK, Held
  <1> QED
    BY <1>1, <1>2, <1>5, <1>6, <1>7, <1>8 DEF WindowInv

LEMMA Unchanged ==
    ASSUME WindowInv, [Next]_vars, UNCHANGED <<now, cache, writes, edge>>,
           NEW r \in Requests, \A o \in Requests \ {r} : request'[o] = request[o],
           request'[r] = request[r] \/ RequestOK(request[r])'
    PROVE  WindowInv'
  BY Timeless

LEMMA ContractKeeps == WindowInv /\ Contract => WindowInv'
  <1> SUFFICES ASSUME WindowInv, Contract PROVE WindowInv'
    OBVIOUS
  <1>1. UNCHANGED <<now, cacheVars, request, edge>>
    BY DEF Contract, Issue, SetFlag
  <1> QED
    BY <1>1, Timeless DEF cacheVars, Next

(* A request that begins, goes on without a flag, or ends.                  *)
LEMMA RequestKeeps ==
    ASSUME WindowInv, NEW r \in Requests,
           \/ \E kind \in {"verify", "share"} : Arrive(r, kind)
           \/ ReadRecord(r)
           \/ End(r)
    PROVE  WindowInv'
  <1>0. [Next]_vars
    BY DEF Next, Server
  <1>1. UNCHANGED <<now, cache, writes, edge, chain, lastHeld>>
    BY DEF Arrive, ReadRecord, End, chainVars, cacheVars
  <1>2. \A o \in Requests \ {r} : request'[o] = request[o]
    BY DEF Arrive, Begin, ReadRecord, End, WindowInv, TypeOK
  <1>3. ASSUME NEW kind \in {"verify", "share"}, Arrive(r, kind)
        PROVE  RequestOK(request[r])'
    <2> DEFINE p == [kind |-> kind, step |-> "record", revoked |-> FALSE, authorized |-> FALSE,
                     status |-> "valid", since |-> now]
    <2>1. request'[r] = p
      BY <1>3 DEF Arrive, Begin, WindowInv, TypeOK
    <2>2. p.since = now /\ p.step = "record" /\ p.revoked = FALSE
      OBVIOUS
    <2> HIDE DEF p
    <2>3. now \in Nat
      BY DEF WindowInv, TypeOK, Time
    <2> QED
      BY <1>1, <2>1, <2>2, <2>3 DEF RequestOK, Truth
  <1>4. ASSUME ReadRecord(r) PROVE RequestOK(request[r])'
    <2>1. /\ request[r] # None /\ RequestOK(request[r])
          /\ request'[r].step = "revoked" /\ request'[r].since = request[r].since
          /\ request'[r].revoked = request[r].revoked
      BY <1>4, StepTyped DEF ReadRecord, WindowInv, Steps
    <2>2. /\ request[r].since <= now /\ now <= request[r].since + RequestTime
          /\ Truth("revoked", request[r].revoked)
      BY <2>1 DEF RequestOK
    <2>3. request'[r].revoked => chain'["revoked"]
      BY <1>1, <2>1, <2>2 DEF Truth
    <2>4. request'[r].since <= now' /\ now' <= request'[r].since + RequestTime
      BY <1>1, <2>1, <2>2
    <2> QED
      BY <2>1, <2>3, <2>4 DEF RequestOK, Truth
  <1>5. ASSUME End(r) PROVE RequestOK(request[r])'
    <2>1. request'[r] = None
      BY <1>5 DEF End, WindowInv, TypeOK
    <2> QED
      BY <2>1 DEF RequestOK
  <1> QED
    BY <1>0, <1>1, <1>2, <1>3, <1>4, <1>5, Unchanged

(* What a request knows once it has read or found a flag.                   *)
LEMMA FlagKnown ==
    ASSUME WindowInv, NEW r \in Requests, request[r] # None, NEW f \in Flags,
           request[r].step = f, NEW b \in BOOLEAN, Truth(f, b),
           NEW step \in {Reading(f), StepAfter(f)},
           Held(f, b, now - Kept), step = Reading(f) => Held(f, b, now),
           NEW status, OneSet(r, f, b, step, status), UNCHANGED <<now, chain, lastHeld>>
    PROVE  RequestOK(request[r])'
  <1> DEFINE p == request[r]
             q == request'[r]
  <1>2. /\ q.step = step /\ q.since = p.since /\ q[f] = b
        /\ f = "revoked" => q.authorized = p.authorized
        /\ f = "authorized" => q.revoked = p.revoked
    BY DEF OneSet
  <1>3. p \in Request /\ RequestOK(p)
    BY RequestTyped DEF WindowInv
  <1>4. p.since \in Time /\ p.revoked \in BOOLEAN
    BY <1>3 DEF Request
  <1>5. p.since \in Int /\ now \in Int /\ Kept \in Nat
    BY <1>4, Numbers DEF Time, WindowInv, TypeOK
  <1>6. p.since <= now /\ now <= p.since + RequestTime /\ Truth("revoked", p.revoked)
    BY <1>3 DEF RequestOK
  <1>7. lastHeld[f][b] \in Int
    BY DEF WindowInv, TypeOK, Time
  <1>8. /\ lastHeld[f][b] >= p.since - Kept
        /\ step = Reading(f) => lastHeld[f][b] >= p.since
    BY <1>5, <1>6, <1>7 DEF Held
  <1>9. CASE f = "revoked"
    <2>1. q.revoked = b /\ step \in {"revoked read", "authorized"}
      BY <1>2, <1>9 DEF Reading, StepAfter
    <2> HIDE DEF p, q
    <2>2. /\ q.since <= now' /\ now' <= q.since + RequestTime
          /\ step = "revoked read" => lastHeld'["revoked"][q.revoked] >= q.since
          /\ lastHeld'["revoked"][q.revoked] >= q.since - Kept
      BY <1>2, <1>5, <1>6, <1>8, <1>9, <2>1 DEF Reading
    <2>3. q.revoked => chain'["revoked"]
      BY <1>9, <2>1 DEF Truth
    <2> QED
      BY <1>2, <2>1, <2>2, <2>3 DEF RequestOK, Held, Truth, q
  <1>10. CASE f = "authorized"
    <2>1. /\ q.authorized = b /\ q.revoked = p.revoked
          /\ step \in {"authorized read", "answer"} /\ p.step = "authorized"
      BY <1>2, <1>10 DEF Reading, StepAfter
    <2>2. lastHeld["revoked"][p.revoked] >= p.since - Kept
      BY <1>3, <2>1 DEF RequestOK, Held
    <2> HIDE DEF p, q
    <2>3. /\ q.since <= now' /\ now' <= q.since + RequestTime
          /\ step = "authorized read" => lastHeld'["authorized"][q.authorized] >= q.since
          /\ lastHeld'["authorized"][q.authorized] >= q.since - Kept
          /\ lastHeld'["revoked"][q.revoked] >= q.since - Kept
      BY <1>2, <1>5, <1>6, <1>8, <1>10, <2>1, <2>2 DEF Reading
    <2>4. q.revoked => chain'["revoked"]
      BY <1>6, <2>1 DEF Truth
    <2> QED
      BY <1>2, <2>1, <2>3, <2>4 DEF RequestOK, Held, Truth, q
  <1> QED
    BY <1>9, <1>10 DEF Flags

LEMMA FlagKeeps ==
    ASSUME WindowInv, NEW r \in Requests, NEW f \in Flags, FlagHit(r, f) \/ FlagRead(r, f)
    PROVE  WindowInv'
  <1>0. [Next]_vars
    BY DEF Next, Server
  <1>1. /\ UNCHANGED <<now, cache, writes, edge, chain, lastHeld>>
        /\ request[r] # None /\ request[r].step = f
    BY DEF FlagHit, FlagRead, chainVars, cacheVars
  <1>2. \A o \in Requests \ {r} : request'[o] = request[o]
    BY DEF FlagHit, FlagRead, WindowInv, TypeOK
  <1>3. TypeOK /\ now \in Int /\ Kept \in Nat
    BY Numbers DEF WindowInv, TypeOK, Time
  <1>4. ASSUME FlagHit(r, f) PROVE RequestOK(request[r])'
    <2> DEFINE b == cache[f].value
    <2>1. /\ b \in BOOLEAN /\ cache[f].expires \in Nat /\ CacheOK(f, cache[f])
          /\ cache[f] # None
      BY <1>4 DEF FlagHit, WindowInv, TypeOK, Entry
    <2>2. StepAfter(f) \in Steps
      BY DEF Steps, StepAfter
    <2>3. Sets(r, f, b, StepAfter(f), StatusAfter(r, f)) /\ StatusAfter(r, f) \in Statuses
      BY <1>1, <1>3, <1>4, StatusAfterTyped DEF FlagHit, Sets
    <2>4. OneSet(r, f, b, StepAfter(f), StatusAfter(r, f))
      BY <1>1, <1>3, <2>1, <2>2, <2>3, FlagTyped
    <2>5. lastHeld[f][b] \in Int
      BY <2>1 DEF WindowInv, TypeOK, Time
    <2>6. Held(f, b, now - Kept) /\ Truth(f, b)
      BY <1>3, <2>1, <2>5 DEF CacheOK, Held
    <2>7. StepAfter(f) \in {Reading(f), StepAfter(f)} /\ StepAfter(f) # Reading(f)
      BY DEF Flags, Reading, StepAfter
    <2> HIDE DEF b
    <2> QED
      BY <1>1, <2>1, <2>4, <2>6, <2>7, FlagKnown
  <1>5. ASSUME FlagRead(r, f) PROVE RequestOK(request[r])'
    <2> DEFINE b == chain[f]
    <2>1. b \in BOOLEAN
      BY DEF WindowInv, TypeOK
    <2>2. Reading(f) \in Steps
      BY DEF Steps, Reading
    <2>3. Sets(r, f, b, Reading(f), request[r].status) /\ request[r].status \in Statuses
      BY <1>1, <1>3, <1>5, RequestTyped DEF FlagRead, Sets, Request
    <2>4. OneSet(r, f, b, Reading(f), request[r].status)
      BY <1>1, <1>3, <2>1, <2>2, <2>3, FlagTyped
    <2>5. lastHeld[f][b] = now
      BY DEF WindowInv, Clock
    <2>6. Held(f, b, now) /\ Held(f, b, now - Kept)
      BY <1>3, <2>5 DEF Held
    <2>7. Truth(f, b)
      BY DEF Truth
    <2> HIDE DEF b
    <2> QED
      BY <1>1, <2>1, <2>4, <2>6, <2>7, FlagKnown
  <1> QED
    BY <1>0, <1>1, <1>2, <1>4, <1>5, Unchanged

LEMMA StoreKeeps ==
    ASSUME WindowInv, NEW r \in Requests, NEW f \in Flags, FlagStore(r, f)
    PROVE  WindowInv'
  <1>0. [Next]_vars
    BY DEF Next, Server
  <1> PICK w : w = [flag |-> f, value |-> request[r][f], started |-> now]
    OBVIOUS
  <1> DEFINE p == request[r]
  <1>1. /\ UNCHANGED <<now, cache, edge, chain, lastHeld>>
        /\ p # None /\ p.step = Reading(f)
        /\ writes' = writes \cup {w}
        /\ request' = [request EXCEPT ![r].step = StepAfter(f), ![r].status = StatusAfter(r, f)]
    BY DEF FlagStore, chainVars
  <1>2. p \in Request /\ RequestOK(p) /\ TypeOK
    BY <1>1, RequestTyped DEF WindowInv
  <1>3. p.since \in Time /\ p.revoked \in BOOLEAN /\ p.authorized \in BOOLEAN
    BY <1>2 DEF Request
  <1>4. now \in Int /\ Kept \in Nat /\ p.since \in Int /\ p.since <= now /\ now <= p.since + RequestTime
    <2>1. now \in Int /\ Kept \in Nat /\ p.since \in Int
      BY <1>2, <1>3, Numbers DEF TypeOK, Time
    <2> QED
      BY <1>1, <1>2, <2>1 DEF RequestOK
  <1>5. p[f] \in BOOLEAN /\ Held(f, p[f], p.since) /\ Truth(f, p[f])
    <2>1. CASE f = "revoked"
      BY <1>1, <1>2, <1>3, <2>1 DEF RequestOK, Reading
    <2>2. CASE f = "authorized"
      <3>1. Held("authorized", p.authorized, p.since)
        BY <1>1, <1>2, <2>2 DEF RequestOK, Reading
      <3> QED
        BY <1>3, <2>2, <3>1 DEF Truth
    <2> QED
      BY <2>1, <2>2 DEF Flags
  <1>6. lastHeld[f][p[f]] \in Int
    BY <1>2, <1>5 DEF TypeOK, Time
  <1>7. WriteOK(w)'
    <2>1. w.flag = f /\ w.value = p[f] /\ w.started = now
      OBVIOUS
    <2>2. lastHeld[f][p[f]] >= now - RequestTime
      BY <1>4, <1>5, <1>6 DEF Held
    <2>3. now <= now + WriteTime
      BY <1>4
    <2>4. f = "revoked" /\ w.value => chain'[f]
      BY <1>1, <1>5, <2>1 DEF Truth
    <2>5. now' <= w.started + WriteTime /\ lastHeld'[w.flag][w.value] >= w.started - RequestTime
      BY <1>1, <2>1, <2>2, <2>3
    <2> QED
      BY <2>1, <2>4, <2>5 DEF WriteOK, Held, Truth
  <1>8. RequestOK(request[r])'
    <2> DEFINE q == request'[r]
    <2>1. StepAfter(f) \in Steps
      BY DEF Steps, StepAfter
    <2>2. /\ q.step = StepAfter(f) /\ q.since = p.since /\ q.revoked = p.revoked
          /\ q.authorized = p.authorized
      BY <1>1, <1>2, <2>1, StatusAfterTyped, StatusStepTyped
    <2>3. Truth("revoked", p.revoked)
      BY <1>1, <1>2 DEF RequestOK
    <2>4. lastHeld[f][p[f]] >= p.since - Kept
      BY <1>4, <1>5, <1>6 DEF Held
    <2>5. f = "authorized" => lastHeld["revoked"][p.revoked] >= p.since - Kept
      BY <1>1, <1>2 DEF RequestOK, Held, Reading
    <2> HIDE DEF p
    <2>6. q.revoked => chain'["revoked"]
      BY <1>1, <2>2, <2>3 DEF Truth
    <2>7. q.since <= now' /\ now' <= q.since + RequestTime
      BY <1>1, <1>4, <2>2
    <2>8. q.step \in {"authorized", "answer"}
      BY <2>2 DEF Flags, StepAfter
    <2>9. /\ lastHeld'["revoked"][q.revoked] >= q.since - Kept
          /\ q.step = "answer" => lastHeld'["authorized"][q.authorized] >= q.since - Kept
      <3>1. CASE f = "revoked"
        BY <1>1, <2>2, <2>4, <3>1 DEF StepAfter
      <3>2. CASE f = "authorized"
        BY <1>1, <2>2, <2>4, <2>5, <3>2 DEF StepAfter
      <3> QED
        BY <3>1, <3>2 DEF Flags
    <2> QED
      BY <2>6, <2>7, <2>8, <2>9 DEF RequestOK, Held, Truth
  <1>9. \A o \in Requests \ {r} : request'[o] = request[o]
    BY <1>1, <1>2 DEF TypeOK
  <1> QED
    BY <1>0, <1>1, <1>7, <1>8, <1>9, Timeless

(* What an answer says of a flag is as old as the request's knowledge of it *)
(* and the request may be.                                                  *)
LEMMA Answered ==
    ASSUME WindowInv, NEW r \in Requests, request[r] # None, request[r].step = "answer"
    PROVE  /\ request[r].revoked \in BOOLEAN /\ request[r].authorized \in BOOLEAN
           /\ Held("revoked", request[r].revoked, now - ServerWindow)
           /\ Held("authorized", request[r].authorized, now - ServerWindow)
           /\ request[r].revoked => chain["revoked"]
  <1> DEFINE p == request[r]
  <1>1. p \in Request /\ RequestOK(p) /\ TypeOK
    BY RequestTyped DEF WindowInv
  <1>2. p.since \in Time /\ p.revoked \in BOOLEAN /\ p.authorized \in BOOLEAN
    BY <1>1 DEF Request
  <1>3. now \in Int /\ p.since \in Int
    BY <1>1, <1>2 DEF TypeOK, Time
  <1>4. lastHeld["revoked"][p.revoked] \in Int /\ lastHeld["authorized"][p.authorized] \in Int
    BY <1>1, <1>2 DEF TypeOK, Time, Flags
  <1>5. /\ now <= p.since + RequestTime
        /\ lastHeld["revoked"][p.revoked] >= p.since - Kept
        /\ lastHeld["authorized"][p.authorized] >= p.since - Kept
    BY <1>1 DEF RequestOK, Held
  <1>6. /\ lastHeld["revoked"][p.revoked] >= now - ServerWindow
        /\ lastHeld["authorized"][p.authorized] >= now - ServerWindow
    BY <1>3, <1>4, <1>5, Numbers
  <1>7. p.revoked => chain["revoked"]
    BY <1>1 DEF RequestOK, Truth
  <1> QED
    BY <1>2, <1>6, <1>7 DEF Held

(* The status as it is fixed.                                               *)
LEMMA StatusMeans ==
    ASSUME NEW b \in BOOLEAN, now \in Int
    PROVE  LET status == CredentialStatusAt(b) IN
           /\ status = "revoked" <=> b
           /\ status = "expired" => now >= ExpiresAt
           /\ status = "valid" => now < ExpiresAt
  BY DEF CredentialStatusAt

(* A request that has only to answer has a status that was right at some    *)
(* time since it began.                                                     *)
StatusKnown(p) ==
    p # None /\ p.step = "answer" =>
        /\ p.status = "revoked" <=> p.revoked
        /\ p.status = "expired" => now >= ExpiresAt
        /\ p.status = "valid" => p.since < ExpiresAt

StatusesKnown == \A r \in Requests : StatusKnown(request[r])

LEMMA InitStatuses == Init => StatusesKnown
  BY DEF Init, StatusesKnown, StatusKnown

(* The status is fixed by the step that has the second flag.                *)
LEMMA StatusFixed ==
    ASSUME WindowInv, NEW r \in Requests, request[r] # None, NEW f \in Flags, now' = now,
           NEW step \in Steps, step = "answer" => f = "authorized",
           NEW q, q = request'[r], q.step = step, q.since = request[r].since,
           f = "authorized" => q.revoked = request[r].revoked,
           q.status = StatusAfter(r, f)
    PROVE  StatusKnown(request[r])'
  <1> DEFINE p == request[r]
  <1>1. p \in Request /\ RequestOK(p)
    BY RequestTyped DEF WindowInv
  <1>2. now \in Int /\ p.since \in Int /\ p.revoked \in BOOLEAN
    <2>1. p.since \in Time /\ p.revoked \in BOOLEAN
      BY <1>1 DEF Request
    <2> QED
      BY <2>1 DEF WindowInv, TypeOK, Time
  <1>3. p.since <= now
    BY <1>1 DEF RequestOK
  <1> SUFFICES ASSUME q.step = "answer"
               PROVE  /\ q.status = "revoked" <=> q.revoked
                      /\ q.status = "expired" => now >= ExpiresAt
                      /\ q.status = "valid" => q.since < ExpiresAt
    BY DEF StatusKnown
  <1>4. q.status = CredentialStatusAt(p.revoked) /\ q.revoked = p.revoked
    BY DEF StatusAfter
  <1>5. LET status == CredentialStatusAt(p.revoked) IN
           /\ status = "revoked" <=> p.revoked
           /\ status = "expired" => now >= ExpiresAt
           /\ status = "valid" => now < ExpiresAt
    BY <1>2, StatusMeans
  <1> QED
    BY <1>2, <1>3, <1>4, <1>5

(* Time only adds to what has expired.                                      *)
LEMMA StatusStays ==
    ASSUME WindowInv, StatusesKnown, NEW r \in Requests, request'[r] = request[r],
           now' \in Int, now' >= now
    PROVE  StatusKnown(request[r])'
  <1>1. StatusKnown(request[r]) /\ now \in Int
    BY DEF StatusesKnown, WindowInv, TypeOK, Time
  <1> QED
    BY <1>1 DEF StatusKnown

LEMMA OtherStep ==
    ASSUME NEW r \in Requests, request'[r].step # "answer" \/ request'[r] = None
    PROVE  StatusKnown(request[r])'
  BY DEF StatusKnown

LEMMA StoreStepped ==
    ASSUME TypeOK, NEW r \in Requests, request[r] # None, NEW f \in Flags,
           request' = [request EXCEPT ![r].step = StepAfter(f), ![r].status = StatusAfter(r, f)]
    PROVE  /\ request'[r].step = StepAfter(f) /\ request'[r].since = request[r].since
           /\ request'[r].status = StatusAfter(r, f)
           /\ request'[r].revoked = request[r].revoked
  <1> DEFINE p == [[request[r] EXCEPT !.step = StepAfter(f)] EXCEPT !.status = StatusAfter(r, f)]
  <1>1. request[r] \in Request
    BY RequestTyped
  <1>2. request' = [request EXCEPT ![r] = p]
    BY DEF TypeOK
  <1>3. /\ p.step = StepAfter(f) /\ p.since = request[r].since
        /\ p.status = StatusAfter(r, f) /\ p.revoked = request[r].revoked
    BY <1>1 DEF Request
  <1> HIDE DEF p
  <1>4. request'[r] = p
    BY <1>2 DEF TypeOK
  <1> QED
    BY <1>3, <1>4

LEMMA ServerStatuses ==
    ASSUME WindowInv, StatusesKnown, Server
    PROVE  StatusesKnown'
  <1>0. now' = now /\ now \in Int /\ TypeOK
    <2>1. now' = now
      BY DEF Server, Arrive, ReadRecord, FlagHit, FlagRead, FlagStore, Respond, End
    <2> QED
      BY <2>1 DEF WindowInv, TypeOK, Time
  <1> PICK r \in Requests :
        \/ \E kind \in {"verify", "share"} : Arrive(r, kind)
        \/ ReadRecord(r)
        \/ \E f \in Flags : FlagHit(r, f) \/ FlagRead(r, f) \/ FlagStore(r, f)
        \/ Respond(r)
        \/ End(r)
    BY DEF Server
  <1>1. \A o \in Requests \ {r} : request'[o] = request[o]
    BY <1>0 DEF Arrive, Begin, ReadRecord, FlagHit, FlagRead, FlagStore, Respond, End, TypeOK
  <1>2. StatusKnown(request[r])'
    <2>1. ASSUME NEW kind \in {"verify", "share"}, Arrive(r, kind)
          PROVE  StatusKnown(request[r])'
      <3>1. request'[r].step = "record"
        BY <1>0, <2>1 DEF Arrive, Begin, TypeOK
      <3> QED
        BY <3>1, OtherStep
    <2>2. CASE ReadRecord(r)
      <3>1. request'[r].step = "revoked"
        BY <1>0, <2>2, StepTyped DEF ReadRecord, Steps
      <3> QED
        BY <3>1, OtherStep
    <2>3. ASSUME NEW f \in Flags, FlagHit(r, f) PROVE StatusKnown(request[r])'
      <3>1. /\ cache[f].value \in BOOLEAN /\ StepAfter(f) \in Steps
            /\ request[r] # None /\ StatusAfter(r, f) \in Statuses
        BY <1>0, <2>3, StatusAfterTyped DEF FlagHit, TypeOK, Entry, StepAfter, Steps
      <3>2. Sets(r, f, cache[f].value, StepAfter(f), StatusAfter(r, f))
        BY <2>3 DEF FlagHit, Sets
      <3>3. OneSet(r, f, cache[f].value, StepAfter(f), StatusAfter(r, f))
        BY <1>0, <3>1, <3>2, FlagTyped
      <3>4. StepAfter(f) = "answer" => f = "authorized"
        BY DEF StepAfter, Flags
      <3> QED
        BY <1>0, <3>1, <3>3, <3>4, StatusFixed DEF OneSet
    <2>4. ASSUME NEW f \in Flags, FlagRead(r, f) PROVE StatusKnown(request[r])'
      <3>1. /\ chain[f] \in BOOLEAN /\ Reading(f) \in Steps /\ Reading(f) # "answer"
            /\ request[r] # None /\ request[r].status \in Statuses
        BY <1>0, <2>4, RequestTyped DEF FlagRead, TypeOK, Request, Reading, Steps
      <3>2. Sets(r, f, chain[f], Reading(f), request[r].status)
        BY <2>4 DEF FlagRead, Sets
      <3>3. OneSet(r, f, chain[f], Reading(f), request[r].status)
        BY <1>0, <3>1, <3>2, FlagTyped
      <3> QED
        BY <3>1, <3>3, OtherStep DEF OneSet
    <2>5. ASSUME NEW f \in Flags, FlagStore(r, f) PROVE StatusKnown(request[r])'
      <3>1. /\ StepAfter(f) \in Steps /\ request[r] # None
            /\ StatusAfter(r, f) \in Statuses
        BY <1>0, <2>5, StatusAfterTyped DEF FlagStore, StepAfter, Steps
      <3>2. request' = [request EXCEPT ![r].step = StepAfter(f), ![r].status = StatusAfter(r, f)]
        BY <2>5 DEF FlagStore
      <3>3. /\ request'[r].step = StepAfter(f) /\ request'[r].since = request[r].since
            /\ request'[r].status = StatusAfter(r, f)
            /\ request'[r].revoked = request[r].revoked
        BY <1>0, <3>1, <3>2, StoreStepped
      <3>4. StepAfter(f) = "answer" => f = "authorized"
        BY DEF StepAfter, Flags
      <3> QED
        BY <1>0, <3>1, <3>3, <3>4, StatusFixed
    <2>6. CASE Respond(r) \/ End(r)
      <3>1. request'[r] = None
        BY <1>0, <2>6 DEF Respond, End, TypeOK
      <3> QED
        BY <3>1, OtherStep
    <2> QED
      BY <2>1, <2>2, <2>3, <2>4, <2>5, <2>6
  <1>3. \A o \in Requests \ {r} : StatusKnown(request[o])'
    BY <1>0, <1>1, StatusStays
  <1> QED
    BY <1>2, <1>3 DEF StatusesKnown

LEMMA NextStatuses == WindowInv /\ StatusesKnown /\ [Next]_vars => StatusesKnown'
  <1> SUFFICES ASSUME WindowInv, StatusesKnown, [Next]_vars PROVE StatusesKnown'
    OBVIOUS
  <1>0. now \in Int /\ TypeOK
    BY DEF WindowInv, TypeOK, Time
  <1>1. CASE UNCHANGED request /\ (now' = now \/ now' = now + 1)
    <2>1. now' \in Int /\ now' >= now /\ \A r \in Requests : request'[r] = request[r]
      BY <1>0, <1>1
    <2>2. \A r \in Requests : StatusKnown(request[r])'
      BY <2>1, StatusStays
    <2> QED
      BY <2>2 DEF StatusesKnown
  <1>2. ASSUME NEW r \in Requests, EdgeRevalidate(r) PROVE StatusesKnown'
    <2>1. /\ now' = now /\ request'[r].step = "record"
          /\ \A o \in Requests \ {r} : request'[o] = request[o]
      BY <1>0, <1>2 DEF EdgeRevalidate, Begin, TypeOK
    <2>2. \A o \in Requests \ {r} : StatusKnown(request[o])'
      BY <1>0, <2>1, StatusStays
    <2>3. StatusKnown(request[r])'
      BY <2>1, OtherStep
    <2> QED
      BY <2>2, <2>3 DEF StatusesKnown
  <1>3. CASE Contract \/ Tick \/ UNCHANGED vars
    <2>1. UNCHANGED request /\ (now' = now \/ now' = now + 1)
      BY <1>3 DEF Contract, Issue, SetFlag, Tick, vars
    <2> QED
      BY <1>1, <2>1
  <1>4. CASE Caches
    <2>1. ASSUME ~ \E r \in Requests : EdgeRevalidate(r)
          PROVE  UNCHANGED request /\ now' = now
      BY <1>4, <2>1 DEF Caches, SetCachedFlag, LoseWrite, DropRecord, EdgeHit
    <2> QED
      BY <1>1, <1>2, <2>1
  <1> QED
    BY <1>3, <1>4, ServerStatuses DEF Next

(* What an answer says as it is given, about which the request may be late. *)
LEMMA AnsweredStatus ==
    ASSUME WindowInv, StatusesKnown, NEW r \in Requests, request[r] # None,
           request[r].step = "answer"
    PROVE  /\ request[r].status = "revoked" <=> request[r].revoked
           /\ request[r].status = "expired" => now >= ExpiresAt
           /\ request[r].status = "valid" => now < ExpiresAt + RequestTime
  <1> DEFINE p == request[r]
  <1>1. p \in Request /\ RequestOK(p) /\ StatusKnown(p)
    BY RequestTyped DEF WindowInv, StatusesKnown
  <1>2. now \in Int /\ p.since \in Int
    <2>1. p.since \in Time
      BY <1>1 DEF Request
    <2> QED
      BY <2>1 DEF WindowInv, TypeOK, Time
  <1>3. now <= p.since + RequestTime /\ (p.status = "valid" => p.since < ExpiresAt)
    BY <1>1 DEF RequestOK, StatusKnown
  <1>4. p.status = "valid" => now < ExpiresAt + RequestTime
    BY <1>2, <1>3
  <1> QED
    BY <1>1, <1>4 DEF StatusKnown

LEMMA RespondKeeps ==
    ASSUME WindowInv, StatusesKnown, NEW r \in Requests, Respond(r)
    PROVE  WindowInv'
  <1>0. [Next]_vars
    BY DEF Next, Server
  <1>1. /\ UNCHANGED <<now, cache, writes, chain, lastHeld>>
        /\ request[r] # None /\ request[r].step = "answer"
    BY DEF Respond, chainVars, cacheVars
  <1>2. \A o \in Requests : request'[o] = request[o] \/ request'[o] = None
    BY DEF Respond, WindowInv, TypeOK
  <1>3. \A o \in Requests : request'[o] = request[o] \/ RequestOK(request[o])'
    BY <1>2 DEF RequestOK
  <1>4. edge' = edge \/ EdgeOK(edge)'
    <2> DEFINE p == request[r]
               status == p.status
    <2>1. /\ p.revoked \in BOOLEAN /\ p.authorized \in BOOLEAN
          /\ Held("revoked", p.revoked, now - ServerWindow)
          /\ Held("authorized", p.authorized, now - ServerWindow)
          /\ p.revoked => chain["revoked"]
      BY <1>1, Answered
    <2>2. now \in Nat
      BY DEF WindowInv, TypeOK, Time
    <2>3. /\ status = "revoked" <=> p.revoked
          /\ status = "expired" => now >= ExpiresAt
          /\ status = "valid" => now < ExpiresAt + RequestTime
      BY <1>1, AnsweredStatus
    <2> HIDE DEF status
    <2>4. edge' = edge \/ edge' = [status |-> status, authorized |-> p.authorized, stored |-> now]
      BY DEF Respond, status
    <2>5. SUFFICES ASSUME edge' = [status |-> status, authorized |-> p.authorized, stored |-> now]
                   PROVE  EdgeOK(edge)'
      BY <2>4
    <2>6. edge'.status = status /\ edge'.authorized = p.authorized /\ edge'.stored = now
      BY <2>5
    <2>7. /\ edge'.stored <= now' /\ now' <= edge'.stored + EdgeAge + EdgeStale
          /\ edge'.status = "expired" => edge'.stored >= ExpiresAt
          /\ edge'.status = "valid" => edge'.stored < ExpiresAt + RequestTime
      BY <1>1, <2>2, <2>3, <2>6
    <2>8. p.revoked \/ p.revoked = FALSE
      BY <2>1
    <2>9. /\ edge'.status = "revoked" => chain'["revoked"]
          /\ edge'.status # "revoked" => Held("revoked", FALSE, now - ServerWindow)
      BY <1>1, <2>1, <2>3, <2>6, <2>8
    <2>10. /\ edge'.status # "revoked" =>
                 lastHeld'["revoked"][FALSE] >= edge'.stored - ServerWindow
           /\ lastHeld'["authorized"][edge'.authorized] >= edge'.stored - ServerWindow
      BY <1>1, <2>1, <2>6, <2>9 DEF Held
    <2> QED
      BY <2>7, <2>9, <2>10 DEF EdgeOK, Held
  <1> QED
    BY <1>0, <1>1, <1>3, <1>4, Timeless

(* A flag that is stored carries the age it was read with.                  *)
LEMMA CachesKeep == WindowInv /\ Caches => WindowInv'
  <1> SUFFICES ASSUME WindowInv, Caches PROVE WindowInv'
    OBVIOUS
  <1>0. [Next]_vars
    BY DEF Next
  <1>1. ASSUME NEW w \in writes, SetCachedFlag(w) PROVE WindowInv'
    <2> DEFINE c == [value |-> w.value, expires |-> now + REVOCATION_TTL]
               f == w.flag
    <2>1. /\ f \in Flags /\ w.value \in BOOLEAN /\ w.started \in Nat /\ now \in Nat
          /\ WriteOK(w) /\ w.started - RequestTime \in Int
      BY DEF WindowInv, TypeOK, Write, Time
    <2>2. /\ cache'[f] = c /\ \A g \in Flags \ {f} : cache'[g] = cache[g]
          /\ writes' \subseteq writes /\ UNCHANGED <<now, chain, lastHeld, request, edge>>
      BY <1>1, <2>1 DEF SetCachedFlag, WindowInv, TypeOK, chainVars
    <2>3. lastHeld[f][w.value] \in Int
      BY <2>1 DEF WindowInv, TypeOK, Time
    <2>4. c.value = w.value /\ c.expires = now + REVOCATION_TTL
      OBVIOUS
    <2> HIDE DEF c
    <2>5. /\ now <= c.expires
          /\ lastHeld[f][w.value] >= c.expires - Kept
      BY <2>1, <2>3, <2>4, Numbers DEF WriteOK, Held
    <2>6. f = "revoked" /\ w.value => chain[f]
      BY <2>1 DEF WriteOK, Truth
    <2>7. CacheOK(f, cache[f])'
      <3>1. cache'[f].expires = c.expires /\ cache'[f].value = w.value
        BY <2>2, <2>4
      <3>2. /\ now' <= cache'[f].expires
            /\ lastHeld'[f][cache'[f].value] >= cache'[f].expires - Kept
        BY <2>2, <2>5, <3>1
      <3>3. f = "revoked" /\ cache'[f].value => chain'[f]
        BY <2>2, <2>6, <3>1
      <3> QED
        BY <3>2, <3>3 DEF CacheOK, Held, Truth
    <2>8. \A g \in Flags : cache'[g] = cache[g] \/ CacheOK(g, cache[g])'
      BY <2>2, <2>7
    <2> QED
      BY <1>0, <2>2, <2>8, Timeless
  <1>2. ASSUME NEW w \in writes, LoseWrite(w) PROVE WindowInv'
    BY <1>0, <1>2, Timeless DEF LoseWrite
  <1>3. CASE DropRecord \/ EdgeHit
    BY <1>0, <1>3, Timeless DEF DropRecord, EdgeHit, cacheVars
  <1>4. ASSUME NEW r \in Requests, EdgeRevalidate(r) PROVE WindowInv'
    <2> DEFINE p == [kind |-> "verify", step |-> "record", revoked |-> FALSE,
                     authorized |-> FALSE, status |-> "valid", since |-> now]
    <2>1. /\ request'[r] = p /\ \A o \in Requests \ {r} : request'[o] = request[o]
          /\ UNCHANGED <<now, cache, writes, edge>>
      BY <1>4 DEF EdgeRevalidate, Begin, WindowInv, TypeOK, cacheVars
    <2>2. p.since = now /\ p.step = "record" /\ p.revoked = FALSE
      OBVIOUS
    <2> HIDE DEF p
    <2>3. now \in Nat
      BY DEF WindowInv, TypeOK, Time
    <2>4. RequestOK(request[r])'
      BY <2>1, <2>2, <2>3 DEF RequestOK, Truth
    <2> QED
      BY <1>0, <2>1, <2>4, Unchanged
  <1> QED
    BY <1>1, <1>2, <1>3, <1>4 DEF Caches

LEMMA NextWindow == WindowInv /\ StatusesKnown /\ [Next]_vars => WindowInv'
  <1>1. WindowInv /\ UNCHANGED vars => WindowInv'
    BY Timeless DEF vars, cacheVars
  <1> QED
    BY <1>1, ContractKeeps, TickKeeps, RequestKeeps, FlagKeeps, StoreKeeps, RespondKeeps,
       CachesKeep DEF Next, Server

-----------------------------------------------------------------------------
(* What is served is within the windows, as the answer is given.            *)

ServedOK == StatusInWindow /\ AuthorizationInWindow

LEMMA ServedByServer ==
    ASSUME WindowInv, StatusesKnown, NEW r \in Requests, Respond(r)
    PROVE  ServedOK'
  <1> DEFINE p == request[r]
             status == p.status
  <1>1. /\ p # None /\ p.step = "answer" /\ UNCHANGED <<chain, lastHeld>>
        /\ served' = [status |-> status, authorized |-> p.authorized, at |-> now,
                      by |-> "server"]
    BY DEF Respond, chainVars
  <1>2. /\ p.revoked \in BOOLEAN /\ p.authorized \in BOOLEAN
        /\ Held("revoked", p.revoked, now - ServerWindow)
        /\ Held("authorized", p.authorized, now - ServerWindow)
        /\ p.revoked => chain["revoked"]
    BY <1>1, Answered
  <1>3. now \in Nat
    BY DEF WindowInv, TypeOK, Time
  <1>4. /\ status = "revoked" <=> p.revoked
        /\ status = "expired" => now >= ExpiresAt
        /\ status = "valid" => now < ExpiresAt + RequestTime
    BY <1>1, AnsweredStatus
  <1> HIDE DEF status
  <1>5. /\ served'.status = status /\ served'.authorized = p.authorized
        /\ served'.at = now /\ served'.by = "server"
    BY <1>1
  <1>6. Window("server") = ServerWindow /\ EdgeDelay("server") = 0
    BY Numbers DEF Window, EdgeDelay
  <1>7. p.revoked \/ p.revoked = FALSE
    BY <1>2
  <1>8. /\ served'.status = "revoked" => chain'["revoked"]
        /\ served'.status # "revoked" => Held("revoked", FALSE, now - ServerWindow)
    BY <1>1, <1>2, <1>4, <1>5, <1>7
  <1>9. /\ served'.status # "revoked" =>
              lastHeld'["revoked"][FALSE] >= served'.at - Window(served'.by)
        /\ lastHeld'["authorized"][served'.authorized] >= served'.at - Window(served'.by)
    BY <1>1, <1>2, <1>5, <1>6, <1>8 DEF Held
  <1>10. /\ served'.status = "expired" => served'.at >= ExpiresAt
         /\ served'.status = "valid" =>
                  served'.at < ExpiresAt + RequestTime + EdgeDelay(served'.by)
    BY <1>3, <1>4, <1>5, <1>6
  <1> QED
    BY <1>8, <1>9, <1>10 DEF ServedOK, StatusInWindow, AuthorizationInWindow

LEMMA ServedByEdge ==
    ASSUME WindowInv, edge # None, ServeFromEdge, UNCHANGED <<now, chain, lastHeld>>
    PROVE  ServedOK'
  <1>1. /\ edge.stored \in Nat /\ edge.authorized \in BOOLEAN /\ EdgeOK(edge)
    BY DEF WindowInv, TypeOK, EdgeEntry, Time
  <1>2. now \in Nat
    BY DEF WindowInv, TypeOK, Time
  <1>3. /\ served'.status = edge.status /\ served'.authorized = edge.authorized
        /\ served'.at = now /\ served'.by = "edge"
    BY DEF ServeFromEdge
  <1>4. Window("edge") = ServerWindow + EdgeAge + EdgeStale
        /\ EdgeDelay("edge") = EdgeAge + EdgeStale
    BY Numbers DEF Window, EdgeDelay
  <1>5. lastHeld["revoked"][FALSE] \in Int /\ lastHeld["authorized"][edge.authorized] \in Int
    <2>1. \A f \in Flags, b \in BOOLEAN : lastHeld[f][b] \in Int
      BY DEF WindowInv, TypeOK, Time
    <2> QED
      BY <1>1, <2>1 DEF Flags
  <1>6. now <= edge.stored + EdgeAge + EdgeStale
    BY <1>1 DEF EdgeOK
  <1>7. served'.status = "revoked" => chain'["revoked"]
    BY <1>1, <1>3 DEF EdgeOK
  <1>8. edge.status # "revoked" =>
            lastHeld["revoked"][FALSE] >= now - (ServerWindow + EdgeAge + EdgeStale)
    <2> SUFFICES ASSUME edge.status # "revoked"
                 PROVE  lastHeld["revoked"][FALSE] >= now - (ServerWindow + EdgeAge + EdgeStale)
      OBVIOUS
    <2>1. lastHeld["revoked"][FALSE] >= edge.stored - ServerWindow
      BY <1>1 DEF EdgeOK, Held
    <2> DEFINE h == lastHeld["revoked"][FALSE]
    <2>2. h \in Int /\ h >= edge.stored - ServerWindow
      BY <1>5, <2>1
    <2> HIDE DEF h
    <2>3. h >= now - (ServerWindow + EdgeAge + EdgeStale)
      BY <1>1, <1>2, <1>6, <2>2, Numbers
    <2> QED
      BY <2>3 DEF h
  <1>9. lastHeld["authorized"][edge.authorized] >= now - (ServerWindow + EdgeAge + EdgeStale)
    BY <1>1, <1>2, <1>5, <1>6, Numbers DEF EdgeOK, Held
  <1>10. /\ served'.status # "revoked" =>
               lastHeld'["revoked"][FALSE] >= served'.at - Window(served'.by)
         /\ lastHeld'["authorized"][served'.authorized] >= served'.at - Window(served'.by)
    BY <1>3, <1>4, <1>8, <1>9
  <1>11. edge.status = "expired" => now >= ExpiresAt
    BY <1>1, <1>2 DEF EdgeOK
  <1>12. edge.status = "valid" => now < ExpiresAt + RequestTime + (EdgeAge + EdgeStale)
    BY <1>1, <1>2, <1>6 DEF EdgeOK
  <1>13. /\ served'.status = "expired" => served'.at >= ExpiresAt
         /\ served'.status = "valid" =>
                  served'.at < ExpiresAt + RequestTime + EdgeDelay(served'.by)
    BY <1>3, <1>4, <1>11, <1>12
  <1> QED
    BY <1>7, <1>10, <1>13 DEF ServedOK, StatusInWindow, AuthorizationInWindow

LEMMA NextServed == WindowInv /\ StatusesKnown /\ ServedOK /\ [Next]_vars => ServedOK'
  <1> SUFFICES ASSUME WindowInv, StatusesKnown, ServedOK, [Next]_vars PROVE ServedOK'
    OBVIOUS
  <1>1. CASE served' = None
    BY <1>1 DEF ServedOK, StatusInWindow, AuthorizationInWindow
  <1>2. CASE EdgeHit
    BY <1>2, ServedByEdge DEF EdgeHit, chainVars
  <1>3. ASSUME NEW r \in Requests, EdgeRevalidate(r) PROVE ServedOK'
    BY <1>3, ServedByEdge DEF EdgeRevalidate, chainVars
  <1>4. CASE UNCHANGED vars
    BY <1>4 DEF vars, chainVars, ServedOK, StatusInWindow, AuthorizationInWindow
  <1>5. CASE Contract \/ Tick
    <2>1. served' = None
      BY <1>5 DEF Contract, Issue, SetFlag, Tick
    <2> QED
      BY <1>1, <2>1
  <1>6. CASE Server
    <2>1. served' = None \/ \E r \in Requests : Respond(r)
      BY <1>6 DEF Server, Arrive, ReadRecord, FlagHit, FlagRead, FlagStore, End
    <2> QED
      BY <1>1, <2>1, ServedByServer
  <1>7. CASE Caches
    <2>1. served' = None \/ EdgeHit \/ \E r \in Requests : EdgeRevalidate(r)
      BY <1>7 DEF Caches, SetCachedFlag, LoseWrite, DropRecord
    <2> QED
      BY <1>1, <1>2, <1>3, <2>1
  <1> QED
    BY <1>4, <1>5, <1>6, <1>7 DEF Next

LEMMA InitServed == Init => ServedOK
  BY DEF Init, ServedOK, StatusInWindow, AuthorizationInWindow

(* A revocation is not missed for longer than the window, nor an expiry for *)
(* longer than a request and the edge take, and nothing is called revoked   *)
(* or expired that is not, for any lives and delays.                        *)
THEOREM StatusWithinWindow == Spec => []StatusInWindow
  <1>1. ServedOK => StatusInWindow
    BY DEF ServedOK
  <1> QED
    BY InitWindow, InitStatuses, NextWindow, NextStatuses, InitServed, NextServed, <1>1, PTL
       DEF Spec

(* Nor is the issuer's authorization, in either direction.                  *)
THEOREM AuthorizationWithinWindow == Spec => []AuthorizationInWindow
  <1>1. ServedOK => AuthorizationInWindow
    BY DEF ServedOK
  <1> QED
    BY InitWindow, InitStatuses, NextWindow, NextStatuses, InitServed, NextServed, <1>1, PTL
       DEF Spec
=============================================================================
