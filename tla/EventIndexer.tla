---------------------------- MODULE EventIndexer ----------------------------
(***************************************************************************)
(* The polling loop of frontend/scripts/indexer.ts: it reads the events of *)
(* the contract in ledger order and remembers, in the row `main' of the    *)
(* table indexer_state, the last ledger it is done with.  What is done with*)
(* one event (processEvent) is left to the modules that extend this one.   *)
(*                                                                         *)
(* An event is a record with the fields `name', `subject' and `ledger'.    *)
(* The network is external: its RPC returns the events of closed ledgers,  *)
(* all of them and in order.  A transaction closes a ledger of its own; a  *)
(* batch makes several events of one ledger.                               *)
(***************************************************************************)
EXTENDS Integers, Sequences

CONSTANTS
    MAX_LEDGER_RANGE,
    EVENT_BATCH_SIZE,
    MaxLedger,         \* bound on the number of ledgers closed
    MaxErrors          \* bound on the RPC and database errors and the restarts

ASSUME IndexerConstantsOK ==
    /\ MAX_LEDGER_RANGE \in Nat
    /\ EVENT_BATCH_SIZE \in Nat \ {0}
    /\ MaxLedger \in Nat
    /\ MaxErrors \in Nat

VARIABLES
    events,        \* what the contract has emitted so far
    latest,        \* the newest closed ledger
    lastLedger,    \* indexer_state.last_ledger; NoCursor before the first start
    firstLedger,   \* its first value: no event up to it is ever read
    sync,          \* the iteration of the loop under way, or Idle
    errors

networkVars == <<events, latest>>
indexerVars == <<lastLedger, firstLedger, sync, errors>>

NoCursor == -1
Idle == [phase |-> "idle"]

\* An iteration: `highest' is highestProcessedLedger, `next' the position in
\* `events' of the next event, `page' that of the last event of the page.
Iteration ==
    [phase: {"page", "cursor"}, highest: Nat, next: Nat \ {0}, page: Nat]

IndexerTypeOK ==
    /\ latest \in 0..MaxLedger
    /\ \A i \in DOMAIN events : events[i].ledger \in 1..latest
    /\ lastLedger \in {NoCursor} \cup 0..latest
    /\ firstLedger \in {NoCursor} \cup 0..latest
    /\ sync \in {Idle} \cup Iteration
    /\ errors \in 0..MaxErrors

IndexerInit ==
    /\ events = <<>>
    /\ latest = 0
    /\ lastLedger = NoCursor
    /\ firstLedger = NoCursor
    /\ sync = Idle
    /\ errors = 0

-----------------------------------------------------------------------------
(* The network.                                                             *)

\* A ledger closes with one transaction, which emits `new'.
Emit(new) ==
    /\ latest < MaxLedger
    /\ latest' = latest + 1
    /\ events' = events \o [i \in DOMAIN new |->
                               [name |-> new[i].name, subject |-> new[i].subject,
                                ledger |-> latest + 1]]

-----------------------------------------------------------------------------
(* The loop.  Only the loop writes its cursor, so the newest ledger and the *)
(* cursor are read in one step; every later await is a step of its own.     *)

Smaller(a, b) == IF a <= b THEN a ELSE b
Larger(a, b) == IF a >= b THEN a ELSE b

\* The first iteration ever: nothing is read, the cursor starts at the newest
\* ledger, and startLedger is then past it ("up to date").
FirstStart ==
    /\ sync = Idle
    /\ lastLedger = NoCursor
    /\ lastLedger' = latest
    /\ firstLedger' = latest
    /\ UNCHANGED <<networkVars, sync, errors>>

\* The range starts a ledger late.
BeginSyncSkipping ==
    /\ sync = Idle
    /\ lastLedger # NoCursor
    /\ lastLedger < latest
    /\ LET startLedger == lastLedger + 2
           endLedger == Smaller(startLedger + MAX_LEDGER_RANGE, latest)
       IN  \E old \in 0..Len(events) :
             /\ \A i \in DOMAIN events : i <= old <=> events[i].ledger < startLedger
             /\ sync' = [phase |-> "page", highest |-> endLedger,
                         next |-> old + 1, page |-> old]
    /\ UNCHANGED <<networkVars, lastLedger, firstLedger, errors>>

\* getLatestLedger, then the cursor: the ledgers lastLedger + 1 .. endLedger.
BeginSync ==
    /\ sync = Idle
    /\ lastLedger # NoCursor
    /\ lastLedger < latest
    /\ LET startLedger == lastLedger + 1
           endLedger == Smaller(startLedger + MAX_LEDGER_RANGE, latest)
       IN  \E old \in 0..Len(events) :
             /\ \A i \in DOMAIN events : i <= old <=> events[i].ledger < startLedger
             /\ sync' = [phase |-> "page", highest |-> endLedger,
                         next |-> old + 1, page |-> old]
    /\ UNCHANGED <<networkVars, lastLedger, firstLedger, errors>>

\* Only one page is read.
FetchPageOnce ==
    /\ sync.phase = "page"
    /\ sync.next > sync.page
    /\ LET page == Smaller(Len(events), sync.page + EVENT_BATCH_SIZE)
           read == \E i \in 1..sync.page : events[i].ledger > lastLedger
       IN  sync' = IF page = sync.page \/ read THEN [sync EXCEPT !.phase = "cursor"]
                                              ELSE [sync EXCEPT !.page = page]
    /\ UNCHANGED <<networkVars, lastLedger, firstLedger, errors>>

\* getEvents returns the next page, whatever ledger it reaches to.  An empty
\* page ends the reading.
FetchPage ==
    /\ sync.phase = "page"
    /\ sync.next > sync.page
    /\ LET page == Smaller(Len(events), sync.page + EVENT_BATCH_SIZE)
       IN  sync' = IF page = sync.page THEN [sync EXCEPT !.phase = "cursor"]
                                       ELSE [sync EXCEPT !.page = page]
    /\ UNCHANGED <<networkVars, lastLedger, firstLedger, errors>>

HasEvent == sync.phase = "page" /\ sync.next <= sync.page

CurrentEvent == events[sync.next]

\* processEvent has returned.
EventDone ==
    /\ sync' = [sync EXCEPT !.next = @ + 1,
                            !.highest = Larger(@, CurrentEvent.ledger)]
    /\ UNCHANGED <<networkVars, lastLedger, firstLedger, errors>>

\* processEvent has thrown: the loop starts again from the stored cursor.
EventThrown ==
    /\ sync' = Idle
    /\ UNCHANGED <<networkVars, lastLedger, firstLedger, errors>>

AdvanceCursor ==
    /\ sync.phase = "cursor"
    /\ lastLedger' = sync.highest
    /\ sync' = Idle
    /\ UNCHANGED <<networkVars, firstLedger, errors>>

\* An RPC or database error, or a restart of the process.
Interrupt ==
    /\ sync # Idle
    /\ errors < MaxErrors
    /\ errors' = errors + 1
    /\ sync' = Idle
    /\ UNCHANGED <<networkVars, lastLedger, firstLedger>>

\* The steps of the loop apart from processEvent.
LoopStep == FirstStart \/ BeginSync \/ FetchPage \/ AdvanceCursor

-----------------------------------------------------------------------------

\* The event is one the loop has to have handled.
Covered(e) == firstLedger < e.ledger /\ e.ledger <= lastLedger

\* What the newest ledger has added to the events.
LatestEvents ==
    {[name |-> events[i].name, subject |-> events[i].subject] :
        i \in {n \in DOMAIN events : events[n].ledger = latest}}

(* The cursor never goes back, and an iteration that gets as far as storing *)
(* it stores a later one: the loop never reads the same ledgers for ever    *)
(* although nothing fails, whatever page of whatever range it stops at.     *)
CursorAdvances ==
    [][/\ lastLedger' >= lastLedger
       /\ sync # Idle /\ sync' = Idle /\ sync.phase = "cursor" /\ UNCHANGED errors
             => lastLedger' > lastLedger]_indexerVars

\* The loop is still to read the n-th event.
Unread(n) ==
    /\ lastLedger # NoCursor
    /\ events[n].ledger > lastLedger
    /\ sync = Idle \/ sync.next <= n
=============================================================================
