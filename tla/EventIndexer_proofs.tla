-------------------------- MODULE EventIndexer_proofs --------------------------
(***************************************************************************)
(* Theorems about the two tables the indexer keeps, IssuanceIndex and      *)
(* IssuerVerification, for any number of sessions, rows, institutions,     *)
(* wallets and requests, any page size and range, and any number of errors *)
(* and restarts.                                                           *)
(***************************************************************************)
EXTENDS IssuanceIndex, IssuerVerification, FiniteSetTheorems, TLAPS

USE IndexerConstantsOK, IssuanceConstantsOK DEF IndexerConstantsOK, IssuanceConstantsOK

Event == [name: EventNames, subject: Tokens, ledger: Nat]

EventsTyped == events \in Seq(Event)

(* The sessions that will issue nothing any more.                            *)
Spent == {s \in Sessions : issuance[s].pc \in {"landed", "closed"}}

(* Tokens are numbered one after the other, each session has issued its      *)
(* rows at most once: the ids stay within Tokens.                            *)
CountInv == \E k \in Nat : Issued = 1..k /\ k <= Cardinality(Spent) * MaxRows

Landed(s) == issuance[s].pc = "landed"

(* What a browser is about to write is true of the chain; it is the only     *)
(* one to bring the content of these tokens.                                 *)
BrowserInv ==
    /\ \A s \in Sessions : Landed(s) =>
          /\ issuance[s].tokens \subseteq Issued
          /\ \A t \in issuance[s].tokens \cap Indexed : ~credentials[t].content
    /\ \A s, r \in Sessions :
          s # r /\ Landed(s) /\ Landed(r) => issuance[s].tokens \cap issuance[r].tokens = {}
    /\ \A t \in Tokens : revocation[t] = "landed" => t \in Revoked

(* The row an event is to leave.                                             *)
Done(e) ==
    /\ e.subject \in Indexed
    /\ e.name # "credential_issued" => credentials[e.subject].revocation_source # None

(* Every event the cursor is past has left its row, and so has every event   *)
(* the iteration under way is past; once the iteration has read all there    *)
(* was, what it has not read lies after the cursor it is about to store.     *)
CursorInv ==
    /\ lastLedger = NoCursor => sync = Idle /\ firstLedger = NoCursor
    /\ \A i \in DOMAIN events : Covered(events[i]) => Done(events[i])
    /\ sync # Idle =>
          /\ sync.highest <= latest
          /\ sync.next <= Len(events) + 1
          /\ sync.page <= Len(events)
          /\ \A i \in DOMAIN events :
                i < sync.next /\ firstLedger < events[i].ledger => Done(events[i])
          /\ sync.phase = "cursor" =>
                \A i \in DOMAIN events : i >= sync.next => events[i].ledger > sync.highest

(* The inductive invariant of IssuanceIndex.                                *)
IInv ==
    /\ TypeOK
    /\ EventsTyped
    /\ CountInv
    /\ BrowserInv
    /\ CursorInv
    /\ RowsTruthful

-----------------------------------------------------------------------------
(* The chain.                                                               *)

Emitted(t, names) ==
    \E i \in DOMAIN events : events[i].subject = t /\ events[i].name \in names

LEMMA ChainFacts ==
    /\ \A t, names : EventsOf(t, names) # {} <=> Emitted(t, names)
    /\ \A t : t \in Issued <=> t \in Tokens /\ Emitted(t, {"credential_issued"})
    /\ \A t : t \in Revoked <=>
          t \in Tokens /\ Emitted(t, {"credential_revoked", "credential_revoked_by_owner"})
  <1>1. \A t, names : EventsOf(t, names) # {} <=> Emitted(t, names)
    BY DEF EventsOf, Emitted
  <1> QED
    BY <1>1 DEF Issued, Revoked, IssuedEvents, RevokedEvents

LEMMA ChainFactsNext ==
    /\ \A t, names : EventsOf(t, names)' # {} <=> Emitted(t, names)'
    /\ \A t : t \in Issued' <=> t \in Tokens /\ Emitted(t, {"credential_issued"})'
    /\ \A t : t \in Revoked' <=>
          t \in Tokens /\ Emitted(t, {"credential_revoked", "credential_revoked_by_owner"})'
  <1>1. \A t, names : EventsOf(t, names)' # {} <=> Emitted(t, names)'
    BY DEF EventsOf, Emitted
  <1> QED
    BY <1>1 DEF Issued, Revoked, IssuedEvents, RevokedEvents, Tokens

(* Ledgers close, and what they held stays.                                 *)
Grown ==
    /\ EventsTyped
    /\ EventsTyped'
    /\ Len(events) <= Len(events')
    /\ latest \in 0..MaxLedger /\ latest' \in 0..MaxLedger /\ latest <= latest'
    /\ \A i \in DOMAIN events : i \in DOMAIN events' /\ events'[i] = events[i]
    /\ \A i \in DOMAIN events' : i \notin DOMAIN events => events'[i].ledger > latest
    /\ \A i \in DOMAIN events' : events'[i].ledger \in 1..latest'

LEMMA QuietNetwork ==
    ASSUME TypeOK, EventsTyped, UNCHANGED networkVars
    PROVE  Grown
  <1>1. events' = events /\ latest' = latest
    BY DEF networkVars
  <1>2. EventsTyped'
    BY <1>1 DEF EventsTyped, Event, Tokens, EventNames
  <1>3. Len(events) \in Nat
    BY DEF EventsTyped
  <1> QED
    BY <1>1, <1>2, <1>3 DEF Grown, TypeOK, IndexerTypeOK

LEMMA Concatenation ==
    ASSUME NEW S, NEW s \in Seq(S), NEW u \in Seq(S)
    PROVE  /\ s \o u \in Seq(S)
           /\ Len(s \o u) = Len(s) + Len(u)
           /\ \A i \in 1..Len(s) : (s \o u)[i] = s[i]
           /\ \A i \in 1..(Len(s) + Len(u)) : i > Len(s) => (s \o u)[i] = u[i - Len(s)]
  OBVIOUS

LEMMA Elements ==
    ASSUME NEW S, NEW s \in Seq(S)
    PROVE  /\ Len(s) \in Nat
           /\ DOMAIN s = 1..Len(s)
           /\ \A i \in 1..Len(s) : s[i] \in S
  OBVIOUS

LEMMA EmitGrows ==
    ASSUME TypeOK, EventsTyped,
           NEW new, new \in Seq([name: EventNames, subject: Tokens]), Emit(new)
    PROVE  /\ Grown
           /\ \A i \in DOMAIN events' : i \notin DOMAIN events =>
                 \E j \in DOMAIN new : /\ i = Len(events) + j
                                       /\ events'[i].name = new[j].name
                                       /\ events'[i].subject = new[j].subject
           /\ \A j \in DOMAIN new : /\ Len(events) + j \in DOMAIN events'
                                    /\ events'[Len(events) + j].name = new[j].name
                                    /\ events'[Len(events) + j].subject = new[j].subject
  <1> DEFINE closing == [j \in DOMAIN new |-> [name |-> new[j].name, subject |-> new[j].subject,
                                               ledger |-> latest + 1]]
  <1>1. /\ events' = events \o closing
        /\ latest' = latest + 1
        /\ latest \in 0..MaxLedger
        /\ latest' \in 0..MaxLedger
    BY DEF Emit, TypeOK, IndexerTypeOK
  <1>2. /\ DOMAIN new = 1..Len(new)
        /\ Len(new) \in Nat
        /\ \A j \in DOMAIN new : new[j].name \in EventNames /\ new[j].subject \in Tokens
    <2> DEFINE Message == [name: EventNames, subject: Tokens]
    <2>1. \A x \in Message : x.name \in EventNames /\ x.subject \in Tokens
      OBVIOUS
    <2>2. new \in Seq(Message)
      OBVIOUS
    <2> HIDE DEF Message
    <2>3. /\ DOMAIN new = 1..Len(new)
          /\ Len(new) \in Nat
          /\ \A i \in 1..Len(new) : new[i] \in Message
      BY ONLY <2>2, Elements, Zenon
    <2> QED
      BY <2>1, <2>3
  <1>3. /\ closing \in Seq(Event)
        /\ Len(closing) = Len(new)
    <2>1. \A j \in 1..Len(new) : closing[j] \in Event
      BY <1>1, <1>2 DEF Event
    <2> QED
      BY <1>2, <2>1
  <1>4. \A j \in DOMAIN new : /\ closing[j].name = new[j].name
                              /\ closing[j].subject = new[j].subject
                              /\ closing[j].ledger = latest + 1
    OBVIOUS
  <1> HIDE DEF closing
  <1>5. /\ events' \in Seq(Event)
        /\ Len(events') = Len(events) + Len(new)
        /\ Len(events) \in Nat
        /\ DOMAIN events = 1..Len(events)
        /\ DOMAIN events' = 1..(Len(events) + Len(new))
        /\ \A i \in 1..Len(events) : events'[i] = events[i]
        /\ \A i \in 1..(Len(events) + Len(new)) :
              i > Len(events) => events'[i] = closing[i - Len(events)]
    <2>1. events \in Seq(Event)
      BY DEF EventsTyped
    <2>2. closing \in Seq(Event)
      BY <1>3
    <2>3. /\ events \o closing \in Seq(Event)
          /\ Len(events \o closing) = Len(events) + Len(closing)
          /\ \A i \in 1..Len(events) : (events \o closing)[i] = events[i]
          /\ \A i \in 1..(Len(events) + Len(closing)) :
                i > Len(events) => (events \o closing)[i] = closing[i - Len(events)]
      BY ONLY <2>1, <2>2, Concatenation, Zenon
    <2>4. /\ events' \in Seq(Event)
          /\ Len(events') = Len(events) + Len(closing)
          /\ \A i \in 1..Len(events) : events'[i] = events[i]
          /\ \A i \in 1..(Len(events) + Len(closing)) :
                i > Len(events) => events'[i] = closing[i - Len(events)]
      BY <1>1, <2>3, Zenon
    <2>5. /\ Len(events) \in Nat
          /\ DOMAIN events = 1..Len(events)
          /\ DOMAIN events' = 1..Len(events')
      BY <2>1, <2>4, Elements
    <2> QED
      BY <1>3, <2>4, <2>5
  <1>6. EventsTyped'
    BY <1>5 DEF EventsTyped, Event, Tokens, EventNames
  <1>7. \A j \in DOMAIN new : /\ Len(events) + j \in DOMAIN events'
                              /\ events'[Len(events) + j].name = new[j].name
                              /\ events'[Len(events) + j].subject = new[j].subject
    <2> SUFFICES ASSUME NEW j \in DOMAIN new
                 PROVE  /\ Len(events) + j \in DOMAIN events'
                        /\ events'[Len(events) + j].name = new[j].name
                        /\ events'[Len(events) + j].subject = new[j].subject
      OBVIOUS
    <2>1. /\ Len(events) + j \in 1..(Len(events) + Len(new))
          /\ Len(events) + j > Len(events)
          /\ (Len(events) + j) - Len(events) = j
      BY <1>2, <1>5
    <2>2. events'[Len(events) + j] = closing[j]
      BY <1>5, <2>1
    <2> QED
      BY <1>4, <1>5, <2>1, <2>2
  <1>8. ASSUME NEW i \in DOMAIN events', i \notin DOMAIN events
        PROVE  /\ events'[i].ledger = latest + 1
               /\ \E j \in DOMAIN new : /\ i = Len(events) + j
                                        /\ events'[i].name = new[j].name
                                        /\ events'[i].subject = new[j].subject
    <2>1. /\ i - Len(events) \in DOMAIN new
          /\ i = Len(events) + (i - Len(events))
          /\ i > Len(events)
          /\ i \in 1..(Len(events) + Len(new))
      BY <1>2, <1>5, <1>8
    <2>2. events'[i] = closing[i - Len(events)]
      BY <1>5, <2>1
    <2> QED
      BY <1>4, <2>1, <2>2
  <1>9. \A i \in DOMAIN events' : events'[i].ledger \in 1..latest'
    <2> SUFFICES ASSUME NEW i \in DOMAIN events' PROVE events'[i].ledger \in 1..latest'
      OBVIOUS
    <2>1. CASE i \in DOMAIN events
      BY <1>1, <1>5, <2>1 DEF TypeOK, IndexerTypeOK
    <2>2. CASE i \notin DOMAIN events
      BY <1>1, <1>8, <2>2
    <2> QED
      BY <2>1, <2>2
  <1>10. /\ \A i \in DOMAIN events : i \in DOMAIN events' /\ events'[i] = events[i]
         /\ Len(events) <= Len(events')
    BY <1>2, <1>5
  <1>11. Grown
    BY <1>1, <1>6, <1>8, <1>9, <1>10 DEF Grown
  <1> QED
    BY <1>7, <1>8, <1>11

(* What is true of the chain stays true.                                    *)
LEMMA GrownKeeps ==
    ASSUME Grown
    PROVE  /\ \A t, names : Emitted(t, names) => Emitted(t, names)'
           /\ Issued \subseteq Issued'
           /\ Revoked \subseteq Revoked'
  <1>1. \A t, names : Emitted(t, names) => Emitted(t, names)'
    BY DEF Grown, Emitted
  <1> QED
    BY <1>1, ChainFacts, ChainFactsNext

(* What a ledger adds is what its transaction emits, and is all it shows.   *)
LEMMA EmitAdds ==
    ASSUME TypeOK, EventsTyped,
           NEW new, new \in Seq([name: EventNames, subject: Tokens]), Emit(new)
    PROVE  /\ \A t, names : Emitted(t, names)' <=>
                 Emitted(t, names) \/ \E j \in DOMAIN new : /\ new[j].subject = t
                                                            /\ new[j].name \in names
           /\ LatestEvents' =
                 {[name |-> new[j].name, subject |-> new[j].subject] : j \in DOMAIN new}
  <1>1. /\ Grown
        /\ \A i \in DOMAIN events' : i \notin DOMAIN events =>
              \E j \in DOMAIN new : /\ i = Len(events) + j
                                    /\ events'[i].name = new[j].name
                                    /\ events'[i].subject = new[j].subject
        /\ \A j \in DOMAIN new : /\ Len(events) + j \in DOMAIN events'
                                 /\ events'[Len(events) + j].name = new[j].name
                                 /\ events'[Len(events) + j].subject = new[j].subject
    BY EmitGrows
  <1>2. /\ DOMAIN events = 1..Len(events) /\ Len(events) \in Nat
        /\ DOMAIN new \subseteq Nat \ {0}
        /\ latest \in Nat /\ latest' = latest + 1
        /\ \A i \in DOMAIN events : events[i].ledger \in Nat /\ events[i].ledger <= latest
    <2>1. DOMAIN new = 1..Len(new) /\ Len(new) \in Nat
      <3> DEFINE Message == [name: EventNames, subject: Tokens]
      <3>1. new \in Seq(Message)
        OBVIOUS
      <3> HIDE DEF Message
      <3> QED
        BY ONLY <3>1, Elements, Zenon
    <2> QED
      BY <2>1 DEF EventsTyped, Emit, TypeOK, IndexerTypeOK
  <1>3. \A i \in DOMAIN events' : events'[i].ledger = latest' <=> i \notin DOMAIN events
    <2> SUFFICES ASSUME NEW i \in DOMAIN events'
                 PROVE  events'[i].ledger = latest' <=> i \notin DOMAIN events
      OBVIOUS
    <2>1. CASE i \in DOMAIN events
      BY <1>1, <1>2, <2>1 DEF Grown
    <2>2. CASE i \notin DOMAIN events
      BY <1>1, <1>2, <2>2 DEF Grown
    <2> QED
      BY <2>1, <2>2
  <1>4. \A j \in DOMAIN new : Len(events) + j \notin DOMAIN events
    BY <1>2
  <1> HIDE DEF IndexerConstantsOK, IssuanceConstantsOK
  <1>5. ASSUME NEW t, NEW names
        PROVE  Emitted(t, names)' <=>
                 Emitted(t, names) \/ \E j \in DOMAIN new : /\ new[j].subject = t
                                                            /\ new[j].name \in names
    <2>1. ASSUME NEW i \in DOMAIN events', events'[i].subject = t, events'[i].name \in names
          PROVE  Emitted(t, names) \/ \E j \in DOMAIN new : /\ new[j].subject = t
                                                            /\ new[j].name \in names
      <3>1. CASE i \in DOMAIN events
        BY <1>1, <2>1, <3>1 DEF Grown, Emitted
      <3>2. CASE i \notin DOMAIN events
        BY <1>1, <2>1, <3>2
      <3> QED
        BY <3>1, <3>2
    <2>2. ASSUME NEW j \in DOMAIN new, new[j].subject = t, new[j].name \in names
          PROVE  \E i \in DOMAIN events' : events'[i].subject = t /\ events'[i].name \in names
      BY <1>1, <2>2
    <2>3. Emitted(t, names) =>
              \E i \in DOMAIN events' : events'[i].subject = t /\ events'[i].name \in names
      BY <1>1 DEF Grown, Emitted
    <2> QED
      BY <2>1, <2>2, <2>3 DEF Emitted
  <1>6. LatestEvents' =
            {[name |-> events'[i].name, subject |-> events'[i].subject] :
                i \in {n \in DOMAIN events' : n \notin DOMAIN events}}
    <2>1. {n \in DOMAIN events' : events'[n].ledger = latest'}
             = {n \in DOMAIN events' : n \notin DOMAIN events}
      BY <1>3
    <2> QED
      BY <2>1 DEF LatestEvents
  <1>7. ASSUME NEW x
        PROVE  (\E i \in DOMAIN events' :
                   i \notin DOMAIN events
                   /\ x = [name |-> events'[i].name, subject |-> events'[i].subject])
               <=> \E j \in DOMAIN new : x = [name |-> new[j].name, subject |-> new[j].subject]
    <2>1. ASSUME NEW i \in DOMAIN events', i \notin DOMAIN events,
                 x = [name |-> events'[i].name, subject |-> events'[i].subject]
          PROVE  \E j \in DOMAIN new : x = [name |-> new[j].name, subject |-> new[j].subject]
      BY <1>1, <2>1
    <2>2. ASSUME NEW j \in DOMAIN new, x = [name |-> new[j].name, subject |-> new[j].subject]
          PROVE  \E i \in DOMAIN events' :
                    i \notin DOMAIN events
                    /\ x = [name |-> events'[i].name, subject |-> events'[i].subject]
      <3>1. PICK i : i = Len(events) + j
        OBVIOUS
      <3>2. /\ i \in DOMAIN events' /\ i \notin DOMAIN events
            /\ events'[i].name = new[j].name /\ events'[i].subject = new[j].subject
        BY <1>1, <1>4, <2>2, <3>1
      <3> QED
        BY <2>2, <3>2
    <2> QED
      BY <2>1, <2>2
  <1> QED
    BY <1>5, <1>6, <1>7, Zenon

-----------------------------------------------------------------------------
(* What a step of somebody else leaves of an invariant.                     *)

(* The row an event is to leave, after the step.                            *)
DoneNext(e) ==
    /\ e.subject \in Indexed'
    /\ e.name # "credential_issued" => credentials'[e.subject].revocation_source # None

Keeps == \A e : Done(e) => DoneNext(e)

LEMMA CursorFrame ==
    ASSUME TypeOK, CursorInv, Grown, Keeps, UNCHANGED indexerVars
    PROVE  CursorInv'
  <1>1. /\ lastLedger' = lastLedger /\ firstLedger' = firstLedger /\ sync' = sync
        /\ Idle' = Idle
    BY DEF indexerVars, Idle
  <1>2. /\ Len(events) \in Nat /\ Len(events') \in Nat
        /\ DOMAIN events = 1..Len(events) /\ DOMAIN events' = 1..Len(events')
        /\ lastLedger \in {NoCursor} \cup 0..latest
        /\ sync \in {Idle} \cup Iteration
        /\ latest \in Nat /\ latest' \in Nat
    BY DEF Grown, EventsTyped, TypeOK, IndexerTypeOK
  <1>3. ASSUME NEW i \in DOMAIN events',
               firstLedger' < events'[i].ledger, events'[i].ledger <= lastLedger'
        PROVE  DoneNext(events'[i])
    <2>1. i \in DOMAIN events
      BY <1>1, <1>2, <1>3 DEF Grown, NoCursor
    <2>2. events'[i] = events[i]
      BY <2>1 DEF Grown
    <2>3. Covered(events[i])
      BY <1>1, <1>3, <2>2 DEF Covered
    <2>4. Done(events[i])
      BY <2>1, <2>3 DEF CursorInv
    <2> QED
      BY <2>2, <2>4 DEF Keeps
  <1>4. ASSUME sync' # Idle
        PROVE  /\ sync'.highest <= latest'
               /\ sync'.next <= Len(events') + 1
               /\ sync'.page <= Len(events')
               /\ \A i \in DOMAIN events' :
                     i < sync'.next /\ firstLedger' < events'[i].ledger => DoneNext(events'[i])
               /\ sync'.phase = "cursor" =>
                     \A i \in DOMAIN events' : i >= sync'.next => events'[i].ledger > sync'.highest
    <2>1. /\ sync \in Iteration
          /\ sync.highest <= latest
          /\ sync.next <= Len(events) + 1
          /\ sync.page <= Len(events)
          /\ \A i \in DOMAIN events :
                i < sync.next /\ firstLedger < events[i].ledger => Done(events[i])
          /\ sync.phase = "cursor" =>
                \A i \in DOMAIN events : i >= sync.next => events[i].ledger > sync.highest
      BY <1>1, <1>2, <1>4 DEF CursorInv
    <2>2. /\ sync.highest \in Nat /\ sync.next \in Nat \ {0} /\ sync.page \in Nat
      BY <2>1 DEF Iteration
    <2>3. /\ sync'.highest <= latest'
          /\ sync'.next <= Len(events') + 1
          /\ sync'.page <= Len(events')
      BY <1>1, <1>2, <2>1, <2>2 DEF Grown
    <2>4. ASSUME NEW i \in DOMAIN events', i < sync'.next, firstLedger' < events'[i].ledger
          PROVE  DoneNext(events'[i])
      <3>1. i \in DOMAIN events
        BY <1>1, <1>2, <2>1, <2>2, <2>4
      <3>2. events'[i] = events[i]
        BY <3>1 DEF Grown
      <3>3. Done(events[i])
        BY <1>1, <2>1, <2>4, <3>1, <3>2
      <3> QED
        BY <3>2, <3>3 DEF Keeps
    <2>5. ASSUME sync'.phase = "cursor", NEW i \in DOMAIN events', i >= sync'.next
          PROVE  events'[i].ledger > sync'.highest
      <3>1. CASE i \in DOMAIN events
        BY <1>1, <2>1, <2>5, <3>1 DEF Grown
      <3>2. CASE i \notin DOMAIN events
        <4>1. events'[i].ledger > latest /\ events'[i].ledger \in Nat
          BY <3>2 DEF Grown
        <4> QED
          BY <1>1, <1>2, <2>1, <2>2, <4>1
      <3> QED
        BY <3>1, <3>2
    <2> QED
      BY <2>3, <2>4, <2>5
  <1>5. lastLedger' = NoCursor => sync' = Idle /\ firstLedger' = NoCursor
    BY <1>1 DEF CursorInv
  <1> HIDE DEF IndexerConstantsOK, IssuanceConstantsOK
  <1> QED
    BY <1>3, <1>4, <1>5 DEF CursorInv, Covered, Done, DoneNext, Idle, NoCursor

LEMMA RowsFrame ==
    ASSUME RowsTruthful, Grown, UNCHANGED credentials
    PROVE  RowsTruthful'
  <1>1. /\ \A t, names : EventsOf(t, names) # {} => EventsOf(t, names)' # {}
        /\ Issued \subseteq Issued' /\ Revoked \subseteq Revoked'
    BY GrownKeeps, ChainFacts, ChainFactsNext
  <1> QED
    BY <1>1 DEF RowsTruthful, Indexed

LEMMA BrowserFrame ==
    ASSUME BrowserInv, Issued \subseteq Issued', Revoked \subseteq Revoked',
           \A s \in Sessions : Landed(s)' =>
               /\ Landed(s)
               /\ issuance'[s].tokens = issuance[s].tokens
               /\ \A t \in issuance[s].tokens \cap Indexed' :
                     (t \in Indexed /\ credentials'[t].content = credentials[t].content)
                     \/ ~credentials'[t].content,
           \A t \in Tokens : revocation'[t] = "landed" => revocation[t] = "landed" \/ t \in Revoked'
    PROVE  BrowserInv'
  <1>1. Tokens' = Tokens
    BY DEF Tokens
  <1>2. ASSUME NEW s \in Sessions, Landed(s)'
        PROVE  /\ issuance'[s].tokens \subseteq Issued'
               /\ \A t \in issuance'[s].tokens \cap Indexed' : ~credentials'[t].content
    BY <1>2 DEF BrowserInv
  <1>3. ASSUME NEW s \in Sessions, NEW r \in Sessions, s # r, Landed(s)', Landed(r)'
        PROVE  issuance'[s].tokens \cap issuance'[r].tokens = {}
    BY <1>3 DEF BrowserInv
  <1>4. ASSUME NEW t \in Tokens, revocation'[t] = "landed" PROVE t \in Revoked'
    BY <1>4 DEF BrowserInv
  <1> QED
    BY <1>1, <1>2, <1>3, <1>4 DEF BrowserInv

LEMMA Products ==
    ASSUME NEW c \in Nat, NEW d \in Nat, NEW m \in Nat
    PROVE  /\ c * m \in Nat
           /\ (c + 1) * m = c * m + m
           /\ c <= d => c * m <= d * m
  <1>1. c * m \in Nat /\ d * m \in Nat /\ (c + 1) * m = c * m + m
    OBVIOUS
  <1>2. ASSUME c <= d PROVE c * m <= d * m
    <2>1. (d - c) * m = d * m - c * m /\ (d - c) * m >= 0
      BY <1>2
    <2> QED
      BY <1>1, <2>1
  <1> QED
    BY <1>1, <1>2

LEMMA SpentFinite ==
    /\ IsFiniteSet(Spent) /\ Cardinality(Spent) \in Nat
    /\ Cardinality(Sessions) \in Nat /\ Cardinality(Spent) <= Cardinality(Sessions)
  <1>1. Spent \in SUBSET Sessions
    BY DEF Spent
  <1> QED
    BY <1>1, FS_Subset, FS_CardinalityType

LEMMA SpentNextFinite ==
    /\ IsFiniteSet(Spent') /\ Cardinality(Spent') \in Nat
    /\ Cardinality(Spent') <= Cardinality(Sessions)
  <1>1. Spent' \in SUBSET Sessions
    BY DEF Spent
  <1> QED
    BY <1>1, FS_Subset, FS_CardinalityType

LEMMA CountFrame ==
    ASSUME CountInv, Issued' = Issued, Spent \subseteq Spent'
    PROVE  CountInv'
  <1>1. PICK k \in Nat : Issued = 1..k /\ k <= Cardinality(Spent) * MaxRows
    BY DEF CountInv
  <1>2. Cardinality(Spent) <= Cardinality(Spent')
    <2>1. Spent \in SUBSET Spent'
      OBVIOUS
    <2> QED
      BY <2>1, SpentNextFinite, FS_Subset
  <1>3. /\ Cardinality(Spent) * MaxRows <= Cardinality(Spent') * MaxRows
        /\ Cardinality(Spent) * MaxRows \in Nat /\ Cardinality(Spent') * MaxRows \in Nat
    BY <1>2, SpentFinite, SpentNextFinite, Products
  <1>4. k <= Cardinality(Spent') * MaxRows
    BY <1>1, <1>3
  <1> QED
    BY <1>1, <1>4 DEF CountInv

(* The parts of the state that a step may change, in their types.           *)
ChainTyped ==
    /\ IndexerTypeOK
    /\ \A i \in DOMAIN events : events[i].name \in EventNames /\ events[i].subject \in Tokens

BrowserTyped ==
    /\ issuance \in [Sessions -> [pc: {"idle", "queued", "abandoned", "landed", "closed"},
                                  tokens: SUBSET Tokens]]
    /\ revocation \in [Tokens -> {"idle", "queued", "abandoned", "landed"}]

TableTyped ==
    /\ Indexed \subseteq Tokens
    /\ credentials \in [Indexed -> Row]
    /\ linked \in BOOLEAN

LEMMA TypeParts == TypeOK <=> ChainTyped /\ BrowserTyped /\ TableTyped
  BY DEF TypeOK, ChainTyped, BrowserTyped, TableTyped

LEMMA TypePartsNext == TypeOK' <=> ChainTyped' /\ BrowserTyped' /\ TableTyped'
  BY DEF TypeOK, ChainTyped, BrowserTyped, TableTyped

LEMMA ChainFrame ==
    ASSUME TypeOK, Grown, UNCHANGED indexerVars
    PROVE  ChainTyped'
  <1>1. \A i \in DOMAIN events' : events'[i].name \in EventNames /\ events'[i].subject \in Tokens
    <2> DEFINE E == Event
    <2>1. \A x \in E : x.name \in EventNames /\ x.subject \in Tokens
      BY DEF Event
    <2>2. events' \in Seq(E)
      BY DEF Grown, EventsTyped, Event, EventNames, Tokens
    <2> HIDE DEF E
    <2>3. DOMAIN events' = 1..Len(events') /\ \A i \in 1..Len(events') : events'[i] \in E
      BY ONLY <2>2, Elements, Zenon
    <2> QED
      BY <2>1, <2>3
  <1>2. /\ lastLedger' = lastLedger /\ firstLedger' = firstLedger
        /\ sync' = sync /\ errors' = errors
    BY DEF indexerVars
  <1>3. IndexerTypeOK'
    BY <1>2 DEF TypeOK, IndexerTypeOK, Grown, Idle, Iteration, NoCursor
  <1> QED
    BY <1>1, <1>3 DEF ChainTyped, EventNames, Tokens

LEMMA TableFrame ==
    ASSUME TypeOK, UNCHANGED credentials, linked' \in BOOLEAN
    PROVE  TableTyped' /\ Indexed' = Indexed /\ Keeps
  BY DEF TypeOK, TableTyped, Indexed, Row, Tokens, Keeps, Done, DoneNext

-----------------------------------------------------------------------------
(* The steps.                                                               *)

LEMMA InitIInv == Init => IInv
  <1> SUFFICES ASSUME Init PROVE IInv
    OBVIOUS
  <1>1. /\ events = <<>> /\ latest = 0 /\ lastLedger = NoCursor /\ firstLedger = NoCursor
        /\ sync = Idle /\ errors = 0
        /\ DOMAIN events = {} /\ Indexed = {}
    BY DEF Init, IndexerInit, Indexed
  <1>2. TypeOK
    BY <1>1 DEF Init, TypeOK, IndexerTypeOK, Indexed, NoCursor
  <1>3. EventsTyped
    BY <1>1 DEF EventsTyped
  <1>4. Issued = {} /\ Revoked = {}
    BY <1>1, ChainFacts DEF Emitted
  <1>5. CountInv
    <2>1. Cardinality(Spent) * MaxRows \in Nat
      BY SpentFinite, Products
    <2>2. Issued = 1..0
      BY <1>4
    <2> QED
      BY <2>1, <2>2 DEF CountInv
  <1>6. BrowserInv
    BY <1>4 DEF Init, BrowserInv, Landed
  <1>7. CursorInv
    BY <1>1 DEF CursorInv
  <1>8. RowsTruthful
    BY <1>1 DEF RowsTruthful
  <1> QED
    BY <1>2, <1>3, <1>5, <1>6, <1>7, <1>8 DEF IInv

(* A browser goes on and writes nothing, or the profile's wallet changes.   *)
LEMMA BrowserStep ==
    ASSUME IInv, UNCHANGED <<networkVars, indexerVars, credentials>>,
           linked' \in BOOLEAN, BrowserTyped',
           \A s \in Sessions : Landed(s)' => Landed(s) /\ issuance'[s].tokens = issuance[s].tokens,
           \A s \in Sessions : issuance[s].pc \in {"landed", "closed"}
                                  => issuance'[s].pc \in {"landed", "closed"},
           \A t \in Tokens : revocation'[t] = "landed" => revocation[t] = "landed"
    PROVE  IInv'
  <1>1. Grown
    BY QuietNetwork DEF IInv
  <1>2. EventsTyped' /\ UNCHANGED indexerVars /\ UNCHANGED credentials /\ UNCHANGED networkVars
    BY <1>1 DEF Grown
  <1>3. TypeOK' /\ Keeps /\ Indexed' = Indexed
    BY <1>1, <1>2, ChainFrame, TableFrame, TypePartsNext DEF IInv
  <1>4. CursorInv'
    BY <1>1, <1>2, <1>3, CursorFrame DEF IInv
  <1>5. RowsTruthful'
    BY <1>1, <1>2, RowsFrame DEF IInv
  <1>6. Issued' = Issued /\ Revoked' = Revoked
    BY <1>2 DEF networkVars, Issued, Revoked, IssuedEvents, RevokedEvents, EventsOf, Tokens
  <1>7. CountInv'
    <2>1. Spent \subseteq Spent'
      BY DEF Spent
    <2> QED
      BY <1>6, <2>1, CountFrame DEF IInv
  <1>8. BrowserInv'
    BY <1>2, <1>3, <1>6, BrowserFrame DEF IInv
  <1> QED
    BY <1>2, <1>3, <1>4, <1>5, <1>7, <1>8 DEF IInv

LEMMA IssuanceQuiet ==
    ASSUME IInv, NEW s \in Sessions,
           Submit(s) \/ GiveUp(s) \/ Reject(s) \/ LoseRows(s)
    PROVE  IInv'
  <1> DEFINE Kinds == {"idle", "queued", "abandoned", "landed", "closed"}
  <1>1. /\ issuance \in [Sessions -> [pc: Kinds, tokens: SUBSET Tokens]]
        /\ revocation \in [Tokens -> {"idle", "queued", "abandoned", "landed"}]
        /\ linked \in BOOLEAN
    BY DEF IInv, TypeOK
  <1>2. PICK pc \in Kinds :
           /\ issuance' = [issuance EXCEPT ![s].pc = pc]
           /\ pc # "landed"
           /\ issuance[s].pc \in {"landed", "closed"} => pc = "closed"
    BY DEF Submit, GiveUp, Reject, LoseRows
  <1>3. UNCHANGED <<networkVars, indexerVars, credentials>> /\ UNCHANGED <<revocation, linked>>
    BY DEF Submit, GiveUp, Reject, LoseRows
  <1>4. /\ issuance'[s] = [issuance[s] EXCEPT !.pc = pc]
        /\ \A r \in Sessions \ {s} : issuance'[r] = issuance[r]
        /\ issuance' \in [Sessions -> [pc: Kinds, tokens: SUBSET Tokens]]
    BY <1>1, <1>2
  <1>5. BrowserTyped'
    BY <1>1, <1>3, <1>4 DEF BrowserTyped, Tokens
  <1>6. /\ \A r \in Sessions : Landed(r)' => Landed(r) /\ issuance'[r].tokens = issuance[r].tokens
        /\ \A r \in Sessions : issuance[r].pc \in {"landed", "closed"}
                                  => issuance'[r].pc \in {"landed", "closed"}
    BY <1>1, <1>2, <1>4 DEF Landed
  <1>7. linked' \in BOOLEAN /\ \A t \in Tokens : revocation'[t] = "landed" => revocation[t] = "landed"
    BY <1>1, <1>3
  <1> QED
    BY <1>3, <1>5, <1>6, <1>7, BrowserStep

LEMMA RevocationQuiet ==
    ASSUME IInv, NEW t \in Tokens,
           \/ BeginRevocation(t) \/ GiveUpRevocation(t)
           \/ RejectRevocation(t) \/ LoseRevocation(t)
    PROVE  IInv'
  <1>1. /\ revocation \in [Tokens -> {"idle", "queued", "abandoned", "landed"}]
        /\ BrowserTyped /\ linked \in BOOLEAN
    BY DEF IInv, TypeOK, BrowserTyped
  <1>2. PICK pc \in {"idle", "queued", "abandoned"} : revocation' = [revocation EXCEPT ![t] = pc]
    BY DEF BeginRevocation, GiveUpRevocation, RejectRevocation, LoseRevocation
  <1>3. UNCHANGED <<networkVars, indexerVars, credentials>> /\ UNCHANGED <<issuance, linked>>
    BY DEF BeginRevocation, GiveUpRevocation, RejectRevocation, LoseRevocation
  <1>4. BrowserTyped'
    BY <1>1, <1>2, <1>3 DEF BrowserTyped, Tokens
  <1>5. /\ \A r \in Sessions : Landed(r)' => Landed(r) /\ issuance'[r].tokens = issuance[r].tokens
        /\ \A r \in Sessions : issuance[r].pc \in {"landed", "closed"}
                                  => issuance'[r].pc \in {"landed", "closed"}
        /\ linked' \in BOOLEAN
    BY <1>1, <1>3 DEF Landed
  <1>6. \A u \in Tokens : revocation'[u] = "landed" => revocation[u] = "landed"
    BY <1>1, <1>2
  <1> QED
    BY <1>3, <1>4, <1>5, <1>6, BrowserStep

LEMMA ChangeWalletStep ==
    ASSUME IInv, ChangeWallet
    PROVE  IInv'
  <1>1. UNCHANGED <<networkVars, indexerVars, credentials>> /\ UNCHANGED browserVars
    BY DEF ChangeWallet
  <1>2. linked' \in BOOLEAN /\ BrowserTyped'
    BY <1>1 DEF ChangeWallet, IInv, TypeOK, BrowserTyped, browserVars, Tokens
  <1>3. issuance' = issuance /\ revocation' = revocation
    BY <1>1 DEF browserVars
  <1> QED
    BY <1>1, <1>2, <1>3, BrowserStep DEF Landed

(* A ledger that issues nothing: a revocation, or nothing of this contract. *)
LEMMA EmitStep ==
    ASSUME IInv, NEW new, new \in Seq([name: EventNames, subject: Tokens]), Emit(new),
           \A j \in DOMAIN new : new[j].name # "credential_issued",
           UNCHANGED <<indexerVars, issuance, credentials, linked>>,
           revocation' \in [Tokens -> {"idle", "queued", "abandoned", "landed"}],
           \A t \in Tokens : revocation'[t] = "landed" => revocation[t] = "landed" \/ t \in Revoked'
    PROVE  IInv'
  <1>1. /\ Grown
        /\ \A i \in DOMAIN events' : i \notin DOMAIN events =>
              \E j \in DOMAIN new : /\ i = Len(events) + j
                                    /\ events'[i].name = new[j].name
                                    /\ events'[i].subject = new[j].subject
    BY EmitGrows DEF IInv
  <1>2. /\ EventsTyped' /\ UNCHANGED indexerVars /\ UNCHANGED credentials
        /\ issuance' = issuance /\ linked' \in BOOLEAN
    BY <1>1 DEF Grown, IInv, TypeOK
  <1>3. BrowserTyped'
    BY <1>2 DEF BrowserTyped, IInv, TypeOK, Tokens
  <1>4. TypeOK' /\ Keeps /\ Indexed' = Indexed
    BY <1>1, <1>2, <1>3, ChainFrame, TableFrame, TypePartsNext DEF IInv
  <1>5. CursorInv' /\ RowsTruthful'
    BY <1>1, <1>2, <1>4, CursorFrame, RowsFrame DEF IInv
  <1>6. Issued' = Issued /\ Revoked \subseteq Revoked'
    <2>1. ASSUME NEW t, Emitted(t, {"credential_issued"})' PROVE Emitted(t, {"credential_issued"})
      <3>1. PICK i \in DOMAIN events' : events'[i].subject = t /\ events'[i].name = "credential_issued"
        BY <2>1 DEF Emitted
      <3>2. i \in DOMAIN events
        BY <1>1, <3>1
      <3> QED
        BY <1>1, <3>1, <3>2 DEF Grown, Emitted
    <2> QED
      BY <1>1, <2>1, GrownKeeps, ChainFacts, ChainFactsNext
  <1>7. CountInv'
    BY <1>2, <1>6, CountFrame DEF IInv, Spent
  <1>8. BrowserInv'
    <2>1. \A s \in Sessions : Landed(s)' =>
             /\ Landed(s)
             /\ issuance'[s].tokens = issuance[s].tokens
             /\ \A t \in issuance[s].tokens \cap Indexed' :
                   t \in Indexed /\ credentials'[t].content = credentials[t].content
      BY <1>2, <1>4 DEF Landed
    <2> QED
      BY <1>6, <2>1, BrowserFrame DEF IInv
  <1> QED
    BY <1>2, <1>4, <1>5, <1>7, <1>8 DEF IInv

LEMMA OneMessage ==
    ASSUME NEW name \in EventNames, NEW t \in Tokens
    PROVE  /\ <<[name |-> name, subject |-> t]>> \in Seq([name: EventNames, subject: Tokens])
           /\ DOMAIN <<[name |-> name, subject |-> t]>> = {1}
           /\ <<[name |-> name, subject |-> t]>>[1].name = name
           /\ <<[name |-> name, subject |-> t]>>[1].subject = t
  OBVIOUS

LEMMA LandRevocationStep ==
    ASSUME IInv, NEW t \in Tokens, LandRevocation(t)
    PROVE  IInv'
  <1>1. PICK new : new = <<[name |-> "credential_revoked", subject |-> t]>>
    OBVIOUS
  <1>2. /\ new \in Seq([name: EventNames, subject: Tokens])
        /\ DOMAIN new = {1} /\ new[1].name = "credential_revoked" /\ new[1].subject = t
    BY <1>1, OneMessage DEF EventNames
  <1>3. /\ Emit(new)
        /\ UNCHANGED <<indexerVars, issuance, credentials, linked>>
        /\ revocation' = [revocation EXCEPT ![t] = IF @ = "queued" THEN "landed" ELSE "idle"]
    BY <1>1 DEF LandRevocation
  <1>4. t \in Revoked'
    <2>1. \A j \in DOMAIN new : /\ Len(events) + j \in DOMAIN events'
                                /\ events'[Len(events) + j].name = new[j].name
                                /\ events'[Len(events) + j].subject = new[j].subject
      BY <1>2, <1>3, EmitGrows DEF IInv
    <2>2. Emitted(t, {"credential_revoked", "credential_revoked_by_owner"})'
      BY <1>2, <2>1 DEF Emitted
    <2> QED
      BY <2>2, ChainFactsNext
  <1>5. /\ revocation' \in [Tokens -> {"idle", "queued", "abandoned", "landed"}]
        /\ \A u \in Tokens : revocation'[u] = "landed" => revocation[u] = "landed" \/ u \in Revoked'
    BY <1>3, <1>4 DEF IInv, TypeOK
  <1> QED
    BY <1>2, <1>3, <1>5, EmitStep

LEMMA OwnerRevokesStep ==
    ASSUME IInv, NEW t \in Tokens, OwnerRevokes(t)
    PROVE  IInv'
  <1>1. PICK new : new = <<[name |-> "credential_revoked_by_owner", subject |-> t]>>
    OBVIOUS
  <1>2. /\ new \in Seq([name: EventNames, subject: Tokens])
        /\ DOMAIN new = {1} /\ new[1].name = "credential_revoked_by_owner"
    BY <1>1, OneMessage DEF EventNames
  <1>3. /\ Emit(new)
        /\ UNCHANGED <<indexerVars, issuance, credentials, linked>>
        /\ revocation' = revocation
    BY <1>1 DEF OwnerRevokes, browserVars
  <1>4. revocation' \in [Tokens -> {"idle", "queued", "abandoned", "landed"}]
    BY <1>3 DEF IInv, TypeOK
  <1> QED
    BY <1>2, <1>3, <1>4, EmitStep

LEMMA CloseLedgerStep ==
    ASSUME IInv, CloseLedger
    PROVE  IInv'
  <1>1. PICK new : new = <<>>
    OBVIOUS
  <1>2. new \in Seq([name: EventNames, subject: Tokens]) /\ DOMAIN new = {}
    BY <1>1
  <1>3. /\ Emit(new)
        /\ UNCHANGED <<indexerVars, issuance, credentials, linked>>
        /\ revocation' = revocation
    BY <1>1 DEF CloseLedger, browserVars
  <1>4. revocation' \in [Tokens -> {"idle", "queued", "abandoned", "landed"}]
    BY <1>3 DEF IInv, TypeOK
  <1> QED
    BY <1>2, <1>3, <1>4, EmitStep

(* A transaction issues the next n tokens.                                  *)
LEMMA LandIssues ==
    ASSUME IInv, NEW s \in Sessions, Land(s)
    PROVE  \E k \in Nat, n \in 1..MaxRows :
              /\ Issued = 1..k /\ Issued' = 1..(k + n)
              /\ 1..(k + n) \subseteq Tokens
              /\ k + n <= Cardinality(Spent') * MaxRows
              /\ Revoked' = Revoked
              /\ Grown
              /\ LatestEvents' = {[name |-> "credential_issued", subject |-> t] :
                                     t \in (k + 1)..(k + n)}
              /\ issuance' = [issuance EXCEPT ![s] =
                    IF @.pc = "queued" THEN [pc |-> "landed", tokens |-> (k + 1)..(k + n)]
                                       ELSE [@ EXCEPT !.pc = "closed"]]
  <1>1. PICK k \in Nat : Issued = 1..k /\ k <= Cardinality(Spent) * MaxRows
    BY DEF IInv, CountInv
  <1>2. Cardinality(Issued) = k
    BY <1>1, FS_Interval
  <1>3. PICK n \in 1..MaxRows :
           /\ Emit([i \in 1..n |-> [name |-> "credential_issued", subject |-> (k + 1) + i - 1]])
           /\ issuance' = [issuance EXCEPT ![s] =
                 IF @.pc = "queued" THEN [pc |-> "landed", tokens |-> (k + 1)..((k + 1) + n - 1)]
                                    ELSE [@ EXCEPT !.pc = "closed"]]
    BY <1>2 DEF Land
  <1>4. issuance[s].pc \in {"queued", "abandoned"}
    BY DEF Land
  <1>5. /\ issuance \in [Sessions -> [pc: {"idle", "queued", "abandoned", "landed", "closed"},
                                     tokens: SUBSET Tokens]]
        /\ revocation \in [Tokens -> {"idle", "queued", "abandoned", "landed"}]
        /\ linked \in BOOLEAN
        /\ Indexed \subseteq Tokens
    BY DEF IInv, TypeOK
  <1> DEFINE new == [i \in 1..n |-> [name |-> "credential_issued", subject |-> (k + 1) + i - 1]]
  <1>6. /\ Spent' = Spent \cup {s}
        /\ s \notin Spent
    BY <1>3, <1>4, <1>5 DEF Spent
  <1>7. /\ Cardinality(Spent') = Cardinality(Spent) + 1
        /\ k + n <= Cardinality(Spent') * MaxRows
        /\ k + n <= Cardinality(Sessions) * MaxRows
    <2>1. Cardinality(Spent') = Cardinality(Spent) + 1
      BY <1>6, SpentFinite, FS_AddElement
    <2>2. /\ Cardinality(Spent') * MaxRows = Cardinality(Spent) * MaxRows + MaxRows
          /\ Cardinality(Spent') * MaxRows <= Cardinality(Sessions) * MaxRows
          /\ Cardinality(Spent) * MaxRows \in Nat
          /\ Cardinality(Sessions) * MaxRows \in Nat
      BY <2>1, SpentFinite, SpentNextFinite, Products
    <2> QED
      BY <1>1, <2>1, <2>2
  <1>8. /\ new \in Seq([name: EventNames, subject: Tokens])
        /\ DOMAIN new = 1..n
        /\ \A i \in 1..n : new[i].name = "credential_issued" /\ new[i].subject = k + i
    <2>1. \A i \in 1..n : (k + 1) + i - 1 = k + i /\ k + i \in Tokens
      BY <1>7, SpentFinite, Products DEF Tokens
    <2>2. \A i \in 1..n : new[i] \in [name: EventNames, subject: Tokens]
      BY <2>1 DEF EventNames
    <2> QED
      BY <2>1, <2>2
  <1>9. Emit(new)
    BY <1>3
  <1> HIDE DEF new
  <1>10. 1..(k + n) \subseteq Tokens
    BY <1>7, SpentFinite, Products DEF Tokens
  <1>11. /\ Grown
         /\ \A t, names : Emitted(t, names)' <=>
               Emitted(t, names) \/ \E j \in DOMAIN new : /\ new[j].subject = t
                                                          /\ new[j].name \in names
         /\ LatestEvents' =
               {[name |-> new[j].name, subject |-> new[j].subject] : j \in DOMAIN new}
    BY <1>8, <1>9, EmitGrows, EmitAdds DEF IInv
  <1>12. Issued' = 1..(k + n)
    <2>1. \A t : Emitted(t, {"credential_issued"})' <=>
                    Emitted(t, {"credential_issued"}) \/ \E j \in 1..n : t = k + j
      <3> SUFFICES ASSUME NEW t
                   PROVE  Emitted(t, {"credential_issued"})' <=>
                            Emitted(t, {"credential_issued"}) \/ \E j \in 1..n : t = k + j
        OBVIOUS
      <3>1. Emitted(t, {"credential_issued"})' <=>
               Emitted(t, {"credential_issued"})
               \/ \E j \in DOMAIN new : /\ new[j].subject = t
                                        /\ new[j].name \in {"credential_issued"}
        BY <1>11, Zenon
      <3>2. (\E j \in DOMAIN new : /\ new[j].subject = t
                                   /\ new[j].name \in {"credential_issued"})
               <=> \E j \in 1..n : t = k + j
        BY <1>8
      <3> QED
        BY <3>1, <3>2
    <2>2. \A t : t \in Issued' <=> t \in Tokens /\ (t \in 1..k \/ \E j \in 1..n : t = k + j)
      BY <1>1, <2>1, ChainFacts, ChainFactsNext
    <2>3. \A t \in (k + 1)..(k + n) : t - k \in 1..n /\ t = k + (t - k)
      BY <1>1
    <2>4. \A t \in 1..(k + n) : t \in 1..k \/ t \in (k + 1)..(k + n)
      BY <1>1
    <2>5. \A j \in 1..n : k + j \in 1..(k + n)
      BY <1>1
    <2>6. \A t : t \in Issued' <=> t \in 1..(k + n)
      BY <1>1, <1>10, <2>2, <2>3, <2>4, <2>5
    <2> QED
      BY <2>6
  <1>13. Revoked' = Revoked
    <2>1. \A t : Emitted(t, {"credential_revoked", "credential_revoked_by_owner"})' <=>
                    Emitted(t, {"credential_revoked", "credential_revoked_by_owner"})
      <3> DEFINE names == {"credential_revoked", "credential_revoked_by_owner"}
      <3>1. ~\E j \in DOMAIN new : new[j].name \in names
        BY <1>8
      <3> HIDE DEF names
      <3>2. \A t : Emitted(t, names)' <=>
               Emitted(t, names) \/ \E j \in DOMAIN new : /\ new[j].subject = t
                                                           /\ new[j].name \in names
        BY <1>11, Zenon
      <3>3. \A t : Emitted(t, names)' <=> Emitted(t, names)
        BY <3>1, <3>2
      <3> QED
        BY <3>3 DEF names
    <2> QED
      BY <2>1, ChainFacts, ChainFactsNext
  <1>14. LatestEvents' = {[name |-> "credential_issued", subject |-> t] :
                            t \in (k + 1)..(k + n)}
    <2>1. LatestEvents' = {[name |-> "credential_issued", subject |-> k + j] : j \in 1..n}
      <3>1. LatestEvents' = {[name |-> new[j].name, subject |-> new[j].subject] : j \in 1..n}
        BY <1>8, <1>11
      <3>2. \A j \in 1..n : [name |-> new[j].name, subject |-> new[j].subject]
                               = [name |-> "credential_issued", subject |-> k + j]
        BY <1>8
      <3> QED
        BY <3>1, <3>2
    <2>2. /\ \A j \in 1..n : k + j \in (k + 1)..(k + n)
          /\ \A t \in (k + 1)..(k + n) : t - k \in 1..n /\ t = k + (t - k)
      BY <1>1
    <2> QED
      BY <2>1, <2>2
  <1>15. (k + 1) + n - 1 = k + n
    BY <1>1
  <1> QED
    BY <1>1, <1>3, <1>7, <1>10, <1>11, <1>12, <1>13, <1>14, <1>15

(* The browser, if it polls still, learns the ids of these tokens.          *)
LEMMA LandStep ==
    ASSUME IInv, NEW s \in Sessions, Land(s)
    PROVE  IInv'
  <1>1. PICK k \in Nat, n \in 1..MaxRows :
           /\ Issued = 1..k /\ Issued' = 1..(k + n)
           /\ 1..(k + n) \subseteq Tokens
           /\ k + n <= Cardinality(Spent') * MaxRows
           /\ Revoked' = Revoked
           /\ Grown
           /\ issuance' = [issuance EXCEPT ![s] =
                 IF @.pc = "queued" THEN [pc |-> "landed", tokens |-> (k + 1)..(k + n)]
                                    ELSE [@ EXCEPT !.pc = "closed"]]
    BY LandIssues
  <1>2. /\ UNCHANGED <<indexerVars, revocation, credentials, linked>>
        /\ issuance[s].pc \in {"queued", "abandoned"}
    BY DEF Land
  <1>3. /\ issuance \in [Sessions -> [pc: {"idle", "queued", "abandoned", "landed", "closed"},
                                     tokens: SUBSET Tokens]]
        /\ revocation \in [Tokens -> {"idle", "queued", "abandoned", "landed"}]
        /\ linked \in BOOLEAN
        /\ Indexed \subseteq Tokens
    BY DEF IInv, TypeOK
  <1>4. Grown
    BY <1>1
  <1>5. Issued' = 1..(k + n) /\ Revoked \subseteq Revoked' /\ Issued \subseteq Issued'
    BY <1>1
  <1>6. /\ EventsTyped' /\ UNCHANGED indexerVars /\ UNCHANGED credentials /\ linked' \in BOOLEAN
        /\ revocation' = revocation
    BY <1>2, <1>3, <1>4 DEF Grown
  <1>7. /\ \A r \in Sessions \ {s} : issuance'[r] = issuance[r]
        /\ issuance'[s].pc \in {"landed", "closed"}
        /\ Landed(s)' => issuance'[s].tokens = (k + 1)..(k + n)
        /\ issuance' \in [Sessions -> [pc: {"idle", "queued", "abandoned", "landed", "closed"},
                                       tokens: SUBSET Tokens]]
    <2>1. (k + 1)..(k + n) \subseteq Tokens
      BY <1>1
    <2> QED
      BY <1>1, <1>2, <1>3, <2>1 DEF Landed
  <1>8. BrowserTyped'
    BY <1>3, <1>6, <1>7 DEF BrowserTyped, Tokens
  <1>9. TypeOK' /\ Keeps /\ Indexed' = Indexed
    BY <1>4, <1>6, <1>8, ChainFrame, TableFrame, TypePartsNext DEF IInv
  <1>10. CursorInv' /\ RowsTruthful'
    BY <1>4, <1>6, <1>9, CursorFrame, RowsFrame DEF IInv
  <1>11. CountInv'
    BY <1>1, <1>5 DEF CountInv
  <1>12. BrowserInv'
    <2>1. /\ \A r \in Sessions : Landed(r) =>
                /\ issuance[r].tokens \subseteq Issued
                /\ \A t \in issuance[r].tokens \cap Indexed : ~credentials[t].content
          /\ \A q, r \in Sessions :
                q # r /\ Landed(q) /\ Landed(r) => issuance[q].tokens \cap issuance[r].tokens = {}
          /\ \A t \in Tokens : revocation[t] = "landed" => t \in Revoked
          /\ Indexed \subseteq Issued
      BY DEF IInv, BrowserInv, RowsTruthful
    <2>2. /\ \A r \in Sessions \ {s} : Landed(r)' <=> Landed(r)
          /\ credentials' = credentials
      BY <1>6, <1>7 DEF Landed
    <2>3. (k + 1)..(k + n) \cap Issued = {} /\ (k + 1)..(k + n) \subseteq Issued'
      BY <1>1, <1>5
    <2>4. ASSUME NEW r \in Sessions, Landed(r)'
          PROVE  /\ issuance'[r].tokens \subseteq Issued'
                 /\ \A t \in issuance'[r].tokens \cap Indexed' : ~credentials'[t].content
      <3>1. CASE r = s
        BY <1>7, <1>9, <2>1, <2>3, <2>4, <3>1
      <3>2. CASE r # s
        BY <1>5, <1>7, <1>9, <2>1, <2>2, <2>4, <3>2
      <3> QED
        BY <3>1, <3>2
    <2>5. ASSUME NEW q \in Sessions, NEW r \in Sessions, q # r, Landed(q)', Landed(r)'
          PROVE  issuance'[q].tokens \cap issuance'[r].tokens = {}
      <3>1. CASE q # s /\ r # s
        BY <1>7, <2>1, <2>2, <2>5, <3>1
      <3>2. CASE q = s
        <4>1. issuance'[q].tokens \cap Issued = {}
          BY <1>7, <2>3, <2>5, <3>2
        <4>2. issuance'[r].tokens \subseteq Issued
          BY <1>7, <2>1, <2>2, <2>5, <3>2
        <4> QED
          BY <4>1, <4>2
      <3>3. CASE r = s
        <4>1. issuance'[r].tokens \cap Issued = {}
          BY <1>7, <2>3, <2>5, <3>3
        <4>2. issuance'[q].tokens \subseteq Issued
          BY <1>7, <2>1, <2>2, <2>5, <3>3
        <4> QED
          BY <4>1, <4>2
      <3> QED
        BY <3>1, <3>2, <3>3
    <2>6. \A t \in Tokens : revocation'[t] = "landed" => t \in Revoked'
      BY <1>5, <1>6, <2>1
    <2>7. Tokens' = Tokens
      BY DEF Tokens
    <2> QED
      BY <2>4, <2>5, <2>6, <2>7 DEF BrowserInv
  <1> QED
    BY <1>6, <1>9, <1>10, <1>11, <1>12 DEF IInv

-----------------------------------------------------------------------------
(* The writes of the browsers to the table.                                 *)

(* What a write leaves of the invariant, if it takes no row away, resets no *)
(* revocation_source, and writes no content of a token yet to be saved.     *)
LEMMA TableStep ==
    ASSUME IInv, UNCHANGED <<networkVars, indexerVars>>,
           BrowserTyped', TableTyped', Keeps, RowsTruthful',
           \A s \in Sessions : Landed(s)' =>
               /\ Landed(s)
               /\ issuance'[s].tokens = issuance[s].tokens
               /\ \A t \in issuance[s].tokens \cap Indexed' :
                     (t \in Indexed /\ credentials'[t].content = credentials[t].content)
                     \/ ~credentials'[t].content,
           \A s \in Sessions : issuance[s].pc \in {"landed", "closed"}
                                  => issuance'[s].pc \in {"landed", "closed"},
           \A t \in Tokens : revocation'[t] = "landed" => revocation[t] = "landed"
    PROVE  IInv'
  <1>1. Grown
    BY QuietNetwork DEF IInv
  <1>2. EventsTyped' /\ UNCHANGED indexerVars /\ UNCHANGED networkVars
    BY <1>1 DEF Grown
  <1>3. TypeOK'
    BY <1>1, <1>2, ChainFrame, TypePartsNext DEF IInv
  <1>4. CursorInv'
    BY <1>1, <1>2, CursorFrame DEF IInv
  <1>5. Issued' = Issued /\ Revoked' = Revoked
    BY <1>2 DEF networkVars, Issued, Revoked, IssuedEvents, RevokedEvents, EventsOf, Tokens
  <1>6. CountInv'
    <2>1. Spent \subseteq Spent'
      BY DEF Spent
    <2> QED
      BY <1>5, <2>1, CountFrame DEF IInv
  <1>7. BrowserInv'
    BY <1>5, BrowserFrame DEF IInv
  <1> QED
    BY <1>2, <1>3, <1>4, <1>6, <1>7 DEF IInv

(* Nothing happens on the chain: what was true of it is.                    *)
LEMMA QuietChain ==
    ASSUME UNCHANGED networkVars
    PROVE  /\ \A t, names : EventsOf(t, names)' = EventsOf(t, names)
           /\ Issued' = Issued /\ Revoked' = Revoked
  BY DEF networkVars, Issued, Revoked, IssuedEvents, RevokedEvents, EventsOf, Tokens

LEMMA SaveRowsStep ==
    ASSUME IInv, NEW s \in Sessions, SaveRows(s)
    PROVE  IInv'
  <1> DEFINE tokens == issuance[s].tokens
  <1>1. /\ issuance \in [Sessions -> [pc: {"idle", "queued", "abandoned", "landed", "closed"},
                                     tokens: SUBSET Tokens]]
        /\ revocation \in [Tokens -> {"idle", "queued", "abandoned", "landed"}]
        /\ linked \in BOOLEAN
        /\ Indexed \subseteq Tokens
        /\ credentials \in [Indexed -> Row]
    BY DEF IInv, TypeOK
  <1>2. /\ Landed(s)
        /\ credentials' = [t \in Indexed \cup tokens |->
                              IF t \in tokens THEN BuiltRow(t) ELSE credentials[t]]
        /\ issuance' = [issuance EXCEPT ![s].pc = "closed"]
        /\ UNCHANGED <<networkVars, indexerVars, revocation, linked>>
        /\ tokens \subseteq Tokens
    BY <1>1 DEF SaveRows, Landed
  <1>3. /\ Indexed' = Indexed \cup tokens
        /\ \A t \in tokens : credentials'[t] = BuiltRow(t)
        /\ \A t \in Indexed \ tokens : credentials'[t] = credentials[t]
    BY <1>2 DEF Indexed
  <1>4. \A t \in tokens :
           /\ BuiltRow(t) \in Row
           /\ ~BuiltRow(t).revoked
           /\ t \in Indexed => BuiltRow(t).revocation_source = credentials[t].revocation_source
           /\ t \notin Indexed => BuiltRow(t).revocation_source = None
    BY <1>1 DEF BuiltRow, Row
  <1>5. TableTyped'
    <2>1. Indexed' \subseteq Tokens /\ linked' \in BOOLEAN
      BY <1>1, <1>2, <1>3
    <2>2. credentials' = [t \in Indexed' |-> credentials'[t]]
      BY <1>2, <1>3
    <2>3. \A t \in Indexed' : credentials'[t] \in Row
      BY <1>1, <1>3, <1>4
    <2>4. credentials' \in [Indexed' -> Row]
      BY <2>2, <2>3, Zenon
    <2> QED
      BY <2>1, <2>4 DEF TableTyped, Tokens, Row
  <1>6. /\ issuance'[s].pc = "closed"
        /\ \A r \in Sessions \ {s} : issuance'[r] = issuance[r]
        /\ issuance' \in [Sessions -> [pc: {"idle", "queued", "abandoned", "landed", "closed"},
                                       tokens: SUBSET Tokens]]
    BY <1>1, <1>2
  <1>7. BrowserTyped'
    BY <1>1, <1>2, <1>6 DEF BrowserTyped, Tokens
  <1>8. Keeps
    BY <1>3, <1>4 DEF Keeps, Done, DoneNext
  <1>9. RowsTruthful'
    <2>1. /\ \A t \in Indexed :
                /\ t \in Issued
                /\ credentials[t].revoked => t \in Revoked
                /\ credentials[t].revocation_source = "issuer"
                      => EventsOf(t, {"credential_revoked"}) # {}
                /\ credentials[t].revocation_source = "platform"
                      => EventsOf(t, {"credential_revoked_by_owner"}) # {}
          /\ tokens \subseteq Issued
      BY <1>2 DEF IInv, RowsTruthful, BrowserInv
    <2>2. /\ \A t, names : EventsOf(t, names)' = EventsOf(t, names)
          /\ Issued' = Issued /\ Revoked' = Revoked
      BY <1>2, QuietChain
    <2>3. ASSUME NEW t \in Indexed'
          PROVE  /\ t \in Issued'
                 /\ credentials'[t].revoked => t \in Revoked'
                 /\ credentials'[t].revocation_source = "issuer"
                       => EventsOf(t, {"credential_revoked"})' # {}
                 /\ credentials'[t].revocation_source = "platform"
                       => EventsOf(t, {"credential_revoked_by_owner"})' # {}
      <3>1. CASE t \in tokens
        BY <1>3, <1>4, <2>1, <2>2, <3>1
      <3>2. CASE t \notin tokens
        BY <1>3, <2>1, <2>2, <3>2
      <3> QED
        BY <3>1, <3>2
    <2> QED
      BY <2>3 DEF RowsTruthful
  <1>10. ASSUME NEW r \in Sessions, Landed(r)'
         PROVE  /\ Landed(r)
                /\ issuance'[r].tokens = issuance[r].tokens
                /\ \A t \in issuance[r].tokens \cap Indexed' :
                      t \in Indexed /\ credentials'[t].content = credentials[t].content
    <2>1. r # s /\ Landed(r) /\ issuance'[r].tokens = issuance[r].tokens
      BY <1>6, <1>10 DEF Landed
    <2>2. issuance[r].tokens \cap tokens = {}
      BY <1>2, <2>1 DEF IInv, BrowserInv
    <2> QED
      BY <1>3, <2>1, <2>2
  <1>11. \A r \in Sessions : issuance[r].pc \in {"landed", "closed"}
                                => issuance'[r].pc \in {"landed", "closed"}
    BY <1>6
  <1> HIDE DEF tokens
  <1> QED
    BY <1>2, <1>5, <1>7, <1>8, <1>9, <1>10, <1>11, TableStep

LEMMA SaveRevocationStep ==
    ASSUME IInv, NEW t \in Tokens, SaveRevocation(t)
    PROVE  IInv'
  <1>1. /\ BrowserTyped /\ TableTyped
        /\ revocation \in [Tokens -> {"idle", "queued", "abandoned", "landed"}]
        /\ credentials \in [Indexed -> Row]
        /\ linked \in BOOLEAN
    BY TypeParts DEF IInv, TypeOK
  <1>2. /\ credentials' = [credentials EXCEPT ![t].revoked = TRUE]
        /\ revocation' = [revocation EXCEPT ![t] = "idle"]
        /\ UNCHANGED <<networkVars, indexerVars>> /\ UNCHANGED <<issuance, linked>>
        /\ t \in Revoked
    BY DEF SaveRevocation, IInv, BrowserInv
  <1>3. /\ Indexed' = Indexed
        /\ \A u \in Indexed : u # t => credentials'[u] = credentials[u]
        /\ \A u \in Indexed : credentials'[u].content = credentials[u].content
        /\ \A u \in Indexed : credentials'[u].revocation_source = credentials[u].revocation_source
        /\ credentials' \in [Indexed -> Row]
    <2>1. Indexed' = Indexed /\ credentials' \in [Indexed -> Row]
      BY <1>1, <1>2 DEF Indexed, Row
    <2>2. \A u \in Indexed : u # t => credentials'[u] = credentials[u]
      BY <1>1, <1>2
    <2>3. t \in Indexed => credentials'[t] = [credentials[t] EXCEPT !.revoked = TRUE]
      BY <1>1, <1>2
    <2>4. t \in Indexed => /\ credentials'[t].content = credentials[t].content
                           /\ credentials'[t].revocation_source = credentials[t].revocation_source
      BY <1>1, <2>3 DEF Row
    <2> QED
      BY <2>1, <2>2, <2>4
  <1>4. TableTyped' /\ BrowserTyped'
    BY <1>1, <1>2, <1>3 DEF TableTyped, BrowserTyped, Tokens, Row
  <1>5. Keeps
    BY <1>3 DEF Keeps, Done, DoneNext
  <1>6. RowsTruthful'
    BY <1>2, <1>3, QuietChain DEF IInv, RowsTruthful
  <1>7. \A s \in Sessions : Landed(s)' =>
               /\ Landed(s)
               /\ issuance'[s].tokens = issuance[s].tokens
               /\ \A u \in issuance[s].tokens \cap Indexed' :
                     u \in Indexed /\ credentials'[u].content = credentials[u].content
    BY <1>2, <1>3 DEF Landed
  <1>8. \A u \in Tokens : revocation'[u] = "landed" => revocation[u] = "landed"
    BY <1>1, <1>2
  <1> QED
    BY <1>2, <1>4, <1>5, <1>6, <1>7, <1>8, TableStep

-----------------------------------------------------------------------------
(* The indexer.                                                             *)

LEMMA IndexerStep ==
    ASSUME IInv, UNCHANGED networkVars, UNCHANGED <<browserVars, linked>>,
           IndexerTypeOK', TableTyped', CursorInv', RowsTruthful',
           \A t \in Indexed' : (t \in Indexed /\ credentials'[t].content = credentials[t].content)
                               \/ ~credentials'[t].content
    PROVE  IInv'
  <1>1. Grown /\ EventsTyped'
    BY QuietNetwork DEF IInv, Grown
  <1>2. /\ events' = events /\ issuance' = issuance /\ revocation' = revocation
        /\ Issued' = Issued /\ Revoked' = Revoked /\ Tokens' = Tokens
    BY QuietChain DEF networkVars, browserVars, Tokens
  <1>3. TypeOK'
    <2>1. ChainTyped'
      BY <1>2 DEF ChainTyped, IInv, TypeOK
    <2>2. BrowserTyped'
      BY <1>2 DEF BrowserTyped, IInv, TypeOK
    <2> QED
      BY <2>1, <2>2, TypePartsNext
  <1>4. CountInv'
    <2>1. Spent \subseteq Spent'
      BY <1>2 DEF Spent
    <2> QED
      BY <1>2, <2>1, CountFrame DEF IInv
  <1>5. BrowserInv'
    <2>1. \A s \in Sessions : Landed(s)' =>
             /\ Landed(s)
             /\ issuance'[s].tokens = issuance[s].tokens
             /\ \A t \in issuance[s].tokens \cap Indexed' :
                   (t \in Indexed /\ credentials'[t].content = credentials[t].content)
                   \/ ~credentials'[t].content
      BY <1>2 DEF Landed
    <2> QED
      BY <1>2, <2>1, BrowserFrame DEF IInv
  <1> QED
    BY <1>1, <1>3, <1>4, <1>5 DEF IInv

(* The state of the loop, as numbers.                                       *)
LEMMA LoopFacts ==
    ASSUME IInv
    PROVE  /\ latest \in Nat /\ lastLedger \in Int /\ firstLedger \in Int
           /\ Len(events) \in Nat /\ DOMAIN events = 1..Len(events)
           /\ \A i \in DOMAIN events : events[i].ledger \in Nat /\ events[i].ledger <= latest
           /\ sync # Idle => /\ sync \in Iteration
                             /\ sync.highest \in Nat /\ sync.page \in Nat
                             /\ sync.next \in Nat /\ sync.next >= 1
           /\ sync.phase = "page" \/ sync.phase = "cursor" => sync # Idle
  <1>1. /\ latest \in Nat /\ lastLedger \in Int /\ firstLedger \in Int
        /\ \A i \in DOMAIN events : events[i].ledger \in Nat /\ events[i].ledger <= latest
    BY DEF IInv, TypeOK, IndexerTypeOK, NoCursor
  <1>2. Len(events) \in Nat /\ DOMAIN events = 1..Len(events)
    BY DEF IInv, EventsTyped
  <1>3. sync # Idle => sync \in Iteration
    BY DEF IInv, TypeOK, IndexerTypeOK
  <1>4. sync # Idle => /\ sync.highest \in Nat /\ sync.page \in Nat
                       /\ sync.next \in Nat /\ sync.next >= 1
    BY <1>3 DEF Iteration
  <1>5. sync.phase = "page" \/ sync.phase = "cursor" => sync # Idle
    BY DEF Idle
  <1> QED
    BY <1>1, <1>2, <1>3, <1>4, <1>5

(* An event that is handled and has left its row lets the iteration go on.  *)
LEMMA HandledCursor ==
    ASSUME IInv, HasEvent, EventDone, Keeps, DoneNext(CurrentEvent)
    PROVE  CursorInv' /\ IndexerTypeOK'
  <1>1. /\ sync # Idle /\ sync \in Iteration /\ sync.phase = "page"
        /\ sync.next <= sync.page
    BY LoopFacts DEF HasEvent
  <1>2. /\ sync.highest \in Nat /\ sync.page \in Nat /\ sync.next \in Nat /\ sync.next >= 1
        /\ sync.highest <= latest
        /\ sync.page <= Len(events)
        /\ latest \in Nat /\ Len(events) \in Nat
        /\ sync.next \in DOMAIN events
        /\ events[sync.next].ledger \in Nat /\ events[sync.next].ledger <= latest
    BY <1>1, LoopFacts DEF IInv, CursorInv
  <1>3. /\ sync'.phase = "page" /\ sync'.next = sync.next + 1 /\ sync'.page = sync.page
        /\ sync'.highest = Larger(sync.highest, events[sync.next].ledger)
        /\ sync' \in Iteration
    <2>1. PICK h \in Nat : h = Larger(sync.highest, events[sync.next].ledger)
      BY <1>2 DEF Larger
    <2>2. sync' = [sync EXCEPT !.next = sync.next + 1, !.highest = h]
      BY <2>1 DEF EventDone, CurrentEvent
    <2>3. sync \in [phase: {"page", "cursor"}, highest: Nat, next: Nat \ {0}, page: Nat]
      BY <1>1 DEF Iteration
    <2>4. PICK n \in Nat \ {0} : n = sync.next + 1
      BY <1>2
    <2>5. sync' = [sync EXCEPT !.next = n, !.highest = h]
      BY <2>2, <2>4
    <2>6. /\ sync'.phase = sync.phase /\ sync'.next = n
          /\ sync'.highest = h /\ sync'.page = sync.page
          /\ sync' \in [phase: {"page", "cursor"}, highest: Nat, next: Nat \ {0}, page: Nat]
      BY ONLY <2>1, <2>3, <2>4, <2>5
    <2> QED
      BY <1>1, <2>1, <2>4, <2>6 DEF Iteration
  <1>4. sync'.highest <= latest /\ sync' # Idle /\ lastLedger # NoCursor
    BY <1>1, <1>2, <1>3 DEF Larger, Idle, IInv, CursorInv
  <1>5. /\ events' = events /\ latest' = latest
        /\ lastLedger' = lastLedger /\ firstLedger' = firstLedger /\ errors' = errors
    BY DEF EventDone, networkVars
  <1>6. ASSUME NEW i \in DOMAIN events, i < sync'.next, firstLedger < events[i].ledger
        PROVE  DoneNext(events[i])
    <2>1. CASE i = sync.next
      BY <2>1 DEF CurrentEvent
    <2>2. CASE i # sync.next
      <3>1. i < sync.next
        BY <1>2, <1>3, <1>6, <2>2, LoopFacts
      <3>2. Done(events[i])
        BY <1>1, <1>6, <3>1 DEF IInv, CursorInv
      <3> QED
        BY <3>2 DEF Keeps
    <2> QED
      BY <2>1, <2>2
  <1>7. \A i \in DOMAIN events : Covered(events[i]) => DoneNext(events[i])
    BY DEF IInv, CursorInv, Keeps
  <1>8. IndexerTypeOK'
    BY <1>3, <1>5 DEF IInv, TypeOK, IndexerTypeOK, Iteration, NoCursor
  <1>9. sync'.next <= Len(events) + 1 /\ sync'.page <= Len(events)
    BY <1>1, <1>2, <1>3
  <1> HIDE DEF IndexerConstantsOK, IssuanceConstantsOK
  <1> QED
    BY <1>3, <1>4, <1>5, <1>6, <1>7, <1>8, <1>9 DEF CursorInv, Covered, Done, DoneNext, Idle, NoCursor

LEMMA IndexIssuedStep ==
    ASSUME IInv, IndexIssuedCredential
    PROVE  IInv'
  <1> DEFINE token == CurrentEvent.subject
  <1>1. /\ HasEvent /\ EventDone /\ CurrentEvent.name = "credential_issued"
        /\ credentials' = [t \in Indexed \cup {token} |->
                              IF t \in Indexed THEN credentials[t] ELSE StatusOnlyRow]
        /\ UNCHANGED <<browserVars, linked>>
        /\ UNCHANGED networkVars
    BY DEF IndexIssuedCredential, EventDone
  <1>2. sync.next \in DOMAIN events
    BY <1>1, LoopFacts DEF HasEvent, IInv, CursorInv
  <1>3. /\ credentials \in [Indexed -> Row] /\ Indexed \subseteq Tokens /\ linked \in BOOLEAN
        /\ token \in Tokens
    BY <1>2 DEF CurrentEvent, IInv, TypeOK
  <1>4. token \in Issued
    BY <1>1, <1>2, <1>3, ChainFacts DEF CurrentEvent, Emitted
  <1>5. /\ Indexed' = Indexed \cup {token}
        /\ \A t \in Indexed : credentials'[t] = credentials[t]
        /\ \A t \in Indexed' \ Indexed : t = token /\ credentials'[t] = StatusOnlyRow
    BY <1>1 DEF Indexed
  <1>6. /\ StatusOnlyRow \in Row
        /\ ~StatusOnlyRow.content /\ ~StatusOnlyRow.revoked
        /\ StatusOnlyRow.revocation_source = None
    BY <1>3 DEF StatusOnlyRow, Row
  <1>7. TableTyped'
    <2>1. Indexed' \subseteq Tokens /\ linked' \in BOOLEAN
      BY <1>1, <1>3, <1>5
    <2>2. credentials' = [t \in Indexed' |-> credentials'[t]]
      BY <1>1, <1>5
    <2>3. \A t \in Indexed' : credentials'[t] \in Row
      BY <1>3, <1>5, <1>6
    <2>4. credentials' \in [Indexed' -> Row]
      BY <2>2, <2>3, Zenon
    <2> QED
      BY <2>1, <2>4 DEF TableTyped, Tokens, Row
  <1>8. Keeps /\ DoneNext(CurrentEvent)
    BY <1>1, <1>5 DEF Keeps, Done, DoneNext
  <1>9. CursorInv' /\ IndexerTypeOK'
    BY <1>1, <1>8, HandledCursor
  <1>10. RowsTruthful'
    <2>1. /\ \A t, names : EventsOf(t, names)' = EventsOf(t, names)
          /\ Issued' = Issued /\ Revoked' = Revoked
      BY <1>1, QuietChain
    <2>2. ASSUME NEW t \in Indexed'
          PROVE  /\ t \in Issued'
                 /\ credentials'[t].revoked => t \in Revoked'
                 /\ credentials'[t].revocation_source = "issuer"
                       => EventsOf(t, {"credential_revoked"})' # {}
                 /\ credentials'[t].revocation_source = "platform"
                       => EventsOf(t, {"credential_revoked_by_owner"})' # {}
      <3>1. CASE t \in Indexed
        BY <1>5, <2>1, <3>1 DEF IInv, RowsTruthful
      <3>2. CASE t \notin Indexed
        BY <1>4, <1>5, <1>6, <2>1, <2>2, <3>2
      <3> QED
        BY <3>1, <3>2
    <2> QED
      BY <2>2 DEF RowsTruthful
  <1>11. \A t \in Indexed' : (t \in Indexed /\ credentials'[t].content = credentials[t].content)
                             \/ ~credentials'[t].content
    BY <1>5, <1>6
  <1> HIDE DEF token
  <1> QED
    BY <1>1, <1>7, <1>9, <1>10, <1>11, IndexerStep

(* The iteration ends and the cursor stays: an error, or a restart.         *)
LEMMA AbandonedSync ==
    ASSUME IInv, UNCHANGED networkVars, UNCHANGED <<browserVars, linked>>, UNCHANGED credentials,
           sync' = Idle, UNCHANGED <<lastLedger, firstLedger>>, errors' \in 0..MaxErrors
    PROVE  IInv'
  <1>1. /\ events' = events /\ latest' = latest /\ credentials' = credentials /\ linked' = linked
        /\ lastLedger' = lastLedger /\ firstLedger' = firstLedger
    BY DEF networkVars
  <1>2. TableTyped' /\ Indexed' = Indexed
    BY <1>1, TableFrame DEF IInv, TypeOK
  <1>3. IndexerTypeOK'
    BY <1>1 DEF IInv, TypeOK, IndexerTypeOK, Idle, Iteration, NoCursor
  <1>4. CursorInv'
    BY <1>1, <1>2 DEF IInv, CursorInv, Covered, Done, Idle, NoCursor
  <1>5. RowsTruthful'
    BY <1>1, QuietNetwork, RowsFrame DEF IInv
  <1> QED
    BY <1>1, <1>2, <1>3, <1>4, <1>5, IndexerStep

LEMMA IndexRevocationStep ==
    ASSUME IInv, IndexRevocation
    PROVE  IInv'
  <1> DEFINE token == CurrentEvent.subject
             source == IF CurrentEvent.name = "credential_revoked" THEN "issuer" ELSE "platform"
  <1>1. /\ HasEvent /\ CurrentEvent.name # "credential_issued"
        /\ UNCHANGED <<browserVars, linked>>
    BY DEF IndexRevocation
  <1>2. sync.next \in DOMAIN events
    BY <1>1, LoopFacts DEF HasEvent, IInv, CursorInv
  <1>3. /\ credentials \in [Indexed -> Row] /\ Indexed \subseteq Tokens /\ linked \in BOOLEAN
        /\ token \in Tokens /\ CurrentEvent.name \in EventNames
    BY <1>2 DEF CurrentEvent, IInv, TypeOK
  <1>4. CASE /\ token \in Indexed
             /\ credentials' = [credentials EXCEPT ![token].revoked = TRUE,
                                                   ![token].revocation_source = source]
             /\ EventDone
    <2>1. /\ token \in Revoked
          /\ source = "issuer" => EventsOf(token, {"credential_revoked"}) # {}
          /\ source = "platform" => EventsOf(token, {"credential_revoked_by_owner"}) # {}
          /\ source \in {"issuer", "platform"} /\ source # None
      <3>1. \/ CurrentEvent.name = "credential_revoked" /\ source = "issuer"
            \/ CurrentEvent.name = "credential_revoked_by_owner" /\ source = "platform"
        BY <1>1, <1>3 DEF EventNames
      <3>2. CASE CurrentEvent.name = "credential_revoked" /\ source = "issuer"
        <4>1. /\ Emitted(token, {"credential_revoked"})
              /\ Emitted(token, {"credential_revoked", "credential_revoked_by_owner"})
          BY <1>2, <3>2 DEF CurrentEvent, Emitted
        <4> QED
          BY <1>3, <3>2, <4>1, ChainFacts
      <3>3. CASE CurrentEvent.name = "credential_revoked_by_owner" /\ source = "platform"
        <4>1. /\ Emitted(token, {"credential_revoked_by_owner"})
              /\ Emitted(token, {"credential_revoked", "credential_revoked_by_owner"})
          BY <1>2, <3>3 DEF CurrentEvent, Emitted
        <4> QED
          BY <1>3, <3>3, <4>1, ChainFacts
      <3> QED
        BY <3>1, <3>2, <3>3
    <2> HIDE DEF source, token
    <2>2. /\ Indexed' = Indexed
          /\ credentials' \in [Indexed -> Row]
      BY <1>3, <1>4, <2>1 DEF Indexed, Row
    <2>3. \A t \in Indexed : t # token => credentials'[t] = credentials[t]
      BY <1>3, <1>4
    <2>4. credentials'[token] = [credentials[token] EXCEPT !.revoked = TRUE,
                                                           !.revocation_source = source]
      BY <1>3, <1>4
    <2>5. /\ credentials'[token].revocation_source = source
          /\ credentials'[token].content = credentials[token].content
      BY <1>3, <1>4, <2>4 DEF Row
    <2>6. TableTyped'
      BY <1>1, <1>3, <2>2 DEF TableTyped, Tokens, Row
    <2>7. Keeps /\ DoneNext(CurrentEvent)
      BY <1>4, <2>1, <2>2, <2>3, <2>5 DEF Keeps, Done, DoneNext, token
    <2>8. CursorInv' /\ IndexerTypeOK' /\ UNCHANGED networkVars
      BY <1>1, <1>4, <2>7, HandledCursor DEF EventDone
    <2>9. RowsTruthful'
      <3>1. /\ \A t, names : EventsOf(t, names)' = EventsOf(t, names)
            /\ Issued' = Issued /\ Revoked' = Revoked
        BY <2>8, QuietChain
      <3>2. ASSUME NEW t \in Indexed'
            PROVE  /\ t \in Issued'
                   /\ credentials'[t].revoked => t \in Revoked'
                   /\ credentials'[t].revocation_source = "issuer"
                         => EventsOf(t, {"credential_revoked"})' # {}
                   /\ credentials'[t].revocation_source = "platform"
                         => EventsOf(t, {"credential_revoked_by_owner"})' # {}
        <4>1. CASE t = token
          BY <2>1, <2>2, <2>5, <3>1, <3>2, <4>1 DEF IInv, RowsTruthful
        <4>2. CASE t # token
          BY <2>2, <2>3, <3>1, <3>2, <4>2 DEF IInv, RowsTruthful
        <4> QED
          BY <4>1, <4>2
      <3> QED
        BY <3>2 DEF RowsTruthful
    <2>10. \A t \in Indexed' : (t \in Indexed /\ credentials'[t].content = credentials[t].content)
                               \/ ~credentials'[t].content
      BY <2>2, <2>3, <2>5
    <2> QED
      BY <1>1, <2>6, <2>8, <2>9, <2>10, IndexerStep
  <1>5. CASE EventThrown /\ UNCHANGED credentials
    <2>1. /\ UNCHANGED networkVars /\ sync' = Idle
          /\ UNCHANGED <<lastLedger, firstLedger>> /\ errors' \in 0..MaxErrors
      BY <1>5 DEF EventThrown, IInv, TypeOK, IndexerTypeOK
    <2> QED
      BY <1>1, <1>5, <2>1, AbandonedSync
  <1> HIDE DEF token, source
  <1>6. \/ /\ token \in Indexed
           /\ credentials' = [credentials EXCEPT ![token].revoked = TRUE,
                                                 ![token].revocation_source = source]
           /\ EventDone
        \/ EventThrown /\ UNCHANGED credentials
    BY DEF IndexRevocation, token, source
  <1> QED
    BY <1>4, <1>5, <1>6

LEMMA InterruptStep ==
    ASSUME IInv, Interrupt, UNCHANGED <<browserVars, credentials, linked>>
    PROVE  IInv'
  <1>1. errors' \in 0..MaxErrors
    BY DEF Interrupt, IInv, TypeOK, IndexerTypeOK
  <1> QED
    BY <1>1, AbandonedSync DEF Interrupt

(* A step of the loop that writes no row.                                   *)
LEMMA LoopFrame ==
    ASSUME IInv, UNCHANGED networkVars, UNCHANGED <<browserVars, credentials, linked>>,
           IndexerTypeOK', CursorInv'
    PROVE  IInv'
  <1>1. TableTyped' /\ Indexed' = Indexed /\ credentials' = credentials
    BY TableFrame DEF IInv, TypeOK
  <1>2. RowsTruthful'
    BY QuietNetwork, RowsFrame DEF IInv
  <1> QED
    BY <1>1, <1>2, IndexerStep

LEMMA LoopStepStep ==
    ASSUME IInv, LoopStep, UNCHANGED <<browserVars, credentials, linked>>
    PROVE  IInv'
  <1>1. /\ latest \in Nat /\ lastLedger \in Int /\ firstLedger \in Int
        /\ Len(events) \in Nat /\ DOMAIN events = 1..Len(events)
        /\ \A i \in DOMAIN events : events[i].ledger \in Nat /\ events[i].ledger <= latest
    BY LoopFacts
  <1>2. /\ UNCHANGED networkVars
        /\ events' = events /\ latest' = latest /\ credentials' = credentials /\ errors' = errors
    BY DEF LoopStep, FirstStart, BeginSync, FetchPage, AdvanceCursor, networkVars
  <1>3. CursorInv /\ IndexerTypeOK
    BY DEF IInv, TypeOK
  <1>4. ASSUME FirstStart PROVE IndexerTypeOK' /\ CursorInv'
    <2>1. sync = Idle /\ sync' = sync /\ lastLedger' = latest /\ firstLedger' = latest
      BY <1>4 DEF FirstStart
    <2>2. IndexerTypeOK'
      BY <1>1, <1>2, <1>3, <2>1 DEF IndexerTypeOK, Idle, Iteration, NoCursor
    <2>3. CursorInv'
      BY <1>1, <1>2, <2>1 DEF CursorInv, Covered, Idle, NoCursor
    <2> QED
      BY <2>2, <2>3
  <1>5. ASSUME BeginSync PROVE IndexerTypeOK' /\ CursorInv'
    <2> DEFINE endLedger == Smaller(lastLedger + 1 + MAX_LEDGER_RANGE, latest)
    <2>1. PICK old \in 0..Len(events) :
             /\ \A i \in DOMAIN events : i <= old <=> events[i].ledger < lastLedger + 1
             /\ sync' = [phase |-> "page", highest |-> endLedger, next |-> old + 1, page |-> old]
      BY <1>5 DEF BeginSync
    <2>2. /\ lastLedger # NoCursor /\ lastLedger' = lastLedger /\ firstLedger' = firstLedger
      BY <1>5 DEF BeginSync
    <2>3. endLedger \in Nat /\ endLedger <= latest
      BY <1>1, <1>3, <1>5, <2>2 DEF Smaller, BeginSync, IndexerTypeOK
    <2> HIDE DEF endLedger
    <2>4. IndexerTypeOK'
      <3>1. sync' \in Iteration
        BY <1>1, <2>1, <2>3 DEF Iteration
      <3> QED
        BY <1>2, <1>3, <2>2, <3>1 DEF IndexerTypeOK, Idle, Iteration, NoCursor
    <2>5. ASSUME NEW i \in DOMAIN events, i < sync'.next, firstLedger < events[i].ledger
          PROVE  Done(events[i])
      <3>1. i <= old
        BY <1>1, <2>1, <2>5
      <3>2. events[i].ledger <= lastLedger
        BY <1>1, <2>1, <3>1
      <3> QED
        BY <1>3, <2>5, <3>2 DEF CursorInv, Covered
    <2>6. /\ sync'.phase = "page" /\ sync'.highest <= latest
          /\ sync'.next <= Len(events) + 1 /\ sync'.page <= Len(events)
      BY <1>1, <2>1, <2>3
    <2>7. CursorInv'
      BY <1>2, <1>3, <2>2, <2>5, <2>6 DEF CursorInv, Covered, Done, Idle, NoCursor, Indexed
    <2> QED
      BY <2>4, <2>7
  <1>6. ASSUME FetchPage PROVE IndexerTypeOK' /\ CursorInv'
    <2> DEFINE page == Smaller(Len(events), sync.page + EVENT_BATCH_SIZE)
    <2>1. /\ sync.phase = "page" /\ sync.next > sync.page
          /\ sync' = IF page = sync.page THEN [sync EXCEPT !.phase = "cursor"]
                                        ELSE [sync EXCEPT !.page = page]
          /\ lastLedger' = lastLedger /\ firstLedger' = firstLedger
      BY <1>6 DEF FetchPage
    <2>2. /\ sync # Idle /\ sync \in Iteration
          /\ sync.highest \in Nat /\ sync.page \in Nat /\ sync.next \in Nat /\ sync.next >= 1
          /\ sync.highest <= latest /\ sync.next <= Len(events) + 1 /\ sync.page <= Len(events)
          /\ \A i \in DOMAIN events :
                i < sync.next /\ firstLedger < events[i].ledger => Done(events[i])
          /\ lastLedger # NoCursor
      BY <1>3, <2>1, LoopFacts DEF CursorInv
    <2>3. page \in Nat /\ page <= Len(events) /\ (page = sync.page => sync.page = Len(events))
      BY <1>1, <2>2 DEF Smaller
    <2> HIDE DEF page
    <2>4. /\ sync' \in Iteration
          /\ sync'.highest = sync.highest /\ sync'.next = sync.next
          /\ sync'.page <= Len(events)
          /\ sync'.phase = "cursor" => sync.page = Len(events)
      <3>1. sync \in [phase: {"page", "cursor"}, highest: Nat, next: Nat \ {0}, page: Nat]
        BY <2>2 DEF Iteration
      <3>2. CASE page = sync.page
        BY <2>1, <2>2, <2>3, <3>1, <3>2 DEF Iteration
      <3>3. CASE page # sync.page
        BY <2>1, <2>2, <2>3, <3>1, <3>3 DEF Iteration
      <3> QED
        BY <3>2, <3>3
    <2>5. sync'.phase = "cursor" =>
              \A i \in DOMAIN events : i >= sync'.next => events[i].ledger > sync'.highest
      BY <1>1, <2>1, <2>2, <2>4
    <2>6. sync' # Idle
      BY <2>1, <2>2 DEF Idle, Iteration
    <2>7. IndexerTypeOK'
      BY <1>2, <1>3, <2>1, <2>4 DEF IndexerTypeOK, Idle, Iteration, NoCursor
    <2>8. CursorInv'
      BY <1>2, <1>3, <2>1, <2>2, <2>4, <2>5 DEF CursorInv, Covered, Done, Idle, NoCursor, Indexed
    <2> QED
      BY <2>7, <2>8
  <1>7. ASSUME AdvanceCursor PROVE IndexerTypeOK' /\ CursorInv'
    <2>1. /\ sync.phase = "cursor" /\ lastLedger' = sync.highest /\ sync' = Idle
          /\ firstLedger' = firstLedger
      BY <1>7 DEF AdvanceCursor
    <2>2. /\ sync # Idle
          /\ sync.highest \in Nat /\ sync.highest <= latest /\ sync.next \in Nat
          /\ \A i \in DOMAIN events :
                i < sync.next /\ firstLedger < events[i].ledger => Done(events[i])
          /\ \A i \in DOMAIN events : i >= sync.next => events[i].ledger > sync.highest
      BY <1>3, <2>1, LoopFacts DEF CursorInv
    <2>3. ASSUME NEW i \in DOMAIN events,
                 firstLedger < events[i].ledger, events[i].ledger <= sync.highest
          PROVE  Done(events[i])
      BY <1>1, <2>2, <2>3
    <2>4. IndexerTypeOK'
      BY <1>2, <1>3, <2>1, <2>2 DEF IndexerTypeOK, Idle, Iteration, NoCursor
    <2>5. CursorInv'
      BY <1>2, <2>1, <2>2, <2>3 DEF CursorInv, Covered, Done, Idle, NoCursor, Indexed
    <2> QED
      BY <2>4, <2>5
  <1>8. IndexerTypeOK' /\ CursorInv'
    BY <1>4, <1>5, <1>6, <1>7 DEF LoopStep
  <1> QED
    BY <1>2, <1>8, LoopFrame

LEMMA StutterStep ==
    ASSUME IInv, UNCHANGED vars
    PROVE  IInv'
  <1>1. /\ UNCHANGED networkVars /\ UNCHANGED <<browserVars, credentials, linked>>
        /\ lastLedger' = lastLedger /\ firstLedger' = firstLedger
        /\ sync' = sync /\ errors' = errors
        /\ events' = events /\ latest' = latest /\ credentials' = credentials
    BY DEF vars, networkVars, indexerVars
  <1>2. IndexerTypeOK'
    BY <1>1 DEF IInv, TypeOK, IndexerTypeOK, Idle, Iteration, NoCursor
  <1>3. CursorInv'
    BY <1>1 DEF IInv, CursorInv, Covered, Done, Idle, NoCursor, Indexed
  <1> QED
    BY <1>1, <1>2, <1>3, LoopFrame

LEMMA NextIInv ==
    ASSUME IInv, [Next]_vars
    PROVE  IInv'
  <1>1. ASSUME Indexer PROVE IInv'
    BY <1>1, IndexIssuedStep, IndexRevocationStep, LoopStepStep DEF Indexer
  <1>2. ASSUME NEW s \in Sessions, Issuance(s) PROVE IInv'
    BY <1>2, IssuanceQuiet, LandStep, SaveRowsStep DEF Issuance
  <1>3. ASSUME NEW t \in Tokens, Revocation(t) PROVE IInv'
    BY <1>3, RevocationQuiet, LandRevocationStep, SaveRevocationStep DEF Revocation
  <1>4. ASSUME NEW t \in Tokens, OwnerRevokes(t) PROVE IInv'
    BY <1>4, OwnerRevokesStep
  <1> QED
    BY <1>1, <1>2, <1>3, <1>4, InterruptStep, CloseLedgerStep, ChangeWalletStep, StutterStep DEF Next

(* The inductive invariant: what CursorInv says of the iteration under way   *)
(* is what makes the cursor it stores true.                                  *)
THEOREM IndexInvariant == Spec => []IInv
  <1>1. IInv /\ [Next]_vars => IInv'
    BY NextIInv
  <1> QED
    BY <1>1, InitIInv, PTL DEF Spec

(* The network, the loop's state, the browsers and the table stay in their   *)
(* types; in particular no transaction issues a token beyond the last one,   *)
(* and the rows are of tokens of the contract.                               *)
THEOREM IndexTyped == Spec => []TypeOK
  <1>1. IInv => TypeOK
    BY DEF IInv
  <1> QED
    BY <1>1, IndexInvariant, PTL

(* Whatever pages the node returns, however often the loop is interrupted    *)
(* and however many ledgers close while it reads: an event of a ledger the   *)
(* stored cursor has passed has its row (processEvents, indexerState.ts).    *)
THEOREM CursorCoversRowsHolds == Spec => []CursorCoversRows
  <1>1. IInv => CursorCoversRows
    BY DEF IInv, CursorInv, CursorCoversRows, Done
  <1> QED
    BY <1>1, IndexInvariant, PTL

(* Neither browser nor indexer writes a row the chain does not back: a row   *)
(* is of an issued token, and one shown as revoked is revoked.               *)
THEOREM RowsTruthfulHolds == Spec => []RowsTruthful
  <1>1. IInv => RowsTruthful
    BY DEF IInv
  <1> QED
    BY <1>1, IndexInvariant, PTL

(* A revocation the cursor has passed has set revocation_source in its row,  *)
(* and no later write of the issuing browser takes that away.                *)
THEOREM RevocationTracedHolds == Spec => []RevocationTraced
  <1>1. IInv => RevocationTraced
    <2> SUFFICES ASSUME IInv, NEW t \in Tokens, NEW e \in RevokedEvents(t), Covered(e)
                 PROVE  t \in Indexed /\ credentials[t].revocation_source # None
      BY DEF RevocationTraced
    <2>1. PICK i \in DOMAIN events : /\ e = events[i]
                                     /\ e.subject = t
                                     /\ e.name # "credential_issued"
      BY DEF RevokedEvents, EventsOf
    <2>2. Done(events[i])
      BY <2>1 DEF IInv, CursorInv
    <2> QED
      BY <2>1, <2>2 DEF Done
  <1> QED
    BY <1>1, IndexInvariant, PTL

-----------------------------------------------------------------------------
(* What a step may not do to a row.                                         *)

(* The rows a step writes: none, those of one issuance, or that of one event.*)
LEMMA RowWrites ==
    ASSUME IInv, [Next]_vars
    PROVE  /\ Indexed \subseteq Indexed'
           /\ \A t \in Indexed :
                 \/ credentials'[t] = credentials[t]
                 \/ /\ credentials'[t].revoked
                    /\ credentials'[t].content = credentials[t].content
                 \/ /\ credentials'[t].content
                    /\ ~credentials[t].content
  <1>1. credentials \in [Indexed -> Row]
    BY DEF IInv, TypeOK
  <1>2. ASSUME UNCHANGED credentials PROVE Indexed' = Indexed /\ credentials' = credentials
    BY <1>2 DEF Indexed
  <1>3. ASSUME NEW s \in Sessions, SaveRows(s)
        PROVE  /\ Indexed \subseteq Indexed'
               /\ \A t \in Indexed : \/ credentials'[t] = credentials[t]
                                     \/ credentials'[t].content /\ ~credentials[t].content
    <2>1. /\ Indexed' = Indexed \cup issuance[s].tokens
          /\ \A t \in issuance[s].tokens : credentials'[t] = BuiltRow(t)
          /\ \A t \in Indexed \ issuance[s].tokens : credentials'[t] = credentials[t]
      BY <1>3 DEF SaveRows, Indexed
    <2>2. \A t \in issuance[s].tokens \cap Indexed : ~credentials[t].content
      BY <1>3 DEF SaveRows, IInv, BrowserInv, Landed
    <2>3. \A t \in issuance[s].tokens : BuiltRow(t).content
      BY DEF BuiltRow
    <2> QED
      BY <2>1, <2>2, <2>3
  <1>4. ASSUME NEW u \in Tokens, SaveRevocation(u)
        PROVE  /\ Indexed' = Indexed
               /\ \A t \in Indexed : \/ credentials'[t] = credentials[t]
                                     \/ /\ credentials'[t].revoked
                                        /\ credentials'[t].content = credentials[t].content
    <2>1. Indexed' = Indexed
      BY <1>1, <1>4 DEF SaveRevocation, Indexed
    <2>2. \A t \in Indexed : t # u => credentials'[t] = credentials[t]
      BY <1>1, <1>4 DEF SaveRevocation
    <2>3. u \in Indexed => credentials'[u] = [credentials[u] EXCEPT !.revoked = TRUE]
      BY <1>1, <1>4 DEF SaveRevocation
    <2>4. u \in Indexed => /\ credentials'[u].revoked
                           /\ credentials'[u].content = credentials[u].content
      BY <1>1, <2>3 DEF Row
    <2> QED
      BY <2>1, <2>2, <2>4
  <1>5. ASSUME IndexIssuedCredential
        PROVE  Indexed \subseteq Indexed' /\ \A t \in Indexed : credentials'[t] = credentials[t]
    BY <1>5 DEF IndexIssuedCredential, Indexed
  <1>6. ASSUME IndexRevocation
        PROVE  /\ Indexed' = Indexed
               /\ \A t \in Indexed : \/ credentials'[t] = credentials[t]
                                     \/ /\ credentials'[t].revoked
                                        /\ credentials'[t].content = credentials[t].content
    <2>1. CASE UNCHANGED credentials
      BY <1>2, <2>1
    <2>2. CASE ~UNCHANGED credentials
      <3>1. PICK token, source :
               credentials' = [credentials EXCEPT ![token].revoked = TRUE,
                                                  ![token].revocation_source = source]
        BY <1>6, <2>2 DEF IndexRevocation
      <3>2. Indexed' = Indexed
        BY <1>1, <3>1 DEF Indexed
      <3>3. \A t \in Indexed : t # token => credentials'[t] = credentials[t]
        BY <1>1, <3>1
      <3>4. token \in Indexed =>
               credentials'[token] = [credentials[token] EXCEPT !.revoked = TRUE,
                                                                !.revocation_source = source]
        BY <1>1, <3>1
      <3>5. token \in Indexed => /\ credentials'[token].revoked
                                 /\ credentials'[token].content = credentials[token].content
        BY <1>1, <3>4 DEF Row
      <3> QED
        BY <3>2, <3>3, <3>5
    <2> QED
      BY <2>1, <2>2
  <1>7. \/ UNCHANGED credentials
        \/ \E s \in Sessions : SaveRows(s)
        \/ \E t \in Tokens : SaveRevocation(t)
        \/ IndexIssuedCredential
        \/ IndexRevocation
    BY DEF Next, Indexer, Issuance, Revocation, Submit, GiveUp, Land, Reject, LoseRows,
           BeginRevocation, GiveUpRevocation, LandRevocation, RejectRevocation, LoseRevocation,
           OwnerRevokes, CloseLedger, ChangeWallet, vars
  <1> QED
    BY <1>2, <1>3, <1>4, <1>5, <1>6, <1>7

(* The upserts of the indexer ignore a row that is there, and the issuing    *)
(* browser brings the content: no step takes it out of a row.                *)
THEOREM ContentKeptHolds == Spec => ContentKept
  <1>1. IInv /\ [Next]_vars =>
          [\A t \in Indexed :
              t \in Indexed' /\ (credentials[t].content => credentials'[t].content)]_vars
    <2> SUFFICES ASSUME IInv, [Next]_vars, NEW t \in Indexed
                 PROVE  t \in Indexed' /\ (credentials[t].content => credentials'[t].content)
      OBVIOUS
    <2>1. credentials[t].content \in BOOLEAN
      BY DEF IInv, TypeOK, Row
    <2> QED
      BY <2>1, RowWrites
  <1> QED
    BY <1>1, IndexInvariant, PTL DEF Spec, ContentKept

(* The write that may take a flag `revoked' back is the one that brings the  *)
(* content: no other browser saves these tokens, and it saves them once.     *)
THEOREM RevocationKeptHolds == Spec => RevocationKept
  <1>1. IInv /\ [Next]_vars =>
          [\A t \in Indexed :
              credentials[t].content /\ credentials[t].revoked => credentials'[t].revoked]_vars
    BY RowWrites
  <1> QED
    BY <1>1, IndexInvariant, PTL DEF Spec, RevocationKept


-----------------------------------------------------------------------------
(* IssuerVerification.  Here the loop is reasoned about on its own: what it *)
(* knows of the events it has not read, and which events it is past.        *)

LoopInv ==
    /\ IndexerTypeOK
    /\ Len(events) \in Nat
    /\ DOMAIN events = 1..Len(events)
    /\ lastLedger = NoCursor => sync = Idle /\ firstLedger = NoCursor
    /\ sync # Idle =>
          /\ sync.highest <= latest
          /\ sync.next <= Len(events) + 1
          /\ sync.page <= Len(events)
          /\ \A n \in DOMAIN events : n >= sync.next =>
                /\ events[n].ledger > lastLedger
                /\ sync.phase = "cursor" => events[n].ledger > sync.highest

(* The events the loop is past, for good or in this iteration.              *)
Past ==
    {n \in DOMAIN events :
        \/ Covered(events[n])
        \/ sync # Idle /\ n < sync.next /\ firstLedger < events[n].ledger}

(* The state of the loop, as numbers.                                       *)
LEMMA LoopNumbers ==
    ASSUME LoopInv
    PROVE  /\ latest \in Nat /\ lastLedger \in Int /\ firstLedger \in Int
           /\ lastLedger <= latest /\ firstLedger <= latest /\ latest <= MaxLedger
           /\ Len(events) \in Nat /\ DOMAIN events = 1..Len(events)
           /\ \A n \in DOMAIN events : events[n].ledger \in Nat /\ events[n].ledger <= latest
           /\ sync # Idle => /\ sync \in Iteration
                             /\ sync.phase \in {"page", "cursor"}
                             /\ sync.highest \in Nat /\ sync.page \in Nat
                             /\ sync.next \in Nat /\ sync.next >= 1
           /\ sync.phase = "page" \/ sync.phase = "cursor" => sync # Idle
  <1>1. /\ latest \in Nat /\ lastLedger \in Int /\ firstLedger \in Int
        /\ lastLedger <= latest /\ firstLedger <= latest /\ latest <= MaxLedger
        /\ \A n \in DOMAIN events : events[n].ledger \in Nat /\ events[n].ledger <= latest
    BY DEF LoopInv, IndexerTypeOK, NoCursor
  <1>2. sync # Idle => sync \in Iteration
    BY DEF LoopInv, IndexerTypeOK
  <1>3. sync # Idle => /\ sync.phase \in {"page", "cursor"}
                       /\ sync.highest \in Nat /\ sync.page \in Nat
                       /\ sync.next \in Nat /\ sync.next >= 1
    BY <1>2 DEF Iteration
  <1>4. sync.phase = "page" \/ sync.phase = "cursor" => sync # Idle
    BY DEF Idle
  <1> QED
    BY <1>1, <1>2, <1>3, <1>4 DEF LoopInv

(* The loop reads on from where it is: it is past nothing it has not read.  *)
LEMMA AheadIsNotPast ==
    ASSUME LoopInv, sync # Idle, NEW n \in Past
    PROVE  n < sync.next
  BY LoopNumbers DEF LoopInv, Past, Covered

LEMMA LoopInitially ==
    ASSUME IndexerInit
    PROVE  LoopInv /\ Past = {} /\ events = <<>>
  BY DEF IndexerInit, LoopInv, IndexerTypeOK, NoCursor, Past

(* The loop's own steps: it is past no more than before.                    *)
LEMMA LoopGoesOn ==
    ASSUME LoopInv, LoopStep
    PROVE  LoopInv' /\ Past' \subseteq Past /\ UNCHANGED networkVars
  <1> USE DEF networkVars
  <1>1. CASE FirstStart
    <2>1. /\ sync = Idle /\ sync' = Idle /\ lastLedger' = latest /\ firstLedger' = latest
          /\ UNCHANGED <<events, latest, errors>>
      BY <1>1 DEF FirstStart
    <2>2. LoopInv'
      BY <2>1, LoopNumbers DEF LoopInv, IndexerTypeOK, Idle, NoCursor, Iteration
    <2>3. Past' = {}
      BY <2>1, LoopNumbers DEF Past, Covered, Idle
    <2> QED
      BY <2>1, <2>2, <2>3
  <1>2. CASE BeginSync
    <2>1. PICK old \in 0..Len(events) :
             /\ \A i \in DOMAIN events : i <= old <=> events[i].ledger < lastLedger + 1
             /\ sync' = [phase |-> "page",
                         highest |-> Smaller((lastLedger + 1) + MAX_LEDGER_RANGE, latest),
                         next |-> old + 1, page |-> old]
      BY <1>2 DEF BeginSync
    <2>2. /\ sync = Idle /\ lastLedger # NoCursor /\ lastLedger < latest /\ lastLedger \in Nat
          /\ UNCHANGED <<events, latest, lastLedger, firstLedger, errors>>
      BY <1>2 DEF BeginSync, LoopInv, IndexerTypeOK, NoCursor
    <2>3. PICK highest \in Nat :
             /\ highest = Smaller((lastLedger + 1) + MAX_LEDGER_RANGE, latest)
             /\ highest <= latest
      BY <2>2, LoopNumbers DEF Smaller
    <2>4. /\ sync'.phase = "page" /\ sync'.highest = highest
          /\ sync'.next = old + 1 /\ sync'.page = old
          /\ sync' \in Iteration /\ sync' # Idle
      BY <2>1, <2>3, LoopNumbers DEF Iteration, Idle
    <2>5. LoopInv'
      <3>1. IndexerTypeOK'
        BY <2>2, <2>4 DEF LoopInv, IndexerTypeOK, Iteration, Idle, NoCursor
      <3>2. ASSUME NEW n \in DOMAIN events, n >= old + 1
            PROVE  events[n].ledger > lastLedger
        BY <2>1, <2>2, <3>2, LoopNumbers
      <3> QED
        BY <2>2, <2>3, <2>4, <3>1, <3>2, LoopNumbers DEF LoopInv, NoCursor
    <2>6. ASSUME NEW n \in Past' PROVE n \in Past
      BY <2>1, <2>2, <2>4, <2>6, LoopNumbers DEF Past, Covered
    <2> QED
      BY <2>2, <2>5, <2>6
  <1>3. CASE FetchPage
    <2>1. /\ sync.phase = "page" /\ sync.next > sync.page
          /\ UNCHANGED <<events, latest, lastLedger, firstLedger, errors>>
      BY <1>3 DEF FetchPage
    <2>2. PICK page : page = Smaller(Len(events), sync.page + EVENT_BATCH_SIZE)
      OBVIOUS
    <2>3. /\ page \in Nat /\ page <= Len(events)
          /\ page = sync.page => sync.page = Len(events)
      BY <2>1, <2>2, LoopNumbers DEF Smaller, LoopInv
    <2>4. /\ sync' \in Iteration /\ sync' # Idle
          /\ sync'.highest = sync.highest /\ sync'.next = sync.next
          /\ sync'.page <= Len(events)
          /\ sync'.phase = "cursor" => sync.page = Len(events)
      <3>1. sync' = IF page = sync.page THEN [sync EXCEPT !.phase = "cursor"]
                                        ELSE [sync EXCEPT !.page = page]
        BY <1>3, <2>2 DEF FetchPage
      <3>2. sync \in Iteration /\ sync.page <= Len(events)
        BY <2>1, LoopNumbers DEF LoopInv
      <3>3. /\ sync' \in Iteration
            /\ sync'.highest = sync.highest /\ sync'.next = sync.next
            /\ sync'.page \in {sync.page, page}
            /\ sync'.phase = "cursor" => page = sync.page
        BY <2>1, <2>3, <3>1, <3>2 DEF Iteration
      <3> QED
        BY <2>3, <3>2, <3>3 DEF Iteration, Idle
    <2>5. LoopInv'
      <3>1. IndexerTypeOK'
        BY <2>1, <2>4 DEF LoopInv, IndexerTypeOK, Iteration, Idle, NoCursor
      <3>2. sync'.phase = "cursor" => \A n \in DOMAIN events : ~(n >= sync.next)
        BY <2>1, <2>4, LoopNumbers
      <3> QED
        BY <2>1, <2>4, <3>1, <3>2, LoopNumbers DEF LoopInv, NoCursor
    <2>6. Past' = Past
      BY <2>1, <2>4, LoopNumbers DEF Past, Covered
    <2> QED
      BY <2>1, <2>5, <2>6
  <1>4. CASE AdvanceCursor
    <2>1. /\ sync.phase = "cursor" /\ sync # Idle
          /\ lastLedger' = sync.highest /\ sync' = Idle
          /\ UNCHANGED <<events, latest, firstLedger, errors>>
      BY <1>4, LoopNumbers DEF AdvanceCursor
    <2>2. sync.highest \in Nat /\ sync.highest <= latest
      BY <2>1, LoopNumbers DEF LoopInv
    <2>3. LoopInv'
      BY <2>1, <2>2 DEF LoopInv, IndexerTypeOK, Idle, NoCursor, Iteration
    <2>4. ASSUME NEW n \in Past' PROVE n \in Past
      <3>1. /\ n \in DOMAIN events
            /\ firstLedger < events[n].ledger /\ events[n].ledger <= sync.highest
        BY <2>1, <2>4 DEF Past, Covered, Idle
      <3>2. n < sync.next
        BY <2>1, <3>1, LoopNumbers DEF LoopInv
      <3> QED
        BY <2>1, <3>1, <3>2 DEF Past
    <2> QED
      BY <2>1, <2>3, <2>4
  <1> QED
    BY <1>1, <1>2, <1>3, <1>4 DEF LoopStep

(* An event handled is the only one the loop is newly past.                 *)
LEMMA LoopHandles ==
    ASSUME LoopInv, HasEvent, EventDone
    PROVE  /\ LoopInv' /\ UNCHANGED networkVars
           /\ sync.next \in DOMAIN events
           /\ sync.next \notin Past
           /\ Past' \subseteq Past \cup {sync.next}
  <1>1. /\ sync # Idle /\ sync \in Iteration /\ sync.phase = "page"
        /\ sync.next <= sync.page
        /\ UNCHANGED <<events, latest, lastLedger, firstLedger, errors>>
    BY LoopNumbers DEF HasEvent, EventDone, networkVars
  <1>2. /\ sync.highest \in Nat /\ sync.page \in Nat /\ sync.next \in Nat /\ sync.next >= 1
        /\ sync.highest <= latest /\ sync.page <= Len(events)
        /\ sync.next \in DOMAIN events
    BY <1>1, LoopNumbers DEF LoopInv
  <1>3. PICK highest \in Nat :
           highest = Larger(sync.highest, events[sync.next].ledger) /\ highest <= latest
    BY <1>2, LoopNumbers DEF Larger
  <1>4. PICK next \in Nat \ {0} : next = sync.next + 1
    BY <1>2
  <1>5. /\ sync' \in Iteration /\ sync' # Idle
        /\ sync'.phase = "page" /\ sync'.next = next
        /\ sync'.highest = highest /\ sync'.page = sync.page
    <2>1. sync' = [sync EXCEPT !.next = next, !.highest = highest]
      BY <1>3, <1>4 DEF EventDone, CurrentEvent
    <2>2. sync \in [phase: {"page", "cursor"}, highest: Nat, next: Nat \ {0}, page: Nat]
      BY <1>1 DEF Iteration
    <2>3. /\ sync'.phase = sync.phase /\ sync'.next = next
          /\ sync'.highest = highest /\ sync'.page = sync.page
          /\ sync' \in [phase: {"page", "cursor"}, highest: Nat, next: Nat \ {0}, page: Nat]
      BY ONLY <2>1, <2>2, highest \in Nat, next \in Nat \ {0}
    <2> QED
      BY <1>1, <2>3 DEF Iteration, Idle
  <1>6. LoopInv'
    <2>1. IndexerTypeOK'
      BY <1>1, <1>5 DEF LoopInv, IndexerTypeOK, Iteration, Idle, NoCursor
    <2> QED
      BY <1>1, <1>2, <1>3, <1>4, <1>5, <2>1, LoopNumbers DEF LoopInv, NoCursor
  <1>7. sync.next \notin Past
    BY <1>1, <1>2, AheadIsNotPast
  <1>8. ASSUME NEW n \in Past', n # sync.next PROVE n \in Past
    BY <1>1, <1>2, <1>4, <1>5, <1>8, LoopNumbers DEF Past, Covered
  <1> QED
    BY <1>1, <1>2, <1>6, <1>7, <1>8 DEF networkVars

(* An iteration that ends early takes back what it was past.                *)
LEMMA LoopStops ==
    ASSUME LoopInv, UNCHANGED networkVars, sync' = Idle,
           UNCHANGED <<lastLedger, firstLedger>>, errors' \in 0..MaxErrors
    PROVE  LoopInv' /\ Past' \subseteq Past
  <1>1. UNCHANGED <<events, latest>>
    BY DEF networkVars
  <1>2. LoopInv'
    BY <1>1 DEF LoopInv, IndexerTypeOK, Idle, NoCursor, Iteration
  <1> QED
    BY <1>1, <1>2 DEF Past, Covered, Idle

-----------------------------------------------------------------------------
(* What the contract says of wallets.                                       *)

AuthorizationNames == {"issuer_authorized", "issuer_revoked"}

Authorization == [name: AuthorizationNames, subject: Wallets, ledger: Nat]

IsLast(n) == \A m \in DOMAIN events : events[m].subject = events[n].subject => m <= n

(* No institution the loop is past the last word on is verified against it. *)
Standing ==
    \A i \in Existing, n \in Past :
        /\ Verified(i)
        /\ HasWallet(i, events[n].subject)
        /\ events[n].name = "issuer_revoked"
        /\ IsLast(n)
        => institutions[i].tx

(* The rows, in their types.                                                *)
InstitutionsTyped ==
    /\ institutions \in UNION {[S -> InstitutionRow] : S \in SUBSET Institutions}
    /\ WalletsUnique
    /\ compared \subseteq Existing \X Wallets

RequestsTyped ==
    request \in [Requests -> [phase: {"none", "checked", "found", "done"},
                              wallet: Wallets \cup {Null},
                              institution: Institutions \cup {Null}]]

(* The inductive invariant of IssuerVerification.                           *)
VInv ==
    /\ LoopInv
    /\ events \in Seq(Authorization)
    /\ authorized \subseteq Wallets
    /\ InstitutionsTyped
    /\ RequestsTyped
    /\ VerifiedHasEvidence
    /\ Standing

LEMMA AuthorizationEvents ==
    ASSUME VInv
    PROVE  \A n \in DOMAIN events : /\ events[n].name \in AuthorizationNames
                                    /\ events[n].subject \in Wallets
  <1>1. \A e \in Authorization : e.name \in AuthorizationNames /\ e.subject \in Wallets
    BY DEF Authorization
  <1>2. events \in Seq(Authorization)
    BY DEF VInv
  <1> HIDE DEF Authorization
  <1>3. DOMAIN events = 1..Len(events) /\ \A n \in 1..Len(events) : events[n] \in Authorization
    BY ONLY <1>2, Elements, Zenon
  <1> QED
    BY <1>1, <1>3

LEMMA VInvTypes == VInv => VerificationTypeOK
  BY AuthorizationEvents
  DEF VInv, LoopInv, VerificationTypeOK, InstitutionsTyped, RequestsTyped, AuthorizationNames

(* The rows as a function, without the set of its domains.                  *)
LEMMA Rows ==
    /\ institutions \in UNION {[S -> InstitutionRow] : S \in SUBSET Institutions}
          <=> /\ Existing \subseteq Institutions
              /\ institutions = [i \in Existing |-> institutions[i]]
              /\ \A i \in Existing : institutions[i] \in InstitutionRow
    /\ institutions' \in UNION {[S -> InstitutionRow] : S \in SUBSET Institutions}
          <=> /\ Existing' \subseteq Institutions
              /\ institutions' = [i \in Existing' |-> institutions'[i]]
              /\ \A i \in Existing' : institutions'[i] \in InstitutionRow
  BY DEF Existing

LEMMA VerificationInitially == VerificationInit => VInv
  <1> SUFFICES ASSUME VerificationInit PROVE VInv
    OBVIOUS
  <1>1. LoopInv /\ Past = {} /\ events = <<>>
    BY LoopInitially DEF VerificationInit
  <1>2. PICK S \in SUBSET Institutions : institutions \in [S -> SelfSignups]
    BY DEF VerificationInit
  <1>3. /\ Existing = S
        /\ \A i \in Existing : institutions[i] \in SelfSignups
    BY <1>2 DEF Existing
  <1>4. \A row \in SelfSignups :
            row \in InstitutionRow /\ row.wallet_address = Null /\ row.status # "verified"
    BY DEF SelfSignups, InstitutionRow
  <1>5. InstitutionsTyped
    <2>1. institutions \in [S -> InstitutionRow]
      BY <1>2, <1>4
    <2>2. WalletsUnique
      BY <1>3, <1>4 DEF WalletsUnique
    <2>3. compared \subseteq Existing \X Wallets
      BY DEF VerificationInit
    <2> QED
      BY <2>1, <2>2, <2>3 DEF InstitutionsTyped
  <1>6. VerifiedHasEvidence /\ Standing
    BY <1>1, <1>3, <1>4 DEF VerifiedHasEvidence, Verified, Standing
  <1>7. events \in Seq(Authorization) /\ authorized \subseteq Wallets /\ RequestsTyped
    BY <1>1 DEF VerificationInit, RequestsTyped
  <1> QED
    BY <1>1, <1>5, <1>6, <1>7 DEF VInv

(* A transaction adds one event at the end, in a ledger of its own.         *)
LEMMA OneEvent ==
    ASSUME VInv, NEW name \in AuthorizationNames, NEW w \in Wallets,
           Emit(<<[name |-> name, subject |-> w]>>)
    PROVE  /\ events' \in Seq(Authorization)
           /\ latest' = latest + 1 /\ latest' <= MaxLedger
           /\ Len(events') = Len(events) + 1
           /\ DOMAIN events' = 1..(Len(events) + 1)
           /\ \A n \in DOMAIN events : events'[n] = events[n]
           /\ events'[Len(events) + 1] = [name |-> name, subject |-> w, ledger |-> latest + 1]
  <1>1. PICK e : e = [name |-> name, subject |-> w, ledger |-> latest + 1]
    OBVIOUS
  <1>2. /\ latest \in Nat /\ MaxLedger \in Nat
        /\ Len(events) \in Nat /\ DOMAIN events = 1..Len(events)
        /\ events \in Seq(Authorization)
    BY LoopNumbers DEF VInv
  <1>3. e \in Authorization
    BY <1>1, <1>2 DEF Authorization
  <1>4. /\ latest < MaxLedger /\ latest' = latest + 1
        /\ events' = events \o <<e>>
    <2>1. [i \in DOMAIN <<[name |-> name, subject |-> w]>> |->
             [name |-> <<[name |-> name, subject |-> w]>>[i].name,
              subject |-> <<[name |-> name, subject |-> w]>>[i].subject,
              ledger |-> latest + 1]] = <<e>>
      BY <1>1
    <2> QED
      BY <2>1 DEF Emit
  <1>5. <<e>> \in Seq(Authorization) /\ Len(<<e>>) = 1 /\ <<e>>[1] = e
    BY <1>3
  <1> HIDE DEF Authorization
  <1>6. /\ events \o <<e>> \in Seq(Authorization)
        /\ Len(events \o <<e>>) = Len(events) + Len(<<e>>)
        /\ \A n \in 1..Len(events) : (events \o <<e>>)[n] = events[n]
        /\ \A n \in 1..(Len(events) + Len(<<e>>)) :
              n > Len(events) => (events \o <<e>>)[n] = <<e>>[n - Len(events)]
    BY ONLY <1>2, <1>5, Concatenation, Zenon
  <1>7. events' \in Seq(Authorization) /\ DOMAIN events' = 1..Len(events')
    <2>1. events' \in Seq(Authorization)
      BY <1>4, <1>6
    <2> QED
      BY ONLY <2>1, Elements, Zenon
  <1>8. /\ Len(events) + 1 \in 1..(Len(events) + 1)
        /\ Len(events) + 1 > Len(events)
        /\ (Len(events) + 1) - Len(events) = 1
    BY <1>2
  <1>9. (events \o <<e>>)[Len(events) + 1] = e
    BY <1>5, <1>6, <1>8
  <1> QED
    BY <1>1, <1>2, <1>4, <1>5, <1>6, <1>7, <1>8, <1>9

LEMMA TransactionStep ==
    ASSUME VInv, NEW name \in AuthorizationNames, NEW w \in Wallets,
           Emit(<<[name |-> name, subject |-> w]>>),
           authorized' \subseteq Wallets,
           UNCHANGED <<indexerVars, institutions, compared, request>>
    PROVE  VInv'
  <1>1. /\ events' \in Seq(Authorization)
        /\ latest' = latest + 1 /\ latest' <= MaxLedger
        /\ Len(events') = Len(events) + 1
        /\ DOMAIN events' = 1..(Len(events) + 1)
        /\ \A n \in DOMAIN events : events'[n] = events[n]
        /\ events'[Len(events) + 1].ledger = latest + 1
    <2> HIDE DEF IndexerConstantsOK, IssuanceConstantsOK
    <2>1. events'[Len(events) + 1] = [name |-> name, subject |-> w, ledger |-> latest + 1]
      BY OneEvent
    <2>2. [name |-> name, subject |-> w, ledger |-> latest + 1].ledger = latest + 1
      OBVIOUS
    <2> QED
      BY <2>1, <2>2, OneEvent
  <1>2. /\ LoopInv
        /\ Len(events) \in Nat /\ DOMAIN events = 1..Len(events) /\ latest \in Nat
        /\ lastLedger' = lastLedger /\ firstLedger' = firstLedger
        /\ sync' = sync /\ errors' = errors
        /\ UNCHANGED <<institutions, compared, request>>
    BY LoopNumbers DEF VInv, indexerVars
  <1>3. \A n \in DOMAIN events' : n \in DOMAIN events \/ n = Len(events) + 1
    BY <1>1, <1>2
  <1>4. LoopInv'
    <2>1. \A n \in DOMAIN events' : events'[n].ledger \in 1..latest'
      <3> SUFFICES ASSUME NEW n \in DOMAIN events' PROVE events'[n].ledger \in 1..latest'
        OBVIOUS
      <3>1. CASE n \in DOMAIN events
        BY <1>1, <1>2, <3>1 DEF LoopInv, IndexerTypeOK
      <3>2. CASE n = Len(events) + 1
        BY <1>1, <1>2, <3>2
      <3> QED
        BY <1>3, <3>1, <3>2
    <2>2. IndexerTypeOK'
      BY <1>1, <1>2, <2>1 DEF LoopInv, IndexerTypeOK, Idle, NoCursor, Iteration
    <2>3. ASSUME sync # Idle
          PROVE  /\ sync.highest <= latest'
                 /\ sync.next <= Len(events') + 1
                 /\ sync.page <= Len(events')
                 /\ \A n \in DOMAIN events' : n >= sync.next =>
                       /\ events'[n].ledger > lastLedger
                       /\ sync.phase = "cursor" => events'[n].ledger > sync.highest
      <3>1. /\ sync.highest \in Nat /\ sync.highest <= latest
            /\ sync.next \in Nat /\ sync.next <= Len(events) + 1
            /\ sync.page \in Nat /\ sync.page <= Len(events)
            /\ lastLedger \in Int /\ lastLedger <= latest
        BY <1>2, <2>3, LoopNumbers DEF LoopInv
      <3>2. ASSUME NEW n \in DOMAIN events', n >= sync.next
            PROVE  /\ events'[n].ledger > lastLedger
                   /\ sync.phase = "cursor" => events'[n].ledger > sync.highest
        <4>1. CASE n \in DOMAIN events
          BY <1>1, <1>2, <2>3, <3>2, <4>1 DEF LoopInv
        <4>2. CASE n = Len(events) + 1
          BY <1>1, <1>2, <3>1, <4>2
        <4> QED
          BY <1>3, <4>1, <4>2
      <3> QED
        BY <1>1, <1>2, <3>1, <3>2
    <2>4. Len(events') \in Nat /\ DOMAIN events' = 1..Len(events')
      BY <1>1, <1>2
    <2>5. Idle' = Idle /\ NoCursor' = NoCursor
      BY DEF Idle, NoCursor
    <2> HIDE DEF IndexerConstantsOK, IssuanceConstantsOK
    <2> QED
      BY <1>2, <2>2, <2>3, <2>4, <2>5 DEF LoopInv
  <1>5. ASSUME NEW n \in Past' PROVE n \in Past
    <2>1. n \in DOMAIN events
      <3> SUFFICES ASSUME n = Len(events) + 1 PROVE FALSE
        BY <1>3, <1>5 DEF Past
      <3>1. ~Covered(events[n])'
        BY <1>1, <1>2, LoopNumbers DEF Covered
      <3>2. ~(sync # Idle /\ n < sync.next)
        BY <1>2, LoopNumbers DEF LoopInv
      <3> QED
        BY <1>2, <1>5, <3>1, <3>2 DEF Past, Idle
    <2>2. events'[n] = events[n]
      BY <1>1, <2>1
    <2> QED
      BY <1>2, <1>5, <2>1, <2>2 DEF Past, Covered, Idle
  <1>6. \A v : AuthorizationEmitted(v) => AuthorizationEmitted(v)'
    <2> SUFFICES ASSUME NEW v, AuthorizationEmitted(v) PROVE AuthorizationEmitted(v)'
      OBVIOUS
    <2>1. PICK n \in DOMAIN events :
             events[n].name = "issuer_authorized" /\ events[n].subject = v
      BY DEF AuthorizationEmitted
    <2>2. n \in DOMAIN events' /\ events'[n] = events[n]
      BY <1>1, <1>2
    <2> QED
      BY <2>1, <2>2 DEF AuthorizationEmitted
  <1>7. VerifiedHasEvidence'
    BY <1>2, <1>6 DEF VInv, VerifiedHasEvidence, Existing, Verified
  <1>8. Standing'
    <2> SUFFICES ASSUME NEW i \in Existing', NEW n \in Past',
                        institutions'[i].status = "verified",
                        institutions'[i].wallet_address = events'[n].subject,
                        events'[n].name = "issuer_revoked", IsLast(n)'
                 PROVE  institutions'[i].tx
      BY DEF Standing, Verified, HasWallet
    <2>1. n \in Past /\ n \in DOMAIN events /\ events'[n] = events[n]
      BY <1>1, <1>5 DEF Past
    <2>2. IsLast(n)
      BY <1>1, <1>2, <2>1 DEF IsLast
    <2> QED
      BY <1>2, <2>1, <2>2 DEF VInv, Standing, Existing, Verified, HasWallet
  <1>9. InstitutionsTyped' /\ RequestsTyped'
    BY <1>2 DEF VInv, InstitutionsTyped, RequestsTyped, WalletsUnique, Existing
  <1> QED
    BY <1>1, <1>4, <1>7, <1>8, <1>9 DEF VInv, Authorization, AuthorizationNames

(* The chain and the loop stand still: the events are past or not as before.*)
LEMMA ChainAtRest ==
    ASSUME UNCHANGED <<networkVars, indexerVars>>
    PROVE  /\ UNCHANGED <<events, latest, lastLedger, firstLedger, sync, errors>>
           /\ Past' = Past /\ (LoopInv => LoopInv')
           /\ \A v : AuthorizationEmitted(v)' = AuthorizationEmitted(v)
           /\ \A n : IsLast(n)' = IsLast(n)
  <1>1. UNCHANGED <<events, latest, lastLedger, firstLedger, sync, errors>>
    BY DEF networkVars, indexerVars
  <1> QED
    BY <1>1 DEF Past, LoopInv, IndexerTypeOK, Covered, AuthorizationEmitted, IsLast,
                Idle, NoCursor, Iteration

(* The requests go on and write nothing.                                    *)
LEMMA RequestStep ==
    ASSUME VInv, UNCHANGED <<networkVars, indexerVars, authorized, institutions, compared>>,
           RequestsTyped'
    PROVE  VInv'
  BY ChainAtRest
  DEF VInv, InstitutionsTyped, WalletsUnique, Existing, VerifiedHasEvidence, Verified,
      Standing, HasWallet

(* A route gives one institution a new row: a pending one, or the verified  *)
(* one of the admin route.                                                  *)
LEMMA RowStep ==
    ASSUME VInv, UNCHANGED <<networkVars, indexerVars, authorized>>,
           NEW i \in Institutions,
           Existing' = Existing \cup {i},
           institutions' = [j \in Existing' |-> institutions'[j]],
           \A j \in Existing \ {i} : institutions'[j] = institutions[j],
           institutions'[i] \in InstitutionRow,
           \A j \in Existing \ {i} :
               institutions[j].wallet_address = institutions'[i].wallet_address
                  => institutions'[i].wallet_address = Null,
           Verified(i)' => institutions'[i].tx,
           compared' \subseteq Existing' \X Wallets,
           RequestsTyped'
    PROVE  VInv'
  <1>1. /\ Past' = Past /\ LoopInv' /\ events' = events /\ authorized' = authorized
        /\ \A v : AuthorizationEmitted(v)' = AuthorizationEmitted(v)
        /\ \A n : IsLast(n)' = IsLast(n)
    BY ChainAtRest DEF VInv
  <1>2. WalletsUnique'
    <2>1. \A j, k \in Existing : institutions[j].wallet_address = institutions[k].wallet_address
              => j = k \/ institutions[j].wallet_address = Null
      BY DEF VInv, InstitutionsTyped, WalletsUnique
    <2>2. ASSUME NEW j \in Existing', NEW k \in Existing',
                 institutions'[j].wallet_address = institutions'[k].wallet_address
          PROVE  j = k \/ institutions'[j].wallet_address = Null
      BY <2>1, <2>2
    <2> QED
      BY <2>2 DEF WalletsUnique
  <1>3. InstitutionsTyped'
    <2>1. \A j \in Existing' : institutions'[j] \in InstitutionRow
      BY Rows DEF VInv, InstitutionsTyped
    <2>2. Existing' \subseteq Institutions
      BY Rows DEF VInv, InstitutionsTyped
    <2> QED
      BY <1>2, <2>1, <2>2, Rows DEF InstitutionsTyped, InstitutionRow
  <1>4. VerifiedHasEvidence'
    <2> SUFFICES ASSUME NEW j \in Existing', institutions'[j].status = "verified"
                 PROVE  (\E n \in DOMAIN events' :
                            /\ events'[n].name = "issuer_authorized"
                            /\ events'[n].subject = institutions'[j].wallet_address)
                         \/ institutions'[j].tx
      BY DEF VerifiedHasEvidence, Verified, AuthorizationEmitted
    <2>1. CASE j = i
      BY <2>1 DEF Verified
    <2>2. CASE j # i
      BY <1>1, <2>2 DEF VInv, VerifiedHasEvidence, Verified, AuthorizationEmitted
    <2> QED
      BY <2>1, <2>2
  <1>5. Standing'
    <2> SUFFICES ASSUME NEW j \in Existing', NEW n \in Past',
                        institutions'[j].status = "verified",
                        institutions'[j].wallet_address = events'[n].subject,
                        events'[n].name = "issuer_revoked", IsLast(n)'
                 PROVE  institutions'[j].tx
      BY DEF Standing, Verified, HasWallet
    <2>1. CASE j = i
      BY <2>1 DEF Verified
    <2>2. CASE j # i
      BY <1>1, <2>2 DEF VInv, Standing, Verified, HasWallet
    <2> QED
      BY <2>1, <2>2
  <1> QED
    BY <1>1, <1>3, <1>4, <1>5 DEF VInv, Authorization, AuthorizationNames

LEMMA IssuerStep ==
    ASSUME VInv, NEW w \in Wallets, AuthorizeIssuer(w) \/ RevokeIssuer(w)
    PROVE  VInv'
  <1>1. PICK name \in AuthorizationNames : Emit(<<[name |-> name, subject |-> w]>>)
    BY DEF AuthorizeIssuer, RevokeIssuer, AuthorizationNames
  <1>2. /\ authorized' \subseteq Wallets
        /\ UNCHANGED <<indexerVars, institutions, compared, request>>
    BY DEF AuthorizeIssuer, RevokeIssuer, VInv
  <1> QED
    BY <1>1, <1>2, TransactionStep

LEMMA PendingRow ==
    ASSUME NEW w \in Wallets
    PROVE  /\ Pending(w) \in InstitutionRow
           /\ Pending(w).wallet_address = w /\ Pending(w).status = "pending"
  BY DEF Pending, InstitutionRow

LEMMA ProvisionStep ==
    ASSUME VInv, NEW i \in Institutions, NEW w \in Wallets, Provision(i, w)
    PROVE  VInv'
  <1>1. /\ institutions' = [j \in Existing \cup {i} |->
                              IF j = i THEN Pending(w) ELSE institutions[j]]
        /\ Untaken(w)
        /\ compared' = compared \cup ({i} \X (Wallets \ {w}))
        /\ UNCHANGED <<networkVars, indexerVars, authorized>> /\ UNCHANGED request
    BY DEF Provision
  <1>2. /\ Existing' = Existing \cup {i}
        /\ institutions' = [j \in Existing' |-> institutions'[j]]
        /\ \A j \in Existing \ {i} : institutions'[j] = institutions[j]
        /\ institutions'[i] = Pending(w)
    BY <1>1 DEF Existing
  <1>3. /\ institutions'[i] \in InstitutionRow
        /\ ~Verified(i)'
        /\ \A j \in Existing \ {i} :
              institutions[j].wallet_address # institutions'[i].wallet_address
    BY <1>1, <1>2, PendingRow DEF Verified, Untaken, HasWallet
  <1>4. compared' \subseteq Existing' \X Wallets
    BY <1>1, <1>2 DEF VInv, InstitutionsTyped
  <1>5. RequestsTyped'
    BY <1>1 DEF VInv, RequestsTyped
  <1> QED
    BY <1>1, <1>2, <1>3, <1>4, <1>5, RowStep

LEMMA LinkWalletStep ==
    ASSUME VInv, NEW i \in Institutions, NEW w \in Wallets, LinkWallet(i, w)
    PROVE  VInv'
  <1>1. /\ <<i, w>> \in compared
        /\ \A j \in Existing \ {i} : ~HasWallet(j, w)
        /\ institutions' = [institutions EXCEPT ![i] = Pending(w)]
        /\ compared' = compared \cup ({i} \X (Wallets \ {w}))
        /\ UNCHANGED <<networkVars, indexerVars, authorized>> /\ UNCHANGED request
    BY DEF LinkWallet
  <1>2. i \in Existing
    BY <1>1 DEF VInv, InstitutionsTyped
  <1>3. /\ Existing' = Existing \cup {i}
        /\ institutions' = [j \in Existing' |-> institutions'[j]]
        /\ \A j \in Existing \ {i} : institutions'[j] = institutions[j]
        /\ institutions'[i] = Pending(w)
    BY <1>1, <1>2 DEF Existing
  <1>4. /\ institutions'[i] \in InstitutionRow
        /\ ~Verified(i)'
        /\ \A j \in Existing \ {i} :
              institutions[j].wallet_address # institutions'[i].wallet_address
    BY <1>1, <1>3, PendingRow DEF Verified, HasWallet
  <1>5. compared' \subseteq Existing' \X Wallets
    BY <1>1, <1>3 DEF VInv, InstitutionsTyped
  <1>6. RequestsTyped'
    BY <1>1 DEF VInv, RequestsTyped
  <1> QED
    BY <1>1, <1>3, <1>4, <1>5, <1>6, RowStep

(* The admin route verifies a row it found a while ago, by its id: the      *)
(* wallet may be another by now, the hash of the transaction stays with it. *)
LEMMA UpdateInstitutionStep ==
    ASSUME VInv, NEW r \in Requests, UpdateInstitution(r)
    PROVE  VInv'
  <1> DEFINE i == request[r].institution
  <1>1. /\ institutions' = [institutions EXCEPT ![i].status = "verified", ![i].tx = TRUE]
        /\ request' = [request EXCEPT ![r].phase = "done"]
        /\ UNCHANGED <<networkVars, indexerVars, authorized, compared>>
    BY DEF UpdateInstitution
  <1>2. RequestsTyped'
    BY <1>1 DEF VInv, RequestsTyped
  <1> HIDE DEF i
  <1>3. CASE i \notin Existing
    <2>1. institutions' = institutions
      BY <1>1, <1>3, Rows DEF VInv, InstitutionsTyped, Existing
    <2> QED
      BY <1>1, <1>2, <2>1, RequestStep
  <1>4. CASE i \in Existing
    <2>1. i \in Institutions /\ institutions[i] \in InstitutionRow
      BY <1>4, Rows DEF VInv, InstitutionsTyped
    <2>2. /\ Existing' = Existing \cup {i}
          /\ institutions' = [j \in Existing' |-> institutions'[j]]
          /\ \A j \in Existing \ {i} : institutions'[j] = institutions[j]
          /\ institutions'[i] = [institutions[i] EXCEPT !.status = "verified", !.tx = TRUE]
      BY <1>1, <1>4 DEF Existing
    <2>3. /\ institutions'[i] \in InstitutionRow
          /\ institutions'[i].tx
          /\ institutions'[i].wallet_address = institutions[i].wallet_address
      BY <2>1, <2>2 DEF InstitutionRow
    <2>4. \A j \in Existing \ {i} :
             institutions[j].wallet_address = institutions'[i].wallet_address
                => institutions'[i].wallet_address = Null
      BY <1>4, <2>3 DEF VInv, InstitutionsTyped, WalletsUnique
    <2>5. compared' \subseteq Existing' \X Wallets
      BY <1>1, <2>2 DEF VInv, InstitutionsTyped
    <2>6. UNCHANGED <<networkVars, indexerVars, authorized>>
      BY <1>1
    <2> QED
      BY <1>2, <2>1, <2>2, <2>3, <2>4, <2>5, <2>6, RowStep
  <1> QED
    BY <1>3, <1>4

LEMMA UpdateAuthorizationStep ==
    ASSUME VInv, NEW r \in Requests, UpdateAuthorization(r)
    PROVE  VInv'
  <1>1. CASE UpdateInstitution(r)
    BY <1>1, UpdateInstitutionStep
  <1>2. CASE \/ \E w \in Wallets : CheckTransaction(r, w)
             \/ \E i \in Institutions : FindInstitution(r, i)
             \/ FindNoInstitution(r)
             \/ AbortRequest(r)
    <2>1. UNCHANGED <<networkVars, indexerVars, authorized, institutions, compared>>
      BY <1>2 DEF CheckTransaction, FindInstitution, FindNoInstitution, AbortRequest
    <2>2. RequestsTyped'
      <3> USE DEF VInv, RequestsTyped
      <3>1. ASSUME NEW w \in Wallets, CheckTransaction(r, w) PROVE RequestsTyped'
        <4>1. request' = [request EXCEPT ![r] = [@ EXCEPT !.phase = "checked", !.wallet = w]]
          BY <3>1 DEF CheckTransaction
        <4> QED
          BY <4>1
      <3>2. ASSUME NEW i \in Institutions, FindInstitution(r, i) PROVE RequestsTyped'
        <4>1. request' = [request EXCEPT ![r] = [@ EXCEPT !.phase = "found", !.institution = i]]
          BY <3>2 DEF FindInstitution
        <4> QED
          BY <4>1
      <3>3. CASE FindNoInstitution(r) \/ AbortRequest(r)
        BY <3>3 DEF FindNoInstitution, AbortRequest
      <3> QED
        BY <1>2, <3>1, <3>2, <3>3
    <2> QED
      BY <2>1, <2>2, RequestStep
  <1> QED
    BY <1>1, <1>2 DEF UpdateAuthorization

(* An event sets the standing of the institution that has the wallet.  If   *)
(* it is a last word that revokes, nobody is verified against it; if it is  *)
(* an earlier word, the loop is not past the last one.                      *)
LEMMA IndexIssuerAuthorizationStep ==
    ASSUME VInv, IndexIssuerAuthorization
    PROVE  VInv'
  <1> DEFINE status == IF CurrentEvent.name = "issuer_authorized" THEN "verified" ELSE "suspended"
             here == sync.next
  <1>1. /\ HasEvent /\ EventDone
        /\ institutions' = [i \in Existing |->
               IF HasWallet(i, CurrentEvent.subject)
               THEN [institutions[i] EXCEPT !.status = status]
               ELSE institutions[i]]
        /\ UNCHANGED <<authorized, compared, request>>
    BY DEF IndexIssuerAuthorization
  <1>2. /\ LoopInv' /\ UNCHANGED events
        /\ here \in DOMAIN events
        /\ here \notin Past
        /\ Past' \subseteq Past \cup {here}
        /\ \A n \in Past : n < here
        /\ here \in Nat /\ DOMAIN events \subseteq Nat
    BY <1>1, LoopHandles, LoopNumbers, AheadIsNotPast DEF VInv, networkVars, HasEvent
  <1>3. /\ CurrentEvent = events[here]
        /\ events[here].name \in AuthorizationNames
        /\ status \in {"verified", "suspended"}
        /\ status = "verified" <=> events[here].name = "issuer_authorized"
    BY <1>2, AuthorizationEvents DEF CurrentEvent
  <1>4. /\ Existing \subseteq Institutions
        /\ \A i \in Existing : institutions[i] \in InstitutionRow
    BY Rows DEF VInv, InstitutionsTyped
  <1> HIDE DEF status, here
  <1>5. /\ Existing' = Existing
        /\ institutions' = [i \in Existing' |-> institutions'[i]]
    BY <1>1 DEF Existing
  <1>6. ASSUME NEW i \in Existing
        PROVE  /\ institutions'[i] \in InstitutionRow
               /\ institutions'[i].wallet_address = institutions[i].wallet_address
               /\ institutions'[i].tx = institutions[i].tx
               /\ institutions[i].wallet_address = events[here].subject
                     => institutions'[i].status = status
               /\ institutions[i].wallet_address # events[here].subject
                     => institutions'[i].status = institutions[i].status
    <2>1. institutions'[i] = IF institutions[i].wallet_address = events[here].subject
                             THEN [institutions[i] EXCEPT !.status = status]
                             ELSE institutions[i]
      BY <1>1, <1>3, <1>6 DEF HasWallet
    <2> QED
      BY <1>3, <1>4, <1>6, <2>1 DEF InstitutionRow
  <1>7. InstitutionsTyped'
    <2>1. WalletsUnique'
      BY <1>5, <1>6 DEF VInv, InstitutionsTyped, WalletsUnique
    <2>2. institutions' \in UNION {[S -> InstitutionRow] : S \in SUBSET Institutions}
      BY <1>4, <1>5, <1>6, Rows
    <2>3. compared' \subseteq Existing' \X Wallets
      BY <1>1, <1>5 DEF VInv, InstitutionsTyped
    <2> QED
      BY <2>1, <2>2, <2>3 DEF InstitutionsTyped, InstitutionRow
  <1>8. VerifiedHasEvidence'
    <2> SUFFICES ASSUME NEW i \in Existing, institutions'[i].status = "verified"
                 PROVE  AuthorizationEmitted(institutions[i].wallet_address) \/ institutions[i].tx
      BY <1>2, <1>5, <1>6 DEF VerifiedHasEvidence, Verified, AuthorizationEmitted
    <2>1. CASE institutions[i].wallet_address = events[here].subject
      BY <1>2, <1>3, <1>6, <2>1 DEF AuthorizationEmitted
    <2>2. CASE institutions[i].wallet_address # events[here].subject
      BY <1>6, <2>2 DEF VInv, VerifiedHasEvidence, Verified
    <2> QED
      BY <2>1, <2>2
  <1>9. Standing'
    <2> SUFFICES ASSUME NEW i \in Existing, NEW n \in Past',
                        institutions'[i].status = "verified",
                        institutions[i].wallet_address = events[n].subject,
                        events[n].name = "issuer_revoked", IsLast(n)
                 PROVE  institutions[i].tx
      BY <1>2, <1>5, <1>6 DEF Standing, Verified, HasWallet, IsLast
    <2>1. CASE n = here
      BY <1>3, <1>6, <2>1
    <2>2. CASE n # here
      <3>1. n \in Past /\ n < here
        BY <1>2, <2>2
      <3>2. n \in DOMAIN events
        BY <3>1 DEF Past
      <3>3. events[here].subject # events[n].subject
        <4> SUFFICES ASSUME events[here].subject = events[n].subject PROVE FALSE
          OBVIOUS
        <4>1. here <= n
          BY <1>2 DEF IsLast
        <4> QED
          BY <1>2, <3>1, <3>2, <4>1
      <3>4. institutions[i].status = "verified"
        BY <1>6, <3>3
      <3> QED
        BY <3>1, <3>4 DEF VInv, Standing, Verified, HasWallet
    <2> QED
      BY <2>1, <2>2
  <1>10. /\ events' \in Seq(Authorization)' /\ authorized' \subseteq Wallets /\ RequestsTyped'
    BY <1>1, <1>2 DEF VInv, RequestsTyped, Authorization, AuthorizationNames
  <1> QED
    BY <1>2, <1>7, <1>8, <1>9, <1>10 DEF VInv

(* The loop goes on or stops: it is past no more events than before.        *)
LEMMA LoopOnlyStep ==
    ASSUME VInv, LoopInv', Past' \subseteq Past, UNCHANGED networkVars,
           UNCHANGED <<authorized, institutions, compared, request>>
    PROVE  VInv'
  <1>1. events' = events
    BY DEF networkVars
  <1>2. Standing'
    BY <1>1 DEF VInv, Standing, Existing, Verified, HasWallet, IsLast
  <1>3. VerifiedHasEvidence'
    BY <1>1 DEF VInv, VerifiedHasEvidence, Existing, Verified, AuthorizationEmitted
  <1>4. InstitutionsTyped' /\ RequestsTyped'
    BY DEF VInv, InstitutionsTyped, RequestsTyped, WalletsUnique, Existing
  <1> QED
    BY <1>1, <1>2, <1>3, <1>4 DEF VInv, Authorization, AuthorizationNames

LEMMA VInvStep == VInv /\ [VerificationNext]_verificationVars => VInv'
  <1> SUFFICES ASSUME VInv, [VerificationNext]_verificationVars PROVE VInv'
    OBVIOUS
  <1>1. CASE AuthorizationIndexer
    <2>1. CASE IndexIssuerAuthorization
      BY <2>1, IndexIssuerAuthorizationStep
    <2>2. CASE LoopStep /\ UNCHANGED <<authorized, institutions, compared, request>>
      <3>1. LoopInv' /\ Past' \subseteq Past /\ UNCHANGED networkVars
        BY <2>2, LoopGoesOn DEF VInv
      <3> QED
        BY <2>2, <3>1, LoopOnlyStep
    <2> QED
      BY <1>1, <2>1, <2>2 DEF AuthorizationIndexer
  <1>2. CASE Interrupt /\ UNCHANGED <<authorized, institutions, compared, request>>
    <2>1. errors' \in 0..MaxErrors
      BY <1>2 DEF Interrupt, VInv, LoopInv, IndexerTypeOK
    <2>2. LoopInv' /\ Past' \subseteq Past /\ UNCHANGED networkVars
      BY <1>2, <2>1, LoopStops DEF Interrupt, VInv
    <2> QED
      BY <1>2, <2>2, LoopOnlyStep
  <1>3. CASE \E w \in Wallets : AuthorizeIssuer(w) \/ RevokeIssuer(w)
    BY <1>3, IssuerStep
  <1>4. CASE \E i \in Institutions, w \in Wallets : Provision(i, w) \/ LinkWallet(i, w)
    BY <1>4, ProvisionStep, LinkWalletStep
  <1>5. CASE \E r \in Requests : UpdateAuthorization(r)
    BY <1>5, UpdateAuthorizationStep
  <1>6. CASE UNCHANGED verificationVars
    BY <1>6, RequestStep DEF verificationVars, VInv, RequestsTyped
  <1> QED
    BY <1>1, <1>2, <1>3, <1>4, <1>5, <1>6 DEF VerificationNext

LEMMA VInvAlways == VerificationSpec => []VInv
  BY VerificationInitially, VInvStep, PTL DEF VerificationSpec

(* Rows, requests and the cursor keep their types, and no two institutions  *)
(* ever have the same wallet.                                               *)
THEOREM VerificationTypeCorrect == VerificationSpec => []VerificationTypeOK
  BY VInvAlways, VInvTypes, PTL

(* An institution is verified on an event of the contract or on a           *)
(* transaction an administrator has named.                                  *)
THEOREM VerifiedOnEvidence == VerificationSpec => []VerifiedHasEvidence
  <1>1. VInv => VerifiedHasEvidence
    BY DEF VInv
  <1> QED
    BY <1>1, VInvAlways, PTL

(* A revocation the indexer is past stands against everything but the admin *)
(* route, however the wallet was linked and the events were replayed.       *)
THEOREM RevocationsStand == VerificationSpec => []RevocationStands
  <1>1. ASSUME VInv PROVE RevocationStands
    <2> SUFFICES ASSUME NEW i \in Existing, Verified(i),
                        RevokedAndCovered(institutions[i].wallet_address)
                 PROVE  institutions[i].tx
      BY DEF RevocationStands
    <2>1. PICK n \in DOMAIN events :
             /\ events[n].name = "issuer_revoked"
             /\ events[n].subject = institutions[i].wallet_address
             /\ Covered(events[n])
             /\ \A m \in DOMAIN events :
                   events[m].subject = institutions[i].wallet_address => m <= n
      BY DEF RevokedAndCovered
    <2>2. n \in Past /\ IsLast(n) /\ HasWallet(i, events[n].subject)
      BY <2>1 DEF Past, IsLast, HasWallet
    <2> QED
      BY <1>1, <2>1, <2>2 DEF VInv, Standing
  <1> QED
    BY <1>1, VInvAlways, PTL

-----------------------------------------------------------------------------
(* The cursor.  Both specifications move it in the same ways.               *)

(* The cursor is not behind where it started, and the iteration under way   *)
(* will store a later one: it has read at least one ledger.                 *)
CursorOrder ==
    /\ firstLedger <= lastLedger
    /\ lastLedger # NoCursor => firstLedger # NoCursor
    /\ sync # Idle => lastLedger # NoCursor /\ lastLedger < sync.highest

(* What a step does to the loop: one of its own, an event handled, one that *)
(* ends the iteration early, or nothing.                                    *)
CursorMoves ==
    \/ LoopStep
    \/ HasEvent /\ EventDone
    \/ HasEvent /\ EventThrown
    \/ Interrupt
    \/ UNCHANGED indexerVars

(* What CursorAdvances says of a step.                                      *)
Forward ==
    /\ lastLedger' >= lastLedger
    /\ sync # Idle /\ sync' = Idle /\ sync.phase = "cursor" /\ UNCHANGED errors
          => lastLedger' > lastLedger

LEMMA CursorStep ==
    ASSUME IndexerTypeOK, CursorOrder, CursorMoves,
           DOMAIN events = 1..Len(events), Len(events) \in Nat,
           sync # Idle => sync.page <= Len(events)
    PROVE  CursorOrder' /\ Forward
  <1>1. /\ latest \in Nat /\ lastLedger \in Int /\ firstLedger \in Int /\ lastLedger >= NoCursor
        /\ errors \in Nat
        /\ \A n \in DOMAIN events : events[n].ledger \in Nat
    BY DEF IndexerTypeOK, NoCursor
  <1>2. sync # Idle => /\ sync.highest \in Nat /\ sync.page \in Nat
                       /\ sync.next \in Nat /\ sync.next >= 1
    <2>1. sync # Idle => sync \in Iteration
      BY DEF IndexerTypeOK
    <2> QED
      BY <2>1 DEF Iteration
  <1>3. CASE FirstStart
    <2>1. /\ sync = Idle /\ sync' = Idle /\ lastLedger = NoCursor
          /\ lastLedger' = latest /\ firstLedger' = latest
      BY <1>3 DEF FirstStart
    <2> QED
      BY <1>1, <2>1 DEF CursorOrder, Forward, NoCursor, Idle
  <1>4. CASE BeginSync
    <2>1. PICK highest : highest = Smaller(lastLedger + 1 + MAX_LEDGER_RANGE, latest)
      OBVIOUS
    <2>2. /\ lastLedger # NoCursor /\ lastLedger < latest
          /\ lastLedger' = lastLedger /\ firstLedger' = firstLedger
          /\ sync = Idle /\ sync'.highest = highest
      BY <1>4, <2>1 DEF BeginSync
    <2>3. lastLedger < highest
      BY <1>1, <2>1, <2>2 DEF Smaller
    <2> QED
      BY <1>1, <2>2, <2>3 DEF CursorOrder, Forward, NoCursor, Idle
  <1>5. CASE FetchPage
    <2>1. /\ sync # Idle /\ sync.phase = "page"
          /\ lastLedger' = lastLedger /\ firstLedger' = firstLedger
      BY <1>5 DEF FetchPage, Idle
    <2>2. sync'.highest = sync.highest
      <3>1. sync \in Iteration
        BY <2>1 DEF IndexerTypeOK
      <3> QED
        BY <1>5, <3>1 DEF FetchPage, Iteration
    <2> QED
      BY <1>1, <2>1, <2>2 DEF CursorOrder, Forward, NoCursor, Idle
  <1>6. CASE AdvanceCursor
    <2>1. /\ sync # Idle /\ sync' = Idle
          /\ lastLedger' = sync.highest /\ firstLedger' = firstLedger
      BY <1>6 DEF AdvanceCursor, Idle
    <2> QED
      BY <1>1, <1>2, <2>1 DEF CursorOrder, Forward, NoCursor, Idle
  <1>7. CASE HasEvent /\ EventDone
    <2>1. /\ sync # Idle /\ sync.phase = "page" /\ sync.next <= sync.page
          /\ lastLedger' = lastLedger /\ firstLedger' = firstLedger
      BY <1>7 DEF HasEvent, EventDone, Idle
    <2>2. sync.next \in DOMAIN events
      BY <1>2, <2>1
    <2>3. sync'.highest = Larger(sync.highest, events[sync.next].ledger)
      <3>1. sync \in Iteration
        BY <2>1 DEF IndexerTypeOK
      <3> QED
        BY <1>7, <3>1 DEF EventDone, CurrentEvent, Iteration
    <2>4. lastLedger < sync'.highest
      BY <1>1, <1>2, <2>1, <2>2, <2>3 DEF Larger, CursorOrder
    <2> QED
      BY <1>1, <1>7, <2>1, <2>4 DEF CursorOrder, Forward, NoCursor
  <1>8. CASE HasEvent /\ EventThrown
    <2>1. /\ sync.phase = "page" /\ sync' = Idle
          /\ lastLedger' = lastLedger /\ firstLedger' = firstLedger
      BY <1>8 DEF HasEvent, EventThrown
    <2> QED
      BY <1>1, <2>1 DEF CursorOrder, Forward, NoCursor, Idle
  <1>9. CASE Interrupt
    <2>1. /\ errors' # errors /\ sync' = Idle
          /\ lastLedger' = lastLedger /\ firstLedger' = firstLedger
      BY <1>1, <1>9 DEF Interrupt
    <2> QED
      BY <1>1, <2>1 DEF CursorOrder, Forward, NoCursor, Idle
  <1>10. CASE UNCHANGED indexerVars
    <2>1. /\ sync' = sync /\ lastLedger' = lastLedger /\ firstLedger' = firstLedger
      BY <1>10 DEF indexerVars
    <2> QED
      BY <1>1, <2>1 DEF CursorOrder, Forward, NoCursor, Idle
  <1> QED
    BY <1>3, <1>4, <1>5, <1>6, <1>7, <1>8, <1>9, <1>10 DEF CursorMoves, LoopStep

LEMMA CursorInitially == IndexerInit => CursorOrder
  BY DEF IndexerInit, CursorOrder, NoCursor

LEMMA IndexCursorStep ==
    ASSUME IInv, CursorOrder, [Next]_vars
    PROVE  CursorOrder' /\ Forward
  <1>1. IndexerTypeOK
    BY DEF IInv, TypeOK
  <1>2. /\ DOMAIN events = 1..Len(events) /\ Len(events) \in Nat
        /\ sync # Idle => sync.page <= Len(events)
    BY DEF IInv, EventsTyped, CursorInv
  <1>3. CursorMoves
    <2>1. Indexer => CursorMoves
      BY DEF Indexer, IndexIssuedCredential, IndexRevocation, CursorMoves
    <2>2. Interrupt => CursorMoves
      BY DEF CursorMoves
    <2>3. \A s \in Sessions : Issuance(s) => UNCHANGED indexerVars
      BY DEF Issuance, Submit, GiveUp, Land, Reject, SaveRows, LoseRows
    <2>4. \A t \in Tokens : Revocation(t) \/ OwnerRevokes(t) => UNCHANGED indexerVars
      BY DEF Revocation, BeginRevocation, GiveUpRevocation, LandRevocation, RejectRevocation,
             SaveRevocation, LoseRevocation, OwnerRevokes
    <2>5. CloseLedger \/ ChangeWallet \/ UNCHANGED vars => UNCHANGED indexerVars
      BY DEF CloseLedger, ChangeWallet, vars
    <2> QED
      BY <2>1, <2>2, <2>3, <2>4, <2>5 DEF Next, CursorMoves
  <1> QED
    BY <1>1, <1>2, <1>3, CursorStep

LEMMA VerificationCursorStep ==
    ASSUME VInv, CursorOrder, [VerificationNext]_verificationVars
    PROVE  CursorOrder' /\ Forward
  <1>1. /\ IndexerTypeOK
        /\ DOMAIN events = 1..Len(events) /\ Len(events) \in Nat
        /\ sync # Idle => sync.page <= Len(events)
    BY DEF VInv, LoopInv
  <1>2. CursorMoves
    <2>1. AuthorizationIndexer => CursorMoves
      BY DEF AuthorizationIndexer, IndexIssuerAuthorization, CursorMoves
    <2>2. Interrupt => CursorMoves
      BY DEF CursorMoves
    <2>3. \A w \in Wallets : AuthorizeIssuer(w) \/ RevokeIssuer(w) => UNCHANGED indexerVars
      BY DEF AuthorizeIssuer, RevokeIssuer
    <2>4. \A i \in Institutions, w \in Wallets :
             Provision(i, w) \/ LinkWallet(i, w) => UNCHANGED indexerVars
      BY DEF Provision, LinkWallet
    <2>5. \A r \in Requests : UpdateAuthorization(r) => UNCHANGED indexerVars
      BY DEF UpdateAuthorization, CheckTransaction, FindInstitution, FindNoInstitution,
             UpdateInstitution, AbortRequest
    <2>6. UNCHANGED verificationVars => UNCHANGED indexerVars
      BY DEF verificationVars
    <2> QED
      BY <2>1, <2>2, <2>3, <2>4, <2>5, <2>6 DEF VerificationNext, CursorMoves
  <1> QED
    BY <1>1, <1>2, CursorStep

(* However the pages and ranges fall, the credential index's loop gets      *)
(* somewhere with every iteration that nothing interrupts: the cursor       *)
(* stored is later than the one read, and no step takes it back.            *)
THEOREM IndexCursorAdvances == Spec => CursorAdvances
  <1>1. Init => CursorOrder
    BY CursorInitially DEF Init
  <1>2. IInv /\ CursorOrder /\ [Next]_vars => CursorOrder' /\ Forward
    BY IndexCursorStep
  <1>3. Spec => []CursorOrder
    BY <1>1, <1>2, IndexInvariant, PTL DEF Spec
  <1> QED
    BY <1>2, <1>3, IndexInvariant, PTL DEF Spec, CursorAdvances, Forward

(* The same of the loop as it keeps the table of institutions.              *)
THEOREM VerificationCursorAdvances == VerificationSpec => CursorAdvances
  <1>1. VerificationInit => CursorOrder
    BY CursorInitially DEF VerificationInit
  <1>2. VInv /\ CursorOrder /\ [VerificationNext]_verificationVars => CursorOrder' /\ Forward
    BY VerificationCursorStep
  <1>3. VerificationSpec => []CursorOrder
    BY <1>1, <1>2, VInvAlways, PTL DEF VerificationSpec
  <1> QED
    BY <1>2, <1>3, VInvAlways, PTL DEF VerificationSpec, CursorAdvances, Forward

-----------------------------------------------------------------------------
(* The standing of an institution and the contract.                         *)

(* Ledgers follow one another, as the events of the wallets do.             *)
InOrder ==
    \A a, b \in DOMAIN events : a <= b => events[a].ledger <= events[b].ledger

(* The last word on a wallet is what the contract has on it.                *)
LastWord ==
    \A w \in Wallets : AuthorizationEmitted(w) =>
        \E n \in DOMAIN events :
            /\ events[n].subject = w
            /\ IsLast(n)
            /\ events[n].name = "issuer_authorized" <=> w \in authorized

(* The event that verified the wallet, or the newest one of it that did, is *)
(* one the indexer had to read.                                             *)
ReadAuthorization(w) ==
    \E n \in DOMAIN events :
        /\ events[n].name = "issuer_authorized"
        /\ events[n].subject = w
        /\ firstLedger < events[n].ledger

VerifiedByReading ==
    \A i \in Existing : Verified(i) /\ ~institutions[i].tx =>
        firstLedger # NoCursor /\ ReadAuthorization(institutions[i].wallet_address)

(* The strengthening of VInv that StandingFollowsContract needs.            *)
StandingInv ==
    /\ VInv
    /\ CursorOrder
    /\ InOrder
    /\ LastWord
    /\ VerifiedByReading

(* What the indexer has not unlearned it was right to learn: the last word  *)
(* on the wallet is later than the one that verified it, and if it revokes, *)
(* the loop is not past it.                                                 *)
LEMMA StandingFollows == StandingInv => StandingFollowsContract
  <1> SUFFICES ASSUME StandingInv, NEW i \in Existing, Verified(i), ~institutions[i].tx,
                      institutions[i].wallet_address \notin authorized
               PROVE  \E n \in DOMAIN events :
                         /\ events[n].name = "issuer_revoked"
                         /\ events[n].subject = institutions[i].wallet_address
                         /\ events[n].ledger > lastLedger
    BY DEF StandingFollowsContract
  <1>1. PICK w : w = institutions[i].wallet_address
    OBVIOUS
  <1>2. VInv /\ LastWord /\ InOrder /\ VerifiedByReading
    BY DEF StandingInv
  <1>3. PICK a \in DOMAIN events : /\ events[a].name = "issuer_authorized"
                                   /\ events[a].subject = w
                                   /\ firstLedger < events[a].ledger
    BY <1>1, <1>2 DEF VerifiedByReading, ReadAuthorization
  <1>4. w \in Wallets /\ AuthorizationEmitted(w)
    BY <1>2, <1>3, AuthorizationEvents DEF AuthorizationEmitted
  <1>5. PICK n \in DOMAIN events : /\ events[n].subject = w
                                   /\ IsLast(n)
                                   /\ events[n].name = "issuer_authorized" <=> w \in authorized
    BY <1>2, <1>4 DEF LastWord
  <1>6. events[n].name = "issuer_revoked"
    BY <1>1, <1>2, <1>5, AuthorizationEvents DEF AuthorizationNames
  <1>7. n \notin Past
    BY <1>1, <1>2, <1>5, <1>6 DEF VInv, Standing, HasWallet
  <1>8. firstLedger < events[n].ledger
    <2>1. a <= n
      BY <1>3, <1>5 DEF IsLast
    <2>2. events[a].ledger <= events[n].ledger
      BY <1>2, <1>3, <1>5, <2>1 DEF InOrder
    <2> QED
      BY <1>2, <1>3, <1>5, <2>2, LoopNumbers DEF VInv
  <1>9. events[n].ledger > lastLedger
    BY <1>2, <1>5, <1>7, <1>8, LoopNumbers DEF VInv, Past, Covered
  <1> QED
    BY <1>1, <1>5, <1>6, <1>9

LEMMA StandingInitially == VerificationInit => StandingInv
  <1> SUFFICES ASSUME VerificationInit PROVE StandingInv
    OBVIOUS
  <1>1. VInv /\ CursorOrder /\ events = <<>>
    BY VerificationInitially, CursorInitially, LoopInitially DEF VerificationInit
  <1>2. InOrder /\ LastWord
    BY <1>1 DEF InOrder, LastWord, AuthorizationEmitted
  <1>3. \A i \in Existing : ~Verified(i)
    <2>1. PICK S \in SUBSET Institutions : institutions \in [S -> SelfSignups]
      BY DEF VerificationInit
    <2>2. \A i \in S : institutions[i].status # "verified"
      BY <2>1 DEF SelfSignups
    <2> QED
      BY <2>1, <2>2 DEF Existing, Verified
  <1> QED
    BY <1>1, <1>2, <1>3 DEF StandingInv, VerifiedByReading

(* One event more: it is the last of its wallet, and in the newest ledger.  *)
LEMMA TransactionStanding ==
    ASSUME StandingInv, NEW name \in AuthorizationNames, NEW w \in Wallets,
           Emit(<<[name |-> name, subject |-> w]>>),
           name = "issuer_authorized" <=> w \in authorized',
           \A v \in Wallets \ {w} : v \in authorized' <=> v \in authorized,
           UNCHANGED <<indexerVars, institutions>>
    PROVE  InOrder' /\ LastWord' /\ VerifiedByReading'
  <1>1. VInv /\ InOrder /\ LastWord /\ VerifiedByReading
    BY DEF StandingInv
  <1>2. PICK last : last = Len(events) + 1
    OBVIOUS
  <1>3. PICK e : e = [name |-> name, subject |-> w, ledger |-> latest + 1]
    OBVIOUS
  <1>4. /\ DOMAIN events' = 1..last
        /\ \A n \in DOMAIN events : events'[n] = events[n]
        /\ events'[last] = e
        /\ e.name = name /\ e.subject = w /\ e.ledger = latest + 1
    <2>1. events'[last] = e /\ DOMAIN events' = 1..last
                            /\ \A n \in DOMAIN events : events'[n] = events[n]
      BY <1>1, <1>2, <1>3, OneEvent
    <2> QED
      BY <1>3, <2>1
  <1>5. /\ latest \in Nat /\ Len(events) \in Nat /\ DOMAIN events = 1..Len(events)
        /\ \A n \in DOMAIN events : events[n].ledger \in Nat /\ events[n].ledger <= latest
    BY <1>1, LoopNumbers DEF VInv
  <1>6. /\ \A n \in DOMAIN events' : n \in DOMAIN events \/ n = last
        /\ \A n \in DOMAIN events : n \in DOMAIN events' /\ n < last
        /\ last \in DOMAIN events' /\ last \in Nat
    BY <1>2, <1>4, <1>5
  <1> HIDE DEF IndexerConstantsOK, IssuanceConstantsOK
  <1>7. InOrder'
    <2> SUFFICES ASSUME NEW a \in DOMAIN events', NEW b \in DOMAIN events', a <= b
                 PROVE  events'[a].ledger <= events'[b].ledger
      BY DEF InOrder
    <2>1. CASE a \in DOMAIN events /\ b \in DOMAIN events
      BY <1>1, <1>4, <2>1 DEF InOrder
    <2>2. CASE a \in DOMAIN events /\ b = last
      BY <1>4, <1>5, <2>2
    <2>3. CASE a = last
      <3>1. b = last
        BY <1>4, <1>5, <1>6, <2>3
      <3> QED
        BY <1>4, <1>5, <2>3, <3>1
    <2> QED
      BY <1>6, <2>1, <2>2, <2>3
  <1>8. LastWord'
    <2> SUFFICES ASSUME NEW v \in Wallets, AuthorizationEmitted(v)'
                 PROVE  \E n \in DOMAIN events' :
                           /\ events'[n].subject = v
                           /\ \A m \in DOMAIN events' :
                                 events'[m].subject = events'[n].subject => m <= n
                           /\ events'[n].name = "issuer_authorized" <=> v \in authorized'
      BY DEF LastWord, IsLast
    <2>1. CASE v = w
      <3>1. \A m \in DOMAIN events' : m <= last
        BY <1>4, <1>6
      <3> QED
        BY <1>4, <1>6, <2>1, <3>1
    <2>2. CASE v # w
      <3>1. AuthorizationEmitted(v)
        BY <1>4, <1>6, <2>2 DEF AuthorizationEmitted
      <3>2. PICK n \in DOMAIN events :
               /\ events[n].subject = v
               /\ IsLast(n)
               /\ events[n].name = "issuer_authorized" <=> v \in authorized
        BY <1>1, <3>1 DEF LastWord
      <3>3. \A m \in DOMAIN events' : events'[m].subject = v => m <= n
        BY <1>4, <1>6, <2>2, <3>2 DEF IsLast
      <3> QED
        BY <1>4, <1>6, <2>2, <3>2, <3>3
    <2> QED
      BY <2>1, <2>2
  <1>9. VerifiedByReading'
    <2>1. firstLedger' = firstLedger /\ institutions' = institutions
      BY DEF indexerVars
    <2> SUFFICES ASSUME NEW i \in Existing, institutions[i].status = "verified",
                        ~institutions[i].tx
                 PROVE  /\ firstLedger # NoCursor
                        /\ \E n \in DOMAIN events' :
                              /\ events'[n].name = "issuer_authorized"
                              /\ events'[n].subject = institutions[i].wallet_address
                              /\ firstLedger < events'[n].ledger
      BY <2>1 DEF VerifiedByReading, ReadAuthorization, Existing, Verified, NoCursor
    <2>2. /\ firstLedger # NoCursor
          /\ ReadAuthorization(institutions[i].wallet_address)
      BY <1>1 DEF VerifiedByReading, Verified
    <2> QED
      BY <1>4, <1>6, <2>2 DEF ReadAuthorization
  <1> QED
    BY <1>7, <1>8, <1>9

LEMMA IssuerStanding ==
    ASSUME StandingInv, NEW w \in Wallets, AuthorizeIssuer(w) \/ RevokeIssuer(w)
    PROVE  InOrder' /\ LastWord' /\ VerifiedByReading'
  <1>1. CASE AuthorizeIssuer(w)
    <2>1. PICK name \in AuthorizationNames : name = "issuer_authorized"
      BY DEF AuthorizationNames
    <2>2. /\ Emit(<<[name |-> name, subject |-> w]>>)
          /\ name = "issuer_authorized" <=> w \in authorized'
          /\ \A v \in Wallets \ {w} : v \in authorized' <=> v \in authorized
          /\ UNCHANGED <<indexerVars, institutions>>
      BY <1>1, <2>1 DEF AuthorizeIssuer
    <2> QED
      BY <2>2, TransactionStanding
  <1>2. CASE RevokeIssuer(w)
    <2>1. PICK name \in AuthorizationNames : name = "issuer_revoked"
      BY DEF AuthorizationNames
    <2>2. /\ Emit(<<[name |-> name, subject |-> w]>>)
          /\ name = "issuer_authorized" <=> w \in authorized'
          /\ \A v \in Wallets \ {w} : v \in authorized' <=> v \in authorized
          /\ UNCHANGED <<indexerVars, institutions>>
      BY <1>2, <2>1 DEF RevokeIssuer
    <2> QED
      BY <2>2, TransactionStanding
  <1> QED
    BY <1>1, <1>2

(* No event, and nobody verified who was not, other than by an event the    *)
(* loop reads or by the admin route.                                        *)
LEMMA StandingFrame ==
    ASSUME StandingInv, UNCHANGED <<events, authorized>>,
           firstLedger' = firstLedger \/ firstLedger = NoCursor,
           \A i \in Existing' : Verified(i)' /\ ~institutions'[i].tx =>
              \/ /\ i \in Existing /\ Verified(i) /\ ~institutions[i].tx
                 /\ institutions'[i].wallet_address = institutions[i].wallet_address
              \/ /\ firstLedger # NoCursor
                 /\ ReadAuthorization(institutions'[i].wallet_address)
    PROVE  InOrder' /\ LastWord' /\ VerifiedByReading'
  <1>1. InOrder /\ LastWord /\ VerifiedByReading
    BY DEF StandingInv
  <1>2. InOrder' /\ LastWord'
    BY <1>1 DEF InOrder, LastWord, AuthorizationEmitted, IsLast
  <1>3. VerifiedByReading'
    <2> SUFFICES ASSUME NEW i \in Existing', Verified(i)', ~institutions'[i].tx
                 PROVE  /\ firstLedger' # NoCursor
                        /\ \E n \in DOMAIN events' :
                              /\ events'[n].name = "issuer_authorized"
                              /\ events'[n].subject = institutions'[i].wallet_address
                              /\ firstLedger' < events'[n].ledger
      BY DEF VerifiedByReading, ReadAuthorization, NoCursor
    <2>1. /\ firstLedger # NoCursor
          /\ ReadAuthorization(institutions'[i].wallet_address)
      BY <1>1 DEF VerifiedByReading
    <2> QED
      BY <2>1 DEF ReadAuthorization
  <1> QED
    BY <1>2, <1>3

(* A route gives one institution a row it is not verified by, or that an    *)
(* administrator has marked.                                                *)
LEMMA RowStanding ==
    ASSUME StandingInv, UNCHANGED <<networkVars, indexerVars, authorized>>, NEW i,
           \A j \in Existing' \ {i} : j \in Existing /\ institutions'[j] = institutions[j],
           i \in Existing' /\ Verified(i)' => institutions'[i].tx
    PROVE  InOrder' /\ LastWord' /\ VerifiedByReading'
  <1>1. UNCHANGED <<events, authorized>> /\ firstLedger' = firstLedger
    BY DEF networkVars, indexerVars
  <1>2. ASSUME NEW j \in Existing', Verified(j)', ~institutions'[j].tx
        PROVE  /\ j \in Existing /\ Verified(j) /\ ~institutions[j].tx
               /\ institutions'[j].wallet_address = institutions[j].wallet_address
    BY <1>2 DEF Verified
  <1> QED
    BY <1>1, <1>2, StandingFrame

LEMMA RouteStanding ==
    ASSUME StandingInv,
           \/ \E i \in Institutions, w \in Wallets : Provision(i, w) \/ LinkWallet(i, w)
           \/ \E r \in Requests : UpdateAuthorization(r)
    PROVE  InOrder' /\ LastWord' /\ VerifiedByReading'
  <1>1. ASSUME NEW i \in Institutions, NEW w \in Wallets, Provision(i, w)
        PROVE  InOrder' /\ LastWord' /\ VerifiedByReading'
    <2>1. /\ institutions' = [j \in Existing \cup {i} |->
                                IF j = i THEN Pending(w) ELSE institutions[j]]
          /\ UNCHANGED <<networkVars, indexerVars, authorized>>
      BY <1>1 DEF Provision
    <2>2. /\ Existing' = Existing \cup {i}
          /\ \A j \in Existing' \ {i} : j \in Existing /\ institutions'[j] = institutions[j]
          /\ institutions'[i] = Pending(w)
      BY <2>1 DEF Existing
    <2>3. ~Verified(i)'
      BY <2>2, PendingRow DEF Verified
    <2> QED
      BY <2>1, <2>2, <2>3, RowStanding
  <1>2. ASSUME NEW i \in Institutions, NEW w \in Wallets, LinkWallet(i, w)
        PROVE  InOrder' /\ LastWord' /\ VerifiedByReading'
    <2>1. /\ institutions' = [institutions EXCEPT ![i] = Pending(w)]
          /\ UNCHANGED <<networkVars, indexerVars, authorized>>
      BY <1>2 DEF LinkWallet
    <2>2. /\ Existing' = Existing
          /\ \A j \in Existing' \ {i} : j \in Existing /\ institutions'[j] = institutions[j]
          /\ i \in Existing' => institutions'[i] = Pending(w)
      BY <2>1 DEF Existing
    <2>3. i \in Existing' => ~Verified(i)'
      BY <2>2, PendingRow DEF Verified
    <2> QED
      BY <2>1, <2>2, <2>3, RowStanding
  <1>3. ASSUME NEW r \in Requests, UpdateInstitution(r)
        PROVE  InOrder' /\ LastWord' /\ VerifiedByReading'
    <2>1. PICK i : i = request[r].institution
      OBVIOUS
    <2>2. /\ institutions' = [institutions EXCEPT ![i].status = "verified", ![i].tx = TRUE]
          /\ UNCHANGED <<networkVars, indexerVars, authorized>>
      BY <1>3, <2>1 DEF UpdateInstitution
    <2>3. /\ Existing' = Existing
          /\ \A j \in Existing' \ {i} : j \in Existing /\ institutions'[j] = institutions[j]
      BY <2>2 DEF Existing
    <2>4. i \in Existing' => institutions'[i].tx
      <3> SUFFICES ASSUME i \in Existing PROVE institutions'[i].tx
        BY <2>3
      <3>1. institutions[i] \in InstitutionRow
        BY Rows DEF StandingInv, VInv, InstitutionsTyped
      <3>2. institutions'[i] = [institutions[i] EXCEPT !.status = "verified", !.tx = TRUE]
        BY <2>2 DEF Existing
      <3> QED
        BY <3>1, <3>2 DEF InstitutionRow
    <2> QED
      BY <2>2, <2>3, <2>4, RowStanding
  <1>4. ASSUME NEW r \in Requests, UpdateAuthorization(r), ~UpdateInstitution(r)
        PROVE  InOrder' /\ LastWord' /\ VerifiedByReading'
    <2>1. UNCHANGED <<networkVars, indexerVars, authorized, institutions>>
      BY <1>4 DEF UpdateAuthorization, CheckTransaction, FindInstitution, FindNoInstitution,
                  AbortRequest
    <2>2. UNCHANGED <<events, authorized>> /\ firstLedger' = firstLedger
      BY <2>1 DEF networkVars, indexerVars
    <2> QED
      BY <2>1, <2>2, StandingFrame DEF Existing, Verified
  <1> QED
    BY <1>1, <1>2, <1>3, <1>4

(* The event is later than the cursor, and so than where the cursor began.  *)
LEMMA IndexStanding ==
    ASSUME StandingInv, IndexIssuerAuthorization
    PROVE  InOrder' /\ LastWord' /\ VerifiedByReading'
  <1>1. VInv /\ CursorOrder
    BY DEF StandingInv
  <1>2. PICK e : e = CurrentEvent
    OBVIOUS
  <1>3. /\ HasEvent /\ EventDone
        /\ institutions' = [i \in Existing |->
               IF HasWallet(i, e.subject)
               THEN [institutions[i] EXCEPT !.status =
                       IF e.name = "issuer_authorized" THEN "verified" ELSE "suspended"]
               ELSE institutions[i]]
        /\ authorized' = authorized
    BY <1>2 DEF IndexIssuerAuthorization
  <1>4. /\ UNCHANGED networkVars
        /\ sync.next \in DOMAIN events
        /\ firstLedger' = firstLedger
    BY <1>1, <1>3, LoopHandles DEF VInv, EventDone
  <1>5. /\ firstLedger # NoCursor
        /\ firstLedger < e.ledger
    <2>1. sync # Idle /\ sync.next \in Nat
      BY <1>1, <1>3, LoopNumbers DEF VInv, HasEvent
    <2>2. lastLedger # NoCursor /\ firstLedger # NoCursor /\ firstLedger <= lastLedger
      BY <1>1, <2>1 DEF CursorOrder
    <2>3. events[sync.next].ledger > lastLedger
      BY <1>1, <1>4, <2>1 DEF VInv, LoopInv
    <2> QED
      BY <1>1, <1>2, <1>4, <2>2, <2>3, LoopNumbers DEF VInv, CurrentEvent
  <1>6. e.name = "issuer_authorized" => ReadAuthorization(e.subject)
    BY <1>2, <1>4, <1>5 DEF ReadAuthorization, CurrentEvent
  <1>7. ASSUME NEW i \in Existing', Verified(i)', ~institutions'[i].tx
        PROVE  \/ /\ i \in Existing /\ Verified(i) /\ ~institutions[i].tx
                  /\ institutions'[i].wallet_address = institutions[i].wallet_address
               \/ /\ firstLedger # NoCursor
                  /\ ReadAuthorization(institutions'[i].wallet_address)
    <2>1. i \in Existing /\ institutions[i] \in InstitutionRow
      BY <1>1, <1>3, <1>7, Rows DEF VInv, InstitutionsTyped, Existing
    <2>2. CASE HasWallet(i, e.subject)
      <3>1. institutions'[i] = [institutions[i] EXCEPT !.status =
                                  IF e.name = "issuer_authorized" THEN "verified" ELSE "suspended"]
        BY <1>3, <2>1, <2>2
      <3>2. /\ institutions'[i].wallet_address = e.subject
            /\ institutions'[i].status =
                  IF e.name = "issuer_authorized" THEN "verified" ELSE "suspended"
        BY <2>1, <2>2, <3>1 DEF InstitutionRow, HasWallet
      <3> QED
        BY <1>5, <1>6, <1>7, <3>2 DEF Verified
    <2>3. CASE ~HasWallet(i, e.subject)
      BY <1>3, <1>7, <2>1, <2>3 DEF Verified
    <2> QED
      BY <2>2, <2>3
  <1> QED
    BY <1>3, <1>4, <1>7, StandingFrame DEF networkVars

LEMMA StandingStep == StandingInv /\ [VerificationNext]_verificationVars => StandingInv'
  <1> SUFFICES ASSUME StandingInv, [VerificationNext]_verificationVars
               PROVE  InOrder' /\ LastWord' /\ VerifiedByReading'
    BY VInvStep, VerificationCursorStep DEF StandingInv
  <1>1. ASSUME NEW w \in Wallets, AuthorizeIssuer(w) \/ RevokeIssuer(w)
        PROVE  InOrder' /\ LastWord' /\ VerifiedByReading'
    BY <1>1, IssuerStanding
  <1>2. CASE IndexIssuerAuthorization
    BY <1>2, IndexStanding
  <1>3. CASE \/ (LoopStep \/ Interrupt) /\ UNCHANGED <<authorized, institutions, compared, request>>
             \/ UNCHANGED verificationVars
    <2>1. /\ UNCHANGED <<events, authorized>> /\ institutions' = institutions
          /\ firstLedger' = firstLedger \/ lastLedger = NoCursor
      BY <1>3 DEF LoopStep, FirstStart, BeginSync, FetchPage, AdvanceCursor, Interrupt,
                  verificationVars, networkVars, indexerVars
    <2>2. firstLedger' = firstLedger \/ firstLedger = NoCursor
      BY <2>1 DEF StandingInv, VInv, LoopInv
    <2> QED
      BY <2>1, <2>2, StandingFrame DEF Existing, Verified
  <1> QED
    BY <1>1, <1>2, <1>3, RouteStanding DEF VerificationNext, AuthorizationIndexer

(* An institution that no administrator has marked is verified only while   *)
(* the contract authorizes the wallet it has now, or while the indexer has  *)
(* still to read the revocation: neither link-wallet nor a replayed event   *)
(* gives a standing the contract has taken back.                            *)
THEOREM InstitutionsFollowContract == VerificationSpec => []StandingFollowsContract
  BY StandingInitially, StandingStep, StandingFollows, PTL DEF VerificationSpec

-----------------------------------------------------------------------------
(* The chains under the two tables show what the contract shows.            *)

(* The events of the last ledger, while it stays the last.                  *)
LEMMA LatestRests ==
    ASSUME UNCHANGED networkVars
    PROVE  LatestEvents' = LatestEvents
  BY DEF LatestEvents, networkVars

(* A transaction's one event is all that its ledger shows.                  *)
LEMMA LatestAuthorization ==
    ASSUME VInv, NEW name \in AuthorizationNames, NEW w \in Wallets,
           Emit(<<[name |-> name, subject |-> w]>>)
    PROVE  LatestEvents' = {[name |-> name, subject |-> w]}
  <1>1. PICK last : last = Len(events) + 1
    OBVIOUS
  <1>2. PICK e : e = [name |-> name, subject |-> w, ledger |-> latest + 1]
    OBVIOUS
  <1>3. /\ DOMAIN events' = 1..last
        /\ \A n \in DOMAIN events : events'[n] = events[n]
        /\ events'[last] = e
        /\ latest' = latest + 1
        /\ e.name = name /\ e.subject = w /\ e.ledger = latest + 1
    <2>1. /\ events'[last] = e /\ DOMAIN events' = 1..last /\ latest' = latest + 1
          /\ \A n \in DOMAIN events : events'[n] = events[n]
      BY <1>1, <1>2, OneEvent
    <2> QED
      BY <1>2, <2>1
  <1>4. /\ latest \in Nat /\ Len(events) \in Nat /\ DOMAIN events = 1..Len(events)
        /\ \A n \in DOMAIN events : events[n].ledger \in Nat /\ events[n].ledger <= latest
    BY LoopNumbers DEF VInv
  <1>5. \A n \in DOMAIN events' : events'[n].ledger = latest' <=> n = last
    <2> SUFFICES ASSUME NEW n \in DOMAIN events', n # last
                 PROVE  events'[n].ledger # latest'
      BY <1>3
    <2>1. n \in DOMAIN events
      BY <1>1, <1>3, <1>4
    <2> QED
      BY <1>3, <1>4, <2>1
  <1>6. last \in DOMAIN events'
    BY <1>1, <1>3, <1>4
  <1>7. {n \in DOMAIN events' : events'[n].ledger = latest'} = {last}
    BY <1>5, <1>6
  <1> QED
    BY <1>3, <1>7 DEF LatestEvents

LEMMA VerificationChainStep ==
    VInv /\ [VerificationNext]_verificationVars
       => [VerificationChain!Next]_(VerificationChain!vars)
  <1> SUFFICES ASSUME VInv, [VerificationNext]_verificationVars
               PROVE  VerificationChain!Next \/ UNCHANGED VerificationChain!vars
    OBVIOUS
  <1>1. ASSUME NEW w \in Wallets, AuthorizeIssuer(w) PROVE VerificationChain!Next
    <2>1. /\ w \in authorized' \ authorized
          /\ authorized' = authorized \cup {w}
          /\ Emit(<<[name |-> "issuer_authorized", subject |-> w]>>)
      BY <1>1 DEF AuthorizeIssuer
    <2>2. LatestEvents' = {[name |-> "issuer_authorized", subject |-> w]}
      BY <2>1, LatestAuthorization DEF AuthorizationNames
    <2>3. VerificationChain!Authorize
      BY <2>1, <2>2 DEF VerificationChain!Authorize, VerificationChain!Event
    <2> QED
      BY <2>3 DEF VerificationChain!Next
  <1>2. ASSUME NEW w \in Wallets, RevokeIssuer(w) PROVE VerificationChain!Next
    <2>1. /\ w \in authorized
          /\ authorized' = authorized \ {w}
          /\ Emit(<<[name |-> "issuer_revoked", subject |-> w]>>)
      BY <1>2 DEF RevokeIssuer
    <2>2. LatestEvents' = {[name |-> "issuer_revoked", subject |-> w]}
      BY <2>1, LatestAuthorization DEF AuthorizationNames
    <2>3. VerificationChain!Dismiss
      BY <2>1, <2>2 DEF VerificationChain!Dismiss, VerificationChain!Event
    <2> QED
      BY <2>3 DEF VerificationChain!Next
  <1>3. CASE UNCHANGED <<networkVars, authorized>>
    BY <1>3, LatestRests DEF VerificationChain!vars
  <1>4. ASSUME ~\E w \in Wallets : AuthorizeIssuer(w) \/ RevokeIssuer(w)
        PROVE  UNCHANGED <<networkVars, authorized>>
    <2>1. AuthorizationIndexer => UNCHANGED <<networkVars, authorized>>
      BY DEF AuthorizationIndexer, IndexIssuerAuthorization, EventDone, LoopStep,
             FirstStart, BeginSync, FetchPage, AdvanceCursor, networkVars
    <2>2. Interrupt /\ UNCHANGED <<authorized, institutions, compared, request>>
             => UNCHANGED <<networkVars, authorized>>
      BY DEF Interrupt, networkVars
    <2>3. \A i \in Institutions, w \in Wallets :
             Provision(i, w) \/ LinkWallet(i, w) => UNCHANGED <<networkVars, authorized>>
      BY DEF Provision, LinkWallet
    <2>4. \A r \in Requests : UpdateAuthorization(r) => UNCHANGED <<networkVars, authorized>>
      BY DEF UpdateAuthorization, CheckTransaction, FindInstitution, FindNoInstitution,
             UpdateInstitution, AbortRequest
    <2>5. UNCHANGED verificationVars => UNCHANGED <<networkVars, authorized>>
      BY DEF verificationVars
    <2> QED
      BY <1>4, <2>1, <2>2, <2>3, <2>4, <2>5 DEF VerificationNext
  <1> QED
    BY <1>1, <1>2, <1>3, <1>4

(* The issuers under the table of institutions come and go one a ledger,    *)
(* each with the event that says so, which is what CredentialChain, and so  *)
(* the contract (AuditSpec), shows.                                         *)
THEOREM VerificationFollowsChain == VerificationSpec => VerificationImplementsChain
  <1>1. VerificationInit => VerificationChain!Init
    <2> SUFFICES ASSUME VerificationInit PROVE VerificationChain!Init
      OBVIOUS
    <2>1. events = <<>> /\ authorized = {}
      BY DEF VerificationInit, IndexerInit
    <2>2. LatestEvents = {}
      BY <2>1 DEF LatestEvents
    <2> QED
      BY <2>1, <2>2 DEF VerificationChain!Init
  <1> QED
    BY <1>1, VInvAlways, VerificationChainStep, PTL
    DEF VerificationSpec, VerificationImplementsChain, VerificationChain!Spec

(* Who writes to the chain.                                                 *)
LEMMA NetworkSteps ==
    ASSUME [Next]_vars
    PROVE  \/ UNCHANGED networkVars
           \/ \E s \in Sessions : Land(s)
           \/ \E t \in Tokens : LandRevocation(t) \/ OwnerRevokes(t)
           \/ CloseLedger
  <1>1. Indexer => UNCHANGED networkVars
    BY DEF Indexer, IndexIssuedCredential, IndexRevocation, EventDone, EventThrown, LoopStep,
           FirstStart, BeginSync, FetchPage, AdvanceCursor, networkVars
  <1>2. Interrupt => UNCHANGED networkVars
    BY DEF Interrupt, networkVars
  <1>3. \A s \in Sessions : Issuance(s) => Land(s) \/ UNCHANGED networkVars
    BY DEF Issuance, Submit, GiveUp, Reject, SaveRows, LoseRows
  <1>4. \A t \in Tokens : Revocation(t) => LandRevocation(t) \/ UNCHANGED networkVars
    BY DEF Revocation, BeginRevocation, GiveUpRevocation, RejectRevocation, SaveRevocation,
           LoseRevocation
  <1>5. ChangeWallet \/ UNCHANGED vars => UNCHANGED networkVars
    BY DEF ChangeWallet, vars
  <1> QED
    BY <1>1, <1>2, <1>3, <1>4, <1>5 DEF Next

(* A revocation gets under way from a row.                                  *)
LEMMA QueuedBefore ==
    ASSUME IInv, [Next]_vars, NEW t \in Tokens, revocation'[t] \in {"queued", "abandoned"}
    PROVE  revocation[t] \in {"queued", "abandoned"} \/ t \in Indexed
  <1>1. revocation \in [Tokens -> {"idle", "queued", "abandoned", "landed"}]
    BY DEF IInv, TypeOK
  <1>2. CASE UNCHANGED revocation
    BY <1>2
  <1>3. ASSUME NEW u \in Tokens, Revocation(u)
        PROVE  revocation[t] \in {"queued", "abandoned"} \/ t \in Indexed
    <2>1. CASE BeginRevocation(u)
      BY <1>1, <2>1 DEF BeginRevocation
    <2>2. CASE GiveUpRevocation(u)
      BY <1>1, <2>2 DEF GiveUpRevocation
    <2>3. CASE LandRevocation(u)
      BY <1>1, <2>3 DEF LandRevocation
    <2>4. CASE RejectRevocation(u) \/ SaveRevocation(u) \/ LoseRevocation(u)
      BY <1>1, <2>4 DEF RejectRevocation, SaveRevocation, LoseRevocation
    <2> QED
      BY <1>3, <2>1, <2>2, <2>3, <2>4 DEF Revocation
  <1>4. Indexer \/ (Interrupt /\ UNCHANGED <<browserVars, credentials, linked>>)
           => UNCHANGED revocation
    BY DEF Indexer, IndexIssuedCredential, IndexRevocation, browserVars
  <1>5. \A s \in Sessions : Issuance(s) => UNCHANGED revocation
    BY DEF Issuance, Submit, GiveUp, Land, Reject, SaveRows, LoseRows
  <1>6. (\E u \in Tokens : OwnerRevokes(u)) \/ CloseLedger \/ ChangeWallet \/ UNCHANGED vars
           => UNCHANGED revocation
    BY DEF OwnerRevokes, CloseLedger, ChangeWallet, vars, browserVars
  <1>7. UNCHANGED revocation \/ \E u \in Tokens : Revocation(u)
    BY <1>4, <1>5, <1>6 DEF Next
  <1> QED
    BY <1>2, <1>3, <1>7

(* A revocation under way is of a token the chain has: its row says so.     *)
QueuedIssued ==
    \A t \in Tokens : revocation[t] \in {"queued", "abandoned"} => t \in Issued

LEMMA QueuedStep ==
    ASSUME IInv, QueuedIssued, [Next]_vars
    PROVE  QueuedIssued'
  <1>1. Issued \subseteq Issued'
    <2>1. CASE UNCHANGED networkVars
      BY <2>1, QuietChain
    <2>2. ASSUME NEW new, new \in Seq([name: EventNames, subject: Tokens]), Emit(new)
          PROVE  Issued \subseteq Issued'
      BY <2>2, EmitGrows, GrownKeeps DEF IInv
    <2>3. ASSUME NEW s \in Sessions, Land(s) PROVE Issued \subseteq Issued'
      BY <2>3, LandIssues
    <2>4. ASSUME NEW name \in EventNames, NEW t \in Tokens,
                 Emit(<<[name |-> name, subject |-> t]>>)
          PROVE  Issued \subseteq Issued'
      BY <2>2, <2>4, OneMessage
    <2>5. Emit(<<>>) => Issued \subseteq Issued'
      <3>1. <<>> \in Seq([name: EventNames, subject: Tokens])
        OBVIOUS
      <3> QED
        BY <2>2, <3>1
    <2> QED
      BY <2>1, <2>3, <2>4, <2>5, NetworkSteps
      DEF LandRevocation, OwnerRevokes, CloseLedger, EventNames
  <1>2. ASSUME NEW t \in Tokens, revocation'[t] \in {"queued", "abandoned"}
        PROVE  revocation[t] \in {"queued", "abandoned"} \/ t \in Indexed
    BY <1>2, QueuedBefore
  <1>3. Indexed \subseteq Issued /\ Tokens' = Tokens
    BY DEF IInv, RowsTruthful, Tokens
  <1> QED
    BY <1>1, <1>2, <1>3 DEF QueuedIssued

LEMMA QueuedInitially == Init => QueuedIssued
  BY DEF Init, QueuedIssued

(* The numbers of the chain.                                                *)
LEMMA CountOf ==
    ASSUME IInv
    PROVE  \E k \in Nat : Issued = 1..k /\ Cardinality(Issued) = k
  <1>1. PICK k \in Nat : Issued = 1..k
    BY DEF IInv, CountInv
  <1> QED
    BY <1>1, FS_Interval

(* An issuance hands out the next ids and shows just these.                 *)
LEMMA LandChain ==
    ASSUME IInv, NEW s \in Sessions, Land(s)
    PROVE  Chain!Issue
  <1>1. PICK k \in Nat, n \in 1..MaxRows :
           /\ Issued = 1..k /\ Issued' = 1..(k + n)
           /\ Revoked' = Revoked
           /\ LatestEvents' = {[name |-> "credential_issued", subject |-> t] :
                                  t \in (k + 1)..(k + n)}
    BY LandIssues
  <1>2. Cardinality(Issued) = k
    BY <1>1, FS_Interval
  <1>3. Cardinality(Issued') = k + n /\ k + n > k
    <2>1. k + n \in Nat /\ k + n > k
      BY <1>1
    <2>2. PICK j \in Nat : j = k + n
      BY <2>1
    <2>3. Cardinality(1..j) = j
      BY <2>2, FS_Interval
    <2> QED
      BY <1>1, <2>1, <2>2, <2>3
  <1> QED
    BY <1>1, <1>2, <1>3 DEF Chain!Issue, Chain!Event

(* A revocation is of a token that is issued and not revoked, and shows it. *)
LEMMA RevocationChain ==
    ASSUME IInv, NEW t \in Issued \ Revoked,
           NEW name \in {"credential_revoked", "credential_revoked_by_owner"},
           Emit(<<[name |-> name, subject |-> t]>>)
    PROVE  Chain!Revoke
  <1>1. t \in Tokens /\ name \in EventNames
    BY DEF Issued, EventNames
  <1>2. PICK new : new = <<[name |-> name, subject |-> t]>>
    OBVIOUS
  <1>3. /\ new \in Seq([name: EventNames, subject: Tokens])
        /\ DOMAIN new = {1} /\ new[1].name = name /\ new[1].subject = t
        /\ Emit(new)
    BY <1>1, <1>2, OneMessage
  <1>4. /\ \A u, names : Emitted(u, names)' <=>
              Emitted(u, names) \/ \E j \in DOMAIN new : /\ new[j].subject = u
                                                         /\ new[j].name \in names
        /\ LatestEvents' =
              {[name |-> new[j].name, subject |-> new[j].subject] : j \in DOMAIN new}
    <2>1. TypeOK /\ EventsTyped
      BY DEF IInv
    <2>2. new \in Seq([name: EventNames, subject: Tokens]) /\ Emit(new)
      BY <1>3
    <2> QED
      BY ONLY <2>1, <2>2, EmitAdds
  <1>5. \A u, names : Emitted(u, names)' <=> Emitted(u, names) \/ (u = t /\ name \in names)
    <2> SUFFICES ASSUME NEW u, NEW names
                 PROVE  Emitted(u, names)' <=> Emitted(u, names) \/ (u = t /\ name \in names)
      OBVIOUS
    <2>1. Emitted(u, names)' <=>
              Emitted(u, names) \/ \E j \in DOMAIN new : /\ new[j].subject = u
                                                         /\ new[j].name \in names
      BY <1>4, Zenon
    <2>2. (\E j \in DOMAIN new : new[j].subject = u /\ new[j].name \in names)
             <=> u = t /\ name \in names
      BY <1>3
    <2> QED
      BY <2>1, <2>2, Zenon
  <1>6. LatestEvents' = {[name |-> name, subject |-> t]}
    BY <1>3, <1>4
  <1>7. Issued' = Issued
    <2>1. name \notin {"credential_issued"}
      OBVIOUS
    <2>2. \A u : Emitted(u, {"credential_issued"})' <=> Emitted(u, {"credential_issued"})
      BY <1>5, <2>1, Zenon
    <2> QED
      BY <2>2, ChainFacts, ChainFactsNext, Zenon
  <1>8. Revoked' = Revoked \cup {t}
    <2>1. name \in {"credential_revoked", "credential_revoked_by_owner"}
      OBVIOUS
    <2>2. \A u : Emitted(u, {"credential_revoked", "credential_revoked_by_owner"})' <=>
                    \/ Emitted(u, {"credential_revoked", "credential_revoked_by_owner"})
                    \/ u = t
      BY <1>5, <2>1, Zenon
    <2>3. \A u : u \in Revoked' <=> u \in Revoked \/ u = t
      BY <1>1, <2>2, ChainFacts, ChainFactsNext, Zenon
    <2> QED
      BY <2>3
  <1>9. /\ t \in (1..Cardinality(Issued)) \ Revoked
        /\ Cardinality(Issued') = Cardinality(Issued)
    <2>1. Issued = 1..Cardinality(Issued)
      BY CountOf
    <2> QED
      BY <1>7, <2>1
  <1> QED
    BY <1>6, <1>8, <1>9 DEF Chain!Revoke, Chain!Event

LEMMA SilentChain ==
    ASSUME IInv, CloseLedger
    PROVE  Chain!Silence
  <1>1. PICK new : new = <<>>
    OBVIOUS
  <1>2. /\ new \in Seq([name: EventNames, subject: Tokens]) /\ DOMAIN new = {}
        /\ Emit(new)
    BY <1>1 DEF CloseLedger
  <1>3. /\ \A u, names : Emitted(u, names)' <=>
              Emitted(u, names) \/ \E j \in DOMAIN new : /\ new[j].subject = u
                                                         /\ new[j].name \in names
        /\ LatestEvents' =
              {[name |-> new[j].name, subject |-> new[j].subject] : j \in DOMAIN new}
    BY <1>2, EmitAdds DEF IInv
  <1>4. \A u, names : Emitted(u, names)' <=> Emitted(u, names)
    BY <1>2, <1>3, Zenon
  <1>5. Issued' = Issued /\ Revoked' = Revoked
    BY <1>4, ChainFacts, ChainFactsNext, Zenon
  <1>6. LatestEvents' = {}
    BY <1>2, <1>3
  <1> QED
    BY <1>5, <1>6 DEF Chain!Silence

LEMMA IndexChainStep ==
    IInv /\ QueuedIssued /\ [Next]_vars => [Chain!Next]_(Chain!vars)
  <1> SUFFICES ASSUME IInv, QueuedIssued, [Next]_vars
               PROVE  Chain!Next \/ UNCHANGED Chain!vars
    OBVIOUS
  <1>1. CASE UNCHANGED networkVars
    BY <1>1, QuietChain, LatestRests DEF Chain!vars
  <1>2. ASSUME NEW s \in Sessions, Land(s) PROVE Chain!Next
    BY <1>2, LandChain DEF Chain!Next
  <1>3. ASSUME NEW t \in Tokens, LandRevocation(t) PROVE Chain!Next
    <2>1. t \in Issued \ Revoked /\ Emit(<<[name |-> "credential_revoked", subject |-> t]>>)
      BY <1>3 DEF LandRevocation, QueuedIssued
    <2>2. PICK name \in {"credential_revoked", "credential_revoked_by_owner"} :
             name = "credential_revoked"
      OBVIOUS
    <2> QED
      BY <2>1, <2>2, RevocationChain DEF Chain!Next
  <1>4. ASSUME NEW t \in Tokens, OwnerRevokes(t) PROVE Chain!Next
    <2>1. /\ t \in Issued \ Revoked
          /\ Emit(<<[name |-> "credential_revoked_by_owner", subject |-> t]>>)
      BY <1>4 DEF OwnerRevokes
    <2>2. PICK name \in {"credential_revoked", "credential_revoked_by_owner"} :
             name = "credential_revoked_by_owner"
      OBVIOUS
    <2> QED
      BY <2>1, <2>2, RevocationChain DEF Chain!Next
  <1>5. CloseLedger => Chain!Next
    BY SilentChain DEF Chain!Next
  <1> QED
    BY <1>1, <1>2, <1>3, <1>4, <1>5, NetworkSteps

(* The chain the index follows is CredentialChain, whatever the browsers    *)
(* do: an issuance that lands after its browser has given up takes the next *)
(* ids, and a revocation that lands late finds its token issued and not     *)
(* revoked.  The contract implements the same specification (AuditSpec).    *)
THEOREM IndexFollowsChain == Spec => ImplementsChain
  <1>1. Init => Chain!Init
    <2> SUFFICES ASSUME Init PROVE Chain!Init
      OBVIOUS
    <2>1. events = <<>>
      BY DEF Init, IndexerInit
    <2>2. LatestEvents = {}
      BY <2>1 DEF LatestEvents
    <2>3. Issued = {} /\ Revoked = {}
      BY <2>1 DEF Issued, Revoked, IssuedEvents, RevokedEvents, EventsOf
    <2>4. Cardinality(Issued) = 0
      BY <2>3, FS_EmptySet
    <2> QED
      BY <2>2, <2>3, <2>4 DEF Chain!Init
  <1>2. IInv /\ QueuedIssued /\ [Next]_vars => QueuedIssued'
    BY QueuedStep
  <1>3. Spec => []QueuedIssued
    BY <1>2, QueuedInitially, IndexInvariant, PTL DEF Spec
  <1> QED
    BY <1>1, <1>3, IndexInvariant, IndexChainStep, PTL
    DEF Spec, ImplementsChain, Chain!Spec
=============================================================================
