----------------------------- MODULE BookProofs -----------------------------
(***************************************************************************)
(* Proofs about module Book, for any sets of authors, callers and relays.  *)
(*                                                                         *)
(* The inductive invariant is the conjunction of the type invariant and    *)
(* the three invariants of the batch; none of them is inductive alone:     *)
(* NoOrphans needs PendingExact (oneose answers the authors of the batch,  *)
(* who must all have a deferred), and PendingExact needs                   *)
(* FetchHasSubscription (a relay finishing means that a batch is running). *)
(***************************************************************************)
EXTENDS Book, TLAPS

(* The batch part of the inductive invariant. *)
Batch == PendingExact /\ NoOrphans /\ FetchHasSubscription

IInv == TypeOK /\ Batch

(* A newest event stays within the bound. *)
LEMMA NewerTime ==
  ASSUME NEW s \in 0..MaxTime, NEW t \in Time
  PROVE  Newer(s, t) \in 0..MaxTime /\ Newer(s, t) >= s /\ Newer(s, t) >= t
BY BookAssumption, SMT DEF Newer, Time

(* What a load answers with is a time or NoEvent. *)
LEMMA GetEventTime ==
  ASSUME TypeOK, NEW p \in Pubkeys
  PROVE  GetEvent(p) \in 0..MaxTime
BY DEF TypeOK, GetEvent

(* Map.set keeps the type of a map. *)
LEMMA WithType ==
  ASSUME NEW V, NEW f, AuthorMap(f, V), NEW p \in Pubkeys, NEW v \in V
  PROVE  AuthorMap(With(f, p, v), V)
BY DEF AuthorMap, With

(* The queue after a load is a queue. *)
LEMMA EnqueuedType ==
  ASSUME TypeOK, NEW p \in Pubkeys, NEW relays \in Hints
  PROVE  /\ AuthorMap(Enqueued(p, relays), SUBSET Relays)
         /\ DOMAIN Enqueued(p, relays) = DOMAIN next \cup {p}
<1> DEFINE v == IF p \in DOMAIN next THEN next[p] \cup relays ELSE relays
<1>1. relays \in SUBSET Relays
  BY BookAssumption
<1>2. v \in SUBSET Relays
  BY <1>1 DEF TypeOK, AuthorMap
<1>3. AuthorMap(With(next, p, v), SUBSET Relays)
  BY <1>2, WithType DEF TypeOK
<1> QED
  BY <1>3 DEF Enqueued, With

(* A batch of at least one author has a relay to hear from. *)
LEMMA AskedRelaysType ==
  ASSUME NEW queue, AuthorMap(queue, SUBSET Relays)
  PROVE  /\ AskedRelays(queue) \in SUBSET Relays
         /\ DOMAIN queue # {} => AskedRelays(queue) # {}
BY BookAssumption DEF AuthorMap, Asked, AskedRelays

(* fetchEvents conserves the authors that are queued or in the batch, and  *)
(* starts a subscription with the batch.                                   *)
LEMMA FetchEventsConserves ==
  ASSUME NEW queue, AuthorMap(queue, SUBSET Relays),
         TypeOK, FetchHasSubscription, FetchEvents(queue),
         DOMAIN queue \cap DOMAIN fetching = {}
  PROVE  /\ AuthorMap(next', SUBSET Relays)
         /\ AuthorMap(fetching', SUBSET Relays)
         /\ open' \in SUBSET Relays
         /\ DOMAIN next' \cup DOMAIN fetching' = DOMAIN queue \cup DOMAIN fetching
         /\ DOMAIN next' \cap DOMAIN fetching' = {}
         /\ FetchHasSubscription'
<1>1. CASE /\ DOMAIN fetching # {} \/ DOMAIN queue = {}
           /\ next' = queue
           /\ UNCHANGED <<fetching, open>>
  BY <1>1 DEF TypeOK, FetchHasSubscription
<1>2. CASE /\ DOMAIN fetching = {} /\ DOMAIN queue # {}
           /\ fetching' = queue
           /\ next' = EmptyMap
           /\ open' = AskedRelays(queue)
  <2>1. DOMAIN EmptyMap = {} /\ AuthorMap(EmptyMap, SUBSET Relays)
    BY DEF EmptyMap, AuthorMap
  <2>2. open' \in SUBSET Relays /\ open' # {}
    BY <1>2, AskedRelaysType
  <2> QED
    BY <1>2, <2>1, <2>2 DEF FetchHasSubscription
<1> QED
  BY <1>1, <1>2 DEF FetchEvents

(* So does a call of the throttle, whichever way it takes. *)
LEMMA ThrottleConserves ==
  ASSUME NEW queue, AuthorMap(queue, SUBSET Relays),
         TypeOK, FetchHasSubscription, FetchEventsThrottle(queue),
         DOMAIN queue \cap DOMAIN fetching = {}
  PROVE  /\ AuthorMap(next', SUBSET Relays)
         /\ AuthorMap(fetching', SUBSET Relays)
         /\ open' \in SUBSET Relays
         /\ throttle' \in {"cold", "cooling", "trailing", "warm"}
         /\ DOMAIN next' \cup DOMAIN fetching' = DOMAIN queue \cup DOMAIN fetching
         /\ DOMAIN next' \cap DOMAIN fetching' = {}
         /\ FetchHasSubscription'
<1>1. CASE throttle' = "cooling" /\ FetchEvents(queue)
  BY <1>1, FetchEventsConserves
<1>2. CASE throttle' = "trailing" /\ next' = queue /\ UNCHANGED <<fetching, open>>
  BY <1>2 DEF TypeOK, FetchHasSubscription
<1> QED
  BY <1>1, <1>2 DEF FetchEventsThrottle

-----------------------------------------------------------------------------
(* The steps that touch the queue, the batch or the deferreds *)

(* A load of an unknown author. *)
LEMMA LoadQueuesStep ==
  ASSUME IInv, NEW c \in Callers, NEW p \in Pubkeys, NEW relays \in Hints,
         LoadQueues(c, p, relays)
  PROVE  IInv'
<1> DEFINE queue == Enqueued(p, relays)
<1>1. /\ AuthorMap(queue, SUBSET Relays)
      /\ DOMAIN queue = DOMAIN next \cup {p}
  BY EnqueuedType DEF IInv
<1>2. DOMAIN queue \cap DOMAIN fetching = {}
  BY <1>1 DEF IInv, Batch, PendingExact, LoadQueues, IsPending
<1>3. FetchEventsThrottle(queue)
  BY DEF LoadQueues
<1>4. /\ AuthorMap(next', SUBSET Relays)
      /\ AuthorMap(fetching', SUBSET Relays)
      /\ open' \in SUBSET Relays
      /\ throttle' \in {"cold", "cooling", "trailing", "warm"}
      /\ DOMAIN next' \cup DOMAIN fetching' = DOMAIN queue \cup DOMAIN fetching
      /\ DOMAIN next' \cap DOMAIN fetching' = {}
      /\ FetchHasSubscription'
  <2> HIDE DEF queue
  <2> QED
    BY <1>1, <1>2, <1>3, ThrottleConserves DEF IInv, Batch
<1>5. DOMAIN pending' = DOMAIN pending \cup {p} /\ p \notin DOMAIN pending
  BY DEF LoadQueues, With, IsPending
<1>6. TypeOK'
  <2>1. AuthorMap(pending', SUBSET Callers)
    BY WithType DEF IInv, TypeOK, LoadQueues
  <2> QED
    BY <1>4, <2>1 DEF IInv, TypeOK, LoadQueues
<1>7. PendingExact'
  BY <1>1, <1>4, <1>5 DEF IInv, Batch, PendingExact
<1>8. NoOrphans'
  <2> SUFFICES ASSUME NEW d \in Callers
               PROVE  /\ awaits'[d] # NoKey => awaits'[d] \in DOMAIN pending'
                      /\ \A q \in DOMAIN pending' : d \in pending'[q] <=> awaits'[d] = q
    BY DEF NoOrphans
  <2>1. awaits'[d] = IF d = c THEN p ELSE awaits[d]
    BY DEF IInv, TypeOK, LoadQueues
  <2>2. \A q \in DOMAIN pending' : pending'[q] = IF q = p THEN {c} ELSE pending[q]
    BY DEF LoadQueues, With
  <2>3. awaits[c] = NoKey /\ p # NoKey
    BY BookAssumption DEF LoadQueues
  <2>4. NoKey \notin DOMAIN pending
    BY BookAssumption DEF IInv, TypeOK, AuthorMap
  <2> QED
    BY <1>5, <2>1, <2>2, <2>3, <2>4 DEF IInv, Batch, NoOrphans
<1> QED
  BY <1>4, <1>6, <1>7, <1>8 DEF IInv, Batch

(* A load that joins the deferred of an earlier one. *)
LEMMA LoadJoinsStep ==
  ASSUME IInv, NEW c \in Callers, NEW p \in Pubkeys, LoadJoins(c, p)
  PROVE  IInv'
<1>1. DOMAIN pending' = DOMAIN pending
  BY DEF LoadJoins
<1>2. TypeOK'
  BY DEF IInv, TypeOK, AuthorMap, LoadJoins
<1>3. NoOrphans'
  BY <1>1, BookAssumption DEF IInv, Batch, TypeOK, AuthorMap, NoOrphans, LoadJoins, IsPending
<1> QED
  BY <1>1, <1>2, <1>3 DEF IInv, Batch, PendingExact, FetchHasSubscription, LoadJoins

(* The timer. *)
LEMMA TimerExpiresStep ==
  ASSUME IInv, TimerExpires
  PROVE  IInv'
<1>1. CASE UNCHANGED <<next, fetching, open>> /\ throttle' = "cold"
  BY <1>1 DEF IInv, Batch, TypeOK, AuthorMap, PendingExact, NoOrphans,
              FetchHasSubscription, TimerExpires
<1>2. CASE throttle' = "warm" /\ FetchEvents(next)
  <2>1. /\ AuthorMap(next', SUBSET Relays)
        /\ AuthorMap(fetching', SUBSET Relays)
        /\ open' \in SUBSET Relays
        /\ DOMAIN next' \cup DOMAIN fetching' = DOMAIN next \cup DOMAIN fetching
        /\ DOMAIN next' \cap DOMAIN fetching' = {}
        /\ FetchHasSubscription'
    BY <1>2, FetchEventsConserves DEF IInv, Batch, TypeOK, PendingExact
  <2>2. TypeOK'
    BY <1>2, <2>1 DEF IInv, TypeOK, AuthorMap, TimerExpires
  <2> QED
    BY <2>1, <2>2 DEF IInv, Batch, PendingExact, NoOrphans, TimerExpires
<1> QED
  BY <1>1, <1>2 DEF TimerExpires

(* The last relay of a batch finishes. *)
LEMMA OneoseStep ==
  ASSUME IInv, NEW r \in Relays, RelayDone(r), open' = {}
  PROVE  IInv'
<1> USE DEF IInv, Batch
<1>1. Oneose /\ UNCHANGED <<store, next, throttle>>
  BY DEF RelayDone
<1>2. Answered = DOMAIN fetching
  BY DEF Answered, PendingExact
<1>3. DOMAIN pending' = DOMAIN next /\ \A p \in DOMAIN pending' : pending'[p] = pending[p]
  BY <1>1, <1>2 DEF Oneose, Restrict, PendingExact
<1>4. DOMAIN fetching' = {} /\ AuthorMap(fetching', SUBSET Relays)
  BY <1>1 DEF Oneose, EmptyMap, AuthorMap, Answer, Cleared
<1>5. \A c \in Callers :
        awaits'[c] = IF awaits[c] \in DOMAIN fetching THEN NoKey ELSE awaits[c]
  BY <1>1, <1>2 DEF Oneose, Resolves, NoOrphans, PendingExact
<1>6. TypeOK'
  <2>1. \A p \in Pubkeys : GetEvent(p) \in 0..MaxTime
    BY GetEventTime
  <2>2. \A c \in Callers : Resolves(c) => awaits[c] \in Pubkeys
    BY <1>2 DEF Resolves, NoOrphans, TypeOK, AuthorMap, PendingExact
  <2>3. got' \in [Callers -> 0..MaxTime]
    BY <1>1, <2>1, <2>2 DEF Oneose, TypeOK, Answer, Cleared
  <2>4. awaits' \in [Callers -> Pubkeys \cup {NoKey}]
    BY <1>1 DEF Oneose, TypeOK
  <2>5. cache' \in [Pubkeys -> 0..MaxTime]
    BY <1>1, <2>1 DEF Oneose, TypeOK
  <2>6. AuthorMap(pending', SUBSET Callers)
    BY <1>1, <1>3 DEF Oneose, Restrict, TypeOK, AuthorMap, PendingExact
  <2> QED
    BY <1>1, <1>4, <2>3, <2>4, <2>5, <2>6 DEF TypeOK
<1>7. PendingExact'
  BY <1>1, <1>3, <1>4 DEF PendingExact
<1>8. NoOrphans'
  <2>1. NoKey \notin DOMAIN next
    BY BookAssumption DEF TypeOK, AuthorMap
  <2> QED
    BY <1>3, <1>5, <2>1 DEF NoOrphans, PendingExact
<1>9. FetchHasSubscription'
  BY <1>4 DEF FetchHasSubscription
<1> QED
  BY <1>6, <1>7, <1>8, <1>9

-----------------------------------------------------------------------------
(* The invariant *)

(* The initial states satisfy it. *)
LEMMA InitIInv == Init => IInv
BY BookAssumption DEF Init, IInv, Batch, TypeOK, AuthorMap, EmptyMap, NoEvent,
                      PendingExact, NoOrphans, FetchHasSubscription

(* Every step keeps it. *)
LEMMA NextIInv == IInv /\ [Next]_vars => IInv'
<1> SUFFICES ASSUME IInv, [Next]_vars
             PROVE  IInv'
  OBVIOUS
<1>1. CASE \E c \in Callers, p \in Pubkeys : LoadKnown(c, p)
  <2> PICK c \in Callers, p \in Pubkeys : LoadKnown(c, p)
    BY <1>1
  <2>1. GetEvent(p) \in 0..MaxTime
    BY GetEventTime DEF IInv
  <2>2. TypeOK'
    BY <2>1 DEF IInv, TypeOK, AuthorMap, LoadKnown
  <2> QED
    BY <2>2 DEF IInv, Batch, PendingExact, NoOrphans, FetchHasSubscription, LoadKnown
<1>2. CASE \E c \in Callers, p \in Pubkeys : LoadJoins(c, p)
  BY <1>2, LoadJoinsStep
<1>3. CASE \E c \in Callers, p \in Pubkeys, relays \in Hints : LoadQueues(c, p, relays)
  BY <1>3, LoadQueuesStep
<1>4. CASE TimerExpires
  BY <1>4, TimerExpiresStep
<1>5. CASE WaitElapses
  BY <1>5 DEF IInv, Batch, TypeOK, AuthorMap, PendingExact, NoOrphans,
              FetchHasSubscription, WaitElapses
<1>6. CASE \E p \in Pubkeys, t \in Time : RelayEvent(p, t)
  <2> PICK p \in Pubkeys, t \in Time : RelayEvent(p, t)
    BY <1>6
  <2>1. /\ store' \in [Pubkeys -> 0..MaxTime]
        /\ cache' \in [Pubkeys -> 0..MaxTime]
    <3>1. store[p] \in 0..MaxTime /\ cache[p] \in 0..MaxTime
      BY DEF IInv, TypeOK
    <3>2. Newer(store[p], t) \in 0..MaxTime
      BY <3>1, NewerTime
    <3>3. t \in 0..MaxTime
      BY BookAssumption DEF Time
    <3> QED
      BY <3>1, <3>2, <3>3 DEF IInv, TypeOK, RelayEvent, HandleEvent, Cached
  <2> QED
    BY <2>1 DEF IInv, Batch, TypeOK, AuthorMap, PendingExact, NoOrphans,
                FetchHasSubscription, RelayEvent
<1>7. CASE \E r \in Relays : RelayDone(r)
  <2> PICK r \in Relays : RelayDone(r)
    BY <1>7
  <2>1. CASE open' # {}
    <3>1. UNCHANGED <<store, cache, next, fetching, pending, throttle, awaits, got>>
      BY <2>1 DEF RelayDone
    <3>2. open # {} /\ open' \in SUBSET Relays
      BY DEF RelayDone, IInv, TypeOK
    <3> QED
      BY <2>1, <3>1, <3>2 DEF IInv, Batch, TypeOK, AuthorMap, PendingExact, NoOrphans,
                              FetchHasSubscription
  <2> QED
    BY <2>1, OneoseStep
<1>8. CASE \E p \in Pubkeys, t \in Time : StoreWrite(p, t)
  <2>1. store' \in [Pubkeys -> 0..MaxTime]
    <3> PICK p \in Pubkeys, t \in Time : StoreWrite(p, t)
      BY <1>8
    <3>1. store[p] \in 0..MaxTime
      BY DEF IInv, TypeOK
    <3>2. Newer(store[p], t) \in 0..MaxTime
      BY <3>1, NewerTime
    <3> QED
      BY <3>2 DEF IInv, TypeOK, StoreWrite
  <2> QED
    BY <1>8, <2>1 DEF IInv, Batch, TypeOK, AuthorMap, PendingExact, NoOrphans,
                      FetchHasSubscription, StoreWrite
<1>9. CASE ClearStore
  BY <1>9, BookAssumption DEF IInv, Batch, TypeOK, AuthorMap, PendingExact, NoOrphans,
                              FetchHasSubscription, ClearStore, NoEvent
<1>10. CASE UNCHANGED vars
  BY <1>10 DEF IInv, Batch, TypeOK, AuthorMap, PendingExact, NoOrphans,
               FetchHasSubscription, vars
<1> QED
  BY <1>1, <1>2, <1>3, <1>4, <1>5, <1>6, <1>7, <1>8, <1>9, <1>10 DEF Next

(* The inductive invariant is one. *)
LEMMA Invariance == Spec => []IInv
BY InitIInv, NextIInv, PTL DEF Spec

(* Every variable of the book keeps its type. *)
THEOREM TypeCorrect == Spec => []TypeOK
<1>1. IInv => TypeOK
  BY DEF IInv
<1> QED
  BY <1>1, Invariance, PTL

(* The deferreds are those of the queued authors and of the batch. *)
THEOREM PendingIsExact == Spec => []PendingExact
<1>1. IInv => PendingExact
  BY DEF IInv, Batch
<1> QED
  BY <1>1, Invariance, PTL

(* Every waiting caller is attached to the deferred of its author. *)
THEOREM CallersAreNotLost == Spec => []NoOrphans
<1>1. IInv => NoOrphans
  BY DEF IInv, Batch
<1> QED
  BY <1>1, Invariance, PTL

(* The batch is marked as running exactly while a relay is outstanding. *)
THEOREM BatchHasSubscription == Spec => []FetchHasSubscription
<1>1. IInv => FetchHasSubscription
  BY DEF IInv, Batch
<1> QED
  BY <1>1, Invariance, PTL

-----------------------------------------------------------------------------
(* Steps *)

(* What a batch does when it ends, in the terms of the callers' waiting. *)
LEMMA OneoseAnswers ==
  ASSUME IInv, Oneose
  PROVE  /\ Answered = DOMAIN fetching
         /\ \A c \in Callers : Resolves(c) <=> awaits[c] \in DOMAIN fetching
         /\ \A p \in Pubkeys : cache'[p] = IF p \in DOMAIN fetching THEN GetEvent(p) ELSE cache[p]
BY DEF IInv, Batch, Answered, Resolves, NoOrphans, PendingExact, TypeOK, AuthorMap, Oneose

(* The cached event of an author is never replaced by an older one. *)
THEOREM CacheNeverRegresses == Spec => CacheMonotone
<1>1. IInv /\ [Next]_vars => \A p \in Pubkeys : cache'[p] >= cache[p]
  <2> SUFFICES ASSUME IInv, [Next]_vars, NEW p \in Pubkeys
               PROVE  cache'[p] >= cache[p]
    OBVIOUS
  <2>1. cache[p] \in Nat /\ cache \in [Pubkeys -> 0..MaxTime]
    BY DEF IInv, TypeOK
  <2>2. cache[p] >= cache[p]
    BY <2>1
  <2>3. CASE UNCHANGED cache
    BY <2>2, <2>3
  <2>4. CASE \E c \in Callers, q \in Pubkeys : LoadKnown(c, q)
    <3>1. cache'[p] \in {cache[p], GetEvent(p)}
      BY <2>1, <2>4 DEF LoadKnown
    <3> QED
      BY <2>1, <2>2, <3>1, GetEventTime DEF IInv, GetEvent, NoEvent
  <2>5. CASE \E q \in Pubkeys, t \in Time : RelayEvent(q, t)
    <3> PICK q \in Pubkeys, t \in Time : RelayEvent(q, t)
      BY <2>5
    <3>1. t \in Nat
      BY BookAssumption DEF Time
    <3>2. cache'[p] = cache[p] \/ (cache'[p] = t /\ (cache[p] = 0 \/ t > cache[p]))
      BY <2>1 DEF RelayEvent, HandleEvent, NoEvent, Cached
    <3> QED
      BY <2>1, <2>2, <3>1, <3>2
  <2>6. CASE \E r \in Relays : RelayDone(r)
    <3>1. CASE Oneose
      <4>1. cache'[p] \in {cache[p], GetEvent(p)}
        BY <3>1, OneoseAnswers
      <4> QED
        BY <2>1, <2>2, <4>1, GetEventTime DEF IInv, GetEvent, NoEvent
    <3> QED
      BY <2>2, <2>6, <3>1 DEF RelayDone
  <2> QED
    BY <2>3, <2>4, <2>5, <2>6
       DEF Next, vars, LoadJoins, LoadQueues, TimerExpires, WaitElapses, StoreWrite, ClearStore
<1> QED
  BY <1>1, Invariance, PTL DEF Spec, CacheMonotone

(* A caller that is told null is told so of an author nothing is known of. *)
THEOREM NullIsTrue == Spec => NullMeansUnknown
<1> DEFINE Step == \A c \in Callers :
             awaits[c] # NoKey /\ awaits'[c] = NoKey /\ got'[c] = NoEvent
               => store'[awaits[c]] = NoEvent /\ cache'[awaits[c]] = NoEvent
<1>1. IInv /\ [Next]_vars => Step
  <2> SUFFICES ASSUME IInv, [Next]_vars, NEW c \in Callers,
                      awaits[c] # NoKey, awaits'[c] = NoKey, got'[c] = NoEvent
               PROVE  store'[awaits[c]] = NoEvent /\ cache'[awaits[c]] = NoEvent
    OBVIOUS
  <2>1. awaits[c] \in Pubkeys
    BY DEF IInv, TypeOK
  <2>2. CASE \E r \in Relays : RelayDone(r) /\ Oneose
    <3>1. Resolves(c) /\ awaits[c] \in DOMAIN fetching
      BY <2>2, OneoseAnswers DEF Oneose
    <3>2. got'[c] = GetEvent(awaits[c]) /\ cache'[awaits[c]] = GetEvent(awaits[c])
      BY <2>1, <2>2, <3>1, OneoseAnswers DEF Oneose, Answer, Cleared
    <3>3. store' = store
      BY <2>2 DEF RelayDone
    <3> QED
      BY <3>2, <3>3 DEF GetEvent
  <2>3. CASE UNCHANGED awaits
    BY <2>3
  <2>4. CASE \E d \in Callers, p \in Pubkeys : awaits' = [awaits EXCEPT ![d] = p] /\ awaits[d] = NoKey
    BY <2>4, BookAssumption DEF IInv, TypeOK
  <2> QED
    BY <2>2, <2>3, <2>4
       DEF Next, vars, LoadKnown, LoadJoins, LoadQueues, TimerExpires, WaitElapses,
           RelayEvent, RelayDone, StoreWrite, ClearStore
<1> QED
  BY <1>1, Invariance, PTL DEF Spec, NullMeansUnknown

(* Only the owner's CLEAR leaves a cached event without its stored one.    *)
THEOREM CacheIsBacked == Spec => CacheBackedByStore
<1> DEFINE Step == \A p \in Pubkeys :
             cache[p] <= store[p] /\ cache'[p] > store'[p] => ClearStore
<1>1. IInv /\ IInv' /\ [Next]_vars => Step
  <2> SUFFICES ASSUME IInv, IInv', [Next]_vars, NEW p \in Pubkeys,
                      cache[p] <= store[p], ~ ClearStore
               PROVE  cache'[p] <= store'[p]
    BY DEF IInv, TypeOK
  <2>1. /\ cache[p] \in Nat /\ store[p] \in Nat
        /\ store \in [Pubkeys -> 0..MaxTime] /\ cache \in [Pubkeys -> 0..MaxTime]
    BY DEF IInv, TypeOK
  <2>2. GetEvent(p) <= store[p]
    BY <2>1 DEF GetEvent
  <2>3. CASE UNCHANGED <<store, cache>>
    BY <2>3
  <2>4. CASE \E c \in Callers, q \in Pubkeys : LoadKnown(c, q)
    <3>1. cache'[p] \in {cache[p], GetEvent(p)} /\ store' = store
      BY <2>1, <2>4 DEF LoadKnown
    <3> QED
      BY <2>2, <3>1
  <2>5. CASE \E q \in Pubkeys, t \in Time : RelayEvent(q, t)
    <3> PICK q \in Pubkeys, t \in Time : RelayEvent(q, t)
      BY <2>5
    <3>1. CASE q # p
      BY <2>1, <3>1 DEF RelayEvent, HandleEvent
    <3>2. CASE q = p
      <4>1. store'[p] = Newer(store[p], t) /\ cache'[p] \in {cache[p], t}
        BY <2>1, <3>2 DEF RelayEvent, HandleEvent, Cached
      <4>2. Newer(store[p], t) >= store[p] /\ Newer(store[p], t) >= t /\ Newer(store[p], t) \in Nat
        <5>1. store[p] \in 0..MaxTime
          BY DEF IInv, TypeOK
        <5> QED
          BY <5>1, NewerTime
      <4>3. t \in Nat
        BY BookAssumption DEF Time
      <4> QED
        BY <2>1, <4>1, <4>2, <4>3
    <3> QED
      BY <3>1, <3>2
  <2>6. CASE \E q \in Pubkeys, t \in Time : StoreWrite(q, t)
    <3> PICK q \in Pubkeys, t \in Time : StoreWrite(q, t)
      BY <2>6
    <3>1. Newer(store[q], t) >= store[q] /\ Newer(store[q], t) \in Nat
      <4>1. store[q] \in 0..MaxTime
        BY DEF IInv, TypeOK
      <4> QED
        BY <4>1, NewerTime
    <3>2. store'[p] \in {store[p], Newer(store[q], t)} /\ (store'[p] # store[p] => p = q)
      BY <2>1 DEF StoreWrite
    <3>3. store'[p] >= store[p] /\ store'[p] \in Nat
      BY <2>1, <3>1, <3>2
    <3> QED
      BY <2>1, <3>3 DEF StoreWrite
  <2>7. CASE \E r \in Relays : RelayDone(r) /\ Oneose
    <3>1. cache'[p] \in {cache[p], GetEvent(p)} /\ store' = store
      BY <2>7, OneoseAnswers DEF RelayDone
    <3> QED
      BY <2>2, <3>1
  <2> QED
    BY <2>3, <2>4, <2>5, <2>6, <2>7
       DEF Next, vars, LoadJoins, LoadQueues, TimerExpires, WaitElapses, RelayDone
<1> QED
  BY <1>1, Invariance, PTL DEF Spec, CacheBackedByStore

-----------------------------------------------------------------------------
(* Refinement *)

(* What a load returns, as the function that Loader calls known. *)
Known == [p \in Pubkeys |-> GetEvent(p)]

(* What a book knows of its authors is a function to times. *)
LEMMA KnownType ==
  ASSUME IInv'
  PROVE  Known' \in [Pubkeys -> 0..MaxTime]
BY DEF IInv, TypeOK, GetEvent, Known

(* Every step of the book is a step of Loader, or leaves it unchanged.     *)
LEMMA StepRefines ==
  ASSUME IInv, IInv', [Next]_vars
  PROVE  [Loader!Next]_(Loader!vars)
<1> USE DEF Loader!Next, Loader!vars, Loader!NoEvent, NoEvent
<1>1. ASSUME UNCHANGED <<store, cache>>
      PROVE  Known' = Known
  BY <1>1 DEF Known, GetEvent
<1>2. ASSUME NEW c \in Callers, NEW p \in Pubkeys, LoadKnown(c, p)
      PROVE  Loader!AskKnown(c, p)
  <2>1. Known' = Known
    BY <1>2 DEF IInv, TypeOK, Known, GetEvent, LoadKnown, NoEvent
  <2> QED
    BY <1>2, <2>1 DEF Loader!AskKnown, LoadKnown, Known
<1>3. ASSUME NEW c \in Callers, NEW p \in Pubkeys,
             LoadJoins(c, p) \/ \E relays \in Hints : LoadQueues(c, p, relays)
      PROVE  Loader!AskUnknown(c, p)
  <2>1. Known' = Known
    BY <1>1, <1>3 DEF LoadJoins, LoadQueues
  <2> QED
    BY <1>3, <2>1 DEF Loader!AskUnknown, LoadJoins, LoadQueues, Known
<1>4. ASSUME Oneose, UNCHANGED store
      PROVE  Loader!Settle(DOMAIN fetching)
  <2>1. Known' = Known
    BY <1>4, OneoseAnswers DEF Known, GetEvent
  <2>2. \A c \in Callers : Resolves(c) <=> awaits[c] \in DOMAIN fetching
    BY <1>4, OneoseAnswers
  <2>3. \A c \in Callers : awaits[c] \in DOMAIN fetching => Known[awaits[c]] = GetEvent(awaits[c])
    BY DEF Known, IInv, TypeOK, AuthorMap
  <2> QED
    BY <1>4, <2>1, <2>2, <2>3 DEF Loader!Settle, Oneose, Known, Answer, Cleared
<1>5. ASSUME UNCHANGED <<awaits, got>>
      PROVE  Loader!Learn
  <2>1. Known' \in [Pubkeys -> 0..MaxTime]
    BY KnownType
  <2> QED
    BY <1>5, <2>1 DEF Loader!Learn, Known
<1>6. CASE \E c \in Callers, p \in Pubkeys : LoadKnown(c, p)
  BY <1>2, <1>6
<1>7. CASE \E c \in Callers, p \in Pubkeys : LoadJoins(c, p)
  BY <1>3, <1>7
<1>8. CASE \E c \in Callers, p \in Pubkeys, relays \in Hints : LoadQueues(c, p, relays)
  BY <1>3, <1>8
<1>9. CASE \E r \in Relays : RelayDone(r) /\ Oneose
  <2>1. Loader!Settle(DOMAIN fetching)
    BY <1>4, <1>9 DEF RelayDone
  <2>2. DOMAIN fetching \in SUBSET Pubkeys
    BY DEF IInv, TypeOK, AuthorMap
  <2> QED
    BY <2>1, <2>2
<1>10. CASE UNCHANGED <<awaits, got>>
  BY <1>5, <1>10
<1> QED
  BY <1>6, <1>7, <1>8, <1>9, <1>10
     DEF Next, vars, TimerExpires, WaitElapses, RelayEvent, RelayDone, StoreWrite, ClearStore

(* The book implements Loader. *)
THEOREM BookImplementsLoader == Spec => ImplementsLoader
<1>1. Init => Loader!Init
  BY DEF Init, Loader!Init, GetEvent, NoEvent, Loader!NoEvent
<1>2. IInv /\ IInv' /\ [Next]_vars => [Loader!Next]_(Loader!vars)
  BY StepRefines
<1> QED
  BY <1>1, <1>2, Invariance, PTL DEF Spec, ImplementsLoader, Loader!Spec

-----------------------------------------------------------------------------
(* A book of one author *)

(* Whoever is queued has a timer that will fetch him. *)
QueueIsArmed == DOMAIN next # {} => throttle = "trailing"

(* fetchEvents takes the whole queue when the running batch cannot have    *)
(* another author: with one author, the batch and the queue exclude each   *)
(* other.                                                                  *)
LEMMA FetchEventsEmpties ==
  ASSUME \A p, q \in Pubkeys : p = q, NEW queue, FetchEvents(queue),
         DOMAIN queue \subseteq Pubkeys, DOMAIN fetching \subseteq Pubkeys,
         DOMAIN queue \cap DOMAIN fetching = {}
  PROVE  DOMAIN next' = {}
<1>1. DOMAIN fetching # {} => DOMAIN queue = {}
  OBVIOUS
<1> QED
  BY <1>1 DEF FetchEvents, EmptyMap

(* Every step of such a book leaves the queue empty or the timer armed. *)
LEMMA ArmedStep ==
  ASSUME \A p, q \in Pubkeys : p = q, IInv, QueueIsArmed, [Next]_vars
  PROVE  QueueIsArmed'
<1>1. /\ DOMAIN next \subseteq Pubkeys /\ DOMAIN fetching \subseteq Pubkeys
      /\ DOMAIN next \cap DOMAIN fetching = {}
      /\ DOMAIN pending = DOMAIN next \cup DOMAIN fetching
  BY DEF IInv, TypeOK, AuthorMap, Batch, PendingExact
<1>2. ASSUME NEW c \in Callers, NEW p \in Pubkeys, NEW relays \in Hints, LoadQueues(c, p, relays)
      PROVE  QueueIsArmed'
  <2>1. DOMAIN Enqueued(p, relays) = DOMAIN next \cup {p}
    BY EnqueuedType DEF IInv
  <2>2. p \notin DOMAIN fetching
    BY <1>1, <1>2 DEF LoadQueues, IsPending
  <2>3. FetchEvents(Enqueued(p, relays)) => DOMAIN next' = {}
    BY <1>1, <2>1, <2>2, FetchEventsEmpties
  <2>4. throttle' = "trailing" \/ DOMAIN next' = {}
    BY <1>2, <2>3 DEF LoadQueues, FetchEventsThrottle
  <2> QED
    BY <2>4 DEF QueueIsArmed
<1>3. CASE TimerExpires
  <2>1. FetchEvents(next) => DOMAIN next' = {}
    BY <1>1, FetchEventsEmpties
  <2> QED
    BY <1>3, <2>1 DEF TimerExpires, QueueIsArmed
<1>4. CASE WaitElapses
  BY <1>4 DEF WaitElapses, QueueIsArmed
<1>5. CASE UNCHANGED <<next, throttle>>
  BY <1>5 DEF QueueIsArmed
<1> QED
  BY <1>2, <1>3, <1>4, <1>5 DEF Next, vars, LoadKnown, LoadJoins, RelayEvent, RelayDone, StoreWrite,
     ClearStore

(* A book that is asked for one author only has no way to miss its queue:  *)
(* the turn of fetchEvents that a running batch makes empty (line 62) is   *)
(* one that another author needs.                                          *)
THEOREM OneAuthorIsNeverMissed ==
  ASSUME \A p, q \in Pubkeys : p = q
  PROVE  Spec => []QueueIsArmed
<1>1. Init => QueueIsArmed
  BY DEF Init, QueueIsArmed, EmptyMap
<1>2. IInv /\ QueueIsArmed /\ [Next]_vars => QueueIsArmed'
  BY ArmedStep
<1> QED
  BY <1>1, <1>2, Invariance, PTL DEF Spec
=============================================================================
