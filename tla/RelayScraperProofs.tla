-------------------------- MODULE RelayScraperProofs --------------------------
(***************************************************************************)
(* Proofs about module RelayScraper, for any relays, events, page limit    *)
(* and tolerance, and for publications with any created_at.                *)
(*                                                                         *)
(* NoGapAboveUntil and TailWindowComplete are not inductive: that lowering *)
(* `until` to an event of the page skips nothing depends on the page being *)
(* the newest events below the `until` it was asked with (PageIsNewest,    *)
(* RequestCovers), and that two EOSEs mean an empty window depends on the  *)
(* second page having been empty (EmptyPage).  CompleteAtRest has an       *)
(* invariant of its own: where each event that is due is on its way to the *)
(* node (Delivery).                                                        *)
(***************************************************************************)
EXTENDS RelayScraper, FiniteSetTheorems, TLAPS

(* Before the connection opens nothing has happened yet. *)
Untouched(s) ==
  conn[s] \in {"new", "connecting"} =>
    /\ until[s] = Infinity
    /\ asked[s] = NoFilter
    /\ batch[s] = {} /\ live[s] = {}
    /\ ~ eosing[s] /\ ~ tail[s]

(* What is on its way is held by the relay, and so is the archive. *)
HeldByRelay(s) ==
  /\ OnePerId(held[s])
  /\ archive[s] \subseteq held[s]
  /\ batch[s] \cup live[s] \subseteq held[s]

(* The window of the tail: what a REQ sent now asks for. *)
WindowStart(s) == SubscribeFilter(since[s], until[s]).low

(* A REQ on its way asks at least for what one sent now would ask for. *)
RequestCovers(s) ==
  ~ tail[s] /\ asked[s] # NoFilter =>
    asked[s].low <= WindowStart(s) /\ asked[s].high >= until[s]

Received(f) == f.valid => f.id \in seen

(* What the walk owes nothing more: f was received or overtaken. *)
Settled(s, f) == Received(f) \/ Overtaken(s, f)

(* Whatever is newer than an event of the page is in the page or settled. *)
PageIsNewest(s) ==
  ~ tail[s] =>
    \A e \in batch[s], f \in archive[s] :
      Time(f) > Time(e) => f \in batch[s] \/ Settled(s, f)

(* A page without events after an EOSE means that the window is exhausted. *)
EmptyPage(s) ==
  ~ tail[s] /\ eosing[s] /\ eose[s] /\ batch[s] = {} =>
    \A f \in archive[s] : Time(f) >= WindowStart(s) => Settled(s, f)

NoGap(s) ==
  ~ tail[s] => \A f \in archive[s] : Time(f) > until[s] => Settled(s, f)

TailWindow(s) ==
  tail[s] => \A f \in archive[s] : Time(f) >= since[s] - Tolerance => Settled(s, f)

Walk(s) ==
  /\ Untouched(s)
  /\ HeldByRelay(s)
  /\ RequestCovers(s)
  /\ PageIsNewest(s)
  /\ EmptyPage(s)
  /\ NoGap(s)
  /\ TailWindow(s)

IInv == TypeOK /\ \A s \in Scrapers : Walk(s)

(* No two events have the same created_at.  Where two share a second the   *)
(* edge of a page may separate them, and the walk loses the second one.    *)
DistinctTimes == \A i, j \in Ids : At[i] = At[j] => i = j

-----------------------------------------------------------------------------
(* Types *)

(* The time of an event is a positive number of the model. *)
LEMMA TimeType ==
  ASSUME NEW e \in Events
  PROVE  Time(e) \in 1..MaxTime /\ e.id \in Ids
BY ScraperAssumption DEF Events, Time

(* What subscribe() sends is a filter. *)
LEMMA FilterTypes ==
  /\ NoFilter \in Filters
  /\ \A t \in 0..MaxTime, u \in 0..Infinity : SubscribeFilter(t, u) \in Filters
<1>1. MaxTime \in Nat /\ Tolerance \in Nat
  BY ScraperAssumption
<1>2. NoFilter \in Filters
  BY <1>1 DEF NoFilter, Filters, Infinity
<1>3. ASSUME NEW t \in 0..MaxTime, NEW u \in 0..Infinity
      PROVE  SubscribeFilter(t, u) \in Filters
  BY <1>1, <1>3 DEF SubscribeFilter, Filters, Infinity
<1> QED
  BY <1>2, <1>3

(* subscribe() keeps the type of `asked`. *)
LEMMA SubscribeType ==
  ASSUME TypeOK, NEW s \in Scrapers, NEW t \in 0..MaxTime, NEW u \in 0..Infinity,
         Subscribe(s, t, u)
  PROVE  asked' \in [Scrapers -> Filters]
BY FilterTypes DEF TypeOK, Subscribe

(* An EVENT keeps the types of the cursors and of the output. *)
LEMMA OnEventType ==
  ASSUME TypeOK, NEW s \in Scrapers, NEW e \in Events, OnEvent(s, e)
  PROVE  /\ since' \in [Scrapers -> 0..MaxTime]
         /\ until' \in [Scrapers -> 0..Infinity]
         /\ eose' \in [Scrapers -> BOOLEAN]
         /\ seen' \in SUBSET Ids
         /\ emitted' \in [Ids -> Nat]
         /\ UNCHANGED <<conn, tail>>
<1>1. MaxTime \in Nat /\ Time(e) \in 1..MaxTime /\ e.id \in Ids
  BY ScraperAssumption, TimeType
<1>2. LowerUntil(s, Time(e)) \in 0..Infinity
  BY <1>1 DEF LowerUntil, TypeOK, Infinity
<1>3. RaiseSince(s, Time(e)) \in 0..MaxTime
  BY <1>1 DEF RaiseSince, TypeOK
<1> QED
  BY <1>1, <1>2, <1>3 DEF OnEvent, TypeOK, outVars

(* The initial states have the types. *)
LEMMA InitType == Init => TypeOK
<1>1. MaxTime \in Nat
  BY ScraperAssumption
<1> QED
  BY <1>1, FilterTypes DEF Init, TypeOK, Infinity

(* Every step keeps the types. *)
LEMMA NextType == TypeOK /\ [Next]_vars => TypeOK'
<1> SUFFICES ASSUME TypeOK, [Next]_vars
             PROVE  TypeOK'
  OBVIOUS
<1> USE DEF scraperVars, outVars, relayVars
<1>0. MaxTime \in Nat /\ Infinity \in 0..Infinity
  BY ScraperAssumption DEF Infinity
<1>1. ASSUME NEW s \in Scrapers, Connect(s) \/ Disconnect(s)
      PROVE  TypeOK'
  BY <1>1 DEF Connect, Disconnect, TypeOK
<1>2. ASSUME NEW s \in Scrapers, Opened(s)
      PROVE  TypeOK'
  <2>1. asked' \in [Scrapers -> Filters]
    BY <1>2, SubscribeType DEF Opened, TypeOK
  <2> QED
    BY <1>2, <2>1 DEF Opened, TypeOK
<1>3. ASSUME NEW s \in Scrapers, Closed(s)
      PROVE  TypeOK'
  BY <1>3, FilterTypes DEF Closed, TypeOK
<1>4. ASSUME NEW s \in Scrapers, NEW e \in Events, StoredEventArrives(s, e)
      PROVE  TypeOK'
  <2>1. batch' \in [Scrapers -> SUBSET Events]
    BY <1>4 DEF StoredEventArrives, TypeOK
  <2> QED
    BY <1>4, <2>1, OnEventType DEF StoredEventArrives, TypeOK
<1>5. ASSUME NEW s \in Scrapers, NEW e \in Events, LiveEventArrives(s, e)
      PROVE  TypeOK'
  <2>1. live' \in [Scrapers -> SUBSET Events]
    BY <1>5 DEF LiveEventArrives, TypeOK
  <2> QED
    BY <1>5, <2>1, OnEventType DEF LiveEventArrives, TypeOK
<1>6. ASSUME NEW s \in Scrapers, EoseArrives(s)
      PROVE  TypeOK'
  <2>1. asked' \in [Scrapers -> Filters]
    <3>1. since[s] \in 0..MaxTime /\ until[s] \in 0..Infinity
      BY DEF TypeOK
    <3> QED
      BY <1>0, <1>6, <3>1, SubscribeType DEF EoseArrives, OnEose, TypeOK, SecondEose, TailUntil
  <2>2. /\ until' \in [Scrapers -> 0..Infinity]
        /\ eose' \in [Scrapers -> BOOLEAN]
        /\ tail' \in [Scrapers -> BOOLEAN]
    BY <1>0, <1>6 DEF EoseArrives, OnEose, TypeOK, SecondEose, TailUntil
  <2> QED
    BY <1>6, <2>1, <2>2 DEF EoseArrives, OnEose, TypeOK
<1>7. ASSUME NEW s \in Scrapers, RelayAnswers(s)
      PROVE  TypeOK'
  <2>1. batch' \in [Scrapers -> SUBSET Events]
    BY <1>7 DEF RelayAnswers, TypeOK
  <2> QED
    BY <1>7, <2>1, FilterTypes DEF RelayAnswers, TypeOK
<1>8. ASSUME NEW s \in Scrapers, RelayRefuses(s)
      PROVE  TypeOK'
  BY <1>8, FilterTypes DEF RelayRefuses, TypeOK
<1>9. ASSUME NEW s \in Scrapers, NEW e \in Events, Publish(s, e)
      PROVE  TypeOK'
  BY <1>9 DEF Publish, TypeOK
<1>10. CASE UNCHANGED vars
  BY <1>10 DEF vars, TypeOK
<1> QED
  BY <1>1, <1>2, <1>3, <1>4, <1>5, <1>6, <1>7, <1>8, <1>9, <1>10 DEF Next

(* Every variable of the scrapers keeps its type. *)
THEOREM TypeCorrect == Spec => []TypeOK
BY InitType, NextType, PTL DEF Spec

-----------------------------------------------------------------------------
(* Every event is emitted once *)

(* Only an EVENT changes what was seen and emitted. *)
LEMMA OutStep ==
  ASSUME [Next]_vars
  PROVE  \/ UNCHANGED outVars
         \/ \E s \in Scrapers, e \in Events : OnEvent(s, e)
BY DEF Next, vars, Connect, Opened, Disconnect, Closed, StoredEventArrives,
       LiveEventArrives, EoseArrives, OnEose, RelayAnswers, RelayRefuses, Publish

(* Whatever relays send, an event is emitted once, and only if it is seen. *)
THEOREM EventsEmittedOnce == Spec => []EmittedOnce
<1>1. Init => EmittedOnce
  BY DEF Init, EmittedOnce
<1>2. TypeOK /\ EmittedOnce /\ [Next]_vars => EmittedOnce'
  <2> SUFFICES ASSUME TypeOK, EmittedOnce, [Next]_vars
               PROVE  EmittedOnce'
    OBVIOUS
  <2>1. CASE UNCHANGED outVars
    BY <2>1 DEF outVars, EmittedOnce
  <2>2. CASE \E s \in Scrapers, e \in Events : OnEvent(s, e)
    <3> PICK s \in Scrapers, e \in Events : OnEvent(s, e)
      BY <2>2
    <3>1. e.id \in Ids
      BY TimeType
    <3> QED
      BY <2>1, <3>1 DEF OnEvent, Fresh, outVars, EmittedOnce, TypeOK
  <2> QED
    BY <2>1, <2>2, OutStep
<1> QED
  BY <1>1, <1>2, TypeCorrect, PTL DEF Spec

-----------------------------------------------------------------------------
(* The walk *)

(* The constants are numbers. *)
LEMMA BoundsAreNumbers ==
  /\ MaxTime \in Nat /\ Tolerance \in Nat /\ Infinity = MaxTime + 1
BY ScraperAssumption DEF Infinity

(* What is settled stays settled. *)
LEMMA SettledStays ==
  ASSUME NEW s \in Scrapers, seen \subseteq seen', early[s] \subseteq early'[s]
  PROVE  \A f : Settled(s, f) => Settled(s, f)'
BY DEF Settled, Received, Overtaken, Time

(* A scraper that a step leaves alone: others may add to `seen`. *)
LEMMA WalkFrame ==
  ASSUME NEW s \in Scrapers, Walk(s), seen \subseteq seen',
         conn'[s] = conn[s], since'[s] = since[s], until'[s] = until[s],
         eose'[s] = eose[s], tail'[s] = tail[s], held'[s] = held[s],
         archive'[s] = archive[s], early'[s] = early[s], asked'[s] = asked[s],
         batch'[s] = batch[s], eosing'[s] = eosing[s], live'[s] = live[s]
  PROVE  Walk(s)'
<1>1. Untouched(s)' /\ HeldByRelay(s)' /\ RequestCovers(s)'
  BY DEF Walk, Untouched, HeldByRelay, OnePerId, RequestCovers, WindowStart
<1>2. \A f : Settled(s, f) => Settled(s, f)'
  BY SettledStays
<1>3. PageIsNewest(s)' /\ EmptyPage(s)' /\ NoGap(s)' /\ TailWindow(s)'
  BY <1>2 DEF Walk, PageIsNewest, EmptyPage, WindowStart, NoGap, TailWindow, Time
<1> QED
  BY <1>1, <1>3 DEF Walk

(* The window of the tail only shrinks. *)
LEMMA WindowRises ==
  ASSUME NEW t \in 0..MaxTime, NEW u \in 0..MaxTime, t <= u,
         NEW from \in 0..Infinity, NEW to \in 0..Infinity
  PROVE  /\ SubscribeFilter(t, from).low <= SubscribeFilter(u, to).low
         /\ SubscribeFilter(u, to).low \in Nat
         /\ u - Tolerance <= SubscribeFilter(u, to).low
BY BoundsAreNumbers DEF SubscribeFilter

(* What an EVENT does to the cursors of the scraper that receives it. *)
LEMMA OnEventCursors ==
  ASSUME TypeOK, NEW s \in Scrapers, NEW e \in Events, OnEvent(s, e)
  PROVE  /\ since[s] <= since'[s] /\ since'[s] \in 0..MaxTime
         /\ until'[s] <= until[s] /\ until'[s] \in 0..Infinity
         /\ tail[s] => until'[s] = until[s]
         /\ until'[s] # until[s] => until'[s] = Time(e) - 1
         /\ eose'[s] = FALSE
         /\ seen \subseteq seen' /\ Received(e)'
         /\ UNCHANGED <<conn, tail>>
<1>1. /\ Time(e) \in 1..MaxTime
      /\ since[s] \in 0..MaxTime /\ until[s] \in 0..Infinity
  BY TimeType DEF TypeOK
<1>2. until'[s] = LowerUntil(s, Time(e)) /\ since'[s] = RaiseSince(s, Time(e))
  BY DEF OnEvent, TypeOK
<1>3. seen \subseteq seen' /\ Received(e)' /\ eose'[s] = FALSE /\ UNCHANGED <<conn, tail>>
  BY DEF OnEvent, Fresh, Received, outVars, TypeOK
<1>4. since[s] <= since'[s] /\ since'[s] \in 0..MaxTime
  BY <1>1, <1>2, BoundsAreNumbers DEF RaiseSince
<1>5. /\ until'[s] <= until[s] /\ until'[s] \in 0..Infinity
      /\ tail[s] => until'[s] = until[s]
      /\ until'[s] # until[s] => until'[s] = Time(e) - 1
  BY <1>1, <1>2, BoundsAreNumbers DEF LowerUntil
<1> QED
  BY <1>3, <1>4, <1>5

(* The scraper that an event reaches, when the events of the archive that  *)
(* are as new as it are settled once it has arrived.                       *)
LEMMA OnEventWalk ==
  ASSUME TypeOK, NEW s \in Scrapers, NEW e \in Events, Walk(s), OnEvent(s, e),
         early[s] \subseteq early'[s],
         \A f \in archive[s] : ~ tail[s] /\ Time(f) >= Time(e) => Settled(s, f)',
         UNCHANGED <<archive, asked>>
  PROVE  RequestCovers(s)' /\ EmptyPage(s)' /\ NoGap(s)' /\ TailWindow(s)'
<1>1. /\ since[s] <= since'[s] /\ since'[s] \in 0..MaxTime /\ since[s] \in 0..MaxTime
      /\ until'[s] <= until[s] /\ until'[s] \in 0..Infinity /\ until[s] \in 0..Infinity
      /\ until'[s] # until[s] => until'[s] = Time(e) - 1
      /\ eose'[s] = FALSE
      /\ seen \subseteq seen'
      /\ tail'[s] = tail[s]
  BY OnEventCursors DEF TypeOK
<1>2. archive[s] \subseteq Events /\ asked[s] \in Filters
  BY DEF TypeOK
<1>3. \A f \in Events : Time(f) \in 1..MaxTime
  BY TimeType
<1>4. \A f : Settled(s, f) => Settled(s, f)'
  BY <1>1, SettledStays
<1>5. RequestCovers(s)'
  <2>1. WindowStart(s) <= WindowStart(s)' /\ WindowStart(s)' \in Nat /\ WindowStart(s) \in Nat
    BY <1>1, WindowRises DEF WindowStart
  <2>2. asked[s].low \in Nat /\ asked[s].high \in Nat
    BY <1>2, BoundsAreNumbers DEF Filters
  <2> QED
    BY <1>1, <2>1, <2>2, BoundsAreNumbers DEF Walk, RequestCovers
<1>6. EmptyPage(s)'
  BY <1>1 DEF EmptyPage
<1>7. NoGap(s)'
  <2> SUFFICES ASSUME ~ tail[s], NEW f \in archive[s], Time(f) > until'[s]
               PROVE  Settled(s, f)'
    BY <1>1 DEF NoGap, Time
  <2>1. CASE Time(f) > until[s]
    BY <1>4, <2>1 DEF Walk, NoGap
  <2>2. CASE ~ (Time(f) > until[s])
    <3>1. Time(f) >= Time(e)
      BY <1>1, <1>2, <1>3, <2>2, BoundsAreNumbers
    <3> QED
      BY <3>1
  <2> QED
    BY <2>1, <2>2
<1>8. TailWindow(s)'
  <2> SUFFICES ASSUME tail[s], NEW f \in archive[s], Time(f) >= since'[s] - Tolerance
               PROVE  Settled(s, f)'
    BY <1>1 DEF TailWindow, Time
  <2>1. Time(f) >= since[s] - Tolerance
    BY <1>1, <1>2, <1>3, BoundsAreNumbers
  <2> QED
    BY <1>4, <2>1 DEF Walk, TailWindow
<1> QED
  BY <1>5, <1>6, <1>7, <1>8

(* Connecting and disconnecting leave the walk alone. *)
LEMMA ConnectWalk ==
  ASSUME TypeOK, NEW s \in Scrapers, Walk(s), Connect(s) \/ Disconnect(s)
  PROVE  Walk(s)'
<1>1. /\ UNCHANGED <<since, until, eose, tail, outVars, relayVars>>
      /\ conn'[s] \in {"connecting", "closing"}
      /\ conn'[s] = "connecting" => conn[s] = "new"
  BY DEF Connect, Disconnect, TypeOK
<1>2. Untouched(s)'
  BY <1>1 DEF Walk, Untouched, relayVars
<1>3. /\ HeldByRelay(s)' /\ RequestCovers(s)' /\ PageIsNewest(s)'
      /\ EmptyPage(s)' /\ NoGap(s)' /\ TailWindow(s)'
  BY <1>1 DEF Walk, HeldByRelay, RequestCovers, WindowStart, PageIsNewest,
              EmptyPage, NoGap, TailWindow, Settled, Overtaken, Received, relayVars, outVars
<1> QED
  BY <1>2, <1>3 DEF Walk

(* The first REQ asks for the whole archive. *)
LEMMA OpenedWalk ==
  ASSUME TypeOK, NEW s \in Scrapers, Walk(s), Opened(s)
  PROVE  Walk(s)'
<1>1. /\ until[s] = Infinity /\ batch[s] = {} /\ live[s] = {} /\ ~ eosing[s] /\ ~ tail[s]
      /\ UNCHANGED <<since, until, eose, tail, outVars, held, early, sub, batch, eosing, live>>
      /\ conn'[s] = "open" /\ archive'[s] = held[s]
      /\ asked'[s] = SubscribeFilter(since[s], until[s])
  BY DEF Opened, Walk, Untouched, Subscribe, TypeOK
<1>2. Untouched(s)' /\ HeldByRelay(s)' /\ PageIsNewest(s)' /\ EmptyPage(s)'
  BY <1>1 DEF Walk, Untouched, HeldByRelay, PageIsNewest, EmptyPage
<1>3. RequestCovers(s)'
  <2>1. WindowStart(s) \in Nat /\ until[s] \in Nat
    BY <1>1, WindowRises, BoundsAreNumbers DEF WindowStart, TypeOK
  <2> QED
    BY <1>1, <2>1 DEF RequestCovers, WindowStart, SubscribeFilter
<1>4. NoGap(s)'
  <2>1. \A f \in held[s] : Time(f) \in 1..MaxTime
    BY TimeType DEF TypeOK
  <2> QED
    BY <1>1, <2>1, BoundsAreNumbers DEF NoGap, Time
<1>5. TailWindow(s)'
  BY <1>1 DEF TailWindow
<1> QED
  BY <1>2, <1>3, <1>4, <1>5 DEF Walk

(* A closed connection has nothing on its way. *)
LEMMA ClosedWalk ==
  ASSUME TypeOK, NEW s \in Scrapers, Walk(s), Closed(s)
  PROVE  Walk(s)'
<1>1. /\ UNCHANGED <<since, until, eose, tail, outVars, held, archive, early>>
      /\ conn'[s] = "closed" /\ asked'[s] = NoFilter /\ batch'[s] = {}
      /\ ~ eosing'[s] /\ live'[s] = {}
  BY DEF Closed, TypeOK
<1> QED
  BY <1>1 DEF Walk, Untouched, HeldByRelay, RequestCovers, PageIsNewest,
              EmptyPage, NoGap, TailWindow, Settled, Overtaken, Received, outVars

(* An event of the page: what is newer is settled, and what is as new is   *)
(* the event itself.                                                       *)
LEMMA StoredEventWalk ==
  ASSUME TypeOK, DistinctTimes, NEW s \in Scrapers, NEW e \in Events, Walk(s),
         StoredEventArrives(s, e)
  PROVE  Walk(s)'
<1>1. /\ OnEvent(s, e) /\ e \in batch[s] /\ batch'[s] = batch[s] \ {e}
      /\ \A f \in batch[s] : Time(f) <= Time(e)
      /\ UNCHANGED <<held, archive, early, asked, sub, eosing, live>>
  BY DEF StoredEventArrives, TypeOK
<1>2. seen \subseteq seen' /\ Received(e)' /\ UNCHANGED <<conn, tail>>
  BY <1>1, OnEventCursors
<1>3. \A f \in Events : Time(f) \in Nat
  BY TimeType, BoundsAreNumbers
<1>4. batch[s] \subseteq Events /\ archive[s] \subseteq Events
  BY DEF TypeOK
<1>5. \A f : Settled(s, f) => Settled(s, f)'
  BY <1>1, <1>2, SettledStays
<1>6. \A f \in archive[s] : ~ tail[s] /\ Time(f) >= Time(e) => Settled(s, f)'
  <2> SUFFICES ASSUME NEW f \in archive[s], ~ tail[s], Time(f) >= Time(e)
               PROVE  Settled(s, f)'
    OBVIOUS
  <2>1. CASE Time(f) > Time(e)
    <3>1. f \notin batch[s]
      BY <1>1, <1>3, <1>4, <2>1
    <3> QED
      BY <1>1, <1>5, <2>1, <3>1 DEF Walk, PageIsNewest
  <2>2. CASE Time(f) = Time(e)
    <3>1. f.id \in Ids /\ e.id \in Ids /\ f.id = e.id
      BY <1>4, <2>2, TimeType DEF DistinctTimes, Time
    <3>2. f = e
      BY <1>1, <3>1 DEF Walk, HeldByRelay, OnePerId
    <3> QED
      BY <1>2, <3>2 DEF Settled
  <2> QED
    BY <1>3, <1>4, <2>1, <2>2
<1>7. RequestCovers(s)' /\ EmptyPage(s)' /\ NoGap(s)' /\ TailWindow(s)'
  BY <1>1, <1>6, OnEventWalk
<1>8. Untouched(s)' /\ HeldByRelay(s)'
  BY <1>1, <1>2 DEF Walk, Untouched, HeldByRelay, OnePerId
<1>9. PageIsNewest(s)'
  <2> SUFFICES ASSUME ~ tail[s], NEW g \in batch'[s], NEW f \in archive[s], Time(f) > Time(g)
               PROVE  f \in batch'[s] \/ Settled(s, f)'
    BY <1>1, <1>2 DEF PageIsNewest, Time
  <2>1. f \in batch[s] \/ Settled(s, f)
    BY <1>1 DEF Walk, PageIsNewest
  <2>2. f = e => Settled(s, f)'
    BY <1>2 DEF Settled
  <2> QED
    BY <1>1, <1>5, <2>1, <2>2
<1> QED
  BY <1>7, <1>8, <1>9 DEF Walk

(* A live event overtakes the events of the archive that are newer than    *)
(* it, and has itself arrived.                                             *)
LEMMA LiveEventWalk ==
  ASSUME TypeOK, DistinctTimes, NEW s \in Scrapers, NEW e \in Events, Walk(s),
         LiveEventArrives(s, e)
  PROVE  Walk(s)'
<1>1. /\ OnEvent(s, e) /\ e \in live[s] /\ live'[s] = live[s] \ {e}
      /\ early[s] \subseteq early'[s]
      /\ ~ tail[s] => e \in early'[s]
      /\ UNCHANGED <<held, archive, asked, sub, batch, eosing>>
  BY DEF LiveEventArrives, TypeOK
<1>2. seen \subseteq seen' /\ Received(e)' /\ UNCHANGED <<conn, tail>>
  BY <1>1, OnEventCursors
<1>3. \A f : Settled(s, f) => Settled(s, f)'
  BY <1>1, <1>2, SettledStays
<1>4. \A f \in archive[s] : ~ tail[s] /\ Time(f) >= Time(e) => Settled(s, f)'
  <2> SUFFICES ASSUME NEW f \in archive[s], ~ tail[s], Time(f) >= Time(e)
               PROVE  Settled(s, f)'
    OBVIOUS
  <2>1. Time(f) \in Nat /\ Time(e) \in Nat /\ f \in Events
    BY TimeType, BoundsAreNumbers DEF TypeOK
  <2>2. CASE Time(f) > Time(e)
    BY <1>1, <2>2 DEF Settled, Overtaken, Time
  <2>3. CASE Time(f) = Time(e)
    <3>1. f.id = e.id
      BY <2>1, <2>3, TimeType DEF DistinctTimes, Time
    <3>2. e \in held[s] /\ f \in held[s]
      BY <1>1 DEF Walk, HeldByRelay
    <3>3. f = e
      BY <3>1, <3>2 DEF Walk, HeldByRelay, OnePerId
    <3> QED
      BY <1>2, <3>3 DEF Settled
  <2> QED
    BY <2>1, <2>2, <2>3
<1>5. RequestCovers(s)' /\ EmptyPage(s)' /\ NoGap(s)' /\ TailWindow(s)'
  BY <1>1, <1>4, OnEventWalk
<1>6. Untouched(s)' /\ HeldByRelay(s)'
  BY <1>1, <1>2 DEF Walk, Untouched, HeldByRelay, OnePerId
<1>7. PageIsNewest(s)'
  BY <1>1, <1>2, <1>3 DEF Walk, PageIsNewest, Time
<1> QED
  BY <1>5, <1>6, <1>7 DEF Walk

(* EOSE asks for the next page, or ends the walk. *)
LEMMA EoseWalk ==
  ASSUME TypeOK, NEW s \in Scrapers, Walk(s), EoseArrives(s)
  PROVE  Walk(s)'
<1>1. /\ eosing[s] /\ batch[s] = {} /\ ~ eosing'[s] /\ OnEose(s)
      /\ UNCHANGED <<conn, since, outVars, held, archive, early, sub, batch, live>>
  BY DEF EoseArrives, OnEose, TypeOK
<1>2. /\ since[s] \in 0..MaxTime /\ until[s] \in 0..Infinity /\ until[s] \in Nat
      /\ WindowStart(s) \in Nat /\ since[s] - Tolerance <= WindowStart(s)
  BY WindowRises, BoundsAreNumbers DEF WindowStart, TypeOK
<1>3. HeldByRelay(s)' /\ PageIsNewest(s)' /\ EmptyPage(s)'
  BY <1>1 DEF Walk, HeldByRelay, OnePerId, PageIsNewest, EmptyPage
<1>4. Untouched(s)'
  BY <1>1 DEF Walk, Untouched
<1>5. CASE tail[s] /\ UNCHANGED <<until, eose, tail, asked>>
  <2>1. RequestCovers(s)' /\ NoGap(s)' /\ TailWindow(s)'
    BY <1>1, <1>5 DEF Walk, RequestCovers, NoGap, TailWindow, Settled, Overtaken, Received, outVars
  <2> QED
    BY <1>3, <1>4, <2>1 DEF Walk
<1>6. CASE ~ tail[s] /\ eose[s] /\ tail' = [tail EXCEPT ![s] = TRUE]
  <2>1. tail'[s]
    BY <1>6 DEF TypeOK
  <2>2. \A f \in archive[s] : Time(f) >= since[s] - Tolerance => Settled(s, f)
    <3> SUFFICES ASSUME NEW f \in archive[s], Time(f) >= since[s] - Tolerance
                 PROVE  Settled(s, f)
      OBVIOUS
    <3>1. WindowStart(s) = 0 \/ WindowStart(s) = since[s] - Tolerance
      BY DEF WindowStart, SubscribeFilter
    <3>2. Time(f) >= WindowStart(s)
      BY <3>1, TimeType, BoundsAreNumbers DEF TypeOK
    <3> QED
      BY <1>1, <1>6, <3>2 DEF Walk, EmptyPage
  <2>3. RequestCovers(s)' /\ NoGap(s)' /\ TailWindow(s)'
    BY <1>1, <2>1, <2>2 DEF RequestCovers, NoGap, TailWindow, Settled, Overtaken, Received,
                            Time, outVars
  <2> QED
    BY <1>3, <1>4, <2>3 DEF Walk
<1>7. CASE /\ ~ tail[s] /\ ~ eose[s] /\ UNCHANGED <<until, tail>>
           /\ Subscribe(s, since[s], until[s])
  <2>1. asked'[s] = asked[s] \/ asked'[s] = SubscribeFilter(since[s], until[s])
    BY <1>7 DEF Subscribe, TypeOK
  <2>2. RequestCovers(s)'
    BY <1>1, <1>2, <1>7, <2>1 DEF Walk, RequestCovers, WindowStart, SubscribeFilter
  <2>3. NoGap(s)' /\ TailWindow(s)'
    BY <1>1, <1>7 DEF Walk, NoGap, TailWindow, Settled, Overtaken, Received, outVars
  <2> QED
    BY <1>3, <1>4, <2>2, <2>3 DEF Walk
<1> QED
  BY <1>1, <1>5, <1>6, <1>7 DEF OnEose, SecondEose, TailUntil

(* A page leaves out only what is older than all of it, and an empty page  *)
(* leaves out nothing.                                                     *)
LEMMA PageOmits ==
  ASSUME NEW M, NEW P, IsPage(P, M)
  PROVE  /\ \A e \in P, f \in M \ P : Time(f) <= Time(e)
         /\ P = {} => M = {}
<1>1. Cardinality({}) = 0 /\ Limit # 0
  BY FS_EmptySet, ScraperAssumption
<1> QED
  BY <1>1 DEF IsPage

(* The page the relay sends is the newest of what is left. *)
LEMMA AnswersWalk ==
  ASSUME TypeOK, NEW s \in Scrapers, Walk(s), RelayAnswers(s)
  PROVE  Walk(s)'
<1> DEFINE matching == {e \in held[s] : Matches(e, asked[s])}
<1>1. /\ conn[s] = "open" /\ asked[s] # NoFilter /\ asked'[s] = NoFilter
      /\ UNCHANGED <<scraperVars, outVars, held, archive, early, live>>
  BY DEF RelayAnswers, TypeOK
<1>2. batch'[s] \subseteq matching /\ IsPage(batch'[s], matching)
  BY DEF RelayAnswers, TypeOK
<1>3. /\ asked[s].low \in Nat /\ asked[s].high \in Nat
      /\ until[s] \in Nat /\ WindowStart(s) \in Nat
  BY WindowRises, BoundsAreNumbers DEF TypeOK, Filters, WindowStart
<1>4. \A f \in held[s] : Time(f) \in Nat
  BY TimeType, BoundsAreNumbers DEF TypeOK
<1>5. archive[s] \subseteq held[s]
  BY DEF Walk, HeldByRelay
<1>6. ~ tail[s] => \A f \in archive[s] :
        Time(f) >= asked[s].low => f \in matching \/ Settled(s, f)
  <2> SUFFICES ASSUME ~ tail[s], NEW f \in archive[s], Time(f) >= asked[s].low, f \notin matching
               PROVE  Settled(s, f)
    OBVIOUS
  <2>1. Time(f) > asked[s].high
    BY <1>3, <1>4, <1>5 DEF Matches
  <2>2. Time(f) > until[s]
    BY <1>1, <1>3, <1>4, <1>5, <2>1 DEF Walk, RequestCovers
  <2> QED
    BY <2>2 DEF Walk, NoGap
<1>7. PageIsNewest(s)'
  <2> SUFFICES ASSUME ~ tail[s], NEW e \in batch'[s], NEW f \in archive[s], Time(f) > Time(e)
               PROVE  f \in batch'[s] \/ Settled(s, f)
    BY <1>1 DEF PageIsNewest, Settled, Overtaken, Received, scraperVars, outVars
  <2>1. e \in held[s] /\ Time(e) >= asked[s].low /\ Time(e) \in Nat /\ Time(f) \in Nat
    BY <1>2, <1>3, <1>4, <1>5 DEF Matches
  <2>2. f \in matching \/ Settled(s, f)
    BY <1>3, <1>6, <2>1
  <2>3. f \in matching => f \in batch'[s]
    BY <1>2, <2>1, PageOmits
  <2> QED
    BY <2>2, <2>3
<1>8. EmptyPage(s)'
  <2> SUFFICES ASSUME ~ tail[s], batch'[s] = {}, NEW f \in archive[s], Time(f) >= WindowStart(s)
               PROVE  Settled(s, f)
    BY <1>1 DEF EmptyPage, WindowStart, Settled, Overtaken, Received, scraperVars, outVars
  <2>1. matching = {}
    BY <1>2, PageOmits
  <2>2. Time(f) >= asked[s].low
    BY <1>1, <1>3, <1>4, <1>5 DEF Walk, RequestCovers
  <2> QED
    BY <1>6, <2>1, <2>2
<1>9. Untouched(s)' /\ HeldByRelay(s)' /\ RequestCovers(s)' /\ NoGap(s)' /\ TailWindow(s)'
  BY <1>1, <1>2 DEF Walk, Untouched, HeldByRelay, OnePerId, RequestCovers, NoGap,
                    TailWindow, Settled, Overtaken, Received, scraperVars, outVars
<1> QED
  BY <1>7, <1>8, <1>9 DEF Walk

(* A refused REQ sends nothing. *)
LEMMA RefusesWalk ==
  ASSUME TypeOK, NEW s \in Scrapers, Walk(s), RelayRefuses(s)
  PROVE  Walk(s)'
<1>1. /\ asked'[s] = NoFilter
      /\ UNCHANGED <<scraperVars, outVars, held, archive, early, batch, eosing, live>>
  BY DEF RelayRefuses, TypeOK
<1> QED
  BY <1>1 DEF Walk, Untouched, HeldByRelay, OnePerId, RequestCovers, PageIsNewest,
              EmptyPage, WindowStart, NoGap, TailWindow, Settled, Overtaken, Received,
              scraperVars, outVars

(* Published events are not of the archive. *)
LEMMA PublishWalk ==
  ASSUME TypeOK, NEW s \in Scrapers, NEW e \in Events, Walk(s), Publish(s, e)
  PROVE  Walk(s)'
<1>1. /\ held'[s] = held[s] \cup {e}
      /\ live'[s] \in {live[s], live[s] \cup {e}}
      /\ conn[s] # "open" => live'[s] = live[s]
      /\ \A f \in held[s] : f.id # e.id
      /\ UNCHANGED <<scraperVars, outVars, archive, early, asked, sub, batch, eosing>>
  BY DEF Publish, TypeOK
<1>2. HeldByRelay(s)'
  BY <1>1 DEF Walk, HeldByRelay, OnePerId
<1>3. Untouched(s)'
  BY <1>1 DEF Walk, Untouched, scraperVars
<1> QED
  BY <1>1, <1>2, <1>3 DEF Walk, RequestCovers, PageIsNewest, EmptyPage, WindowStart, NoGap,
     TailWindow, Settled, Overtaken, Received, scraperVars, outVars

(* A scraper that has not connected has an empty archive. *)
LEMMA InitWalk == ASSUME Init, NEW s \in Scrapers PROVE Walk(s)
<1>1. /\ until[s] = Infinity /\ asked[s] = NoFilter /\ batch[s] = {} /\ live[s] = {}
      /\ eosing[s] = FALSE /\ tail[s] = FALSE /\ archive[s] = {} /\ OnePerId(held[s])
  BY DEF Init
<1> QED
  BY <1>1 DEF Walk, Untouched, HeldByRelay, RequestCovers, PageIsNewest,
              EmptyPage, NoGap, TailWindow

(* A step of one scraper or its relay leaves the others' variables alone.  *)
LEMMA StepIsLocal ==
  ASSUME TypeOK, NEW s \in Scrapers, NEW t \in Scrapers, s # t,
         \/ Connect(s) \/ Opened(s) \/ Disconnect(s) \/ Closed(s)
         \/ \E e \in Events : StoredEventArrives(s, e) \/ LiveEventArrives(s, e)
         \/ EoseArrives(s) \/ RelayAnswers(s) \/ RelayRefuses(s)
         \/ \E e \in Events : Publish(s, e)
  PROVE  /\ conn'[t] = conn[t] /\ since'[t] = since[t] /\ until'[t] = until[t]
         /\ eose'[t] = eose[t] /\ tail'[t] = tail[t] /\ held'[t] = held[t]
         /\ archive'[t] = archive[t] /\ early'[t] = early[t]
         /\ asked'[t] = asked[t] /\ batch'[t] = batch[t]
         /\ eosing'[t] = eosing[t] /\ live'[t] = live[t] /\ sub'[t] = sub[t]
<1> USE DEF TypeOK, scraperVars, outVars, relayVars
<1>1. CASE Connect(s) \/ Opened(s) \/ Disconnect(s) \/ Closed(s)
  BY <1>1 DEF Connect, Opened, Disconnect, Closed, Subscribe
<1>2. CASE \E e \in Events : StoredEventArrives(s, e) \/ LiveEventArrives(s, e)
  BY <1>2 DEF StoredEventArrives, LiveEventArrives, OnEvent
<1>3. CASE EoseArrives(s)
  BY <1>3 DEF EoseArrives, OnEose, Subscribe
<1>4. CASE RelayAnswers(s)
  BY <1>4 DEF RelayAnswers
<1>5. CASE RelayRefuses(s) \/ \E e \in Events : Publish(s, e)
  BY <1>5 DEF RelayRefuses, Publish
<1> QED
  BY <1>1, <1>2, <1>3, <1>4, <1>5

(* Every step keeps the walk of every scraper. *)
LEMMA NextWalk ==
  ASSUME TypeOK, DistinctTimes, \A s \in Scrapers : Walk(s), [Next]_vars
  PROVE  \A s \in Scrapers : Walk(s)'
<1> TAKE t \in Scrapers
<1>1. seen \subseteq seen'
  BY OutStep, OnEventCursors DEF outVars
<1>2. CASE UNCHANGED vars
  BY <1>1, <1>2, WalkFrame DEF vars, scraperVars, relayVars
<1>3. CASE Next
  <2> PICK s \in Scrapers :
        \/ Connect(s) \/ Opened(s) \/ Disconnect(s) \/ Closed(s)
        \/ \E e \in Events : StoredEventArrives(s, e) \/ LiveEventArrives(s, e)
        \/ EoseArrives(s) \/ RelayAnswers(s) \/ RelayRefuses(s)
        \/ \E e \in Events : Publish(s, e)
    BY <1>3 DEF Next
  <2>1. CASE s # t
    BY <1>1, <2>1, StepIsLocal, WalkFrame
  <2>2. CASE s = t
    BY <2>2, ConnectWalk, OpenedWalk, ClosedWalk, StoredEventWalk, LiveEventWalk, EoseWalk,
       AnswersWalk, RefusesWalk, PublishWalk
  <2> QED
    BY <2>1, <2>2
<1> QED
  BY <1>2, <1>3

(* The inductive invariant is one. *)
LEMMA Invariance == ASSUME DistinctTimes PROVE Spec => []IInv
<1>1. Init => IInv
  BY InitType, InitWalk DEF IInv
<1>2. IInv /\ [Next]_vars => IInv'
  BY NextType, NextWalk DEF IInv
<1> QED
  BY <1>1, <1>2, PTL DEF Spec

(* Where no two events share a second, before the tail only an event that  *)
(* was published after the connection had opened, with an older created_at *)
(* than an archived event, makes the walk skip that event (lines 88-97).   *)
THEOREM WalkSkipsNothing ==
  ASSUME DistinctTimes
  PROVE  Spec => []NoGapAboveUntil
<1>1. IInv => NoGapAboveUntil
  BY DEF IInv, Walk, NoGap, Settled, Received, NoGapAboveUntil
<1> QED
  BY <1>1, Invariance, PTL

(* Where no two events share a second, a scraper at the tail has received  *)
(* what the archive has of the last TOLERANCE_SECONDS, but for what a      *)
(* backdated event overtook before the tail (lines 105-119, 143-152).      *)
THEOREM WindowIsComplete ==
  ASSUME DistinctTimes
  PROVE  Spec => []TailWindowComplete
<1>1. IInv => TailWindowComplete
  BY DEF IInv, Walk, TailWindow, Settled, Received, TailWindowComplete
<1> QED
  BY <1>1, Invariance, PTL

(* Pages move back, for any events and any order of them. *)
THEOREM WalkGoesBack == Spec => UntilNeverRises
<1>1. TypeOK /\ [Next]_vars => \A s \in Scrapers : tail'[s] \/ until'[s] <= until[s]
  <2> SUFFICES ASSUME TypeOK, [Next]_vars, NEW t \in Scrapers, ~ tail'[t]
               PROVE  until'[t] <= until[t]
    OBVIOUS
  <2>1. until[t] \in Nat
    BY BoundsAreNumbers DEF TypeOK
  <2>2. CASE UNCHANGED until
    BY <2>1, <2>2
  <2>3. ASSUME NEW s \in Scrapers, NEW e \in Events, OnEvent(s, e)
        PROVE  until'[t] <= until[t]
    <3>1. CASE s = t
      BY <2>3, <3>1, OnEventCursors
    <3>2. CASE s # t
      BY <2>1, <2>3, <3>2 DEF OnEvent, TypeOK
    <3> QED
      BY <3>1, <3>2
  <2>4. ASSUME NEW s \in Scrapers, OnEose(s)
        PROVE  until'[t] <= until[t]
    BY <2>1, <2>4 DEF OnEose, TypeOK
  <2> QED
    BY <2>2, <2>3, <2>4 DEF Next, vars, scraperVars, Connect, Opened, Disconnect, Closed,
       StoredEventArrives, LiveEventArrives, EoseArrives, RelayAnswers, RelayRefuses, Publish
<1> QED
  BY <1>1, TypeCorrect, PTL DEF Spec, UntilNeverRises
-----------------------------------------------------------------------------
(* Nothing is missed at the tail                                           *)
(*                                                                         *)
(* CompleteAtRest says where the events that are due end up; the invariant *)
(* says where they are on the way.  It needs neither the walk's invariant  *)
(* nor distinct times.                                                     *)

(* Before the connection opens the first REQ would ask for everything. *)
AsksForAll(s) ==
  conn[s] \in {"new", "connecting"} =>
    /\ since[s] = 0 /\ until[s] = Infinity
    /\ asked[s] = NoFilter
    /\ batch[s] = {} /\ live[s] = {}
    /\ ~ eosing[s] /\ ~ tail[s]

(* No REQ is sent while a page is arriving, and the page answers the REQ   *)
(* in force.                                                               *)
OneAtATime(s) ==
  /\ eosing[s] => asked[s] = NoFilter /\ sub[s] # NoFilter
  /\ batch[s] # {} => eosing[s]

(* No REQ starts later than one sent now would: the window only rises. *)
StartsBySince(s) ==
  /\ asked[s] # NoFilter => asked[s].low <= WindowStart(s)
  /\ sub[s] # NoFilter => sub[s].low <= WindowStart(s)

(* The last REQ of the tail has no `until`. *)
TailIsOpenEnded(s) ==
  conn[s] = "open" /\ tail[s] =>
    /\ asked[s] # NoFilter => asked[s].high = Infinity
    /\ asked[s] = NoFilter /\ sub[s] # NoFilter => sub[s].high = Infinity

(* f has been received, is on its way or is asked for. *)
Comes(s, f) ==
  \/ Received(f)
  \/ f \in batch[s] \cup live[s]
  \/ asked[s] # NoFilter /\ Matches(f, asked[s])

(* The relay answers with all it has. *)
SendsAll(s) == Cardinality(held[s]) <= Limit

(* The archive comes with the first page; the window of the tail comes     *)
(* with the answer to the tail's REQ, and live from then on.               *)
AllComes(s) ==
  conn[s] = "open" /\ ~ Refused(s) /\ SendsAll(s) =>
    /\ \A f \in archive[s] : Comes(s, f)
    /\ tail[s] /\ asked[s] = NoFilter =>
         \A f \in held[s] : Time(f) >= sub[s].low => Comes(s, f)

Delivery(s) ==
  /\ AsksForAll(s)
  /\ archive[s] \subseteq held[s]
  /\ OneAtATime(s)
  /\ StartsBySince(s)
  /\ TailIsOpenEnded(s)
  /\ AllComes(s)

(* An id and a verdict make an event, so that a relay holds finitely many. *)
LEMMA HeldIsFinite ==
  ASSUME TypeOK, NEW s \in Scrapers
  PROVE  IsFiniteSet(held[s])
<1> DEFINE copy == [e \in Events |-> <<e.id, e.valid>>]
<1>1. IsFiniteSet(BOOLEAN)
  <2>1. IsFiniteSet({})
    BY FS_EmptySet
  <2>2. IsFiniteSet({} \cup {TRUE})
    BY <2>1, FS_AddElement, Zenon
  <2>3. IsFiniteSet(({} \cup {TRUE}) \cup {FALSE})
    BY <2>2, FS_AddElement, Zenon
  <2>4. BOOLEAN = ({} \cup {TRUE}) \cup {FALSE}
    OBVIOUS
  <2> QED
    BY <2>3, <2>4, Zenon
<1>2. IsFiniteSet(Ids \X BOOLEAN)
  BY <1>1, FS_Product, ScraperAssumption
<1>3. copy \in Injection(Events, Ids \X BOOLEAN)
  <2>1. copy \in [Events -> Ids \X BOOLEAN]
    BY DEF Events
  <2>2. ASSUME NEW e \in Events, NEW f \in Events, copy[e] = copy[f]
        PROVE  e = f
    BY <2>2 DEF Events
  <2> QED
    BY <2>1, <2>2 DEF Injection, IsInjective
<1>4. IsFiniteSet(Events)
  BY <1>2, <1>3, FS_Injection
<1> QED
  BY <1>4, FS_Subset DEF TypeOK

(* A relay that has no more than a page sends all that a REQ matches. *)
LEMMA SmallPage ==
  ASSUME TypeOK, NEW s \in Scrapers, SendsAll(s),
         NEW M \in SUBSET held[s], NEW P, IsPage(P, M)
  PROVE  P = M
<1>1. IsFiniteSet(held[s]) /\ P \in SUBSET held[s]
  BY HeldIsFinite DEF IsPage
<1>2. /\ Cardinality(held[s]) \in Nat /\ Cardinality(P) \in Nat /\ Limit \in Nat
      /\ Cardinality(P) <= Cardinality(held[s])
      /\ Cardinality(P) = Cardinality(held[s]) => P = held[s]
  BY <1>1, FS_Subset, FS_CardinalityType, ScraperAssumption
<1>3. CASE P = M
  BY <1>3
<1>4. CASE Cardinality(P) = Limit
  <2>1. Cardinality(P) = Cardinality(held[s])
    BY <1>2, <1>4 DEF SendsAll
  <2> QED
    BY <1>2, <2>1 DEF IsPage
<1> QED
  BY <1>3, <1>4 DEF IsPage

(* Before the first REQ nothing has come. *)
LEMMA InitDelivery == ASSUME Init, NEW s \in Scrapers PROVE Delivery(s)
<1>1. /\ conn[s] = "new" /\ since[s] = 0 /\ until[s] = Infinity /\ archive[s] = {}
      /\ asked[s] = NoFilter /\ sub[s] = NoFilter
      /\ batch[s] = {} /\ live[s] = {} /\ eosing[s] = FALSE /\ tail[s] = FALSE
  BY DEF Init
<1> QED
  BY <1>1 DEF Delivery, AsksForAll, OneAtATime, StartsBySince, TailIsOpenEnded, AllComes

(* A scraper that a step leaves alone: others may add to `seen`. *)
LEMMA DeliveryFrame ==
  ASSUME NEW s \in Scrapers, Delivery(s), seen \subseteq seen',
         conn'[s] = conn[s], since'[s] = since[s], until'[s] = until[s],
         tail'[s] = tail[s], held'[s] = held[s], archive'[s] = archive[s],
         asked'[s] = asked[s], sub'[s] = sub[s],
         batch'[s] = batch[s], eosing'[s] = eosing[s], live'[s] = live[s]
  PROVE  Delivery(s)'
<1>1. /\ AsksForAll(s)' /\ (archive[s] \subseteq held[s])' /\ OneAtATime(s)'
      /\ StartsBySince(s)' /\ TailIsOpenEnded(s)'
  BY DEF Delivery, AsksForAll, OneAtATime, StartsBySince, WindowStart, TailIsOpenEnded
<1>2. \A f : Comes(s, f) => Comes(s, f)'
  BY DEF Comes, Received, Matches, Time
<1>3. AllComes(s)'
  BY <1>2 DEF Delivery, AllComes, Refused, SendsAll, Time
<1> QED
  BY <1>1, <1>3 DEF Delivery

(* A connection that is not open promises nothing. *)
LEMMA LeaveDelivery ==
  ASSUME TypeOK, NEW s \in Scrapers, Delivery(s), Connect(s) \/ Disconnect(s) \/ Closed(s)
  PROVE  Delivery(s)'
<1>1. CASE Connect(s) \/ Disconnect(s)
  <2>1. /\ UNCHANGED <<since, until, eose, tail, outVars, relayVars>>
        /\ conn'[s] \in {"connecting", "closing"}
        /\ conn'[s] = "connecting" => conn[s] = "new"
    BY <1>1 DEF Connect, Disconnect, TypeOK
  <2> QED
    BY <2>1 DEF Delivery, AsksForAll, OneAtATime, StartsBySince, WindowStart,
                TailIsOpenEnded, AllComes, relayVars
<1>2. CASE Closed(s)
  <2>1. /\ UNCHANGED <<since, until, eose, tail, outVars, held, archive, early>>
        /\ conn'[s] = "closed" /\ asked'[s] = NoFilter /\ sub'[s] = NoFilter
        /\ batch'[s] = {} /\ ~ eosing'[s] /\ live'[s] = {}
    BY <1>2 DEF Closed, TypeOK
  <2> QED
    BY <2>1 DEF Delivery, AsksForAll, OneAtATime, StartsBySince, TailIsOpenEnded, AllComes
<1> QED
  BY <1>1, <1>2

(* What subscribe() asks for is a REQ, from the window on. *)
LEMMA FilterStarts ==
  ASSUME NEW t \in 0..MaxTime, NEW u \in 0..Infinity
  PROVE  /\ SubscribeFilter(t, u).low <= t /\ SubscribeFilter(t, u).low \in Nat
         /\ SubscribeFilter(t, u).high = u
         /\ SubscribeFilter(t, u) # NoFilter
<1>1. /\ SubscribeFilter(t, u).low <= t /\ SubscribeFilter(t, u).low \in Nat
      /\ SubscribeFilter(t, u).high = u
  BY BoundsAreNumbers DEF SubscribeFilter
<1>2. NoFilter.low = MaxTime + 1
  BY BoundsAreNumbers DEF NoFilter
<1> QED
  BY <1>1, <1>2, BoundsAreNumbers

(* The first REQ asks for all the relay holds. *)
LEMMA OpenedDelivery ==
  ASSUME TypeOK, NEW s \in Scrapers, Delivery(s), Opened(s)
  PROVE  Delivery(s)'
<1>1. /\ since[s] = 0 /\ until[s] = Infinity /\ asked[s] = NoFilter
      /\ batch[s] = {} /\ live[s] = {} /\ ~ eosing[s] /\ ~ tail[s]
      /\ UNCHANGED <<since, until, eose, tail, outVars, held, early, sub, batch, eosing, live>>
      /\ conn'[s] = "open" /\ archive'[s] = held[s]
      /\ asked'[s] = SubscribeFilter(since[s], until[s])
  BY DEF Opened, Delivery, AsksForAll, Subscribe, TypeOK
<1>2. /\ asked'[s].low = 0 /\ asked'[s].high = Infinity /\ asked'[s] # NoFilter
      /\ WindowStart(s) \in Nat
  <2>1. since[s] \in 0..MaxTime /\ Infinity \in 0..Infinity
    BY BoundsAreNumbers DEF TypeOK
  <2>2. /\ asked'[s].low <= 0 /\ asked'[s].low \in Nat /\ asked'[s].high = Infinity
        /\ asked'[s] # NoFilter
    BY <1>1, <2>1, FilterStarts
  <2>3. WindowStart(s) = asked'[s].low
    BY <1>1 DEF WindowStart
  <2> QED
    BY <2>1, <2>2, <2>3
<1>3. /\ AsksForAll(s)' /\ (archive[s] \subseteq held[s])' /\ OneAtATime(s)'
      /\ TailIsOpenEnded(s)'
  BY <1>1 DEF AsksForAll, OneAtATime, TailIsOpenEnded
<1>4. StartsBySince(s)'
  BY <1>1, <1>2 DEF Delivery, StartsBySince, WindowStart
<1>5. \A f \in held[s] : Matches(f, asked'[s])
  <2>1. \A f \in held[s] : Time(f) \in 1..MaxTime
    BY TimeType DEF TypeOK
  <2> QED
    BY <1>2, <2>1, BoundsAreNumbers DEF Matches
<1>6. AllComes(s)'
  BY <1>1, <1>2, <1>5 DEF AllComes, Comes, Matches, Time
<1> QED
  BY <1>3, <1>4, <1>6 DEF Delivery

(* An event that arrives, of the page or live, is received; the others are *)
(* where they were.                                                        *)
LEMMA EventDelivery ==
  ASSUME TypeOK, NEW s \in Scrapers, NEW e \in Events, Delivery(s),
         StoredEventArrives(s, e) \/ LiveEventArrives(s, e)
  PROVE  Delivery(s)'
<1>1. /\ OnEvent(s, e) /\ e \in batch[s] \cup live[s]
      /\ batch'[s] \subseteq batch[s] /\ live'[s] \subseteq live[s]
      /\ \A f \in batch[s] \cup live[s] : f = e \/ f \in batch'[s] \cup live'[s]
      /\ UNCHANGED <<held, archive, asked, sub, eosing>>
  BY DEF StoredEventArrives, LiveEventArrives, TypeOK
<1>2. /\ since[s] <= since'[s] /\ since'[s] \in 0..MaxTime /\ since[s] \in 0..MaxTime
      /\ until[s] \in 0..Infinity /\ until'[s] \in 0..Infinity
      /\ seen \subseteq seen' /\ Received(e)'
      /\ UNCHANGED <<conn, tail>>
  BY <1>1, OnEventCursors DEF TypeOK
<1>3. /\ AsksForAll(s)' /\ (archive[s] \subseteq held[s])' /\ OneAtATime(s)'
      /\ TailIsOpenEnded(s)'
  BY <1>1, <1>2 DEF Delivery, AsksForAll, OneAtATime, TailIsOpenEnded
<1>4. StartsBySince(s)'
  <2>1. asked[s].low \in Nat /\ sub[s].low \in Nat
    BY BoundsAreNumbers DEF TypeOK, Filters
  <2>2. WindowStart(s) <= WindowStart(s)' /\ WindowStart(s)' \in Nat /\ WindowStart(s) \in Nat
    BY <1>2, WindowRises DEF WindowStart
  <2> QED
    BY <1>1, <2>1, <2>2 DEF Delivery, StartsBySince
<1>5. \A f : Comes(s, f) => Comes(s, f)'
  <2> SUFFICES ASSUME NEW f, Comes(s, f)
               PROVE  Comes(s, f)'
    OBVIOUS
  <2>1. CASE Received(f)
    BY <1>2, <2>1 DEF Comes, Received
  <2>2. CASE f \in batch[s] \cup live[s]
    BY <1>1, <1>2, <2>2 DEF Comes
  <2>3. CASE asked[s] # NoFilter /\ Matches(f, asked[s])
    BY <1>1, <2>3 DEF Comes, Matches, Time
  <2> QED
    BY <2>1, <2>2, <2>3 DEF Comes
<1>6. AllComes(s)'
  BY <1>1, <1>2, <1>5 DEF Delivery, AllComes, Refused, SendsAll, Time
<1> QED
  BY <1>3, <1>4, <1>6 DEF Delivery

(* EOSE: nothing is asked for at that moment, so that all of the archive   *)
(* has come; a REQ of the tail has still to be answered.                   *)
LEMMA EoseDelivery ==
  ASSUME TypeOK, NEW s \in Scrapers, Delivery(s), EoseArrives(s)
  PROVE  Delivery(s)'
<1>1. /\ eosing[s] /\ batch[s] = {} /\ ~ eosing'[s] /\ OnEose(s)
      /\ UNCHANGED <<conn, since, outVars, held, archive, sub, batch, live>>
      /\ asked[s] = NoFilter /\ sub[s] # NoFilter
  BY DEF EoseArrives, OnEose, Delivery, OneAtATime, TypeOK
<1>2. /\ since[s] \in 0..MaxTime /\ until[s] \in 0..Infinity /\ Infinity \in 0..Infinity
  BY BoundsAreNumbers DEF TypeOK
<1>3. AsksForAll(s)' /\ (archive[s] \subseteq held[s])' /\ OneAtATime(s)'
  BY <1>1 DEF Delivery, AsksForAll, OneAtATime
<1>4. \/ tail[s] /\ tail'[s] /\ asked'[s] = NoFilter
      \/ conn[s] # "open" /\ asked'[s] = NoFilter
      \/ \E u \in 0..Infinity : /\ asked'[s] = SubscribeFilter(since[s], u)
                                /\ tail'[s] => u = Infinity
                                /\ ~ tail[s]
  BY <1>1, <1>2 DEF OnEose, SecondEose, TailUntil, Subscribe, TypeOK
<1>5. WindowStart(s)' = WindowStart(s) /\ WindowStart(s) \in Nat
  BY <1>1, <1>2, FilterStarts DEF WindowStart, SubscribeFilter
<1>6. asked'[s] # NoFilter =>
        /\ asked'[s].low = WindowStart(s)
        /\ tail'[s] => asked'[s].high = Infinity
  <2>1. \A u \in 0..Infinity : SubscribeFilter(since[s], u).low = WindowStart(s)
    BY DEF WindowStart, SubscribeFilter
  <2> QED
    BY <1>2, <1>4, <2>1, FilterStarts
<1>7. conn[s] = "open" /\ ~ tail[s] => asked'[s] # NoFilter
  BY <1>2, <1>4, FilterStarts
<1>8. StartsBySince(s)' /\ TailIsOpenEnded(s)'
  BY <1>1, <1>5, <1>6, <1>7 DEF Delivery, StartsBySince, TailIsOpenEnded
<1>9. \A f : Comes(s, f) => Comes(s, f)'
  BY <1>1 DEF Comes, Received, outVars
<1>10. AllComes(s)'
  <2> SUFFICES ASSUME conn[s] = "open", SendsAll(s)
               PROVE  /\ \A f \in archive[s] : Comes(s, f)'
                      /\ tail'[s] /\ asked'[s] = NoFilter =>
                           \A f \in held[s] : Time(f) >= sub[s].low => Comes(s, f)'
    BY <1>1 DEF AllComes, SendsAll, Time
  <2>1. /\ \A f \in archive[s] : Comes(s, f)
        /\ tail[s] => \A f \in held[s] : Time(f) >= sub[s].low => Comes(s, f)
    BY <1>1 DEF Delivery, AllComes, Refused
  <2>2. asked'[s] = NoFilter => tail[s]
    BY <1>7
  <2> QED
    BY <1>9, <2>1, <2>2
<1> QED
  BY <1>3, <1>8, <1>10 DEF Delivery

(* The relay sends all that the REQ matches. *)
LEMMA AnswersDelivery ==
  ASSUME TypeOK, NEW s \in Scrapers, Delivery(s), RelayAnswers(s)
  PROVE  Delivery(s)'
<1> DEFINE matching == {e \in held[s] : Matches(e, asked[s])}
<1>1. /\ conn[s] = "open" /\ asked[s] # NoFilter
      /\ asked'[s] = NoFilter /\ sub'[s] = asked[s] /\ eosing'[s]
      /\ UNCHANGED <<scraperVars, outVars, held, archive, early, live>>
  BY DEF RelayAnswers, TypeOK
<1>2. batch'[s] \in SUBSET matching /\ IsPage(batch'[s], matching)
  BY DEF RelayAnswers, TypeOK
<1>3. batch[s] = {} /\ asked[s].low <= WindowStart(s) /\ archive[s] \subseteq held[s]
  BY <1>1 DEF Delivery, OneAtATime, StartsBySince
<1>4. /\ AsksForAll(s)' /\ (archive[s] \subseteq held[s])' /\ OneAtATime(s)'
      /\ StartsBySince(s)' /\ TailIsOpenEnded(s)'
  BY <1>1, <1>3 DEF Delivery, AsksForAll, OneAtATime, StartsBySince, WindowStart,
                    TailIsOpenEnded, scraperVars
<1>5. AllComes(s)'
  <2> SUFFICES ASSUME SendsAll(s)
               PROVE  /\ \A f \in archive[s] : Comes(s, f)'
                      /\ tail[s] => \A f \in held[s] : Time(f) >= asked[s].low => Comes(s, f)'
    BY <1>1 DEF AllComes, SendsAll, scraperVars, Time
  <2>1. batch'[s] = matching
    BY <1>2, SmallPage
  <2>2. \A f \in held[s] : Matches(f, asked[s]) => Comes(s, f)'
    BY <2>1 DEF Comes
  <2>3. \A f \in archive[s] : Comes(s, f)
    BY <1>1 DEF Delivery, AllComes, Refused
  <2>4. \A f \in archive[s] : Comes(s, f)'
    BY <1>1, <1>3, <2>2, <2>3 DEF Comes, Received, outVars
  <2>5. ASSUME tail[s], NEW f \in held[s], Time(f) >= asked[s].low
        PROVE  Comes(s, f)'
    <3>1. asked[s].high = Infinity
      BY <1>1, <2>5 DEF Delivery, TailIsOpenEnded
    <3>2. Time(f) \in 1..MaxTime
      BY TimeType DEF TypeOK
    <3> QED
      BY <2>2, <2>5, <3>1, <3>2, BoundsAreNumbers DEF Matches
  <2> QED
    BY <2>4, <2>5
<1> QED
  BY <1>4, <1>5 DEF Delivery

(* A relay that refuses the REQ is a relay of which nothing is promised.   *)
LEMMA RefusesDelivery ==
  ASSUME TypeOK, NEW s \in Scrapers, Delivery(s), RelayRefuses(s)
  PROVE  Delivery(s)'
<1>1. /\ asked[s] # NoFilter /\ asked'[s] = NoFilter /\ sub'[s] = NoFilter
      /\ UNCHANGED <<scraperVars, outVars, held, archive, early, batch, eosing, live>>
  BY DEF RelayRefuses, TypeOK
<1> QED
  BY <1>1 DEF Delivery, AsksForAll, OneAtATime, StartsBySince, WindowStart, TailIsOpenEnded,
              AllComes, Refused, scraperVars

(* An event that is published in the window of the tail is sent at once.   *)
LEMMA PublishDelivery ==
  ASSUME TypeOK, NEW s \in Scrapers, NEW e \in Events, Delivery(s), Publish(s, e)
  PROVE  Delivery(s)'
<1>1. /\ held'[s] = held[s] \cup {e}
      /\ live'[s] = IF conn[s] = "open" /\ Matches(e, sub[s]) THEN live[s] \cup {e} ELSE live[s]
      /\ UNCHANGED <<scraperVars, outVars, archive, early, asked, sub, batch, eosing>>
  BY DEF Publish, TypeOK
<1>2. /\ AsksForAll(s)' /\ (archive[s] \subseteq held[s])' /\ OneAtATime(s)'
      /\ StartsBySince(s)' /\ TailIsOpenEnded(s)'
  BY <1>1 DEF Delivery, AsksForAll, OneAtATime, StartsBySince, WindowStart, TailIsOpenEnded,
              scraperVars
<1>3. \A f : Comes(s, f) => Comes(s, f)'
  BY <1>1 DEF Comes, Received, outVars
<1>4. AllComes(s)'
  <2> SUFFICES ASSUME conn[s] = "open", ~ Refused(s), SendsAll(s)'
               PROVE  /\ \A f \in archive[s] : Comes(s, f)'
                      /\ tail[s] /\ asked[s] = NoFilter =>
                           \A f \in held'[s] : Time(f) >= sub[s].low => Comes(s, f)'
    BY <1>1 DEF AllComes, Refused, scraperVars, Time
  <2>1. SendsAll(s)
    <3>1. IsFiniteSet(held[s]) /\ IsFiniteSet(held'[s])
      BY <1>1, HeldIsFinite, FS_AddElement
    <3>2. /\ Cardinality(held[s]) \in Nat /\ Cardinality(held'[s]) \in Nat /\ Limit \in Nat
          /\ Cardinality(held[s]) <= Cardinality(held'[s])
      BY <1>1, <3>1, FS_CardinalityType, FS_Subset, ScraperAssumption
    <3> QED
      BY <3>2 DEF SendsAll
  <2>2. /\ \A f \in archive[s] : Comes(s, f)'
        /\ tail[s] /\ asked[s] = NoFilter =>
             \A f \in held[s] : Time(f) >= sub[s].low => Comes(s, f)'
    BY <1>3, <2>1 DEF Delivery, AllComes
  <2>3. ASSUME tail[s], asked[s] = NoFilter, Time(e) >= sub[s].low
        PROVE  Comes(s, e)'
    <3>1. sub[s].high = Infinity
      BY <2>3 DEF Delivery, TailIsOpenEnded, Refused
    <3>2. Time(e) \in 1..MaxTime
      BY TimeType
    <3>3. Matches(e, sub[s])
      BY <2>3, <3>1, <3>2, BoundsAreNumbers DEF Matches
    <3> QED
      BY <1>1, <3>3 DEF Comes
  <2> QED
    BY <1>1, <2>2, <2>3
<1> QED
  BY <1>2, <1>4 DEF Delivery

(* Every step keeps the delivery of every relay. *)
LEMMA NextDelivery ==
  ASSUME TypeOK, \A s \in Scrapers : Delivery(s), [Next]_vars
  PROVE  \A s \in Scrapers : Delivery(s)'
<1> TAKE t \in Scrapers
<1>1. seen \subseteq seen'
  BY OutStep, OnEventCursors DEF outVars
<1>2. CASE UNCHANGED vars
  BY <1>1, <1>2, DeliveryFrame DEF vars, scraperVars, relayVars
<1>3. CASE Next
  <2> PICK s \in Scrapers :
        \/ Connect(s) \/ Opened(s) \/ Disconnect(s) \/ Closed(s)
        \/ \E e \in Events : StoredEventArrives(s, e) \/ LiveEventArrives(s, e)
        \/ EoseArrives(s) \/ RelayAnswers(s) \/ RelayRefuses(s)
        \/ \E e \in Events : Publish(s, e)
    BY <1>3 DEF Next
  <2>1. CASE s # t
    BY <1>1, <2>1, StepIsLocal, DeliveryFrame
  <2>2. CASE s = t
    BY <2>2, LeaveDelivery, OpenedDelivery, EventDelivery, EoseDelivery, AnswersDelivery,
       RefusesDelivery, PublishDelivery
  <2> QED
    BY <2>1, <2>2
<1> QED
  BY <1>2, <1>3

(* Of a relay that sends all it has, the archive and the window of the     *)
(* tail are received, on their way or asked for.                           *)
LEMMA DeliveryInvariance == Spec => [](TypeOK /\ \A s \in Scrapers : Delivery(s))
<1>1. Init => \A s \in Scrapers : Delivery(s)
  BY InitDelivery
<1>2. TypeOK /\ (\A s \in Scrapers : Delivery(s)) /\ [Next]_vars
        => (\A s \in Scrapers : Delivery(s))'
  BY NextDelivery
<1> QED
  BY <1>1, <1>2, TypeCorrect, PTL DEF Spec

(* For any events, times, order of publication and number of relays: at    *)
(* rest a scraper at the tail of a relay whose events fit a page has       *)
(* emitted, once, every valid event of the archive and every valid event   *)
(* published since within the window that the tail asks for.               *)
THEOREM NothingIsMissed == Spec => []CompleteAtRest
<1>1. TypeOK /\ (\A s \in Scrapers : Delivery(s)) /\ EmittedOnce => CompleteAtRest
  <2> SUFFICES ASSUME TypeOK, \A s \in Scrapers : Delivery(s), EmittedOnce,
                      NEW s \in Scrapers, tail[s], Quiet(s), ~ Refused(s), SendsAll(s),
                      NEW e \in held[s], e.valid, Due(s, e)
               PROVE  emitted[e.id] = 1
    BY DEF CompleteAtRest, SendsAll
  <2>1. Comes(s, e)
    <3>1. CASE e \in archive[s]
      BY <3>1 DEF Delivery, AllComes, Quiet
    <3>2. CASE Time(e) >= since[s] - Tolerance
      <4>1. sub[s].low <= WindowStart(s) /\ sub[s].low \in Nat
        BY BoundsAreNumbers DEF Delivery, StartsBySince, Refused, Quiet, TypeOK, Filters
      <4>2. WindowStart(s) = 0 \/ WindowStart(s) = since[s] - Tolerance
        BY DEF WindowStart, SubscribeFilter
      <4>3. Time(e) \in 1..MaxTime /\ since[s] \in 0..MaxTime
        BY TimeType DEF TypeOK
      <4>4. Time(e) >= sub[s].low
        BY <3>2, <4>1, <4>2, <4>3, BoundsAreNumbers
      <4> QED
        BY <4>4 DEF Delivery, AllComes, Quiet
    <3> QED
      BY <3>1, <3>2 DEF Due
  <2>2. e.id \in seen
    BY <2>1 DEF Comes, Quiet, Received
  <2>3. e.id \in Ids
    BY TimeType DEF TypeOK
  <2> QED
    BY <2>2, <2>3 DEF EmittedOnce
<1> QED
  BY <1>1, DeliveryInvariance, EventsEmittedOnce, PTL

-----------------------------------------------------------------------------
(* The walk does not stall *)

(* Before the tail a REQ is on its way to the relay or its answer is on    *)
(* its way back, unless the relay has refused it.                          *)
WalkGoesOn ==
  \A s \in Scrapers :
    conn[s] = "open" /\ ~ tail[s] /\ ~ Refused(s) => asked[s] # NoFilter \/ eosing[s]

(* Every EOSE before the tail, with or without events before it, sends the *)
(* next REQ: the walk rests only where the relay refused (lines 108-121).  *)
THEOREM WalkNeverStalls == Spec => []WalkGoesOn
<1>1. Init => WalkGoesOn
  BY DEF Init, WalkGoesOn
<1>2. TypeOK /\ WalkGoesOn /\ [Next]_vars => WalkGoesOn'
  <2> SUFFICES ASSUME TypeOK, WalkGoesOn, [Next]_vars, NEW t \in Scrapers,
                      conn'[t] = "open", ~ tail'[t], ~ Refused(t)'
               PROVE  asked'[t] # NoFilter \/ eosing'[t]
    BY DEF WalkGoesOn
  <2> USE DEF TypeOK, scraperVars, outVars, relayVars
  <2>1. CASE UNCHANGED <<conn, tail, asked, sub, eosing>>
    BY <2>1 DEF WalkGoesOn, Refused
  <2>2. ASSUME NEW s \in Scrapers, Connect(s) \/ Disconnect(s) \/ Closed(s)
        PROVE  asked'[t] # NoFilter \/ eosing'[t]
    BY <2>2 DEF Connect, Disconnect, Closed, WalkGoesOn, Refused
  <2>3. ASSUME NEW s \in Scrapers, Opened(s)
        PROVE  asked'[t] # NoFilter \/ eosing'[t]
    <3>1. CASE s = t
      BY <2>3, <3>1, FilterStarts DEF Opened, Subscribe
    <3> QED
      BY <2>3, <3>1 DEF Opened, Subscribe, WalkGoesOn, Refused
  <2>4. ASSUME NEW s \in Scrapers, EoseArrives(s)
        PROVE  asked'[t] # NoFilter \/ eosing'[t]
    <3>1. CASE s = t
      <4>1. asked'[t] = SubscribeFilter(since[t], until[t])
        BY <2>4, <3>1 DEF EoseArrives, OnEose, Subscribe
      <4> QED
        BY <4>1, FilterStarts
    <3> QED
      BY <2>4, <3>1 DEF EoseArrives, OnEose, Subscribe, WalkGoesOn, Refused
  <2>5. ASSUME NEW s \in Scrapers, RelayAnswers(s) \/ RelayRefuses(s)
        PROVE  asked'[t] # NoFilter \/ eosing'[t]
    <3>1. CASE s = t
      BY <2>5, <3>1 DEF RelayAnswers, RelayRefuses, Refused
    <3> QED
      BY <2>5, <3>1 DEF RelayAnswers, RelayRefuses, WalkGoesOn, Refused
  <2> QED
    BY <2>1, <2>2, <2>3, <2>4, <2>5 DEF Next, vars, StoredEventArrives, LiveEventArrives, OnEvent,
       Publish
<1> QED
  BY <1>1, <1>2, TypeCorrect, PTL DEF Spec
===============================================================================
