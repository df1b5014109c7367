---------------------------- MODULE RelayScraper ----------------------------
(***************************************************************************)
(* The receiver's connections to relays (src/modules/receiver/             *)
(* relay-scraper.ts).  A scraper walks a relay's archive backwards, one    *)
(* page per REQ, by lowering `until`; when two EOSEs arrive with no event  *)
(* between them it takes the archive to be exhausted and subscribes to the *)
(* tail.  All scrapers share the set of seen ids, and emit an event only   *)
(* when it is new and its signature verifies.                              *)
(*                                                                         *)
(* Relays are external: a REQ is answered by the newest events that match  *)
(* it, at most Limit, newest first, then EOSE; while the REQ is in force,  *)
(* events published later are sent too.  Messages of one connection stay   *)
(* in order, except that live events may overtake the page.                *)
(***************************************************************************)
EXTENDS Integers, FiniteSets

CONSTANTS
  Scrapers,   \* relays the receiver connects to
  Ids,        \* event ids
  At,         \* created_at of each id
  Tolerance,  \* TOLERANCE_SECONDS
  Limit,      \* most events a relay sends for one REQ
  MaxTime     \* bound of the model on created_at

(* Ids are digests of a fixed length. *)
ASSUME ScraperAssumption ==
  /\ IsFiniteSet(Ids)
  /\ MaxTime \in Nat \ {0}
  /\ At \in [Ids -> 1..MaxTime]
  /\ Tolerance \in Nat
  /\ Limit \in Nat \ {0}

VARIABLES
  conn,     \* the WebSocket of each scraper
  since,    \* this.since: newest created_at received
  until,    \* this.until: how far back the walk has come
  eose,     \* this.eose: nothing but EOSE since the last EOSE
  tail,     \* this.tail: the walk is over
  seen,     \* Receiver.seen, shared
  emitted,  \* how often each id was emitted as 'event'
  held,     \* events each relay holds
  archive,  \* events it held when the scraper connected (history variable)
  early,    \* live events that arrived before the tail (history variable)
  asked,    \* the REQ on its way to the relay, or NoFilter
  sub,      \* the REQ in force at the relay, or NoFilter
  batch,    \* events of its page on their way to the scraper
  eosing,   \* the page's EOSE is on its way
  live      \* live events on their way to the scraper

scraperVars == <<conn, since, until, eose, tail>>
outVars == <<seen, emitted>>
relayVars == <<held, archive, early, asked, sub, batch, eosing, live>>
vars == <<scraperVars, outVars, relayVars>>

(* A relay may hold a damaged copy of an event, whose signature fails. *)
Events == [id : Ids, valid : BOOLEAN]

Time(e) == At[e.id]

Infinity == MaxTime + 1

(* The filter of a REQ, its absent bounds written out; NoFilter is no REQ. *)
Filters == [low : 0..Infinity, high : 0..Infinity]
NoFilter == [low |-> Infinity, high |-> 0]

Matches(e, filter) == filter.low <= Time(e) /\ Time(e) <= filter.high

(* Every variable has its type. *)
TypeOK ==
  /\ conn \in [Scrapers -> {"new", "connecting", "open", "closing", "closed"}]
  /\ since \in [Scrapers -> 0..MaxTime]
  /\ until \in [Scrapers -> 0..Infinity]
  /\ eose \in [Scrapers -> BOOLEAN]
  /\ tail \in [Scrapers -> BOOLEAN]
  /\ seen \in SUBSET Ids
  /\ emitted \in [Ids -> Nat]
  /\ held \in [Scrapers -> SUBSET Events]
  /\ archive \in [Scrapers -> SUBSET Events]
  /\ early \in [Scrapers -> SUBSET Events]
  /\ asked \in [Scrapers -> Filters]
  /\ sub \in [Scrapers -> Filters]
  /\ batch \in [Scrapers -> SUBSET Events]
  /\ eosing \in [Scrapers -> BOOLEAN]
  /\ live \in [Scrapers -> SUBSET Events]

(* A relay stores one event per id. *)
OnePerId(S) == \A e, f \in S : e.id = f.id => e = f

Init ==
  /\ conn = [s \in Scrapers |-> "new"]
  /\ since = [s \in Scrapers |-> 0]
  /\ until = [s \in Scrapers |-> Infinity]
  /\ eose = [s \in Scrapers |-> FALSE]
  /\ tail = [s \in Scrapers |-> FALSE]
  /\ seen = {}
  /\ emitted = [i \in Ids |-> 0]
  /\ held \in [Scrapers -> {S \in SUBSET Events : OnePerId(S)}]
  /\ archive = [s \in Scrapers |-> {}]
  /\ early = [s \in Scrapers |-> {}]
  /\ asked = [s \in Scrapers |-> NoFilter]
  /\ sub = [s \in Scrapers |-> NoFilter]
  /\ batch = [s \in Scrapers |-> {}]
  /\ eosing = [s \in Scrapers |-> FALSE]
  /\ live = [s \in Scrapers |-> {}]

-----------------------------------------------------------------------------
(* The connection                                                          *)

(* The filter subscribe() sends, from since and until. *)
SubscribeFilter(from, to) ==
  [low |-> IF from > Tolerance THEN from - Tolerance ELSE 0, high |-> to]

(* subscribe(): the REQ goes out unless the socket is closing. *)
Subscribe(s, from, to) ==
  asked' = IF conn'[s] = "open"
             THEN [asked EXCEPT ![s] = SubscribeFilter(from, to)]
             ELSE asked

(* connect() *)
Connect(s) ==
  /\ conn[s] = "new"
  /\ conn' = [conn EXCEPT ![s] = "connecting"]
  /\ UNCHANGED <<since, until, eose, tail, outVars, relayVars>>

(* The socket's 'open' handler. *)
Opened(s) ==
  /\ conn[s] = "connecting"
  /\ conn' = [conn EXCEPT ![s] = "open"]
  /\ Subscribe(s, since[s], until[s])
  /\ archive' = [archive EXCEPT ![s] = held[s]]
  /\ UNCHANGED <<since, until, eose, tail, outVars, held, early, sub, batch, eosing, live>>

(* unsubscribe() and disconnect(): what is on its way is still received.   *)
Disconnect(s) ==
  /\ conn[s] \in {"connecting", "open"}
  /\ conn' = [conn EXCEPT ![s] = "closing"]
  /\ UNCHANGED <<since, until, eose, tail, outVars, relayVars>>

(* The socket closes or fails to connect; nothing reconnects it. *)
Closed(s) ==
  /\ conn[s] \in {"connecting", "open", "closing"}
  /\ conn' = [conn EXCEPT ![s] = "closed"]
  /\ asked' = [asked EXCEPT ![s] = NoFilter]
  /\ sub' = [sub EXCEPT ![s] = NoFilter]
  /\ batch' = [batch EXCEPT ![s] = {}]
  /\ eosing' = [eosing EXCEPT ![s] = FALSE]
  /\ live' = [live EXCEPT ![s] = {}]
  /\ UNCHANGED <<since, until, eose, tail, outVars, held, archive, early>>

-----------------------------------------------------------------------------
(* Messages of the relay                                                   *)

LowerUntil_ByTolerance(s, t) ==
  IF ~ tail[s] /\ t < until[s] THEN t - Tolerance - 1 ELSE until[s]

LowerUntil_Inclusive(s, t) == IF ~ tail[s] /\ t < until[s] THEN t ELSE until[s]

(* `until` and `since` after an EVENT: the cursors move before the event   *)
(* is known to be new or valid.                                            *)
LowerUntil(s, t) == IF ~ tail[s] /\ t < until[s] THEN t - 1 ELSE until[s]
RaiseSince(s, t) == IF t > since[s] THEN t ELSE since[s]

Fresh_NotSeen(e) == e.valid

(* Whether an EVENT is passed on. *)
Fresh(e) == e.id \notin seen /\ e.valid

(* EVENT *)
OnEvent(s, e) ==
  /\ eose' = [eose EXCEPT ![s] = FALSE]
  /\ until' = [until EXCEPT ![s] = LowerUntil(s, Time(e))]
  /\ since' = [since EXCEPT ![s] = RaiseSince(s, Time(e))]
  /\ \/ /\ Fresh(e)
        /\ seen' = seen \cup {e.id}
        /\ emitted' = [emitted EXCEPT ![e.id] = @ + 1]
     \/ /\ ~ Fresh(e)
        /\ UNCHANGED outVars
  /\ UNCHANGED <<conn, tail>>

SecondEose_First(s) == TRUE

(* Nothing came since the last EOSE: the walk is over. *)
SecondEose(s) == eose[s]

TailUntil_Kept(s) == until[s]

(* The tail's REQ has no `until`. *)
TailUntil(s) == Infinity

(* EOSE *)
OnEose(s) ==
  /\ UNCHANGED <<conn, since, outVars>>
  /\ \/ /\ tail[s]
        /\ UNCHANGED <<until, eose, tail, asked>>
     \/ /\ ~ tail[s] /\ SecondEose(s)
        /\ until' = [until EXCEPT ![s] = TailUntil(s)]
        /\ tail' = [tail EXCEPT ![s] = TRUE]
        /\ Subscribe(s, since[s], TailUntil(s))
        /\ UNCHANGED eose
     \/ /\ ~ tail[s] /\ ~ SecondEose(s)
        /\ eose' = [eose EXCEPT ![s] = TRUE]
        /\ Subscribe(s, since[s], until[s])
        /\ UNCHANGED <<until, tail>>

(* The next event of the page arrives, the newest that is left. *)
StoredEventArrives(s, e) ==
  /\ e \in batch[s]
  /\ \A f \in batch[s] : Time(f) <= Time(e)
  /\ batch' = [batch EXCEPT ![s] = @ \ {e}]
  /\ OnEvent(s, e)
  /\ UNCHANGED <<held, archive, early, asked, sub, eosing, live>>

(* A live event arrives. *)
LiveEventArrives(s, e) ==
  /\ e \in live[s]
  /\ live' = [live EXCEPT ![s] = @ \ {e}]
  /\ early' = [early EXCEPT ![s] = IF tail[s] THEN @ ELSE @ \cup {e}]
  /\ OnEvent(s, e)
  /\ UNCHANGED <<held, archive, asked, sub, batch, eosing>>

(* The EOSE of the page arrives. *)
EoseArrives(s) ==
  /\ eosing[s] /\ batch[s] = {}
  /\ eosing' = [eosing EXCEPT ![s] = FALSE]
  /\ OnEose(s)
  /\ UNCHANGED <<held, archive, early, sub, batch, live>>

-----------------------------------------------------------------------------
(* The relay                                                               *)

(* P is an answer to a REQ that the events M match: the newest of them.    *)
IsPage(P, M) ==
  /\ P \subseteq M
  /\ Cardinality(P) <= Limit
  /\ P = M \/ Cardinality(P) = Limit
  /\ \A e \in P, f \in M \ P : Time(f) <= Time(e)

(* The relay answers the REQ, which replaces the one in force. *)
RelayAnswers(s) ==
  /\ conn[s] = "open"
  /\ asked[s] # NoFilter
  /\ LET matching == {e \in held[s] : Matches(e, asked[s])}
     IN  batch' \in {[batch EXCEPT ![s] = P] : P \in {Q \in SUBSET matching : IsPage(Q, matching)}}
  /\ eosing' = [eosing EXCEPT ![s] = TRUE]
  /\ sub' = [sub EXCEPT ![s] = asked[s]]
  /\ asked' = [asked EXCEPT ![s] = NoFilter]
  /\ UNCHANGED <<scraperVars, outVars, held, archive, early, live>>

(* The relay refuses it with CLOSED, on which the scraper does nothing but *)
(* emit 'disconnect', which nobody hears: the connection stays, unused.    *)
RelayRefuses(s) ==
  /\ conn[s] = "open"
  /\ asked[s] # NoFilter
  /\ asked' = [asked EXCEPT ![s] = NoFilter]
  /\ sub' = [sub EXCEPT ![s] = NoFilter]
  /\ UNCHANGED <<scraperVars, outVars, held, archive, early, batch, eosing, live>>

(* Somebody publishes an event to the relay: created_at is the author's    *)
(* choice, so that it may be older than what the relay holds.              *)
Publish(s, e) ==
  /\ \A f \in held[s] : f.id # e.id
  /\ held' = [held EXCEPT ![s] = @ \cup {e}]
  /\ live' = IF conn[s] = "open" /\ Matches(e, sub[s])
               THEN [live EXCEPT ![s] = @ \cup {e}]
               ELSE live
  /\ UNCHANGED <<scraperVars, outVars, archive, early, asked, sub, batch, eosing>>

Next ==
  \E s \in Scrapers :
    \/ Connect(s)
    \/ Opened(s)
    \/ Disconnect(s)
    \/ Closed(s)
    \/ \E e \in Events : StoredEventArrives(s, e) \/ LiveEventArrives(s, e)
    \/ EoseArrives(s)
    \/ RelayAnswers(s)
    \/ RelayRefuses(s)
    \/ \E e \in Events : Publish(s, e)

Spec == Init /\ [][Next]_vars

(* A relay answers a REQ and its messages arrive, while the connection     *)
(* stands.  Nobody has to publish, refuse or close.                        *)
Fairness ==
  \A s \in Scrapers :
    /\ WF_vars(RelayAnswers(s))
    /\ WF_vars(\E e \in Events : StoredEventArrives(s, e))
    /\ WF_vars(\E e \in Events : LiveEventArrives(s, e))
    /\ WF_vars(EoseArrives(s))

FairSpec == Spec /\ Fairness

-----------------------------------------------------------------------------
(* Properties                                                              *)

(* An event is emitted once, however many relays and pages carry it, and   *)
(* exactly the emitted ids are remembered (lines 99-104): the set that all *)
(* scrapers share neither forgets an event nor suppresses one.             *)
EmittedOnce == \A i \in Ids : emitted[i] = IF i \in seen THEN 1 ELSE 0

(* The walk goes backwards: until the tail, no event, whatever its order,  *)
(* makes the next page start later than the last one did (lines 91-93).    *)
UntilNeverRises == [][\A s \in Scrapers : tail'[s] \/ until'[s] <= until[s]]_vars

(* An older event, published after the scraper had connected, arrived      *)
(* before the walk came to f, and lowered `until` below f (lines 91-93).   *)
Overtaken(s, f) == \E g \in early[s] : Time(g) < Time(f)

(* Only a backdated event makes the walk skip something: before the tail   *)
(* every archived event newer than `until`, below which the next page      *)
(* starts, has been received or is in the page that is arriving, or an     *)
(* event published meanwhile with an older created_at overtook it.  It     *)
(* holds where no two events share a second (lines 91-93 and 143-152).     *)
NoGapAboveUntil ==
  \A s \in Scrapers, e \in Events :
    ~ tail[s] /\ e \in archive[s] /\ e.valid /\ Time(e) > until[s]
      => e.id \in seen \/ Overtaken(s, e)

(* When the scraper takes the archive to be exhausted (line 113), all of   *)
(* it that lies within TOLERANCE_SECONDS of the newest event was received, *)
(* but for what a backdated event overtook; what is older may be missing.  *)
TailWindowComplete ==
  \A s \in Scrapers, e \in Events :
    tail[s] /\ e \in archive[s] /\ e.valid /\ Time(e) >= since[s] - Tolerance
      => e.id \in seen \/ Overtaken(s, e)

(* Nothing is on its way in either direction. *)
Quiet(s) ==
  /\ conn[s] = "open"
  /\ asked[s] = NoFilter
  /\ batch[s] = {}
  /\ ~ eosing[s]
  /\ live[s] = {}

(* The relay refused the last REQ. *)
Refused(s) == asked[s] = NoFilter /\ sub[s] = NoFilter

(* What a scraper at the tail is there to deliver: the archive, and what   *)
(* was published since with a created_at in the window that the tail asks  *)
(* for.  A publication backdated further is never asked for.               *)
Due(s, e) == e \in archive[s] \/ Time(e) >= since[s] - Tolerance

(* With a relay whose events fit a page, a scraper at the tail has emitted *)
(* what was due, also what was published while it still walked, when the   *)
(* REQ in force asked for older events only, and whatever backdated events *)
(* moved its cursors (lines 88-114, 143-152).                              *)
CompleteAtRest ==
  \A s \in Scrapers :
    tail[s] /\ Quiet(s) /\ ~ Refused(s) /\ Cardinality(held[s]) <= Limit
      => \A e \in held[s] : e.valid /\ Due(s, e) => emitted[e.id] = 1

(* A scraper whose relay answers gets to the tail: no page is asked for    *)
(* for ever (lines 108-119).  It holds where no two events were created in *)
(* consecutive seconds: if the archive ends in such a pair, `until` stays  *)
(* at the older one (line 91 compares with <), and the page that holds it  *)
(* is asked for, and clears this.eose, again and again.                    *)
ReachesTail ==
  \A s \in Scrapers :
    conn[s] = "open" ~> tail[s] \/ conn[s] # "open" \/ Refused(s)

(* "reached end of archived events" (line 111): at the tail the archive    *)
(* has been received.  The code breaks this: every page but the first asks *)
(* for the last TOLERANCE_SECONDS only (line 149).                         *)
TailMeansArchiveReceived ==
  \A s \in Scrapers, e \in Events :
    tail[s] /\ e \in archive[s] /\ e.valid => e.id \in seen
=============================================================================
