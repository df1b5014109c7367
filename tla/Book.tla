-------------------------------- MODULE Book --------------------------------
(***************************************************************************)
(* A book of the node: AddressBook (kind 10002), ContactBook (kind 3) and  *)
(* ProfileBook (kind 0) are the same program over another event kind.  It  *)
(* answers loads of an author's newest event from a cache, then from the   *)
(* event store, and otherwise queues the author for the next batch.  A     *)
(* throttled fetchEvents() moves the whole queue into one subscription on  *)
(* several relays; when every relay has sent EOSE the batch is answered.   *)
(*                                                                         *)
(* The source lines below are those of src/modules/address-book.ts.        *)
(* An event is represented by its created_at; NoEvent is "none".           *)
(***************************************************************************)
EXTENDS Naturals, Functions

CONSTANTS
  Pubkeys,      \* authors
  Callers,      \* async functions that await a load, each at most one load
  Relays,       \* relay urls
  ExtraRelays,  \* COMMON_CONTACT_RELAYS, asked for every author
  Hints,        \* the values loads pass as `relays`
  MaxTime,      \* bound of the model on created_at
  NoKey         \* a value of awaits that is no author

ASSUME BookAssumption ==
  /\ ExtraRelays \subseteq Relays
  /\ ExtraRelays # {}
  /\ Hints \subseteq SUBSET Relays
  /\ MaxTime \in Nat \ {0}
  /\ NoKey \notin Pubkeys

VARIABLES
  store,     \* newest event of each author in the event store
  cache,     \* this.cache
  next,      \* this.next: author -> relays to ask
  fetching,  \* this.fetching: author -> relays to ask
  pending,   \* this.pending: author -> callers attached to its deferred
  throttle,  \* state of the lodash throttle around fetchEvents
  open,      \* relays of the running subscription that have not sent EOSE
  awaits,    \* author each caller awaits, or NoKey
  got        \* last answer of each caller

vars == <<store, cache, next, fetching, pending, throttle, open, awaits, got>>

NoEvent == 0

Time == 1..MaxTime

Newer(s, t) == IF t > s THEN t ELSE s

(* A Map with nothing in it, and Map.set. *)
EmptyMap == [p \in {} |-> {}]
With(f, k, v) == [x \in DOMAIN f \cup {k} |-> IF x = k THEN v ELSE f[x]]

(* f is a Map from authors to elements of V. *)
AuthorMap(f, V) == DOMAIN f \subseteq Pubkeys /\ f \in [DOMAIN f -> V]

(* Every variable has its type. *)
TypeOK ==
  /\ store \in [Pubkeys -> 0..MaxTime]
  /\ cache \in [Pubkeys -> 0..MaxTime]
  /\ AuthorMap(next, SUBSET Relays)
  /\ AuthorMap(fetching, SUBSET Relays)
  /\ AuthorMap(pending, SUBSET Callers)
  /\ throttle \in {"cold", "cooling", "trailing", "warm"}
  /\ open \in SUBSET Relays
  /\ awaits \in [Callers -> Pubkeys \cup {NoKey}]
  /\ got \in [Callers -> 0..MaxTime]

Init ==
  /\ store = [p \in Pubkeys |-> NoEvent]
  /\ cache = [p \in Pubkeys |-> NoEvent]
  /\ next = EmptyMap
  /\ fetching = EmptyMap
  /\ pending = EmptyMap
  /\ throttle = "cold"
  /\ open = {}
  /\ awaits = [c \in Callers |-> NoKey]
  /\ got = [c \in Callers |-> NoEvent]

-----------------------------------------------------------------------------
(* Reading and writing the newest event                                    *)

(* getMailboxes: the cached event, else the stored one (which the caller   *)
(* then puts in the cache: every step that reads it also writes cache).    *)
GetEvent(p) == IF cache[p] # NoEvent THEN cache[p] ELSE store[p]

Cached_NoCompare(old, t) == t

Cached(old, t) == IF old = NoEvent \/ t > old THEN t ELSE old

(* handleEvent: store the event, cache it if it is the first or a newer one. *)
HandleEvent(p, t) ==
  /\ store' = [store EXCEPT ![p] = Newer(@, t)]
  /\ cache' = [cache EXCEPT ![p] = Cached(@, t)]

-----------------------------------------------------------------------------
(* The batch                                                               *)

(* The relays an author of a batch is asked from. *)
Asked(batch, p) == ExtraRelays \cup batch[p]

AskedRelays_NotFlattened(batch) == {Asked(batch, p) : p \in DOMAIN batch}

AskedRelays(batch) == UNION {Asked(batch, p) : p \in DOMAIN batch}

(* fetchEvents with `queue` in this.next: nothing while a batch is running *)
(* or when nothing is queued, else the queue becomes the batch and one     *)
(* subscription asks every relay for its authors.                          *)
FetchEvents(queue) ==
  \/ /\ DOMAIN fetching # {} \/ DOMAIN queue = {}
     /\ next' = queue
     /\ UNCHANGED <<fetching, open>>
  \/ /\ DOMAIN fetching = {} /\ DOMAIN queue # {}
     /\ fetching' = queue
     /\ next' = EmptyMap
     /\ open' = AskedRelays(queue)

(* A call of fetchEventsThrottle.  "cold": no timer and no call within the *)
(* wait, the leading edge invokes at once.  "warm": no timer but a recent  *)
(* trailing invocation, the call only arms the timer.  While the timer runs*)
(* ("cooling", and "trailing" once a call waits for its expiry) the call is*)
(* put off, unless the event loop is late and the wait is over: then it    *)
(* invokes at once and the timer is restarted.                             *)
FetchEventsThrottle(queue) ==
  \/ /\ throttle = "cold"
     /\ throttle' = "cooling"
     /\ FetchEvents(queue)
  \/ /\ throttle # "cold"
     /\ throttle' = "trailing"
     /\ next' = queue
     /\ UNCHANGED <<fetching, open>>
  \/ /\ throttle \in {"cooling", "trailing"}
     /\ throttle' = "cooling"
     /\ FetchEvents(queue)

(* The throttle's timer: the trailing edge invokes if a call was put off. *)
TimerExpires ==
  /\ \/ /\ throttle = "cooling"
        /\ throttle' = "cold"
        /\ UNCHANGED <<next, fetching, open>>
     \/ /\ throttle = "trailing"
        /\ throttle' = "warm"
        /\ FetchEvents(next)
  /\ UNCHANGED <<store, cache, pending, awaits, got>>

(* The wait passes with no call: the next call is a leading edge again. *)
WaitElapses ==
  /\ throttle = "warm"
  /\ throttle' = "cold"
  /\ UNCHANGED <<store, cache, next, fetching, pending, open, awaits, got>>

-----------------------------------------------------------------------------
(* Loads                                                                   *)

(* loadMailboxes of an author in the cache or the store. *)
LoadKnown(c, p) ==
  /\ awaits[c] = NoKey
  /\ GetEvent(p) # NoEvent
  /\ cache' = [cache EXCEPT ![p] = GetEvent(p)]
  /\ got' = [got EXCEPT ![c] = GetEvent(p)]
  /\ UNCHANGED <<store, next, fetching, pending, throttle, open, awaits>>

IsPending_Never(p) == FALSE

IsPending(p) == p \in DOMAIN pending

(* loadMailboxes of an author that is already pending: the caller gets the *)
(* same promise, and the relays it passed are not used.                    *)
LoadJoins(c, p) ==
  /\ awaits[c] = NoKey
  /\ GetEvent(p) = NoEvent
  /\ IsPending(p)
  /\ pending' = [pending EXCEPT ![p] = @ \cup {c}]
  /\ awaits' = [awaits EXCEPT ![c] = p]
  /\ UNCHANGED <<store, cache, next, fetching, throttle, open, got>>

(* this.next.set(pubkey, this.next.get(pubkey)?.concat(relays) ?? relays) *)
Enqueued(p, relays) ==
  With(next, p, IF p \in DOMAIN next THEN next[p] \cup relays ELSE relays)

(* loadMailboxes of any other author: a new deferred, queued. *)
LoadQueues(c, p, relays) ==
  /\ awaits[c] = NoKey
  /\ GetEvent(p) = NoEvent
  /\ ~ IsPending(p)
  /\ pending' = With(pending, p, {c})
  /\ awaits' = [awaits EXCEPT ![c] = p]
  /\ FetchEventsThrottle(Enqueued(p, relays))
  /\ UNCHANGED <<store, cache, got>>

-----------------------------------------------------------------------------
(* The subscription                                                        *)

(* onevent: a relay of the running subscription sends an event of an       *)
(* author it was asked for.  A relay that has sent EOSE may still do so:   *)
(* its part of the subscription is closed with the rest, in oneose.        *)
RelayEvent(p, t) ==
  /\ p \in DOMAIN fetching
  /\ HandleEvent(p, t)
  /\ UNCHANGED <<next, fetching, pending, throttle, open, awaits, got>>

(* The authors of the batch that still have a deferred. *)
Answered == DOMAIN fetching \cap DOMAIN pending

(* The deferred of p is resolved, which wakes the caller. *)
Resolves(c) == \E p \in Answered : c \in pending[p]

(* What oneose resolves it with, and what is left of the batch.            *)
Answer_CacheOnly(c) == cache[awaits[c]]

Answer(c) == GetEvent(awaits[c])

Cleared_Kept == fetching

Cleared == EmptyMap

(* oneose: every deferred of the batch is resolved with what is known of   *)
(* its author and forgotten, and the batch is over.                        *)
Oneose ==
  /\ got' = [c \in Callers |-> IF Resolves(c) THEN Answer(c) ELSE got[c]]
  /\ awaits' = [c \in Callers |-> IF Resolves(c) THEN NoKey ELSE awaits[c]]
  /\ cache' = [p \in Pubkeys |-> IF p \in Answered THEN GetEvent(p) ELSE cache[p]]
  /\ pending' = Restrict(pending, DOMAIN pending \ Answered)
  /\ fetching' = Cleared

(* A relay sends EOSE, refuses or closes the subscription, or runs into    *)
(* the pool's timeout.  The pool calls oneose once, after the last relay.  *)
RelayDone(r) ==
  /\ r \in open
  /\ open' = open \ {r}
  /\ \/ /\ open' # {}
        /\ UNCHANGED <<cache, fetching, pending, awaits, got>>
     \/ /\ open' = {}
        /\ Oneose
  /\ UNCHANGED <<store, next, throttle>>

-----------------------------------------------------------------------------
(* The event store is shared with the rest of the node                     *)

(* The receiver, the relay or another book stores an event of this kind. *)
StoreWrite(p, t) ==
  /\ store' = [store EXCEPT ![p] = Newer(@, t)]
  /\ UNCHANGED <<cache, next, fetching, pending, throttle, open, awaits, got>>

(* CONTROL DATABASE CLEAR deletes every event; no book hears of it. *)
ClearStore ==
  /\ store' = [p \in Pubkeys |-> NoEvent]
  /\ UNCHANGED <<cache, next, fetching, pending, throttle, open, awaits, got>>

Next ==
  \/ \E c \in Callers, p \in Pubkeys : LoadKnown(c, p) \/ LoadJoins(c, p)
  \/ \E c \in Callers, p \in Pubkeys, relays \in Hints : LoadQueues(c, p, relays)
  \/ TimerExpires
  \/ WaitElapses
  \/ \E p \in Pubkeys, t \in Time : RelayEvent(p, t)
  \/ \E r \in Relays : RelayDone(r)
  \/ \E p \in Pubkeys, t \in Time : StoreWrite(p, t)
  \/ ClearStore

Spec == Init /\ [][Next]_vars

(* Timers fire, and every subscription ends on every relay (the pool gives *)
(* each relay a connection and an EOSE timeout).  Nobody has to load.      *)
Fairness ==
  /\ WF_vars(TimerExpires)
  /\ \A r \in Relays : WF_vars(RelayDone(r))

FairSpec == Spec /\ Fairness

-----------------------------------------------------------------------------
(* Properties                                                              *)

(* A deferred exists for exactly the authors that are queued or in the     *)
(* running batch, and no author is in both: what a load finds in           *)
(* this.pending is always still going to be looked at (lines 57, 94-109).  *)
PendingExact ==
  /\ DOMAIN pending = DOMAIN next \cup DOMAIN fetching
  /\ DOMAIN next \cap DOMAIN fetching = {}

(* No caller is lost: whoever awaits an author is attached to the deferred *)
(* that is pending for it, so the answer to one is the answer to all       *)
(* (lines 124-125 share the deferred of an earlier load).                  *)
NoOrphans ==
  \A c \in Callers :
    /\ awaits[c] # NoKey => awaits[c] \in DOMAIN pending
    /\ \A p \in DOMAIN pending : c \in pending[p] <=> awaits[c] = p

(* A batch is marked as running exactly while its subscription has a relay *)
(* to hear from; a mark left behind would block every later batch (the     *)
(* guard of line 62, cleared only in oneose, line 109).                    *)
FetchHasSubscription == (DOMAIN fetching = {}) <=> (open = {})

(* A waiter that is told null is told so of an author the node knows       *)
(* nothing of, whatever arrived while it waited (lines 99-104).            *)
NullMeansUnknown ==
  [][\A c \in Callers :
       awaits[c] # NoKey /\ awaits'[c] = NoKey /\ got'[c] = NoEvent
         => store'[awaits[c]] = NoEvent /\ cache'[awaits[c]] = NoEvent]_vars

(* The cached event of an author is never replaced by an older one,        *)
(* whatever order the relays of a batch answer in (line 49).               *)
CacheMonotone == [][\A p \in Pubkeys : cache'[p] >= cache[p]]_vars

(* What the book answers from its cache is also in the event store, where  *)
(* the rest of the node looks, until the owner clears the database: no     *)
(* other step puts the cache ahead (line 47 stores before line 49 caches). *)
CacheBackedByStore ==
  [][\A p \in Pubkeys :
       cache[p] <= store[p] /\ cache'[p] > store'[p] => ClearStore]_vars

(* A load whose author is queued behind an armed timer, no batch running,  *)
(* is answered: the timer's batch takes the whole queue.  When a batch is  *)
(* running as the timer expires, fetchEvents returns (line 62) and oneose  *)
(* does not call it again; module Startup shows what becomes of that.      *)
ArmedLoadAnswered ==
  \A c \in Callers, p \in Pubkeys :
    /\ awaits[c] = p
    /\ p \in DOMAIN next
    /\ throttle = "trailing"
    /\ DOMAIN fetching = {}
    ~> awaits[c] = NoKey

(* A load whose author is in the running batch is answered by that batch.  *)
FetchedLoadAnswered ==
  \A c \in Callers : awaits[c] \in DOMAIN fetching ~> awaits[c] = NoKey

(* Both: every load is answered but one that the book's queue misses.      *)
LoadsAnswered == ArmedLoadAnswered /\ FetchedLoadAnswered

(* The book keeps the promise of module Loader. *)
Loader == INSTANCE Loader WITH known <- [p \in Pubkeys |-> GetEvent(p)]

(* Loads are answered as Loader says: at once when the author is known,    *)
(* otherwise together with all other loads of the author, with what is     *)
(* known then, and no step of the book changes that (class AddressBook).   *)
ImplementsLoader == Loader!Spec
=============================================================================
