# A verification of the personal node

This directory holds TLA+ models of the node's own logic in `src/src/`, TLC
configurations that check them on small instances, and TLAPS proofs, for every
instance, of all the safety properties that these runs check. Paths in comments are relative to
`src/src/`.

The node is a Nostr relay for one owner. It pulls the events of the people its
owner follows from other relays (the *receiver*), looks up contact lists,
mailboxes and profiles when somebody needs them (the *books*), keeps direct
messages flowing in both directions, proxies remote communities, and is
controlled over WebSockets by `['CONTROL', ...]` messages. It is one JavaScript
process: functions run to completion, and everything that can go wrong in the
order of things goes wrong at an `await`, a timer, or a callback of a socket.
That is what the actions of the models are: the code between two such points.

## The system

| Component | State it keeps | Operations | Source |
|---|---|---|---|
| Books: address, contact, profile | cache, queue (`next`), running batch (`fetching`), deferreds (`pending`), a throttle, one subscription | load, fetch a batch, event, EOSE | `modules/address-book.ts`, `contact-book.ts`, `profile-book.ts`, `helpers/deferred.ts` |
| Relay scraper | socket, `since`, `until`, `eose`, `tail`; the shared `seen` | connect, subscribe, EVENT, EOSE, CLOSED, disconnect | `modules/receiver/relay-scraper.ts` |
| Receiver | `status.active`, the Map of scrapers, `seen`; control subscribers | start, stop, destroy, SUBSCRIBE, UNSUBSCRIBE, STATUS | `modules/receiver/index.ts`, `modules/control/receiver-actions.ts` |
| Direct message manager | conversation subscriptions, watched inboxes, reconnect timers | open, close, watch, stop watching, forward | `modules/direct-message-manager.ts`, `modules/control/dm-actions.ts`, `app/index.ts` 227-237 |
| Control API | authenticated connections, subscribers of configuration, log and statistics, the log, the owner | connect, AUTH, CONFIG, LOG, DATABASE, sign-in, timer | `modules/control/*.ts`, `modules/status-log.ts`, `modules/config-manager.ts`, `app/index.ts` 186-208 |
| Relay pool, remote authentication | blacklist, challenges | ensureRelay, challenge, AUTHENTICATE | `modules/cautious-pool.ts`, `modules/control/remote-auth-actions.ts` |
| Notifications | push subscriptions | REGISTER, UNREGISTER, notify | `modules/notifications-manager.ts`, `modules/control/notification-actions.ts` |
| Communities | one proxy per community, its upstream, channel subscriptions, local ports, labels of events | connection, sync, publish, delete, stop | `modules/community-*.ts`, `hyper-connection-manager.ts`, `labeled-event-store.ts` |
| App, database | the event store and the handlers between the parts | event handlers, start, stop, CLEAR | `app/index.ts`, `app/database.ts` |
| Social graph | the newest contact list of each person | add a contact list, find who is two steps away | `modules/graph/index.ts` |
| Blob downloader, export, helpers | a queue; nothing; nothing | input and output, or unused at this commit | `modules/blob-downloader.ts`, `helpers/*.ts` |

How they interact. `Receiver.start()` awaits a load of the contact book, then
loads of the address book, then makes a scraper per outbox relay. A scraper
emits an event; the app adds it to the event store and logs it; the log sends
the line to its control subscribers. The direct message manager awaits the
address book and the pool. The books, the receiver, the embedded relay and the
communities share one event store, which CONTROL DATABASE CLEAR empties under
all of them. Nobody tells the books what others store.

What is hard:

- *awaits*: `start()`, `openConversation()` and `watchInbox()` check something,
  wait, and act on it; they may be called again or undone in between;
- *timers*: the lodash throttle of the books, the reconnect timer of an inbox,
  the statistics timer, the 100 ms before a community's sync;
- *order of messages*: relays of one batch answer in any order, live events
  overtake a page, several relays send the same event, or a damaged copy of it;
- *partial failure*: a relay refuses, closes or never answers;
- *stale state*: caches and `seen` outlive the database they describe;
- *shared state*: communities share local servers and one table of events.

What makes each part correct:

- a book answers every load, once, with what the node knows at that moment;
  it may only fail to answer in a way that is understood;
- a scraper walks an archive without gaps but for those a backdated event makes,
  ends, and misses nothing afterwards that it asks for; an event is emitted once
  over all scrapers;
- the receiver reports its status truly and asks for the owner's events
  whatever overlaps;
- a conversation has one subscription and closing ends it; a watched inbox is
  kept, once, and a stopped one is not;
- control goes to the owner of the moment, cannot be taken over, and ends with
  the connection; subscribers know what they subscribed to;
- communities behind one address share a server; each shows its clients what
  reached it and nothing that it deleted; a connection is followed by its sync;
- a direct message is pushed once to every browser registered when it came;
- the node never talks to itself as to another relay.

## The modules

`Loader` is an abstract specification; `Book` implements it and `Startup` is
built from two instances of `Book`. The others stand by themselves: what one
needs of another component is an environment action of the same effect (a load
that ends at any time, an event that arrives), so that it holds for whatever
the other component does. `*Proofs` extends a module with theorems, `MC*` with
the definitions a TLC instance needs. Definitions whose name has a suffix after
an underscore (`IsPending_Never`) are altered versions of the definition that
follows them: each is a plausible slip in that code, kept to show that a
property notices it. They occur in no specification.

### Loader, Book, Startup

`Book` is written once for the three books, which differ in the event kind
only (line numbers are those of `address-book.ts`). An event is represented by
its `created_at`. `next`, `fetching`, `pending` and `cache` are the fields of
the class; a deferred is the set of callers that await it. `throttle` is the
state of the lodash throttle, including its less obvious states: `warm`, when
a trailing call has just been made and the next call only arms the timer, and
the late event loop, which lets a call through although the timer has not
fired. `open` is the set of relays of the running subscription that have not
sent EOSE; the pool calls `oneose` after the last. `StoreWrite` and `ClearStore`
are the rest of the node.

| Action | Code |
|---|---|
| `LoadKnown`, `LoadJoins`, `LoadQueues` | `loadMailboxes`: cached or stored; already pending; queued |
| `FetchEvents`, `FetchEventsThrottle`, `TimerExpires`, `WaitElapses` | `fetchEvents` and the throttle around it |
| `RelayEvent`, `RelayDone` with `Oneose` | the subscription's callbacks |

`Loader` says what a book promises its callers: known authors are answered at
once, and all who wait for one author are answered together with what is known
then. `ImplementsLoader` is checked by TLC and proved, also of the two books that
`Startup` drives (`BothBooksAreLoaders`).

`Startup` composes `Receiver.start()` with an address book and a contact book,
both instances of `Book` whose callers are the loads of the starts. Calls that
the code makes in one synchronous map (`Promise.all(pubkeys.map(...))`) exclude
every other step until the last of them is made (`Idle`), which is what makes
the lost wake-up of the book reachable in a single start.

### RelayScraper

Each scraper is a socket, its cursors and its two flags, one action for each
message (`StoredEventArrives`, `LiveEventArrives`, `EoseArrives`,
`RelayRefuses` for CLOSED), and the connection's own events. The relay at the
other end is external: it answers a REQ with the newest `Limit` events that
match, newest first, then EOSE, keeps the REQ in force for what is published
later, and holds a good or a damaged copy of each event. `archive` is a history
variable: what the relay held when the scraper connected. `Publish` admits any
`created_at`, as relays do: a live event may be older than the page that is
arriving, or than all that was received; `early`, a history variable too, names
those that arrived before the tail. A publication that does not match the REQ in
force is held by the relay and not sent.

### Receiver

`start()` in its three pieces (`StartBegins`, `ContactsLoaded`,
`StartFinishes`), `Stop`, the three control messages, and events. Loads end at
any time with any answer, or never. A scraper is a connection that brings the
events of the authors it asks for. `config.owner` is taken to be set: without it
`start()` returns before it does anything that matters. `Stop` models line 103
as it is: `Object.entries` of a Map has no elements, so that `Cleaned` is empty.
What the event store keeps of the events it is passed (`eventStore.addEvent` drops
older replaceable, ephemeral and deleted ones) is external, and the receiver
never asks for it: `added` counts what was passed on.

### DirectMessages

Conversations, inboxes and forwarding are three machines that share no
variable, in one module because they are one class. A call of
`openConversation`, `watchInbox` or `forwardMessage` is a number, and an inbox
subscription is a pair of a call and a relay. The properties make exceptions, each
for interleavings in which the code leaves a subscription behind, and each named
by a history variable: `overlapped` (two calls were opening one conversation),
`late` (a call was still opening at the last close), `strayed` (two calls loaded
the mailboxes of one pubkey, or it was stopped while a subscription was being made
or due) and `rejected` (a relay could not be connected to). The messages
themselves go to the event store and are left out. At this commit nobody calls
`watchInbox` (`app/index.ts` 259 is commented out). Forwarding has its three
pieces; the handler's answer is computed in one step from the settled promises
(`ForwardSettled`), and no property is stated of it.

### Control

One action for each message of the handlers CONFIG, LOG and DATABASE, AUTH, the
two steps of signing in to the relay, the 'close' of a socket with the listeners
that the SUBSCRIBE messages added, and the statistics timer. `CheckAuth` is
`relay.checkAuth`, `SocketAuth` the listener of 'socket:auth'; `checked` holds
the key that passed in between. The relay that calls both is external: the model
lets anything happen between them, a change of the owner in particular, except
that a connection that closes there is not passed along any more. A parent process
(`process.send`) is a connection that need not authenticate and never closes.
Messages of connections that are not authenticated are ignored by the code and
are no actions here. `configView`, `logView` and `statsView` are what the client
of each connection has: log lines stay with it when it unsubscribes, as
`log-actions.ts` sends nothing then, and `unaware` (a history variable) names those
that were cleared while it was not subscribed. When a connection closes its
client's view goes with it.

### Community

`CommunityMultiplexer.handleConnection` with the proxy it creates
(`HandleConnection`), `connectUpstream()` in its pieces (`ConnectUpstream`,
`Listening`, `Connected`), the timer (`TimerFires`), the channel subscriptions,
and the messages of the upstream (`HandleEvent`). The upstream is external: it
keeps what it was sent until it deletes it, and sends in order. A deletion is by
the event's author or the community ("deletion"), upon which it deletes, or by
somebody else ("foreign"), which it passes on all the same; `Deletes` is the check
of `handleDeleteEvent`, on what the community's view of the store has. `store` and
`labels` are the two tables of the database that all communities and the node
share; `received` and `handled` are history variables of what a community's
clients ought to see. A rightful deletion removes the labels of every community, as
`LabeledEventStore.removeEvents` does. Events are not replaceable ones.

| Action | Code |
|---|---|
| `DefinitionStored` | a definition from `syncCommunityDefinitions` or from anywhere |
| `HandleConnection`, `Listening`, `Connected`, `Closed` | `handleConnection`, `getLocalAddress`, `connectUpstream`, `upstream.onclose` |
| `TimerFires`, `SyncChannel`, `SubscriptionClosed` | `syncMetadata`, `syncDeletions`, `syncChannel`, its `onclose` |
| `ClientPublishes`, `HandleEvent` | the proxy's event handler; `onevent`, `handleEvent`, `handleDeleteEvent` |
| `NodeStores`, `ClearDatabase` | the rest of the node |

### Notifications, Pool, Graph

Three smaller parts, which share no state and are checked by one run (`MCNode`
instantiates them and lets `Init` choose the part that runs).

`Notifications` has the array of subscriptions, which REGISTER and UNREGISTER
replace, and for every message the array that its `notify()` is still iterating.
`Pool` has the connections of `CautiousPool` with its callbacks, the blacklist,
and what REMOTE-AUTH subscribers are told. It states what the code does:
`_onauth` keeps and reports a challenge if `checkRelay` says yes, and that says
yes of the node's own relay only, so the challenges of other relays are never
reported. (AUTHENTICATE does not help: `remote-auth-actions.ts` 58 assigns where
it means to compare, `authenticated` is never set to true, and the case falls
through to `return false`. It changes nothing of the pool.)
`Graph` has `addContacts` as its action and `getNodes` as operators (`Occurs`,
`Populate`, `GetNodes`), which TLC compares with a definition of who is followed
in two steps, for every set of roots.

## The runs

Every passing run finishes in two minutes on two cores; `DirectMessages` is the
largest (5.7 million states), then `Scraper` (0.9 million).

| Run | What it asks | Instance, and why it is enough |
|---|---|---|
| `Book` | nobody is orphaned, null answers are true, the cache is monotone, `ImplementsLoader`, and armed and fetched loads are answered | 2 authors, 2 callers, 2 relays, 2 times: one author is queued while the other is being fetched; two callers share a deferred or not; relays end in either order; two times give an older and a newer version |
| `Scraper` | the walk: no gaps but those of backdated events, window at the tail, emitted once, the tail is reached, complete at rest | 1 relay, up to 4 events two seconds apart (times 2 to 8), good or damaged, pages of 2, tolerance 4: a full page, a partial one and an empty one; a window whose low end is 4 when the newest event is 8, so that it cuts the archive; publications of any time during the walk, within, above and below the page |
| `Receiver` | status, added once, the owner is asked for | 2 starts that overlap with stops, 2 authors, 2 relays, 1 event, 1 control connection |
| `Startup` | finished starts wait for nothing; only the missed queue blocks | 2 starts, 2 authors, 1 relay: one author is fetched, the other queued |
| `DirectMessages` | one subscription, closing, inboxes kept per call, no other call's subscriptions | 2 opens and any closes of one pair, 2 watches of one pubkey and any stops, 2 relays, 1 message: calls overlap, are undone while they wait, and follow one another |
| `Control` | nothing is left of closed connections, control goes to the owner of the moment, the owner is kept, subscribers know owner and log | 2 connections, 2 people, 2 lines with 1 sent at first: two people compete, the owner changes between the steps of signing in, one clears what the other was sent |
| `Community` | shared server, channels in force, views, deletions, the sync starts | 2 communities, 1 hyper address, 1 channel, 1 event: the communities race for one server or use other addresses, both may hold the event, and it is deleted by who may and who may not |
| `Node` | pushes reach every browser once; the node leaves its own relay; the graph's distances and counts | 2 browsers that register three times, 2 messages; 2 relays, 1 of them the node; 3 people, contact lists of 2 times |

An event of one relay is emitted once in `Scraper`; that scrapers of any number
that share `seen` emit it once is theorem `EventsEmittedOnce`.

`Scraper`, `Startup`, `DirectMessages`, `Community` and `Node` say
`CHECK_DEADLOCK FALSE`: the system stops when every socket is closed, every
call that the bound allows has been made, or no newer contact list is left.

Four runs are expected to be violated. Each shows where the code does not do
what a comment in it says, and is described in the findings:

| Run | What the counterexample shows |
|---|---|
| `StartupHangs` | With two followed authors `start()` can wait for ever: the second is queued behind the throttle, the timer expires while the first batch runs, `fetchEvents` returns (line 62), and `oneose` does not call it again. |
| `ScraperArchive` | At "reached end of archived events" the archive has not been received: every page but the first has `since` set to the newest event received minus `TOLERANCE_SECONDS`, ten minutes. |
| `ReceiverStop` | `stop()` disconnects nothing. |
| `DirectMessagesReconnect` | An inbox subscription comes back 30 s after `stopWatchInbox`. |

Bounds. `MaxTime`, `MaxStarts`, `MaxOpens`, `MaxWatches`, `MaxForwards`,
`MaxLines`, `MaxCount` and `MaxMade` are bounds of the models, not of the code; `Limit` is
the relay's and `Tolerance` and `Initial` are the code's constants in small.
`Symmetric` permutes connections, people or relays where no property is a
liveness property.

What is *not* claimed. `NoGapAboveUntil` and `TailWindowComplete` hold where no
two events share a second: the next page starts below the oldest event of the
last (line 92), and what shares its second but did not fit is lost. They except
what a backdated live event overtook, because the code skips it: of an archive of
times 8, 6 and 4, read in pages of two, the first page brings 8 and 6; a live event
of time 2 that arrives with it sets `until` to 1 (lines 91-92), and 4 is never
asked for before the tail. `CompleteAtRest` leaves out publications that are
backdated below the window of the tail: they match no REQ.
`ReachesTail` holds where no two events are in consecutive seconds: with
`At <- EverySecond` TLC finds a scraper that asks for one page for ever, since
line 91 compares with `<` and the page clears `eose` each time. The instances
are chosen accordingly (`EveryOther`).
`OneSubscription` and `CloseEndsConversation` except conversations that two
calls opened at once, for which they do not hold, and the latter calls that were
still opening at the close, which finds nothing to close (line 156). `InboxKept` is
said of the call that watches, and excepts relays that could not be connected
to; `InboxOnce`, that a relay carries the subscription of no other call, excepts
the pubkeys in `strayed`. `LogIsFollowed` excepts lines that were cleared while
their reader was not subscribed. None of the exceptions ends: what the code leaves
behind in these cases stays until the connection or the process ends.

## Fairness

`Book`, `RelayScraper`, `Startup` and `Community` have liveness properties,
under weak fairness of

- timers (`TimerExpires`, `TimerFires`): the event loop runs them, and neither
  the throttle's timer nor that of `connect()` is ever cancelled;
- the end of each relay's part of a subscription (`RelayDone`): the pool gives
  every relay a connection timeout and an EOSE timeout;
- a relay's answer and the arrival of its messages while the connection stands
  (`RelayScraper`): `ReachesTail` excepts connections that close and relays that
  refuse, which the scraper has no timeout against;
- continuations of resolved promises (`Startup`).

Nothing is assumed of the owner, of who publishes, or of who closes a
connection.

## What is proved

TLAPS checks these for every value of the constants that satisfies the named
assumption of the module (`BookAssumption`, `ScraperAssumption`, ...).

*Book.* `TypeOK`, `PendingExact`, `NoOrphans` and `FetchHasSubscription` are
inductive together, and none alone: that oneose leaves no caller behind needs
every author of the batch to have a deferred, and that needs a relay's end to
mean that a batch is running. `CacheMonotone`, `NullMeansUnknown` and
`CacheBackedByStore` follow step by step, and `ImplementsLoader` maps
`LoadKnown` to `AskKnown`, `LoadJoins` and `LoadQueues` to `AskUnknown`, the
last `RelayDone` to `Settle`, and writes to `Learn` or a stutter.

*RelayScraper.* `EmittedOnce` is inductive with the types. `NoGapAboveUntil` and
`TailWindowComplete` are not: the invariant `Walk` adds that a REQ on its way
covers what one sent now would ask for, that a page is the newest part of what
is missing, and that an empty page after an EOSE means an empty window, each but
for what was overtaken. Both are proved under `DistinctTimes`, stated in the
theorems, and for publications of any time. `UntilNeverRises` is
an action property that needs the types only, and holds for any times.
`CompleteAtRest` needs neither `Walk` nor distinct times. Its invariant
`Delivery` says of a relay that sends all it has where each event of the archive
is, and at the tail each one of the window: received, on its way, or asked for by
the REQ on its way. The first REQ asks for everything; the tail's has no `until` and
starts no later than `since` less the tolerance, which only rises, so that it
covers what `Due` claims; a page leaves nothing out because a relay holds finitely
many events, as ids are digests of a fixed length.

*Receiver.* `StatusReported` is inductive with the types; `AddedOnce` needs that
an event was added exactly if it was seen; `OwnerIsAskedFor` needs that a start
that awaits mailboxes follows the owner.

*DirectMessages.* The invariant has a part for each machine. That of the
conversations relates the Map, the open subscriptions and the calls that are
still opening: two that open one conversation are known to overlap, and a call that
is still opening after a close is known to be in `late`. That of the inboxes adds that
what is open is in the Map of its call, so that stopping reaches it, and that no
two calls load the mailboxes of a pubkey that has not strayed.

*Control.* `NothingKeepsClosed` needs that only open connections are between the
two steps of signing in (`ClosedInv`); `ControlIsEarned` is an invariant, inductive
with the types, and an action property; `ConfigIsKnown` is inductive. All hold with
or without a parent process (TLC's instance has none). `LogIsFollowed` needs that
lines are numbered as they are logged and a fact about sets: one more line, newer than all, makes nothing one of the newest
that was not before. `OwnerIsKept` is an action property.

*Community.* `ChannelsInStep` is inductive with the types. `OneServerPerAddress`
needs `ServerInv`: a server is bound once and stays, and some community that was
not turned away waits for it. `ViewIsReceived` needs that what is labelled is
stored, or an event that the node stores could appear in a community that never
received it. `DeletedStaysGone` needs both and `InOrder`: no event is on its way
behind its own deletion. The assumption is that events are finitely many, since
the upstream sends what it holds as a sequence.

*Startup.* `BooksAreDrivenAsBooks`: a step of a start is a step of each book or
leaves it alone, so that both keep what is proved of a book
(`BothBooksAreLoaders`). `FinishedStartsAwaitNothing` needs the invariant of the
address book, and that a start awaits nothing but what it has called, and
nothing once it is done (`StartsInv`): a deferred that still names a finished
start would be an orphan of the book.

*Notifications, Pool, Graph* (`NodeProofs`). `EveryBrowserOnce` needs that the
array of subscriptions has no key twice, which is a fact about `filter()`:
`Without` is written as a fold, since the provers have no facts about
`SelectSeq`, and `FilterKeepsPart` says what the fold returns. `SelfStaysOut`
needs that a recognised relay is blacklisted (`PoolInv`). `NodesAreFollowed` is
a fact about `getNodes()` for any finite lists of contacts: each pass of
`populate()` adds one occurrence for each follow (`FoldCounts`), and the second
pass cannot bring a person nearer (`TwoPasses`). The assumptions are that
people are finitely many and that the bounds are numbers.

Induction over data. The library's induction theorems take an operator as a
parameter, which no installed prover instantiates. What the folds of `Without`
and `Populate` compute is proved with the induction in the form of a set:
`SetInduction` and `FoldCounts` take a least element of the set of those
numbers, or those subsets, for which the claim fails (`WFMin`).

*Progress.* Liveness under fairness is out of the prover's reach, and so is
termination of the walk, on which `ReachesTail` rests. What is proved is that
nobody waits for nothing, which is what fairness needs to work on:

| Theorem | Of the liveness property | It says |
|---|---|---|
| `WalkNeverStalls` | `ReachesTail` | before the tail a REQ or its answer is on its way, unless the relay refused |
| `BatchHasSubscription` | `LoadsAnswered` | a batch is marked as running exactly while a relay is outstanding |
| `StartsWaitForSomething` | `OnlyMissedQueueBlocks` | a waiting start has an armed timer or a running subscription, but for the missed queue of the address book |
| `OneAuthorIsNeverMissed` | `OnlyMissedQueueBlocks` | a book of one author, as the contact book is here, cannot miss its queue |
| `SyncIsNeverForgotten` | `SyncStarts` | a connected community has asked, or its timer is armed |

Proved and in no run: these; `PendingExact` and `CacheBackedByStore` of `Book`;
`UntilNeverRises` of `RelayScraper`; `StopEndsInbox` of `DirectMessages`;
`TypeOK` of `Startup`, and what it says of its books. TLC agreed with each on
the instances of the runs before it was proved.

Only model-checked: the four liveness properties `LoadsAnswered`, `ReachesTail`,
`OnlyMissedQueueBlocks` and `SyncStarts`. The expected violations are
counterexamples of TLC and are not theorems of any kind.

## What is left out

- External code, modelled from its use in `src/`: relays, `SimplePool` and
  nostr-tools, lodash's throttle, SQLite's event store, `ReactiveJsonFileSync`
  of the core package (that it emits 'changed' on every change is assumed), the
  embedded relay's handling of sockets.
- `status.active` is set before anything that can throw; a relay url that
  cannot be parsed makes `start()` reject (see the hazards). Urls of the models
  are well formed.
- The contents of events, signatures (a copy is good or damaged), formatting and
  logging texts, SQL queries, the HTTP routes.
- `Control` has the statistics as the code sends them, and no property of them:
  the timer compares with its own last turn, so that a subscriber can keep wrong
  ones until the next change (see the hazards).
- `BlobDownloader`: nothing queues a blob at this commit. Export
  (`helpers/json.ts`): files around one call; two exports at once write the same
  temporary file, which is listed as a hazard.
- The `stop()` methods of the communities, which run only before the process
  ends, and the bytes of the sockets behind a local server.
- The mailbox, relay and pubkey helpers: pure filters, whose results are the sets
  of relays the models start from.

## Plan

Written, in this order, as the code's own core comes first: `Loader` and `Book`,
`RelayScraper`, `Receiver`, `Startup`, `DirectMessages`, `Control`, `Community`,
then `Notifications`, `Pool` and `Graph`, each with its proofs.

Next:

1. Proofs: a variant of the walk (each page lowers `until`, is empty, or repeats
   one event), the arithmetic that `ReachesTail` rests on; an abstract
   specification of a community's view that `Community` implements.
2. The handler of inserted events in `app/index.ts` 105-118 with two books,
   address and profile: what becomes of the relays that the second load passes.
3. The filters that `app/index.ts` puts before events and subscriptions of
   sockets that have not signed in.
