----------------------------- MODULE Community -----------------------------
(***************************************************************************)
(* Remote communities (src/modules/community-multiplexer.ts,               *)
(* community-proxy.ts, hyper-connection-manager.ts and                     *)
(* labeled-event-store.ts).  The first client of a community creates its   *)
(* proxy, which connects to the upstream relay, through a local server if  *)
(* the address is a hyper address, and 100 ms later subscribes to metadata *)
(* and deletions.  Channels are synced when a client asks for them.  All   *)
(* communities keep their events in the node's database, told apart by     *)
(* labels.                                                                 *)
(*                                                                         *)
(* Upstream relays are external: they send what they hold to whoever       *)
(* subscribes and new events and deletions to subscribers, in order, and   *)
(* drop what was deleted by who may: the event's author or the community.  *)
(* Deletions by others they keep and send like any event.                  *)
(***************************************************************************)
EXTENDS Integers, Sequences, FiniteSets, SequencesExt

CONSTANTS
  Communities,  \* pubkeys of communities
  Hyper,        \* hyper addresses
  Channels,     \* ids of channels
  Events,       \* ids of events, replaceable ones apart
  Topic         \* the channel of each event, or "metadata"

Topics == Channels \cup {"metadata", "deletion"}

ASSUME CommunityAssumption ==
  /\ IsFiniteSet(Events)
  /\ {"metadata", "deletion"} \cap Channels = {}
  /\ {"websocket", "nowhere", "none"} \cap Hyper = {}
  /\ Topic \in [Events -> Channels \cup {"metadata"}]

VARIABLES
  definition,   \* the address in the stored definition, or "none"
  proxy,        \* how far the connection of a community's proxy has come
  timer,        \* connect()'s timer of 100 ms is running
  server,       \* HyperConnectionManager.servers
  bound,        \* how many servers were bound to an address (history variable)
  channelSubs,  \* CommunityProxy.channelSubs
  open,         \* the subscriptions in force at the upstream
  asked,        \* the subscriptions ever made (history variable)
  held,         \* events the upstream holds
  deleted,      \* events whose deletion, by the author or the community, it holds
  disputed,     \* events of which it holds a deletion by somebody else
  inbox,        \* its messages on their way to the proxy
  store,        \* events in the database
  labels,       \* table event_labels
  received,     \* what reached a community and nobody removed (history variable)
  handled       \* rightful deletions that reached a community (history variable)

linkVars == <<definition, proxy, timer, server, bound>>
upstreamVars == <<held, deleted, disputed>>
storeVars == <<store, labels, received, handled>>
subVars == <<channelSubs, open, asked>>
vars == <<linkVars, subVars, upstreamVars, inbox, storeVars>>

Addresses == Hyper \cup {"websocket", "nowhere"}
Messages == [kind : {"event", "deletion", "foreign"}, event : Events]

(* Every variable has its type. *)
TypeOK ==
  /\ definition \in [Communities -> Addresses \cup {"none"}]
  /\ proxy \in [Communities -> {"absent", "binding", "connecting", "rejected", "up", "down"}]
  /\ timer \in [Communities -> BOOLEAN]
  /\ server \in [Hyper -> {"none", "binding", "listening"}]
  /\ bound \in [Hyper -> Nat]
  /\ channelSubs \in [Communities -> SUBSET Channels]
  /\ open \in [Communities -> SUBSET Topics]
  /\ asked \in [Communities -> SUBSET Topics]
  /\ held \in [Communities -> SUBSET Events]
  /\ deleted \in [Communities -> SUBSET Events]
  /\ disputed \in [Communities -> SUBSET Events]
  /\ inbox \in [Communities -> Seq(Messages)]
  /\ store \in SUBSET Events
  /\ labels \in SUBSET (Events \X Communities)
  /\ received \in [Communities -> SUBSET Events]
  /\ handled \in [Communities -> SUBSET Events]

Nothing == [c \in Communities |-> {}]

Init ==
  /\ definition = [c \in Communities |-> "none"]
  /\ proxy = [c \in Communities |-> "absent"]
  /\ timer = [c \in Communities |-> FALSE]
  /\ server = [k \in Hyper |-> "none"]
  /\ bound = [k \in Hyper |-> 0]
  /\ channelSubs = Nothing /\ open = Nothing /\ asked = Nothing
  /\ held = Nothing /\ deleted = Nothing /\ disputed = Nothing
  /\ inbox = [c \in Communities |-> <<>>]
  /\ store = {} /\ labels = {}
  /\ received = Nothing /\ handled = Nothing

-----------------------------------------------------------------------------
(* The connection                                                          *)

(* A definition arrives, from wss://nostrue.com or elsewhere. *)
DefinitionStored(c, a) ==
  /\ definition[c] = "none"
  /\ definition' = [definition EXCEPT ![c] = a]
  /\ UNCHANGED <<proxy, timer, server, bound, subVars, upstreamVars, inbox, storeVars>>

EnteredAt_Listening(address) == FALSE

(* bind() enters the server in the Map before it listens. *)
EnteredAt(address) == TRUE

Elapses_NotAwaited(c) == proxy[c] = "absent"

(* connect() sets its timer when the attempt is over. *)
Elapses(c) == proxy'[c] \in {"up", "down"}

SetTimer(c) == timer' = [timer EXCEPT ![c] = @ \/ Elapses(c)]

(* connectUpstream() up to its first await.  A server that does not listen *)
(* yet has no address, on which it throws; nobody catches that.            *)
ConnectUpstream(c, address) ==
  \/ /\ address = "nowhere" \/ (address \in Hyper /\ server[address] = "binding")
     /\ proxy' = [proxy EXCEPT ![c] = "rejected"]
     /\ UNCHANGED <<server, bound>>
  \/ /\ address = "websocket" \/ (address \in Hyper /\ server[address] = "listening")
     /\ proxy' = [proxy EXCEPT ![c] = "connecting"]
     /\ UNCHANGED <<server, bound>>
  \/ /\ address \in Hyper /\ server[address] = "none"
     /\ proxy' = [proxy EXCEPT ![c] = "binding"]
     /\ server' = IF EnteredAt(address) THEN [server EXCEPT ![address] = "binding"] ELSE server
     /\ bound' = [bound EXCEPT ![address] = @ + 1]

(* A client asks for a community that has no proxy yet. *)
IsFirst(c) == proxy[c] = "absent"

(* handleConnection(): getCommunityProxy() finds the definition, creates   *)
(* the proxy and calls its connect(), whose promise it drops.              *)
HandleConnection(c) ==
  /\ IsFirst(c)
  /\ definition[c] # "none"
  /\ ConnectUpstream(c, definition[c])
  /\ SetTimer(c)
  /\ UNCHANGED <<definition, subVars, upstreamVars, inbox, storeVars>>

(* The server of c's address listens: getLocalAddress() resolves. *)
Listening(c) ==
  /\ proxy[c] = "binding"
  /\ server' = [server EXCEPT ![definition[c]] = "listening"]
  /\ proxy' = [proxy EXCEPT ![c] = "connecting"]
  /\ UNCHANGED <<definition, timer, bound, subVars, upstreamVars, inbox, storeVars>>

(* Relay.connect() succeeds or fails; a failure is caught. *)
Connected(c) ==
  /\ proxy[c] = "connecting"
  /\ \E p \in {"up", "down"} : proxy' = [proxy EXCEPT ![c] = p]
  /\ SetTimer(c)
  /\ UNCHANGED <<definition, server, bound, subVars, upstreamVars, inbox, storeVars>>

(* The upstream closes: nostr-tools closes every subscription, whose       *)
(* onclose takes the channel out of the Map.  Nobody connects again.       *)
Closed(c) ==
  /\ proxy[c] = "up"
  /\ proxy' = [proxy EXCEPT ![c] = "down"]
  /\ channelSubs' = [channelSubs EXCEPT ![c] = {}]
  /\ open' = [open EXCEPT ![c] = {}]
  /\ inbox' = [inbox EXCEPT ![c] = <<>>]
  /\ UNCHANGED <<definition, timer, server, bound, asked, upstreamVars, storeVars>>

-----------------------------------------------------------------------------
(* Subscriptions                                                           *)

(* What the upstream sends at once to a new subscription. *)
Stored(c, topics) ==
  LET events == {[kind |-> "event", event |-> e] : e \in {f \in held[c] : Topic[f] \in topics}}
      deletions == {[kind |-> "deletion", event |-> e] : e \in deleted[c]}
                   \cup {[kind |-> "foreign", event |-> e] : e \in disputed[c]}
  IN  SetToSeq(events) \o IF "deletion" \in topics THEN SetToSeq(deletions) ELSE <<>>

Subscribe(c, topics) ==
  /\ open' = [open EXCEPT ![c] = @ \cup topics]
  /\ asked' = [asked EXCEPT ![c] = @ \cup topics]
  /\ inbox' = [inbox EXCEPT ![c] = @ \o Stored(c, topics)]

(* The timer: syncMetadata() and syncDeletions(), if there is an upstream. *)
TimerFires(c) ==
  /\ timer[c]
  /\ timer' = [timer EXCEPT ![c] = FALSE]
  /\ IF proxy[c] = "up" THEN Subscribe(c, {"metadata", "deletion"}) ELSE UNCHANGED <<open, asked, inbox>>
  /\ UNCHANGED <<definition, proxy, server, bound, channelSubs, upstreamVars, storeVars>>

(* syncChannel() of a channel a client subscribes to: without an upstream  *)
(* the wish is forgotten.                                                  *)
SyncChannel(c, channel) ==
  /\ proxy[c] = "up"
  /\ channel \notin channelSubs[c]
  /\ channelSubs' = [channelSubs EXCEPT ![c] = @ \cup {channel}]
  /\ Subscribe(c, {channel})
  /\ UNCHANGED <<linkVars, upstreamVars, storeVars>>

OnClose_Added(c, topic) == channelSubs[c] \cup {topic}

OnClose_Kept(c, topic) == channelSubs[c]

(* The onclose of a subscription. *)
OnClose(c, topic) == channelSubs[c] \ {topic}

(* The upstream's CLOSED arrives behind what it has sent. *)
SubscriptionClosed(c, topic) ==
  /\ topic \in open[c] /\ inbox[c] = <<>>
  /\ open' = [open EXCEPT ![c] = @ \ {topic}]
  /\ channelSubs' = [channelSubs EXCEPT ![c] = OnClose(c, topic)]
  /\ UNCHANGED <<linkVars, asked, upstreamVars, inbox, storeVars>>

-----------------------------------------------------------------------------
(* Events                                                                  *)

Send(c, topic, message) ==
  inbox' = IF topic \in open[c] THEN [inbox EXCEPT ![c] = Append(@, message)] ELSE inbox

(* The upstream takes an event, or its deletion. *)
UpstreamTakes(c, e) ==
  /\ e \notin held[c] \cup deleted[c]
  /\ held' = [held EXCEPT ![c] = @ \cup {e}]
  /\ Send(c, Topic[e], [kind |-> "event", event |-> e])
  /\ UNCHANGED <<linkVars, subVars, deleted, disputed, storeVars>>

UpstreamDeletes(c, e) ==
  /\ e \in held[c]
  /\ held' = [held EXCEPT ![c] = @ \ {e}]
  /\ deleted' = [deleted EXCEPT ![c] = @ \cup {e}]
  /\ Send(c, "deletion", [kind |-> "deletion", event |-> e])
  /\ UNCHANGED <<linkVars, subVars, disputed, storeVars>>

(* It takes a deletion by who is neither the author nor the community. *)
UpstreamDisputes(c, e) ==
  /\ e \notin disputed[c]
  /\ disputed' = [disputed EXCEPT ![c] = @ \cup {e}]
  /\ Send(c, "deletion", [kind |-> "foreign", event |-> e])
  /\ UNCHANGED <<linkVars, subVars, held, deleted, storeVars>>

(* A client publishes through the proxy: to the upstream or not at all. *)
ClientPublishes(c, e) == proxy[c] = "up" /\ UpstreamTakes(c, e)

HasLabel(c, e) == <<e, c>> \in labels

(* LabeledEventStore.addEvent *)
AddEvent(c, e) ==
  /\ store' = store \cup {e}
  /\ labels' = IF HasLabel(c, e) THEN labels ELSE labels \cup {<<e, c>>}
  /\ received' = [received EXCEPT ![c] = @ \cup {e}]
  /\ UNCHANGED handled

LabelsWithout_Kept(E) == labels

LabelsWithout(E) == {l \in labels : l[1] \notin E}

(* LabeledEventStore.removeEvents: the labels of every community go. *)
RemoveEvents(E) ==
  /\ labels' = LabelsWithout(E)
  /\ store' = store \ E

(* What the store of a community finds. *)
Visible(c) == {e \in store : <<e, c>> \in labels}

Deletes_Anybodys(c, message) == {message.event} \cap Visible(c)

(* What a deletion deletes: its event, if it is in the community's view of *)
(* the store and the deletion is its author's or the community's.          *)
Deletes(c, message) == IF message.kind = "deletion" THEN {message.event} \cap Visible(c) ELSE {}

(* handleEvent(), or the onevent of a channel, with the next message. *)
HandleEvent(c) ==
  /\ inbox[c] # <<>>
  /\ inbox' = [inbox EXCEPT ![c] = Tail(@)]
  /\ LET message == Head(inbox[c])
         rightful == IF message.kind = "deletion" THEN {message.event} ELSE {}
     IN  IF message.kind = "event"
           THEN AddEvent(c, message.event)
           ELSE /\ RemoveEvents(Deletes(c, message))
                /\ handled' = [handled EXCEPT ![c] = @ \cup rightful]
                /\ received' = [d \in Communities |-> received[d] \ (rightful \cap received[c])]
  /\ UNCHANGED <<linkVars, subVars, upstreamVars>>

(* The node stores the event without a label, or clears the database. *)
NodeStores(e) ==
  /\ store' = store \cup {e}
  /\ UNCHANGED <<linkVars, subVars, upstreamVars, inbox, labels, received, handled>>

ClearDatabase ==
  /\ store' = {} /\ labels' = {} /\ received' = Nothing
  /\ UNCHANGED <<linkVars, subVars, upstreamVars, inbox, handled>>

Next ==
  \/ \E c \in Communities :
       \/ \E a \in Addresses : DefinitionStored(c, a)
       \/ HandleConnection(c) \/ Listening(c) \/ Connected(c) \/ Closed(c) \/ TimerFires(c)
       \/ \E channel \in Channels : SyncChannel(c, channel)
       \/ \E topic \in Topics : SubscriptionClosed(c, topic)
       \/ \E e \in Events : ClientPublishes(c, e) \/ UpstreamTakes(c, e)
       \/ \E e \in Events : UpstreamDeletes(c, e) \/ UpstreamDisputes(c, e)
       \/ HandleEvent(c)
  \/ \E e \in Events : NodeStores(e)
  \/ ClearDatabase

Spec == Init /\ [][Next]_vars

(* Only the timer has to fire. *)
FairSpec == Spec /\ \A c \in Communities : WF_vars(TimerFires(c))

-----------------------------------------------------------------------------
(* Properties                                                              *)

(* channelSubs, which decides whether a channel is asked for, names        *)
(* exactly the channel subscriptions in force, through refusals, closed    *)
(* connections and repeated wishes (community-proxy.ts 158-173).           *)
ChannelsInStep ==
  \A c \in Communities :
    /\ channelSubs[c] = open[c] \cap Channels
    /\ proxy[c] # "up" => open[c] = {} /\ inbox[c] = <<>>

(* Communities behind one hyper address share one local server; one that   *)
(* comes while it is being bound is turned away, and only by such a race   *)
(* or for want of an address (hyper-connection-manager.ts 22-57).          *)
OneServerPerAddress ==
  /\ \A k \in Hyper : bound[k] <= 1
  /\ \A c \in Communities :
       proxy[c] = "rejected" /\ definition[c] \in Hyper =>
         \E d \in Communities \ {c} :
           definition[d] = definition[c] /\ proxy[d] \notin {"absent", "rejected"}

(* A community's clients are shown what reached it and neither CLEAR nor a *)
(* deletion removed since: one by the event's author or the community that *)
(* reached it, or reached another community that was shown the event too.  *)
(* Deletions by others change nothing, nor does it matter whether other    *)
(* communities or the node have the event (community-proxy.ts 94-120,      *)
(* labeled-event-store.ts 41-79).                                          *)
ViewIsReceived == \A c \in Communities : Visible(c) = received[c]

(* What a community has rightfully deleted is not shown again, also        *)
(* not when another community stores the same event later                  *)
(* (labeled-event-store.ts 71-74, community-proxy.ts 110-120).             *)
DeletedStaysGone == \A c \in Communities : handled[c] \cap Visible(c) = {}

(* Every connection to an upstream subscribes to metadata and deletions,   *)
(* or is lost before (community-proxy.ts 84-92).                           *)
SyncStarts ==
  \A c \in Communities :
    proxy[c] = "up" ~> {"metadata", "deletion"} \subseteq asked[c] \/ proxy[c] # "up"
=============================================================================
