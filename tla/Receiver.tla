------------------------------ MODULE Receiver ------------------------------
(***************************************************************************)
(* The receiver (src/modules/receiver/index.ts) and the control handler    *)
(* that starts and stops it (src/modules/control/receiver-actions.ts).     *)
(* start() awaits the owner's contact list, then the mailboxes of everyone *)
(* followed, and connects a scraper to every outbox relay; the owner may   *)
(* stop, start again and ask for the status while it waits.                *)
(*                                                                         *)
(* Loads are left to the environment: they end at any time or never (their *)
(* mechanism is module Book).  What a scraper does is module RelayScraper; *)
(* here a connection just brings events of the authors it asks for.        *)
(***************************************************************************)
EXTENDS Naturals, FiniteSets

CONSTANTS
  Authors,    \* pubkeys, config.owner among them
  Owner,
  Urls,       \* relays, by the href of their url
  Bootstrap,  \* BOOTSTRAP_RELAYS
  Events,     \* ids of valid events
  AuthorOf,   \* the author of each event
  Socks,      \* control connections
  MaxStarts   \* bound of the model: calls of start() that get past line 36

ASSUME ReceiverAssumption ==
  /\ Owner \in Authors
  /\ Bootstrap \subseteq Urls
  /\ Bootstrap # {}
  /\ AuthorOf \in [Events -> Authors]
  /\ MaxStarts \in Nat

VARIABLES
  active,       \* this.status.active
  phase,        \* what each call of start() awaits
  following,    \* the pubkeys it found (from line 45)
  contacts,     \* the owner's contact list, as the contact book knows it
  outboxes,     \* the outboxes of each author, as the address book knows them
  scrapers,     \* this.scrapers: url -> the call that put its scraper there
  connections,  \* scrapers that are connected
  seen,         \* this.seen
  added,        \* how often each event was passed to eventStore.addEvent
  subscribed,   \* ReceiverActions.subscribed
  told          \* last status each control connection was sent (FALSE before the first)

loadVars == <<contacts, outboxes>>
startVars == <<active, phase, following>>
eventVars == <<seen, added>>
controlVars == <<subscribed, told>>
vars == <<startVars, loadVars, scrapers, connections, eventVars, controlVars>>

Starts == 1..MaxStarts

(* A scraper: its relay, the call of start() that made it, its authors.    *)
Scraper == [url : Urls, start : Starts, authors : SUBSET Authors]

(* Every variable has its type. *)
TypeOK ==
  /\ active \in BOOLEAN
  /\ phase \in [Starts -> {"unused", "contacts", "mailboxes", "done"}]
  /\ following \in [Starts -> SUBSET Authors]
  /\ contacts \in SUBSET Authors
  /\ outboxes \in [Authors -> SUBSET Urls]
  /\ DOMAIN scrapers \subseteq Urls /\ scrapers \in [DOMAIN scrapers -> Starts]
  /\ connections \in SUBSET Scraper
  /\ seen \in SUBSET Events
  /\ added \in [Events -> Nat]
  /\ subscribed \in SUBSET Socks
  /\ told \in [Socks -> BOOLEAN]

Init ==
  /\ active = FALSE
  /\ phase = [i \in Starts |-> "unused"]
  /\ following = [i \in Starts |-> {}]
  /\ contacts \in SUBSET Authors
  /\ outboxes \in [Authors -> SUBSET Urls]
  /\ scrapers = [u \in {} |-> 0]
  /\ connections = {}
  /\ seen = {}
  /\ added = [e \in Events |-> 0]
  /\ subscribed = {}
  /\ told = [k \in Socks |-> FALSE]

StatusChanged_Silent(status) == UNCHANGED told

(* 'status:changed': ReceiverActions sends the status to its subscribers.  *)
StatusChanged(status) ==
  told' = [k \in Socks |-> IF k \in subscribed THEN status ELSE told[k]]

-----------------------------------------------------------------------------
(* start()                                                                 *)

(* Up to the first await: a call while active returns at once (line 36).   *)
StartBegins(i) ==
  /\ ~ active
  /\ phase[i] = "unused"
  /\ \A j \in Starts : j < i => phase[j] # "unused"
  /\ active' = TRUE
  /\ phase' = [phase EXCEPT ![i] = "contacts"]
  /\ UNCHANGED <<following, loadVars, scrapers, connections, eventVars, controlVars>>

FollowedPubkeys_OwnerMissing == contacts

(* Lines 45-48: getFollowedPubkeys, and the owner. *)
FollowedPubkeys == contacts \cup {Owner}

(* The contact list is there, or will not come (the load gave null). *)
ContactsLoaded(i) ==
  /\ phase[i] = "contacts"
  /\ phase' = [phase EXCEPT ![i] = "mailboxes"]
  /\ following' = [following EXCEPT ![i] = FollowedPubkeys]
  /\ UNCHANGED <<active, loadVars, scrapers, connections, eventVars, controlVars>>

OutboxesOf_NotSpread(p) == IF outboxes[p] # {} THEN {outboxes[p]} ELSE Bootstrap

(* Lines 57-75: the relays an author is received from, and the scrapers    *)
(* made from the map of relays to authors.                                 *)
OutboxesOf(p) == IF outboxes[p] # {} THEN outboxes[p] ELSE Bootstrap

OutboxMap(pubkeys) == [u \in UNION {OutboxesOf(p) : p \in pubkeys} |->
                         {p \in pubkeys : u \in OutboxesOf(p)}]

(* Every mailbox is loaded: connect a scraper to every outbox. *)
StartFinishes(i) ==
  /\ phase[i] = "mailboxes"
  /\ phase' = [phase EXCEPT ![i] = "done"]
  /\ LET map == OutboxMap(following[i])
     IN  /\ scrapers' = [u \in DOMAIN scrapers \cup DOMAIN map |->
                           IF u \in DOMAIN map THEN i ELSE scrapers[u]]
         /\ connections' = connections \cup
              {[url |-> u, start |-> i, authors |-> map[u]] : u \in DOMAIN map}
  /\ StatusChanged(active)
  /\ UNCHANGED <<active, following, loadVars, eventVars, subscribed>>

-----------------------------------------------------------------------------
(* stop(), and the control connections *)

(* The scrapers that stop() cleans up: Object.entries of a Map is empty.   *)
Cleaned == {}

(* stop(); the map keeps its scrapers. *)
Stop ==
  /\ active
  /\ active' = FALSE
  /\ connections' = connections \ Cleaned
  /\ StatusChanged(FALSE)
  /\ UNCHANGED <<phase, following, loadVars, scrapers, eventVars, subscribed>>

(* ['CONTROL', 'RECEIVER', 'SUBSCRIBE']: the status is sent at once. *)
Subscribe(k) ==
  /\ subscribed' = subscribed \cup {k}
  /\ told' = [told EXCEPT ![k] = active]
  /\ UNCHANGED <<startVars, loadVars, scrapers, connections, eventVars>>

(* 'UNSUBSCRIBE', or the connection closes. *)
Unsubscribe(k) ==
  /\ subscribed' = subscribed \ {k}
  /\ UNCHANGED <<startVars, loadVars, scrapers, connections, eventVars, told>>

(* 'STATUS' *)
Status(k) ==
  /\ told' = [told EXCEPT ![k] = active]
  /\ UNCHANGED <<startVars, loadVars, scrapers, connections, eventVars, subscribed>>

-----------------------------------------------------------------------------
(* Events, and the rest of the node *)

Fresh_PerScraper(e) == TRUE

(* No scraper has passed the event on. *)
Fresh(e) == e \notin seen

(* A scraper receives a valid event of an author it asks for, and the app  *)
(* passes it to eventStore.addEvent ('event:received').  What the store    *)
(* then keeps is its own affair: the receiver never asks it.               *)
EventArrives(c, e) ==
  /\ c \in connections
  /\ AuthorOf[e] \in c.authors
  /\ Fresh(e)
  /\ seen' = seen \cup {e}
  /\ added' = [added EXCEPT ![e] = @ + 1]
  /\ UNCHANGED <<startVars, loadVars, scrapers, connections, controlVars>>

(* The relay closes a connection, or it was never established. *)
ConnectionLost(c) ==
  /\ c \in connections
  /\ connections' = connections \ {c}
  /\ UNCHANGED <<startVars, loadVars, scrapers, eventVars, controlVars>>

(* The books learn of a newer contact list or newer mailboxes. *)
LearnContacts ==
  /\ contacts' \in SUBSET Authors
  /\ UNCHANGED <<startVars, outboxes, scrapers, connections, eventVars, controlVars>>

LearnOutboxes(p) ==
  /\ \E us \in SUBSET Urls : outboxes' = [outboxes EXCEPT ![p] = us]
  /\ UNCHANGED <<startVars, contacts, scrapers, connections, eventVars, controlVars>>

Next ==
  \/ \E i \in Starts : StartBegins(i) \/ ContactsLoaded(i) \/ StartFinishes(i)
  \/ Stop
  \/ \E k \in Socks : Subscribe(k) \/ Unsubscribe(k) \/ Status(k)
  \/ \E c \in connections : ConnectionLost(c) \/ \E e \in Events : EventArrives(c, e)
  \/ LearnContacts
  \/ \E p \in Authors : LearnOutboxes(p)

Spec == Init /\ [][Next]_vars

-----------------------------------------------------------------------------
(* Properties                                                              *)

(* A call of start() is waiting for a load. *)
Starting == \E i \in Starts : phase[i] \in {"contacts", "mailboxes"}

(* Subscribers know whether the receiver is active, whatever calls of      *)
(* start() and stop() overlapped: only while a start is waiting may they   *)
(* be behind, because start() reports at its end (lines 92, 109).          *)
StatusReported == ~ Starting => \A k \in subscribed : told[k] = active

(* However often the receiver is restarted, and although scrapers of       *)
(* earlier starts stay connected beside the new ones, an event reaches the *)
(* event store once (`seen` is one set, handed to every scraper, line 78). *)
AddedOnce == \A e \in Events : added[e] <= 1

(* The owner's own events are asked for by every start that ends, also     *)
(* when the owner does not follow himself or has no mailboxes, and the     *)
(* scrapers of the map are those of the latest start to end on each relay  *)
(* (lines 45-79).                                                          *)
OwnerIsAskedFor ==
  [][\A i \in Starts :
       phase[i] = "mailboxes" /\ phase'[i] = "done" =>
         \E c \in connections' :
           /\ Owner \in c.authors /\ c.start = i
           /\ c.url \in DOMAIN scrapers' /\ scrapers'[c.url] = i]_vars

(* "stop receiving events and disconnect from all relays" (line 96).  The  *)
(* code breaks this: Object.entries(this.scrapers) is empty for a Map, so  *)
(* stop() closes nothing (line 103).                                       *)
StopDisconnects == [][active /\ ~ active' => connections' = {}]_vars
=============================================================================
