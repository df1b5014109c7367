--------------------------- MODULE DirectMessages ---------------------------
(***************************************************************************)
(* The direct message manager (src/modules/direct-message-manager.ts).  It *)
(* keeps a subscription per open conversation, keeps subscriptions to the  *)
(* inbox relays of watched pubkeys alive, and forwards the owner's         *)
(* messages.  Its functions await the address book and the relay pool, and *)
(* may be called again, or undone, while they wait.                        *)
(*                                                                         *)
(* Loads are left to the environment: they end at any time, with any       *)
(* mailboxes or with none (module Book has their mechanism).  The messages *)
(* that subscriptions bring go to the event store and are left out.        *)
(***************************************************************************)
EXTENDS Naturals, Functions

CONSTANTS
  Authors,      \* pubkeys, as numbers: only their order matters
  Pairs,        \* the pairs of authors the owner opens and closes conversations of
  Watchable,    \* those whose inbox is watched
  Relays,
  MaxOpens,     \* bounds of the model: calls of openConversation, ...
  MaxWatches,   \* ... of watchInbox, ...
  MaxForwards   \* ... and of forwardMessage, that get past their first line

ASSUME DirectMessagesAssumption ==
  /\ Authors \subseteq Nat
  /\ Pairs \subseteq Authors \X Authors
  /\ Watchable \subseteq Authors
  /\ MaxOpens \in Nat
  /\ MaxWatches \in Nat
  /\ MaxForwards \in Nat

VARIABLES
  conversation,   \* the authors each call of openConversation is about
  opening,        \* the calls of openConversation that await a load
  subscriptions,  \* this.subscriptions: key -> the call that made its subscription
  live,           \* the calls whose subscription has not been closed
  overlapped,     \* keys that two calls were opening at once (history variable)
  closed,         \* calls whose conversation was closed after they began, ...
  late,           \* ... and those still opening at its last close (history variables)
  profiles,       \* authors whose profile was asked for
  watch,          \* what each call of watchInbox is about and has come to
  watching,       \* this.watching: pubkey -> the call that put its Map there
  connecting,     \* inbox subscriptions whose ensureRelay is awaited
  inbox,          \* inbox subscriptions that are open
  entries,        \* inbox subscriptions that are in the Map of their call
  timers,         \* inbox subscriptions to be made again when a timer fires
  rejected,       \* inbox subscriptions whose ensureRelay failed (history variable)
  strayed,        \* pubkeys that calls overlapped on, or were stopped early (history variable)
  forward         \* the calls of forwardMessage

conversationVars == <<conversation, opening, subscriptions, live, overlapped, closed,
                      late, profiles>>
inboxVars == <<watch, watching, connecting, inbox, entries, timers, rejected, strayed>>
vars == <<conversationVars, inboxVars, forward>>

Opens == 1..MaxOpens
Watches == 1..MaxWatches
Forwards == 1..MaxForwards

(* An inbox subscription: the call of watchInbox it belongs to, its relay. *)
Slots == Watches \X Relays

(* Map.set and Map.delete *)
With(f, k, v) == [x \in DOMAIN f \cup {k} |-> IF x = k THEN v ELSE f[x]]
Without_SetUndefined(f, k) == With(f, k, 0)
Without(f, k) == Restrict(f, DOMAIN f \ {k})

(* Calls are numbered as they come. *)
IsNext(n, f) == n \notin DOMAIN f /\ \A m \in 1..(n - 1) : m \in DOMAIN f

ConversationKey_Unsorted(ab) == ab

(* getConversationKey *)
ConversationKey(ab) == IF ab[1] < ab[2] THEN ab ELSE <<ab[2], ab[1]>>

Key(o) == ConversationKey(conversation[o])

(* Every variable has its type. *)
TypeOK ==
  /\ DOMAIN conversation \subseteq Opens
  /\ conversation \in [DOMAIN conversation -> Pairs]
  /\ opening \subseteq DOMAIN conversation
  /\ DOMAIN subscriptions \subseteq Authors \X Authors
  /\ subscriptions \in [DOMAIN subscriptions -> DOMAIN conversation]
  /\ live \subseteq DOMAIN conversation
  /\ overlapped \subseteq Authors \X Authors
  /\ closed \subseteq DOMAIN conversation
  /\ late \subseteq closed
  /\ profiles \subseteq Authors
  /\ DOMAIN watch \subseteq Watches
  /\ watch \in [DOMAIN watch ->
       [pubkey : Watchable, phase : {"loading", "ended"}, relays : SUBSET Relays]]
  /\ DOMAIN watching \subseteq Watchable
  /\ watching \in [DOMAIN watching -> DOMAIN watch]
  /\ connecting \subseteq Slots
  /\ inbox \subseteq Slots
  /\ entries \subseteq Slots
  /\ timers \subseteq Slots
  /\ rejected \subseteq Slots
  /\ strayed \subseteq Watchable
  /\ DOMAIN forward \subseteq Forwards
  /\ forward \in [DOMAIN forward ->
       [phase : {"loading", "publishing", "sent", "failed"}, asked : SUBSET Relays]]

EmptyMap == [x \in {} |-> x]

Init ==
  /\ conversation = EmptyMap
  /\ opening = {}
  /\ subscriptions = EmptyMap
  /\ live = {}
  /\ overlapped = {}
  /\ closed = {}
  /\ late = {}
  /\ profiles = {}
  /\ watch = EmptyMap
  /\ watching = EmptyMap
  /\ connecting = {}
  /\ inbox = {}
  /\ entries = {}
  /\ timers = {}
  /\ rejected = {}
  /\ strayed = {}
  /\ forward = EmptyMap

-----------------------------------------------------------------------------
(* Conversations                                                           *)

IsOpen_Never(ab) == FALSE

IsOpen(ab) == ConversationKey(ab) \in DOMAIN subscriptions

(* openConversation, up to its first await: a conversation whose           *)
(* subscription is there is not opened again.                              *)
OpenConversation(o, ab) ==
  /\ IsNext(o, conversation)
  /\ ~ IsOpen(ab)
  /\ conversation' = With(conversation, o, ab)
  /\ opening' = opening \cup {o}
  /\ overlapped' =
       IF \E q \in opening : Key(q) = ConversationKey(ab)
         THEN overlapped \cup {ConversationKey(ab)}
         ELSE overlapped
  /\ UNCHANGED <<subscriptions, live, closed, late, profiles, inboxVars, forward>>

(* 'open' is emitted: the profiles of both authors are asked for. *)
OpenEmitted(o) == profiles' = profiles \cup {conversation[o][1], conversation[o][2]}

(* Both loads have ended (the manager changes nothing between them): the   *)
(* subscription is made and put in the Map, whatever is there by now.      *)
ConversationLoaded(o) ==
  /\ o \in opening
  /\ opening' = opening \ {o}
  /\ live' = live \cup {o}
  /\ subscriptions' = With(subscriptions, Key(o), o)
  /\ OpenEmitted(o)
  /\ UNCHANGED <<conversation, overlapped, closed, late, inboxVars, forward>>

(* The calls of openConversation that are about the same two authors. *)
About(ab) ==
  {o \in DOMAIN conversation : {conversation[o][1], conversation[o][2]} = {ab[1], ab[2]}}

(* closeConversation: if the Map has no subscription of the conversation   *)
(* there is nothing to do, also while one is being made.                   *)
CloseConversation(ab) ==
  /\ \/ /\ IsOpen(ab)
        /\ live' = live \ {subscriptions[ConversationKey(ab)]}
        /\ subscriptions' = Without(subscriptions, ConversationKey(ab))
     \/ /\ ~ IsOpen(ab)
        /\ UNCHANGED <<live, subscriptions>>
  /\ closed' = closed \cup About(ab)
  /\ late' = (late \ About(ab)) \cup (opening \cap About(ab))
  /\ UNCHANGED <<conversation, opening, overlapped, profiles, inboxVars, forward>>

-----------------------------------------------------------------------------
(* Inboxes                                                                 *)

PubkeyOf(slot) == watch[slot[1]].pubkey

(* The calls that load the mailboxes of a pubkey. *)
Loading(p) == {w \in DOMAIN watch : watch[w].pubkey = p /\ watch[w].phase = "loading"}

(* watchInbox, up to its first await. *)
WatchInbox(w, p) ==
  /\ IsNext(w, watch)
  /\ p \notin DOMAIN watching
  /\ watch' = With(watch, w, [pubkey |-> p, phase |-> "loading", relays |-> {}])
  /\ strayed' = IF Loading(p) # {} THEN strayed \cup {p} ELSE strayed
  /\ UNCHANGED <<conversationVars, watching, connecting, inbox, entries, timers, rejected, forward>>

(* There are no mailboxes. *)
WatchGivesUp(w) ==
  /\ w \in DOMAIN watch /\ watch[w].phase = "loading"
  /\ watch' = [watch EXCEPT ![w].phase = "ended"]
  /\ UNCHANGED <<conversationVars, watching, connecting, inbox, entries, timers, rejected, strayed,
                 forward>>

(* There are: subscribe() is called for every inbox relay, and awaits      *)
(* ensureRelay; then the (still empty) Map of the call is put in watching. *)
WatchLoaded(w, relays) ==
  /\ w \in DOMAIN watch /\ watch[w].phase = "loading"
  /\ watch' = [watch EXCEPT ![w].phase = "ended", ![w].relays = relays]
  /\ connecting' = connecting \cup ({w} \X relays)
  /\ watching' = With(watching, watch[w].pubkey, w)
  /\ UNCHANGED <<conversationVars, inbox, entries, timers, rejected, strayed, forward>>

(* ensureRelay resolves: subscribe, and set the entry of the relay. *)
Connected(slot) ==
  /\ slot \in connecting
  /\ connecting' = connecting \ {slot}
  /\ inbox' = inbox \cup {slot}
  /\ entries' = entries \cup {slot}
  /\ UNCHANGED <<conversationVars, watch, watching, timers, rejected, strayed, forward>>

(* ensureRelay rejects, which nobody handles: this relay is given up.      *)
ConnectFails(slot) ==
  /\ slot \in connecting
  /\ connecting' = connecting \ {slot}
  /\ rejected' = rejected \cup {slot}
  /\ UNCHANGED <<conversationVars, watch, watching, inbox, entries, timers, strayed, forward>>

StillWatching_Never(slot) == FALSE

StillWatching(slot) == PubkeyOf(slot) \in DOMAIN watching

(* The relay closes a subscription (onclose); its entry stays in the Map.  *)
SubscriptionClosed(slot) ==
  /\ slot \in inbox
  /\ inbox' = inbox \ {slot}
  /\ timers' = IF StillWatching(slot) THEN timers \cup {slot} ELSE timers
  /\ UNCHANGED <<conversationVars, watch, watching, connecting, entries, rejected, strayed, forward>>

(* After 30 s subscribe() is called again. *)
TimerFires(slot) ==
  /\ slot \in timers
  /\ timers' = timers \ {slot}
  /\ connecting' = connecting \cup {slot}
  /\ UNCHANGED <<conversationVars, watch, watching, inbox, entries, rejected, strayed, forward>>

Entries_None(w) == {}

(* The subscriptions that stopWatchInbox closes; some may be closed already. *)
Entries(w) == {slot \in entries : slot[1] = w}

(* stopWatchInbox.  The pubkey is deleted first, so that onclose, which    *)
(* each close() calls, does not reconnect.  What is being made or is due   *)
(* to be made again is not stopped.                                        *)
StopWatchInbox(p) ==
  /\ p \in DOMAIN watching
  /\ watching' = Without(watching, p)
  /\ inbox' = inbox \ Entries(watching[p])
  /\ strayed' = IF \E slot \in connecting \cup timers : PubkeyOf(slot) = p
                  THEN strayed \cup {p}
                  ELSE strayed
  /\ UNCHANGED <<conversationVars, watch, connecting, entries, timers, rejected, forward>>

-----------------------------------------------------------------------------
(* Forwarding                                                              *)

(* The relay's event handler gets a message of the owner: forwardMessage.  *)
ForwardMessage(f) ==
  /\ IsNext(f, forward)
  /\ forward' = With(forward, f, [phase |-> "loading", asked |-> {}])
  /\ UNCHANGED <<conversationVars, inboxVars>>

(* The load has ended: publish to the recipient's inboxes, none if unknown. *)
ForwardLoaded(f, inboxes) ==
  /\ f \in DOMAIN forward /\ forward[f].phase = "loading"
  /\ forward' = [forward EXCEPT ![f] = [phase |-> "publishing", asked |-> inboxes]]
  /\ UNCHANGED <<conversationVars, inboxVars>>

(* Promise.allSettled resolves: some of the relays that were asked took    *)
(* the message, the others refused it or failed.  The handler answers how  *)
(* many did, or throws if none did.                                        *)
ForwardSettled(f, accepted) ==
  /\ f \in DOMAIN forward /\ forward[f].phase = "publishing"
  /\ accepted \subseteq forward[f].asked
  /\ forward' = [forward EXCEPT ![f] =
       [phase |-> IF accepted # {} THEN "sent" ELSE "failed", asked |-> {}]]
  /\ UNCHANGED <<conversationVars, inboxVars>>

Next ==
  \/ \E o \in Opens : ConversationLoaded(o) \/ \E ab \in Pairs : OpenConversation(o, ab)
  \/ \E ab \in Pairs : CloseConversation(ab)
  \/ \E w \in Watches, p \in Watchable : WatchInbox(w, p)
  \/ \E w \in Watches : WatchGivesUp(w) \/ \E relays \in SUBSET Relays : WatchLoaded(w, relays)
  \/ \E slot \in Slots : Connected(slot) \/ ConnectFails(slot)
  \/ \E slot \in Slots : SubscriptionClosed(slot) \/ TimerFires(slot)
  \/ \E p \in Watchable : StopWatchInbox(p)
  \/ \E f \in Forwards : ForwardMessage(f)
  \/ \E f \in Forwards, relays \in SUBSET Relays : ForwardLoaded(f, relays) \/ ForwardSettled(f, relays)

Spec == Init /\ [][Next]_vars

-----------------------------------------------------------------------------
(* Properties                                                              *)

(* The open subscription of a conversation is the one in the Map, so that  *)
(* closeConversation reaches it and none is open twice, for every          *)
(* conversation but those that two calls were opening at once: the check   *)
(* of line 123 and the set of line 150 are separated by two awaits, and    *)
(* the second call's subscription hides the first one's for ever.          *)
OneSubscription ==
  \A key \in {Key(o) : o \in live} \cup DOMAIN subscriptions :
    key \notin overlapped =>
      {o \in live : Key(o) = key} = {subscriptions[k] : k \in {key} \cap DOMAIN subscriptions}

(* After a conversation was closed, whichever of the two authors was named *)
(* first, no subscription of a call that had begun before is open: but one *)
(* that was still being made at the last close, which finds nothing to     *)
(* close then (lines 156-160), and those of overlapping calls.             *)
CloseEndsConversation ==
  \A o \in live \cap closed : o \in late \/ Key(o) \in overlapped

(* While a pubkey is watched, the call of watchInbox that watches it has,  *)
(* on each of its inbox relays, exactly one subscription that is open,     *)
(* being made or due to be made again, however often relays close it; but  *)
(* for relays that could not be connected to, which are given up           *)
(* (lines 86-106).  This is per call: for other calls see InboxOnce.       *)
InboxKept ==
  /\ \A p \in DOMAIN watching : \A r \in watch[watching[p]].relays :
       <<watching[p], r>> \in connecting \cup inbox \cup timers \cup rejected
  /\ connecting \cap (inbox \cup timers \cup rejected) = {}
  /\ inbox \cap (timers \cup rejected) = {}
  /\ timers \cap rejected = {}

(* No other call than the one that watches a pubkey has subscriptions to   *)
(* its inbox, open, being made or due, so that a relay carries just one:   *)
(* but for pubkeys whose mailboxes two calls loaded at once, and those     *)
(* that were stopped while a subscription was being made or due, whose     *)
(* subscriptions stay for ever (lines 74-78, 86-106, 109-117).             *)
InboxOnce ==
  \A slot \in connecting \cup inbox \cup timers :
    \/ PubkeyOf(slot) \in DOMAIN watching /\ watching[PubkeyOf(slot)] = slot[1]
    \/ PubkeyOf(slot) \in strayed

(* stopWatchInbox closes what the call it undoes has opened, reconnected   *)
(* subscriptions included, and those closes do not make it reconnect       *)
(* (lines 93-97, 102, 109-117).                                            *)
StopEndsInbox ==
  [][\A p \in DOMAIN watching \ DOMAIN watching' :
       /\ \A slot \in inbox' : slot[1] # watching[p]
       /\ timers' \subseteq timers]_vars

(* "reconnect if we are still watching this pubkey" (line 94).  The code   *)
(* breaks this: it looks when the subscription closes, and reconnects 30 s *)
(* later without looking again.                                            *)
ReconnectsOnlyWhileWatching ==
  [][\A slot \in timers \ timers' : PubkeyOf(slot) \in DOMAIN watching]_vars
=============================================================================
