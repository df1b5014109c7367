------------------------ MODULE DirectMessagesProofs ------------------------
(***************************************************************************)
(* Proofs about module DirectMessages, for any authors and relays and any  *)
(* number of calls.  Conversations, inboxes and forwarding share no        *)
(* variable, so the inductive invariant is made of three parts, and a step *)
(* of one part leaves the other two alone.                                 *)
(***************************************************************************)
EXTENDS DirectMessages, TLAPS

ConversationType ==
  /\ DOMAIN conversation \subseteq Opens
  /\ conversation \in [DOMAIN conversation -> Pairs]
  /\ opening \subseteq DOMAIN conversation
  /\ DOMAIN subscriptions \subseteq Authors \X Authors
  /\ subscriptions \in [DOMAIN subscriptions -> DOMAIN conversation]
  /\ live \subseteq DOMAIN conversation
  /\ overlapped \subseteq Authors \X Authors
  /\ closed \subseteq DOMAIN conversation
  /\ late \subseteq closed
  /\ profiles \subseteq Authors

InboxType ==
  /\ DOMAIN watch \subseteq Watches
  /\ watch \in [DOMAIN watch ->
       [pubkey : Watchable, phase : {"loading", "ended"}, relays : SUBSET Relays]]
  /\ DOMAIN watching \subseteq Watchable
  /\ watching \in [DOMAIN watching -> DOMAIN watch]
  /\ connecting \subseteq Slots
  /\ inbox \subseteq Slots
  /\ entries \subseteq Slots
  /\ timers \subseteq Slots
  /\ rejected \subseteq Slots
  /\ strayed \subseteq Watchable

ForwardType ==
  /\ DOMAIN forward \subseteq Forwards
  /\ forward \in [DOMAIN forward ->
       [phase : {"loading", "publishing", "sent", "failed"}, asked : SUBSET Relays]]

-----------------------------------------------------------------------------
(* Conversations *)

(* The Map's keys are those of the conversations its subscriptions are of. *)
KeysMatch == \A k \in DOMAIN subscriptions : Key(subscriptions[k]) = k

(* Two calls that are opening one conversation are recorded as such, and   *)
(* so is a call that is opening one that has been opened meanwhile.        *)
OverlapsKnown ==
  /\ \A o, q \in opening : o # q /\ Key(o) = Key(q) => Key(o) \in overlapped
  /\ \A o \in opening : Key(o) \in DOMAIN subscriptions => Key(o) \in overlapped

(* OneSubscription, read from either side. *)
LiveIsRecorded ==
  \A o \in live : Key(o) \notin overlapped =>
    Key(o) \in DOMAIN subscriptions /\ subscriptions[Key(o)] = o
RecordedIsLive ==
  \A k \in DOMAIN subscriptions : k \notin overlapped => subscriptions[k] \in live

(* A call that opens what was closed meanwhile was opening it then.        *)
LateKnown == opening \cap closed \subseteq late

ConversationInv ==
  /\ ConversationType
  /\ KeysMatch
  /\ OverlapsKnown
  /\ LiveIsRecorded
  /\ RecordedIsLive
  /\ LateKnown
  /\ CloseEndsConversation

(* A key is a pair of authors in order, whose authors are those it is of.  *)
LEMMA KeySorts ==
  ASSUME NEW ab \in Authors \X Authors
  PROVE  LET k == ConversationKey(ab)
         IN  /\ k \in Authors \X Authors
             /\ k[1] <= k[2]
             /\ {k[1], k[2]} = {ab[1], ab[2]}
<1>1. PICK a \in Authors, b \in Authors : ab = <<a, b>>
  OBVIOUS
<1>2. a \in Nat /\ b \in Nat
  BY DirectMessagesAssumption DEF DirectMessagesAssumption
<1> QED
  BY <1>1, <1>2 DEF ConversationKey

(* Two conversations of the same authors have the same key. *)
LEMMA KeyOfAuthors ==
  ASSUME NEW ab \in Authors \X Authors, NEW cd \in Authors \X Authors,
         {ab[1], ab[2]} = {cd[1], cd[2]}
  PROVE  ConversationKey(ab) = ConversationKey(cd)
<1>1. PICK a \in Authors, b \in Authors : ab = <<a, b>>
  OBVIOUS
<1>2. PICK c \in Authors, d \in Authors : cd = <<c, d>>
  OBVIOUS
<1>3. a \in Nat /\ b \in Nat
  BY DirectMessagesAssumption DEF DirectMessagesAssumption
<1>4. (a = c /\ b = d) \/ (a = d /\ b = c)
  BY <1>1, <1>2
<1> QED
  BY <1>1, <1>2, <1>3, <1>4 DEF ConversationKey

(* No conversation is open at first. *)
LEMMA InitConversation == Init => ConversationInv
BY DEF Init, EmptyMap, ConversationInv, ConversationType, KeysMatch, OverlapsKnown,
       LiveIsRecorded, RecordedIsLive, LateKnown, CloseEndsConversation

(* A call that begins to open, perhaps beside another. *)
LEMMA OpenConversationStep ==
  ASSUME ConversationInv, NEW o \in Opens, NEW ab \in Pairs, OpenConversation(o, ab)
  PROVE  ConversationInv'
<1> DEFINE key == ConversationKey(ab)
<1>1. ab \in Authors \X Authors /\ key \in Authors \X Authors
  BY KeySorts, DirectMessagesAssumption DEF DirectMessagesAssumption
<1>2. /\ o \notin DOMAIN conversation
      /\ key \notin DOMAIN subscriptions
      /\ DOMAIN conversation' = DOMAIN conversation \cup {o}
      /\ conversation'[o] = ab
      /\ \A q \in DOMAIN conversation : conversation'[q] = conversation[q]
      /\ opening' = opening \cup {o}
      /\ UNCHANGED <<subscriptions, live, closed, late, profiles>>
  BY DEF OpenConversation, IsNext, With, IsOpen
<1>3. /\ \A q \in DOMAIN conversation : Key(q)' = Key(q)
      /\ Key(o)' = key
  BY <1>2 DEF Key
<1>4. overlapped' = IF \E q \in opening : Key(q) = key THEN overlapped \cup {key} ELSE overlapped
  BY DEF OpenConversation
<1> HIDE DEF key
<1>5. ConversationType'
  <2>1. conversation' \in [DOMAIN conversation' -> Pairs]
    BY <1>2 DEF OpenConversation, With, ConversationInv, ConversationType
  <2> QED
    BY <1>1, <1>2, <1>4, <2>1 DEF ConversationInv, ConversationType
<1>6. KeysMatch'
  BY <1>2, <1>3 DEF ConversationInv, ConversationType, KeysMatch
<1>7. OverlapsKnown'
  BY <1>2, <1>3, <1>4 DEF ConversationInv, ConversationType, OverlapsKnown
<1>8. LiveIsRecorded' /\ RecordedIsLive'
  BY <1>2, <1>3, <1>4 DEF ConversationInv, ConversationType, LiveIsRecorded, RecordedIsLive
<1>9. LateKnown'
  BY <1>2 DEF ConversationInv, ConversationType, LateKnown
<1>10. CloseEndsConversation'
  BY <1>2, <1>3, <1>4 DEF ConversationInv, ConversationType, CloseEndsConversation
<1> QED
  BY <1>5, <1>6, <1>7, <1>8, <1>9, <1>10 DEF ConversationInv

(* The new subscription replaces none, or its key is overlapped. *)
LEMMA ConversationLoadedStep ==
  ASSUME ConversationInv, NEW o \in Opens, ConversationLoaded(o)
  PROVE  ConversationInv'
<1>1. /\ o \in opening
      /\ o \in DOMAIN conversation
      /\ Key(o) \in Authors \X Authors
      /\ conversation[o] \in Authors \X Authors
  BY KeySorts, DirectMessagesAssumption
  DEF DirectMessagesAssumption, ConversationLoaded, ConversationInv, ConversationType, Key
<1>2. /\ opening' = opening \ {o}
      /\ live' = live \cup {o}
      /\ DOMAIN subscriptions' = DOMAIN subscriptions \cup {Key(o)}
      /\ subscriptions'[Key(o)] = o
      /\ \A k \in DOMAIN subscriptions : k # Key(o) => subscriptions'[k] = subscriptions[k]
      /\ profiles' = profiles \cup {conversation[o][1], conversation[o][2]}
      /\ UNCHANGED <<conversation, overlapped, closed, late>>
  BY DEF ConversationLoaded, OpenEmitted, With
<1>3. \A q : Key(q)' = Key(q)
  BY <1>2 DEF Key
<1>4. ConversationType'
  <2>1. subscriptions' \in [DOMAIN subscriptions' -> DOMAIN conversation']
    BY <1>1 DEF ConversationLoaded, With, ConversationInv, ConversationType
  <2> QED
    BY <1>1, <1>2, <2>1 DEF ConversationInv, ConversationType
<1>5. KeysMatch'
  BY <1>2, <1>3 DEF ConversationInv, KeysMatch
<1>6. OverlapsKnown'
  BY <1>1, <1>2, <1>3 DEF ConversationInv, OverlapsKnown
<1>7. LiveIsRecorded'
  BY <1>1, <1>2, <1>3 DEF ConversationInv, LiveIsRecorded, OverlapsKnown
<1>8. RecordedIsLive'
  BY <1>2 DEF ConversationInv, RecordedIsLive
<1>9. LateKnown'
  BY <1>2 DEF ConversationInv, LateKnown
<1>10. CloseEndsConversation'
  BY <1>1, <1>2, <1>3 DEF ConversationInv, LateKnown, CloseEndsConversation
<1> QED
  BY <1>4, <1>5, <1>6, <1>7, <1>8, <1>9, <1>10 DEF ConversationInv

(* Closing takes the subscription and its entry away together, if they are *)
(* there; the calls of the conversation that are not open then are opening *)
(* it, have ended before or are overlapped.                                *)
LEMMA CloseConversationStep ==
  ASSUME ConversationInv, NEW ab \in Pairs, CloseConversation(ab)
  PROVE  ConversationInv'
<1> DEFINE key == ConversationKey(ab)
           calls == About(ab)
<1>1. /\ closed' = closed \cup calls
      /\ late' = (late \ calls) \cup (opening \cap calls)
      /\ UNCHANGED <<conversation, opening, overlapped, profiles>>
  BY DEF CloseConversation
<1>2. \/ /\ key \in DOMAIN subscriptions
         /\ live' = live \ {subscriptions[key]}
         /\ DOMAIN subscriptions' = DOMAIN subscriptions \ {key}
         /\ \A k \in DOMAIN subscriptions' : subscriptions'[k] = subscriptions[k]
         /\ subscriptions' \in [DOMAIN subscriptions' -> DOMAIN conversation]
      \/ /\ key \notin DOMAIN subscriptions
         /\ UNCHANGED <<live, subscriptions>>
  BY DEF CloseConversation, IsOpen, Without, Restrict, ConversationInv, ConversationType
<1>3. ASSUME NEW o \in calls
      PROVE  o \in DOMAIN conversation /\ Key(o) = key
  <2>1. /\ o \in DOMAIN conversation
        /\ {conversation[o][1], conversation[o][2]} = {ab[1], ab[2]}
    BY DEF About
  <2>2. conversation[o] \in Authors \X Authors /\ ab \in Authors \X Authors
    BY <2>1, DirectMessagesAssumption
    DEF DirectMessagesAssumption, ConversationInv, ConversationType
  <2> QED
    BY <2>1, <2>2, KeyOfAuthors DEF Key
<1> HIDE DEF key, calls
<1>4. \A q : Key(q)' = Key(q)
  BY <1>1 DEF Key
<1>5. ConversationType'
  BY <1>1, <1>2, <1>3 DEF ConversationInv, ConversationType
<1>6. KeysMatch' /\ OverlapsKnown'
  BY <1>1, <1>2, <1>4 DEF ConversationInv, KeysMatch, OverlapsKnown
<1>7. LiveIsRecorded'
  BY <1>1, <1>2, <1>4 DEF ConversationInv, LiveIsRecorded
<1>8. RecordedIsLive'
  BY <1>1, <1>2, <1>4 DEF ConversationInv, RecordedIsLive, KeysMatch
<1>9. LateKnown'
  BY <1>1 DEF ConversationInv, LateKnown
<1>10. CloseEndsConversation'
  <2> SUFFICES ASSUME NEW o \in live', o \in closed', o \notin late', Key(o) \notin overlapped
               PROVE  FALSE
    BY <1>1, <1>4 DEF CloseEndsConversation
  <2>1. o \in live
    BY <1>2
  <2>2. CASE o \in calls
    <3>1. key \in DOMAIN subscriptions /\ subscriptions[key] = o
      BY <1>3, <2>1, <2>2 DEF ConversationInv, LiveIsRecorded
    <3> QED
      BY <1>2, <3>1
  <2>3. CASE o \notin calls
    BY <1>1, <2>1, <2>3 DEF ConversationInv, CloseEndsConversation
  <2> QED
    BY <2>2, <2>3
<1> QED
  BY <1>5, <1>6, <1>7, <1>8, <1>9, <1>10 DEF ConversationInv

(* Steps of the other parts. *)
LEMMA ConversationUnchanged ==
  ASSUME ConversationInv, UNCHANGED conversationVars
  PROVE  ConversationInv'
BY DEF conversationVars, ConversationInv, ConversationType, KeysMatch, OverlapsKnown,
       LiveIsRecorded, RecordedIsLive, LateKnown, CloseEndsConversation, Key

-----------------------------------------------------------------------------
(* Inboxes *)

Tracked == connecting \cup inbox \cup timers \cup rejected

(* Only calls whose load has ended have subscriptions, each is in its Map, *)
(* and the call that watches a pubkey is about it.                         *)
SlotsKnown ==
  /\ \A slot \in Tracked : slot[1] \in DOMAIN watch /\ watch[slot[1]].phase = "ended"
  /\ inbox \subseteq entries
  /\ \A p \in DOMAIN watching : watch[watching[p]].pubkey = p /\ watch[watching[p]].phase = "ended"

(* Of a pubkey that calls did not overlap on, one call at most is loading  *)
(* the mailboxes, and none while it is watched.                            *)
LoadsAlone ==
  /\ \A v, w \in DOMAIN watch :
       watch[v].phase = "loading" /\ watch[w].phase = "loading" /\ watch[v].pubkey = watch[w].pubkey =>
         v = w \/ watch[v].pubkey \in strayed
  /\ \A w \in DOMAIN watch :
       watch[w].phase = "loading" /\ watch[w].pubkey \in DOMAIN watching => watch[w].pubkey \in strayed

InboxInv == InboxType /\ SlotsKnown /\ InboxKept /\ LoadsAlone /\ InboxOnce

(* No inbox is watched at first. *)
LEMMA InitInbox == Init => InboxInv
BY DEF Init, EmptyMap, InboxInv, InboxType, SlotsKnown, Tracked, InboxKept, LoadsAlone, InboxOnce

(* A new call has no subscriptions. *)
LEMMA WatchInboxStep ==
  ASSUME InboxInv, NEW w \in Watches, NEW p \in Watchable, WatchInbox(w, p)
  PROVE  InboxInv'
<1>1. /\ w \notin DOMAIN watch
      /\ DOMAIN watch' = DOMAIN watch \cup {w}
      /\ \A v \in DOMAIN watch : watch'[v] = watch[v]
      /\ UNCHANGED <<watching, connecting, inbox, entries, timers, rejected>>
  BY DEF WatchInbox, IsNext, With
<1>2. InboxType'
  BY <1>1 DEF WatchInbox, With, InboxInv, InboxType
<1>3. SlotsKnown'
  BY <1>1 DEF InboxInv, InboxType, SlotsKnown, Tracked
<1>4. InboxKept'
  BY <1>1 DEF InboxInv, InboxType, InboxKept
<1>5. /\ watch'[w].pubkey = p
      /\ p \notin DOMAIN watching
      /\ strayed' = IF Loading(p) # {} THEN strayed \cup {p} ELSE strayed
  BY DEF WatchInbox, With
<1>6. LoadsAlone'
  <2>1. \A v \in DOMAIN watch : watch[v].phase = "loading" /\ watch[v].pubkey = p => p \in strayed'
    BY <1>5 DEF Loading
  <2>2. strayed \subseteq strayed'
    BY <1>5
  <2> QED
    BY <1>1, <1>5, <2>1, <2>2 DEF InboxInv, LoadsAlone
<1>7. InboxOnce'
  <2>1. \A slot \in Tracked : PubkeyOf(slot)' = PubkeyOf(slot)
    BY <1>1 DEF InboxInv, SlotsKnown, PubkeyOf
  <2> QED
    BY <1>1, <1>5, <2>1 DEF InboxInv, InboxOnce, Tracked
<1> QED
  BY <1>2, <1>3, <1>4, <1>6, <1>7 DEF InboxInv

(* Nor has one that found no mailboxes. *)
LEMMA WatchGivesUpStep ==
  ASSUME InboxInv, NEW w \in Watches, WatchGivesUp(w)
  PROVE  InboxInv'
<1>1. /\ w \in DOMAIN watch
      /\ watch' = [watch EXCEPT ![w].phase = "ended"]
      /\ UNCHANGED <<watching, connecting, inbox, entries, timers, rejected, strayed>>
  BY DEF WatchGivesUp
<1>2. InboxType' /\ SlotsKnown' /\ InboxKept'
  BY <1>1 DEF InboxInv, InboxType, SlotsKnown, Tracked, InboxKept
<1>3. \A v \in DOMAIN watch : /\ watch'[v].pubkey = watch[v].pubkey
                              /\ watch'[v].phase = "loading" => watch[v].phase = "loading"
  BY <1>1 DEF InboxInv, InboxType
<1>4. DOMAIN watch' = DOMAIN watch
  BY <1>1
<1>5. LoadsAlone'
  BY <1>1, <1>3, <1>4 DEF InboxInv, LoadsAlone
<1>6. InboxOnce'
  <2>1. \A slot \in Tracked : PubkeyOf(slot)' = PubkeyOf(slot)
    BY <1>3 DEF InboxInv, SlotsKnown, PubkeyOf
  <2> QED
    BY <1>1, <2>1 DEF InboxInv, InboxOnce, Tracked
<1> QED
  BY <1>2, <1>5, <1>6 DEF InboxInv

(* Every inbox relay of the call is connecting. *)
LEMMA WatchLoadedStep ==
  ASSUME InboxInv, NEW w \in Watches, NEW relays \in SUBSET Relays, WatchLoaded(w, relays)
  PROVE  InboxInv'
<1> DEFINE p == watch[w].pubkey
<1>1. /\ w \in DOMAIN watch
      /\ watch[w].phase = "loading"
      /\ p \in Watchable
      /\ DOMAIN watch' = DOMAIN watch
      /\ watch'[w] = [pubkey |-> p, phase |-> "ended", relays |-> relays]
      /\ \A v \in DOMAIN watch : v # w => watch'[v] = watch[v]
      /\ connecting' = connecting \cup ({w} \X relays)
      /\ DOMAIN watching' = DOMAIN watching \cup {p}
      /\ watching'[p] = w
      /\ \A q \in DOMAIN watching : q # p => watching'[q] = watching[q]
      /\ UNCHANGED <<inbox, entries, timers, rejected, strayed>>
  BY DEF WatchLoaded, With, InboxInv, InboxType
<1>2. \A slot \in Tracked : slot[1] # w
  BY <1>1 DEF InboxInv, SlotsKnown
<1>3. InboxType'
  <2>1. watch' \in [DOMAIN watch' ->
          [pubkey : Watchable, phase : {"loading", "ended"}, relays : SUBSET Relays]]
    BY <1>1 DEF WatchLoaded, InboxInv, InboxType
  <2>2. watching' \in [DOMAIN watching' -> DOMAIN watch']
    BY <1>1 DEF WatchLoaded, With, InboxInv, InboxType
  <2>3. connecting' \subseteq Slots
    BY <1>1 DEF InboxInv, InboxType, Slots
  <2> QED
    BY <1>1, <2>1, <2>2, <2>3 DEF InboxInv, InboxType
<1> HIDE DEF p
<1>4. SlotsKnown'
  <2>1. \A slot \in Tracked' : slot[1] \in DOMAIN watch' /\ watch'[slot[1]].phase = "ended"
    BY <1>1, <1>2 DEF InboxInv, SlotsKnown, Tracked
  <2>2. \A q \in DOMAIN watching' : watch'[watching'[q]].pubkey = q /\ watch'[watching'[q]].phase = "ended"
    BY <1>1 DEF InboxInv, InboxType, SlotsKnown
  <2> QED
    BY <1>1, <2>1, <2>2 DEF InboxInv, SlotsKnown
<1>5. InboxKept'
  <2>1. ASSUME NEW q \in DOMAIN watching', NEW r \in watch'[watching'[q]].relays
        PROVE  <<watching'[q], r>> \in connecting' \cup inbox' \cup timers' \cup rejected'
    <3>1. CASE q = p
      BY <1>1, <2>1, <3>1
    <3>2. CASE q # p
      <4>1. q \in DOMAIN watching /\ watching'[q] = watching[q] /\ watching[q] # w
        BY <1>1, <3>2 DEF InboxInv, SlotsKnown
      <4>2. r \in watch[watching[q]].relays
        BY <1>1, <2>1, <4>1 DEF InboxInv, InboxType
      <4> QED
        BY <1>1, <4>1, <4>2 DEF InboxInv, InboxKept
    <3> QED
      BY <3>1, <3>2
  <2>2. (connecting' \ connecting) \cap (inbox \cup timers \cup rejected) = {}
    BY <1>1, <1>2 DEF Tracked
  <2> QED
    BY <1>1, <2>1, <2>2 DEF InboxInv, InboxKept
<1>6. \A v \in DOMAIN watch : watch'[v].pubkey = watch[v].pubkey
  BY <1>1 DEF p
<1>7. p \in DOMAIN watching => p \in strayed
  BY <1>1 DEF InboxInv, LoadsAlone, p
<1>8. LoadsAlone'
  <2>1. \A v \in DOMAIN watch' :
          watch'[v].phase = "loading" => v # w /\ watch'[v] = watch[v] /\ watch[v].phase = "loading"
    BY <1>1
  <2>2. \A v \in DOMAIN watch' :
          watch'[v].phase = "loading" /\ watch[v].pubkey = p => p \in strayed
    BY <1>1, <2>1 DEF InboxInv, LoadsAlone, p
  <2> QED
    BY <1>1, <1>6, <2>1, <2>2 DEF InboxInv, LoadsAlone
<1>9. InboxOnce'
  <2> SUFFICES ASSUME NEW slot \in connecting' \cup inbox' \cup timers',
                      PubkeyOf(slot)' \notin strayed'
               PROVE  /\ PubkeyOf(slot)' \in DOMAIN watching'
                      /\ watching'[PubkeyOf(slot)'] = slot[1]
    BY DEF InboxOnce
  <2>1. CASE slot \in {w} \X relays
    <3>1. slot[1] = w /\ PubkeyOf(slot)' = p
      BY <1>1, <2>1 DEF PubkeyOf
    <3> QED
      BY <1>1, <3>1
  <2>2. CASE slot \notin {w} \X relays
    <3>1. slot \in connecting \cup inbox \cup timers
      BY <1>1, <2>2
    <3>2. PubkeyOf(slot)' = PubkeyOf(slot)
      BY <1>6, <3>1 DEF InboxInv, SlotsKnown, Tracked, PubkeyOf
    <3>3. PubkeyOf(slot) \in DOMAIN watching /\ watching[PubkeyOf(slot)] = slot[1]
      BY <1>1, <3>1, <3>2 DEF InboxInv, InboxOnce
    <3>4. PubkeyOf(slot) # p
      BY <1>1, <1>7, <3>2, <3>3
    <3> QED
      BY <1>1, <3>2, <3>3, <3>4
  <2> QED
    BY <2>1, <2>2
<1> QED
  BY <1>3, <1>4, <1>5, <1>8, <1>9 DEF InboxInv

(* A step that only moves a subscription on. *)
LEMMA MoveStep ==
  ASSUME InboxInv, NEW slot \in Slots,
         Connected(slot) \/ ConnectFails(slot) \/ TimerFires(slot)
  PROVE  InboxInv'
<1> USE DEF InboxInv, InboxType, SlotsKnown, Tracked, InboxKept, LoadsAlone, InboxOnce, PubkeyOf
<1>1. CASE Connected(slot)
  BY <1>1 DEF Connected
<1>2. CASE ConnectFails(slot)
  BY <1>2 DEF ConnectFails
<1>3. CASE TimerFires(slot)
  BY <1>3 DEF TimerFires
<1> QED
  BY <1>1, <1>2, <1>3

(* A closed subscription gets a timer while its pubkey is watched. *)
LEMMA SubscriptionClosedStep ==
  ASSUME InboxInv, NEW slot \in Slots, SubscriptionClosed(slot)
  PROVE  InboxInv'
<1>1. /\ slot \in inbox
      /\ inbox' = inbox \ {slot}
      /\ timers' = IF PubkeyOf(slot) \in DOMAIN watching THEN timers \cup {slot} ELSE timers
      /\ UNCHANGED <<watch, watching, connecting, entries, rejected, strayed>>
  BY DEF SubscriptionClosed, StillWatching
<1>2. InboxType' /\ SlotsKnown'
  BY <1>1 DEF InboxInv, InboxType, SlotsKnown, Tracked
<1>3. InboxKept'
  <2>1. ASSUME NEW p \in DOMAIN watching, NEW r \in watch[watching[p]].relays,
               slot = <<watching[p], r>>
        PROVE  slot \in timers'
    BY <1>1, <2>1 DEF PubkeyOf, InboxInv, SlotsKnown
  <2> QED
    BY <1>1, <2>1 DEF InboxInv, InboxKept
<1>4. LoadsAlone' /\ InboxOnce'
  BY <1>1 DEF InboxInv, LoadsAlone, InboxOnce, PubkeyOf
<1> QED
  BY <1>2, <1>3, <1>4 DEF InboxInv

(* Besides keeping the invariant, stopWatchInbox ends what it undoes.      *)
LEMMA StopWatchInboxStep ==
  ASSUME InboxInv, NEW p \in Watchable, StopWatchInbox(p)
  PROVE  /\ InboxInv'
         /\ DOMAIN watching \ DOMAIN watching' = {p}
         /\ \A slot \in inbox' : slot[1] # watching[p]
         /\ timers' = timers
<1>1. /\ p \in DOMAIN watching
      /\ DOMAIN watching' = DOMAIN watching \ {p}
      /\ \A q \in DOMAIN watching' : watching'[q] = watching[q]
      /\ watching' \in [DOMAIN watching' -> DOMAIN watch]
      /\ inbox' = inbox \ Entries(watching[p])
      /\ strayed' = IF \E slot \in connecting \cup timers : PubkeyOf(slot) = p
                      THEN strayed \cup {p}
                      ELSE strayed
      /\ UNCHANGED <<watch, connecting, entries, timers, rejected>>
  BY DEF StopWatchInbox, Without, Restrict, InboxInv, InboxType
<1>2. \A slot \in inbox' : slot[1] # watching[p]
  BY <1>1 DEF Entries, InboxInv, SlotsKnown
<1>3. InboxType' /\ SlotsKnown'
  BY <1>1 DEF InboxInv, InboxType, SlotsKnown, Tracked
<1>4. InboxKept'
  <2>1. ASSUME NEW q \in DOMAIN watching', NEW r \in watch[watching[q]].relays
        PROVE  <<watching[q], r>> \notin Entries(watching[p])
    BY <1>1 DEF Entries, InboxInv, SlotsKnown
  <2> QED
    BY <1>1, <2>1 DEF InboxInv, InboxKept
<1>5. LoadsAlone'
  BY <1>1 DEF InboxInv, LoadsAlone
<1>6. InboxOnce'
  <2> SUFFICES ASSUME NEW slot \in connecting' \cup inbox' \cup timers',
                      PubkeyOf(slot) \notin strayed'
               PROVE  /\ PubkeyOf(slot) \in DOMAIN watching'
                      /\ watching'[PubkeyOf(slot)] = slot[1]
    BY <1>1 DEF InboxOnce, PubkeyOf
  <2>1. slot \in connecting \cup inbox \cup timers /\ PubkeyOf(slot) \notin strayed
    BY <1>1
  <2>2. PubkeyOf(slot) \in DOMAIN watching /\ watching[PubkeyOf(slot)] = slot[1]
    BY <2>1 DEF InboxInv, InboxOnce
  <2>3. PubkeyOf(slot) # p
    <3>1. slot \in inbox' => slot[1] # watching[p]
      BY <1>2
    <3>2. slot \in connecting \cup timers => PubkeyOf(slot) # p
      BY <1>1
    <3> QED
      BY <1>1, <2>2, <3>1, <3>2
  <2> QED
    BY <1>1, <2>2, <2>3
<1> QED
  BY <1>1, <1>2, <1>3, <1>4, <1>5, <1>6 DEF InboxInv

(* Steps of the other parts. *)
LEMMA InboxUnchanged ==
  ASSUME InboxInv, UNCHANGED inboxVars
  PROVE  InboxInv'
BY DEF inboxVars, InboxInv, InboxType, SlotsKnown, Tracked, InboxKept, LoadsAlone, InboxOnce,
       PubkeyOf

-----------------------------------------------------------------------------
(* Forwarding *)

(* Nothing is forwarded at first. *)
LEMMA InitForward == Init => ForwardType
BY DEF Init, EmptyMap, ForwardType

(* Every step of a call keeps the types of the calls. *)
LEMMA ForwardStep ==
  ASSUME ForwardType, NEW f \in Forwards, NEW relays \in SUBSET Relays,
         ForwardMessage(f) \/ ForwardLoaded(f, relays) \/ ForwardSettled(f, relays)
  PROVE  ForwardType'
<1>1. CASE ForwardMessage(f)
  BY <1>1 DEF ForwardMessage, IsNext, With, ForwardType
<1>2. CASE ForwardLoaded(f, relays)
  BY <1>2 DEF ForwardLoaded, ForwardType
<1>3. CASE ForwardSettled(f, relays)
  BY <1>3 DEF ForwardSettled, ForwardType
<1> QED
  BY <1>1, <1>2, <1>3

(* Steps of the other parts. *)
LEMMA ForwardUnchanged ==
  ASSUME ForwardType, UNCHANGED forward
  PROVE  ForwardType'
BY DEF ForwardType

-----------------------------------------------------------------------------
(* The whole *)

IInv == ConversationInv /\ InboxInv /\ ForwardType

(* The initial states satisfy the invariant. *)
LEMMA InitIInv == Init => IInv
BY InitConversation, InitInbox, InitForward DEF IInv

(* Every step keeps it. *)
LEMMA NextIInv == IInv /\ [Next]_vars => IInv'
<1> SUFFICES ASSUME IInv, [Next]_vars
             PROVE  IInv'
  OBVIOUS
<1> USE DEF IInv
<1>1. ASSUME NEW o \in Opens, NEW ab \in Pairs, OpenConversation(o, ab)
      PROVE  IInv'
  BY <1>1, OpenConversationStep, InboxUnchanged, ForwardUnchanged DEF OpenConversation
<1>2. ASSUME NEW o \in Opens, ConversationLoaded(o)
      PROVE  IInv'
  BY <1>2, ConversationLoadedStep, InboxUnchanged, ForwardUnchanged DEF ConversationLoaded
<1>3. ASSUME NEW ab \in Pairs, CloseConversation(ab)
      PROVE  IInv'
  BY <1>3, CloseConversationStep, InboxUnchanged, ForwardUnchanged DEF CloseConversation
<1>4. ASSUME NEW w \in Watches, NEW p \in Watchable, WatchInbox(w, p)
      PROVE  IInv'
  BY <1>4, WatchInboxStep, ConversationUnchanged, ForwardUnchanged DEF WatchInbox
<1>5. ASSUME NEW w \in Watches, WatchGivesUp(w)
      PROVE  IInv'
  BY <1>5, WatchGivesUpStep, ConversationUnchanged, ForwardUnchanged DEF WatchGivesUp
<1>6. ASSUME NEW w \in Watches, NEW relays \in SUBSET Relays, WatchLoaded(w, relays)
      PROVE  IInv'
  BY <1>6, WatchLoadedStep, ConversationUnchanged, ForwardUnchanged DEF WatchLoaded
<1>7. ASSUME NEW slot \in Slots, Connected(slot) \/ ConnectFails(slot) \/ TimerFires(slot)
      PROVE  IInv'
  BY <1>7, MoveStep, ConversationUnchanged, ForwardUnchanged
  DEF Connected, ConnectFails, TimerFires
<1>8. ASSUME NEW slot \in Slots, SubscriptionClosed(slot)
      PROVE  IInv'
  BY <1>8, SubscriptionClosedStep, ConversationUnchanged, ForwardUnchanged
  DEF SubscriptionClosed
<1>9. ASSUME NEW p \in Watchable, StopWatchInbox(p)
      PROVE  IInv'
  BY <1>9, StopWatchInboxStep, ConversationUnchanged, ForwardUnchanged DEF StopWatchInbox
<1>10. ASSUME NEW f \in Forwards, NEW relays \in SUBSET Relays,
              ForwardMessage(f) \/ ForwardLoaded(f, relays) \/ ForwardSettled(f, relays)
       PROVE  IInv'
  BY <1>10, ForwardStep, ConversationUnchanged, InboxUnchanged
  DEF ForwardMessage, ForwardLoaded, ForwardSettled
<1>11. ASSUME NEW f \in Forwards, ForwardMessage(f)
       PROVE  IInv'
  <2>1. {} \in SUBSET Relays
    OBVIOUS
  <2> QED
    BY <1>10, <1>11, <2>1
<1>12. CASE UNCHANGED vars
  BY <1>12, ConversationUnchanged, InboxUnchanged, ForwardUnchanged DEF vars
<1> QED
  BY <1>1, <1>2, <1>3, <1>4, <1>5, <1>6, <1>7, <1>8, <1>9, <1>10, <1>11, <1>12 DEF Next

(* The inductive invariant is one. *)
LEMMA Invariance == Spec => []IInv
<1> QED
  BY InitIInv, NextIInv, PTL DEF Spec

(* Every variable keeps its type. *)
THEOREM TypeCorrect == Spec => []TypeOK
<1>1. IInv => TypeOK
  BY DEF IInv, ConversationInv, ConversationType, InboxInv, InboxType, ForwardType,
         TypeOK
<1> QED
  BY <1>1, Invariance, PTL

(* A conversation that no two calls were opening at once has the one       *)
(* subscription that is in the Map (openConversation, closeConversation).  *)
THEOREM ConversationsHaveOneSubscription == Spec => []OneSubscription
<1>1. IInv => OneSubscription
  <2> SUFFICES ASSUME IInv, NEW key, key \notin overlapped
               PROVE  {o \in live : Key(o) = key} =
                      {subscriptions[k] : k \in {key} \cap DOMAIN subscriptions}
    BY DEF OneSubscription
  <2>1. ASSUME NEW o \in live, Key(o) = key
        PROVE  key \in DOMAIN subscriptions /\ subscriptions[key] = o
    BY <2>1 DEF IInv, ConversationInv, LiveIsRecorded
  <2>2. ASSUME key \in DOMAIN subscriptions
        PROVE  subscriptions[key] \in live /\ Key(subscriptions[key]) = key
    BY <2>2 DEF IInv, ConversationInv, RecordedIsLive, KeysMatch
  <2> QED
    BY <2>1, <2>2
<1> QED
  BY <1>1, Invariance, PTL

(* closeConversation ends the conversation of its two authors, in whatever *)
(* order they are named: none of the calls that had begun has an open      *)
(* subscription, but those that were still opening it and overlapping ones.*)
THEOREM ClosedConversationsEnd == Spec => []CloseEndsConversation
<1>1. IInv => CloseEndsConversation
  BY DEF IInv, ConversationInv
<1> QED
  BY <1>1, Invariance, PTL

(* The call that watches a pubkey keeps one subscription of its own per    *)
(* relay, open or on its way, however often relays close them (watchInbox).*)
THEOREM InboxesAreKept == Spec => []InboxKept
<1>1. IInv => InboxKept
  BY DEF IInv, InboxInv
<1> QED
  BY <1>1, Invariance, PTL

(* But for pubkeys that calls overlapped on or that were stopped while a   *)
(* subscription was on its way, no other call subscribes (watchInbox,      *)
(* stopWatchInbox).                                                        *)
THEOREM InboxesAreWatchedOnce == Spec => []InboxOnce
<1>1. IInv => InboxOnce
  BY DEF IInv, InboxInv
<1> QED
  BY <1>1, Invariance, PTL

(* stopWatchInbox closes all subscriptions of the call it undoes and       *)
(* starts no timer.                                                        *)
THEOREM StoppedInboxesEnd == Spec => StopEndsInbox
<1> DEFINE Ends ==
      \A p \in DOMAIN watching \ DOMAIN watching' :
        /\ \A slot \in inbox' : slot[1] # watching[p]
        /\ timers' \subseteq timers
<1>1. IInv /\ [Next]_vars => [Ends]_vars
  <2> SUFFICES ASSUME IInv, Next, NEW p \in DOMAIN watching \ DOMAIN watching'
               PROVE  /\ \A slot \in inbox' : slot[1] # watching[p]
                      /\ timers' \subseteq timers
    OBVIOUS
  <2>1. PICK q \in Watchable : StopWatchInbox(q)
    <3>1. \A w \in Watches, relays \in SUBSET Relays : ~ WatchLoaded(w, relays)
      BY DEF WatchLoaded, With
    <3>2. UNCHANGED watching => FALSE
      OBVIOUS
    <3> QED
      BY <3>1, <3>2
      DEF Next, OpenConversation, ConversationLoaded, CloseConversation, WatchInbox,
          WatchGivesUp, Connected, ConnectFails, SubscriptionClosed, TimerFires,
          ForwardMessage, ForwardLoaded, ForwardSettled, inboxVars
  <2> QED
    BY <2>1, StopWatchInboxStep DEF IInv
<1>2. Spec => [][Ends]_vars
  BY <1>1, Invariance, PTL DEF Spec
<1> QED
  BY <1>2 DEF StopEndsInbox
=============================================================================
