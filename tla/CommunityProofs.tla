--------------------------- MODULE CommunityProofs ---------------------------
(***************************************************************************)
(* Proofs about module Community, for any communities, hyper addresses and *)
(* channels, and any finite set of events.                                 *)
(***************************************************************************)
EXTENDS Community, FiniteSetTheorems, SequenceTheorems, TLAPS

-----------------------------------------------------------------------------
(* What the upstream sends at once *)

(* A finite set becomes a sequence of its elements. *)
LEMMA SetToSeqIs ==
  ASSUME NEW S, IsFiniteSet(S)
  PROVE  SetToSeq(S) \in Seq(S)
<1> DEFINE n == Cardinality(S)
<1>1. n \in Nat /\ ExistsBijection(1..n, S)
  BY FS_CardinalityType
<1>2. PICK f \in [1..n -> S] : IsInjective(f)
  BY <1>1 DEF ExistsBijection, Bijection, Injection, IsInjective
<1>3. SetToSeq(S) \in [1..n -> S]
  BY <1>2 DEF SetToSeq
<1> QED
  BY <1>1, <1>3

(* There are finitely many messages of one sort. *)
LEMMA FinitelyMany ==
  ASSUME NEW b, NEW E \in SUBSET Events
  PROVE  IsFiniteSet({[kind |-> b, event |-> e] : e \in E})
<1> DEFINE S == {[kind |-> b, event |-> e] : e \in E}
           f == [m \in S |-> m.event]
<1>1. f \in [S -> Events]
  OBVIOUS
<1>2. \A x, y \in S : f[x] = f[y] => x = y
  OBVIOUS
<1>3. f \in Injection(S, Events)
  BY <1>1, <1>2 DEF Injection, IsInjective
<1> QED
  BY <1>3, FS_Injection, CommunityAssumption DEF CommunityAssumption

(* Events that are sent are held, those whose deletion is sent are deleted. *)
LEMMA StoredIs ==
  ASSUME TypeOK, NEW c \in Communities, NEW topics
  PROVE  /\ Stored(c, topics) \in Seq(Messages)
         /\ \A i \in 1..Len(Stored(c, topics)) :
              LET m == Stored(c, topics)[i]
              IN  /\ m.kind = "deletion" => m.event \in deleted[c]
                  /\ m.kind = "event" => m.event \in held[c]
<1> DEFINE events == {[kind |-> "event", event |-> e] : e \in {f \in held[c] : Topic[f] \in topics}}
           rightful == {[kind |-> "deletion", event |-> e] : e \in deleted[c]}
           foreign == {[kind |-> "foreign", event |-> e] : e \in disputed[c]}
           deletions == rightful \cup foreign
           first == SetToSeq(events)
           second == IF "deletion" \in topics THEN SetToSeq(deletions) ELSE <<>>
<1>1. IsFiniteSet(events) /\ IsFiniteSet(deletions)
  <2>1. IsFiniteSet(events) /\ IsFiniteSet(rightful) /\ IsFiniteSet(foreign)
    BY FinitelyMany DEF TypeOK
  <2> HIDE DEF events, rightful, foreign
  <2> QED
    BY <2>1, FS_Union
<1>2. first \in Seq(events) /\ second \in Seq(deletions)
  BY <1>1, SetToSeqIs
<1>3. events \subseteq Messages /\ deletions \subseteq Messages
  <2>1. \A e \in Events, k \in {"event", "deletion", "foreign"} : [kind |-> k, event |-> e] \in Messages
    BY DEF Messages
  <2>2. held[c] \subseteq Events /\ deleted[c] \subseteq Events /\ disputed[c] \subseteq Events
    BY DEF TypeOK
  <2> QED
    BY <2>1, <2>2
<1>4. first \in Seq(Messages) /\ second \in Seq(Messages)
  BY <1>2, <1>3, SeqMonotonic
<1>5. Stored(c, topics) = first \o second
  BY DEF Stored
<1> HIDE DEF first, second
<1>6. ASSUME NEW i \in 1..Len(first) PROVE first[i].kind = "event" /\ first[i].event \in held[c]
  <2>1. first[i] \in events
    BY <1>2, ElementOfSeq
  <2> QED
    BY <2>1
<1>7. ASSUME NEW i \in 1..Len(second)
      PROVE  \/ second[i].kind = "deletion" /\ second[i].event \in deleted[c]
             \/ second[i].kind = "foreign"
  <2>1. second[i] \in deletions
    BY <1>2, ElementOfSeq
  <2> QED
    BY <2>1
<1>8. /\ Stored(c, topics) \in Seq(Messages)
      /\ Len(first) \in Nat /\ Len(second) \in Nat
      /\ Len(Stored(c, topics)) = Len(first) + Len(second)
  BY <1>4, <1>5, ConcatProperties, LenProperties
<1>9. ASSUME NEW i \in 1..Len(Stored(c, topics))
      PROVE  \/ \E j \in 1..Len(first) : Stored(c, topics)[i] = first[j]
             \/ \E j \in 1..Len(second) : Stored(c, topics)[i] = second[j]
  <2>1. Stored(c, topics)[i] = IF i <= Len(first) THEN first[i] ELSE second[i - Len(first)]
    BY <1>4, <1>5, <1>8, ConcatProperties
  <2>2. i <= Len(first) \/ i - Len(first) \in 1..Len(second)
    BY <1>8
  <2> QED
    BY <2>1, <2>2, <1>8
<1> QED
  BY <1>6, <1>7, <1>8, <1>9

-----------------------------------------------------------------------------
(* Types *)

(* A subscription keeps the types of what it changes. *)
LEMMA SubscribeType ==
  ASSUME TypeOK, NEW c \in Communities, NEW topics \in SUBSET Topics, Subscribe(c, topics)
  PROVE  /\ open' \in [Communities -> SUBSET Topics]
         /\ asked' \in [Communities -> SUBSET Topics]
         /\ inbox' \in [Communities -> Seq(Messages)]
<1>1. inbox[c] \o Stored(c, topics) \in Seq(Messages)
  BY StoredIs, ConcatProperties DEF TypeOK
<1> QED
  BY <1>1 DEF TypeOK, Subscribe

(* So does a message. *)
LEMMA SendType ==
  ASSUME TypeOK, NEW c \in Communities, NEW topic, NEW m \in Messages, Send(c, topic, m)
  PROVE  inbox' \in [Communities -> Seq(Messages)]
<1>1. Append(inbox[c], m) \in Seq(Messages)
  BY DEF TypeOK
<1> QED
  BY <1>1 DEF TypeOK, Send

(* The next message is one. *)
LEMMA HeadType ==
  ASSUME TypeOK, NEW c \in Communities, inbox[c] # <<>>
  PROVE  /\ Head(inbox[c]) \in Messages
         /\ Head(inbox[c]).event \in Events
         /\ Tail(inbox[c]) \in Seq(Messages)
<1>1. inbox[c] \in Seq(Messages)
  BY DEF TypeOK
<1>2. Head(inbox[c]) \in Messages /\ Tail(inbox[c]) \in Seq(Messages)
  BY <1>1, HeadTailProperties
<1> QED
  BY <1>2 DEF Messages

(* What is done with it keeps the types. *)
LEMMA HandleEventType ==
  ASSUME TypeOK, NEW c \in Communities, HandleEvent(c)
  PROVE  /\ inbox' \in [Communities -> Seq(Messages)]
         /\ store' \subseteq Events
         /\ labels' \subseteq Events \X Communities
         /\ received' \in [Communities -> SUBSET Events]
         /\ handled' \in [Communities -> SUBSET Events]
<1>1. Head(inbox[c]).event \in Events /\ Tail(inbox[c]) \in Seq(Messages)
  BY HeadType DEF HandleEvent
<1>2. inbox' \in [Communities -> Seq(Messages)]
  BY <1>1 DEF TypeOK, HandleEvent
<1> DEFINE e == Head(inbox[c]).event
<1>3. e \in Events
  BY <1>1
<1>4. CASE Head(inbox[c]).kind # "event"
  <2>1. PICK rightful \in SUBSET {e} :
          /\ RemoveEvents(Deletes(c, Head(inbox[c])))
          /\ handled' = [handled EXCEPT ![c] = @ \cup rightful]
          /\ received' = [d \in Communities |-> received[d] \ (rightful \cap received[c])]
    BY <1>4 DEF HandleEvent
  <2> QED
    BY <1>2, <1>3, <2>1 DEF TypeOK, RemoveEvents, LabelsWithout
<1>5. CASE Head(inbox[c]).kind = "event"
  <2>1. AddEvent(c, e)
    BY <1>5 DEF HandleEvent
  <2> QED
    BY <1>2, <1>3, <2>1 DEF TypeOK, AddEvent
<1> QED
  BY <1>4, <1>5

(* Every step keeps the types. *)
LEMMA TypeStep == TypeOK /\ [Next]_vars => TypeOK'
<1> SUFFICES ASSUME TypeOK, [Next]_vars PROVE TypeOK'
  OBVIOUS
<1> USE DEF linkVars, upstreamVars, storeVars, subVars
<1>1. ASSUME NEW c \in Communities, NEW a \in Addresses, DefinitionStored(c, a) PROVE TypeOK'
  BY <1>1 DEF TypeOK, DefinitionStored
<1>2. ASSUME NEW c \in Communities, HandleConnection(c) PROVE TypeOK'
  <2>1. proxy' \in [Communities -> {"absent", "binding", "connecting", "rejected", "up", "down"}]
    BY <1>2 DEF TypeOK, HandleConnection, ConnectUpstream
  <2>2. server' \in [Hyper -> {"none", "binding", "listening"}]
    <3>1. server' = server \/ server' = [server EXCEPT ![definition[c]] = "binding"]
      BY <1>2 DEF HandleConnection, ConnectUpstream, EnteredAt
    <3> QED
      BY <3>1 DEF TypeOK
  <2>3. bound' \in [Hyper -> Nat]
    BY <1>2 DEF TypeOK, HandleConnection, ConnectUpstream
  <2> QED
    BY <1>2, <2>1, <2>2, <2>3 DEF TypeOK, HandleConnection, SetTimer, Elapses
<1>3. ASSUME NEW c \in Communities, Listening(c) PROVE TypeOK'
  BY <1>3 DEF TypeOK, Listening
<1>4. ASSUME NEW c \in Communities, Connected(c) PROVE TypeOK'
  BY <1>4 DEF TypeOK, Connected, SetTimer, Elapses
<1>5. ASSUME NEW c \in Communities, Closed(c) PROVE TypeOK'
  BY <1>5, EmptySeq DEF TypeOK, Closed
<1>6. ASSUME NEW c \in Communities, TimerFires(c) PROVE TypeOK'
  BY <1>6, SubscribeType DEF TypeOK, TimerFires, Topics
<1>7. ASSUME NEW c \in Communities, NEW channel \in Channels, SyncChannel(c, channel) PROVE TypeOK'
  <2>1. {channel} \in SUBSET Topics
    BY DEF Topics
  <2> QED
    BY <1>7, <2>1, SubscribeType DEF TypeOK, SyncChannel
<1>8. ASSUME NEW c \in Communities, NEW topic \in Topics, SubscriptionClosed(c, topic) PROVE TypeOK'
  BY <1>8 DEF TypeOK, SubscriptionClosed, OnClose
<1>9. ASSUME NEW c \in Communities, NEW e \in Events, UpstreamTakes(c, e) PROVE TypeOK'
  <2>1. [kind |-> "event", event |-> e] \in Messages
    BY DEF Messages
  <2> QED
    BY <1>9, <2>1, SendType DEF TypeOK, UpstreamTakes
<1>10. ASSUME NEW c \in Communities, NEW e \in Events, UpstreamDeletes(c, e) PROVE TypeOK'
  <2>1. [kind |-> "deletion", event |-> e] \in Messages
    BY DEF Messages
  <2> QED
    BY <1>10, <2>1, SendType DEF TypeOK, UpstreamDeletes
<1>15. ASSUME NEW c \in Communities, NEW e \in Events, UpstreamDisputes(c, e) PROVE TypeOK'
  <2>1. [kind |-> "foreign", event |-> e] \in Messages
    BY DEF Messages
  <2> QED
    BY <1>15, <2>1, SendType DEF TypeOK, UpstreamDisputes
<1>11. ASSUME NEW c \in Communities, HandleEvent(c) PROVE TypeOK'
  BY <1>11, HandleEventType DEF TypeOK, HandleEvent
<1>12. ASSUME NEW e \in Events, NodeStores(e) PROVE TypeOK'
  BY <1>12 DEF TypeOK, NodeStores
<1>13. CASE ClearDatabase
  BY <1>13 DEF TypeOK, ClearDatabase, Nothing
<1>14. CASE UNCHANGED vars
  BY <1>14 DEF TypeOK, vars
<1> QED
  BY <1>1, <1>2, <1>3, <1>4, <1>5, <1>6, <1>7, <1>8, <1>9, <1>10, <1>11, <1>12, <1>13,
     <1>14, <1>15 DEF Next, ClientPublishes

(* And so does the start. *)
LEMMA TypeInit == Init => TypeOK
BY EmptySeq DEF Init, TypeOK, Nothing

(* Every variable has its type. *)
THEOREM TypeCorrect == Spec => []TypeOK
BY TypeInit, TypeStep, PTL DEF Spec

-----------------------------------------------------------------------------
(* Servers *)

(* A server that is there was bound once, for a community that still waits *)
(* or is connected, and only where a server is does one get turned away.   *)
ServerInv ==
  /\ \A k \in Hyper : bound[k] = IF server[k] = "none" THEN 0 ELSE 1
  /\ \A k \in Hyper : server[k] # "none" =>
       \E d \in Communities : definition[d] = k /\ proxy[d] \notin {"absent", "rejected"}
  /\ \A c \in Communities : proxy[c] \in {"rejected", "binding"} /\ definition[c] \in Hyper =>
       server[definition[c]] # "none"
  /\ \A c \in Communities : proxy[c] = "binding" => definition[c] \in Hyper
  /\ \A c \in Communities : definition[c] = "none" => proxy[c] = "absent"

(* The first client of a community. *)
LEMMA HandleConnectionServers ==
  ASSUME TypeOK, ServerInv, NEW c \in Communities, HandleConnection(c)
  PROVE  ServerInv'
<1> DEFINE a == definition[c]
<1>1. definition' = definition /\ proxy[c] = "absent" /\ a # "none"
  BY DEF HandleConnection, IsFirst
<1>2. \A k \in Hyper : k \notin {"websocket", "nowhere", "none"}
  BY CommunityAssumption DEF CommunityAssumption
<1>3. CASE server' = server /\ bound' = bound /\ proxy' = [proxy EXCEPT ![c] = "rejected"]
           /\ (a \in Hyper => server[a] # "none")
  BY <1>1, <1>3 DEF ServerInv, TypeOK
<1>4. CASE server' = server /\ bound' = bound /\ proxy' = [proxy EXCEPT ![c] = "connecting"]
  BY <1>1, <1>4 DEF ServerInv, TypeOK
<1>5. CASE /\ a \in Hyper /\ server[a] = "none"
           /\ server' = [server EXCEPT ![a] = "binding"]
           /\ bound' = [bound EXCEPT ![a] = @ + 1]
           /\ proxy' = [proxy EXCEPT ![c] = "binding"]
  BY <1>1, <1>5 DEF ServerInv, TypeOK
<1> QED
  BY <1>2, <1>3, <1>4, <1>5 DEF HandleConnection, ConnectUpstream, EnteredAt

(* Every step keeps it. *)
LEMMA ServerStep == TypeOK /\ ServerInv /\ [Next]_vars => ServerInv'
<1> SUFFICES ASSUME TypeOK, ServerInv, [Next]_vars PROVE ServerInv'
  OBVIOUS
<1>1. ASSUME NEW c \in Communities, NEW a \in Addresses, DefinitionStored(c, a) PROVE ServerInv'
  <2>1. a # "none" /\ proxy[c] = "absent"
    BY <1>1, CommunityAssumption DEF CommunityAssumption, ServerInv, DefinitionStored, Addresses
  <2> QED
    BY <1>1, <2>1 DEF ServerInv, DefinitionStored, TypeOK
<1>2. ASSUME NEW c \in Communities, HandleConnection(c) PROVE ServerInv'
  BY <1>2, HandleConnectionServers
<1>3. ASSUME NEW c \in Communities, Listening(c) PROVE ServerInv'
  BY <1>3 DEF ServerInv, Listening, TypeOK
<1>4. ASSUME NEW c \in Communities, Connected(c) PROVE ServerInv'
  BY <1>4 DEF ServerInv, Connected, TypeOK
<1>5. ASSUME NEW c \in Communities, Closed(c) PROVE ServerInv'
  BY <1>5 DEF ServerInv, Closed, TypeOK
<1>6. CASE UNCHANGED <<definition, proxy, server, bound>>
  BY <1>6 DEF ServerInv
<1> QED
  BY <1>1, <1>2, <1>3, <1>4, <1>5, <1>6 DEF Next, ClientPublishes, TimerFires, SyncChannel,
     SubscriptionClosed, UpstreamTakes, UpstreamDeletes, UpstreamDisputes, HandleEvent, NodeStores, ClearDatabase,
     linkVars, vars

(* Communities of one hyper address share one local server, and one is     *)
(* turned away only if another one had it bound                            *)
(* (hyper-connection-manager.ts 22-57).                                    *)
THEOREM ServersAreShared == Spec => []OneServerPerAddress
<1>1. Init => TypeOK /\ ServerInv
  BY TypeInit DEF Init, ServerInv
<1>2. ServerInv => OneServerPerAddress
  BY DEF ServerInv, OneServerPerAddress
<1> QED
  BY <1>1, <1>2, TypeStep, ServerStep, PTL DEF Spec

-----------------------------------------------------------------------------
(* Channels *)

(* Every step keeps the Map of channels in step. *)
LEMMA ChannelsStep == TypeOK /\ ChannelsInStep /\ [Next]_vars => ChannelsInStep'
<1> SUFFICES ASSUME TypeOK, ChannelsInStep, [Next]_vars PROVE ChannelsInStep'
  OBVIOUS
<1> USE DEF ChannelsInStep, TypeOK
<1>1. ASSUME NEW c \in Communities, HandleConnection(c) PROVE ChannelsInStep'
  BY <1>1 DEF HandleConnection, IsFirst, ConnectUpstream, subVars
<1>2. ASSUME NEW c \in Communities, Listening(c) PROVE ChannelsInStep'
  BY <1>2 DEF Listening, subVars
<1>3. ASSUME NEW c \in Communities, Connected(c) PROVE ChannelsInStep'
  BY <1>3 DEF Connected, subVars
<1>4. ASSUME NEW c \in Communities, Closed(c) PROVE ChannelsInStep'
  BY <1>4 DEF Closed
<1>5. ASSUME NEW c \in Communities, TimerFires(c) PROVE ChannelsInStep'
  BY <1>5, CommunityAssumption DEF CommunityAssumption, TimerFires, Subscribe
<1>6. ASSUME NEW c \in Communities, NEW channel \in Channels, SyncChannel(c, channel) PROVE ChannelsInStep'
  BY <1>6 DEF SyncChannel, Subscribe, linkVars
<1>7. ASSUME NEW c \in Communities, NEW topic \in Topics, SubscriptionClosed(c, topic) PROVE ChannelsInStep'
  BY <1>7 DEF SubscriptionClosed, OnClose, linkVars
<1>8. ASSUME NEW c \in Communities, NEW topic, NEW m, Send(c, topic, m), UNCHANGED <<linkVars, subVars>>
      PROVE  ChannelsInStep'
  BY <1>8 DEF Send, linkVars, subVars
<1>9. ASSUME NEW c \in Communities, HandleEvent(c) PROVE ChannelsInStep'
  BY <1>9 DEF HandleEvent, linkVars, subVars
<1>10. CASE UNCHANGED <<proxy, channelSubs, open, inbox>>
  BY <1>10
<1> QED
  BY <1>1, <1>2, <1>3, <1>4, <1>5, <1>6, <1>7, <1>8, <1>9, <1>10 DEF Next, ClientPublishes,
     DefinitionStored, UpstreamTakes, UpstreamDeletes, UpstreamDisputes, NodeStores, ClearDatabase, linkVars, subVars, vars

(* channelSubs names the channel subscriptions in force                    *)
(* (community-proxy.ts 158-173).                                           *)
THEOREM ChannelsKeepStep == Spec => []ChannelsInStep
<1>1. Init => ChannelsInStep
  BY DEF Init, ChannelsInStep, Nothing
<1> QED
  BY <1>1, TypeInit, TypeStep, ChannelsStep, PTL DEF Spec

-----------------------------------------------------------------------------
(* Views *)

(* What is labelled is in the database: without this, an event that the    *)
(* node stores could appear in a community that never received it.         *)
ViewInv ==
  /\ \A l \in labels : l[1] \in store
  /\ ViewIsReceived

(* Every step keeps it. *)
LEMMA ViewStep == TypeOK /\ ViewInv /\ [Next]_vars => ViewInv'
<1> SUFFICES ASSUME TypeOK, ViewInv, [Next]_vars PROVE ViewInv'
  OBVIOUS
<1> USE DEF ViewInv, ViewIsReceived, Visible
<1>1. ASSUME NEW c \in Communities, HandleEvent(c) PROVE ViewInv'
  <2> DEFINE e == Head(inbox[c]).event
  <2>1. e \in Events
    BY <1>1, HeadType DEF HandleEvent
  <2>2. CASE Head(inbox[c]).kind # "event"
    <3> DEFINE E == IF Head(inbox[c]).kind = "deletion" THEN {e} \cap Visible(c) ELSE {}
    <3>1. /\ RemoveEvents(E)
          /\ \A d \in Communities : received'[d] = received[d] \ E
      BY <1>1, <2>2 DEF HandleEvent, Deletes
    <3>2. \A d \in Communities : Visible(d)' = Visible(d) \ E
      BY <3>1 DEF RemoveEvents, LabelsWithout
    <3>3. \A l \in labels' : l[1] \in store'
      BY <3>1 DEF RemoveEvents, LabelsWithout
    <3> QED
      BY <3>1, <3>2, <3>3
  <2>3. CASE AddEvent(c, e)
    <3>1. store' = store \cup {e} /\ labels' = labels \cup {<<e, c>>}
      BY <2>3 DEF AddEvent, HasLabel
    <3>2. \A d \in Communities : Visible(d)' = IF d = c THEN Visible(d) \cup {e} ELSE Visible(d)
      BY <3>1
    <3> QED
      BY <2>3, <3>1, <3>2 DEF AddEvent, TypeOK
  <2> QED
    BY <1>1, <2>2, <2>3 DEF HandleEvent
<1>2. ASSUME NEW e \in Events, NodeStores(e) PROVE ViewInv'
  BY <1>2 DEF NodeStores
<1>3. CASE ClearDatabase
  BY <1>3 DEF ClearDatabase, Nothing
<1>4. CASE UNCHANGED <<store, labels, received>>
  BY <1>4
<1> QED
  BY <1>1, <1>2, <1>3, <1>4 DEF Next, ClientPublishes, DefinitionStored, HandleConnection, Listening,
     Connected, Closed, TimerFires, SyncChannel, SubscriptionClosed, UpstreamTakes, UpstreamDeletes, UpstreamDisputes,
     storeVars, vars

LEMMA ViewInit == Init => ViewInv
BY DEF Init, ViewInv, ViewIsReceived, Visible, Nothing

(* A community is shown what it received and nobody removed                *)
(* (labeled-event-store.ts 41-79).                                         *)
THEOREM ViewsAreReceived == Spec => []ViewIsReceived
<1>1. ViewInv => ViewIsReceived
  BY DEF ViewInv
<1> QED
  BY <1>1, ViewInit, ViewStep, TypeInit, TypeStep, PTL DEF Spec

-----------------------------------------------------------------------------
(* Deletions *)

(* No event is on its way behind its own deletion: an upstream that was    *)
(* told to delete it neither holds nor takes it again, and one connection  *)
(* keeps the order.                                                        *)
InOrder ==
  \A c \in Communities :
    /\ held[c] \cap deleted[c] = {}
    /\ handled[c] \subseteq deleted[c]
    /\ \A i \in 1..Len(inbox[c]) :
         /\ inbox[c][i].kind = "deletion" => inbox[c][i].event \in deleted[c]
         /\ inbox[c][i].kind = "event" => inbox[c][i].event \notin handled[c]
    /\ \A i, j \in 1..Len(inbox[c]) :
         i < j /\ inbox[c][i].kind = "deletion" /\ inbox[c][j].kind = "event" =>
           inbox[c][i].event # inbox[c][j].event

(* A subscription appends events that are held and deletions. *)
LEMMA SubscribeInOrder ==
  ASSUME TypeOK, InOrder, NEW c \in Communities, NEW topics, Subscribe(c, topics),
         UNCHANGED <<held, deleted, handled>>
  PROVE  InOrder'
<1> DEFINE s == Stored(c, topics)
           q == inbox[c]
<1>1. s \in Seq(Messages) /\ q \in Seq(Messages)
  BY StoredIs DEF TypeOK
<1>2. /\ inbox'[c] = q \o s
      /\ \A d \in Communities \ {c} : inbox'[d] = inbox[d]
  BY DEF Subscribe, TypeOK
<1>3. /\ Len(q) \in Nat /\ Len(s) \in Nat
      /\ Len(q \o s) = Len(q) + Len(s)
      /\ \A i \in 1..Len(q) + Len(s) : (q \o s)[i] = IF i <= Len(q) THEN q[i] ELSE s[i - Len(q)]
  BY <1>1, ConcatProperties, LenProperties
<1>4. \A i \in 1..Len(s) : /\ s[i].kind = "deletion" => s[i].event \in deleted[c]
                           /\ s[i].kind = "event" => s[i].event \in held[c]
  BY StoredIs
<1> HIDE DEF s
<1>5. \A i \in 1..Len(q \o s) :
        \/ i \in 1..Len(q) /\ (q \o s)[i] = q[i]
        \/ i > Len(q) /\ i - Len(q) \in 1..Len(s) /\ (q \o s)[i] = s[i - Len(q)]
  BY <1>3
<1> DEFINE t == q \o s
<1>6. \A i \in 1..Len(t) : /\ t[i].kind = "deletion" => t[i].event \in deleted[c]
                           /\ t[i].kind = "event" => t[i].event \notin handled[c]
  BY <1>4, <1>5 DEF InOrder
<1>7. ASSUME NEW i \in 1..Len(t), NEW j \in 1..Len(t), i < j, t[i].kind = "deletion", t[j].kind = "event"
      PROVE  t[i].event # t[j].event
  <2>1. CASE j \in 1..Len(q) /\ t[j] = q[j]
    <3>1. i \in 1..Len(q) /\ t[i] = q[i]
      BY <1>3, <1>5, <1>7, <2>1
    <3> QED
      BY <1>7, <2>1, <3>1 DEF InOrder
  <2>2. CASE j - Len(q) \in 1..Len(s) /\ t[j] = s[j - Len(q)]
    <3>1. t[j].event \in held[c]
      BY <1>4, <1>7, <2>2
    <3>2. t[i].event \in deleted[c]
      BY <1>6, <1>7
    <3> QED
      BY <3>1, <3>2 DEF InOrder
  <2> QED
    BY <1>5, <2>1, <2>2
<1> HIDE DEF t
<1>8. inbox'[c] = t
  BY <1>2 DEF t
<1> QED
  BY <1>2, <1>6, <1>7, <1>8 DEF InOrder

(* A new message. *)
LEMMA SendInOrder ==
  ASSUME TypeOK, InOrder, NEW c \in Communities, NEW topic, NEW m \in Messages, Send(c, topic, m),
         m.kind = "deletion" => m.event \in deleted'[c],
         m.kind = "event" => m.event \notin deleted[c],
         deleted[c] \subseteq deleted'[c], held'[c] \cap deleted'[c] = {},
         \A d \in Communities \ {c} : held'[d] = held[d] /\ deleted'[d] = deleted[d],
         UNCHANGED handled
  PROVE  InOrder'
<1> DEFINE q == inbox[c]
           t == Append(q, m)
<1>1. q \in Seq(Messages)
  BY DEF TypeOK
<1>2. /\ Len(q) \in Nat /\ Len(t) = Len(q) + 1
      /\ \A i \in 1..Len(t) : t[i] = IF i = Len(q) + 1 THEN m ELSE q[i]
  BY <1>1, AppendProperties, LenProperties
<1> HIDE DEF t
<1>3. \A i \in 1..Len(t) : /\ t[i].kind = "deletion" => t[i].event \in deleted'[c]
                           /\ t[i].kind = "event" => t[i].event \notin handled[c]
  <2> SUFFICES ASSUME NEW i \in 1..Len(t)
               PROVE  /\ t[i].kind = "deletion" => t[i].event \in deleted'[c]
                      /\ t[i].kind = "event" => t[i].event \notin handled[c]
    OBVIOUS
  <2>1. CASE i = Len(q) + 1
    BY <1>2, <2>1 DEF InOrder
  <2>2. CASE i \in 1..Len(q)
    BY <1>2, <2>2 DEF InOrder
  <2> QED
    BY <1>2, <2>1, <2>2
<1>4. ASSUME NEW i \in 1..Len(t), NEW j \in 1..Len(t), i < j, t[i].kind = "deletion", t[j].kind = "event"
      PROVE  t[i].event # t[j].event
  <2>1. i \in 1..Len(q) /\ t[i] = q[i]
    BY <1>2, <1>4
  <2>2. CASE j = Len(q) + 1
    BY <1>2, <1>4, <2>1, <2>2 DEF InOrder
  <2>3. CASE j \in 1..Len(q)
    BY <1>2, <1>4, <2>1, <2>3 DEF InOrder
  <2> QED
    BY <1>2, <2>2, <2>3
<1>5. \A d \in Communities \ {c} : inbox'[d] = inbox[d]
  BY DEF Send, TypeOK
<1>6. inbox'[c] = q \/ inbox'[c] = t
  BY DEF Send, TypeOK, t
<1> HIDE DEF q
<1>7. CASE inbox'[c] = t
  BY <1>3, <1>4, <1>5, <1>7 DEF InOrder
<1>8. CASE inbox'[c] = inbox[c]
  BY <1>5, <1>8 DEF InOrder
<1> QED
  BY <1>6, <1>7, <1>8 DEF q

(* A message is taken out; the event of a deletion counts as handled. *)
LEMMA HandleInOrder ==
  ASSUME TypeOK, InOrder, NEW c \in Communities, HandleEvent(c)
  PROVE  InOrder'
<1> DEFINE q == inbox[c]
           t == Tail(inbox[c])
           m == Head(inbox[c])
<1>1. q \in Seq(Messages) /\ q # <<>>
  BY DEF TypeOK, HandleEvent
<1>2. /\ Len(q) \in Nat /\ Len(q) > 0 /\ m = q[1]
      /\ Len(t) = Len(q) - 1
      /\ \A i \in 1..Len(t) : t[i] = q[i + 1]
  BY <1>1, EmptySeq, HeadTailProperties, LenProperties
<1>3. /\ inbox'[c] = t
      /\ \A d \in Communities \ {c} : inbox'[d] = inbox[d] /\ handled'[d] = handled[d]
      /\ handled'[c] = IF m.kind = "deletion" THEN handled[c] \cup {m.event} ELSE handled[c]
      /\ UNCHANGED <<held, deleted>>
  <2>1. /\ inbox'[c] = t /\ \A d \in Communities \ {c} : inbox'[d] = inbox[d]
        /\ UNCHANGED <<held, deleted>>
    BY DEF HandleEvent, TypeOK, upstreamVars
  <2>2. CASE m.kind = "event"
    <3>1. handled' = handled
      BY <2>2 DEF HandleEvent, AddEvent
    <3> QED
      BY <2>1, <2>2, <3>1
  <2>3. CASE m.kind # "event"
    <3> DEFINE rightful == IF m.kind = "deletion" THEN {m.event} ELSE {}
    <3>1. handled' = [handled EXCEPT ![c] = @ \cup rightful]
      BY <2>3 DEF HandleEvent
    <3>2. handled'[c] = handled[c] \cup rightful /\ \A d \in Communities \ {c} : handled'[d] = handled[d]
      BY <3>1 DEF TypeOK
    <3> QED
      BY <2>1, <3>2
  <2> QED
    BY <2>2, <2>3
<1> HIDE DEF t, m
<1>4. m.kind = "deletion" => m.event \in deleted[c]
  BY <1>2 DEF InOrder
<1>5. ASSUME NEW i \in 1..Len(t)
      PROVE  /\ t[i].kind = "deletion" => t[i].event \in deleted[c]
             /\ t[i].kind = "event" => t[i].event \notin handled'[c]
  <2>1. i + 1 \in 1..Len(q) /\ 1 \in 1..Len(q) /\ 1 < i + 1 /\ t[i] = q[i + 1]
    BY <1>2
  <2>2. /\ t[i].kind = "deletion" => t[i].event \in deleted[c]
        /\ t[i].kind = "event" => t[i].event \notin handled[c]
    BY <2>1 DEF InOrder
  <2>3. m.kind = "deletion" /\ t[i].kind = "event" => m.event # t[i].event
    BY <1>2, <2>1 DEF InOrder
  <2> QED
    BY <1>3, <2>2, <2>3
<1>6. ASSUME NEW i \in 1..Len(t), NEW j \in 1..Len(t), i < j, t[i].kind = "deletion", t[j].kind = "event"
      PROVE  t[i].event # t[j].event
  <2>1. i + 1 \in 1..Len(q) /\ j + 1 \in 1..Len(q) /\ i + 1 < j + 1
    BY <1>2, <1>6
  <2>2. t[i] = q[i + 1] /\ t[j] = q[j + 1]
    BY <1>2
  <2> QED
    BY <1>6, <2>1, <2>2 DEF InOrder
<1>7. handled'[c] \subseteq deleted[c]
  BY <1>3, <1>4 DEF InOrder
<1> QED
  BY <1>3, <1>5, <1>6, <1>7 DEF InOrder

(* Every step keeps the order. *)
LEMMA InOrderStep == TypeOK /\ InOrder /\ [Next]_vars => InOrder'
<1> SUFFICES ASSUME TypeOK, InOrder, [Next]_vars PROVE InOrder'
  OBVIOUS
<1>1. ASSUME NEW c \in Communities, Closed(c) PROVE InOrder'
  <2>1. /\ inbox'[c] = <<>> /\ \A d \in Communities \ {c} : inbox'[d] = inbox[d]
        /\ UNCHANGED <<held, deleted, handled>>
    BY <1>1 DEF Closed, TypeOK, upstreamVars, storeVars
  <2> QED
    BY <2>1, EmptySeq DEF InOrder
<1>2. ASSUME NEW c \in Communities, TimerFires(c) PROVE InOrder'
  <2>1. CASE proxy[c] = "up"
    BY <1>2, <2>1, SubscribeInOrder DEF TimerFires, upstreamVars, storeVars
  <2>2. CASE proxy[c] # "up"
    BY <1>2, <2>2 DEF TimerFires, upstreamVars, storeVars, InOrder
  <2> QED
    BY <2>1, <2>2
<1>3. ASSUME NEW c \in Communities, NEW channel \in Channels, SyncChannel(c, channel) PROVE InOrder'
  BY <1>3, SubscribeInOrder DEF SyncChannel, upstreamVars, storeVars
<1>4. ASSUME NEW c \in Communities, NEW e \in Events, UpstreamTakes(c, e) PROVE InOrder'
  <2> DEFINE m == [kind |-> "event", event |-> e]
  <2>1. m \in Messages /\ m.kind = "event" /\ m.event \notin deleted[c]
    BY <1>4 DEF UpstreamTakes, Messages
  <2>2. held'[c] \cap deleted'[c] = {} /\ deleted' = deleted /\ handled' = handled
    BY <1>4 DEF UpstreamTakes, InOrder, TypeOK, storeVars
  <2>3. \A d \in Communities \ {c} : held'[d] = held[d]
    BY <1>4 DEF UpstreamTakes, TypeOK
  <2>4. Send(c, Topic[e], m)
    BY <1>4 DEF UpstreamTakes
  <2> HIDE DEF m
  <2> QED
    BY <2>1, <2>2, <2>3, <2>4, SendInOrder
<1>5. ASSUME NEW c \in Communities, NEW e \in Events, UpstreamDeletes(c, e) PROVE InOrder'
  <2> DEFINE m == [kind |-> "deletion", event |-> e]
  <2>1. m \in Messages /\ m.kind = "deletion" /\ m.event \in deleted'[c]
    BY <1>5 DEF UpstreamDeletes, Messages, TypeOK
  <2>2. held'[c] \cap deleted'[c] = {} /\ deleted[c] \subseteq deleted'[c] /\ handled' = handled
    BY <1>5 DEF UpstreamDeletes, InOrder, TypeOK, storeVars
  <2>3. \A d \in Communities \ {c} : held'[d] = held[d] /\ deleted'[d] = deleted[d]
    BY <1>5 DEF UpstreamDeletes, TypeOK
  <2>4. Send(c, "deletion", m)
    BY <1>5 DEF UpstreamDeletes
  <2> HIDE DEF m
  <2> QED
    BY <2>1, <2>2, <2>3, <2>4, SendInOrder
<1>6. ASSUME NEW c \in Communities, NEW e \in Events, UpstreamDisputes(c, e) PROVE InOrder'
  <2> DEFINE m == [kind |-> "foreign", event |-> e]
  <2>1. m \in Messages /\ m.kind = "foreign"
    BY DEF Messages
  <2>2. held'[c] \cap deleted'[c] = {} /\ UNCHANGED <<held, deleted, handled>>
    BY <1>6 DEF UpstreamDisputes, InOrder, storeVars
  <2>3. Send(c, "deletion", m)
    BY <1>6 DEF UpstreamDisputes
  <2> HIDE DEF m
  <2> QED
    BY <2>1, <2>2, <2>3, SendInOrder
<1>7. ASSUME NEW c \in Communities, HandleEvent(c) PROVE InOrder'
  BY <1>7, HandleInOrder
<1>8. CASE UNCHANGED <<held, deleted, inbox, handled>>
  BY <1>8 DEF InOrder
<1> QED
  BY <1>1, <1>2, <1>3, <1>4, <1>5, <1>6, <1>7, <1>8 DEF Next, ClientPublishes, DefinitionStored,
     HandleConnection, Listening, Connected, SubscriptionClosed, NodeStores, ClearDatabase,
     upstreamVars, storeVars, vars

(* What was deleted does not come back. *)
LEMMA DeletedStep ==
  ASSUME TypeOK, ViewInv, InOrder, DeletedStaysGone, [Next]_vars
  PROVE  DeletedStaysGone'
<1> USE DEF DeletedStaysGone, Visible
<1>1. ASSUME NEW c \in Communities, HandleEvent(c) PROVE DeletedStaysGone'
  <2> DEFINE m == Head(inbox[c])
             e == m.event
  <2>1. CASE m.kind # "event"
    <3> DEFINE E == IF m.kind = "deletion" THEN {e} \cap Visible(c) ELSE {}
               rightful == IF m.kind = "deletion" THEN {e} ELSE {}
    <3>1. /\ handled' = [handled EXCEPT ![c] = @ \cup rightful]
          /\ labels' = {l \in labels : l[1] \notin E}
          /\ store' = store \ E
      BY <1>1, <2>1 DEF HandleEvent, Deletes, RemoveEvents, LabelsWithout
    <3>2. \A d \in Communities : Visible(d)' \subseteq Visible(d)
      BY <3>1
    <3>3. \A f \in rightful : f \notin Visible(c)'
      BY <3>1
    <3> QED
      BY <3>1, <3>2, <3>3 DEF TypeOK
  <2>2. CASE m.kind = "event"
    <3>1. AddEvent(c, e)
      BY <1>1, <2>2 DEF HandleEvent
    <3>2. /\ handled' = handled
          /\ store' = store \cup {e} /\ labels' = labels \cup {<<e, c>>}
      BY <3>1 DEF AddEvent, HasLabel
    <3>3. \A d \in Communities : Visible(d)' \subseteq IF d = c THEN Visible(d) \cup {e} ELSE Visible(d)
      BY <3>2 DEF ViewInv
    <3>4. e \notin handled[c]
      <4>1. inbox[c] \in Seq(Messages) /\ inbox[c] # <<>>
        BY <1>1 DEF HandleEvent, TypeOK
      <4>2. 1 \in 1..Len(inbox[c]) /\ m = inbox[c][1]
        BY <4>1, EmptySeq
      <4> QED
        BY <2>2, <4>2 DEF InOrder
    <3> QED
      BY <3>2, <3>3, <3>4
  <2> QED
    BY <2>1, <2>2
<1>2. ASSUME NEW e \in Events, NodeStores(e) PROVE DeletedStaysGone'
  BY <1>2 DEF NodeStores, ViewInv
<1>3. CASE ClearDatabase
  BY <1>3 DEF ClearDatabase
<1>4. CASE UNCHANGED <<store, labels, handled>>
  BY <1>4
<1> QED
  BY <1>1, <1>2, <1>3, <1>4 DEF Next, ClientPublishes, DefinitionStored, HandleConnection, Listening,
     Connected, Closed, TimerFires, SyncChannel, SubscriptionClosed, UpstreamTakes, UpstreamDeletes, UpstreamDisputes,
     storeVars, vars

(* What a community has deleted is not shown to its clients again, be it   *)
(* stored again by another community or by the node                        *)
(* (community-proxy.ts 110-120, labeled-event-store.ts 71-74).             *)
THEOREM DeletionsHold == Spec => []DeletedStaysGone
<1>1. Init => InOrder /\ DeletedStaysGone
  BY EmptySeq DEF Init, InOrder, DeletedStaysGone, Nothing
<1> QED
  BY <1>1, ViewInit, ViewStep, TypeInit, TypeStep, InOrderStep, DeletedStep, PTL DEF Spec

-----------------------------------------------------------------------------
(* Synchronisation *)

(* A connected community has asked for metadata and deletions, or its      *)
(* timer is going to.                                                      *)
SyncIsDue ==
  \A c \in Communities :
    proxy[c] = "up" => timer[c] \/ {"metadata", "deletion"} \subseteq asked[c]

(* No connection is made without setting the timer, and the timer is not   *)
(* spent in vain on a connection that stands: what SyncStarts asks of the  *)
(* timer's fairness is all that it needs (community-proxy.ts 84-92).       *)
THEOREM SyncIsNeverForgotten == Spec => []SyncIsDue
<1>1. Init => SyncIsDue
  BY DEF Init, SyncIsDue
<1>2. TypeOK /\ SyncIsDue /\ [Next]_vars => SyncIsDue'
  <2> SUFFICES ASSUME TypeOK, SyncIsDue, [Next]_vars PROVE SyncIsDue'
    OBVIOUS
  <2> USE DEF SyncIsDue, TypeOK
  <2>1. ASSUME NEW c \in Communities, HandleConnection(c) PROVE SyncIsDue'
    BY <2>1 DEF HandleConnection, IsFirst, ConnectUpstream, SetTimer, Elapses, subVars
  <2>2. ASSUME NEW c \in Communities, Listening(c) PROVE SyncIsDue'
    BY <2>2 DEF Listening, subVars
  <2>3. ASSUME NEW c \in Communities, Connected(c) PROVE SyncIsDue'
    BY <2>3 DEF Connected, SetTimer, Elapses, subVars
  <2>4. ASSUME NEW c \in Communities, Closed(c) PROVE SyncIsDue'
    BY <2>4 DEF Closed
  <2>5. ASSUME NEW c \in Communities, TimerFires(c) PROVE SyncIsDue'
    BY <2>5 DEF TimerFires, Subscribe
  <2>6. ASSUME NEW c \in Communities, NEW channel \in Channels, SyncChannel(c, channel) PROVE SyncIsDue'
    BY <2>6 DEF SyncChannel, Subscribe, linkVars
  <2>7. CASE UNCHANGED <<proxy, timer, asked>>
    BY <2>7
  <2> QED
    BY <2>1, <2>2, <2>3, <2>4, <2>5, <2>6, <2>7 DEF Next, ClientPublishes, DefinitionStored,
       SubscriptionClosed, Send, UpstreamTakes, UpstreamDeletes, UpstreamDisputes, HandleEvent, NodeStores, ClearDatabase,
       linkVars, subVars, vars
<1> QED
  BY <1>1, <1>2, TypeInit, TypeStep, PTL DEF Spec
=============================================================================
