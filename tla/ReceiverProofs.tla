---------------------------- MODULE ReceiverProofs ----------------------------
(***************************************************************************)
(* Proofs about module Receiver, for any authors, relays, events, control  *)
(* connections and number of starts.                                       *)
(***************************************************************************)
EXTENDS Receiver, TLAPS

(* AddedOnce, with what `seen` says of it. *)
AddedIffSeen == \A e \in Events : added[e] = IF e \in seen THEN 1 ELSE 0

(* A start that awaits mailboxes is going to ask for the owner. *)
OwnerIsFollowed == \A i \in Starts : phase[i] = "mailboxes" => Owner \in following[i]

IInv == TypeOK /\ StatusReported /\ AddedIffSeen /\ OwnerIsFollowed

(* The initial states satisfy it. *)
LEMMA InitIInv == Init => IInv
<1> SUFFICES ASSUME Init
             PROVE  IInv
  OBVIOUS
<1>1. TypeOK
  BY DEF Init, TypeOK
<1> QED
  BY <1>1 DEF Init, IInv, StatusReported, AddedIffSeen, OwnerIsFollowed

(* The relays of an author. *)
LEMMA OutboxesType ==
  ASSUME TypeOK, NEW p \in Authors
  PROVE  OutboxesOf(p) \subseteq Urls /\ OutboxesOf(p) # {}
BY ReceiverAssumption DEF TypeOK, OutboxesOf

(* The map that start() builds goes from urls to authors. *)
LEMMA OutboxMapType ==
  ASSUME TypeOK, NEW ps \in SUBSET Authors
  PROVE  /\ DOMAIN OutboxMap(ps) \subseteq Urls
         /\ \A u \in DOMAIN OutboxMap(ps) : OutboxMap(ps)[u] \in SUBSET Authors
         /\ \A p \in ps : \E u \in DOMAIN OutboxMap(ps) : p \in OutboxMap(ps)[u]
BY OutboxesType DEF OutboxMap

(* A start that ends has a connection for the owner, and types are kept.   *)
LEMMA StartFinishesStep ==
  ASSUME IInv, NEW i \in Starts, StartFinishes(i)
  PROVE  /\ IInv'
         /\ \E c \in connections' :
              /\ Owner \in c.authors /\ c.start = i
              /\ c.url \in DOMAIN scrapers' /\ scrapers'[c.url] = i
<1> DEFINE map == OutboxMap(following[i])
<1>1. /\ DOMAIN map \subseteq Urls
      /\ \A u \in DOMAIN map : map[u] \in SUBSET Authors
      /\ \A p \in following[i] : \E u \in DOMAIN map : p \in map[u]
  <2>1. following[i] \in SUBSET Authors
    BY DEF IInv, TypeOK
  <2> QED
    BY <2>1, OutboxMapType DEF IInv
<1>2. /\ phase[i] = "mailboxes"
      /\ phase' = [phase EXCEPT ![i] = "done"]
      /\ scrapers' = [u \in DOMAIN scrapers \cup DOMAIN map |->
                        IF u \in DOMAIN map THEN i ELSE scrapers[u]]
      /\ connections' = connections \cup
           {[url |-> u, start |-> i, authors |-> map[u]] : u \in DOMAIN map}
      /\ StatusChanged(active)
      /\ UNCHANGED <<active, following, loadVars, eventVars, subscribed>>
  BY DEF StartFinishes
<1> HIDE DEF map
<1>3. TypeOK'
  <2>1. connections' \in SUBSET Scraper
    BY <1>1, <1>2 DEF IInv, TypeOK, Scraper
  <2>2. DOMAIN scrapers' \subseteq Urls /\ scrapers' \in [DOMAIN scrapers' -> Starts]
    BY <1>1, <1>2 DEF IInv, TypeOK
  <2>3. told' \in [Socks -> BOOLEAN]
    BY <1>2 DEF IInv, TypeOK, StatusChanged
  <2> QED
    BY <1>2, <2>1, <2>2, <2>3 DEF IInv, TypeOK, loadVars, eventVars
<1>4. StatusReported'
  BY <1>2 DEF IInv, TypeOK, StatusReported, StatusChanged
<1>5. AddedIffSeen' /\ OwnerIsFollowed'
  BY <1>2 DEF IInv, TypeOK, AddedIffSeen, OwnerIsFollowed, eventVars
<1>6. \E c \in connections' :
        /\ Owner \in c.authors /\ c.start = i
        /\ c.url \in DOMAIN scrapers' /\ scrapers'[c.url] = i
  <2>1. Owner \in following[i]
    BY <1>2 DEF IInv, OwnerIsFollowed
  <2>2. PICK u \in DOMAIN map : Owner \in map[u]
    BY <1>1, <2>1
  <2>3. [url |-> u, start |-> i, authors |-> map[u]] \in connections'
    BY <1>2, <2>2
  <2>4. u \in DOMAIN scrapers' /\ scrapers'[u] = i
    BY <1>2, <2>2
  <2> QED
    BY <2>2, <2>3, <2>4
<1> QED
  BY <1>3, <1>4, <1>5, <1>6 DEF IInv

(* Every step keeps it. *)
LEMMA NextIInv == IInv /\ [Next]_vars => IInv'
<1> SUFFICES ASSUME IInv, [Next]_vars
             PROVE  IInv'
  OBVIOUS
<1> USE DEF startVars, loadVars, eventVars, controlVars
<1>1. ASSUME NEW i \in Starts, StartBegins(i)
      PROVE  IInv'
  <2>1. TypeOK'
    BY <1>1 DEF StartBegins, IInv, TypeOK
  <2>2. Starting'
    BY <1>1 DEF StartBegins, IInv, TypeOK, Starting
  <2>3. AddedIffSeen' /\ OwnerIsFollowed'
    BY <1>1 DEF StartBegins, IInv, TypeOK, AddedIffSeen, OwnerIsFollowed
  <2> QED
    BY <2>1, <2>2, <2>3 DEF IInv, StatusReported
<1>2. ASSUME NEW i \in Starts, ContactsLoaded(i)
      PROVE  IInv'
  <2>1. FollowedPubkeys \in SUBSET Authors /\ Owner \in FollowedPubkeys
    BY ReceiverAssumption DEF FollowedPubkeys, IInv, TypeOK
  <2>2. TypeOK'
    BY <1>2, <2>1 DEF ContactsLoaded, IInv, TypeOK
  <2>3. Starting'
    BY <1>2 DEF ContactsLoaded, IInv, TypeOK, Starting
  <2>4. AddedIffSeen' /\ OwnerIsFollowed'
    BY <1>2, <2>1 DEF ContactsLoaded, IInv, TypeOK, AddedIffSeen, OwnerIsFollowed
  <2> QED
    BY <2>2, <2>3, <2>4 DEF IInv, StatusReported
<1>3. ASSUME NEW i \in Starts, StartFinishes(i)
      PROVE  IInv'
  BY <1>3, StartFinishesStep
<1>4. CASE Stop
  <2>1. connections' = connections
    BY <1>4 DEF Stop, Cleaned
  <2>2. TypeOK'
    BY <1>4, <2>1 DEF Stop, StatusChanged, IInv, TypeOK
  <2>3. StatusReported' /\ AddedIffSeen' /\ OwnerIsFollowed'
    BY <1>4 DEF Stop, StatusChanged, IInv, TypeOK, StatusReported, AddedIffSeen, OwnerIsFollowed
  <2> QED
    BY <2>2, <2>3 DEF IInv
<1>5. ASSUME NEW k \in Socks, Subscribe(k) \/ Unsubscribe(k) \/ Status(k)
      PROVE  IInv'
  <2>1. TypeOK'
    BY <1>5 DEF Subscribe, Unsubscribe, Status, IInv, TypeOK
  <2>2. Starting' = Starting
    BY <1>5 DEF Subscribe, Unsubscribe, Status, Starting
  <2>3. StatusReported' /\ AddedIffSeen' /\ OwnerIsFollowed'
    BY <1>5, <2>2 DEF Subscribe, Unsubscribe, Status, IInv, TypeOK, StatusReported,
                      AddedIffSeen, OwnerIsFollowed
  <2> QED
    BY <2>1, <2>3 DEF IInv
<1>6. ASSUME NEW c \in connections, NEW e \in Events, EventArrives(c, e)
      PROVE  IInv'
  BY <1>6 DEF EventArrives, IInv, TypeOK, StatusReported, Starting,
              AddedIffSeen, OwnerIsFollowed, Fresh
<1>7. ASSUME NEW c \in connections, ConnectionLost(c)
      PROVE  IInv'
  BY <1>7 DEF ConnectionLost, IInv, TypeOK, StatusReported, Starting, AddedIffSeen,
              OwnerIsFollowed
<1>8. CASE LearnContacts \/ \E p \in Authors : LearnOutboxes(p)
  BY <1>8 DEF LearnContacts, LearnOutboxes, IInv, TypeOK, StatusReported, Starting,
              AddedIffSeen, OwnerIsFollowed
<1>9. CASE UNCHANGED vars
  BY <1>9 DEF vars, IInv, TypeOK, StatusReported, Starting, AddedIffSeen, OwnerIsFollowed
<1> QED
  BY <1>1, <1>2, <1>3, <1>4, <1>5, <1>6, <1>7, <1>8, <1>9 DEF Next

(* The inductive invariant is one. *)
LEMMA Invariance == Spec => []IInv
BY InitIInv, NextIInv, PTL DEF Spec

(* Every variable of the receiver keeps its type. *)
THEOREM TypeCorrect == Spec => []TypeOK
<1>1. IInv => TypeOK
  BY DEF IInv
<1> QED
  BY <1>1, Invariance, PTL

(* Subscribers are told the status, whatever starts and stops overlap. *)
THEOREM SubscribersAreTold == Spec => []StatusReported
<1>1. IInv => StatusReported
  BY DEF IInv
<1> QED
  BY <1>1, Invariance, PTL

(* An event is added once, however many scrapers of however many starts.   *)
THEOREM EventsAddedOnce == Spec => []AddedOnce
<1>1. IInv => AddedOnce
  BY DEF IInv, AddedIffSeen, AddedOnce
<1> QED
  BY <1>1, Invariance, PTL

(* Every start that ends asks for the owner's events. *)
THEOREM OwnerAlwaysAskedFor == Spec => OwnerIsAskedFor
<1> DEFINE Asked(i) == \E c \in connections' :
             /\ Owner \in c.authors /\ c.start = i
             /\ c.url \in DOMAIN scrapers' /\ scrapers'[c.url] = i
<1>1. IInv /\ [Next]_vars => \A i \in Starts : phase[i] = "mailboxes" /\ phase'[i] = "done" => Asked(i)
  <2> SUFFICES ASSUME IInv, [Next]_vars, NEW i \in Starts,
                      phase[i] = "mailboxes", phase'[i] = "done"
               PROVE  Asked(i)
    OBVIOUS
  <2>1. CASE StartFinishes(i)
    BY <2>1, StartFinishesStep
  <2>2. ASSUME NEW j \in Starts, j # i, StartFinishes(j)
        PROVE  FALSE
    BY <2>2 DEF StartFinishes, IInv, TypeOK
  <2>3. ASSUME NEW j \in Starts, StartBegins(j) \/ ContactsLoaded(j)
        PROVE  FALSE
    BY <2>3 DEF StartBegins, ContactsLoaded, IInv, TypeOK
  <2>4. phase' # phase
    OBVIOUS
  <2> QED
    BY <2>1, <2>2, <2>3, <2>4 DEF Next, vars, startVars, Stop, Subscribe, Unsubscribe, Status,
       EventArrives, ConnectionLost, LearnContacts, LearnOutboxes
<1> QED
  BY <1>1, Invariance, PTL DEF Spec, OwnerIsAskedFor
===============================================================================
