--------------------------- MODULE Notifications ---------------------------
(***************************************************************************)
(* Push notifications (src/modules/notifications-manager.ts and            *)
(* control/notification-actions.ts).  Browsers register and unregister at  *)
(* any time; a direct message to the owner starts a round, which pushes to *)
(* one subscription after the other and removes those that fail.           *)
(***************************************************************************)
EXTENDS Naturals, Sequences, SequencesExt, Functions

CONSTANTS
  Keys,     \* p256dh keys of browsers
  DMs,      \* ids of direct messages
  MaxMade   \* bound of the model on registrations

VARIABLES
  subscriptions,  \* state.data.subscriptions, an array
  made,           \* how many subscriptions were registered
  round,          \* per message what its notify() has left, the head in flight
  owed,           \* the array its notify() began with (history variable)
  pushed          \* the pushes it made and finished (history variable)

(* A browser that registers again is another subscription of its key. *)
Subscriptions == [key : Keys, nr : 1..MaxMade]

NotRead == <<[key |-> "none", nr |-> 0]>>

TypeOK ==
  /\ subscriptions \in Seq(Subscriptions)
  /\ made \in 0..MaxMade
  /\ round \in [DMs -> Seq(Subscriptions)]
  /\ owed \in [DMs -> {NotRead} \cup Seq(Subscriptions)]
  /\ pushed \in [DMs -> Seq(Subscriptions)]

Init ==
  /\ subscriptions = <<>>
  /\ made = 0
  /\ round = [m \in DMs |-> <<>>]
  /\ owed = [m \in DMs |-> NotRead]
  /\ pushed = [m \in DMs |-> <<>>]

Registered(key) == \E i \in DOMAIN subscriptions : subscriptions[i].key = key

(* REGISTER: nothing happens if the key is registered. *)
RegisterSubscription(key) ==
  /\ ~ Registered(key)
  /\ made < MaxMade
  /\ made' = made + 1
  /\ subscriptions' = Append(subscriptions, [key |-> key, nr |-> made'])
  /\ UNCHANGED <<round, owed, pushed>>

Without_Hole(key) ==
  [i \in DOMAIN subscriptions |-> IF subscriptions[i].key = key THEN NotRead[1] ELSE subscriptions[i]]

(* filter() as a fold: the provers know nothing of SelectSeq. *)
Without(key) ==
  FoldLeft(LAMBDA kept, s : IF s.key = key THEN kept ELSE Append(kept, s), <<>>, subscriptions)

(* UNREGISTER *)
UnregisterSubscription(key) ==
  /\ subscriptions' = Without(key)
  /\ UNCHANGED <<made, round, owed, pushed>>

(* handleEvent() of a message to the owner sent after the node started:    *)
(* notify() iterates the array of now, which is replaced and not changed   *)
(* by later registrations.                                                 *)
HandleEvent(m) ==
  /\ owed[m] = NotRead
  /\ owed' = [owed EXCEPT ![m] = subscriptions]
  /\ round' = [round EXCEPT ![m] = subscriptions]
  /\ UNCHANGED <<subscriptions, made, pushed>>

Left_LiveArray(m, ok) ==
  IF ok \/ Len(round[m]) = 1 THEN Tail(round[m]) ELSE Tail(Tail(round[m]))

Left(m, ok) == Tail(round[m])

(* The push in flight succeeds, or fails and unregisters its key. *)
PushEnds(m, ok) ==
  /\ round[m] # <<>>
  /\ round' = [round EXCEPT ![m] = Left(m, ok)]
  /\ pushed' = [pushed EXCEPT ![m] = Append(@, Head(round[m]))]
  /\ subscriptions' = IF ok THEN subscriptions ELSE Without(Head(round[m]).key)
  /\ UNCHANGED <<made, owed>>

Next ==
  \/ \E key \in Keys : RegisterSubscription(key) \/ UnregisterSubscription(key)
  \/ \E m \in DMs : HandleEvent(m) \/ \E ok \in BOOLEAN : PushEnds(m, ok)

-----------------------------------------------------------------------------
(* Properties                                                              *)

(* A message is pushed to every browser registered when it came, and once, *)
(* whatever registers, unregisters or fails while the round goes on        *)
(* (notifications-manager.ts 37-46, 62-76).                                *)
EveryBrowserOnce ==
  \A m \in DMs : owed[m] # NotRead =>
    /\ pushed[m] \o round[m] = owed[m]
    /\ \A i, j \in DOMAIN owed[m] : owed[m][i].key = owed[m][j].key => i = j
=============================================================================
