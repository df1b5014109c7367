------------------------------- MODULE MCNode -------------------------------
(***************************************************************************)
(* Three parts of the node that share no state: push notifications, the    *)
(* pool of relays and the social graph.  Init chooses the part that runs,  *)
(* so that TLC explores them one beside the other and not their product.   *)
(***************************************************************************)
EXTENDS Naturals, FiniteSets

CONSTANTS part1, part2, part3,
  Keys, DMs, MaxMade,  \* see Notifications
  Relays, Self,        \* see Pool
  People, MaxTime      \* see Graph

(* The events, and so the people, are finitely many. *)
ASSUME NodeAssumption ==
  /\ MaxMade \in Nat
  /\ MaxTime \in Nat
  /\ IsFiniteSet(People)

VARIABLES
  part,
  subscriptions, made, round, owed, pushed,
  conn, hooked, blacklist, challenges, subscribed, reported, found,
  contacts

N == INSTANCE Notifications
P == INSTANCE Pool
G == INSTANCE Graph

notificationVars == <<subscriptions, made, round, owed, pushed>>
poolVars == <<conn, hooked, blacklist, challenges, subscribed, reported, found>>
vars == <<part, notificationVars, poolVars, contacts>>

Init ==
  /\ part \in {part1, part2, part3}
  /\ N!Init
  /\ P!Init
  /\ G!Init

Next ==
  /\ UNCHANGED part
  /\ \/ part = part1 /\ N!Next /\ UNCHANGED <<poolVars, contacts>>
     \/ part = part2 /\ P!Next /\ UNCHANGED <<notificationVars, contacts>>
     \/ part = part3 /\ G!Next /\ UNCHANGED <<notificationVars, poolVars>>

Spec == Init /\ [][Next]_vars

(* Every variable has its type. *)
TypeOK == N!TypeOK /\ P!TypeOK /\ G!TypeOK

(* A message is pushed once to every browser registered when it came.      *)
EveryBrowserOnce == N!EveryBrowserOnce

(* The node leaves its own relay for good once it has recognised it.       *)
SelfStaysOut == P!SelfStaysOut

(* The social graph's nodes are who is followed in two steps.              *)
NodesAreFollowed == G!NodesAreFollowed
=============================================================================
