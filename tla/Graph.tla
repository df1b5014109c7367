------------------------------- MODULE Graph -------------------------------
(***************************************************************************)
(* The social graph (src/modules/graph/index.ts): the newest contact list  *)
(* of each person, and who can be reached from some roots in two steps.    *)
(***************************************************************************)
EXTENDS Naturals, FiniteSets, FiniteSetsExt

CONSTANTS
  People,  \* pubkeys
  MaxTime  \* bound of the model on created_at

VARIABLE contacts  \* Graph.contacts; created_at is 0 of who has no list

Lists == [created_at : 0..MaxTime, set : SUBSET People]

TypeOK == contacts \in [People -> Lists]

Init == contacts = [p \in People |-> [created_at |-> 0, set |-> {}]]

(* addContacts(), of stored events in any order. *)
AddContacts(p, list) ==
  /\ contacts[p].created_at < list.created_at
  /\ contacts' = [contacts EXCEPT ![p] = list]

Next == \E p \in People, list \in Lists : AddContacts(p, list)

-----------------------------------------------------------------------------
(* getNodes()                                                              *)

(* A contact at distance z: a new node, or one more occurrence. *)
Occurs(u, c, z) ==
  IF c \notin DOMAIN u
    THEN [d \in DOMAIN u \cup {c} |-> IF d = c THEN [z |-> z, n |-> 1] ELSE u[d]]
  ELSE IF u[c].z > z THEN u
  ELSE [u EXCEPT ![c].n = @ + 1]

(* populate(): nobody counts for following himself. *)
Populate(u, pubkeys, z) ==
  LET follows == {e \in pubkeys \X People : e[2] \in contacts[e[1]].set /\ e[1] # e[2]}
  IN  FoldSet(LAMBDA e, nodes : Occurs(nodes, e[2], z), u, follows)

Followed_RootsToo(u) == DOMAIN u

(* The people of the second pass. *)
Followed(u) == {p \in DOMAIN u : u[p].z > 0}

(* The nodes, without their order. *)
GetNodes(roots) ==
  LET first == Populate([p \in roots |-> [z |-> 0, n |-> 1]], roots, 1)
  IN  Populate(first, Followed(first), 2)

-----------------------------------------------------------------------------
(* Properties                                                              *)

FollowersOf(c, S) == {p \in S \ {c} : c \in contacts[p].set}

(* The nodes are the roots and who is at most two steps away, each with    *)
(* the least number of steps, and with the number of roots and of people   *)
(* one step away that follow it, a root with one more                      *)
(* (graph/index.ts 47-104).                                                *)
NodesAreFollowed ==
  \A roots \in SUBSET People :
    LET near  == {c \in People \ roots : FollowersOf(c, roots) # {}}
        far   == {c \in People \ (roots \cup near) : FollowersOf(c, near) # {}}
        steps(c) == IF c \in roots THEN 0 ELSE IF c \in near THEN 1 ELSE 2
        count(c) == Cardinality(FollowersOf(c, roots \cup near)) + IF c \in roots THEN 1 ELSE 0
    IN  GetNodes(roots) = [c \in roots \cup near \cup far |-> [z |-> steps(c), n |-> count(c)]]
=============================================================================
