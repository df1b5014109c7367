------------------------------- MODULE Loader -------------------------------
(***************************************************************************)
(* What a book of the node (AddressBook, ContactBook, ProfileBook)         *)
(* promises to the code that loads an author's newest event from it:       *)
(* a load of a known author is answered at once with what is known, and    *)
(* all the loads that wait for one author are answered together, with what *)
(* is known at that moment (or with NoEvent when nothing is).              *)
(* Module Book implements this with a queue, a batch and a timer.          *)
(***************************************************************************)
EXTENDS Naturals

CONSTANTS
  Pubkeys,   \* authors whose event can be asked for
  Callers,   \* async functions that await a load
  MaxTime,   \* largest created_at
  NoKey      \* the value of awaits for a caller that awaits nothing

VARIABLES
  known,     \* created_at of the event a load of the author returns, or NoEvent
  awaits,    \* author each caller is waiting for, or NoKey
  got        \* last answer of each caller

vars == <<known, awaits, got>>

NoEvent == 0

Init ==
  /\ known = [p \in Pubkeys |-> NoEvent]
  /\ awaits = [c \in Callers |-> NoKey]
  /\ got = [c \in Callers |-> NoEvent]

(* A load of a known author returns at once. *)
AskKnown(c, p) ==
  /\ awaits[c] = NoKey
  /\ known[p] # NoEvent
  /\ got' = [got EXCEPT ![c] = known[p]]
  /\ UNCHANGED <<known, awaits>>

(* A load of an unknown author waits. *)
AskUnknown(c, p) ==
  /\ awaits[c] = NoKey
  /\ known[p] = NoEvent
  /\ awaits' = [awaits EXCEPT ![c] = p]
  /\ UNCHANGED <<known, got>>

(* Every caller that waits for an author of P is answered, all at once. *)
Settle(P) ==
  /\ got' = [c \in Callers |-> IF awaits[c] \in P THEN known[awaits[c]] ELSE got[c]]
  /\ awaits' = [c \in Callers |-> IF awaits[c] \in P THEN NoKey ELSE awaits[c]]
  /\ UNCHANGED known

(* Relays, the receiver and the owner change what is known at any time. *)
Learn ==
  /\ known' \in [Pubkeys -> 0..MaxTime]
  /\ UNCHANGED <<awaits, got>>

Next ==
  \/ \E c \in Callers, p \in Pubkeys : AskKnown(c, p) \/ AskUnknown(c, p)
  \/ \E P \in SUBSET Pubkeys : Settle(P)
  \/ Learn

Spec == Init /\ [][Next]_vars
=============================================================================
