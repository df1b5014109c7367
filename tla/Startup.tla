------------------------------- MODULE Startup -------------------------------
(***************************************************************************)
(* Receiver.start() on top of the books: a start loads the owner's contact *)
(* list from the ContactBook, then asks the AddressBook for the mailboxes  *)
(* of everyone it follows, in one synchronous map, and awaits all the      *)
(* answers.  Both books are module Book; their callers are the loads of    *)
(* each start.                                                             *)
(*                                                                         *)
(* JavaScript runs to completion: while a start is calling, nothing else   *)
(* happens.  The source lines are those of src/modules/receiver/index.ts.  *)
(***************************************************************************)
EXTENDS Naturals, FiniteSets

CONSTANTS
  Authors,      \* pubkeys that may be followed, and the owner
  Owner,
  Relays,
  ExtraRelays,  \* COMMON_CONTACT_RELAYS, passed with every load as well
  MaxTime,      \* bound of the model on created_at
  NoAuthor,
  MaxStarts     \* bound of the model: calls of start() that get past line 36

ASSUME StartupAssumption ==
  /\ Owner \in Authors
  /\ NoAuthor \notin Authors
  /\ ExtraRelays \subseteq Relays
  /\ ExtraRelays # {}
  /\ MaxTime \in Nat \ {0}

VARIABLES
  \* the address book
  store, cache, next, fetching, pending, throttle, open, awaits, got,
  \* the contact book
  cStore, cCache, cNext, cFetching, cPending, cThrottle, cOpen, cAwaits, cGot,
  \* the receiver
  active,       \* this.status.active
  phase,        \* what each call of start() does or awaits
  following,    \* the authors it follows
  called        \* those whose mailboxes it has asked for

bookVars == <<store, cache, next, fetching, pending, throttle, open, awaits, got>>
contactVars ==
  <<cStore, cCache, cNext, cFetching, cPending, cThrottle, cOpen, cAwaits, cGot>>
startVars == <<active, phase, following, called>>
vars == <<bookVars, contactVars, startVars>>

Starts == 1..MaxStarts

AddressBook == INSTANCE Book WITH
  Pubkeys <- Authors,
  Callers <- Starts \X Authors,
  Hints <- {ExtraRelays},
  NoKey <- NoAuthor

(* Its callers are the starts, and it is asked for the owner only. *)
ContactBook == INSTANCE Book WITH
  Pubkeys <- {Owner},
  Callers <- Starts,
  Hints <- {{}},
  NoKey <- NoAuthor,
  store <- cStore, cache <- cCache, next <- cNext, fetching <- cFetching,
  pending <- cPending, throttle <- cThrottle, open <- cOpen, awaits <- cAwaits, got <- cGot

(* Every variable has its type. *)
TypeOK ==
  /\ AddressBook!TypeOK
  /\ ContactBook!TypeOK
  /\ active \in BOOLEAN
  /\ phase \in [Starts -> {"unused", "contacts", "calling", "mailboxes", "done"}]
  /\ following \in [Starts -> SUBSET Authors]
  /\ called \in [Starts -> SUBSET Authors]

Init ==
  /\ AddressBook!Init
  /\ ContactBook!Init
  /\ active = FALSE
  /\ phase = [i \in Starts |-> "unused"]
  /\ following = [i \in Starts |-> {}]
  /\ called = [i \in Starts |-> {}]

(* The call stack is empty. *)
Idle == \A i \in Starts : phase[i] # "calling"

(* Lines 35-42: the owner's contacts are asked for. *)
StartBegins(i) ==
  /\ Idle
  /\ ~ active
  /\ phase[i] = "unused"
  /\ \A j \in Starts : j < i => phase[j] # "unused"
  /\ active' = TRUE
  /\ phase' = [phase EXCEPT ![i] = "contacts"]
  /\ \/ ContactBook!LoadKnown(i, Owner)
     \/ ContactBook!LoadJoins(i, Owner)
     \/ ContactBook!LoadQueues(i, Owner, {})
  /\ UNCHANGED <<bookVars, following, called>>

(* Lines 45-48: the pubkeys of the contact list, if there is one, and the  *)
(* owner.                                                                  *)
FollowedPubkeys ==
  IF ContactBook!GetEvent(Owner) = ContactBook!NoEvent
    THEN {{Owner}}
    ELSE {F \cup {Owner} : F \in SUBSET Authors}

(* The load of line 42 was answered; getFollowedPubkeys reads the book. *)
ContactsLoaded(i) ==
  /\ Idle
  /\ phase[i] = "contacts"
  /\ cAwaits[i] = NoAuthor
  /\ phase' = [phase EXCEPT ![i] = "calling"]
  /\ \E F \in FollowedPubkeys : following' = [following EXCEPT ![i] = F]
  /\ UNCHANGED <<bookVars, contactVars, active, called>>

(* Lines 51-55, for one author; the last call ends the synchronous part.   *)
CallLoad(i, p) ==
  /\ phase[i] = "calling"
  /\ p \in following[i] \ called[i]
  /\ \/ AddressBook!LoadKnown(<<i, p>>, p)
     \/ AddressBook!LoadJoins(<<i, p>>, p)
     \/ AddressBook!LoadQueues(<<i, p>>, p, ExtraRelays)
  /\ called' = [called EXCEPT ![i] = @ \cup {p}]
  /\ phase' = IF called'[i] = following[i] THEN [phase EXCEPT ![i] = "mailboxes"] ELSE phase
  /\ UNCHANGED <<contactVars, active, following>>

Waits_ForFirst(i) == \A p \in called[i] : awaits[<<i, p>>] # NoAuthor

(* A load of start i has not been answered. *)
Waits(i) == \E p \in called[i] : awaits[<<i, p>>] # NoAuthor

(* Promise.all resolves, and the rest of start() runs (lines 57-93). *)
StartFinishes(i) ==
  /\ Idle
  /\ phase[i] = "mailboxes"
  /\ ~ Waits(i)
  /\ phase' = [phase EXCEPT ![i] = "done"]
  /\ UNCHANGED <<bookVars, contactVars, active, following, called>>

(* stop() *)
Stop ==
  /\ Idle
  /\ active
  /\ active' = FALSE
  /\ UNCHANGED <<bookVars, contactVars, phase, following, called>>

(* What a book does by itself or on a message. *)
BookTimer == Idle /\ AddressBook!TimerExpires /\ UNCHANGED <<contactVars, startVars>>

BookRelayDone(r) ==
  Idle /\ AddressBook!RelayDone(r) /\ UNCHANGED <<contactVars, startVars>>

BookOther ==
  /\ Idle
  /\ \/ AddressBook!WaitElapses
     \/ \E p \in Authors, t \in 1..MaxTime : AddressBook!RelayEvent(p, t)
  /\ UNCHANGED <<contactVars, startVars>>

ContactsTimer == Idle /\ ContactBook!TimerExpires /\ UNCHANGED <<bookVars, startVars>>

ContactsRelayDone(r) ==
  Idle /\ ContactBook!RelayDone(r) /\ UNCHANGED <<bookVars, startVars>>

ContactsOther ==
  /\ Idle
  /\ \/ ContactBook!WaitElapses
     \/ \E t \in 1..MaxTime : ContactBook!RelayEvent(Owner, t)
  /\ UNCHANGED <<bookVars, startVars>>

Next ==
  \/ \E i \in Starts : StartBegins(i) \/ ContactsLoaded(i) \/ StartFinishes(i)
  \/ \E i \in Starts, p \in Authors : CallLoad(i, p)
  \/ Stop
  \/ BookTimer \/ BookOther
  \/ ContactsTimer \/ ContactsOther
  \/ \E r \in Relays : BookRelayDone(r) \/ ContactsRelayDone(r)

Spec == Init /\ [][Next]_vars

(* Timers fire, every relay ends its part of a subscription, and promises  *)
(* that are resolved wake who awaits them.  Nobody has to start or stop.   *)
Fairness ==
  /\ \A i \in Starts :
       /\ WF_vars(ContactsLoaded(i))
       /\ \A p \in Authors : WF_vars(CallLoad(i, p))
       /\ WF_vars(StartFinishes(i))
  /\ WF_vars(BookTimer)
  /\ WF_vars(ContactsTimer)
  /\ \A r \in Relays : WF_vars(BookRelayDone(r)) /\ WF_vars(ContactsRelayDone(r))

FairSpec == Spec /\ Fairness

-----------------------------------------------------------------------------
(* Properties                                                              *)

(* A start goes on only when the mailboxes of everyone it follows were     *)
(* loaded or given up by a batch that asked for them: none is still in the *)
(* book's queue or batch on its behalf (lines 51-57).                      *)
FinishedStartsAwaitNothing ==
  \A i \in Starts : phase[i] = "done" =>
    /\ called[i] = following[i]
    /\ \A p \in DOMAIN pending, q \in Authors : <<i, q>> \notin pending[p]

(* The queue of the book has authors that nothing is going to fetch: no    *)
(* batch is running and no call of fetchEvents is due.                     *)
QueueMissed ==
  /\ DOMAIN next # {}
  /\ DOMAIN fetching = {}
  /\ throttle # "trailing"

(* A start finishes, but for the one way to hang that the address book     *)
(* has: being left in its queue, or joining one that was left.  With the   *)
(* owner as its only key the contact book has no such way.                 *)
OnlyMissedQueueBlocks ==
  \A i \in Starts :
    phase[i] \in {"contacts", "mailboxes"} ~> phase[i] = "done" \/ QueueMissed

(* "Load relay list for every pubkey" (line 50): start() gets past it.     *)
(* The code breaks this: the first followed author is fetched at once, the *)
(* others wait for the throttle's timer, and when it expires before that   *)
(* first batch has ended their turn never comes (address-book.ts line 62). *)
StartFinishesAlways ==
  \A i \in Starts : phase[i] = "mailboxes" ~> phase[i] = "done"
=============================================================================
