--------------------------- MODULE StartupProofs ---------------------------
(***************************************************************************)
(* Proofs about module Startup, for any number of starts.  Both books are  *)
(* instances of Book, so that what BookProofs proves holds of them once a  *)
(* step of the startup is seen to be a step of each book or to leave it    *)
(* alone.                                                                  *)
(***************************************************************************)
EXTENDS Startup, TLAPS

AddressProofs == INSTANCE BookProofs WITH
  Pubkeys <- Authors,
  Callers <- Starts \X Authors,
  Hints <- {ExtraRelays},
  NoKey <- NoAuthor

ContactProofs == INSTANCE BookProofs WITH
  Pubkeys <- {Owner},
  Callers <- Starts,
  Hints <- {{}},
  NoKey <- NoAuthor,
  store <- cStore, cache <- cCache, next <- cNext, fetching <- cFetching,
  pending <- cPending, throttle <- cThrottle, open <- cOpen, awaits <- cAwaits, got <- cGot

(* The steps of the address book, under their name in BookProofs. *)
LEMMA AddressSame ==
  /\ AddressBook!Init <=> AddressProofs!Init
  /\ [AddressBook!Next]_bookVars <=> [AddressProofs!Next]_(AddressProofs!vars)
BY DEF bookVars, AddressProofs!vars,
  AddressBook!Init, AddressProofs!Init, AddressBook!Next, AddressProofs!Next,
  AddressBook!EmptyMap, AddressProofs!EmptyMap, AddressBook!NoEvent, AddressProofs!NoEvent,
  AddressBook!Time, AddressProofs!Time, AddressBook!Newer, AddressProofs!Newer,
  AddressBook!With, AddressProofs!With, AddressBook!GetEvent, AddressProofs!GetEvent,
  AddressBook!Cached, AddressProofs!Cached, AddressBook!HandleEvent, AddressProofs!HandleEvent,
  AddressBook!Asked, AddressProofs!Asked, AddressBook!AskedRelays, AddressProofs!AskedRelays,
  AddressBook!FetchEvents, AddressProofs!FetchEvents,
  AddressBook!FetchEventsThrottle, AddressProofs!FetchEventsThrottle,
  AddressBook!TimerExpires, AddressProofs!TimerExpires,
  AddressBook!WaitElapses, AddressProofs!WaitElapses,
  AddressBook!LoadKnown, AddressProofs!LoadKnown, AddressBook!LoadJoins, AddressProofs!LoadJoins,
  AddressBook!IsPending, AddressProofs!IsPending, AddressBook!Enqueued, AddressProofs!Enqueued,
  AddressBook!LoadQueues, AddressProofs!LoadQueues,
  AddressBook!RelayEvent, AddressProofs!RelayEvent, AddressBook!Answered, AddressProofs!Answered,
  AddressBook!Resolves, AddressProofs!Resolves, AddressBook!Answer, AddressProofs!Answer,
  AddressBook!Cleared, AddressProofs!Cleared, AddressBook!Oneose, AddressProofs!Oneose,
  AddressBook!Restrict, AddressProofs!Restrict,
  AddressBook!RelayDone, AddressProofs!RelayDone, AddressBook!StoreWrite, AddressProofs!StoreWrite,
  AddressBook!ClearStore, AddressProofs!ClearStore

(* The same of the contact book. *)
LEMMA ContactSame ==
  /\ ContactBook!Init <=> ContactProofs!Init
  /\ [ContactBook!Next]_contactVars <=> [ContactProofs!Next]_(ContactProofs!vars)
BY DEF contactVars, ContactProofs!vars,
  ContactBook!Init, ContactProofs!Init, ContactBook!Next, ContactProofs!Next,
  ContactBook!EmptyMap, ContactProofs!EmptyMap, ContactBook!NoEvent, ContactProofs!NoEvent,
  ContactBook!Time, ContactProofs!Time, ContactBook!Newer, ContactProofs!Newer,
  ContactBook!With, ContactProofs!With, ContactBook!GetEvent, ContactProofs!GetEvent,
  ContactBook!Cached, ContactProofs!Cached, ContactBook!HandleEvent, ContactProofs!HandleEvent,
  ContactBook!Asked, ContactProofs!Asked, ContactBook!AskedRelays, ContactProofs!AskedRelays,
  ContactBook!FetchEvents, ContactProofs!FetchEvents,
  ContactBook!FetchEventsThrottle, ContactProofs!FetchEventsThrottle,
  ContactBook!TimerExpires, ContactProofs!TimerExpires,
  ContactBook!WaitElapses, ContactProofs!WaitElapses,
  ContactBook!LoadKnown, ContactProofs!LoadKnown, ContactBook!LoadJoins, ContactProofs!LoadJoins,
  ContactBook!IsPending, ContactProofs!IsPending, ContactBook!Enqueued, ContactProofs!Enqueued,
  ContactBook!LoadQueues, ContactProofs!LoadQueues,
  ContactBook!RelayEvent, ContactProofs!RelayEvent, ContactBook!Answered, ContactProofs!Answered,
  ContactBook!Resolves, ContactProofs!Resolves, ContactBook!Answer, ContactProofs!Answer,
  ContactBook!Cleared, ContactProofs!Cleared, ContactBook!Oneose, ContactProofs!Oneose,
  ContactBook!Restrict, ContactProofs!Restrict,
  ContactBook!RelayDone, ContactProofs!RelayDone, ContactBook!StoreWrite, ContactProofs!StoreWrite,
  ContactBook!ClearStore, ContactProofs!ClearStore

-----------------------------------------------------------------------------
(* The books *)

(* A step of the startup is a step of the address book or leaves it alone. *)
LEMMA StepIsAddressStep == [Next]_vars => [AddressBook!Next]_bookVars
<1> SUFFICES ASSUME [Next]_vars
             PROVE  [AddressBook!Next]_bookVars
  OBVIOUS
<1>1. ASSUME NEW i \in Starts, NEW p \in Authors, CallLoad(i, p)
      PROVE  AddressBook!Next
  <2>1. <<i, p>> \in Starts \X Authors /\ ExtraRelays \in {ExtraRelays}
    OBVIOUS
  <2>2. \/ AddressBook!LoadKnown(<<i, p>>, p)
        \/ AddressBook!LoadJoins(<<i, p>>, p)
        \/ AddressBook!LoadQueues(<<i, p>>, p, ExtraRelays)
    BY <1>1 DEF CallLoad
  <2> QED BY <2>1, <2>2 DEF AddressBook!Next
<1>2. CASE BookTimer
  BY <1>2 DEF BookTimer, AddressBook!Next
<1>3. CASE BookOther
  BY <1>3 DEF BookOther, AddressBook!Next, AddressBook!Time
<1>4. CASE \E r \in Relays : BookRelayDone(r)
  BY <1>4 DEF BookRelayDone, AddressBook!Next
<1>5. CASE UNCHANGED bookVars
  BY <1>5
<1> QED
  BY <1>1, <1>2, <1>3, <1>4, <1>5
     DEF Next, vars, StartBegins, ContactsLoaded, StartFinishes, Stop,
         ContactsTimer, ContactsOther, ContactsRelayDone

(* And a step of the contact book or leaves that alone. *)
LEMMA StepIsContactStep == [Next]_vars => [ContactBook!Next]_contactVars
<1> SUFFICES ASSUME [Next]_vars
             PROVE  [ContactBook!Next]_contactVars
  OBVIOUS
<1>1. ASSUME NEW i \in Starts, StartBegins(i)
      PROVE  ContactBook!Next
  <2>1. Owner \in {Owner} /\ {} \in {{}}
    OBVIOUS
  <2>2. \/ ContactBook!LoadKnown(i, Owner)
        \/ ContactBook!LoadJoins(i, Owner)
        \/ ContactBook!LoadQueues(i, Owner, {})
    BY <1>1 DEF StartBegins
  <2> QED BY <2>1, <2>2 DEF ContactBook!Next
<1>2. CASE ContactsTimer
  BY <1>2 DEF ContactsTimer, ContactBook!Next
<1>3. CASE ContactsOther
  BY <1>3 DEF ContactsOther, ContactBook!Next, ContactBook!Time
<1>4. CASE \E r \in Relays : ContactsRelayDone(r)
  BY <1>4 DEF ContactsRelayDone, ContactBook!Next
<1>5. CASE UNCHANGED contactVars
  BY <1>5
<1> QED
  BY <1>1, <1>2, <1>3, <1>4, <1>5
     DEF Next, vars, CallLoad, ContactsLoaded, StartFinishes, Stop,
         BookTimer, BookOther, BookRelayDone

(* The startup drives each book as module Book says that a book may be     *)
(* driven: what is proved of a book holds of both while start() runs, and  *)
(* start() may be interrupted by stop() and begun again at any point.      *)
THEOREM BooksAreDrivenAsBooks == Spec => AddressBook!Spec /\ ContactBook!Spec
<1>1. Init => AddressBook!Init /\ ContactBook!Init
  BY DEF Init
<1>2. bookVars = AddressBook!vars /\ contactVars = ContactBook!vars
  BY DEF bookVars, contactVars, AddressBook!vars, ContactBook!vars
<1>3. [Next]_vars => [AddressBook!Next]_(AddressBook!vars) /\ [ContactBook!Next]_(ContactBook!vars)
  BY <1>2, StepIsAddressStep, StepIsContactStep DEF AddressBook!vars, ContactBook!vars, bookVars, contactVars
<1> QED BY <1>1, <1>3, PTL DEF Spec, AddressBook!Spec, ContactBook!Spec

(* Each book keeps the promise of module Loader, whatever the starts do    *)
(* with the two of them.                                                   *)
THEOREM BothBooksAreLoaders ==
  Spec => AddressProofs!ImplementsLoader /\ ContactProofs!ImplementsLoader
<1>1. Init => AddressProofs!Init /\ ContactProofs!Init
  BY AddressSame, ContactSame DEF Init
<1>2. [Next]_vars => [AddressProofs!Next]_(AddressProofs!vars) /\ [ContactProofs!Next]_(ContactProofs!vars)
  BY AddressSame, ContactSame, StepIsAddressStep, StepIsContactStep
<1>3. Spec => AddressProofs!Spec /\ ContactProofs!Spec
  BY <1>1, <1>2, PTL DEF Spec, AddressProofs!Spec, ContactProofs!Spec
<1>4. AddressProofs!Spec => AddressProofs!ImplementsLoader
  BY StartupAssumption, AddressProofs!BookImplementsLoader
<1>5. ContactProofs!Spec => ContactProofs!ImplementsLoader
  BY StartupAssumption, ContactProofs!BookImplementsLoader
<1> QED
  BY <1>3, <1>4, <1>5

-----------------------------------------------------------------------------
(* What a start awaits *)

(* The loads of a start are those it has called, it awaits all that it     *)
(* follows or nothing, and once it is done it awaits nothing.              *)
StartsInv ==
  /\ phase \in [Starts -> {"unused", "contacts", "calling", "mailboxes", "done"}]
  /\ following \in [Starts -> SUBSET Authors]
  /\ called \in [Starts -> SUBSET Authors]
  /\ \A i \in Starts :
       /\ \A p \in Authors \ called[i] : awaits[<<i, p>>] = NoAuthor
       /\ phase[i] \in {"mailboxes", "done"} => called[i] = following[i]
       /\ phase[i] = "done" => \A p \in Authors : awaits[<<i, p>>] = NoAuthor

(* The inductive invariant. *)
StartupInv == AddressProofs!IInv /\ StartsInv

(* No step but the call of a load makes anybody await anything. *)
LEMMA NobodyElseAwaits ==
  ASSUME StartupInv, [Next]_vars, NEW c \in Starts \X Authors, awaits[c] = NoAuthor,
         \A i \in Starts, p \in Authors : c = <<i, p>> => ~ CallLoad(i, p)
  PROVE  awaits'[c] = NoAuthor
<1>1. ASSUME NEW i \in Starts, NEW p \in Authors, CallLoad(i, p)
      PROVE  awaits'[c] = NoAuthor
  <2>1. c # <<i, p>>
    BY <1>1
  <2>2. awaits' = awaits \/ awaits' = [awaits EXCEPT ![<<i, p>>] = p]
    BY <1>1 DEF CallLoad, AddressBook!LoadKnown, AddressBook!LoadJoins, AddressBook!LoadQueues
  <2> QED BY <2>1, <2>2 DEF StartupInv, AddressProofs!IInv, AddressProofs!TypeOK
<1>2. CASE \E r \in Relays : BookRelayDone(r)
  BY <1>2 DEF BookRelayDone, AddressBook!RelayDone, AddressBook!Oneose
<1>3. CASE UNCHANGED awaits
  BY <1>3
<1> QED
  BY <1>1, <1>2, <1>3
     DEF Next, vars, bookVars, StartBegins, ContactsLoaded, StartFinishes, Stop,
         BookTimer, BookOther, ContactsTimer, ContactsOther, ContactsRelayDone,
         AddressBook!TimerExpires, AddressBook!WaitElapses, AddressBook!RelayEvent

(* Nobody awaits anything at first. *)
LEMMA StartupInit == Init => StartupInv
<1>1. Init => AddressProofs!IInv
  BY StartupAssumption, AddressSame, AddressProofs!InitIInv DEF Init
<1>2. Init => StartsInv
  BY DEF Init, StartsInv, AddressBook!Init
<1> QED BY <1>1, <1>2 DEF StartupInv

(* Every step keeps the invariant. *)
LEMMA StartupStep == StartupInv /\ [Next]_vars => StartupInv'
<1> SUFFICES ASSUME StartupInv, [Next]_vars
             PROVE  StartupInv'
  OBVIOUS
<1>1. AddressProofs!IInv'
  BY StartupAssumption, AddressSame, StepIsAddressStep, AddressProofs!NextIInv DEF StartupInv
<1>2. ASSUME NEW i \in Starts, NEW p \in Authors, CallLoad(i, p)
      PROVE  StartsInv'
  <2>1. /\ phase[i] = "calling"
        /\ called' = [called EXCEPT ![i] = @ \cup {p}]
        /\ phase' = IF called'[i] = following[i] THEN [phase EXCEPT ![i] = "mailboxes"] ELSE phase
        /\ following' = following
    BY <1>2 DEF CallLoad
  <2>2. \A j \in Starts, q \in Authors :
          <<j, q>> # <<i, p>> /\ awaits[<<j, q>>] = NoAuthor => awaits'[<<j, q>>] = NoAuthor
    <3> SUFFICES ASSUME NEW j \in Starts, NEW q \in Authors,
                        <<j, q>> # <<i, p>>, awaits[<<j, q>>] = NoAuthor
                 PROVE  awaits'[<<j, q>>] = NoAuthor
      OBVIOUS
    <3>1. awaits' = awaits \/ awaits' = [awaits EXCEPT ![<<i, p>>] = p]
      BY <1>2 DEF CallLoad, AddressBook!LoadKnown, AddressBook!LoadJoins, AddressBook!LoadQueues
    <3> QED BY <3>1 DEF StartupInv, AddressProofs!IInv, AddressProofs!TypeOK
  <2>3. \A j \in Starts : \A q \in Authors \ called'[j] :
          <<j, q>> # <<i, p>> /\ q \in Authors \ called[j]
    BY <2>1 DEF StartupInv, StartsInv
  <2>4. \A j \in Starts : phase'[j] = "done" => j # i /\ phase[j] = "done"
    BY <2>1 DEF StartupInv, StartsInv
  <2>5. \A j \in Starts : phase'[j] \in {"mailboxes", "done"} => called'[j] = following'[j]
    BY <2>1 DEF StartupInv, StartsInv
  <2> QED BY <2>1, <2>2, <2>3, <2>4, <2>5 DEF StartupInv, StartsInv
<1>3. ASSUME ~ \E i \in Starts, p \in Authors : CallLoad(i, p)
      PROVE  \A i \in Starts, p \in Authors :
               awaits[<<i, p>>] = NoAuthor => awaits'[<<i, p>>] = NoAuthor
  BY <1>3, NobodyElseAwaits
<1>4. ASSUME NEW i \in Starts, StartBegins(i)
      PROVE  StartsInv'
  <2>1. phase' = [phase EXCEPT ![i] = "contacts"] /\ UNCHANGED <<awaits, following, called>>
    BY <1>4 DEF StartBegins, bookVars
  <2> QED BY <2>1 DEF StartupInv, StartsInv
<1>5. ASSUME NEW i \in Starts, ContactsLoaded(i)
      PROVE  StartsInv'
  <2>1. /\ phase' = [phase EXCEPT ![i] = "calling"]
        /\ UNCHANGED <<awaits, called>>
    BY <1>5 DEF ContactsLoaded, bookVars
  <2>2. PICK F \in SUBSET Authors : following' = [following EXCEPT ![i] = F]
    BY <1>5, StartupAssumption DEF ContactsLoaded, FollowedPubkeys
  <2> QED BY <2>1, <2>2 DEF StartupInv, StartsInv
<1>6. ASSUME NEW i \in Starts, StartFinishes(i)
      PROVE  StartsInv'
  <2>1. /\ phase[i] = "mailboxes" /\ phase' = [phase EXCEPT ![i] = "done"]
        /\ \A p \in called[i] : awaits[<<i, p>>] = NoAuthor
        /\ UNCHANGED <<awaits, following, called>>
    BY <1>6 DEF StartFinishes, Waits, bookVars
  <2> QED BY <2>1 DEF StartupInv, StartsInv
<1>7. ASSUME UNCHANGED <<phase, following, called>>,
             ~ \E i \in Starts, p \in Authors : CallLoad(i, p)
      PROVE  StartsInv'
  BY <1>3, <1>7 DEF StartupInv, StartsInv
<1>8. StartsInv'
  BY <1>2, <1>4, <1>5, <1>6, <1>7
     DEF Next, vars, startVars, Stop, BookTimer, BookOther, BookRelayDone,
         ContactsTimer, ContactsOther, ContactsRelayDone
<1> QED BY <1>1, <1>8 DEF StartupInv

(* StartupInv holds in every reachable state. *)
LEMMA StartupInvariance == Spec => []StartupInv
BY StartupInit, StartupStep, PTL DEF Spec

(* When start() gets past the loads of the mailboxes, none of them is in   *)
(* the address book's queue or batch on its behalf.                        *)
THEOREM FinishedMeansAnswered == Spec => []FinishedStartsAwaitNothing
<1>1. StartupInv => FinishedStartsAwaitNothing
  <2> SUFFICES ASSUME StartupInv, NEW i \in Starts, phase[i] = "done"
               PROVE  /\ called[i] = following[i]
                      /\ \A p \in DOMAIN pending, q \in Authors : <<i, q>> \notin pending[p]
    BY DEF FinishedStartsAwaitNothing
  <2>1. called[i] = following[i]
    BY DEF StartupInv, StartsInv
  <2>2. ASSUME NEW p \in DOMAIN pending, NEW q \in Authors
        PROVE  <<i, q>> \notin pending[p]
    <3>1. awaits[<<i, q>>] = NoAuthor /\ <<i, q>> \in Starts \X Authors
      BY DEF StartupInv, StartsInv
    <3>2. p \in Authors
      BY DEF StartupInv, AddressProofs!IInv, AddressProofs!TypeOK, AddressProofs!AuthorMap
    <3> QED
      BY <3>1, <3>2, StartupAssumption
         DEF StartupInv, AddressProofs!IInv, AddressProofs!Batch, AddressProofs!NoOrphans
  <2> QED BY <2>1, <2>2
<1> QED BY <1>1, StartupInvariance, PTL

-----------------------------------------------------------------------------
(* The contact book, and what a start waits for *)

(* The contact book is in order, and with the owner as its only author its *)
(* queue is never missed.                                                  *)
ContactInv == ContactProofs!IInv /\ ContactProofs!QueueIsArmed

(* It is so at first and after every step. *)
LEMMA ContactInvariance == Spec => []ContactInv
<1>1. Init => ContactInv
  <2>1. Init => ContactProofs!IInv
    BY StartupAssumption, ContactSame, ContactProofs!InitIInv DEF Init
  <2>2. Init => ContactProofs!QueueIsArmed
    BY ContactSame DEF Init, ContactProofs!Init, ContactProofs!QueueIsArmed, ContactProofs!EmptyMap
  <2> QED
    BY <2>1, <2>2 DEF ContactInv
<1>2. ContactInv /\ [Next]_vars => ContactInv'
  <2> SUFFICES ASSUME ContactInv, [Next]_vars
               PROVE  ContactInv'
    OBVIOUS
  <2>1. [ContactProofs!Next]_(ContactProofs!vars)
    BY ContactSame, StepIsContactStep
  <2>2. ContactProofs!IInv'
    BY <2>1, StartupAssumption, ContactProofs!NextIInv DEF ContactInv
  <2>3. \A p, q \in {Owner} : p = q
    OBVIOUS
  <2>4. ContactProofs!QueueIsArmed'
    BY <2>1, <2>3, StartupAssumption, ContactProofs!ArmedStep DEF ContactInv
  <2> QED
    BY <2>2, <2>4 DEF ContactInv
<1> QED
  BY <1>1, <1>2, PTL DEF Spec

(* Every variable of the startup and of both books keeps its type. *)
THEOREM TypeCorrect == Spec => []TypeOK
<1>1. AddressProofs!TypeOK => AddressBook!TypeOK
  BY DEF AddressProofs!TypeOK, AddressBook!TypeOK, AddressProofs!AuthorMap, AddressBook!AuthorMap
<1>2. ContactProofs!TypeOK => ContactBook!TypeOK
  BY DEF ContactProofs!TypeOK, ContactBook!TypeOK, ContactProofs!AuthorMap, ContactBook!AuthorMap
<1>3. StartupInv /\ ContactInv /\ active \in BOOLEAN => TypeOK
  BY <1>1, <1>2 DEF StartupInv, StartsInv, ContactInv, AddressProofs!IInv, ContactProofs!IInv, TypeOK
<1>4. Init => active \in BOOLEAN
  BY DEF Init
<1>5. active \in BOOLEAN /\ [Next]_vars => (active \in BOOLEAN)'
  BY DEF Next, vars, startVars, StartBegins, ContactsLoaded, StartFinishes, CallLoad, Stop,
         BookTimer, BookOther, BookRelayDone, ContactsTimer, ContactsOther, ContactsRelayDone
<1> QED
  BY <1>3, <1>4, <1>5, StartupInvariance, ContactInvariance, PTL DEF Spec

(* The book that a waiting start needs has an armed timer or a running     *)
(* subscription, or is the address book and has missed its queue.          *)
WaitingHasCause ==
  \A i \in Starts :
    /\ phase[i] = "contacts" /\ cAwaits[i] # NoAuthor => cThrottle = "trailing" \/ cOpen # {}
    /\ phase[i] = "mailboxes" /\ Waits(i) => throttle = "trailing" \/ open # {} \/ QueueMissed

(* A start that waits has an armed timer or an unanswered relay to wait    *)
(* for, in the book whose answer it needs; only in the address book may it *)
(* have neither, and then its authors are in the queue that the throttled  *)
(* fetchEvents has missed (lines 42 and 50-57).                            *)
THEOREM StartsWaitForSomething == Spec => []WaitingHasCause
<1>1. StartupInv /\ ContactInv => WaitingHasCause
  <2> SUFFICES ASSUME StartupInv, ContactInv, NEW i \in Starts
               PROVE  /\ cAwaits[i] # NoAuthor => cThrottle = "trailing" \/ cOpen # {}
                      /\ Waits(i) => throttle = "trailing" \/ open # {} \/ QueueMissed
    BY DEF WaitingHasCause
  <2>1. ASSUME cAwaits[i] # NoAuthor
        PROVE  cThrottle = "trailing" \/ cOpen # {}
    <3>1. cAwaits[i] \in DOMAIN cNext \cup DOMAIN cFetching
      BY <2>1 DEF ContactInv, ContactProofs!IInv, ContactProofs!Batch, ContactProofs!NoOrphans,
                  ContactProofs!PendingExact
    <3> QED
      BY <3>1 DEF ContactInv, ContactProofs!IInv, ContactProofs!Batch,
                  ContactProofs!FetchHasSubscription, ContactProofs!QueueIsArmed
  <2>2. ASSUME NEW p \in called[i], awaits[<<i, p>>] # NoAuthor
        PROVE  throttle = "trailing" \/ open # {} \/ QueueMissed
    <3>1. <<i, p>> \in Starts \X Authors
      BY DEF StartupInv, StartsInv
    <3>2. awaits[<<i, p>>] \in DOMAIN next \cup DOMAIN fetching
      BY <2>2, <3>1 DEF StartupInv, AddressProofs!IInv, AddressProofs!Batch, AddressProofs!NoOrphans,
                  AddressProofs!PendingExact
    <3> QED
      BY <3>2 DEF StartupInv, AddressProofs!IInv, AddressProofs!Batch,
                  AddressProofs!FetchHasSubscription, QueueMissed
  <2> QED
    BY <2>1, <2>2 DEF Waits
<1> QED
  BY <1>1, StartupInvariance, ContactInvariance, PTL
=============================================================================
