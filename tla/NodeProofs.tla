----------------------------- MODULE NodeProofs -----------------------------
(***************************************************************************)
(* Proofs about the parts of module MCNode: Notifications (N), Pool (P)    *)
(* and Graph (G).                                                          *)
(***************************************************************************)
EXTENDS MCNode, Integers, Sequences, FiniteSets, FiniteSetTheorems,
        SequenceTheorems, WellFoundedInduction, TLAPS

-----------------------------------------------------------------------------
(* The pool of relays                                                      *)

(* Every relay that sent a challenge of this node is blacklisted, so that  *)
(* ensureRelay() cannot open it again, and only such are reported or kept. *)
PoolInv ==
  /\ P!TypeOK
  /\ found \subseteq blacklist
  /\ challenges \subseteq found
  /\ P!SelfStaysOut

(* The pool starts with no relay found. *)
LEMMA PoolInit == P!Init => PoolInv
BY DEF P!Init, PoolInv, P!TypeOK, P!SelfStaysOut

(* Every action of the pool keeps PoolInv. *)
LEMMA PoolStep == PoolInv /\ (P!Next \/ UNCHANGED poolVars) => PoolInv'
<1> SUFFICES ASSUME PoolInv, P!Next \/ UNCHANGED poolVars
             PROVE  PoolInv'
  OBVIOUS
<1> USE DEF PoolInv, P!TypeOK, P!SelfStaysOut
<1>1. ASSUME NEW r \in Relays, P!EnsureRelay(r)
      PROVE  PoolInv'
  BY <1>1 DEF P!EnsureRelay
<1>2. ASSUME NEW r \in Relays, P!Opened(r)
      PROVE  PoolInv'
  <2>1. PICK self \in BOOLEAN :
          /\ found' = IF self THEN found \cup {r} ELSE found
          /\ P!CheckRelay(r, self)
          /\ hooked' = IF self THEN hooked ELSE hooked \cup {r}
    BY <1>2 DEF P!Opened, P!CheckedFirst
  <2>2. conn[r] = "connecting" /\ r \notin found /\ UNCHANGED <<challenges, subscribed, reported>>
    BY <1>2 DEF P!Opened
  <2>3. CASE self
    BY <2>1, <2>2, <2>3 DEF P!CheckRelay
  <2>4. CASE ~ self
    BY <2>1, <2>2, <2>4 DEF P!CheckRelay
  <2> QED BY <2>3, <2>4
<1>3. ASSUME NEW r \in Relays, P!Challenged(r)
      PROVE  PoolInv'
  <2>1. PICK self \in BOOLEAN :
          /\ found' = IF self THEN found \cup {r} ELSE found
          /\ P!CheckRelay(r, self)
          /\ challenges' = IF self THEN challenges \cup {r} ELSE challenges
          /\ IF self THEN P!Report(r) ELSE UNCHANGED reported
    BY <1>3 DEF P!Challenged
  <2>2. conn[r] = "open" /\ r \notin found /\ UNCHANGED <<hooked, subscribed>>
    BY <1>3 DEF P!Challenged
  <2>3. CASE self
    BY <2>1, <2>2, <2>3 DEF P!CheckRelay, P!Report
  <2>4. CASE ~ self
    BY <2>1, <2>2, <2>4 DEF P!CheckRelay
  <2> QED BY <2>3, <2>4
<1>4. ASSUME NEW r \in Relays, P!Closed(r)
      PROVE  PoolInv'
  BY <1>4 DEF P!Closed
<1>5. CASE P!Subscribe
  BY <1>5 DEF P!Subscribe
<1>6. CASE P!Unsubscribe
  BY <1>6 DEF P!Unsubscribe
<1>7. CASE UNCHANGED poolVars
  BY <1>7 DEF poolVars
<1> QED BY <1>1, <1>2, <1>3, <1>4, <1>5, <1>6, <1>7 DEF P!Next

-----------------------------------------------------------------------------
(* Push notifications                                                      *)

(* The library's induction theorems take an operator; this one takes the   *)
(* set of the numbers for which the claim holds, so that a proof can cite  *)
(* it.                                                                     *)
LEMMA SetInduction ==
  ASSUME NEW S, 0 \in S, \A n \in Nat : n \in S => n + 1 \in S
  PROVE  Nat \subseteq S
<1> DEFINE T == Nat \ S
<1> SUFFICES ASSUME T # {} PROVE FALSE
  OBVIOUS
<1>1. PICK n \in T : \A k \in T : <<k, n>> \notin OpToRel(<, Nat)
  <2> HIDE DEF T
  <2> T \subseteq Nat
    BY DEF T
  <2> QED BY NatLessThanWellFounded, WFMin
<1>2. n # 0 /\ n - 1 \in Nat /\ (n - 1) + 1 = n
  OBVIOUS
<1>3. n - 1 \in T
  BY <1>2
<1>4. <<n - 1, n>> \in OpToRel(<, Nat)
  BY <1>2 DEF OpToRel
<1> QED BY <1>1, <1>3, <1>4

(* The recursive function of the fold that filters a key out of s, on the  *)
(* sets of indices below n.                                                *)
Filters(it, s, key, n) ==
  it = [t \in SUBSET (1..n) |->
          IF t = {} THEN <<>>
          ELSE IF s[N!Max(t)].key = key THEN it[t \ {N!Max(t)}]
               ELSE Append(it[t \ {N!Max(t)}], s[N!Max(t)])]

(* The largest of some numbers up to n, of which n is one, is n. *)
LEMMA MaxIsLast ==
  ASSUME NEW n \in Nat, NEW t \in SUBSET (1..n), n \in t
  PROVE  N!Max(t) = n
<1>1. \A k \in t : n >= k
  OBVIOUS
<1>2. \A m \in t : (\A k \in t : m >= k) => m = n
  OBVIOUS
<1> QED BY <1>1, <1>2 DEF N!Max

(* The fold exists for every number of indices. *)
LEMMA FilterExists ==
  ASSUME NEW s, NEW key
  PROVE  \A n \in Nat : \E it : Filters(it, s, key, n)
<1> DEFINE S == {n \in Nat : \E it : Filters(it, s, key, n)}
<1>1. 0 \in S
  <2>1. Filters([t \in {{}} |-> <<>>], s, key, 0)
    <3>1. SUBSET (1..0) = {{}}
      OBVIOUS
    <3> QED BY <3>1 DEF Filters
  <2> QED BY <2>1
<1>2. ASSUME NEW n \in Nat, n \in S
      PROVE  n + 1 \in S
  <2>1. PICK it : Filters(it, s, key, n)
    BY <1>2
  <2> DEFINE last == n + 1
             step(r) == IF s[last].key = key THEN r ELSE Append(r, s[last])
             more == [t \in SUBSET (1..last) |-> IF last \in t THEN step(it[t \ {last}]) ELSE it[t]]
  <2>2. ASSUME NEW t \in SUBSET (1..last)
        PROVE  more[t] = IF t = {} THEN <<>>
                         ELSE IF s[N!Max(t)].key = key THEN more[t \ {N!Max(t)}]
                              ELSE Append(more[t \ {N!Max(t)}], s[N!Max(t)])
    <3>1. CASE last \in t
      <4>1. N!Max(t) = last
        BY <3>1, MaxIsLast
      <4>2. more[t \ {last}] = it[t \ {last}]
        OBVIOUS
      <4> QED BY <3>1, <4>1, <4>2
    <3>2. CASE last \notin t
      <4>1. t \in SUBSET (1..n)
        BY <3>2
      <4>2. more[t \ {N!Max(t)}] = it[t \ {N!Max(t)}]
        BY <3>2
      <4>3. more[t] = it[t]
        BY <3>2
      <4>4. it[t] = IF t = {} THEN <<>>
                    ELSE IF s[N!Max(t)].key = key THEN it[t \ {N!Max(t)}]
                         ELSE Append(it[t \ {N!Max(t)}], s[N!Max(t)])
        BY <2>1, <4>1 DEF Filters
      <4> QED BY <4>2, <4>3, <4>4
    <3> QED BY <3>1, <3>2
  <2>3. Filters(more, s, key, last)
    <3> DEFINE g(t) == IF t = {} THEN <<>>
                       ELSE IF s[N!Max(t)].key = key THEN more[t \ {N!Max(t)}]
                            ELSE Append(more[t \ {N!Max(t)}], s[N!Max(t)])
    <3>1. \A t \in SUBSET (1..last) : more[t] = g(t)
      BY <2>2
    <3>2. more = [t \in SUBSET (1..last) |-> more[t]]
      OBVIOUS
    <3>3. more = [t \in SUBSET (1..last) |-> g(t)]
      <4> HIDE DEF g, more
      <4> QED BY <3>1, <3>2
    <3> QED BY <3>3 DEF Filters
  <2> QED BY <2>3
<1>3. Nat \subseteq S
  <2> HIDE DEF S
  <2> QED BY <1>1, <1>2, SetInduction
<1> QED BY <1>3

(* No two of the subscriptions have one key. *)
Distinct(s) == \A i, j \in DOMAIN s : s[i].key = s[j].key => i = j

(* A filtered array holds subscriptions of the array, in distinct keys if  *)
(* the array does.                                                         *)
Part(r, s, n) ==
  /\ r \in Seq(N!Subscriptions)
  /\ \A i \in DOMAIN r : \E j \in 1..n : r[i] = s[j]
  /\ Distinct(s) => Distinct(r)

(* What the fold returns for the first n indices. *)
LEMMA FilterKeepsPart ==
  ASSUME NEW s \in Seq(N!Subscriptions), NEW key, NEW it, Filters(it, s, key, Len(s))
  PROVE  Part(it[1..Len(s)], s, Len(s))
<1> DEFINE S == {n \in Nat : n <= Len(s) => Part(it[1..n], s, n)}
<1>1. 0 \in S
  <2>1. it[1..0] = <<>>
    BY DEF Filters
  <2>2. <<>> \in Seq(N!Subscriptions) /\ DOMAIN <<>> = {}
    OBVIOUS
  <2>3. Part(<<>>, s, 0)
    BY <2>2 DEF Part, Distinct
  <2> QED BY <2>1, <2>3
<1>2. ASSUME NEW n \in Nat, n \in S
      PROVE  n + 1 \in S
  <2> SUFFICES ASSUME n + 1 <= Len(s)
               PROVE  Part(it[1..(n + 1)], s, n + 1)
    OBVIOUS
  <2> DEFINE r == it[1..n]
             x == s[n + 1]
  <2>1. Part(r, s, n)
    BY <1>2
  <2>2. N!Max(1..(n + 1)) = n + 1 /\ (1..(n + 1)) \ {n + 1} = 1..n /\ 1..(n + 1) # {}
    <3> n + 1 \in Nat /\ n + 1 \in 1..(n + 1) /\ 1..(n + 1) \in SUBSET (1..(n + 1))
      OBVIOUS
    <3>1. N!Max(1..(n + 1)) = n + 1
      BY MaxIsLast
    <3>2. (1..(n + 1)) \ {n + 1} = 1..n
      OBVIOUS
    <3> QED BY <3>1, <3>2
  <2>3. it[1..(n + 1)] = IF x.key = key THEN r ELSE Append(r, x)
    <3>1. 1..(n + 1) \in SUBSET (1..Len(s))
      OBVIOUS
    <3> QED BY <2>2, <3>1 DEF Filters
  <2>4. x \in N!Subscriptions
    OBVIOUS
  <2>5. Part(r, s, n + 1)
    BY <2>1 DEF Part
  <2>6. Part(Append(r, x), s, n + 1)
    <3> HIDE DEF r, x
    <3>0. r \in Seq(N!Subscriptions)
      BY <2>1 DEF Part
    <3>1. Append(r, x) \in Seq(N!Subscriptions)
      BY <3>0, <2>4
    <3>2. DOMAIN Append(r, x) = DOMAIN r \cup {Len(r) + 1}
      BY <3>0
    <3>3. \A i \in DOMAIN r : Append(r, x)[i] = r[i] /\ i # Len(r) + 1
      BY <3>0
    <3>4. Append(r, x)[Len(r) + 1] = x
      BY <3>0
    <3>5. \A i \in DOMAIN Append(r, x) : \E j \in 1..(n + 1) : Append(r, x)[i] = s[j]
      BY <2>1, <3>2, <3>3, <3>4 DEF Part, x
    <3>6. ASSUME Distinct(s)
          PROVE  Distinct(Append(r, x))
      <4>1. \A i \in DOMAIN r : r[i].key # x.key
        <5> SUFFICES ASSUME NEW i \in DOMAIN r, r[i].key = x.key
                     PROVE  FALSE
          OBVIOUS
        <5>1. PICK j \in 1..n : r[i] = s[j]
          BY <2>1 DEF Part
        <5>2. DOMAIN s = 1..Len(s) /\ Len(s) \in Nat
          OBVIOUS
        <5>3. j \in DOMAIN s /\ n + 1 \in DOMAIN s /\ j # n + 1
          BY <5>2
        <5> QED BY <5>1, <5>3, <3>6 DEF Distinct, x
      <4>2. Distinct(r)
        BY <2>1, <3>6 DEF Part
      <4> QED BY <3>2, <3>3, <3>4, <4>1, <4>2 DEF Distinct
    <3> QED BY <3>1, <3>5, <3>6 DEF Part
  <2> QED BY <2>3, <2>5, <2>6
<1>3. Nat \subseteq S
  <2> HIDE DEF S
  <2> QED BY <1>1, <1>2, SetInduction
<1>4. Len(s) \in S
  <2> HIDE DEF S
  <2> QED BY <1>3, LenProperties
<1> QED BY <1>4

(* filter() returns subscriptions of the array, each key at most once if   *)
(* that is so of the array.                                                *)
LEMMA WithoutIsPart ==
  ASSUME NEW key, subscriptions \in Seq(N!Subscriptions)
  PROVE  Part(N!Without(key), subscriptions, Len(subscriptions))
<1> DEFINE it == CHOOSE it : Filters(it, subscriptions, key, Len(subscriptions))
<1>1. DOMAIN subscriptions = 1..Len(subscriptions) /\ Len(subscriptions) \in Nat
  OBVIOUS
<1>2. N!Without(key) =
        (CHOOSE f : f = [t \in SUBSET (DOMAIN subscriptions) |->
          IF t = {} THEN <<>>
          ELSE IF subscriptions[N!Max(t)].key = key THEN f[t \ {N!Max(t)}]
               ELSE Append(f[t \ {N!Max(t)}], subscriptions[N!Max(t)])])[DOMAIN subscriptions]
  BY DEF N!Without, N!FoldLeft, N!MapThenFoldSet
<1>3. N!Without(key) = it[1..Len(subscriptions)]
  BY <1>1, <1>2 DEF Filters
<1>4. Filters(it, subscriptions, key, Len(subscriptions))
  BY <1>1, FilterExists
<1> QED
  <2> HIDE DEF it
  <2> QED BY <1>3, <1>4, FilterKeepsPart

(* To move the head of one sequence to the end of another leaves their     *)
(* concatenation as it is.                                                 *)
LEMMA HeadMoves ==
  ASSUME NEW S, NEW p \in Seq(S), NEW r \in Seq(S), r # <<>>
  PROVE  Append(p, Head(r)) \o Tail(r) = p \o r
<1>1. Tail(r) \in Seq(S) /\ Len(Tail(r)) = Len(r) - 1 /\ Len(r) \in Nat \ {0} /\ Head(r) = r[1]
  BY HeadTailProperties, LenProperties, EmptySeq
<1>2. \A i \in 1..Len(Tail(r)) : Tail(r)[i] = r[i + 1]
  BY HeadTailProperties
<1> DEFINE a == Append(p, Head(r))
<1>3. a \in Seq(S) /\ Len(a) = Len(p) + 1 /\ Len(p) \in Nat /\ a[Len(p) + 1] = r[1]
  BY <1>1
<1>4. \A i \in 1..Len(p) : a[i] = p[i]
  OBVIOUS
<1> HIDE DEF a
<1>5. a \o Tail(r) \in Seq(S) /\ p \o r \in Seq(S)
  BY <1>1, <1>3
<1>6. Len(a \o Tail(r)) = Len(p \o r)
  BY <1>1, <1>3
<1>7. \A i \in 1..Len(p \o r) : (a \o Tail(r))[i] = (p \o r)[i]
  BY <1>1, <1>2, <1>3, <1>4
<1> QED BY <1>5, <1>6, <1>7, SeqEqual DEF a

(* The browsers of the array have distinct keys, and a round that has not  *)
(* begun has nothing to push and has pushed nothing.                       *)
NotificationInv ==
  /\ N!TypeOK
  /\ Distinct(subscriptions)
  /\ \A m \in DMs : owed[m] = N!NotRead => round[m] = <<>> /\ pushed[m] = <<>>
  /\ N!EveryBrowserOnce

(* Nobody is registered and no message has come at first. *)
LEMMA NotificationInit == N!Init => NotificationInv
BY NodeAssumption DEF N!Init, NotificationInv, N!TypeOK, Distinct, N!EveryBrowserOnce

(* No array of subscriptions is the mark of a message that has not come.   *)
LEMMA NotReadIsNoArray == N!NotRead \notin Seq(N!Subscriptions)
<1> SUFFICES ASSUME N!NotRead \in Seq(N!Subscriptions)
             PROVE  FALSE
  OBVIOUS
<1>1. N!NotRead[1] \in N!Subscriptions
  BY DEF N!NotRead
<1>2. N!NotRead[1].nr = 0
  BY DEF N!NotRead
<1> QED BY <1>1, <1>2 DEF N!Subscriptions

(* Every action keeps NotificationInv. *)
LEMMA NotificationStep ==
  NotificationInv /\ (N!Next \/ UNCHANGED notificationVars) => NotificationInv'
<1> SUFFICES ASSUME NotificationInv, N!Next \/ UNCHANGED notificationVars
             PROVE  NotificationInv'
  OBVIOUS
<1> USE DEF NotificationInv
<1>0. subscriptions \in Seq(N!Subscriptions)
  BY DEF N!TypeOK
<1>1. ASSUME NEW key
      PROVE  N!Without(key) \in Seq(N!Subscriptions) /\ Distinct(N!Without(key))
  BY <1>0, WithoutIsPart DEF Part
<1>2. ASSUME NEW key \in Keys, N!RegisterSubscription(key)
      PROVE  NotificationInv'
  <2> DEFINE x == [key |-> key, nr |-> made']
  <2>1. /\ made < MaxMade /\ made' = made + 1
        /\ subscriptions' = Append(subscriptions, x)
        /\ UNCHANGED <<round, owed, pushed>>
        /\ \A i \in DOMAIN subscriptions : subscriptions[i].key # key
    BY <1>2 DEF N!RegisterSubscription, N!Registered
  <2>2. made' \in 1..MaxMade /\ made' \in 0..MaxMade
    BY <2>1, NodeAssumption DEF N!TypeOK
  <2>3. N!TypeOK'
    <3>1. x \in N!Subscriptions
      BY <2>2 DEF N!Subscriptions
    <3>2. subscriptions' \in Seq(N!Subscriptions)
      BY <1>0, <2>1, <3>1
    <3> QED BY <2>1, <2>2, <3>2 DEF N!TypeOK, N!Subscriptions
  <2>4. Distinct(subscriptions')
    <3> x.key = key
      OBVIOUS
    <3> HIDE DEF x
    <3>1. DOMAIN subscriptions' = DOMAIN subscriptions \cup {Len(subscriptions) + 1}
      BY <1>0, <2>1
    <3>2. \A i \in DOMAIN subscriptions : subscriptions'[i] = subscriptions[i]
      BY <1>0, <2>1
    <3>3. subscriptions'[Len(subscriptions) + 1] = x
      BY <1>0, <2>1
    <3> QED BY <2>1, <3>1, <3>2, <3>3 DEF Distinct
  <2> QED BY <2>1, <2>3, <2>4 DEF N!EveryBrowserOnce, Distinct
<1>3. ASSUME NEW key \in Keys, N!UnregisterSubscription(key)
      PROVE  NotificationInv'
  <2>1. subscriptions' = N!Without(key) /\ UNCHANGED <<made, round, owed, pushed>>
    BY <1>3 DEF N!UnregisterSubscription
  <2>2. subscriptions' \in Seq(N!Subscriptions) /\ Distinct(subscriptions')
    BY <1>1, <2>1
  <2> QED BY <2>1, <2>2 DEF N!TypeOK, N!Subscriptions, N!EveryBrowserOnce, Distinct
<1>4. ASSUME NEW m \in DMs, N!HandleEvent(m)
      PROVE  NotificationInv'
  <2>1. /\ owed[m] = N!NotRead
        /\ owed' = [owed EXCEPT ![m] = subscriptions]
        /\ round' = [round EXCEPT ![m] = subscriptions]
        /\ UNCHANGED <<subscriptions, made, pushed>>
    BY <1>4 DEF N!HandleEvent
  <2>2. pushed[m] \o subscriptions = subscriptions
    BY <1>0, <2>1
  <2>3. N!TypeOK'
    BY <1>0, <2>1 DEF N!TypeOK, N!Subscriptions
  <2>4. owed'[m] # N!NotRead /\ round'[m] = subscriptions /\ owed'[m] = subscriptions
    BY <1>0, <2>1, NotReadIsNoArray DEF N!TypeOK
  <2>5. \A k \in DMs \ {m} : owed'[k] = owed[k] /\ round'[k] = round[k]
    BY <2>1 DEF N!TypeOK
  <2>6. N!EveryBrowserOnce'
    <3> SUFFICES ASSUME NEW k \in DMs, owed'[k] # N!NotRead
                 PROVE  /\ pushed'[k] \o round'[k] = owed'[k]
                        /\ Distinct(owed'[k])
      BY DEF N!EveryBrowserOnce, Distinct, N!NotRead
    <3>1. CASE k = m
      <4>1. pushed'[m] = <<>>
        BY <2>1
      <4> QED BY <2>1, <2>2, <2>4, <3>1, <4>1
    <3>2. CASE k # m
      <4>1. owed'[k] = owed[k] /\ round'[k] = round[k] /\ pushed'[k] = pushed[k]
        BY <2>1, <2>5, <3>2
      <4>2. owed[k] # N!NotRead
        BY <4>1
      <4>3. pushed[k] \o round[k] = owed[k] /\ Distinct(owed[k])
        BY <4>2 DEF N!EveryBrowserOnce, Distinct
      <4> QED BY <4>1, <4>3 DEF Distinct
    <3> QED BY <3>1, <3>2
  <2> QED BY <2>1, <2>3, <2>4, <2>5, <2>6 DEF Distinct, N!NotRead
<1>5. ASSUME NEW m \in DMs, NEW ok \in BOOLEAN, N!PushEnds(m, ok)
      PROVE  NotificationInv'
  <2> DEFINE head == Head(round[m])
  <2>1. /\ round[m] # <<>>
        /\ round' = [round EXCEPT ![m] = Tail(round[m])]
        /\ pushed' = [pushed EXCEPT ![m] = Append(pushed[m], head)]
        /\ subscriptions' = IF ok THEN subscriptions ELSE N!Without(head.key)
        /\ UNCHANGED <<made, owed>>
    BY <1>5 DEF N!PushEnds, N!Left
  <2>2. round[m] \in Seq(N!Subscriptions) /\ pushed[m] \in Seq(N!Subscriptions)
    BY DEF N!TypeOK
  <2>3. subscriptions' \in Seq(N!Subscriptions) /\ Distinct(subscriptions')
    BY <1>0, <1>1, <2>1
  <2>4. Tail(round[m]) \in Seq(N!Subscriptions) /\ Append(pushed[m], head) \in Seq(N!Subscriptions)
    BY <2>1, <2>2
  <2>5. Append(pushed[m], head) \o Tail(round[m]) = pushed[m] \o round[m]
    BY <2>1, <2>2, HeadMoves
  <2>6. N!TypeOK'
    BY <2>1, <2>3, <2>4 DEF N!TypeOK, N!Subscriptions
  <2>7. round'[m] = Tail(round[m]) /\ pushed'[m] = Append(pushed[m], head)
    BY <2>1 DEF N!TypeOK
  <2>8. \A k \in DMs \ {m} : pushed'[k] = pushed[k] /\ round'[k] = round[k]
    BY <2>1 DEF N!TypeOK
  <2>9. owed[m] # N!NotRead
    BY <2>1
  <2>10. N!EveryBrowserOnce'
    BY <2>1, <2>5, <2>7, <2>8 DEF N!EveryBrowserOnce
  <2> QED BY <2>1, <2>3, <2>6, <2>8, <2>9, <2>10 DEF N!NotRead
<1>6. CASE UNCHANGED notificationVars
  BY <1>6 DEF notificationVars, N!TypeOK, N!Subscriptions, N!EveryBrowserOnce, Distinct, N!NotRead
<1> QED BY <1>2, <1>3, <1>4, <1>5, <1>6 DEF N!Next

-----------------------------------------------------------------------------
(* The social graph                                                        *)

(* What populate() has made of the nodes u when it has seen the follows S, *)
(* pairs of who follows and who is followed, at distance z.                *)
Counted(u, S, z) ==
  [c \in DOMAIN u \cup {e[2] : e \in S} |->
     [z |-> IF c \in DOMAIN u THEN u[c].z ELSE z,
      n |-> (IF c \in DOMAIN u THEN u[c].n ELSE 0) + Cardinality({e \in S : e[2] = c})]]

(* Nodes at most z away. *)
NodesUpTo(u, z) ==
  /\ z \in Nat
  /\ u = [c \in DOMAIN u |-> [z |-> u[c].z, n |-> u[c].n]]
  /\ \A c \in DOMAIN u : u[c].z \in 0..z /\ u[c].n \in Nat

(* Without follows the nodes stay as they are. *)
LEMMA CountedNone ==
  ASSUME NEW u, NEW z, NodesUpTo(u, z)
  PROVE  Counted(u, {}, z) = u
<1>1. \A c : Cardinality({e \in {} : e[2] = c}) = 0
  BY FS_EmptySet
<1>2. Counted(u, {}, z) = [c \in DOMAIN u |-> [z |-> u[c].z, n |-> u[c].n]]
  BY <1>1 DEF Counted, NodesUpTo
<1> QED BY <1>2 DEF NodesUpTo

(* One more follow is one more occurrence of who is followed. *)
LEMMA CountedOneMore ==
  ASSUME NEW u, NEW z, NodesUpTo(u, z), NEW S, IsFiniteSet(S), NEW x \in S
  PROVE  Counted(u, S, z) = G!Occurs(Counted(u, S \ {x}, z), x[2], z)
<1> DEFINE T == S \ {x}
           v == Counted(u, T, z)
           w == Counted(u, S, z)
           from(R, c) == {e \in R : e[2] = c}
<1>1. IsFiniteSet(T)
  BY FS_RemoveElement
<1>2. \A c : IsFiniteSet(from(S, c)) /\ IsFiniteSet(from(T, c))
  BY <1>1, FS_Subset
<1>3. \A c : Cardinality(from(S, c)) \in Nat /\ Cardinality(from(T, c)) \in Nat
  BY <1>2, FS_CardinalityType
<1>4. \A c : c # x[2] => from(S, c) = from(T, c)
  OBVIOUS
<1>5. from(T, x[2]) = from(S, x[2]) \ {x} /\ x \in from(S, x[2])
  OBVIOUS
<1>6. Cardinality(from(S, x[2])) = Cardinality(from(T, x[2])) + 1
  <2> HIDE DEF from
  <2>1. Cardinality(from(S, x[2]) \ {x}) = Cardinality(from(S, x[2])) - 1
    BY <1>2, <1>5, FS_RemoveElement
  <2>2. Cardinality(from(S, x[2])) \in Nat
    BY <1>3
  <2>3. Cardinality(from(T, x[2])) = Cardinality(from(S, x[2])) - 1
    BY <1>5, <2>1
  <2> QED BY <2>2, <2>3
<1>7. DOMAIN w = DOMAIN v \cup {x[2]}
  BY DEF Counted
<1>8. x[2] \notin DOMAIN v => from(T, x[2]) = {} /\ x[2] \notin DOMAIN u
  BY DEF Counted
<1>9. \A c \in DOMAIN v : v[c] = [z |-> IF c \in DOMAIN u THEN u[c].z ELSE z,
                              n |-> (IF c \in DOMAIN u THEN u[c].n ELSE 0) + Cardinality(from(T, c))]
  BY DEF Counted
<1>10. \A c \in DOMAIN w : w[c] = [z |-> IF c \in DOMAIN u THEN u[c].z ELSE z,
                               n |-> (IF c \in DOMAIN u THEN u[c].n ELSE 0) + Cardinality(from(S, c))]
  BY DEF Counted
<1>11. \A c \in DOMAIN v : ~ (v[c].z > z)
  <2> HIDE DEF v, from
  <2>1. \A c \in DOMAIN v : v[c].z = IF c \in DOMAIN u THEN u[c].z ELSE z
    BY <1>9
  <2> QED BY <2>1 DEF NodesUpTo
<1>12. w = [c \in DOMAIN w |-> w[c]] /\ v = [c \in DOMAIN v |-> v[c]]
  BY DEF Counted
<1>13. CASE x[2] \notin DOMAIN v
  <2>1. w[x[2]] = [z |-> z, n |-> 1]
    <3>1. Cardinality(from(T, x[2])) = 0
      BY <1>8, <1>13, FS_EmptySet
    <3>2. Cardinality(from(S, x[2])) = 1
      BY <3>1, <1>6
    <3> HIDE DEF w, v, from
    <3> QED BY <1>7, <1>8, <1>10, <1>13, <3>2
  <2>2. \A c \in DOMAIN v : w[c] = v[c]
    <3> HIDE DEF w, v, from
    <3> QED BY <1>4, <1>7, <1>9, <1>10, <1>13
  <2>3. G!Occurs(v, x[2], z) = [d \in DOMAIN v \cup {x[2]} |->
                                 IF d = x[2] THEN [z |-> z, n |-> 1] ELSE v[d]]
    <3> HIDE DEF v
    <3> QED BY <1>13 DEF G!Occurs
  <2> HIDE DEF w, v
  <2>4. w = G!Occurs(v, x[2], z)
    BY <1>7, <1>12, <1>13, <2>1, <2>2, <2>3
  <2> QED BY <2>4 DEF w, v
<1>14. CASE x[2] \in DOMAIN v
  <2>1. G!Occurs(v, x[2], z) = [v EXCEPT ![x[2]].n = @ + 1]
    <3> HIDE DEF v
    <3> QED BY <1>11, <1>14 DEF G!Occurs
  <2> HIDE DEF w, v, from
  <2>2. \A c \in DOMAIN v : c # x[2] => w[c] = v[c]
    BY <1>4, <1>7, <1>9, <1>10
  <2>3. w[x[2]] = [v[x[2]] EXCEPT !.n = @ + 1]
    <3> DEFINE d == x[2]
               n == IF d \in DOMAIN u THEN u[d].n ELSE 0
    <3>1. n \in Nat
      BY DEF NodesUpTo
    <3>2. v[d] = [z |-> IF d \in DOMAIN u THEN u[d].z ELSE z, n |-> n + Cardinality(from(T, d))]
      BY <1>9, <1>14
    <3>3. w[d] = [z |-> IF d \in DOMAIN u THEN u[d].z ELSE z, n |-> n + Cardinality(from(S, d))]
      BY <1>7, <1>10, <1>14
    <3>4. Cardinality(from(S, d)) = Cardinality(from(T, d)) + 1 /\ Cardinality(from(T, d)) \in Nat
      BY <1>3, <1>6
    <3> HIDE DEF d, n
    <3>5. w[d] = [v[d] EXCEPT !.n = @ + 1]
      BY <3>1, <3>2, <3>3, <3>4
    <3> QED BY <3>5 DEF d
  <2>4. w = [v EXCEPT ![x[2]].n = @ + 1]
    BY <1>7, <1>12, <1>14, <2>2, <2>3
  <2> QED BY <2>1, <2>4 DEF w, v
<1> QED BY <1>13, <1>14

(* The fold of populate() over a finite set of follows counts them. *)
LEMMA FoldCounts ==
  ASSUME NEW u, NEW z, NodesUpTo(u, z), NEW F, IsFiniteSet(F)
  PROVE  G!FoldSet(LAMBDA e, nodes : G!Occurs(nodes, e[2], z), u, F) = Counted(u, F, z)
<1> DEFINE one(s) == CHOOSE e \in s : TRUE
           Iterates(it) ==
             it = [s \in SUBSET F |->
                     IF s = {} THEN u ELSE G!Occurs(it[s \ {one(s)}], one(s)[2], z)]
           fold == CHOOSE it : Iterates(it)
           count == [s \in SUBSET F |-> Counted(u, s, z)]
<1>1. G!FoldSet(LAMBDA e, nodes : G!Occurs(nodes, e[2], z), u, F) = fold[F]
  BY DEF G!FoldSet, G!MapThenFoldSet
<1>2. \A s : s # {} => one(s) \in s
  OBVIOUS
<1> HIDE DEF one
<1>3. \A s \in SUBSET F : IsFiniteSet(s)
  BY FS_Subset
<1>4. \A s \in SUBSET F :
        count[s] = IF s = {} THEN u ELSE G!Occurs(count[s \ {one(s)}], one(s)[2], z)
  <2> SUFFICES ASSUME NEW s \in SUBSET F
               PROVE  count[s] = IF s = {} THEN u ELSE G!Occurs(count[s \ {one(s)}], one(s)[2], z)
    OBVIOUS
  <2>1. CASE s = {}
    BY <2>1, CountedNone
  <2>2. CASE s # {}
    <3>1. Counted(u, s, z) = G!Occurs(Counted(u, s \ {one(s)}, z), one(s)[2], z)
      BY <1>2, <1>3, <2>2, CountedOneMore
    <3>2. s \ {one(s)} \in SUBSET F
      OBVIOUS
    <3> QED BY <2>2, <3>1, <3>2
  <2> QED BY <2>1, <2>2
<1>5. Iterates(count)
  <2>1. count = [s \in SUBSET F |-> count[s]]
    OBVIOUS
  <2> HIDE DEF count
  <2> QED BY <1>4, <2>1
<1>6. Iterates(fold)
  <2> HIDE DEF Iterates
  <2> QED BY <1>5
<1>7. \A s \in SUBSET F :
        fold[s] = IF s = {} THEN u ELSE G!Occurs(fold[s \ {one(s)}], one(s)[2], z)
  <2> HIDE DEF fold
  <2> QED BY <1>6
<1> HIDE DEF fold, count
<1> DEFINE D == {s \in SUBSET F : fold[s] # count[s]}
<1>8. D = {}
  <2> SUFFICES ASSUME D # {} PROVE FALSE
    OBVIOUS
  <2>1. PICK s \in D : \A t \in D : <<t, s>> \notin StrictSubsetOrdering(F)
    <3>1. D \subseteq FiniteSubsetsOf(F)
      BY <1>3 DEF FiniteSubsetsOf
    <3> HIDE DEF D
    <3> QED BY <3>1, FS_StrictSubsetOrderingWellFounded, WFMin
  <2>2. s # {}
    BY <1>4, <1>7
  <2>3. s \ {one(s)} \in SUBSET F /\ s \ {one(s)} # s
    BY <1>2, <2>2
  <2>4. <<s \ {one(s)}, s>> \in StrictSubsetOrdering(F)
    BY <2>3 DEF StrictSubsetOrdering
  <2>5. fold[s \ {one(s)}] = count[s \ {one(s)}]
    BY <2>1, <2>3, <2>4
  <2> QED BY <1>4, <1>7, <2>2, <2>3, <2>5
<1>9. fold[F] = count[F]
  BY <1>8
<1> QED BY <1>1, <1>9 DEF count

(* The pairs that populate() goes through. *)
Follows(S) == {e \in S \X People : e[2] \in contacts[e[1]].set /\ e[1] # e[2]}

(* A pair for each follower. *)
LEMMA FollowsOf ==
  ASSUME NEW S \in SUBSET People, G!TypeOK
  PROVE  /\ IsFiniteSet(Follows(S))
         /\ \A c : IsFiniteSet(G!FollowersOf(c, S))
         /\ \A c : Cardinality({e \in Follows(S) : e[2] = c}) = Cardinality(G!FollowersOf(c, S))
         /\ \A c : c \in {e[2] : e \in Follows(S)} <=> G!FollowersOf(c, S) # {}
<1>1. IsFiniteSet(S) /\ IsFiniteSet(People)
  BY NodeAssumption, FS_Subset
<1>2. IsFiniteSet(Follows(S))
  <2>1. IsFiniteSet(S \X People)
    BY <1>1, FS_Product
  <2>2. Follows(S) \subseteq S \X People
    BY DEF Follows
  <2> QED BY <2>1, <2>2, FS_Subset
<1>3. ASSUME NEW c
      PROVE  /\ IsFiniteSet(G!FollowersOf(c, S))
             /\ Cardinality({e \in Follows(S) : e[2] = c}) = Cardinality(G!FollowersOf(c, S))
             /\ c \in {e[2] : e \in Follows(S)} <=> G!FollowersOf(c, S) # {}
  <2> DEFINE A == G!FollowersOf(c, S)
             B == {e \in Follows(S) : e[2] = c}
             pair == [p \in A |-> <<p, c>>]
  <2>1. IsFiniteSet(A)
    BY <1>1, FS_Subset DEF G!FollowersOf
  <2>2. \A p \in A : <<p, c>> \in B
    BY DEF G!FollowersOf, Follows, G!TypeOK, G!Lists
  <2>3. \A e \in B : e[1] \in A /\ e = <<e[1], c>>
    BY DEF G!FollowersOf, Follows
  <2>4. pair \in Bijection(A, B)
    <3> HIDE DEF A, B
    <3>1. pair \in Injection(A, B)
      BY <2>2 DEF Injection, IsInjective
    <3>2. pair \in Surjection(A, B)
      BY <2>2, <2>3 DEF Surjection
    <3> QED BY <3>1, <3>2 DEF Bijection
  <2>5. Cardinality(A) = Cardinality(B)
    <3> HIDE DEF A, B, pair
    <3>1. ExistsBijection(A, B)
      BY <2>4 DEF ExistsBijection
    <3> QED BY <2>1, <3>1, FS_Bijection
  <2>6. c \in {e[2] : e \in Follows(S)} <=> B # {}
    OBVIOUS
  <2>7. B # {} <=> A # {}
    BY <2>2, <2>3
  <2> QED BY <2>1, <2>5, <2>6, <2>7
<1> QED BY <1>2, <1>3

(* populate() counts the follows of the people given. *)
LEMMA PopulateCounts ==
  ASSUME NEW u, NEW z, NodesUpTo(u, z), NEW S \in SUBSET People, G!TypeOK
  PROVE  G!Populate(u, S, z) = Counted(u, Follows(S), z)
<1>1. IsFiniteSet(Follows(S))
  BY FollowsOf
<1>2. G!Populate(u, S, z) = G!FoldSet(LAMBDA e, nodes : G!Occurs(nodes, e[2], z), u, Follows(S))
  BY DEF G!Populate, Follows
<1> QED BY <1>1, <1>2, FoldCounts

(* Who is followed by some roots, and by those. *)
Near(roots) == {c \in People \ roots : G!FollowersOf(c, roots) # {}}
Far(roots) == {c \in People \ (roots \cup Near(roots)) : G!FollowersOf(c, Near(roots)) # {}}

(* The node of a person: how many steps away, and how many follow him.     *)
NodeOf(c, roots, near) ==
  [z |-> IF c \in roots THEN 0 ELSE IF c \in near THEN 1 ELSE 2,
   n |-> Cardinality(G!FollowersOf(c, roots \cup near)) + IF c \in roots THEN 1 ELSE 0]

(* The two passes of getNodes() from some roots. *)
LEMMA TwoPasses ==
  ASSUME G!TypeOK, NEW roots \in SUBSET People
  PROVE  G!GetNodes(roots) =
           [c \in roots \cup Near(roots) \cup Far(roots) |-> NodeOf(c, roots, Near(roots))]
<1> DEFINE start == [p \in roots |-> [z |-> 0, n |-> 1]]
           from(c, S) == Cardinality({e \in Follows(S) : e[2] = c})
           own(c) == IF c \in roots THEN 1 ELSE 0
<1> SUFFICES ASSUME NEW near, near = {c \in People \ roots : G!FollowersOf(c, roots) # {}},
                    NEW far, far = {c \in People \ (roots \cup near) : G!FollowersOf(c, near) # {}},
                    NEW first, first = G!Populate(start, roots, 1),
                    NEW second, second = G!Populate(first, near, 2),
                    NEW a, a = [c \in People |-> Cardinality(G!FollowersOf(c, roots))],
                    NEW b, b = [c \in People |-> Cardinality(G!FollowersOf(c, near))]
             PROVE  G!GetNodes(roots) = [c \in roots \cup near \cup far |-> NodeOf(c, roots, near)]
  BY DEF Near, Far
<1>1. /\ near \in SUBSET People /\ far \in SUBSET People
      /\ roots \cap near = {} /\ (roots \cup near) \cap far = {}
  OBVIOUS
<1>2. \A c : G!FollowersOf(c, roots) # {} \/ G!FollowersOf(c, near) # {} => c \in People
  BY <1>1 DEF G!FollowersOf, G!TypeOK, G!Lists
<1>3. \A c \in People : /\ IsFiniteSet(G!FollowersOf(c, roots))
                        /\ IsFiniteSet(G!FollowersOf(c, near))
                        /\ a[c] = Cardinality(G!FollowersOf(c, roots))
                        /\ b[c] = Cardinality(G!FollowersOf(c, near))
                        /\ a[c] \in Nat
                        /\ b[c] \in Nat
  BY <1>1, FollowsOf, FS_CardinalityType
<1>4. ASSUME NEW c \in People
      PROVE  Cardinality(G!FollowersOf(c, roots \cup near)) = a[c] + b[c]
  <2> DEFINE A == G!FollowersOf(c, roots)
             B == G!FollowersOf(c, near)
  <2>1. G!FollowersOf(c, roots \cup near) = A \cup B /\ A \cap B = {}
    BY <1>1 DEF G!FollowersOf
  <2>2. IsFiniteSet(A) /\ IsFiniteSet(B) /\ Cardinality({}) = 0
    BY <1>3, FS_EmptySet
  <2> HIDE DEF A, B
  <2>3. Cardinality(A \cup B) = Cardinality(A) + Cardinality(B) - 0
    BY <2>1, <2>2, FS_Union
  <2>4. a[c] = Cardinality(A) /\ b[c] = Cardinality(B)
    BY <1>3 DEF A, B
  <2>5. Cardinality(A) \in Nat /\ Cardinality(B) \in Nat
    BY <1>3, <2>4
  <2>6. Cardinality(A \cup B) = Cardinality(A) + Cardinality(B)
    BY <2>3, <2>5
  <2> QED BY <2>1, <2>4, <2>6
<1>5. \A c \in People : from(c, roots) = a[c] /\ from(c, near) = b[c]
  BY <1>1, <1>3, FollowsOf
<1>6. \A c \in People \ (roots \cup near) : a[c] = 0
  <2>1. \A c \in People \ (roots \cup near) : G!FollowersOf(c, roots) = {}
    OBVIOUS
  <2> QED BY <1>3, <2>1, FS_EmptySet
<1>7. NodesUpTo(start, 1)
  BY DEF NodesUpTo
<1>8. first = Counted(start, Follows(roots), 1)
  BY <1>7, PopulateCounts
<1>9. roots \cup {e[2] : e \in Follows(roots)} = roots \cup near
  <2>1. \A c : c \in {e[2] : e \in Follows(roots)} <=> G!FollowersOf(c, roots) # {}
    BY FollowsOf
  <2> QED BY <1>2, <2>1
<1>10. roots \cup near \cup {e[2] : e \in Follows(near)} = roots \cup near \cup far
  <2>1. \A c : c \in {e[2] : e \in Follows(near)} <=> G!FollowersOf(c, near) # {}
    BY <1>1, FollowsOf
  <2> QED BY <1>2, <2>1
<1>11. first = [c \in roots \cup near |->
                  [z |-> IF c \in roots THEN 0 ELSE 1, n |-> own(c) + a[c]]]
  <2>1. first = [c \in roots \cup {e[2] : e \in Follows(roots)} |->
                   [z |-> IF c \in roots THEN start[c].z ELSE 1,
                    n |-> (IF c \in roots THEN start[c].n ELSE 0) + from(c, roots)]]
    BY <1>8 DEF Counted
  <2> HIDE DEF from
  <2> QED BY <1>1, <1>5, <1>9, <2>1
<1>12. /\ DOMAIN first = roots \cup near
       /\ \A c \in roots \cup near : /\ first[c].z = IF c \in roots THEN 0 ELSE 1
                                     /\ first[c].n = own(c) + a[c]
                                     /\ first[c] = [z |-> first[c].z, n |-> first[c].n]
  <2> HIDE DEF own
  <2> QED BY <1>11
<1>12a. NodesUpTo(first, 2)
  <2>1. \A c \in roots \cup near : own(c) \in Nat /\ a[c] \in Nat
    BY <1>1, <1>3
  <2> HIDE DEF own
  <2>2. \A c \in roots \cup near : own(c) + a[c] \in Nat
    BY <2>1
  <2>3. first = [c \in DOMAIN first |-> first[c]]
    BY <1>11
  <2>4. first = [c \in DOMAIN first |-> [z |-> first[c].z, n |-> first[c].n]]
    BY <1>12, <2>3
  <2>5. ASSUME NEW c \in DOMAIN first
        PROVE  first[c].z \in 0..2 /\ first[c].n \in Nat
    <3>1. c \in roots \cup near
      BY <1>12
    <3>2. first[c].z = 0 \/ first[c].z = 1
      BY <1>12, <3>1
    <3>3. first[c].n = own(c) + a[c]
      BY <1>12, <3>1
    <3>4. own(c) + a[c] \in Nat
      BY <2>2, <3>1
    <3>5. first[c].n \in Nat
      BY <3>3, <3>4
    <3>6. first[c].z \in 0..2
      BY <3>2
    <3> QED BY <3>5, <3>6
  <2> QED BY <2>4, <2>5 DEF NodesUpTo
<1>13. G!Followed(first) = near
  <2>1. \A c \in roots \cup near : first[c].z = IF c \in roots THEN 0 ELSE 1
    BY <1>12
  <2>2. DOMAIN first = roots \cup near
    BY <1>12
  <2> QED BY <1>1, <2>1, <2>2 DEF G!Followed
<1>14. G!GetNodes(roots) = second
  BY <1>13 DEF G!GetNodes
<1>15. second = Counted(first, Follows(near), 2)
  BY <1>1, <1>12a, PopulateCounts
<1>16. second = [c \in roots \cup near \cup far |->
                   [z |-> IF c \in roots \cup near THEN first[c].z ELSE 2,
                    n |-> (IF c \in roots \cup near THEN first[c].n ELSE 0) + from(c, near)]]
  <2> HIDE DEF from
  <2>1. DOMAIN first = roots \cup near
    BY <1>12
  <2> QED BY <1>10, <1>15, <2>1 DEF Counted, from
<1>17. ASSUME NEW c \in roots \cup near \cup far
       PROVE  /\ (IF c \in roots \cup near THEN first[c].z ELSE 2)
                   = IF c \in roots THEN 0 ELSE IF c \in near THEN 1 ELSE 2
              /\ (IF c \in roots \cup near THEN first[c].n ELSE 0) + from(c, near)
                   = Cardinality(G!FollowersOf(c, roots \cup near)) + own(c)
  <2>1. c \in People /\ a[c] \in Nat /\ b[c] \in Nat
    BY <1>1, <1>3
  <2>2. from(c, near) = b[c] /\ Cardinality(G!FollowersOf(c, roots \cup near)) = a[c] + b[c]
    BY <1>4, <1>5, <2>1
  <2> HIDE DEF from
  <2>3. CASE c \in roots \cup near
    <3>1. first[c].z = (IF c \in roots THEN 0 ELSE 1) /\ first[c].n = own(c) + a[c]
      BY <1>12, <2>3
    <3> QED BY <2>1, <2>2, <2>3, <3>1
  <2>4. CASE c \notin roots \cup near
    <3>1. a[c] = 0
      BY <1>6, <2>1, <2>4
    <3> QED BY <2>1, <2>2, <2>4, <3>1
  <2> QED BY <2>3, <2>4
<1>18. ASSUME NEW c \in roots \cup near \cup far
       PROVE  NodeOf(c, roots, near) =
                [z |-> IF c \in roots \cup near THEN first[c].z ELSE 2,
                 n |-> (IF c \in roots \cup near THEN first[c].n ELSE 0) + from(c, near)]
  <2> HIDE DEF from
  <2> QED BY <1>17 DEF NodeOf
<1> HIDE DEF from, own
<1> QED BY <1>14, <1>16, <1>18

(* getNodes() returns who is followed in two steps, whatever the lists.    *)
LEMMA NodesCounted == G!TypeOK => G!NodesAreFollowed
<1> SUFFICES ASSUME G!TypeOK, NEW roots \in SUBSET People
             PROVE  LET near  == {c \in People \ roots : G!FollowersOf(c, roots) # {}}
                        far   == {c \in People \ (roots \cup near) : G!FollowersOf(c, near) # {}}
                        steps(c) == IF c \in roots THEN 0 ELSE IF c \in near THEN 1 ELSE 2
                        count(c) == G!Cardinality(G!FollowersOf(c, roots \cup near))
                                      + IF c \in roots THEN 1 ELSE 0
                    IN  G!GetNodes(roots)
                          = [c \in roots \cup near \cup far |-> [z |-> steps(c), n |-> count(c)]]
  BY DEF G!NodesAreFollowed
<1> DEFINE near == {c \in People \ roots : G!FollowersOf(c, roots) # {}}
           far  == {c \in People \ (roots \cup near) : G!FollowersOf(c, near) # {}}
           nodes(c) == [z |-> IF c \in roots THEN 0 ELSE IF c \in near THEN 1 ELSE 2,
                         n |-> G!Cardinality(G!FollowersOf(c, roots \cup near))
                                 + IF c \in roots THEN 1 ELSE 0]
<1>1. \A S : G!Cardinality(S) = Cardinality(S)
  BY DEF G!Cardinality, Cardinality
<1>2. \A c : nodes(c) = NodeOf(c, roots, near)
  <2> SUFFICES ASSUME NEW c PROVE nodes(c) = NodeOf(c, roots, near)
    OBVIOUS
  <2>1. G!Cardinality(G!FollowersOf(c, roots \cup near)) = Cardinality(G!FollowersOf(c, roots \cup near))
    BY <1>1
  <2> HIDE DEF near
  <2> QED BY <2>1 DEF NodeOf
<1>3. G!GetNodes(roots) = [c \in roots \cup near \cup far |-> NodeOf(c, roots, near)]
  <2>1. near = Near(roots) /\ far = Far(roots)
    BY DEF Near, Far
  <2> HIDE DEF near, far
  <2> QED BY <2>1, TwoPasses
<1>4. G!GetNodes(roots) = [c \in roots \cup near \cup far |-> nodes(c)]
  <2> HIDE DEF near, far, nodes
  <2> QED BY <1>2, <1>3
<1> QED BY <1>4

-----------------------------------------------------------------------------
(* The parts together                                                      *)

(* The inductive invariant of the module, a conjunct for each part. *)
NodeInv == NotificationInv /\ PoolInv /\ G!TypeOK

(* The lists keep their type. *)
LEMMA GraphStep == G!TypeOK /\ (G!Next \/ UNCHANGED contacts) => G!TypeOK'
<1> SUFFICES ASSUME G!TypeOK, G!Next \/ UNCHANGED contacts
             PROVE  G!TypeOK'
  OBVIOUS
<1> USE DEF G!TypeOK
<1>1. ASSUME NEW p \in People, NEW list \in G!Lists, G!AddContacts(p, list)
      PROVE  G!TypeOK'
  BY <1>1 DEF G!AddContacts, G!Lists
<1>2. CASE UNCHANGED contacts
  BY <1>2 DEF G!Lists
<1> QED BY <1>1, <1>2 DEF G!Next

LEMMA NodeInit == Init => NodeInv
<1>1. G!Init => G!TypeOK
  BY NodeAssumption DEF G!Init, G!TypeOK, G!Lists
<1> QED BY <1>1, NotificationInit, PoolInit DEF Init, NodeInv

LEMMA NodeStep == NodeInv /\ [Next]_vars => NodeInv'
<1> SUFFICES ASSUME NodeInv, [Next]_vars
             PROVE  NodeInv'
  OBVIOUS
<1>1. /\ N!Next \/ UNCHANGED notificationVars
      /\ P!Next \/ UNCHANGED poolVars
      /\ G!Next \/ UNCHANGED contacts
  BY DEF Next, vars
<1> QED BY <1>1, NotificationStep, PoolStep, GraphStep DEF NodeInv

(* NodeInv holds in every reachable state. *)
THEOREM NodeInvariance == Spec => []NodeInv
BY NodeInit, NodeStep, PTL DEF Spec

(* Every variable keeps its type. *)
THEOREM NodeTypes == Spec => []TypeOK
<1>1. NodeInv => TypeOK
  BY DEF NodeInv, NotificationInv, PoolInv, TypeOK
<1> QED BY NodeInvariance, <1>1, PTL

(* notify() pushes a message once to every browser that was registered     *)
(* when it came, whatever registers, unregisters or fails meanwhile.       *)
THEOREM PushedOnce == Spec => []EveryBrowserOnce
<1>1. NodeInv => EveryBrowserOnce
  BY DEF NodeInv, NotificationInv, EveryBrowserOnce
<1> QED BY NodeInvariance, <1>1, PTL

(* checkRelay() cuts the node off for good from a relay that it has        *)
(* recognised as itself, and REMOTE-AUTH reports no other.                 *)
THEOREM LeavesItself == Spec => []SelfStaysOut
<1>1. NodeInv => SelfStaysOut
  BY DEF NodeInv, PoolInv, SelfStaysOut
<1> QED BY NodeInvariance, <1>1, PTL

(* getNodes() returns who is followed in at most two steps, with the least *)
(* number of steps and the number of followers, in every state.            *)
THEOREM GraphIsRight == Spec => []NodesAreFollowed
<1>1. NodeInv => NodesAreFollowed
  BY NodesCounted DEF NodeInv, NodesAreFollowed
<1> QED BY NodeInvariance, <1>1, PTL
=============================================================================
