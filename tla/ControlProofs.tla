---------------------------- MODULE ControlProofs ----------------------------
(***************************************************************************)
(* Proofs about module Control, for any connections, with a parent process *)
(* or without, any people and any number of lines.  Each property of a     *)
(* state is inductive together with the types, but for LogIsFollowed: it   *)
(* also needs that lines are numbered as they are logged, and that nobody, *)
(* subscribed or not, has lines that are neither in the log nor among      *)
(* those it was not told were cleared.                                     *)
(***************************************************************************)
EXTENDS Control, FiniteSetTheorems, TLAPS

LogInv ==
  /\ lines \subseteq 1..logged
  /\ \A k \in Connections : logView[k] \subseteq lines \cup unaware[k]
  /\ LogIsFollowed

-----------------------------------------------------------------------------
(* Types *)

(* The bounds are what ControlAssumption says. *)
LEMMA Bounds ==
  /\ MaxLines \in Nat /\ MaxCount \in Nat /\ Initial \in Nat
  /\ NoStats \in Nat /\ MaxCount < NoStats
  /\ \A k \in Socks : k \notin Parents
  /\ NoOwner \notin Pubkeys
BY ControlAssumption DEF ControlAssumption, NoStats

(* A line keeps the types of the log. *)
LEMMA LogType ==
  ASSUME TypeOK, Log
  PROVE  /\ logSubs' \subseteq Connections
         /\ logView' \in [Connections -> SUBSET (1..MaxLines)]
         /\ unaware' \in [Connections -> SUBSET (1..MaxLines)]
         /\ lines' \subseteq 1..MaxLines
         /\ logged' \in 0..MaxLines
<1>1. logged' \in 1..MaxLines
  BY Bounds DEF TypeOK, Log
<1> QED
  BY <1>1, Bounds DEF TypeOK, Log, NextLine

(* Every step keeps the types. *)
LEMMA TypeStep == TypeOK /\ [Next]_vars => TypeOK'
<1> SUFFICES ASSUME TypeOK, [Next]_vars PROVE TypeOK'
  OBVIOUS
<1> USE DEF socketVars, configVars, logVars, statsVars
<1>1. ASSUME NEW k \in Socks, Connect(k) PROVE TypeOK'
  BY <1>1 DEF TypeOK, Connect
<1>2. ASSUME NEW k \in Socks, Close(k) PROVE TypeOK'
  <2>1. NoStats \in 0..NoStats
    BY Bounds
  <2>2. /\ statsView' \in [Connections -> 0..NoStats]
        /\ logView' \in [Connections -> SUBSET (1..MaxLines)]
        /\ unaware' \in [Connections -> SUBSET (1..MaxLines)]
        /\ configView' \in [Connections -> Pubkeys \cup {NoOwner}]
    BY <1>2, <2>1 DEF TypeOK, Close
  <2> QED
    BY <1>2, <2>2 DEF TypeOK, Close, Disconnect, ConfigForgets
<1>3. ASSUME NEW k \in Socks, NEW p \in Pubkeys, CheckAuth(k, p) PROVE TypeOK'
  BY <1>3 DEF TypeOK, CheckAuth, ConfigChanged
<1>4. ASSUME NEW k \in Connections, AuthCode(k) PROVE TypeOK'
  BY <1>4 DEF TypeOK, AuthCode
<1>5. ASSUME NEW k \in Connections, ConfigSubscribe(k) PROVE TypeOK'
  BY <1>5 DEF TypeOK, ConfigSubscribe
<1>6. ASSUME NEW k \in Connections, NEW p \in Pubkeys, SetOwner(k, p) PROVE TypeOK'
  BY <1>6 DEF TypeOK, SetOwner, ConfigChanged
<1>7. ASSUME NEW k \in Connections, LogSubscribe(k) PROVE TypeOK'
  <2>1. InitialLines \subseteq lines
    BY DEF InitialLines, Newest
  <2> QED
    BY <1>7, <2>1 DEF TypeOK, LogSubscribe
<1>8. ASSUME NEW k \in Connections, LogUnsubscribe(k) PROVE TypeOK'
  BY <1>8 DEF TypeOK, LogUnsubscribe
<1>9. ASSUME NEW k \in Connections, LogClear(k) PROVE TypeOK'
  BY <1>9 DEF TypeOK, LogClear
<1>10. ASSUME NEW k \in Connections, StatsSubscribe(k) PROVE TypeOK'
  BY <1>10, Bounds DEF TypeOK, StatsSubscribe
<1>11. ASSUME NEW k \in Connections, StatsUnsubscribe(k) PROVE TypeOK'
  BY <1>11 DEF TypeOK, StatsUnsubscribe
<1>12. ASSUME NEW k \in Connections, Stats(k) PROVE TypeOK'
  BY <1>12, Bounds DEF TypeOK, Stats
<1>13. ASSUME NEW k \in Connections, ClearDatabase(k) PROVE TypeOK'
  BY <1>13, LogType, Bounds DEF TypeOK, ClearDatabase
<1>14. CASE LogLine
  BY <1>14, LogType DEF TypeOK, LogLine
<1>15. CASE Tick
  BY <1>15, Bounds DEF TypeOK, Tick
<1>16. CASE StoreChanges
  BY <1>16 DEF TypeOK, StoreChanges
<1>17. CASE UNCHANGED vars
  BY <1>17 DEF TypeOK, vars
<1>18. ASSUME NEW k \in Socks, SocketAuth(k) PROVE TypeOK'
  BY <1>18 DEF TypeOK, SocketAuth, PassedAlong, Connections
<1> QED
  BY <1>1, <1>2, <1>3, <1>4, <1>5, <1>6, <1>7, <1>8, <1>9, <1>10, <1>11, <1>12, <1>13,
     <1>14, <1>15, <1>16, <1>17, <1>18 DEF Next

(* Every variable has its type. *)
THEOREM TypeCorrect == Spec => []TypeOK
<1>1. Init => TypeOK
  BY Bounds DEF Init, TypeOK
<1> QED
  BY <1>1, TypeStep, PTL DEF Spec

-----------------------------------------------------------------------------
(* Who is authenticated and subscribed *)

(* Who waits for 'socket:auth' is connected. *)
CheckedIsOpen == \A k \in Socks : checked[k] # NoOwner => state[k] = "open"

ClosedInv == NothingKeepsClosed /\ CheckedIsOpen

(* What the handlers subscribe is a connection that is open, and one that  *)
(* has been authenticated unless it is the parent.                         *)
LEMMA HandledIsOpen ==
  ASSUME NEW k \in Connections, Connected(k)
  PROVE  /\ k \in Socks => state[k] = "open"
         /\ Handled(k) => k \in authenticated \cup Parents
BY Bounds DEF Connected, Handled, Connections

(* Passing checkAuth, closing and 'socket:auth' are of open connections.   *)
LEMMA CheckedStep == TypeOK /\ CheckedIsOpen /\ [Next]_vars => CheckedIsOpen'
<1> SUFFICES ASSUME TypeOK, CheckedIsOpen, [Next]_vars PROVE CheckedIsOpen'
  OBVIOUS
<1> USE DEF CheckedIsOpen, TypeOK
<1>1. ASSUME NEW k \in Socks, Connect(k) PROVE CheckedIsOpen'
  BY <1>1 DEF Connect
<1>2. ASSUME NEW k \in Socks, Close(k) PROVE CheckedIsOpen'
  BY <1>2 DEF Close
<1>3. ASSUME NEW k \in Socks, NEW p \in Pubkeys, CheckAuth(k, p) PROVE CheckedIsOpen'
  BY <1>3 DEF CheckAuth
<1>4. ASSUME NEW k \in Socks, SocketAuth(k) PROVE CheckedIsOpen'
  BY <1>4 DEF SocketAuth
<1>5. ASSUME UNCHANGED <<state, checked>> PROVE CheckedIsOpen'
  BY <1>5
<1> QED
  BY <1>1, <1>2, <1>3, <1>4, <1>5
  DEF Next, AuthCode, ConfigSubscribe, SetOwner, LogSubscribe, LogUnsubscribe, LogClear,
      StatsSubscribe, StatsUnsubscribe, Stats, ClearDatabase, LogLine, Tick, StoreChanges,
      socketVars, vars

(* A connection that closes is left in none of the sets, and every other   *)
(* step adds open ones only.                                               *)
LEMMA ClosedStep ==
  TypeOK /\ ClosedInv /\ [Next]_vars => NothingKeepsClosed'
<1> SUFFICES ASSUME TypeOK, NothingKeepsClosed, CheckedIsOpen, [Next]_vars,
                    NEW j \in Socks, state'[j] # "open"
             PROVE  j \notin (authenticated \cup Subscribed)'
  BY DEF NothingKeepsClosed, ClosedInv
<1> USE DEF socketVars, configVars, logVars, statsVars, Subscribed, NothingKeepsClosed
<1>1. ASSUME NEW k \in Socks, Connect(k) PROVE j \notin (authenticated \cup Subscribed)'
  BY <1>1 DEF TypeOK, Connect
<1>2. ASSUME NEW k \in Socks, Close(k) PROVE j \notin (authenticated \cup Subscribed)'
  BY <1>2 DEF TypeOK, Close, Disconnect, ConfigForgets
<1>3. ASSUME NEW k \in Socks, NEW p \in Pubkeys, CheckAuth(k, p)
      PROVE  j \notin (authenticated \cup Subscribed)'
  BY <1>3 DEF CheckAuth, ConfigChanged
<1>4. ASSUME NEW k \in Connections,
             \/ AuthCode(k) \/ ConfigSubscribe(k) \/ \E p \in Pubkeys : SetOwner(k, p)
             \/ LogSubscribe(k) \/ LogUnsubscribe(k) \/ LogClear(k)
             \/ StatsSubscribe(k) \/ StatsUnsubscribe(k) \/ Stats(k)
             \/ ClearDatabase(k)
      PROVE  j \notin (authenticated \cup Subscribed)'
  <2>1. Connected(k) /\ state' = state
    BY <1>4 DEF Handled, AuthCode, ConfigSubscribe, SetOwner, LogSubscribe, LogUnsubscribe,
                LogClear, StatsSubscribe, StatsUnsubscribe, Stats, ClearDatabase
  <2>2. k # j
    BY <2>1, HandledIsOpen
  <2> QED
    BY <1>4, <2>1, <2>2
    DEF AuthCode, ConfigSubscribe, SetOwner, ConfigChanged, LogSubscribe, LogUnsubscribe,
        LogClear, StatsSubscribe, StatsUnsubscribe, Stats, ClearDatabase, Log
<1>5. CASE LogLine \/ Tick \/ StoreChanges
  BY <1>5 DEF LogLine, Log, Tick, StoreChanges
<1>6. CASE UNCHANGED vars
  BY <1>6 DEF vars
<1>7. ASSUME NEW k \in Socks, SocketAuth(k)
      PROVE  j \notin (authenticated \cup Subscribed)'
  BY <1>7 DEF SocketAuth, PassedAlong, CheckedIsOpen
<1> QED
  BY <1>1, <1>2, <1>3, <1>4, <1>5, <1>6, <1>7 DEF Next

(* Nothing is left of a connection after it closed (handleDisconnect and   *)
(* the 'close' listeners).                                                 *)
THEOREM ClosedAreForgotten == Spec => []NothingKeepsClosed
<1>1. Init => ClosedInv
  BY DEF Init, ClosedInv, CheckedIsOpen, NothingKeepsClosed, Subscribed
<1>2. TypeOK /\ ClosedInv /\ [Next]_vars => ClosedInv'
  BY CheckedStep, ClosedStep DEF ClosedInv
<1>3. ClosedInv => NothingKeepsClosed
  BY DEF ClosedInv
<1> QED
  BY <1>1, <1>2, <1>3, TypeCorrect, PTL DEF Spec

(* Subscriptions are of authenticated connections: closing undoes both.    *)
SubscribersHaveControl == Subscribed \subseteq authenticated \cup Parents

(* What a step adds to the subscribers has control. *)
LEMMA SubscribedStep ==
  SubscribersHaveControl /\ [Next]_vars => SubscribersHaveControl'
<1> SUFFICES ASSUME SubscribersHaveControl, [Next]_vars PROVE SubscribersHaveControl'
  OBVIOUS
<1> USE DEF socketVars, configVars, logVars, statsVars, Subscribed, SubscribersHaveControl
<1>1. ASSUME NEW k \in Socks, Connect(k) \/ SocketAuth(k) \/ \E p \in Pubkeys : CheckAuth(k, p)
      PROVE  SubscribersHaveControl'
  BY <1>1 DEF Connect, SocketAuth, CheckAuth, ConfigChanged
<1>2. ASSUME NEW k \in Socks, Close(k) PROVE SubscribersHaveControl'
  BY <1>2 DEF Close, Disconnect, ConfigForgets
<1>3. ASSUME NEW k \in Connections, AuthCode(k) PROVE SubscribersHaveControl'
  BY <1>3 DEF AuthCode
<1>4. ASSUME NEW k \in Connections,
             \/ ConfigSubscribe(k) \/ \E p \in Pubkeys : SetOwner(k, p)
             \/ LogSubscribe(k) \/ LogUnsubscribe(k) \/ LogClear(k)
             \/ StatsSubscribe(k) \/ StatsUnsubscribe(k) \/ Stats(k)
             \/ ClearDatabase(k)
      PROVE  SubscribersHaveControl'
  <2>1. k \in authenticated \cup Parents /\ UNCHANGED socketVars
    BY <1>4 DEF Handled, ConfigSubscribe, SetOwner, LogSubscribe, LogUnsubscribe, LogClear,
                StatsSubscribe, StatsUnsubscribe, Stats, ClearDatabase
  <2>2. Subscribed' \subseteq Subscribed \cup {k}
    BY <1>4 DEF ConfigSubscribe, SetOwner, ConfigChanged, LogSubscribe, LogUnsubscribe,
                LogClear, StatsSubscribe, StatsUnsubscribe, Stats, ClearDatabase, Log
  <2> QED
    BY <2>1, <2>2
<1>5. CASE LogLine \/ Tick \/ StoreChanges
  BY <1>5 DEF LogLine, Log, Tick, StoreChanges
<1>6. CASE UNCHANGED vars
  BY <1>6 DEF vars
<1> QED
  BY <1>1, <1>2, <1>3, <1>4, <1>5, <1>6 DEF Next

(* Control is earned by the auth code, or with the key of who owns the     *)
(* node when 'socket:auth' is emitted, although it may change after        *)
(* checkAuth; and only who has control is told of the node.                *)
THEOREM ControlMustBeEarned == Spec => ControlIsEarned
<1> DEFINE Earned ==
      \A k \in authenticated' \ authenticated :
        AuthCode(k) \/ (k \in Socks /\ owner # NoOwner /\ checked[k] = owner)
<1>1. [Next]_vars => [Earned]_vars
  <2> SUFFICES ASSUME Next, NEW k \in authenticated' \ authenticated
               PROVE  AuthCode(k) \/ (k \in Socks /\ owner # NoOwner /\ checked[k] = owner)
    OBVIOUS
  <2>1. CASE \E j \in Connections : AuthCode(j)
    BY <2>1 DEF AuthCode
  <2>2. CASE \E j \in Socks : SocketAuth(j)
    BY <2>2 DEF SocketAuth, PassedAlong
  <2>3. \A j \in Socks : ~ Close(j)
    BY DEF Close, Disconnect
  <2> QED
    BY <2>1, <2>2, <2>3
    DEF Next, Connect, CheckAuth, ConfigSubscribe, SetOwner, LogSubscribe, LogUnsubscribe,
        LogClear, StatsSubscribe, StatsUnsubscribe, Stats, ClearDatabase, LogLine, Tick,
        StoreChanges, socketVars
<1>2. Spec => [][Earned]_vars
  BY <1>1, PTL DEF Spec
<1>3. Init => SubscribersHaveControl
  BY DEF Init, SubscribersHaveControl, Subscribed
<1>4. Spec => []SubscribersHaveControl
  BY <1>3, SubscribedStep, PTL DEF Spec
<1> QED
  BY <1>2, <1>4 DEF ControlIsEarned, SubscribersHaveControl

-----------------------------------------------------------------------------
(* The owner *)

(* Signing in sets the owner of a node that has none, and no other step    *)
(* but a CONFIG message touches it.                                        *)
THEOREM OwnerCannotBeReplaced == Spec => OwnerIsKept
<1> DEFINE Kept == owner # NoOwner /\ owner' # owner =>
                     \E k \in Connections : Handled(k) /\ SetOwner(k, owner')
<1>1. [Next]_vars => [Kept]_vars
  <2> SUFFICES ASSUME Next, owner # NoOwner, owner' # owner
               PROVE  \E k \in Connections : Handled(k) /\ SetOwner(k, owner')
    OBVIOUS
  <2>1. \A k \in Socks, p \in Pubkeys : ~ CheckAuth(k, p)
    BY DEF CheckAuth, configVars
  <2>2. PICK k \in Connections, p \in Pubkeys : SetOwner(k, p)
    BY <2>1 DEF Next, Connect, Close, SocketAuth, AuthCode, ConfigSubscribe, LogSubscribe, LogUnsubscribe,
                LogClear, StatsSubscribe, StatsUnsubscribe, Stats, ClearDatabase, LogLine,
                Tick, StoreChanges, configVars
  <2> QED
    BY <2>2 DEF SetOwner, ConfigChanged
<1>2. Spec => [][Kept]_vars
  BY <1>1, PTL DEF Spec
<1> QED
  BY <1>2 DEF OwnerIsKept

(* Whatever changes the owner tells the subscribers, and subscribing tells *)
(* the owner of the moment.                                                *)
LEMMA ConfigStep == TypeOK /\ ConfigIsKnown /\ [Next]_vars => ConfigIsKnown'
<1> SUFFICES ASSUME TypeOK, ConfigIsKnown, [Next]_vars PROVE ConfigIsKnown'
  OBVIOUS
<1> USE DEF configVars, ConfigIsKnown
<1>1. ASSUME NEW p \in Pubkeys, ConfigChanged(p) PROVE ConfigIsKnown'
  BY <1>1 DEF TypeOK, ConfigChanged
<1>2. ASSUME NEW k \in Connections, ConfigSubscribe(k) PROVE ConfigIsKnown'
  <2>1. \A j \in configSubs' : configView'[j] = IF j = k THEN owner ELSE configView[j]
    BY <1>2 DEF TypeOK, ConfigSubscribe
  <2> QED
    BY <1>2, <2>1 DEF ConfigSubscribe
<1>3. ASSUME NEW k \in Socks, Close(k) PROVE ConfigIsKnown'
  BY <1>3 DEF TypeOK, Close, Disconnect, ConfigForgets
<1>4. ASSUME UNCHANGED configVars PROVE ConfigIsKnown'
  BY <1>4
<1>5. CASE UNCHANGED vars
  BY <1>4, <1>5 DEF vars
<1> QED
  BY <1>1, <1>2, <1>3, <1>4, <1>5
  DEF Next, Connect, SocketAuth, CheckAuth, SetOwner, AuthCode, LogSubscribe, LogUnsubscribe,
      LogClear, StatsSubscribe, StatsUnsubscribe, Stats, ClearDatabase, LogLine, Tick,
      StoreChanges

(* Subscribers of the configuration know the owner (ConfigActions).        *)
THEOREM SubscribersKnowTheOwner == Spec => []ConfigIsKnown
<1>1. Init => ConfigIsKnown
  BY DEF Init, ConfigIsKnown
<1> QED
  BY <1>1, TypeCorrect, ConfigStep, PTL DEF Spec

-----------------------------------------------------------------------------
(* The log *)

(* Lines up to a number and the next one are lines up to the next.         *)
LEMMA NumberedUpTo ==
  ASSUME NEW top \in Nat, NEW ls \in SUBSET (1..top)
  PROVE  ls \cup {top + 1} \subseteq 1..(top + 1)
<1>1. \A l \in 1..top : l \in 1..(top + 1)
  OBVIOUS
<1>2. top + 1 \in 1..(top + 1)
  OBVIOUS
<1> QED
  BY <1>1, <1>2

(* A newer line leaves no line among the newest that was not there before. *)
LEMMA NewestOfMore ==
  ASSUME NEW top \in Nat, NEW ls \in SUBSET (1..top), NEW n \in Nat
  PROVE  Newest(n, ls \cup {top + 1}) \subseteq Newest(n, ls) \cup {top + 1}
<1> SUFFICES ASSUME NEW l \in Newest(n, ls \cup {top + 1}), l # top + 1
             PROVE  l \in Newest(n, ls)
  OBVIOUS
<1> DEFINE before == {m \in ls : m > l}
           after == {m \in ls \cup {top + 1} : m > l}
<1>1. l \in ls /\ Cardinality(after) < n
  BY DEF Newest
<1>2. IsFiniteSet(1..(top + 1))
  BY FS_Interval
<1>3. after \in SUBSET (1..(top + 1)) /\ before \in SUBSET after
  BY NumberedUpTo
<1>4. IsFiniteSet(after)
  BY <1>2, <1>3, FS_Subset
<1>5. Cardinality(before) <= Cardinality(after) /\ IsFiniteSet(before)
  BY <1>3, <1>4, FS_Subset
<1>6. Cardinality(before) \in Nat /\ Cardinality(after) \in Nat
  BY <1>4, <1>5, FS_CardinalityType
<1>7. Cardinality(before) < n
  BY <1>1, <1>5, <1>6
<1> QED
  BY <1>1, <1>7 DEF Newest

(* A line goes to the log and to every subscriber. *)
LEMMA LineStep ==
  ASSUME TypeOK, LogInv, Log
  PROVE  LogInv'
<1>1. logged \in Nat /\ lines \in SUBSET (1..logged) /\ Initial \in Nat
  BY Bounds DEF TypeOK, LogInv
<1>2. /\ logged' = logged + 1
      /\ lines' = lines \cup {logged + 1}
      /\ logSubs' = logSubs /\ unaware' = unaware
      /\ \A k \in Connections :
           logView'[k] = IF k \in logSubs THEN logView[k] \cup {logged + 1} ELSE logView[k]
  BY DEF Log, NextLine
<1>3. Newest(Initial, lines') \subseteq Newest(Initial, lines) \cup {logged + 1}
  BY <1>1, <1>2, NewestOfMore
<1>4. lines' \subseteq 1..logged'
  BY <1>1, <1>2, NumberedUpTo
<1>5. \A k \in Connections : logView'[k] \subseteq lines' \cup unaware'[k]
  BY <1>2 DEF LogInv
<1>6. ASSUME NEW k \in logSubs'
      PROVE  /\ Newest(Initial, lines') \subseteq logView'[k]
             /\ logView'[k] \subseteq lines' \cup unaware'[k]
  <2>1. k \in logSubs /\ logView'[k] = logView[k] \cup {logged + 1}
    BY <1>2, <1>6 DEF TypeOK
  <2>2. Newest(Initial, lines) \subseteq logView[k] /\ logView[k] \subseteq lines \cup unaware[k]
    BY <2>1 DEF LogInv, LogIsFollowed
  <2> QED
    BY <2>1, <2>2, <1>2, <1>3
<1>7. LogIsFollowed'
  BY <1>6 DEF LogIsFollowed, Newest
<1> QED
  BY <1>4, <1>5, <1>7 DEF LogInv

(* Every step keeps the log's subscribers up to date. *)
LEMMA LogStep == TypeOK /\ LogInv /\ [Next]_vars => LogInv'
<1> SUFFICES ASSUME TypeOK, LogInv, [Next]_vars PROVE LogInv'
  OBVIOUS
<1> USE DEF logVars
<1>1. ASSUME NEW k \in Socks, Close(k) PROVE LogInv'
  <2>1. /\ logSubs' = logSubs \ {k}
        /\ \A j \in Connections : logView'[j] = IF j = k THEN {} ELSE logView[j]
        /\ \A j \in Connections : j # k => unaware'[j] = unaware[j]
        /\ UNCHANGED <<lines, logged>>
    BY <1>1 DEF TypeOK, Close, Disconnect, Connections
  <2> QED
    BY <2>1 DEF LogInv, LogIsFollowed, Newest, TypeOK
<1>2. ASSUME NEW k \in Connections, LogUnsubscribe(k) PROVE LogInv'
  <2>1. logSubs' = logSubs \ {k} /\ UNCHANGED <<logView, unaware, lines, logged>>
    BY <1>2 DEF LogUnsubscribe
  <2> QED
    BY <2>1 DEF LogInv, LogIsFollowed, Newest, TypeOK
<1>3. ASSUME NEW k \in Connections, LogSubscribe(k) PROVE LogInv'
  <2>1. /\ logSubs' = logSubs \cup {k}
        /\ \A j \in Connections :
             logView'[j] = IF j = k THEN logView[j] \cup Newest(Initial, lines) ELSE logView[j]
        /\ UNCHANGED <<unaware, lines, logged>>
    BY <1>3 DEF TypeOK, LogSubscribe, InitialLines
  <2>3. Newest(Initial, lines) \subseteq lines /\ Newest(Initial, lines)' = Newest(Initial, lines)
    BY <2>1 DEF Newest
  <2>4. \A j \in Connections : logView'[j] \subseteq lines \cup unaware[j]
    BY <2>1, <2>3 DEF LogInv
  <2>5. \A j \in logSubs' : j \in Connections /\ Newest(Initial, lines) \subseteq logView'[j]
    BY <2>1 DEF LogInv, LogIsFollowed, TypeOK
  <2>6. LogIsFollowed'
    BY <2>1, <2>3, <2>4, <2>5 DEF LogIsFollowed
  <2> QED
    BY <2>1, <2>4, <2>6 DEF LogInv
<1>4. ASSUME NEW k \in Connections, LogClear(k) PROVE LogInv'
  <2>1. /\ lines' = {} /\ UNCHANGED <<logSubs, logged>>
        /\ \A j \in Connections : /\ logView'[j] = IF j \in logSubs THEN {} ELSE logView[j]
                                 /\ unaware'[j] = IF j \in logSubs THEN {} ELSE logView[j]
    BY <1>4 DEF LogClear
  <2> QED
    BY <2>1 DEF LogInv, LogIsFollowed, Newest, TypeOK
<1>5. ASSUME UNCHANGED logVars PROVE LogInv'
  BY <1>5 DEF LogInv, LogIsFollowed, Newest
<1>6. ASSUME NEW k \in Connections, ClearDatabase(k) PROVE LogInv'
  BY <1>6, LineStep DEF ClearDatabase
<1>7. CASE LogLine
  BY <1>7, LineStep DEF LogLine
<1>8. CASE UNCHANGED vars
  BY <1>5, <1>8 DEF vars
<1> QED
  BY <1>1, <1>2, <1>3, <1>4, <1>5, <1>6, <1>7, <1>8
  DEF Next, Connect, CheckAuth, SocketAuth, AuthCode, ConfigSubscribe, SetOwner, StatsSubscribe,
      StatsUnsubscribe, Stats, Tick, StoreChanges

(* A subscriber of the log has its newest lines, and none that was cleared *)
(* but those it had when it was not subscribed (LogActions).               *)
THEOREM SubscribersFollowTheLog == Spec => []LogIsFollowed
<1>1. Init => LogInv
  BY DEF Init, LogInv, LogIsFollowed
<1>2. Spec => []LogInv
  BY <1>1, TypeCorrect, LogStep, PTL DEF Spec
<1>3. LogInv => LogIsFollowed
  BY DEF LogInv
<1> QED
  BY <1>2, <1>3, PTL
=============================================================================
