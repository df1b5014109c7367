------------------------------- MODULE Control -------------------------------
(***************************************************************************)
(* Who controls the node, and what it tells them: the control API          *)
(* (src/modules/control/control-api.ts), its handlers of configuration,    *)
(* log and database messages, the status log, and the part of              *)
(* src/app/index.ts that decides who the owner is.                         *)
(*                                                                         *)
(* A connection is authenticated by the auth code, or by signing in to the *)
(* relay (NIP-42) as the owner; the first who signs in to a node without   *)
(* an owner becomes its owner.  Messages of other connections are ignored, *)
(* and so are not actions of the module.  A parent process may send        *)
(* control messages without authenticating.                                *)
(***************************************************************************)
EXTENDS Naturals, FiniteSets

CONSTANTS
  Socks,       \* WebSocket connections
  Parents,     \* the parent process, if there is one
  Pubkeys,
  NoOwner,     \* config.owner when it is not set; also "nobody"
  Initial,     \* INITIAL_LOG_LINES
  MaxLines,    \* bounds of the model: lines ever logged, ...
  MaxCount     \* ... events in the database

ASSUME ControlAssumption ==
  /\ Socks \cap Parents = {}
  /\ NoOwner \notin Pubkeys
  /\ Initial \in Nat \ {0}
  /\ MaxLines \in Nat
  /\ MaxCount \in Nat

VARIABLES
  state,          \* of each WebSocket
  authenticated,  \* ControlApi.authenticatedConnections
  checked,        \* the pubkey with which each WebSocket passed checkAuth, till 'socket:auth'
  owner,          \* config.data.owner
  configSubs,     \* ConfigActions.subscribed
  configView,     \* the owner each connection was told, by CONFIG CHANGED
  logSubs,        \* LogActions.subscribed
  logView,        \* the lines each of them was sent and not told to clear
  unaware,        \* those of them that were cleared without it being told (history variable)
  lines,          \* StatusLog.lines, numbered as they are logged
  logged,         \* number of lines ever logged
  count,          \* events in the database
  last,           \* `last` of the statistics timer: the count, or NoStats
  statsSubs,      \* DatabaseActions.subscribed
  statsView       \* the statistics each connection was sent last

socketVars == <<state, authenticated, checked>>
configVars == <<owner, configSubs, configView>>
logVars == <<logSubs, logView, unaware, lines, logged>>
statsVars == <<count, last, statsSubs, statsView>>
vars == <<socketVars, configVars, logVars, statsVars>>

Connections == Socks \cup Parents

NoStats == MaxCount + 1

(* Every variable has its type. *)
TypeOK ==
  /\ state \in [Socks -> {"new", "open", "closed"}]
  /\ authenticated \subseteq Connections
  /\ checked \in [Socks -> Pubkeys \cup {NoOwner}]
  /\ owner \in Pubkeys \cup {NoOwner}
  /\ configSubs \subseteq Connections
  /\ configView \in [Connections -> Pubkeys \cup {NoOwner}]
  /\ logSubs \subseteq Connections
  /\ logView \in [Connections -> SUBSET (1..MaxLines)]
  /\ unaware \in [Connections -> SUBSET (1..MaxLines)]
  /\ lines \subseteq 1..MaxLines
  /\ logged \in 0..MaxLines
  /\ count \in 0..MaxCount
  /\ last \in 0..NoStats
  /\ statsSubs \subseteq Connections
  /\ statsView \in [Connections -> 0..NoStats]

Init ==
  /\ state = [k \in Socks |-> "new"]
  /\ authenticated = {}
  /\ checked = [k \in Socks |-> NoOwner]
  /\ owner \in Pubkeys \cup {NoOwner}
  /\ configSubs = {}
  /\ configView = [k \in Connections |-> NoOwner]
  /\ logSubs = {}
  /\ logView = [k \in Connections |-> {}]
  /\ unaware = [k \in Connections |-> {}]
  /\ lines = {}
  /\ logged = 0
  /\ count \in 0..MaxCount
  /\ last = NoStats
  /\ statsSubs = {}
  /\ statsView = [k \in Connections |-> NoStats]

-----------------------------------------------------------------------------
(* Connections, and who controls the node                                  *)

(* A control message of this connection can arrive. *)
Connected(k) == k \in Parents \/ (k \in Socks /\ state[k] = "open")

(* It is handled: handleRawMessage looks for the connection among the      *)
(* authenticated, attachToProcess does not.                                *)
Handled(k) == Connected(k) /\ (k \in authenticated \/ k \in Parents)

(* handleConnection *)
Connect(k) ==
  /\ state[k] = "new"
  /\ state' = [state EXCEPT ![k] = "open"]
  /\ UNCHANGED <<authenticated, checked, configVars, logVars, statsVars>>

ConfigForgets_Never(k) == UNCHANGED configSubs

ConfigForgets(k) == configSubs' = configSubs \ {k}

(* handleDisconnect, and the 'close' listeners of the handlers that the    *)
(* connection subscribed to.                                               *)
Disconnect(k) ==
  /\ authenticated' = authenticated \ {k}
  /\ ConfigForgets(k)
  /\ logSubs' = logSubs \ {k}
  /\ statsSubs' = statsSubs \ {k}

(* The WebSocket closes, and with it goes what its client knows. *)
Close(k) ==
  /\ state[k] = "open"
  /\ state' = [state EXCEPT ![k] = "closed"]
  /\ Disconnect(k)
  /\ checked' = [checked EXCEPT ![k] = NoOwner]
  /\ configView' = [configView EXCEPT ![k] = NoOwner]
  /\ logView' = [logView EXCEPT ![k] = {}]
  /\ unaware' = [unaware EXCEPT ![k] = {}]
  /\ statsView' = [statsView EXCEPT ![k] = NoStats]
  /\ UNCHANGED <<owner, lines, logged, count, last>>

(* ['CONTROL', 'AUTH', 'CODE', code] with the right code. *)
AuthCode(k) ==
  /\ Connected(k)
  /\ authenticated' = authenticated \cup {k}
  /\ UNCHANGED <<state, checked, configVars, logVars, statsVars>>

ConfigChanged_Silently(p) == owner' = p /\ UNCHANGED <<configSubs, configView>>

(* 'changed' of the configuration, whose owner becomes p: ConfigActions    *)
(* sends it to its subscribers.                                            *)
ConfigChanged(p) ==
  /\ owner' = p
  /\ configView' = [k \in Connections |-> IF k \in configSubs THEN p ELSE configView[k]]
  /\ UNCHANGED configSubs

CheckAuth_AnyKey(k, p) ==
  /\ state[k] = "open"
  /\ ConfigChanged(p)
  /\ checked' = [checked EXCEPT ![k] = p]
  /\ UNCHANGED <<state, authenticated, logVars, statsVars>>

(* A WebSocket sends the relay a valid signature of p: the first to do so  *)
(* owns the node, later only the owner passes checkAuth.                   *)
CheckAuth(k, p) ==
  /\ state[k] = "open"
  /\ \/ owner = NoOwner /\ ConfigChanged(p)
     \/ owner = p /\ UNCHANGED configVars
  /\ checked' = [checked EXCEPT ![k] = p]
  /\ UNCHANGED <<state, authenticated, logVars, statsVars>>

PassedAlong_Unchecked(k) == {k}

(* The owner of the moment is passed along to the control. *)
PassedAlong(k) == IF checked[k] = owner THEN {k} ELSE {}

(* The relay emits 'socket:auth' for who passed.  Whether another message  *)
(* is handled between its two steps is up to the relay: the model lets it. *)
SocketAuth(k) ==
  /\ checked[k] # NoOwner
  /\ checked' = [checked EXCEPT ![k] = NoOwner]
  /\ authenticated' = authenticated \cup PassedAlong(k)
  /\ UNCHANGED <<state, configVars, logVars, statsVars>>

(* ['CONTROL', 'CONFIG', 'SUBSCRIBE'] *)
ConfigSubscribe(k) ==
  /\ Handled(k)
  /\ configSubs' = configSubs \cup {k}
  /\ configView' = [configView EXCEPT ![k] = owner]
  /\ UNCHANGED <<socketVars, owner, logVars, statsVars>>

(* ['CONTROL', 'CONFIG', 'SET', 'owner', p]: setField. *)
SetOwner(k, p) ==
  /\ Handled(k)
  /\ ConfigChanged(p)
  /\ UNCHANGED <<socketVars, logVars, statsVars>>

-----------------------------------------------------------------------------
(* The log                                                                 *)

(* The n newest of a set of lines. *)
Newest(n, ls) == {l \in ls : Cardinality({m \in ls : m > l}) < n}

NextLine_FromZero == logged

NextLine == logged + 1

(* StatusLog.log, and the line is sent to every subscriber.  (The guard is *)
(* the bound of the model.)                                                *)
Log ==
  /\ logged < MaxLines
  /\ logged' = logged + 1
  /\ lines' = lines \cup {NextLine}
  /\ logView' = [k \in Connections |->
                   IF k \in logSubs THEN logView[k] \cup {NextLine} ELSE logView[k]]
  /\ UNCHANGED <<logSubs, unaware>>

(* The node logs something: an event, a start of the receiver, ... *)
LogLine ==
  /\ Log
  /\ UNCHANGED <<socketVars, configVars, statsVars>>

InitialLines_Oldest == {l \in lines : Cardinality({m \in lines : m < l}) < Initial}

(* The lines sent on SUBSCRIBE: from the front of StatusLog.lines, where   *)
(* log() puts new ones.                                                    *)
InitialLines == Newest(Initial, lines)

(* ['CONTROL', 'LOG', 'SUBSCRIBE'] *)
LogSubscribe(k) ==
  /\ Handled(k)
  /\ logSubs' = logSubs \cup {k}
  /\ logView' = [logView EXCEPT ![k] = @ \cup InitialLines]
  /\ UNCHANGED <<socketVars, configVars, unaware, lines, logged, statsVars>>

(* 'UNSUBSCRIBE': nothing is sent, and the connection keeps its lines. *)
LogUnsubscribe(k) ==
  /\ Handled(k)
  /\ logSubs' = logSubs \ {k}
  /\ UNCHANGED <<socketVars, configVars, logView, unaware, lines, logged, statsVars>>

(* 'CLEAR': every subscriber is told to clear, and nobody else. *)
LogClear(k) ==
  /\ Handled(k)
  /\ lines' = {}
  /\ logView' = [j \in Connections |-> IF j \in logSubs THEN {} ELSE logView[j]]
  /\ unaware' = [j \in Connections |-> IF j \in logSubs THEN {} ELSE logView[j]]
  /\ UNCHANGED <<socketVars, configVars, logSubs, logged, statsVars>>

-----------------------------------------------------------------------------
(* Database statistics                                                     *)

(* ['CONTROL', 'DATABASE', 'SUBSCRIBE']: the statistics are sent at once.  *)
StatsSubscribe(k) ==
  /\ Handled(k)
  /\ statsSubs' = statsSubs \cup {k}
  /\ statsView' = [statsView EXCEPT ![k] = count]
  /\ UNCHANGED <<socketVars, configVars, logVars, count, last>>

(* 'UNSUBSCRIBE' *)
StatsUnsubscribe(k) ==
  /\ Handled(k)
  /\ statsSubs' = statsSubs \ {k}
  /\ UNCHANGED <<socketVars, configVars, logVars, count, last, statsView>>

(* 'STATS' *)
Stats(k) ==
  /\ Handled(k)
  /\ statsView' = [statsView EXCEPT ![k] = count]
  /\ UNCHANGED <<socketVars, configVars, logVars, count, last, statsSubs>>

(* 'CLEAR': the database is emptied, which is logged. *)
ClearDatabase(k) ==
  /\ Handled(k)
  /\ count' = 0
  /\ Log
  /\ UNCHANGED <<socketVars, configVars, last, statsSubs, statsView>>

(* Every 5 seconds: if the statistics (count and size, here one number)    *)
(* differ from those of the last time, every subscriber is sent them.      *)
Tick ==
  /\ statsView' = [k \in Connections |->
                     IF k \in statsSubs /\ count # last THEN count ELSE statsView[k]]
  /\ last' = count
  /\ UNCHANGED <<socketVars, configVars, logVars, count, statsSubs>>

(* Events are stored, or removed. *)
StoreChanges ==
  /\ \E n \in 0..MaxCount : n # count /\ count' = n
  /\ UNCHANGED <<socketVars, configVars, logVars, last, statsSubs, statsView>>

Next ==
  \/ \E k \in Socks : Connect(k) \/ Close(k) \/ SocketAuth(k) \/ \E p \in Pubkeys : CheckAuth(k, p)
  \/ \E k \in Connections : AuthCode(k)
  \/ \E k \in Connections : ConfigSubscribe(k) \/ \E p \in Pubkeys : SetOwner(k, p)
  \/ \E k \in Connections : LogSubscribe(k) \/ LogUnsubscribe(k) \/ LogClear(k)
  \/ \E k \in Connections : StatsSubscribe(k) \/ StatsUnsubscribe(k) \/ Stats(k)
  \/ \E k \in Connections : ClearDatabase(k)
  \/ LogLine
  \/ Tick
  \/ StoreChanges

Spec == Init /\ [][Next]_vars

-----------------------------------------------------------------------------
(* Properties                                                              *)

Subscribed == configSubs \cup logSubs \cup statsSubs

(* Whatever a connection did before it closed, in whatever order, it is    *)
(* neither authenticated nor subscribed to anything afterwards: nothing is *)
(* sent to it, and nothing keeps it (control-api.ts line 48, and the       *)
(* 'close' listener of every SUBSCRIBE).                                   *)
NothingKeepsClosed ==
  \A k \in Socks : state[k] # "open" => k \notin authenticated \cup Subscribed

(* Only who gave the auth code, or signed in as the owner of that moment,  *)
(* gets control of the node, also when the owner changes between the two   *)
(* steps of signing in; and only who has control, and the parent process,  *)
(* is told of the node (control-api.ts lines 70-74, app/index.ts lines     *)
(* 187-208).                                                               *)
ControlIsEarned ==
  /\ [](Subscribed \subseteq authenticated \cup Parents)
  /\ [][\A k \in authenticated' \ authenticated :
          AuthCode(k) \/ (k \in Socks /\ owner # NoOwner /\ checked[k] = owner)]_vars

(* Once the node has an owner nobody takes it over by signing in: the      *)
(* owner changes by a CONFIG message only (app/index.ts lines 193-200).    *)
OwnerIsKept ==
  [][owner # NoOwner /\ owner' # owner =>
       \E k \in Connections : Handled(k) /\ SetOwner(k, owner')]_vars

(* Subscribers of the configuration know who owns the node, also when the  *)
(* owner was set by somebody else's sign-in (config-actions.ts 17-32).     *)
ConfigIsKnown == \A k \in configSubs : configView[k] = owner

(* A subscriber of the log has its newest lines, INITIAL_LOG_LINES of them *)
(* if there are as many, and none from before the log was last cleared but *)
(* those it had when it was not subscribed and the log was cleared, which  *)
(* nobody ever tells it (log-actions.ts lines 18-49): although lines are   *)
(* logged and cleared while connections come and go.                       *)
LogIsFollowed ==
  \A k \in logSubs :
    Newest(Initial, lines) \subseteq logView[k] /\ logView[k] \subseteq lines \cup unaware[k]
=============================================================================
