-------------------------------- MODULE Pool --------------------------------
(***************************************************************************)
(* The pool of relays (src/modules/cautious-pool.ts) and what the control  *)
(* API tells of their challenges (control/remote-auth-actions.ts).  The    *)
(* node recognises itself behind a relay's url by the challenge it sends,  *)
(* and never connects to that url again.                                   *)
(*                                                                         *)
(* SimplePool is external: it keeps one relay object per url, whose        *)
(* callbacks survive its connections.                                      *)
(***************************************************************************)
CONSTANTS
  Relays,  \* urls, local ones left out: they are refused at once
  Self     \* those that lead to this node

VARIABLES
  conn,        \* the connection of a relay
  hooked,      \* relays whose _onauth and onclose are the pool's
  blacklist,   \* CautiousPool.blacklist
  challenges,  \* the keys of CautiousPool.challenges and authenticated
  subscribed,  \* somebody has subscribed to REMOTE-AUTH
  reported,    \* relays reported to subscribers (history variable)
  found        \* relays that sent a challenge of this node (history variable)

TypeOK ==
  /\ conn \in [Relays -> {"closed", "connecting", "open", "closing"}]
  /\ {hooked, blacklist, challenges, reported, found} \subseteq SUBSET Relays
  /\ subscribed \in BOOLEAN

Init ==
  /\ conn = [r \in Relays |-> "closed"]
  /\ hooked = {} /\ blacklist = {} /\ challenges = {}
  /\ subscribed = FALSE
  /\ reported = {} /\ found = {}

(* isSelf(): whether this node has a socket with the relay's challenge;    *)
(* its own socket may be gone by then.                                     *)
IsSelf(r, answer) == answer \in IF r \in Self THEN BOOLEAN ELSE {FALSE}

(* ensureRelay() up to the connection, which its callers share. *)
EnsureRelay(r) ==
  /\ r \notin blacklist
  /\ conn[r] = "closed"
  /\ conn' = [conn EXCEPT ![r] = "connecting"]
  /\ UNCHANGED <<hooked, blacklist, challenges, subscribed, reported, found>>

(* checkRelay(): the node cuts itself off from its own relay. *)
CheckRelay(r, self) ==
  IF self
    THEN /\ blacklist' = blacklist \cup {r}
         /\ conn' = [conn EXCEPT ![r] = "closing"]
    ELSE /\ conn' = [conn EXCEPT ![r] = "open"]
         /\ UNCHANGED blacklist

CheckedFirst_Hooked(self) == FALSE

(* ensureRelay() checks a challenge that came before it set its callbacks. *)
CheckedFirst(self) == self

(* The connection is there, and with it perhaps the challenge already; the *)
(* rest of ensureRelay().                                                  *)
Opened(r) ==
  /\ conn[r] = "connecting"
  /\ \E self \in BOOLEAN :
       /\ IsSelf(r, self)
       /\ found' = IF self THEN found \cup {r} ELSE found
       /\ CheckRelay(r, CheckedFirst(self))
       /\ hooked' = IF CheckedFirst(self) THEN hooked ELSE hooked \cup {r}
  /\ UNCHANGED <<challenges, subscribed, reported>>

(* 'challenge': who has subscribed to REMOTE-AUTH is told. *)
Report(r) == reported' = IF subscribed THEN reported \cup {r} ELSE reported

(* AUTH: _onauth keeps and reports the challenge if checkRelay() says yes, *)
(* which it says of this node's relay only.                                *)
Challenged(r) ==
  /\ conn[r] = "open"
  /\ \E self \in BOOLEAN :
       /\ IsSelf(r, self)
       /\ found' = IF self THEN found \cup {r} ELSE found
       /\ CheckRelay(r, self)
       /\ challenges' = IF self THEN challenges \cup {r} ELSE challenges
       /\ IF self THEN Report(r) ELSE UNCHANGED reported
  /\ UNCHANGED <<hooked, subscribed>>

(* A connection fails or ends; nostr-tools may not tell of one that the    *)
(* node closed itself.                                                     *)
Closed(r) ==
  /\ conn[r] # "closed"
  /\ conn' = [conn EXCEPT ![r] = "closed"]
  /\ \/ r \in hooked /\ challenges' = challenges \ {r}
     \/ (r \notin hooked \/ conn[r] = "closing") /\ UNCHANGED challenges
  /\ UNCHANGED <<hooked, blacklist, subscribed, reported, found>>

(* REMOTE-AUTH SUBSCRIBE, answered with what is in challenges; UNSUBSCRIBE *)
(* or the end of the socket.  AUTHENTICATE signs in at a relay and leaves  *)
(* all this alone.                                                         *)
Subscribe ==
  /\ subscribed' = TRUE
  /\ reported' = reported \cup challenges
  /\ UNCHANGED <<conn, hooked, blacklist, challenges, found>>

Unsubscribe ==
  /\ subscribed' = FALSE
  /\ UNCHANGED <<conn, hooked, blacklist, challenges, reported, found>>

Next ==
  \/ \E r \in Relays : EnsureRelay(r) \/ Opened(r) \/ Challenged(r) \/ Closed(r)
  \/ Subscribe
  \/ Unsubscribe

-----------------------------------------------------------------------------
(* Properties                                                              *)

(* Once a challenge of this node came from a relay, be it before or after  *)
(* the pool set its callbacks, the pool has left that relay for good, and  *)
(* REMOTE-AUTH reports no relay but such (cautious-pool.ts 37-58, 63-80;   *)
(* that lines 44-48 keep the challenges of these relays, and not those of  *)
(* the others, looks like a mistake of the code).                          *)
SelfStaysOut ==
  /\ \A r \in found : conn[r] \in {"closing", "closed"}
  /\ reported \subseteq found
=============================================================================
