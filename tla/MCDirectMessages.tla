-------------------------- MODULE MCDirectMessages --------------------------
(***************************************************************************)
(* An instance of DirectMessages for TLC: two authors, the inbox of one of *)
(* them watched on two relays.                                             *)
(***************************************************************************)
EXTENDS DirectMessages, TLC

(* Either author may be named first. *)
MCPairs == {<<1, 2>>, <<2, 1>>}

(* Relays are interchangeable. *)
Symmetric == Permutations(Relays)
=============================================================================
