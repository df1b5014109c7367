------------------------------ MODULE MCControl ------------------------------
(***************************************************************************)
(* An instance of Control for TLC: two connections, either of which may    *)
(* sign in as either of two people.                                        *)
(***************************************************************************)
EXTENDS Control, TLC

(* Connections are interchangeable, and so are people. *)
Symmetric == Permutations(Socks) \cup Permutations(Pubkeys)
=============================================================================
