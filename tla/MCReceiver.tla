----------------------------- MODULE MCReceiver -----------------------------
(***************************************************************************)
(* Instances of Receiver for TLC: the owner and one more author, who has   *)
(* written one event.                                                      *)
(***************************************************************************)
EXTENDS Receiver

CONSTANTS friend, u1, u2, friendEvent

MCAuthors == {Owner, friend}
MCBootstrap == {u1}
MCAuthorOf == [e \in {friendEvent} |-> friend]
=============================================================================
