------------------------------ MODULE MCStartup ------------------------------
(***************************************************************************)
(* Instances of Startup for TLC: one relay is enough, as the relays of a   *)
(* batch only delay its end.                                               *)
(***************************************************************************)
EXTENDS Startup

CONSTANT r1

MCExtraRelays == {r1}
=============================================================================
