------------------------------- MODULE MCBook -------------------------------
(***************************************************************************)
(* Instances of Book for TLC: two authors, one extra relay that is asked   *)
(* for everybody, and one relay that only a hint names.                    *)
(***************************************************************************)
EXTENDS Book

CONSTANTS r1, r2

MCExtraRelays == {r1}
MCHints == {{}, {r2}}
=============================================================================
