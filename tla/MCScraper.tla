------------------------------ MODULE MCScraper ------------------------------
(***************************************************************************)
(* Instances of RelayScraper for TLC.  Ids are the numbers 1..N; the       *)
(* configurations choose the times at which the events were created.       *)
(***************************************************************************)
EXTENDS RelayScraper

CONSTANT N

MCIds == 1..N

(* One event every second, or every other second. *)
EverySecond == [i \in MCIds |-> i]
EveryOther == [i \in MCIds |-> 2 * i]
=============================================================================
