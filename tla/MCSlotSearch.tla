---------------------------- MODULE MCSlotSearch ----------------------------
(***************************************************************************)
(* Instance of SlotSearch: the three hosts of the fleet on the half-hours  *)
(* of a day.                                                               *)
(***************************************************************************)
EXTENDS SlotSearch

CONSTANTS dev, x570, b550m

MCOrder == <<dev, x570, b550m>>
MCRebootHour == [h \in Hosts |-> IF h = dev THEN 10 ELSE IF h = x570 THEN 40 ELSE 42]
MCInstants == 0..47
MCStored == {10, 60}
MCObstacles == {38, 40, 41, 42, 43, 44, 45, 46, 47, 58, 88, 90}
=============================================================================
