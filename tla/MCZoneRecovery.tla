--------------------------- MODULE MCZoneRecovery ---------------------------
(* Of the valves Bootstrap creates, v-down and v-iso: it attaches each to a *)
(* zone of its own, and only v-iso has that zone in its own record.         *)
EXTENDS ZoneRecovery

MCOrder == <<"down", "iso">>
MCZones == {"north", "south"}
MCBootZone == [down |-> None, iso |-> "south"]
MCBootMap == [down |-> "north", iso |-> "south"]
=============================================================================
