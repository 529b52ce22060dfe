---------------------------- MODULE MCValveStroke ----------------------------
(* Two valves that a plan strokes in either order, v-up and v-down, which  *)
(* Bootstrap gives no zone.                                                *)
EXTENDS ValveStroke

MCValves == {"up", "down"}
MCZones == {"north", "south"}
MCBootZone == [v \in MCValves |-> None]
=============================================================================
