----------------------------- MODULE MCSampling -----------------------------
(* One valve that moves between two zones, sampled by two requests and the *)
(* control cycle.                                                          *)
EXTENDS Sampling

MCValves == {"iso"}
MCOrder == <<"iso">>
MCZones == {"north", "south"}
MCBootMap == [v \in MCValves |-> "south"]
=============================================================================
