---------------------------- MODULE MCPumpStation ----------------------------
(* A group of a primary and a backup, as Bootstrap builds it.              *)
EXTENDS PumpStation

MCSetpoints == {0, 1}

\* An operator takes a unit out by hand, has one run beside the group's logic, or
\* posts a status nobody knows.
MCOperatorStatuses == {"maintenance", "running", "other"}
=============================================================================
