--------------------------- MODULE MCSavedRecords ---------------------------
(* Two targets to publish.                                                 *)
EXTENDS SavedRecords

MCTargets == {"day", "night"}
=============================================================================
