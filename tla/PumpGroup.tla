------------------------------ MODULE PumpGroup ------------------------------
(***************************************************************************)
(* One pump group as a value, and every transition its methods make on it  *)
(* while they hold group.mu (internal/pump).  The module has no variables: *)
(* PumpStation runs these transitions concurrently.                        *)
(*                                                                         *)
(* Units are numbered in the order AddUnit attached them, which is also    *)
(* the order of their ids (u-1, u-2, ...), so the first unit is the        *)
(* primary and sort.Strings is the order of the numbers.  A vibration is   *)
(* kept as "over VibrationLimit or not", a pressure as a member of         *)
(* Setpoints, the pressures SetTarget accepts; the discharge pressure,     *)
(* which no decision reads, is left out.                                   *)
(***************************************************************************)
EXTENDS Integers

CONSTANTS NumUnits,    \* how many units the group has
          Setpoints    \* target pressures within 0 .. 1.5 MPa, 0 among them

ASSUME NumUnitsAssumption == NumUnits \in Nat \ {0}
ASSUME SetpointsAssumption == 0 \in Setpoints

Units == 1 .. NumUnits
Primary == 1
NoUnit == 0            \* the empty ActiveUnit

\* POST /pumps/{id}/status stores any string: "other" stands for all of them.
Statuses == {"running", "standby", "maintenance", "stopped", "other"}

Group == [status    : [Units -> Statuses],
          locked    : [Units -> BOOLEAN],
          overLimit : [Units -> BOOLEAN],
          active    : Units \cup {NoUnit},
          target    : Setpoints]

\* What a station can see of the units; "none" is a unit missing from the map.
Views == [Units -> Statuses \cup {"none"}]
NoView == [u \in Units |-> "none"]

\* The group Bootstrap builds: all units in standby, nothing recorded yet.
FreshGroup == [status    |-> [u \in Units |-> "standby"],
               locked    |-> [u \in Units |-> FALSE],
               overLimit |-> [u \in Units |-> FALSE],
               active    |-> NoUnit,
               target    |-> 0]

-----------------------------------------------------------------------------
\* Seeded fault: the lock column of the units is forgotten.
GroupRecordWithoutLock(g) == [g EXCEPT !.locked = FreshGroup.locked]

\* The record of a group holds all of its fields; Restore copies them back.
GroupRecord(g) == [status    |-> g.status,
                   locked    |-> g.locked,
                   overLimit |-> g.overLimit,
                   active    |-> g.active,
                   target    |-> g.target]

RestoreFrom(record) == record

-----------------------------------------------------------------------------
\* Seeded fault: the unit that ran before is not stood down.
PromoteAlone(g, u) == [g EXCEPT !.status = [g.status EXCEPT ![u] = "running"],
                                !.active = u]

\* One unit runs and becomes the active one, any other running unit stands by.
\* StartUnit, the "start" command and the switch of Failover all do this.
Promote(g, u) ==
  [g EXCEPT !.status = [v \in Units |-> IF v = u THEN "running"
                                        ELSE IF g.status[v] = "running"
                                             THEN "standby" ELSE g.status[v]],
            !.active = u]

\* Seeded fault: the group keeps its active unit.
DemoteKeepsActive(g, u, s) == [g EXCEPT !.status = [g.status EXCEPT ![u] = s]]

\* A unit takes a status in which it cannot stay the active one.
Demote(g, u, s) ==
  [g EXCEPT !.status = [g.status EXCEPT ![u] = s],
            !.active = IF g.active = u THEN NoUnit ELSE g.active]

\* Seeded fault: a lock of no known status.
LockAsLocked(g, u) == [Demote(g, u, "locked")
                         EXCEPT !.locked = [g.locked EXCEPT ![u] = TRUE]]

StopUnit(g, u) == Demote(g, u, "standby")
Trip(g, u)     == Demote(g, u, "stopped")
LockUnit(g, u) == [Demote(g, u, "maintenance")
                     EXCEPT !.locked = [g.locked EXCEPT ![u] = TRUE]]

\* Release: the lock goes, and a unit still in maintenance returns to standby.
ClearLockout(g, u) ==
  [g EXCEPT !.locked = [g.locked EXCEPT ![u] = FALSE],
            !.status = [g.status EXCEPT ![u] =
                          IF g.status[u] = "maintenance" THEN "standby"
                                                         ELSE g.status[u]]]

\* SetStatus touches neither the lock nor the active unit.
SetStatus(g, u, s) == [g EXCEPT !.status = [g.status EXCEPT ![u] = s]]

RecordVibration(g, u, over) ==
  [g EXCEPT !.overLimit = [g.overLimit EXCEPT ![u] = over]]

SetTarget(g, t) == [g EXCEPT !.target = t]

-----------------------------------------------------------------------------
Running(g) == {u \in Units : g.status[u] = "running"}

VibrationOverLimit(g) == \E u \in Running(g) : g.overLimit[u]

Lowest(S) == {u \in S : \A v \in S : u <= v}   \* empty, or one unit

\* FirstRunningUnit: empty when no unit runs.
FirstRunning(g) == Lowest(Running(g))

\* Seeded fault: the lock is not asked for.
HealthyByStatus(g, view) == {u \in Units : view[u] \in {"running", "standby"}}

\* Units Failover may promote: the view says they run or stand by, and their
\* lock, read under group.mu, is off.
HealthyInView(g, view) ==
  {u \in Units : view[u] \in {"running", "standby"} /\ ~g.locked[u]}

\* Seeded fault: whichever unit the view shows running stays, so that a
\* recovered primary never takes over.
KeepRunningUnit(g, view) ==
  LET running == {u \in Units : view[u] = "running"}
  IN  IF running # {} THEN Lowest(running) ELSE Lowest(HealthyInView(g, view))

\* The decision of Failover: a primary that the view shows running stays,
\* whatever its lock; otherwise the first healthy unit; otherwise none.
FailoverChoice(g, view) ==
  IF view[Primary] = "running" THEN {Primary}
                               ELSE Lowest(HealthyInView(g, view))
=============================================================================
