-------------------------- MODULE PumpStationProofs --------------------------
(***************************************************************************)
(* What PumpStation guarantees for every number of units, of requests and  *)
(* of restarts.                                                            *)
(*                                                                         *)
(* The invariants speak of the group in memory, but a restart replaces it  *)
(* by the file, and the file by whatever record was last on its way there. *)
(* So the inductive invariant asks the same of all three: of the group, of *)
(* the file and of every record a goroutine still has to write.  What it   *)
(* asks depends on what operators have posted, and only grows weaker with  *)
(* what they post.                                                         *)
(***************************************************************************)
EXTENDS PumpStation, TLAPS

\* A group that is sound once operators have posted the statuses s.
Sound(g, s) == /\ RunsOnlyActive(g, s)
               /\ BackupsLocked(g, s)
               /\ ServingActive(g, s)

IInv == /\ TypeOK
        /\ Sound(group, posted)
        /\ Sound(disk, posted)
        /\ \A p \in Procs : task[p].at = "write" => Sound(task[p].record, posted)

USE DEF Units, Primary, NoUnit, Statuses

-----------------------------------------------------------------------------
(* The transitions of a group keep it well typed and sound.                *)

LEMMA FreshGroupSound == FreshGroup \in Group /\ Sound(FreshGroup, {})
<1>1. FreshGroup \in Group
  BY NumUnitsAssumption, SetpointsAssumption DEF FreshGroup, Group
<1>2. Sound(FreshGroup, {})
  BY DEF FreshGroup, Sound, RunsOnlyActive, BackupsLocked, ServingActive, Running
<1> QED BY <1>1, <1>2

\* What operators post later takes nothing from the soundness of a group.
LEMMA SoundMore ==
  ASSUME NEW g, NEW ps, NEW qs, ps \subseteq qs, Sound(g, ps)
  PROVE  Sound(g, qs)
BY DEF Sound, RunsOnlyActive, BackupsLocked, ServingActive, ActiveStatuses

\* A start needs a unit without a lock, or the primary.
LEMMA PromoteSound ==
  ASSUME NEW g \in Group, NEW ps, Sound(g, ps), NEW u \in Units,
         g.locked[u] => u = Primary
  PROVE  Promote(g, u) \in Group /\ Sound(Promote(g, u), ps)
<1> DEFINE h == Promote(g, u)
<1>1. h \in Group
  BY DEF Promote, Group
<1>2. Running(h) = {u}
  BY DEF Promote, Running, Group
<1>3. h.active = u /\ h.status[u] = "running" /\ h.locked = g.locked
  BY DEF Promote, Group
<1>4. Sound(h, ps)
  BY <1>2, <1>3
  DEF Sound, RunsOnlyActive, BackupsLocked, ServingActive, ActiveStatuses
<1> QED BY <1>1, <1>4

LEMMA DemoteSound ==
  ASSUME NEW g \in Group, NEW ps, Sound(g, ps), NEW u \in Units,
         NEW s \in Statuses, s # "running"
  PROVE  Demote(g, u, s) \in Group /\ Sound(Demote(g, u, s), ps)
<1> DEFINE h == Demote(g, u, s)
<1>1. h \in Group
  BY DEF Demote, Group
<1>2. Running(h) = Running(g) \ {u}
  BY DEF Demote, Running, Group
<1>3. /\ h.active = IF g.active = u THEN NoUnit ELSE g.active
      /\ \A v \in Units \ {u} : h.status[v] = g.status[v]
      /\ h.locked = g.locked
  BY DEF Demote, Group
<1>4. g.active \in Units \cup {NoUnit}
  BY DEF Group
<1>5. RunsOnlyActive(h, ps) /\ BackupsLocked(h, ps)
  BY <1>2, <1>3 DEF Sound, RunsOnlyActive, BackupsLocked
<1>6. ServingActive(h, ps)
  BY <1>3, <1>4 DEF Sound, ServingActive
<1> QED BY <1>1, <1>5, <1>6 DEF Sound

LEMMA LockUnitSound ==
  ASSUME NEW g \in Group, NEW ps, Sound(g, ps), NEW u \in Units
  PROVE  LockUnit(g, u) \in Group /\ Sound(LockUnit(g, u), ps)
<1> DEFINE d == Demote(g, u, "maintenance")
           h == LockUnit(g, u)
<1>1. d \in Group /\ Sound(d, ps)
  BY DemoteSound
<1>2. h \in Group
  BY <1>1 DEF LockUnit, Group, Demote
<1>3. /\ h.status = d.status
      /\ h.active = d.active
      /\ \A v \in Units \ {u} : h.locked[v] = g.locked[v]
  BY DEF LockUnit, Demote, Group
<1>4. d.locked = g.locked /\ u \notin Running(d)
  BY DEF Demote, Running, Group
<1>5. Running(h) = Running(d)
  BY <1>3 DEF Running
<1>6. Sound(h, ps)
  BY <1>1, <1>3, <1>4, <1>5
  DEF Sound, RunsOnlyActive, BackupsLocked, ServingActive, Running
<1> QED BY <1>2, <1>6

\* A unit the operator had put into maintenance returns to standby, even the
\* active one.
LEMMA ClearLockoutSound ==
  ASSUME NEW g \in Group, NEW ps, Sound(g, ps), NEW u \in Units
  PROVE  ClearLockout(g, u) \in Group /\ Sound(ClearLockout(g, u), ps)
<1> DEFINE h == ClearLockout(g, u)
<1>1. h \in Group
  BY DEF ClearLockout, Group
<1>2. /\ h.active = g.active
      /\ \A v \in Units \ {u} : h.status[v] = g.status[v]
      /\ h.status[u] = IF g.status[u] = "maintenance" THEN "standby"
                                                     ELSE g.status[u]
      /\ \A v \in Units : h.locked[v] => g.locked[v]
  BY DEF ClearLockout, Group
<1>3. g.active \in Units \cup {NoUnit}
  BY DEF Group
<1>4. Running(h) = Running(g)
  BY <1>2 DEF Running
<1>5. RunsOnlyActive(h, ps) /\ BackupsLocked(h, ps)
  BY <1>2, <1>4 DEF Sound, RunsOnlyActive, BackupsLocked, Running
<1>6. ServingActive(h, ps)
  <2> SUFFICES ASSUME h.active # NoUnit
               PROVE  h.status[h.active] \in ActiveStatuses(ps)
    BY DEF ServingActive
  <2>1. g.status[g.active] \in ActiveStatuses(ps)
    BY <1>2 DEF Sound, ServingActive
  <2>2. "maintenance" \in ActiveStatuses(ps) => "standby" \in ActiveStatuses(ps)
    BY DEF ActiveStatuses
  <2> QED BY <1>2, <1>3, <2>1, <2>2
<1> QED BY <1>1, <1>5, <1>6 DEF Sound

LEMMA SetStatusSound ==
  ASSUME NEW g \in Group, NEW ps, Sound(g, ps), NEW u \in Units, NEW s \in OperatorStatuses
  PROVE  SetStatus(g, u, s) \in Group /\ Sound(SetStatus(g, u, s), ps \cup {s})
<1> DEFINE h == SetStatus(g, u, s)
           qs == ps \cup {s}
<1>1. h \in Group
  BY OperatorStatusesAssumption DEF SetStatus, Group
<1>2. /\ h.active = g.active /\ h.locked = g.locked
      /\ h.status = [g.status EXCEPT ![u] = s]
  BY DEF SetStatus, Group
<1>3. g.active \in Units \cup {NoUnit} /\ g.status \in [Units -> Statuses]
  BY DEF Group
<1>4. "running" \notin qs => Running(h) \subseteq Running(g)
  BY <1>2, <1>3 DEF Running
<1>5. RunsOnlyActive(h, qs) /\ BackupsLocked(h, qs)
  BY <1>2, <1>4 DEF Sound, RunsOnlyActive, BackupsLocked
<1>6. ServingActive(h, qs)
  BY <1>2, <1>3 DEF Sound, ServingActive, ActiveStatuses
<1> QED BY <1>1, <1>5, <1>6 DEF Sound

\* Neither a vibration nor a target touches what soundness speaks of.
LEMMA ReadingSound ==
  ASSUME NEW g \in Group, NEW ps, Sound(g, ps)
  PROVE  /\ \A u \in Units, over \in BOOLEAN :
              /\ RecordVibration(g, u, over) \in Group
              /\ Sound(RecordVibration(g, u, over), ps)
         /\ \A t \in Setpoints : SetTarget(g, t) \in Group /\ Sound(SetTarget(g, t), ps)
BY DEF RecordVibration, SetTarget, Group, Sound, RunsOnlyActive, BackupsLocked,
       ServingActive, Running

LEMMA RecordSound ==
  ASSUME NEW g \in Group
  PROVE  GroupRecord(g) = g
BY DEF GroupRecord, Group

\* Failover promotes the primary, or a unit whose lock is off, however old the
\* view it decides on.
LEMMA ChoiceUnlocked ==
  ASSUME NEW g \in Group, NEW view \in Views, NEW u \in FailoverChoice(g, view)
  PROVE  u \in Units /\ (g.locked[u] => u = Primary)
BY NumUnitsAssumption DEF FailoverChoice, HealthyInView, Lowest

-----------------------------------------------------------------------------
(* The invariant.                                                          *)

LEMMA InitInvariant == Init => IInv
<1> SUFFICES ASSUME Init PROVE IInv
  OBVIOUS
<1>1. TypeOK
  BY FreshGroupSound, NumUnitsAssumption
  DEF Init, TypeOK, Views, NoView, Tasks, Idle, Zones
<1>2. Sound(group, posted) /\ Sound(disk, posted)
  BY FreshGroupSound DEF Init
<1>3. \A p \in Procs : task[p].at # "write"
  BY DEF Init, Idle
<1> QED BY <1>1, <1>2, <1>3 DEF IInv

\* What a step of one goroutine has to show.
LEMMA ContinueInvariant ==
  ASSUME IInv, NEW p \in Procs, NEW t \in Tasks, Continue(p, t),
         t.at = "write" => Sound(t.record, posted'),
         up' \in BOOLEAN, group' \in Group, Sound(group', posted'), cached' \in Views,
         disk' \in Group, Sound(disk', posted'), zone' \in Zones,
         requests' \in Nat, restarts' \in Nat,
         posted \subseteq posted', posted' \subseteq OperatorStatuses
  PROVE  IInv'
<1>1. task' \in [Procs -> Tasks]
  BY DEF IInv, TypeOK, Continue
<1>2. ASSUME NEW q \in Procs, task'[q].at = "write"
      PROVE  Sound(task'[q].record, posted')
  <2>1. CASE q = p
    BY <1>2, <2>1 DEF IInv, TypeOK, Continue
  <2>2. CASE q # p
    <3>1. Sound(task'[q].record, posted)
      BY <1>2, <2>2 DEF IInv, TypeOK, Continue
    <3> QED BY <3>1, SoundMore
  <2> QED BY <2>1, <2>2
<1>3. TypeOK'
  BY <1>1 DEF TypeOK
<1> QED BY <1>2, <1>3 DEF IInv

LEMMA TaskTypes ==
  /\ Idle \in Tasks /\ Idle.at # "write"
  /\ \A stage \in {"save", "firstRunning", "decide"} :
       [at |-> stage] \in Tasks /\ [at |-> stage].at # "write"
  /\ \A g \in Group : [at |-> "write", record |-> g] \in Tasks
  /\ \A v \in Views, stage \in {"publish", "failover"} :
       [at |-> stage, view |-> v] \in Tasks
  /\ \A u \in Units : [at |-> "trip", unit |-> u] \in Tasks
  /\ \A t \in Setpoints : [at |-> "setTarget", target |-> t] \in Tasks
BY DEF Tasks, Idle

\* What a goroutine carries at each stage.
LEMMA Carried ==
  ASSUME TypeOK, NEW p \in Procs
  PROVE  /\ task[p].at = "write" => task[p].record \in Group
         /\ task[p].at \in {"publish", "failover"} => task[p].view \in Views
         /\ task[p].at = "trip" => task[p].unit \in Units
         /\ task[p].at = "setTarget" => task[p].target \in Setpoints
BY DEF TypeOK, Tasks, Idle

LEMMA ServeInvariant ==
  ASSUME IInv, NEW p \in Procs, NEW g \in Group, Sound(g, posted'),
         NEW d \in Group, Sound(d, posted'), NEW t \in Tasks, t.at # "write",
         posted \subseteq posted', posted' \subseteq OperatorStatuses,
         Serve(p, g, d, t)
  PROVE  IInv'
<1>1. requests + 1 \in Nat
  BY DEF IInv, TypeOK
<1>2. /\ Continue(p, t) /\ group' = g /\ disk' = d
      /\ requests' = requests + 1
      /\ UNCHANGED <<up, cached, zone, restarts>>
  BY DEF Serve
<1> QED BY <1>1, <1>2, ContinueInvariant DEF IInv, TypeOK

LEMMA RequestInvariant ==
  ASSUME IInv, NEW p \in Requests, Request(p)
  PROVE  IInv'
<1> USE DEF Procs
<1>1. group \in Group /\ Sound(group, posted) /\ disk \in Group /\ Sound(disk, posted)
      /\ cached \in Views /\ posted \subseteq OperatorStatuses
  BY DEF IInv, TypeOK
<1>2. CASE StatusRequest(p)
  <2>1. PICK u \in Units, s \in OperatorStatuses :
          ServeThenSave(p, SetStatus(group, u, s)) /\ posted' = posted \cup {s}
    BY <1>2 DEF StatusRequest
  <2>2. /\ SetStatus(group, u, s) \in Group
        /\ Sound(SetStatus(group, u, s), posted')
    BY <1>1, <2>1, SetStatusSound
  <2>3. Sound(disk, posted')
    BY <1>1, <2>1, SoundMore
  <2>4. posted \subseteq posted' /\ posted' \subseteq OperatorStatuses
    BY <1>1, <2>1
  <2> QED BY <1>1, <2>1, <2>2, <2>3, <2>4, TaskTypes, ServeInvariant DEF ServeThenSave
<1>3. CASE UNCHANGED posted /\ Request(p)
  <2>1. posted' = posted
    BY <1>3
  <2>2. ASSUME NEW g \in Group, Sound(g, posted), NEW d \in Group, Sound(d, posted),
               NEW t \in Tasks, t.at # "write", Serve(p, g, d, t)
        PROVE  IInv'
    BY <1>1, <2>1, <2>2, ServeInvariant
  <2>3. ASSUME NEW g \in Group, Sound(g, posted), ServeThenSave(p, g)
        PROVE  IInv'
    BY <1>1, <2>2, <2>3, TaskTypes DEF ServeThenSave
  <2>4. ASSUME NEW g \in Group, Sound(g, posted), ServeInMemory(p, g)
        PROVE  IInv'
    BY <1>1, <2>2, <2>4, TaskTypes DEF ServeInMemory
  <2>5. CASE StartRequest(p)
    BY <1>1, <2>3, <2>5, PromoteSound DEF StartRequest
  <2>6. CASE StopRequest(p)
    BY <1>1, <2>3, <2>6, DemoteSound DEF StopRequest, StopUnit
  <2>7. CASE TripRequest(p)
    BY <1>1, <2>3, <2>7, DemoteSound DEF TripRequest, Trip
  <2>8. CASE TargetRequest(p)
    BY <1>1, <2>3, <2>8, ReadingSound DEF TargetRequest
  <2>9. CASE DischargeRequest(p)
    BY <1>1, <2>3, <2>9 DEF DischargeRequest
  <2>10. CASE MaintenanceRequest(p)
    BY <1>1, <2>4, <2>10, LockUnitSound DEF MaintenanceRequest
  <2>11. CASE ReleaseRequest(p)
    BY <1>1, <2>2, <2>11, ClearLockoutSound, RecordSound, TaskTypes DEF ReleaseRequest
  <2>12. CASE VibrationRequest(p)
    BY <1>1, <2>4, <2>12, ReadingSound DEF VibrationRequest
  <2>13. CASE CommandRequest(p)
    BY <1>1, <2>4, <2>13, PromoteSound, DemoteSound, ReadingSound
    DEF CommandRequest, StopUnit
  <2>14. CASE FailoverRequest(p)
    BY <1>1, <2>2, <2>14, TaskTypes DEF FailoverRequest
  <2>15. CASE AdjustRequest(p)
    BY <1>1, <2>2, <2>15, TaskTypes DEF AdjustRequest
  <2> QED BY <1>2, <1>3, <2>5, <2>6, <2>7, <2>8, <2>9, <2>10, <2>11, <2>12, <2>13,
             <2>14, <2>15 DEF Request
<1> QED BY <1>2, <1>3 DEF Request

LEMMA StageInvariant ==
  ASSUME IInv, NEW p \in Procs, Stage(p)
  PROVE  IInv'
<1>1. /\ group \in Group /\ Sound(group, posted) /\ disk \in Group /\ Sound(disk, posted)
      /\ up \in BOOLEAN /\ cached \in Views /\ zone \in Zones
      /\ requests \in Nat /\ restarts \in Nat /\ posted \subseteq OperatorStatuses
  BY DEF IInv, TypeOK
<1>2. CASE FirstRunningUnit(p)
  <2>1. FirstRunning(group) \subseteq Units
    BY DEF FirstRunning, Lowest, Running
  <2>2. \E t \in Tasks : t.at # "write" /\ Continue(p, t)
    BY <1>2, <2>1, TaskTypes DEF FirstRunningUnit
  <2> QED BY <1>1, <1>2, <2>2, ContinueInvariant DEF FirstRunningUnit
<1>3. CASE AdjustTrip(p)
  <2>1. task[p].unit \in Units
    BY <1>3, Carried DEF AdjustTrip, At, IInv
  <2>2. Trip(group, task[p].unit) \in Group /\ Sound(Trip(group, task[p].unit), posted)
    BY <1>1, <2>1, DemoteSound DEF Trip
  <2> QED BY <1>1, <1>3, <2>2, TaskTypes, ContinueInvariant DEF AdjustTrip
<1>4. CASE AdjustTarget(p)
  <2>1. task[p].target \in Setpoints
    BY <1>4, Carried DEF AdjustTarget, At, IInv
  <2>2. /\ SetTarget(group, task[p].target) \in Group
        /\ Sound(SetTarget(group, task[p].target), posted)
    BY <1>1, <2>1, ReadingSound
  <2> QED BY <1>1, <1>4, <2>2, TaskTypes, ContinueInvariant DEF AdjustTarget
<1>5. CASE FailoverDecide(p)
  <2>1. task[p].view \in Views
    BY <1>5, Carried DEF FailoverDecide, At, IInv
  <2>2. PICK u \in FailoverChoice(group, task[p].view) :
          group' = Promote(group, u) /\ disk' = GroupRecord(Promote(group, u))
    BY <1>5 DEF FailoverDecide
  <2>3. u \in Units /\ (group.locked[u] => u = Primary)
    BY <1>1, <2>1, ChoiceUnlocked
  <2>4. Promote(group, u) \in Group /\ Sound(Promote(group, u), posted)
    BY <1>1, <2>3, PromoteSound
  <2>5. disk' = group'
    BY <2>2, <2>4, RecordSound
  <2>6. \E t \in Tasks : t.at # "write" /\ Continue(p, t)
    BY <1>5, TaskTypes DEF FailoverDecide
  <2> QED BY <1>1, <1>5, <2>2, <2>4, <2>5, <2>6, ContinueInvariant
          DEF FailoverDecide
<1>6. CASE FailoverFail(p)
  BY <1>1, <1>6, TaskTypes, ContinueInvariant DEF FailoverFail
<1>7. CASE SaveRecord(p)
  <2>1. GroupRecord(group) = group
    BY <1>1, RecordSound
  <2>2. [at |-> "write", record |-> group].record = group
    OBVIOUS
  <2> QED BY <1>1, <1>7, <2>1, <2>2, TaskTypes, ContinueInvariant DEF SaveRecord
<1>8. CASE SaveWrite(p)
  <2>1. task[p].record \in Group /\ Sound(task[p].record, posted)
    BY <1>8, Carried DEF SaveWrite, At, IInv
  <2>2. \E t \in Tasks : t.at # "write" /\ Continue(p, t)
    BY <1>8, TaskTypes DEF SaveWrite
  <2> QED BY <1>1, <1>8, <2>1, <2>2, ContinueInvariant DEF SaveWrite
<1> QED BY <1>2, <1>3, <1>4, <1>5, <1>6, <1>7, <1>8 DEF Stage

LEMMA CycleInvariant ==
  ASSUME IInv, Cycle
  PROVE  IInv'
<1>1. /\ group \in Group /\ Sound(group, posted) /\ disk \in Group /\ Sound(disk, posted)
      /\ up \in BOOLEAN /\ cached \in Views /\ zone \in Zones
      /\ requests \in Nat /\ restarts \in Nat /\ posted \subseteq OperatorStatuses
      /\ Scheduler \in Procs
  BY DEF IInv, TypeOK, Procs
<1>2. CASE Refresh
  <2>1. group.status \in Views
    BY <1>1 DEF Group, Views
  <2> DEFINE t == [at |-> "publish", view |-> group.status]
  <2>2. t \in Tasks /\ t.at # "write"
    BY <2>1, TaskTypes
  <2> QED BY <1>1, <1>2, <2>2, ContinueInvariant DEF Refresh
<1>3. CASE Publish
  <2>1. task[Scheduler].view \in Views
    BY <1>1, <1>3, Carried DEF Publish, At, IInv
  <2> DEFINE t == [at |-> "failover", view |-> task[Scheduler].view]
  <2>2. t \in Tasks /\ t.at # "write"
    BY <2>1, TaskTypes
  <2> QED BY <1>1, <1>3, <2>1, <2>2, ContinueInvariant DEF Publish
<1>4. CASE Stage(Scheduler)
  BY <1>1, <1>4, StageInvariant
<1>5. CASE DecideCommand
  <2>1. Primary \in Units
    BY NumUnitsAssumption
  <2>2. group' \in Group /\ Sound(group', posted)
    <3>1. CASE zone = "low" /\ ~group.locked[Primary]
      BY <1>1, <1>5, <2>1, <3>1, PromoteSound DEF DecideCommand
    <3>2. CASE zone = "high"
      BY <1>1, <1>5, <2>1, <3>2, DemoteSound DEF DecideCommand, StopUnit
    <3>3. CASE zone = "off"
      BY <1>1, <1>5, <3>3, PolicyTargetAssumption, ReadingSound DEF DecideCommand
    <3>4. CASE zone = "ok" \/ (zone = "low" /\ group.locked[Primary])
      BY <1>1, <1>5, <3>4 DEF DecideCommand
    <3> QED BY <1>1, <3>1, <3>2, <3>3, <3>4 DEF Zones
  <2> QED BY <1>1, <1>5, <2>2, TaskTypes, ContinueInvariant DEF DecideCommand
<1> QED BY <1>2, <1>3, <1>4, <1>5 DEF Cycle

LEMMA NextInvariant == IInv /\ [Next]_vars => IInv'
<1> SUFFICES ASSUME IInv, [Next]_vars PROVE IInv'
  OBVIOUS
<1>1. ASSUME NEW p \in Requests, Request(p) PROVE IInv'
  BY <1>1, RequestInvariant
<1>2. ASSUME NEW p \in Requests, Stage(p) PROVE IInv'
  BY <1>2, StageInvariant DEF Procs
<1>3. CASE Cycle
  BY <1>3, CycleInvariant
<1>4. CASE ZoneChange
  BY <1>4 DEF ZoneChange, IInv, TypeOK
<1>5. CASE Crash
  BY <1>5 DEF Crash, IInv, TypeOK
<1>6. CASE Restart
  <2>1. NoView \in Views
    BY DEF NoView, Views
  <2>2. TypeOK'
    BY <1>6, <2>1, TaskTypes DEF Restart, RestoreFrom, IInv, TypeOK
  <2>3. Sound(group', posted') /\ Sound(disk', posted')
    BY <1>6 DEF Restart, RestoreFrom, IInv
  <2>4. \A p \in Procs : task'[p].at # "write"
    BY <1>6, TaskTypes DEF Restart
  <2> QED BY <2>2, <2>3, <2>4 DEF IInv
<1>7. CASE UNCHANGED vars
  BY <1>7 DEF vars, IInv, TypeOK
<1> QED BY <1>1, <1>2, <1>3, <1>4, <1>5, <1>6, <1>7 DEF Next

-----------------------------------------------------------------------------
\* The group, its file and every record still to be written are sound in every
\* state of the program.
THEOREM Invariance == Spec => []IInv
<1>1. Init => IInv
  BY InitInvariant
<1>2. IInv /\ [Next]_vars => IInv'
  BY NextInvariant
<1> QED BY <1>1, <1>2, PTL DEF Spec

\* Every variable keeps its type.
THEOREM TypeCorrectness == Spec => []TypeOK
<1>1. IInv => TypeOK
  BY DEF IInv
<1> QED BY <1>1, Invariance, PTL

\* Until an operator posts "running", only the active unit runs.
THEOREM OnlyActiveUnitRuns == Spec => []RunningIsActive
<1>1. IInv => RunningIsActive
  BY DEF IInv, Sound, RunningIsActive
<1> QED BY <1>1, Invariance, PTL

\* Until an operator posts "running", a locked backup does not run.
THEOREM LockedBackupNeverRuns == Spec => []BackupLockout
<1>1. IInv => BackupLockout
  BY DEF IInv, Sound, BackupLockout
<1> QED BY <1>1, Invariance, PTL

\* Until an operator posts a status, the active unit runs; then it stands in a
\* status that was posted, or in standby after a posted maintenance.
THEOREM ActiveUnitServes == Spec => []ActiveServes
<1>1. IInv => ActiveServes
  BY DEF IInv, Sound, ActiveServes
<1> QED BY <1>1, Invariance, PTL

-----------------------------------------------------------------------------
(* The lock of the primary.                                                *)

\* No failover keeps a primary that is locked on a view that shows it running.
LocksSeen == \A p \in Procs : FailoverDecide(p) /\ task[p].view[Primary] = "running"
                                => ~group.locked[Primary]

OffWhenLocked(g) == \A u \in Units : g.locked[u] => g.status[u] # "running"

LocksKept == /\ OffWhenLocked(group)
             /\ OffWhenLocked(disk)
             /\ \A p \in Procs : task[p].at = "write" => OffWhenLocked(task[p].record)

LEMMA TransitionsOff ==
  ASSUME NEW g \in Group, OffWhenLocked(g)
  PROVE  /\ \A u \in Units : ~g.locked[u] => OffWhenLocked(Promote(g, u))
         /\ \A u \in Units : /\ OffWhenLocked(StopUnit(g, u))
                             /\ OffWhenLocked(Trip(g, u))
                             /\ OffWhenLocked(LockUnit(g, u))
                             /\ OffWhenLocked(ClearLockout(g, u))
         /\ \A u \in Units, s \in OperatorStatuses \ {"running"} :
              OffWhenLocked(SetStatus(g, u, s))
         /\ \A u \in Units, over \in BOOLEAN : OffWhenLocked(RecordVibration(g, u, over))
         /\ \A t \in Setpoints : OffWhenLocked(SetTarget(g, t))
<1>1. \A u \in Units : ~g.locked[u] => OffWhenLocked(Promote(g, u))
  BY DEF Promote, OffWhenLocked, Group
<1>2. \A u \in Units : OffWhenLocked(StopUnit(g, u)) /\ OffWhenLocked(Trip(g, u))
  BY DEF StopUnit, Trip, Demote, OffWhenLocked, Group
<1>3. \A u \in Units : OffWhenLocked(LockUnit(g, u))
  BY DEF LockUnit, Demote, OffWhenLocked, Group
<1>4. \A u \in Units : OffWhenLocked(ClearLockout(g, u))
  BY DEF ClearLockout, OffWhenLocked, Group
<1>5. \A u \in Units, s \in OperatorStatuses \ {"running"} :
        OffWhenLocked(SetStatus(g, u, s))
  BY DEF SetStatus, OffWhenLocked, Group
<1>6. /\ \A u \in Units, over \in BOOLEAN : OffWhenLocked(RecordVibration(g, u, over))
      /\ \A t \in Setpoints : OffWhenLocked(SetTarget(g, t))
  BY DEF RecordVibration, SetTarget, OffWhenLocked, Group
<1> QED BY <1>1, <1>2, <1>3, <1>4, <1>5, <1>6

LEMMA ContinueOff ==
  ASSUME TypeOK, LocksKept, NEW p \in Procs, NEW t, Continue(p, t),
         t.at = "write" => OffWhenLocked(t.record),
         OffWhenLocked(group'), OffWhenLocked(disk')
  PROVE  LocksKept'
<1>1. ASSUME NEW q \in Procs, task'[q].at = "write"
      PROVE  OffWhenLocked(task'[q].record)
  <2>1. CASE q = p
    BY <1>1, <2>1 DEF TypeOK, Continue
  <2>2. CASE q # p
    BY <1>1, <2>2 DEF TypeOK, Continue, LocksKept
  <2> QED BY <2>1, <2>2
<1> QED BY <1>1 DEF LocksKept, OffWhenLocked

LEMMA ServeOff ==
  ASSUME TypeOK, LocksKept, NEW p \in Procs, NEW g, OffWhenLocked(g),
         NEW d, OffWhenLocked(d), NEW t, t.at # "write", Serve(p, g, d, t)
  PROVE  LocksKept'
BY ContinueOff DEF Serve

LEMMA RequestOff ==
  ASSUME TypeOK, LocksKept, "running" \notin OperatorStatuses,
         NEW p \in Requests, Request(p)
  PROVE  LocksKept'
<1>1. group \in Group /\ OffWhenLocked(group) /\ OffWhenLocked(disk) /\ p \in Procs
  BY DEF TypeOK, LocksKept, Procs
<1>2. ASSUME NEW g, OffWhenLocked(g), ServeThenSave(p, g) PROVE LocksKept'
  BY <1>1, <1>2, TaskTypes, ServeOff DEF ServeThenSave
<1>3. ASSUME NEW g, OffWhenLocked(g), ServeInMemory(p, g) PROVE LocksKept'
  BY <1>1, <1>3, TaskTypes, ServeOff DEF ServeInMemory
<1>4. CASE \/ StartRequest(p) \/ StopRequest(p) \/ TripRequest(p)
           \/ StatusRequest(p) \/ TargetRequest(p) \/ DischargeRequest(p)
  <2>1. CASE StatusRequest(p)
    BY <1>1, <1>2, <2>1, TransitionsOff DEF StatusRequest
  <2> QED BY <1>1, <1>2, <1>4, <2>1, TransitionsOff
          DEF StartRequest, StopRequest, TripRequest, TargetRequest, DischargeRequest
<1>5. CASE MaintenanceRequest(p) \/ VibrationRequest(p) \/ CommandRequest(p)
  BY <1>1, <1>3, <1>5, TransitionsOff
  DEF MaintenanceRequest, VibrationRequest, CommandRequest
<1>6. CASE ReleaseRequest(p)
  <2>1. PICK u \in Units : Serve(p, ClearLockout(group, u),
                                 GroupRecord(ClearLockout(group, u)), Idle)
    BY <1>6 DEF ReleaseRequest
  <2>2. OffWhenLocked(ClearLockout(group, u))
    BY <1>1, TransitionsOff
  <2>3. OffWhenLocked(GroupRecord(ClearLockout(group, u)))
    BY <2>2 DEF GroupRecord, OffWhenLocked
  <2> QED BY <1>1, <2>1, <2>2, <2>3, TaskTypes, ServeOff
<1>7. CASE FailoverRequest(p)
  <2> DEFINE t == [at |-> "failover", view |-> cached]
  <2>1. t.at # "write" /\ Serve(p, group, disk, t)
    BY <1>7 DEF FailoverRequest
  <2> HIDE DEF t
  <2> QED BY <1>1, <2>1, ServeOff
<1>8. CASE AdjustRequest(p)
  <2>1. PICK t : t.at # "write" /\ Serve(p, group, disk, t)
    BY <1>8 DEF AdjustRequest
  <2> QED BY <1>1, <2>1, ServeOff
<1> QED BY <1>4, <1>5, <1>6, <1>7, <1>8 DEF Request

LEMMA StageOff ==
  ASSUME TypeOK, LocksKept, LocksSeen, NEW p \in Procs, Stage(p)
  PROVE  LocksKept'
<1>1. group \in Group /\ OffWhenLocked(group) /\ OffWhenLocked(disk)
  BY DEF TypeOK, LocksKept
<1>2. CASE FirstRunningUnit(p)
  <2>1. \E t : t.at # "write" /\ Continue(p, t)
    BY <1>2, TaskTypes DEF FirstRunningUnit
  <2> QED BY <1>1, <1>2, <2>1, ContinueOff DEF FirstRunningUnit
<1>3. CASE AdjustTrip(p)
  BY <1>1, <1>3, Carried, TransitionsOff, TaskTypes, ContinueOff DEF AdjustTrip, At
<1>4. CASE AdjustTarget(p)
  BY <1>1, <1>4, Carried, TransitionsOff, TaskTypes, ContinueOff DEF AdjustTarget, At
<1>5. CASE FailoverDecide(p)
  <2>1. PICK u \in FailoverChoice(group, task[p].view) :
          group' = Promote(group, u) /\ disk' = GroupRecord(Promote(group, u))
    BY <1>5 DEF FailoverDecide
  <2>2. u \in Units /\ ~group.locked[u]
    BY <1>5, NumUnitsAssumption DEF FailoverChoice, HealthyInView, Lowest, LocksSeen
  <2>3. OffWhenLocked(group') /\ OffWhenLocked(disk')
    BY <1>1, <2>1, <2>2, TransitionsOff DEF GroupRecord, OffWhenLocked
  <2>4. \E t : t.at # "write" /\ Continue(p, t)
    BY <1>5, TaskTypes DEF FailoverDecide
  <2> QED BY <2>3, <2>4, ContinueOff
<1>6. CASE FailoverFail(p)
  BY <1>1, <1>6, TaskTypes, ContinueOff DEF FailoverFail
<1>7. CASE SaveRecord(p)
  <2> DEFINE t == [at |-> "write", record |-> GroupRecord(group)]
  <2>1. OffWhenLocked(t.record) /\ Continue(p, t)
    BY <1>1, <1>7 DEF SaveRecord, GroupRecord, OffWhenLocked
  <2> HIDE DEF t
  <2> QED BY <1>1, <1>7, <2>1, ContinueOff DEF SaveRecord
<1>8. CASE SaveWrite(p)
  <2>1. \E t : t.at # "write" /\ Continue(p, t)
    BY <1>8, TaskTypes DEF SaveWrite
  <2>2. OffWhenLocked(disk')
    BY <1>8 DEF SaveWrite, At, LocksKept
  <2> QED BY <1>1, <1>8, <2>1, <2>2, ContinueOff DEF SaveWrite
<1> QED BY <1>2, <1>3, <1>4, <1>5, <1>6, <1>7, <1>8 DEF Stage

LEMMA NextOff ==
  ASSUME TypeOK, LocksKept, LocksSeen, "running" \notin OperatorStatuses, Next
  PROVE  LocksKept'
<1>1. /\ group \in Group /\ OffWhenLocked(group) /\ OffWhenLocked(disk)
      /\ Scheduler \in Procs /\ Primary \in Units
  BY NumUnitsAssumption DEF TypeOK, LocksKept, Procs
<1>2. ASSUME NEW p \in Requests, Request(p) \/ Stage(p) PROVE LocksKept'
  BY <1>2, RequestOff, StageOff DEF Procs
<1>3. CASE Stage(Scheduler)
  BY <1>1, <1>3, StageOff
<1>4. CASE Refresh \/ Publish
  <2>1. \E t : t.at # "write" /\ Continue(Scheduler, t)
    BY <1>4 DEF Refresh, Publish
  <2> QED BY <1>1, <1>4, <2>1, ContinueOff DEF Refresh, Publish
<1>5. CASE DecideCommand
  <2>1. OffWhenLocked(group')
    BY <1>1, <1>5, PolicyTargetAssumption, TransitionsOff DEF DecideCommand, TypeOK, Zones
  <2> QED BY <1>1, <1>5, <2>1, TaskTypes, ContinueOff DEF DecideCommand
<1>6. CASE ZoneChange \/ Crash
  BY <1>6 DEF ZoneChange, Crash, LocksKept, OffWhenLocked
<1>7. CASE Restart
  BY <1>1, <1>7, TaskTypes DEF Restart, RestoreFrom, LocksKept, OffWhenLocked
<1> QED BY <1>2, <1>3, <1>4, <1>5, <1>6, <1>7 DEF Next, Cycle

\* A locked unit runs through no other door than the failover that keeps the
\* primary its view shows running: without such a failover, and while no
\* operator posts "running", no locked unit runs, the primary included, whatever
\* else interleaves, crashes or is restored (pump/failover.go, pump/lockout.go).
THEOREM OnlyFailoverRunsLocked ==
  ASSUME "running" \notin OperatorStatuses
  PROVE  Spec /\ [][LocksSeen]_vars => []LockedUnitNeverRuns
<1>1. Init => LocksKept
  <2>1. OffWhenLocked(FreshGroup)
    BY DEF OffWhenLocked, FreshGroup
  <2> QED BY <2>1, TaskTypes DEF Init, LocksKept
<1>2. IInv /\ LocksKept /\ [Next]_vars /\ [LocksSeen]_vars => LocksKept'
  <2>1. ASSUME IInv, LocksKept, Next, LocksSeen PROVE LocksKept'
    BY <2>1, NextOff DEF IInv
  <2>2. ASSUME LocksKept, UNCHANGED vars PROVE LocksKept'
    BY <2>2 DEF vars, LocksKept, OffWhenLocked
  <2> QED BY <2>1, <2>2
<1>3. LocksKept => LockedUnitNeverRuns
  BY DEF LocksKept, OffWhenLocked, LockedUnitNeverRuns
<1> QED BY <1>1, <1>2, <1>3, Invariance, PTL DEF Spec

-----------------------------------------------------------------------------
(* The unit that vibrates.                                                 *)

AdjustStages == {"firstRunning", "trip"}

\* Nothing changes the group between the critical sections of an adjustment.
AdjustUndisturbed ==
  \A p \in Procs : task[p].at \in AdjustStages /\ task'[p] = task[p] => UNCHANGED group

\* The unit an adjustment is about to look up, or to trip, vibrates.
AimsTrue ==
  \A p \in Procs : /\ task[p].at = "firstRunning" => VibrationOverLimit(group)
                   /\ task[p].at = "trip" => group.overLimit[task[p].unit]

LEMMA ServedTo ==
  ASSUME NEW p \in Requests, Request(p)
  PROVE  \/ AdjustRequest(p)
         \/ \E t : t.at \notin AdjustStages /\ Continue(p, t)
<1> USE TaskTypes DEF Serve, ServeThenSave, ServeInMemory, AdjustStages
<1>1. CASE \/ StartRequest(p) \/ StopRequest(p) \/ TripRequest(p)
           \/ StatusRequest(p) \/ TargetRequest(p) \/ DischargeRequest(p)
  <2>1. Continue(p, [at |-> "save"])
    BY <1>1 DEF StartRequest, StopRequest, TripRequest, StatusRequest,
                TargetRequest, DischargeRequest
  <2> QED BY <2>1
<1>2. CASE \/ MaintenanceRequest(p) \/ ReleaseRequest(p) \/ VibrationRequest(p)
           \/ CommandRequest(p)
  <2>1. Continue(p, Idle)
    BY <1>2 DEF MaintenanceRequest, ReleaseRequest, VibrationRequest, CommandRequest
  <2> QED BY <2>1 DEF Idle
<1>3. CASE FailoverRequest(p)
  <2>1. Continue(p, [at |-> "failover", view |-> cached])
    BY <1>3 DEF FailoverRequest
  <2> QED BY <2>1
<1> QED BY <1>1, <1>2, <1>3 DEF Request

LEMMA Staged ==
  ASSUME NEW p \in Procs, Stage(p)
  PROVE  \/ FirstRunningUnit(p)
         \/ \E t : t.at \notin AdjustStages /\ Continue(p, t)
<1>1. CASE AdjustTrip(p) \/ AdjustTarget(p) \/ FailoverFail(p)
  BY <1>1 DEF AdjustTrip, AdjustTarget, FailoverFail, Idle, AdjustStages
<1>2. CASE FailoverDecide(p) \/ SaveWrite(p)
  BY <1>2 DEF FailoverDecide, SaveWrite, Idle, AdjustStages
<1>3. CASE SaveRecord(p)
  BY <1>3 DEF SaveRecord, AdjustStages
<1> QED BY <1>1, <1>2, <1>3 DEF Stage

\* A goroutine comes to adjust by its own request, on what it then finds.
LEMMA Aiming ==
  ASSUME TypeOK, Next, NEW p \in Procs, task'[p] # task[p], task'[p].at \in AdjustStages
  PROVE  AdjustRequest(p) \/ FirstRunningUnit(p)
<1>1. ASSUME NEW q \in Procs, NEW t, t.at \notin AdjustStages, Continue(q, t)
      PROVE  FALSE
  BY <1>1 DEF Continue, TypeOK
<1>2. ASSUME NEW q \in Procs, NEW t, Continue(q, t) PROVE q = p
  BY <1>2 DEF Continue, TypeOK
<1>3. ASSUME NEW q \in Requests, Request(q) PROVE AdjustRequest(p)
  <2>1. AdjustRequest(q)
    BY <1>1, <1>3, ServedTo DEF Procs
  <2>2. \E t : Continue(q, t)
    BY <2>1 DEF AdjustRequest, Serve
  <2> QED BY <1>2, <2>1, <2>2 DEF Procs
<1>4. ASSUME NEW q \in Procs, Stage(q) PROVE FirstRunningUnit(p)
  <2>1. FirstRunningUnit(q)
    BY <1>1, <1>4, Staged
  <2>2. \E t : Continue(q, t)
    BY <2>1 DEF FirstRunningUnit
  <2> QED BY <1>2, <2>1, <2>2
<1>5. ~(Refresh \/ Publish \/ DecideCommand)
  BY <1>1 DEF Refresh, Publish, DecideCommand, Idle, AdjustStages, Procs
<1>6. ~(ZoneChange \/ Crash \/ Restart)
  BY DEF ZoneChange, Crash, Restart, Idle, AdjustStages
<1> QED BY <1>3, <1>4, <1>5, <1>6 DEF Next, Cycle, Procs

\* The only unit that runs is the one that vibrates.
LEMMA AimsTrueStep ==
  ASSUME TypeOK, RunningIsActive, "running" \notin OperatorStatuses,
         AimsTrue, AdjustUndisturbed, Next
  PROVE  AimsTrue'
<1> SUFFICES ASSUME NEW p \in Procs, task'[p].at \in AdjustStages
             PROVE  /\ task'[p].at = "firstRunning" => VibrationOverLimit(group')
                    /\ task'[p].at = "trip" => group'.overLimit[task'[p].unit]
  BY DEF AimsTrue, AdjustStages, VibrationOverLimit, Running
<1>1. CASE task'[p] = task[p]
  BY <1>1 DEF AdjustUndisturbed, AimsTrue
<1>2. CASE task'[p] # task[p]
  <2>1. CASE AdjustRequest(p)
    <3>1. task'[p].at # "setTarget"
      BY DEF AdjustStages
    <3>2. \A t : Continue(p, t) => task'[p] = t
      BY DEF Continue, TypeOK
    <3>3. \A t \in Setpoints :
            ~Serve(p, group, disk, [at |-> "setTarget", target |-> t])
      BY <3>1, <3>2 DEF Serve
    <3>4. VibrationOverLimit(group) /\ Serve(p, group, disk, [at |-> "firstRunning"])
      BY <2>1, <3>3 DEF AdjustRequest
    <3>5. group' = group /\ task'[p] = [at |-> "firstRunning"]
      BY <3>2, <3>4 DEF Serve
    <3> QED BY <3>4, <3>5
  <2>2. CASE FirstRunningUnit(p)
    <3>1. PICK u \in FirstRunning(group) : Continue(p, [at |-> "trip", unit |-> u])
      BY <2>2 DEF FirstRunningUnit, Continue, TypeOK, Idle, AdjustStages
    <3>2. task'[p] = [at |-> "trip", unit |-> u] /\ group' = group
      BY <2>2, <3>1 DEF FirstRunningUnit, Continue, TypeOK
    <3>3. PICK v \in Running(group) : group.overLimit[v]
      BY <2>2 DEF FirstRunningUnit, At, AimsTrue, VibrationOverLimit
    <3>4. u = v
      BY DEF FirstRunning, Lowest, RunningIsActive, RunsOnlyActive, TypeOK
    <3> QED BY <3>2, <3>3, <3>4
  <2> QED BY <1>2, <2>1, <2>2, Aiming
<1> QED BY <1>1, <1>2

\* An adjustment trips a unit that does not vibrate only when something changed
\* the group between its critical sections: undisturbed, and while no operator
\* posts "running", it trips the one that vibrates, since no other one runs
\* (pressure/adjust.go).
THEOREM UndisturbedAdjustAimsTrue ==
  ASSUME "running" \notin OperatorStatuses
  PROVE  Spec /\ [][AdjustUndisturbed]_vars => AdjustTripsVibratingUnit
<1>1. Init => AimsTrue
  BY DEF Init, Idle, AimsTrue
<1>2. IInv /\ AimsTrue /\ [Next]_vars /\ [AdjustUndisturbed]_vars => AimsTrue'
  <2>1. ASSUME IInv, AimsTrue, Next, AdjustUndisturbed PROVE AimsTrue'
    BY <2>1, AimsTrueStep DEF IInv, Sound, RunningIsActive
  <2>2. ASSUME AimsTrue, UNCHANGED vars PROVE AimsTrue'
    BY <2>2 DEF vars, AimsTrue, VibrationOverLimit, Running
  <2> QED BY <2>1, <2>2
<1>3. AimsTrue => \A p \in Procs : AdjustTrip(p) => group.overLimit[task[p].unit]
  BY DEF AimsTrue, AdjustTrip, At
<1> QED BY <1>1, <1>2, <1>3, Invariance, PTL DEF Spec, AdjustTripsVibratingUnit

=============================================================================
