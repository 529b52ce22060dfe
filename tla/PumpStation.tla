----------------------------- MODULE PumpStation -----------------------------
(***************************************************************************)
(* Group g-1 of station st-1 as the running process serves it: HTTP        *)
(* requests and the control cycle (Server.Tick) work on the group at the   *)
(* same time, each a sequence of critical sections under group.mu, with    *)
(* the group's file written outside of the lock by most of them; and the   *)
(* process crashes, exits on a failed cycle and is restarted from the      *)
(* file.                                                                   *)
(*                                                                         *)
(* A task says where a goroutine stands between two critical sections and  *)
(* what it carries there: a view of the units, a record on its way to the  *)
(* file, the unit or target of an adjustment.  A rejected request changes  *)
(* nothing and is no step.  A batch (/commands/batch, /adjust/batch) is    *)
(* the same goroutine's requests one after the other.  File writes are     *)
(* taken to succeed and to replace the file at once.                       *)
(***************************************************************************)
EXTENDS PumpGroup

CONSTANTS Requests,          \* goroutines that serve HTTP requests
          Scheduler,         \* the goroutine of the control cycle
          OperatorStatuses,  \* what operators post to /pumps/{id}/status
          PolicyTarget,      \* the target the policy tunes the zone to
          MaxRequests,       \* bound on the requests served
          MaxRestarts        \* bound on the restarts of the process

ASSUME SchedulerAssumption == Scheduler \notin Requests
ASSUME OperatorStatusesAssumption == OperatorStatuses \subseteq Statuses
ASSUME PolicyTargetAssumption == PolicyTarget \in Setpoints
ASSUME BoundsAssumption == MaxRequests \in Nat /\ MaxRestarts \in Nat

Procs == Requests \cup {Scheduler}

VARIABLES up,        \* the process is alive
          group,     \* the group in memory
          cached,    \* cachedState.PumpStatuses, what the last refresh saw
          disk,      \* pumps/g-1.json; FreshGroup while there is no file
          task,      \* where each goroutine stands
          zone,      \* what EvaluateZone finds of the station's zone
          requests,  \* requests served so far
          restarts,  \* restarts so far
          \* History, for the properties:
          posted     \* what operators have posted to /pumps/{id}/status so far

vars == <<up, group, cached, disk, task, zone, requests, restarts, posted>>

Zones == {"ok", "low", "high", "off"}   \* "off": within the limits, off target

Idle == [at |-> "idle"]

Tasks ==
       {Idle, [at |-> "save"], [at |-> "firstRunning"], [at |-> "decide"]}
  \cup [at : {"write"}, record : Group]
  \cup [at : {"publish", "failover"}, view : Views]
  \cup [at : {"trip"}, unit : Units]
  \cup [at : {"setTarget"}, target : Setpoints]

TypeOK == /\ up \in BOOLEAN
          /\ group \in Group
          /\ cached \in Views
          /\ disk \in Group
          /\ task \in [Procs -> Tasks]
          /\ zone \in Zones
          /\ requests \in Nat
          /\ restarts \in Nat
          /\ posted \subseteq OperatorStatuses

Init == /\ up = TRUE
        /\ group = FreshGroup
        /\ cached = NoView
        /\ disk = FreshGroup
        /\ task = [p \in Procs |-> Idle]
        /\ zone = "ok"
        /\ requests = 0
        /\ restarts = 0
        /\ posted = {}

At(p, stage) == up /\ task[p].at = stage

Continue(p, t) == task' = [task EXCEPT ![p] = t]

-----------------------------------------------------------------------------
(* A request: its first critical section leaves the group as g, the file    *)
(* as d, and the goroutine with t still to do.                             *)

Serve(p, g, d, t) == /\ At(p, "idle")
                     /\ requests < MaxRequests
                     /\ requests' = requests + 1
                     /\ group' = g
                     /\ disk' = d
                     /\ Continue(p, t)
                     /\ UNCHANGED <<up, cached, zone, restarts>>

\* Most handlers change the group and then save it.
ServeThenSave(p, g) == Serve(p, g, disk, [at |-> "save"])

\* Some never save it.
ServeInMemory(p, g) == Serve(p, g, disk, Idle)

StartRequest(p) ==
  \E u \in Units : ~group.locked[u] /\ ServeThenSave(p, Promote(group, u))

StopRequest(p) == \E u \in Units : ServeThenSave(p, StopUnit(group, u))

TripRequest(p) == \E u \in Units : ServeThenSave(p, Trip(group, u))

StatusRequest(p) == \E u \in Units, s \in OperatorStatuses :
                      /\ ServeThenSave(p, SetStatus(group, u, s))
                      /\ posted' = posted \cup {s}

TargetRequest(p) == \E t \in Setpoints : ServeThenSave(p, SetTarget(group, t))

DischargeRequest(p) == ServeThenSave(p, group)

\* Only the station's own file is saved, and that one is never read back.
MaintenanceRequest(p) == \E u \in Units : ServeInMemory(p, LockUnit(group, u))

\* ClearLockout writes the file before it gives up group.mu.
ReleaseRequest(p) ==
  \E u \in Units : LET g == ClearLockout(group, u)
                   IN  Serve(p, g, GroupRecord(g), Idle)

VibrationRequest(p) == \E u \in Units, over \in BOOLEAN :
                         ServeInMemory(p, RecordVibration(group, u, over))

\* One command of a session, of the order queue or of a batch (pump.Apply).
CommandRequest(p) ==
  \/ \E u \in Units : ~group.locked[u] /\ ServeInMemory(p, Promote(group, u))
  \/ \E u \in Units : ServeInMemory(p, StopUnit(group, u))
  \/ \E t \in Setpoints : ServeInMemory(p, SetTarget(group, t))

\* POST /failover reads the snapshot of the last refresh, not the groups.
FailoverRequest(p) ==
  Serve(p, group, disk, [at |-> "failover", view |-> cached])

\* Adjust first asks whether some running unit is over the limit.
AdjustRequest(p) ==
  \/ /\ VibrationOverLimit(group)
     /\ Serve(p, group, disk, [at |-> "firstRunning"])
  \/ /\ ~VibrationOverLimit(group)
     /\ \E t \in Setpoints :
          Serve(p, group, disk, [at |-> "setTarget", target |-> t])

Request(p) ==
  \/ StatusRequest(p)
  \/ /\ \/ StartRequest(p)     \/ StopRequest(p)      \/ TripRequest(p)
        \/ TargetRequest(p)    \/ DischargeRequest(p) \/ MaintenanceRequest(p)
        \/ ReleaseRequest(p)   \/ VibrationRequest(p) \/ CommandRequest(p)
        \/ FailoverRequest(p)  \/ AdjustRequest(p)
     /\ UNCHANGED posted

-----------------------------------------------------------------------------
(* The later critical sections of a request.                               *)

\* FirstRunningUnit: with no unit running any more, Adjust gives up.
FirstRunningUnit(p) ==
  /\ At(p, "firstRunning")
  /\ \/ \E u \in FirstRunning(group) : Continue(p, [at |-> "trip", unit |-> u])
     \/ FirstRunning(group) = {} /\ Continue(p, Idle)
  /\ UNCHANGED <<up, group, cached, disk, zone, requests, restarts, posted>>

AdjustTrip(p) ==
  /\ At(p, "trip")
  /\ group' = Trip(group, task[p].unit)
  /\ Continue(p, Idle)
  /\ UNCHANGED <<up, cached, disk, zone, requests, restarts, posted>>

AdjustTarget(p) ==
  /\ At(p, "setTarget")
  /\ group' = SetTarget(group, task[p].target)
  /\ Continue(p, Idle)
  /\ UNCHANGED <<up, cached, disk, zone, requests, restarts, posted>>

\* Failover decides under group.mu on the view it read earlier, and writes the
\* file before it gives up the lock.
FailoverDecide(p) ==
  /\ At(p, "failover")
  /\ \E u \in FailoverChoice(group, task[p].view) :
       /\ group' = Promote(group, u)
       /\ disk' = GroupRecord(Promote(group, u))
  /\ Continue(p, IF p = Scheduler THEN [at |-> "save"] ELSE Idle)
  /\ UNCHANGED <<up, cached, zone, requests, restarts, posted>>

\* No unit to run: 409 to a request, the end of the process for the cycle.
FailoverFail(p) ==
  /\ At(p, "failover")
  /\ FailoverChoice(group, task[p].view) = {}
  /\ up' = (p # Scheduler)
  /\ Continue(p, Idle)
  /\ UNCHANGED <<group, cached, disk, zone, requests, restarts, posted>>

\* Group.Save and SaveSnapshot: the record under group.mu, the write after it.
SaveRecord(p) ==
  /\ At(p, "save")
  /\ Continue(p, [at |-> "write", record |-> GroupRecord(group)])
  /\ UNCHANGED <<up, group, cached, disk, zone, requests, restarts, posted>>

SaveWrite(p) ==
  /\ At(p, "write")
  /\ disk' = task[p].record
  /\ Continue(p, IF p = Scheduler THEN [at |-> "decide"] ELSE Idle)
  /\ UNCHANGED <<up, group, cached, zone, requests, restarts, posted>>

Stage(p) == \/ FirstRunningUnit(p) \/ AdjustTrip(p) \/ AdjustTarget(p)
            \/ FailoverDecide(p)   \/ FailoverFail(p)
            \/ SaveRecord(p)       \/ SaveWrite(p)

-----------------------------------------------------------------------------
(* The control cycle.                                                      *)

\* Refresh reads the units live ...
Refresh ==
  /\ At(Scheduler, "idle")
  /\ Continue(Scheduler, [at |-> "publish", view |-> group.status])
  /\ UNCHANGED <<up, group, cached, disk, zone, requests, restarts, posted>>

\* ... and stores what it read as the snapshot; nobody else writes it, so it
\* is also the view this cycle's Failover will read.
Publish ==
  /\ At(Scheduler, "publish")
  /\ cached' = task[Scheduler].view
  /\ Continue(Scheduler, [at |-> "failover", view |-> task[Scheduler].view])
  /\ UNCHANGED <<up, group, disk, zone, requests, restarts, posted>>

\* EvaluateZone, Decide and Send: a low zone starts the primary, a high one
\* stops it, one off target gets the policy's; a failed command ends the
\* process.
DecideCommand ==
  /\ At(Scheduler, "decide")
  /\ LET startFails == zone = "low" /\ group.locked[Primary]
     IN  /\ up' = ~startFails
         /\ group' = CASE zone = "ok"   -> group
                       [] zone = "low"  -> IF startFails THEN group
                                           ELSE Promote(group, Primary)
                       [] zone = "high" -> StopUnit(group, Primary)
                       [] zone = "off"  -> SetTarget(group, PolicyTarget)
  /\ Continue(Scheduler, Idle)
  /\ UNCHANGED <<cached, disk, zone, requests, restarts, posted>>

Cycle == Refresh \/ Publish \/ Stage(Scheduler) \/ DecideCommand

-----------------------------------------------------------------------------
(* Around the process.                                                     *)

\* Readings arrive, or the policy of the zone is replaced.
ZoneChange == /\ up
              /\ requests < MaxRequests
              /\ requests' = requests + 1
              /\ zone' \in Zones \ {zone}
              /\ UNCHANGED <<up, group, cached, disk, task, restarts, posted>>

\* The process ends between any two steps: killed, signalled, or by a cycle
\* whose sampling or evaluation failed.
Crash == /\ up
         /\ up' = FALSE
         /\ UNCHANGED <<group, cached, disk, task, zone, requests, restarts, posted>>

\* Bootstrap builds the groups and restores them from their files.
Restart == /\ ~up
           /\ restarts < MaxRestarts
           /\ restarts' = restarts + 1
           /\ up' = TRUE
           /\ group' = RestoreFrom(disk)
           /\ cached' = NoView
           /\ task' = [p \in Procs |-> Idle]
           /\ UNCHANGED <<disk, zone, requests, posted>>

Next == \/ \E p \in Requests : Request(p) \/ Stage(p)
        \/ Cycle
        \/ ZoneChange
        \/ Crash
        \/ Restart

\* The ticker keeps the cycle going and a request once begun runs to its end;
\* nobody has to send a request, to kill the process or to restart it.
Fairness == WF_vars(Cycle) /\ \A p \in Requests : WF_vars(Stage(p))

Spec == Init /\ [][Next]_vars /\ Fairness

-----------------------------------------------------------------------------
(* What must hold.  An operator who posts "running" through /status breaks *)
(* the first two at once: SetStatus asks for no lock and moves no active   *)
(* unit.  FailoverConverges holds all the same.                            *)

\* The statuses of an active unit once operators have posted those of s: it runs,
\* or one posted another status, or posted maintenance and then released the unit.
ActiveStatuses(s) ==
  {"running"} \cup s \cup (IF "maintenance" \in s THEN {"standby"} ELSE {})

RunsOnlyActive(g, s) ==
  "running" \notin s => \A u \in Running(g) : g.active = u

BackupsLocked(g, s) ==
  "running" \notin s => \A u \in Running(g) : g.locked[u] => u = Primary

ServingActive(g, s) ==
  g.active # NoUnit => g.status[g.active] \in ActiveStatuses(s)

\* Until an operator posts "running", a unit that runs is the group's active unit,
\* so never do two units pump into one header, whatever requests, cycle and
\* restarts interleave.
RunningIsActive == RunsOnlyActive(group, posted)

\* Until an operator posts "running", a backup locked for maintenance never runs:
\* not started by a failover that decides on a view older than its lock, nor by a
\* command, nor by a restart.  (The primary has no such guarantee: see
\* LockedUnitNeverRuns.)
BackupLockout == BackupsLocked(group, posted)

\* No stop, trip, lock, failover or restart leaves a unit recorded as the active
\* one that does not run: until an operator posts a status there is none such, and
\* then only in a status that was posted, or standby after a posted maintenance.
ActiveServes == ServingActive(group, posted)

\* HealthyUnits: the units that may start.
HealthyUnits(g) ==
  {u \in Units : ~g.locked[u] /\ g.status[u] \in {"running", "standby"}}

\* One active unit serves the group, and a backup does so only while the primary
\* is not healthy.
Served(g) ==
  \E u \in Units : /\ g.active = u
                   /\ Running(g) = {u}
                   /\ Primary \in HealthyUnits(g) => u = Primary

\* Whatever units an overtaken or a stale decision chose or an operator posted as
\* running, a later cycle repairs it: once requests and zone are quiet, the cycle
\* brings the group back to being served and keeps it there, or the process has
\* ended; a high zone, whose unit every cycle starts and stops again, is the
\* exception.  (A single failover may well choose wrongly: see FailoverReadsLive.)
FailoverConverges == <>[](up /\ zone # "high" => Served(group))

\* Whatever older record a late write left in the file, the refresh loop
\* repairs it (SaveSnapshot: "to keep recovery consistent").
DurableConverges == <>[](up /\ zone # "high" => disk = group)

-----------------------------------------------------------------------------
(* What the repository says of the program and its code does not do.       *)

\* "The decision is based on the live station view": a failover requested after
\* the first refresh sees what makes it choose as the units themselves would.
FailoverReadsLive ==
  [][\A p \in Requests :
       cached # NoView /\ FailoverRequest(p) =>
         FailoverChoice(group, task'[p].view) = FailoverChoice(group, group.status)]_vars

\* "LockUnit puts one unit into maintenance and prevents it from starting."
LockedUnitNeverRuns ==
  \A u \in Units : group.locked[u] => group.status[u] # "running"

\* "when a running unit vibrates over the limit the unit is tripped"
AdjustTripsVibratingUnit ==
  [][\A p \in Procs : AdjustTrip(p) => group.overLimit[task[p].unit]]_vars

\* Commands are persisted: a unit locked before the process ended is locked
\* after the restart.
LockoutSurvivesRestart ==
  [][Restart => \A u \in Units : group.locked[u] => group'.locked[u]]_vars
=============================================================================
