------------------------------ MODULE Sampling ------------------------------
(***************************************************************************)
(* Pressure samples and the quota they draw on.  A sample takes the zone   *)
(* of its valve from the zone map, consumes a unit of that zone's quota,   *)
(* and appends its row to readings.jsonl; when the append fails it gives   *)
(* the unit back.  Each of these is a critical section of its own, run at  *)
(* the same time by HTTP requests (one sample or a batch) and by the       *)
(* control cycle, which opens a new quota window at the first cycle of a   *)
(* day.  Other requests attach valves to zones and detach them.            *)
(*                                                                         *)
(* quota.json is written by the very first start only, so every restart    *)
(* loads the same unused quota under the same old window.  Of the rest of  *)
(* the cycle only that it may fail is modelled, as a crash.                *)
(***************************************************************************)
EXTENDS Integers, FiniteSets, Sequences

CONSTANTS Valves,       \* the valves of the station
          Zones,        \* the zones
          None,         \* no zone: a valve the map does not have
          BootMap,      \* the map the process starts from
          Requests,     \* goroutines that serve HTTP requests
          Scheduler,    \* the goroutine of the control cycle
          Order,        \* the valves in the order the cycle samples them
          Limit,        \* the quota of a zone; 1000000 in the code
          MaxBatch,     \* bound on the readings of a batch
          MaxRequests,  \* bound on the requests served
          MaxDays,      \* bound on the calendar
          MaxRestarts   \* bound on the restarts of the process

ASSUME NoneAssumption == None \notin Zones
ASSUME BootMapAssumption == BootMap \in [Valves -> Zones \cup {None}]
ASSUME OrderAssumption == Order \in Seq(Valves) /\ Order # <<>>
ASSUME SchedulerAssumption == Scheduler \notin Requests
ASSUME LimitAssumption == Limit \in Nat

Procs == Requests \cup {Scheduler}

VARIABLES up,        \* the process is alive
          map,       \* ZoneMap.attribution
          used,      \* Ledger.used, of each zone
          window,    \* Ledger.window, a day; 0 is the window of the file
          today,     \* the calendar
          task,      \* where each goroutine stands
          requests,  \* requests served so far
          restarts,  \* restarts so far
          \* History, of the open window of the ledger, for the properties:
          rows,      \* rows appended, by zone
          stray,     \* those of them whose unit an earlier window gave
          robbed,    \* units it lacks since samples of an earlier window
                     \* gave theirs back to it
          carried,   \* samples under way when the window opened
          \* History, since a valve was last attached or detached:
          misfiled,  \* rows of it filed under a zone it had left
          caught     \* samples of it that were under way at that moment

ledger  == <<used, window>>
bounds  == <<requests, restarts>>
charges == <<rows, stray, robbed, carried>>
filing  == <<misfiled, caught>>
vars    == <<up, map, ledger, today, task, bounds, charges, filing>>

PerZone  == [Zones -> Nat]
PerValve == [Valves -> Nat]
NoZone   == [z \in Zones |-> 0]
NoValve  == [v \in Valves |-> 0]

Idle == [at |-> "idle"]

\* valve is to be sampled, left more times; of says in which window the unit
\* of quota was consumed (history).
Tasks ==
       {Idle}
  \cup [at : {"rollover"}]
  \cup [at : {"lookup"}, valve : Valves, left : Nat]
  \cup [at : {"consume"}, valve : Valves, left : Nat, zone : Zones]
  \cup [at : {"append", "release"}, valve : Valves, left : Nat, zone : Zones,
        of : {"this", "earlier"}]

TypeOK == /\ up \in BOOLEAN
          /\ map \in [Valves -> Zones \cup {None}]
          /\ used \in PerZone
          /\ window \in Nat /\ today \in Nat
          /\ task \in [Procs -> Tasks]
          /\ requests \in Nat /\ restarts \in Nat
          /\ rows \in PerZone /\ stray \in PerZone
          /\ robbed \in PerZone /\ carried \in PerZone
          /\ misfiled \in PerValve /\ caught \in PerValve

Init == /\ up = TRUE
        /\ map = BootMap
        /\ used = NoZone /\ window = 0
        /\ today = 1
        /\ task = [p \in Procs |-> Idle]
        /\ requests = 0 /\ restarts = 0
        /\ rows = NoZone /\ stray = NoZone /\ robbed = NoZone /\ carried = NoZone
        /\ misfiled = NoValve /\ caught = NoValve

At(p, stage) == up /\ task[p].at = stage

Continue(p, t) == task' = [task EXCEPT ![p] = t]

\* Samples that hold a unit of zone z, and samples of v that know its zone.
Holding(z) == {p \in Procs : task[p].at \in {"append", "release"} /\ task[p].zone = z}
Located(v) == {p \in Procs : task[p].at \in {"consume", "append"} /\ task[p].valve = v}

-----------------------------------------------------------------------------
(* Requests.                                                               *)

Begin(p, t) == /\ At(p, "idle")
               /\ p \in Requests
               /\ requests < MaxRequests
               /\ requests' = requests + 1
               /\ Continue(p, t)
               /\ UNCHANGED <<up, ledger, today, restarts, charges>>

\* /samples, and /samples/batch.
SampleRequest(p) ==
  \E v \in Valves, n \in 1 .. MaxBatch :
     /\ Begin(p, [at |-> "lookup", valve |-> v, left |-> n])
     /\ UNCHANGED <<map, filing>>

Reattribute(v, z) == /\ map' = [map EXCEPT ![v] = z]
                     /\ misfiled' = [misfiled EXCEPT ![v] = 0]
                     /\ caught' = [caught EXCEPT ![v] = Cardinality(Located(v))]

\* SwitchZone, of which only the map matters here, and detach.
ZoneRequest(p) == \E v \in Valves, z \in Zones \cup {None} :
                    Begin(p, Idle) /\ z # map[v] /\ Reattribute(v, z)

-----------------------------------------------------------------------------
(* Sampler.Sample, of a request or of the cycle.                           *)

\* The process ends; the error path of a cycle, and a crash.
Ends == /\ up' = FALSE
        /\ task' = [p \in Procs |-> Idle]

\* A sample that fails ends its request, batch and all, or the process.
SampleFails(p) ==
  \/ p # Scheduler /\ Continue(p, Idle) /\ UNCHANGED up
  \/ p = Scheduler /\ Ends

\* Seeded fault: the zone is looked up once for the whole batch.
NextInZone(t) ==
  [at |-> "consume", valve |-> t.valve, left |-> t.left - 1, zone |-> t.zone]

\* SampleBatch samples its readings one after the other.
NextReading(t) == [at |-> "lookup", valve |-> t.valve, left |-> t.left - 1]

\* The cycle goes on to the next valve.
NextValve(v) ==
  LET k == CHOOSE k \in DOMAIN Order : Order[k] = v
  IN  IF k + 1 \in DOMAIN Order
      THEN [at |-> "lookup", valve |-> Order[k + 1], left |-> 1] ELSE Idle

AfterSample(p, t) == IF p = Scheduler THEN NextValve(t.valve)
                     ELSE IF t.left > 1 THEN NextReading(t) ELSE Idle

\* ZoneMap.ZoneFor
Lookup(p) ==
  /\ At(p, "lookup")
  /\ LET t == task[p]
         z == map[t.valve]
     IN  \/ /\ z # None
            /\ Continue(p, [at |-> "consume", valve |-> t.valve, left |-> t.left,
                            zone |-> z])
            /\ UNCHANGED up
         \/ z = None /\ SampleFails(p)
  /\ UNCHANGED <<map, ledger, today, bounds, charges, filing>>

\* Seeded fault: the quota is compared before the unit is added to it.
WithinLimit(z) == used[z] <= Limit

\* TryConsume of one unit.
Grants(z) == used[z] + 1 <= Limit

Consume(p) ==
  /\ At(p, "consume")
  /\ LET t == task[p]
     IN  \/ /\ Grants(t.zone)
            /\ used' = [used EXCEPT ![t.zone] = @ + 1]
            /\ Continue(p, [at |-> "append", valve |-> t.valve, left |-> t.left,
                            zone |-> t.zone, of |-> "this"])
            /\ UNCHANGED up
         \/ ~Grants(t.zone) /\ SampleFails(p) /\ UNCHANGED used
  /\ UNCHANGED <<map, window, today, bounds, charges, filing>>

\* WindowAggregator.Append
AppendRow(p) ==
  /\ At(p, "append")
  /\ LET t == task[p]
     IN  /\ rows' = [rows EXCEPT ![t.zone] = @ + 1]
         /\ stray' = IF t.of = "earlier" THEN [stray EXCEPT ![t.zone] = @ + 1]
                                         ELSE stray
         /\ misfiled' = IF map[t.valve] = t.zone THEN misfiled
                        ELSE [misfiled EXCEPT ![t.valve] = @ + 1]
         /\ Continue(p, AfterSample(p, t))
  /\ UNCHANGED <<up, map, ledger, today, bounds, robbed, carried, caught>>

FailAppend(p) == /\ At(p, "append")
                 /\ Continue(p, [task[p] EXCEPT !.at = "release"])
                 /\ UNCHANGED <<up, map, ledger, today, bounds, charges, filing>>

\* Seeded fault: nothing stops Release at zero.
GiveBackAnyway(z) == [used EXCEPT ![z] = @ - 1]

\* Release never goes below zero.
GiveBack(z) == [used EXCEPT ![z] = IF @ >= 1 THEN @ - 1 ELSE 0]

Release(p) ==
  /\ At(p, "release")
  /\ LET t == task[p]
     IN  /\ used' = GiveBack(t.zone)
         /\ robbed' = [robbed EXCEPT ![t.zone] =
                         CASE t.of = "earlier" /\ used[t.zone] > 0 -> @ + 1
                           [] t.of = "this" /\ used[t.zone] = 0    -> @ - 1
                           [] OTHER                                -> @]
  /\ SampleFails(p)
  /\ UNCHANGED <<map, window, today, bounds, rows, stray, carried, filing>>

-----------------------------------------------------------------------------
(* The control cycle.                                                      *)

\* Tick compares the window of the ledger with the day.
StartCycle ==
  /\ At(Scheduler, "idle")
  /\ Continue(Scheduler, IF window # today THEN [at |-> "rollover"]
              ELSE [at |-> "lookup", valve |-> Order[1], left |-> 1])
  /\ UNCHANGED <<up, map, ledger, today, bounds, charges, filing>>

\* Seeded fault: a new window leaves the usage as it is.
KeepUsage == used

NewUsage == NoZone

\* Seeded fault: a window once opened stays the window.
FirstWindow == IF window = 0 THEN today ELSE window

NewWindow == today

\* What was consumed until now, an earlier window gave.
Aged(t) == IF t.at \in {"append", "release"} THEN [t EXCEPT !.of = "earlier"] ELSE t

Rollover ==
  /\ At(Scheduler, "rollover")
  /\ window' = NewWindow
  /\ used' = NewUsage
  /\ task' = [p \in Procs |->
                IF p = Scheduler
                THEN [at |-> "lookup", valve |-> Order[1], left |-> 1]
                ELSE Aged(task[p])]
  /\ rows' = NoZone /\ stray' = NoZone /\ robbed' = NoZone
  /\ carried' = [z \in Zones |-> Cardinality(Holding(z))]
  /\ UNCHANGED <<up, map, today, bounds, filing>>

Midnight == /\ today < MaxDays
            /\ today' = today + 1
            /\ UNCHANGED <<up, map, ledger, task, bounds, charges, filing>>

Crash == /\ up
         /\ Ends
         /\ UNCHANGED <<map, ledger, today, bounds, charges, filing>>

\* The quota as the first start saved it; ZoneRecovery says which map.
Restart ==
  /\ ~up
  /\ restarts < MaxRestarts
  /\ restarts' = restarts + 1
  /\ up' = TRUE
  /\ map' = BootMap
  /\ used' = NoZone /\ window' = 0
  /\ rows' = NoZone /\ stray' = NoZone /\ robbed' = NoZone /\ carried' = NoZone
  /\ misfiled' = NoValve /\ caught' = NoValve
  /\ UNCHANGED <<today, task, requests>>

Request(p) == SampleRequest(p) \/ ZoneRequest(p)

Stage(p) == \/ Lookup(p)     \/ Consume(p) \/ AppendRow(p)
            \/ FailAppend(p) \/ Release(p)

Next == \/ \E p \in Procs : Request(p) \/ Stage(p)
        \/ StartCycle
        \/ Rollover
        \/ Midnight
        \/ Crash
        \/ Restart

\* The ticker starts one cycle after the other, and what is begun goes on.
Fairness == /\ WF_vars(StartCycle) /\ WF_vars(Rollover)
            /\ \A p \in Procs : WF_vars(Stage(p))

Spec == Init /\ [][Next]_vars /\ Fairness

-----------------------------------------------------------------------------
\* Samples that hold a unit of z the open window gave.
HoldingThis(z) == {p \in Holding(z) : task[p].of = "this"}

\* What the ledger says of a zone is the rows of the open window and the samples
\* under way, less what samples of an earlier window gave back to it.
UsageAccounted ==
  up => \A z \in Zones :
          used[z] + robbed[z]
            = (rows[z] - stray[z]) + Cardinality(HoldingThis(z))

\* A window takes Limit rows of a zone, and at most one more for each sample that
\* was under way when it opened.
HardLimit == \A z \in Zones : rows[z] <= Limit + carried[z]

\* After a switch each sample under way files at most one more reading under the
\* zone the valve has left; whatever is sampled later follows the switch.
SwitchReachesSamples == \A v \in Valves : misfiled[v] <= caught[v]

\* On a new day a new window opens, or the process has ended.
WindowFollowsDay == up /\ window # today ~> ~up \/ window = today

-----------------------------------------------------------------------------
(* What the repository says of the program and its code does not do.       *)

\* "Usage against a hard limit": no window grants a zone more rows than Limit, the
\* rows on units of an earlier window not counted.
QuotaIsHard == \A z \in Zones : rows[z] - stray[z] <= Limit

\* "Updated when an isolation valve switches zones so readings never cross the
\* isolation boundary."
ReadingsNeverCross == \A v \in Valves : misfiled[v] = 0
=============================================================================
