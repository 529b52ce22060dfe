# WaterNet: specification, model checking and proofs

WaterNet (`src/`) dispatches and controls a small water network: one station
with two pump groups of two units each, three valves, a tank, a flow meter and
two pressure zones. One Go process serves an HTTP console, one goroutine per
request, while a ticker goroutine runs the control cycle (`Server.Tick`).
State lives in memory behind one mutex per object and is written to small JSON
files and append-only logs, from which `Bootstrap` restores some of it after a
restart.

What makes the program hard to get right is in that sentence. An operation is
a *sequence* of critical sections; decisions are taken on copies (a snapshot, a
view, a record on its way to a file) that are old when they are used; most
files are written after the mutex has been given up, through one temporary file
per record; and a failed cycle ends the process.

## 1. Inventory

| Component (`internal/`) | State | Operations | Interacts with |
|---|---|---|---|
| Pump group (`pump/`) | units' status, lock, vibration; active unit; target; `pumps/<id>.json` | start, stop, trip, lock, clear lock, status, target, vibration, commands, failover, save, restore | station snapshot (failover's view), file store |
| Station, control cycle (`station/state.go`, `release.go`, `console/api.go`) | `cachedState`, the snapshot of the last refresh | refresh; tick: refresh, sample, failover, save, evaluate, command, snapshot | all of them |
| Pressure adjustment (`pressure/adjust.go`) | none | check vibration, trip or set the target | pump group |
| Dispatch queue (`dispatch/order.go`, `station/dispatch.go`) | orders, cursor, issue sequence | draw a number, enqueue, next, reset, drain | pump group |
| Dispatch sessions, receipts (`dispatch/`, `store/execution.go`) | lock per group, `executions.jsonl` | send a command, append a receipt | pump group |
| Valves, gate, executor (`valve/`, `hammer/`) | position and zone of each valve, engaged gates, executor mutex, `valves/<id>.json` | close, close fully, open, protection plan, switch of zone | receipts, readings, zone map |
| Zone map, sampler (`pressure/map.go`, `sample.go`, `window.go`) | zone of each valve, `readings.jsonl` | attach, detach, restore, sample, peak | quota, policy |
| Quota (`quota/`) | usage per zone, limit, window, `quota.json` | consume, release, rollover, save, load | sampler, cycle |
| Policy (`policy/`) | target per zone, `policy.json` | publish, evaluate, decide | readings, pump group |
| Snapshots (`store/snapshot.go`) | `state.json`, `snapshots/` | write, rotate, latest | `Bootstrap` |
| File store (`store/files.go`) | files, temporary files | write by rename, append, read | everything that is saved |
| Flow meters (`pressure/meter.go`, `direction.go`, `store/cumulative.go`) | total, base, direction, `cumulative.json` | add flow, switch direction, save | file store |
| Tanks, namespaces, audit log | levels, zone names, log | fill, register, append | read by the console only |

What each must guarantee, and why it is hard:

- **Pump group.** At most one unit pumps; a locked unit does not run; the unit
  recorded as active serves; a healthy primary takes over; the file converges
  to memory. Requests, the cycle and failovers interleave between critical
  sections, and a failover acts on a view that is one refresh old or more.
- **Dispatch queue.** No order lost or applied twice; issue order up to
  genuine races. The number is drawn in one critical section and the order
  enqueued in another; several drains take and apply concurrently.
- **Valves.** One admitted closure per valve; upstream before downstream;
  receipts and files agree with positions; no error path keeps the executor.
  Appends and writes fail; the switch of a zone saves the valve outside of the
  executor's mutex.
- **Zones and quota.** A reading is filed under the zone of its valve; usage
  never exceeds the limit and matches the rows of the window. Attribution,
  reservation, append and release are separate steps, and a rollover can come
  between any two.
- **Snapshots and files.** A restart finds the newest durable state. Rotation
  is two steps, archives win over the live file, writers share a temporary name.
- **Meters.** A new direction starts from zero; answered flow is never lost. But
  base and direction change in two steps, with additions of flow in between.

The hazards, each at its line, are listed in `PROJECT.json`.

## 2. Modules

| Module | Role |
|---|---|
| `PumpGroup` | one group as a value; each method under `group.mu` as a pure operator |
| `PumpStation` | group g-1 with concurrent requests, the control cycle, the file, crash and restart; properties |
| `MCPumpStation` | constants and symmetry for TLC |
| `PumpStationProofs` | the inductive invariant of `PumpStation` and its safety theorems |
| `IssueQueue` | what the dispatch queue promises: a set of pending orders, the oldest is served next |
| `OrderQueue` | the array with its cursor, issuers, drainers and resets; refines `IssueQueue` |
| `OrderQueueProofs` | types, partition of the orders, inversions are races, serial order, refinement |
| `ValveStroke` | gate, executor, receipts, valve files, failures, crash and restart; properties |
| `MCValveStroke` | constants for TLC |
| `ValveStrokeProofs` | the inductive invariant of `ValveStroke`, its safety theorems, and what releases a gate |
| `ZoneRecovery` | zones of the valves, zone map, cycle, snapshots, rotation, several starts; properties |
| `MCZoneRecovery` | constants for TLC |
| `ZoneRecoveryProofs` | the inductive invariant of `ZoneRecovery` and its safety theorems |
| `Sampling` | samples of requests and of the cycle against the quota, rollover, switch of zone; properties |
| `MCSampling` | constants for TLC |
| `SamplingProofs` | the inductive invariant of `Sampling` and its safety theorems |
| `FileStore` | one file, its temporary file and who holds what open, as a value; each step of a write as an operator |
| `DurableLedger` | what a ledger with a file promises: memory and a saved state of it |
| `SavedRecords` | the meters' ledger and the policy over two instances of `FileStore`; the ledger refines `DurableLedger` |
| `MCSavedRecords` | constants for TLC |
| `SavedRecordsProofs` | the inductive invariant of `SavedRecords`, its safety theorems and the refinement |

No module uses a RECURSIVE operator, so that all of them can be proved about.
Definitions commented "Seeded fault" are used by no specification: each is a
plausible bug, kept in front of the definition it would replace, and shows that
some property notices it (`mutants` in `PROJECT.json`).

### PumpStation

A *task* is where one goroutine stands between two critical sections and what
it carries there. One action is one critical section:

| Code | Actions |
|---|---|
| handlers that change a group and then `Save` it (start, stop, trip, status, target, discharge) | `ServeThenSave`, then `SaveRecord` (under the mutex) and `SaveWrite` (outside of it) |
| maintenance lock, vibration, commands of sessions, queue and batches | one step in memory; these handlers do not write the group's file |
| `ClearLockout` | one step: it writes the file under the mutex |
| `Failover` | read the cached view; then `FailoverDecide` or `FailoverFail` under the mutex, with the write |
| `Adjust` | vibration check; `FirstRunningUnit`; `AdjustTrip`; or `AdjustTarget` |
| `Tick` | `Refresh`, `Publish`, failover, save, `DecideCommand`, and again |
| `main`, `Bootstrap` | `Crash` at any point; `Restart` from the file |

Units are numbered in the order of their ids, so `sort.Strings` is the order of
the numbers. Vibration is "over the limit or not"; target pressures are a small
set; the discharge pressure, which no decision reads, is left out. `zone` is
what `EvaluateZone` finds, and changes arbitrarily. A cycle that fails on a
locked primary in a low zone ends the process, as `log.Fatalf` does. Writes of
the group's file are taken to succeed and to be atomic. The cycle saves g-1 only,
so nothing here is claimed of the convergence of g-2's file.

What operators post to `/pumps/{id}/status` limits the guarantees: `SetStatus` asks
for no lock and moves no active unit. `posted` remembers what was posted so far, and the
properties are as strong as that allows: until `"running"` is posted nothing but the
active unit runs, and no locked backup; until anything is posted the active unit
runs. `FailoverConverges` has no such limit.

It is a claim about the *cycle*, not about one failover: whatever a stale decision
chose or an operator posted, a later cycle repairs. A single failover decides on
the snapshot of the last refresh, against what `failover.go` says of itself
(section 4).

### OrderQueue

An order is its issue sequence number. `NextSeq` and `Enqueue` are two steps, as
in `handleDispatchQueue`; a drain is `BeginDrain`, then `Take` (under the
queue's mutex) and `Apply` or `Reject` (not under it) until `EndDrain`. History
variables record what was applied, rejected, cleared by a reset, and which
orders were *late*: drawn and not enqueued, or taken and not applied, when a
younger one was taken. The queue is in memory only: a restart is `Init` again.

### ValveStroke

A position counts the plan steps (0.25) left to close, so `Full` is 4.
`Executor.Apply` is `Move`, `AppendReceipt` or `FailReceipt` for each step, then
`Save` and `Write` for each, the mutex held from the first `Move` to the last
`Write`. A close is preceded by `Protect` and followed by `RecordPeak` and
`Release`. `SwitchRequest`, `SwitchSave` and `SwitchWrite` are `SwitchZone`,
without the zone map, which is another component. Appends and writes may fail at
any time, with the consequences they have in the code: a failed receipt returns
from `Apply` with nothing saved, a failed save is ignored. The value of a
recorded peak and `Valve.LastAction`, which nothing decides on, are left out.
`receipts` holds the rows since the process started. The zone of a valve is only
data here; `v-up` and `v-down`, the valves of the model, start without one.

After a restart positions can be older than the receipts in the log: all steps
leave receipts before the first valve is saved. The model has this behaviour;
no text promises otherwise, so no property speaks of it.

### ZoneRecovery

The zone of a valve is held three times: in the valve, in its file, and in the
zone map by which its readings are attributed. `SwitchZone` sets the first
(`SwitchRequest`), the map (`Attach`) and the file (`Save`, `Write`) in steps of
their own; a detach touches the map only, and the end of a stroke saves the
valve with whatever zone it has. Bootstrap gives only `v-iso` a zone of its own
(`BootZone`), but attaches all three valves in the map (`BootMap`): `v-up` and
`v-down` belong to no zone by their own account, and to "north" by the map. `apart`
records the valves that a start, the first one too, or two overlapping switches
left with a zone that may not be the map's. A snapshot (`state.json`) is read back for its
map only, so the model's snapshot *is* a map. Of `Tick` the model has what
depends on the map: `SampleValve` for each valve in turn, `Evaluate`,
`TakeSnapshot` and `WriteSnapshot`; a valve without a zone, or no reading in the
station's zone, fails the cycle and ends the process. `Evaluate` may also
succeed on readings of an earlier cycle of the same minute.

Bootstrap is `Start` (restore), `WriteArchive` and `RemoveLive` (rotation), with
crashes in between; requests and cycles come after it. `Latest` is the code's:
the newest archive first. Archives are named by the second, and the clock may
stand still over several starts. An archive that cannot be written leaves the
live file, as does a removal that fails, and Bootstrap goes on.

### Sampling

`Sampler.Sample` is `Lookup`, `Consume` and `AppendRow`, or `FailAppend` and
`Release`; a batch and the cycle repeat it. `StartCycle` compares the window with
the day, `Rollover` opens the new one, in two critical sections as in
`Tick`. `Limit` is 1 000 000 in the code. Rows, and which window gave a unit of
quota, are history. The zone map is that of one run of the process
(`ZoneRecovery` says which map a restart finds).

### FileStore, SavedRecords, DurableLedger

`FileStore` models `WriteBytes` down to the file system: `os.WriteFile`
truncates the shared `<name>.tmp` and fills it, `os.Rename` moves it to the
path; a writer that has the file open while another one renames it goes on
writing into the file at the path, and a rename that finds no temporary file
fails. `SavedRecords` has two records over it. `cumulative.json` is
written with the ledger's mutex held (`SaveLedger`, `FillLedger`,
`RenameLedger`); `policy.json` under `Config.mu` for writing (`PublishRequest`) or
for reading (`PersistRequest`), so two saves can write at a time. An answered
request whose write failed is answered all the same for flow (the handler
ignores the error); `unsaved` remembers the failure. What a *crash of the
machine* loses of unsynced writes is not modelled: the code never calls
`fsync`, and the crashes here are of the process.

## 3. Runs

| Run | Question | Bounds | Result |
|---|---|---|---|
| `pump_station` | do races, stale views, late writes or a restart leave two units running, a locked backup running, or an active unit that does not run? Once requests are quiet, does the cycle repair what stale decisions and posts of `"running"` left, and make the file equal to memory? | 2 units, 2 request goroutines, 2 requests, 1 restart, 2 targets, 3 statuses to post; 1 193 678 states | holds |
| `order_queue` | orders exactly once; only races invert; refinement of `IssueQueue`; a drain reaches every order | 2 issuers, 2 drainers, 4 orders; 78 886 states | holds |
| `valve_stroke` | gate, plan order, receipts, files, completion of requests | 2 valves, 2 zones, 2 goroutines, 2 requests, 1 restart, `Full` = 4; 63 304 states | holds |
| `zone_recovery` | do map, valves and files agree? can every snapshot be resumed from, is the last one kept, how old is what a restart finds? | 2 valves, 2 zones, 2 goroutines, 2 requests, 3 starts, 2 seconds; 858 601 states | holds |
| `sampling` | is the quota accounted for across rollovers, failed appends and restarts? does a switch reach the samples? | 1 valve, 2 zones, limit 2, batches of 2, 2 goroutines, 3 requests, 2 days, 1 restart; 660 974 states | holds |
| `saved_records` | does the ledger with its file keep its promise? is the policy's file right, and whole? | 2 goroutines, 5 requests, 2 targets, 1 restart; 251 522 states | holds |
| `pump_lockout` | "prevents it from starting" (`lockout.go:8`) | 2 requests | violated |
| `pump_adjust` | the vibrating unit is tripped (`adjust.go:11`) | 3 requests | violated |
| `issue_order` | commands are applied in issue order (`station/dispatch.go:10`) | 2 orders, 2 drains | violated |
| `valve_gate` | the gate is released after the stroke (`validate.go:50`) | 2 requests | violated |
| `snapshot_restart` | a recovery finds the latest snapshot (`snapshot.go:8`) | as `zone_recovery` | violated |
| `meter_switch` | a new direction starts from zero (`direction.go:16`) | 3 requests | violated |

**Why the bounds are enough.** A group has one primary and one backup, as
`Bootstrap` builds it. The races found need two or three requests besides the
cycle, which itself is unbounded, and one restart is enough for a
record from before it to meet a change from after it. For the queue, two of each
actor and four orders let two orders be on their way while two are pending, so
that every position of the swap occurs. In `ValveStroke` two overlapping
requests of up to seven steps each reach every pair of stages. `ZoneRecovery`
needs three starts, since only the second restart finds an archive older than the
live file, and two seconds, so that rotations fall into the same second and into
different ones. `Sampling` needs two days, and a limit that two requests and the
cycle exceed together. In `SavedRecords` two writers are what overlaps; five
requests let a record change, be saved, change and be saved again with
another save under way. Where theorems are proved (section 5) they remove the
bounds altogether.
`CHECK_DEADLOCK FALSE` is used where requests and restarts are bounded and the
process may have ended for good.

**Fairness.** Weak fairness of `Cycle` (the ticker goroutine runs as long as
the process lives), of the later stages of a request (a handler once begun runs
to its end; there is no cancellation, and Go's mutexes do not starve), of a
drain's steps and of an enqueue. None for the arrival of a request, a crash or
a restart. `FailoverConverges` and `DurableConverges` are conditional on the
process being up and the zone not being high: in a high zone every cycle starts
the primary (failover) and stops it again (policy), which the model shows and
the properties leave out. "Converges" means by whichever later cycle does it: one
failover may still choose wrongly. `DrainReachesOrders` stops at a rejected command, at
which the code abandons the drain.

`WindowFollowsDay` needs only that the ticker starts one cycle after the other
and that a cycle goes on; the process may end instead, for instance because the
quota is used up. `SnapshotCatchesUp` is conditional on the process staying up.
`RequestsFinish` holds for every schedule in which a begun request goes on: no
error path keeps a lock.

**Qualified properties.** Some properties are true only with a
qualification, and the qualification is what the model says about the code.
- `BackupLockout` excepts the primary, because failover keeps a primary it sees
  running whatever its lock (finding 1).
- `OnlyRacesInvert` excepts late orders (finding 5).
- `SavedWhenQuiet` excepts valves whose file two goroutines wrote at a time: a
  switch of zones builds its record outside of the executor's mutex, and can
  write an old position back after a stroke.
- `ZonesAgree` excepts valves of which two switches overlapped, and valves that a
  start gave two different zones (`apart`): Bootstrap, one in the map and none in
  the valve; a restart, one from the valve's file and another one from the
  snapshot. Without the exception it is finding 7.
- `SnapshotsSampleable` excepts valves detached between their sample and the
  snapshot (`slipped`): the snapshot then lacks the valve, and every process
  restored from it fails in its first cycle, at every start again.
- `LatestIsRecent` promises the last *or the last but one* start, and excepts
  rotations that failed to write their archive (`unrotated`). Why not the last one is
  finding 2.
- `HardLimit` allows one row more for each sample under way when the window
  opened (`carried`), and `SwitchReachesSamples` one reading for each sample
  under way at the switch (`caught`). Without the exceptions they are findings 8
  and 9: the properties say how far the code can go wrong, not that it does not.
- `SegmentRunsOneWay` excepts the flow added between the two steps of a switch of
  direction (`strayed`); without it, it is finding 4.
- `PolicyWhole` excepts the time after two saves overlapped: a crash in the middle
  of the second can leave a file that does not decode, and Bootstrap then
  publishes the default target. `PolicyFileCurrent` needs no such exception:
  once the overlapping saves are done the file is right, since both write
  the same record. Without the exception `PolicyWhole` is finding 10.

## 4. Where code and text disagree

Found by a run of section 3:

1. A primary locked for maintenance is started by a failover whose view is
   older than the lock (`LockedUnitNeverRuns`). `Failover` reads the snapshot of the
   last refresh (`failover.go:25`), where its comments (`failover.go:11-12`, `21-22`)
   and the test `verifycase/verify_test.go:49` ask for the live view. So a single
   failover can also choose another unit than the live statuses would
   (`FailoverReadsLive`, configuration `PumpView`); a later cycle repairs that.
2. From the second restart on, the zone map is restored from an archive older than
   the live state file (`RecoveryFindsLatest`; `snapshot.go:8-9`).
3. `Adjust` can trip a healthy unit that took over between its check and its
   trip (`AdjustTripsVibratingUnit`; `adjust.go:11-12`).
4. Flow added between the two steps of a switch of direction is counted to the new
   direction, which so does not start from zero (`NewDirectionFromZero`;
   `direction.go:16-17`).
5. Two concurrent drains apply orders the wrong way round
   (`AppliedInIssueOrder`; `station/dispatch.go:10-11`).
6. A close that fails after the gate admitted it leaves the gate engaged until
   the process restarts (`EngagedWhileClosing`; `validate.go:50`).

The next five are reported without a run among those of section 3. Each has a
property next to the others of its module and a configuration in which TLC finds
it violated (section 8); how far the code goes wrong is in every case the
exception, or the bound, of a property that holds.

7. Bootstrap gives `v-up` and `v-down` a zone in the map and none in the valve
   (`api.go:249`, `256-261`): `ZoneNow`, "the zone the valve currently belongs to"
   (`valve.go:61`), is empty while their readings are filed under "north". Switches
   that overlap and restarts can part the two again (`AttributedToItsZone`; what
   holds is `ZonesAgree`).
8. The quota is "a hard limit" (`quota.go:16`), but a sample that fails after a
   rollover gives its unit back to a window it never consumed from, which then
   grants a row more than the limit (`QuotaIsHard`; what holds is `HardLimit`).
9. The zone map is updated by a switch "so readings never cross the isolation
   boundary" (`map.go:9-11`), but a sample under way during the switch is filed under
   the zone its valve has left (`ReadingsNeverCross`; what holds is
   `SwitchReachesSamples`).
10. "A crashed process never leaves a half-written record behind" (`files.go:16-18`),
    but two saves of the policy share one temporary file, and a crash between them
    leaves a file that does not decode (`PolicyNeverTorn`; what holds is
    `PolicyWhole`).
11. A restart forgets a maintenance lock that was acknowledged but not yet in the
    group's file, where `BENZHI_README.md:5-6` says that commands are persisted
    (`LockoutSurvivesRestart`; what holds is `DurableConverges`).

One sentence is qualified in its own text, so that its failure is no disagreement:
exactly one unit of a group runs "under normal scheduling" (`pump.go:29-30`). A post of
`"running"` breaks it and a later cycle repairs it.

## 5. Proofs

TLAPS proves every safety property that a run of section 3 finds to hold, and
both refinements, for every value of the constants: any number of units, valves,
zones, goroutines, requests, orders, starts and restarts. Each module of proofs
names one inductive invariant `IInv`, proves `Invariance` (`Spec => []IInv`) by a
lemma for each part of it, and takes the theorems from that. Before it was
proved, each new `IInv` was checked by TLC in the configuration of its run.

- `PumpStationProofs`: `TypeCorrectness`, `OnlyActiveUnitRuns`,
  `LockedBackupNeverRuns`, `ActiveUnitServes`. None of these is inductive:
  nothing in the group alone says what a restart will bring back. The invariant
  `IInv` adds that the group in the file, and every record a goroutine has yet to
  write, is as sound as the group in memory (sound as far as the statuses posted
  allow, which more posts only weaken: `SoundMore`); views, on the other hand, may be
  anything, since failover asks for the lock again. The soundness of a group is
  preserved by each operator of `PumpGroup` (a lemma each), and the actions
  follow from these lemmas.
- `OrderQueueProofs`: `TypeCorrectness`; `OrdersAccountedFor` (tickets, pending, held, applied,
  rejected and cleared orders partition `1 .. seq`, with no repetition), which needs
  that the served prefix of the array keeps out of the pending part under the
  swap; `InversionsAreRaces`, from the invariant that every order older than one
  taken is settled or late; `SerialIssueOrder`, with one issuer and one
  drainer; and `Refinement`, each step a step of `IssueQueue` or a stutter.
- `SavedRecordsProofs`: `FlowSurvives`, `SegmentsRunOneWay`, `PolicyFileFollows`,
  `PolicyLoads`, `TypeCorrectness` and the refinement `LedgerIsDurable`. The
  invariant says for the ledger that the goroutine with the mutex carries the
  ledger as it is and has the temporary file to itself, so that the file is
  always some past ledger and never torn; that the flow in memory covers what
  was answered and what is still to be answered (a cardinality); and that the
  flow of a segment is zero by direction while a switch is under way. For the
  policy, whose writers share the temporary file, it says that all of them carry
  the published target, that what a goroutine fills was truncated for that
  target, and that a truncated temporary file has someone who fills it: the
  target is at the path, or one of these goroutines has yet to bring it there.
  A failed write breaks the chain, which is why `unsaved` is in the properties.
- `ValveStrokeProofs`: `TypeCorrectness`, `OneClosureAtATime`, `PlansInOrder`,
  `ReceiptsTell`, `FilesSaved`. The executor's mutex is the heart of it: whoever
  is past its first movement holds the executor (`OneStroke`). So while a plan is
  between its two movements, the last receipt is its own upstream one, which
  is what `PlansInOrder` needs; and a valve that has moved without a receipt is the
  one of that holder. The gate's exclusion (`GateHeld`) runs from the admission to the
  release, through stages that carry the valve in two different ways. For the
  files (`Followed`): a file that is not the valve in memory has a goroutine that is
  still to read the valve for it, or one that is about to write what the valve is; only a
  failed write or two writers at a time break that, and both are recorded.
  `GateReleased` narrows finding 6: in every behaviour in which no append fails, a
  gate is engaged only while a close is under way, crashes and failing *writes*
  included. So the early returns after an append are the only leak.
- `SamplingProofs`: `TypeCorrectness`, `QuotaIsAccount`, `LimitIsHard`,
  `SwitchIsolates`. The quota of a zone is an account, balanced by a cardinality:
  the goroutines that hold a unit of this window. The excess over the limit is
  bounded since a sample under way when the window opened is *spent once*, as a row
  or as a unit given back; the same argument, with the goroutines whose sample
  is astray, bounds what is filed under a zone that a valve has left. `Requests`
  may be infinite: that only finitely many samples are under way at a time
  is part of the invariant. That no counter of the model goes out of its type
  rests on the account too, so even type correctness is not inductive alone.
- `ZoneRecoveryProofs`: `TypeCorrectness`, `ZonesInStep`, `SnapshotsComplete`,
  `SnapshotNeverLost`, `RestartIsRecent`. The live file, while there is one, is the
  last snapshot written, and a rotation that is about to remove it has made
  it the newest archive (`LiveIsLast`, `Rotating`, `NewestKept`). Therefore a rotation may replace an
  archive of its own second, and a crash may repeat it. How far a restart goes
  back is `Recent`: while the last snapshot is not archived yet, the newest archive is
  at most one writer behind; a removal that failed leaves the live file beside the
  archive, both of them the last snapshot. For the zones, which a start may leave
  apart (`apart`) whatever `BootZone` and `BootMap` are: a valve outside of `apart` is, from
  its last switch on, attached by at most one request, to the zone it has
  (`AttachAlone`).
  The newest archive and the last writer are maxima; that a bounded set of numbers
  has one is proved from the well-foundedness of `<`, since induction over data is
  out of reach.

Assumptions are those the modules name: at least one unit, 0 among the
pressures, the scheduler not a request goroutine, the default target among the
targets, no record equal to a missing or a torn file, no zone equal to the mark
for none, nobody not a request, every valve attached to some zone in the map at the
start (and with a zone of its own or without), an open valve at
least one step from closed, the order of sampling a sequence of valves, not empty, and
bounds natural numbers.
TLC evaluates them in every run.

**Only model-checked:** the liveness properties (`FailoverConverges`,
`DurableConverges`, `DrainReachesOrders`, `RequestsFinish` of two modules,
`SnapshotCatchesUp`, `WindowFollowsDay`), since fairness and ENABLED are out of the
prover's reach.

**What the refuted claims take.** TLC refutes the claims of section 4; for five of
them a theorem says what their failure takes, and thereby that nothing else
breaks them. The conditions are formulas of the behaviour that the code
does not ensure, and a repair could be any change that does:

| Finding | Theorem | Condition |
|---|---|---|
| 1 | `OnlyFailoverRunsLocked` | no failover keeps a primary that is locked on a view that shows it running (`LocksSeen`), no operator posts `"running"` |
| 2 | `OnlyArchiveHidesLatest` | none: the snapshot missed is always in the live file, hidden by an archive |
| 3 | `UndisturbedAdjustAimsTrue` | the group does not change between the critical sections of an adjustment (`AdjustUndisturbed`), no operator posts `"running"`; the proof needs that no second unit runs, which is `RunningIsActive` |
| 5 | `SerialIssueOrder` | one issuer and one drainer |
| 6 | `GateReleased` | no append fails (`AllAppended`) |

Finding 4 is bounded by `SegmentsRunOneWay`, findings 7 to 10 by `ZonesInStep`, `LimitIsHard`,
`SwitchIsolates` and `PolicyLoads`: nothing but the exception each of them states can
happen. Finding 11 has no theorem, as a maintenance request never writes the file of
the group: any end of the process before the next save loses the lock.

## 6. Not modelled

Tanks, namespaces and the audit log decide nothing. Routing, decoding and
read-only handlers are I/O. The vendored router and UUID library are third-party.
The receipts and the group lock of dispatch sessions only
order session commands among themselves; the command a session applies is in
`PumpStation`.

Appends are whole or fail: that one which fails half-way leaves part of a line,
on which every later load of that log fails, is not modelled. The slots of
closure peaks serve queries only. `Decide` reads the published target a
second time, which matters only when it was changed since the evaluation, and
which the next cycle corrects; `PumpStation` has one target. The
parts of the control cycle are in three modules that are not composed; each
takes a failure of the other parts as a crash, which may come at any time.

## 7. Plan

Order is by importance of the behaviour. Done: 1. `PumpGroup`, `PumpStation` and
proofs; 2. `IssueQueue`, `OrderQueue`, proofs and refinement; 3. `ValveStroke`;
4. `ZoneRecovery`; 5. `Sampling`; 6. `FileStore`, `SavedRecords`, `DurableLedger`,
proofs and refinement; 7. proofs of `Sampling`, 8. of `ValveStroke`, 9. of
`ZoneRecovery`; 10. what the findings of section 4 take.

Left, all proofs: action properties of the steps (what a rotation, a stroke or a
save never does), and a refinement of `ZoneRecovery` onto a durable cell
that a restart reads, which would state `RestartIsRecent` as an abstract
specification.

## 8. Running

    tlc -config PumpStation.cfg MCPumpStation
    tlc -config OrderQueue.cfg OrderQueue
    tlc -config ValveStroke.cfg MCValveStroke
    tlc -config ZoneRecovery.cfg MCZoneRecovery
    tlc -config Sampling.cfg MCSampling
    tlc -config SavedRecords.cfg MCSavedRecords
    tlapm PumpStationProofs.tla
    tlapm OrderQueueProofs.tla
    tlapm SavedRecordsProofs.tla
    tlapm ValveStrokeProofs.tla
    tlapm SamplingProofs.tla
    tlapm ZoneRecoveryProofs.tla

Each of these ends with a counterexample: `PumpLockout` and `PumpAdjust` (module
`MCPumpStation`), `IssueOrder` (`OrderQueue`), `ValveGate` (`MCValveStroke`),
`SnapshotRestart` (`MCZoneRecovery`) and `MeterSwitch` (`MCSavedRecords`), which are
runs of section 3; and `PumpView`, `PumpRestart` (`MCPumpStation`), `ValveZone`
(`MCZoneRecovery`), `QuotaLimit`, `ZoneCrossing` (`MCSampling`) and `PolicyTorn`
(`MCSavedRecords`), which show the rest of section 4.
