---------------------------- MODULE ZoneRecovery ----------------------------
(***************************************************************************)
(* Which zone each valve belongs to, and how that survives a restart: the  *)
(* Zone field of every valve with the valve's file, the zone map that      *)
(* readings are attributed by, the snapshots of that map which the control *)
(* cycle writes to state.json, and the archives Bootstrap rotates them     *)
(* into and restores the map from.                                         *)
(*                                                                         *)
(* Requests switch a valve's zone, detach it from the map or save the      *)
(* valve, in several steps each, while the cycle samples the valves one    *)
(* after the other and then takes its snapshot.  Of the cycle only what    *)
(* depends on the map is modelled; its other failures end the process like *)
(* a crash, which comes at any time, Bootstrap included.  A snapshot is    *)
(* the map in it.  Archives are named by the second of the rotation.       *)
(***************************************************************************)
EXTENDS Integers, Sequences, FiniteSetsExt

CONSTANTS Order,        \* the valves, in the order the cycle samples them
          Zones,        \* the zones
          None,         \* no zone: of a valve, or of one the map does not have
          StationZone,  \* the zone the control cycle evaluates
          BootZone,     \* the zone Bootstrap gives each valve itself, if any
          BootMap,      \* the zone it attaches each valve to in the map
          Requests,     \* goroutines that serve HTTP requests
          MaxRequests,  \* bound on the requests served
          MaxStarts,    \* bound on the starts of the process
          MaxSecond     \* bound on the clock

Valves == {Order[k] : k \in DOMAIN Order}

ASSUME OrderAssumption == Order \in Seq(Valves) /\ Order # <<>>
ASSUME NoneAssumption == None \notin Zones
ASSUME StationZoneAssumption == StationZone \in Zones
ASSUME BootZoneAssumption == BootZone \in [Valves -> Zones \cup {None}]
ASSUME BootMapAssumption == BootMap \in [Valves -> Zones]
ASSUME BoundsAssumption ==
  MaxRequests \in Nat /\ MaxStarts \in Nat \ {0} /\ MaxSecond \in Nat

VARIABLES phase,     \* where the process stands, see Phases
          zone,      \* Valve.Zone, of each valve
          file,      \* the zone in valves/<id>.json
          map,       \* ZoneMap.attribution
          live,      \* state.json
          archives,  \* snapshots/, by the second in the name
          second,    \* the clock
          cycle,     \* where the control cycle stands
          task,      \* where each request stands
          requests,  \* requests served so far
          starts,    \* starts of the process so far
          \* History, for the properties:
          taken,     \* the last snapshot written by each start of the process
          apart,     \* valves a start, or two switches at a time, left with a zone
                     \* that may not be the map's
          slipped,   \* valves detached between their sample and the snapshot
          unrotated  \* a rotation failed to write its archive

disk    == <<file, live, archives>>
bounds  == <<second, requests, starts>>
history == <<taken, apart, slipped, unrotated>>
vars    == <<phase, zone, map, disk, cycle, task, bounds, history>>

Maps == [Valves -> Zones \cup {None}]

\* The map without any entry, which is not the same as no snapshot at all.
NoMap == [v \in Valves |-> None]

NoSnapshot == <<>>

Snapshots == Maps \cup {NoSnapshot}

\* Bootstrap restores, writes the archive and removes the live file in turn.
Phases == {"down", "archive", "remove", "serve"}

\* The cycle samples the valves, n being the next, evaluates the station's
\* zone, and takes and writes its snapshot.
Cycles ==
       [at : {"idle", "snapshot"}]
  \cup [at : {"sample"}, n : DOMAIN Order, heard : BOOLEAN]
  \cup [at : {"evaluate"}, heard : BOOLEAN]
  \cup [at : {"write"}, snapshot : Maps]

Resting == [at |-> "idle"]

Idle == [at |-> "idle"]

Tasks == {Idle} \cup [at : {"attach"}, valve : Valves, to : Zones]
                \cup [at : {"save"}, valve : Valves]
                \cup [at : {"write"}, valve : Valves, record : Zones \cup {None}]

TypeOK == /\ phase \in Phases
          /\ zone \in [Valves -> Zones \cup {None}]
          /\ file \in [Valves -> Zones \cup {None}]
          /\ map \in Maps
          /\ live \in Snapshots
          /\ archives \in [0 .. MaxSecond -> Snapshots]
          /\ second \in 0 .. MaxSecond
          /\ cycle \in Cycles
          /\ task \in [Requests -> Tasks]
          /\ requests \in Nat /\ starts \in Nat
          /\ taken \in [1 .. MaxStarts -> Snapshots]
          /\ apart \subseteq Valves
          /\ slipped \subseteq Valves
          /\ unrotated \in BOOLEAN

\* The valves whose zone is not the one the map has for them.
Differing(z, m) == {v \in Valves : m[v] # z[v]}

\* The first start, with an empty data directory: a valve without a file keeps the
\* zone Bootstrap gives it, which is none at all for most.
Init == /\ phase = "serve"
        /\ zone = BootZone
        /\ file = BootZone
        /\ map = BootMap
        /\ live = NoSnapshot
        /\ archives = [s \in 0 .. MaxSecond |-> NoSnapshot]
        /\ second = 0
        /\ cycle = Resting
        /\ task = [r \in Requests |-> Idle]
        /\ requests = 0
        /\ starts = 1
        /\ taken = [n \in 1 .. MaxStarts |-> NoSnapshot]
        /\ apart = Differing(BootZone, BootMap) /\ slipped = {}
        /\ unrotated = FALSE

-----------------------------------------------------------------------------
(* Requests.                                                               *)

At(r, stage) == phase = "serve" /\ task[r].at = stage

Continue(r, t) == task' = [task EXCEPT ![r] = t]

Begin(r, t) == /\ At(r, "idle")
               /\ requests < MaxRequests
               /\ requests' = requests + 1
               /\ Continue(r, t)
               /\ UNCHANGED <<phase, disk, cycle, second, starts, taken, unrotated>>

\* Some request has set the zone of v and not yet the map.
Attaching(v) == \E r \in Requests : task[r].at = "attach" /\ task[r].valve = v

\* SwitchZone: first the zone of the valve, under Valve.mu.
SwitchRequest(r) ==
  \E v \in Valves, z \in Zones :
     /\ Begin(r, [at |-> "attach", valve |-> v, to |-> z])
     /\ zone' = [zone EXCEPT ![v] = z]
     /\ apart' = IF Attaching(v) THEN apart \cup {v} ELSE apart \ {v}
     /\ UNCHANGED <<map, slipped>>

\* The cycle under way has sampled v and not yet taken its snapshot.
Sampled(v) == \/ cycle.at \in {"evaluate", "snapshot"}
              \/ cycle.at = "sample" /\ \E k \in 1 .. cycle.n - 1 : Order[k] = v

\* /valves/{id}/detach
DetachRequest(r) ==
  \E v \in Valves :
     /\ Begin(r, Idle)
     /\ map' = [map EXCEPT ![v] = None]
     /\ slipped' = IF Sampled(v) THEN slipped \cup {v} ELSE slipped
     /\ UNCHANGED <<zone, apart>>

\* A stroke ends by saving the valve, zone and all (ValveStroke).
StrokeRequest(r) ==
  \E v \in Valves : /\ Begin(r, [at |-> "save", valve |-> v])
                    /\ UNCHANGED <<zone, map, apart, slipped>>

\* Seeded fault: a valve the map has already is not attached again.
AttachNew(v, z) == map' = IF map[v] = None THEN [map EXCEPT ![v] = z] ELSE map

\* ZoneMap.AttachZone
AttachZone(v, z) == map' = [map EXCEPT ![v] = z]

Attach(r) == /\ At(r, "attach")
             /\ AttachZone(task[r].valve, task[r].to)
             /\ Continue(r, [at |-> "save", valve |-> task[r].valve])
             /\ UNCHANGED <<phase, zone, disk, cycle, bounds, history>>

\* Valve.Save: the record under Valve.mu ...
Save(r) ==
  /\ At(r, "save")
  /\ Continue(r, [at |-> "write", valve |-> task[r].valve,
                  record |-> zone[task[r].valve]])
  /\ UNCHANGED <<phase, zone, map, disk, cycle, bounds, history>>

\* ... and the write, which may fail.
Write(r) ==
  /\ At(r, "write")
  /\ \/ file' = [file EXCEPT ![task[r].valve] = task[r].record]
     \/ UNCHANGED file
  /\ Continue(r, Idle)
  /\ UNCHANGED <<phase, zone, map, live, archives, cycle, bounds, history>>

Request(r) == SwitchRequest(r) \/ DetachRequest(r) \/ StrokeRequest(r)

Stage(r) == Attach(r) \/ Save(r) \/ Write(r)

-----------------------------------------------------------------------------
(* The control cycle.                                                      *)

\* The process ends; memory is lost, the files stay.
Ends == /\ phase' = "down"
        /\ cycle' = Resting
        /\ task' = [r \in Requests |-> Idle]
        /\ UNCHANGED <<zone, map, disk, bounds, history>>

CycleAt(stage) == phase = "serve" /\ cycle.at = stage

CycleContinues(c) ==
  /\ cycle' = c
  /\ UNCHANGED <<phase, zone, map, disk, task, bounds, history>>

StartCycle ==
  /\ CycleAt("idle")
  /\ CycleContinues([at |-> "sample", n |-> 1, heard |-> FALSE])

\* Seeded fault: a valve without a zone is skipped.
SkipsUnattributed(v) == v \in Valves

\* Sample refuses a valve without a zone.
Sampleable(v) == map[v] # None

\* heard: some reading was filed under the station's zone.
SampleValve ==
  /\ CycleAt("sample")
  /\ Sampleable(Order[cycle.n])
  /\ LET heard == cycle.heard \/ map[Order[cycle.n]] = StationZone
     IN  CycleContinues(IF cycle.n = Len(Order)
                        THEN [at |-> "evaluate", heard |-> heard]
                        ELSE [at |-> "sample", n |-> cycle.n + 1, heard |-> heard])

SampleFails == CycleAt("sample") /\ ~Sampleable(Order[cycle.n]) /\ Ends

\* EvaluateZone needs a reading of the last minute; it may be an older one.
Evaluate == /\ CycleAt("evaluate")
            /\ CycleContinues([at |-> "snapshot"])

EvaluateFails == CycleAt("evaluate") /\ ~cycle.heard /\ Ends

\* Seeded fault: the snapshot on file is taken again.
TakeAgain == /\ CycleAt("snapshot")
             /\ CycleContinues([at |-> "write", snapshot |-> live])

TakeSnapshot == /\ CycleAt("snapshot")
                /\ CycleContinues([at |-> "write", snapshot |-> map])

\* Seeded fault: a snapshot that is there already is kept.
SaveFirst(m) == live' = IF live = NoSnapshot THEN m ELSE live

SaveState(m) == live' = m

\* SnapshotService.Write; the process ends when it fails.
WriteSnapshot ==
  /\ CycleAt("write")
  /\ SaveState(cycle.snapshot)
  /\ taken' = [taken EXCEPT ![starts] = cycle.snapshot]
  /\ cycle' = Resting
  /\ UNCHANGED <<phase, zone, map, file, archives, task, bounds,
                 apart, slipped, unrotated>>

Cycle == \/ StartCycle   \/ SampleValve   \/ SampleFails
         \/ Evaluate     \/ EvaluateFails
         \/ TakeSnapshot \/ WriteSnapshot

-----------------------------------------------------------------------------
(* The end of the process, and Bootstrap.                                  *)

Crash == phase # "down" /\ Ends

Archived == {s \in 0 .. MaxSecond : archives[s] # NoSnapshot}

\* Seeded fault: the names are tried from the first on.
OldestArchive == Min(Archived)

NewestArchive == Max(Archived)

\* Latest: the newest archive, and the live file only without any.
Latest == IF Archived # {} THEN archives[NewestArchive] ELSE live

\* restore(): a snapshot without any entry leaves the map of Bootstrap.
RestoredMap == IF Latest \in {NoSnapshot, NoMap} THEN BootMap ELSE Latest

\* The valves from their own files.
RestoredZones == file

Start ==
  /\ phase = "down"
  /\ starts < MaxStarts
  /\ starts' = starts + 1
  /\ zone' = RestoredZones
  /\ map' = RestoredMap
  /\ apart' = Differing(RestoredZones, RestoredMap)
  /\ phase' = IF live = NoSnapshot THEN "serve" ELSE "archive"
  /\ UNCHANGED <<disk, cycle, task, second, requests, taken, slipped, unrotated>>

\* Seeded fault: the archive of an earlier start stays.
ArchiveOnce(s) ==
  archives' = IF archives[s] = NoSnapshot THEN [archives EXCEPT ![s] = live]
                                          ELSE archives

\* An archive of the same second is replaced.
ArchiveAs(s) == archives' = [archives EXCEPT ![s] = live]

\* Rotate; when the archive cannot be written the live file stays.
WriteArchive ==
  /\ phase = "archive"
  /\ \/ /\ ArchiveAs(second)
        /\ phase' = "remove"
        /\ UNCHANGED unrotated
     \/ /\ phase' = "serve"
        /\ unrotated' = TRUE
        /\ UNCHANGED archives
  /\ UNCHANGED <<zone, map, file, live, cycle, task, bounds, taken, apart, slipped>>

\* The removal may fail, which Bootstrap ignores: the live file stays.
RemoveLive ==
  /\ phase = "remove"
  /\ live' \in {live, NoSnapshot}
  /\ phase' = "serve"
  /\ UNCHANGED <<zone, map, file, archives, cycle, task, bounds, history>>

Bootstrap == Start \/ WriteArchive \/ RemoveLive

ClockTicks == /\ second < MaxSecond
              /\ second' = second + 1
              /\ UNCHANGED <<phase, zone, map, disk, cycle, task, requests,
                             starts, history>>

Next == \/ \E r \in Requests : Request(r) \/ Stage(r)
        \/ Cycle
        \/ Crash
        \/ Bootstrap
        \/ ClockTicks

\* The ticker keeps the cycle going and a request once begun runs to its end.
Fairness == /\ WF_vars(Cycle)
            /\ \A r \in Requests : WF_vars(Stage(r))

Spec == Init /\ [][Next]_vars /\ Fairness

-----------------------------------------------------------------------------
\* SwitchZone brings a valve's zone and its entry in the map together, and they
\* stay so until two switches of the valve overlap or the process starts again.  A
\* start, the first one too, may leave them apart: the zone comes from Bootstrap or
\* the valve's file, the map from Bootstrap or the snapshot.
ZonesAgree ==
  phase = "serve" =>
    \A v \in Valves \ apart : Attaching(v) \/ map[v] \in {zone[v], None}

\* A snapshot a restart may resume from has every valve the cycle must sample,
\* except one that was detached between its own sample and the snapshot: each
\* cycle of a process restored from a map without it fails.
SnapshotsSampleable ==
  \A s \in ({live} \cup {archives[k] : k \in Archived}) \ {NoSnapshot} :
    \A v \in Valves \ slipped : s[v] # None

\* The starts of the process that wrote a snapshot.
Writers == {n \in 1 .. MaxStarts : taken[n] # NoSnapshot}

LastTaken == taken[Max(Writers)]

\* A rotation, cut short or in the same second as another, never loses the last
\* snapshot written.
LastSnapshotKept ==
  Writers # {} => LastTaken \in {live} \cup {archives[k] : k \in Archived}

\* A restart resumes from the last snapshot of the last start that wrote one or
\* of the one before that, unless an archive could not be written.
LatestIsRecent ==
  Writers # {} /\ ~unrotated =>
    \E n \in Writers : /\ Latest = taken[n]
                       /\ \A m, k \in Writers : m > n /\ k > n => m = k

\* If the process stays up, its snapshot catches up with the map after the last
\* of the requests (which the model bounds).
SnapshotCatchesUp == <>[](phase = "serve") => <>[](live = map)

-----------------------------------------------------------------------------
\* "ZoneNow returns the zone the valve currently belongs to": what the zone map
\* attributes the valve to, but while a switch is under way.
AttributedToItsZone ==
  phase = "serve" =>
    \A v \in Valves : Attaching(v) \/ map[v] \in {zone[v], None}

\* "A recovery can always find the latest durable snapshot": what a restart
\* restores from is the last snapshot written.
RecoveryFindsLatest ==
  phase = "down" /\ Writers # {} => Latest = LastTaken
=============================================================================
