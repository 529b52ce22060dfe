----------------------------- MODULE ValveStroke -----------------------------
(***************************************************************************)
(* The valves of the station as the HTTP handlers move them: the gate      *)
(* against water hammer (hammer.Guard), the executor whose mutex orders    *)
(* all strokes (valve.Executor), the receipts, each valve's own file, and  *)
(* a process that crashes and restarts from those files.                   *)
(*                                                                         *)
(* A valve's position counts the steps of a protection plan (0.25 each)    *)
(* that are left to close.  Every append and every write of a file may     *)
(* fail.  The zone map that POST /valves/{id}/zone updates as well is      *)
(* another component; here a switch of zones matters because it writes the *)
(* valve's file without the mutex of the executor.                         *)
(***************************************************************************)
EXTENDS Integers, Sequences

CONSTANTS Valves,       \* the valves of the station
          Zones,        \* the zones a valve can be switched to
          None,         \* the empty zone field of a valve nobody gave a zone
          BootZone,     \* the zone Bootstrap gives each valve, if any
          Requests,     \* goroutines that serve HTTP requests
          Nobody,       \* no goroutine
          Full,         \* the position of an open valve; 4 in the code
          MaxRequests,  \* bound on the requests served
          MaxRestarts   \* bound on the restarts of the process

ASSUME BootZoneAssumption == BootZone \in [Valves -> Zones \cup {None}]
ASSUME NobodyAssumption == Nobody \notin Requests
ASSUME FullAssumption == Full \in Nat \ {0}
ASSUME BoundsAssumption == MaxRequests \in Nat /\ MaxRestarts \in Nat

VARIABLES up,        \* the process is alive
          position,  \* Valve.Position, of each valve
          zone,      \* Valve.Zone, of each valve
          engaged,   \* Guard.engaged, the valves whose gate is engaged
          executor,  \* who holds Executor.mu
          receipts,  \* rows of executions.jsonl since the process started
          file,      \* valves/<id>.json; the boot record while there is none
          task,      \* where each goroutine stands
          requests,  \* requests served so far
          restarts,  \* restarts so far
          \* History, for the properties:
          unlogged,  \* valves whose last move has no receipt
          unsaved,   \* valves whose file a failure kept from being written
          raced      \* valves whose file two goroutines wrote at a time

memory  == <<position, zone>>
bounds  == <<requests, restarts>>
history == <<unlogged, unsaved, raced>>
vars    == <<up, memory, engaged, executor, receipts, file, task, bounds, history>>

Positions == 0 .. Full
Records == [position : Positions, zone : Zones \cup {None}]

\* One movement; end says which end of a protection plan it is.
Steps == [valve : Valves, delta : -Full .. Full,
          end : {"alone", "upstream", "downstream"}]
Strokes == {<<s>> : s \in Steps} \cup (Steps \X Steps)

Idle == [at |-> "idle"]

\* gated: the request is a close command, which the gate admitted.
Tasks ==
       {Idle}
  \cup [at : {"stroke", "receipt", "save"},
        steps : Strokes, n : {1, 2}, gated : BOOLEAN]
  \cup [at : {"write"}, steps : Strokes, n : {1, 2}, gated : BOOLEAN,
        record : Records]
  \cup [at : {"peak", "release", "switchSave"}, valve : Valves]
  \cup [at : {"switchWrite"}, valve : Valves, record : Records]

Receipts == [valve : Valves, position : Positions, by : Requests,
             end : {"alone", "upstream", "downstream"}]

TypeOK == /\ up \in BOOLEAN
          /\ position \in [Valves -> Positions]
          /\ zone \in [Valves -> Zones \cup {None}]
          /\ engaged \subseteq Valves
          /\ executor \in Requests \cup {Nobody}
          /\ receipts \in Seq(Receipts)
          /\ file \in [Valves -> Records]
          /\ task \in [Requests -> Tasks]
          /\ requests \in Nat /\ restarts \in Nat
          /\ unlogged \subseteq Valves
          /\ unsaved \subseteq Valves
          /\ raced \subseteq Valves

Init == /\ up = TRUE
        /\ position = [v \in Valves |-> Full]
        /\ zone = BootZone
        /\ engaged = {}
        /\ executor = Nobody
        /\ receipts = <<>>
        /\ file = [v \in Valves |-> [position |-> Full, zone |-> BootZone[v]]]
        /\ task = [r \in Requests |-> Idle]
        /\ requests = 0 /\ restarts = 0
        /\ unlogged = {} /\ unsaved = {} /\ raced = {}

ValveRecord(v) == [position |-> position[v], zone |-> zone[v]]

At(r, stage) == up /\ task[r].at = stage

Continue(r, t) == task' = [task EXCEPT ![r] = t]

-----------------------------------------------------------------------------
(* A request begins.                                                       *)

Begin(r, t) == /\ At(r, "idle")
               /\ requests < MaxRequests
               /\ requests' = requests + 1
               /\ Continue(r, t)
               /\ UNCHANGED <<up, executor, receipts, file, restarts, history>>

\* The executor at a stage of the n-th of steps.
Stroke(stage, n, steps, gated) ==
  [at |-> stage, steps |-> steps, n |-> n, gated |-> gated]

Alone(v, delta) == <<[valve |-> v, delta |-> delta, end |-> "alone"]>>

\* Seeded fault: the gate is engaged without asking whether it is already.
EngageAnyway(v) == engaged' = engaged \cup {v}

\* Guard.Protect admits one closure of a valve; others are rejected.
Protect(v) == v \notin engaged /\ engaged' = engaged \cup {v}

CloseRequest(r) ==
  \E v \in Valves : /\ Protect(v)
                    /\ Begin(r, Stroke("stroke", 1, Alone(v, -Full), TRUE))
                    /\ UNCHANGED memory

\* /close-fully and /open ask no gate.
FullStrokeRequest(r) ==
  \E v \in Valves, delta \in {-Full, Full} :
     /\ Begin(r, Stroke("stroke", 1, Alone(v, delta), FALSE))
     /\ UNCHANGED <<memory, engaged>>

\* Seeded fault: the downstream valve is closed first.
DownstreamFirst(u, d) == <<[valve |-> d, delta |-> -1, end |-> "downstream"],
                           [valve |-> u, delta |-> -1, end |-> "upstream"]>>

\* Plan.Steps: one step of the upstream valve, then one of the downstream one.
PlanSteps(u, d) == <<[valve |-> u, delta |-> -1, end |-> "upstream"],
                     [valve |-> d, delta |-> -1, end |-> "downstream"]>>

PlanRequest(r) ==
  \E u, d \in Valves : /\ Begin(r, Stroke("stroke", 1, PlanSteps(u, d), FALSE))
                       /\ UNCHANGED <<memory, engaged>>

SwitchRequest(r) ==
  \E v \in Valves, z \in Zones :
     /\ Begin(r, [at |-> "switchSave", valve |-> v])
     /\ zone' = [zone EXCEPT ![v] = z]
     /\ UNCHANGED <<position, engaged>>

Request(r) == \/ CloseRequest(r) \/ FullStrokeRequest(r)
              \/ PlanRequest(r)  \/ SwitchRequest(r)

-----------------------------------------------------------------------------
(* Executor.Apply.                                                         *)

Last(t) == t.n = Len(t.steps)

Moving(r) == task[r].steps[task[r].n].valve

\* Seeded fault: the executor has no mutex.
NoMutex(r) == r \in Requests

\* Executor.mu is free, or already held.
MayLock(r) == executor \in {Nobody, r}

\* Seeded fault: a valve that is nearly closed is closed further.
ClampOpen(p) == IF p > Full THEN Full ELSE p

Clamp(p) == IF p > Full THEN Full ELSE IF p < 0 THEN 0 ELSE p

\* The mutex, if it is not held yet, and the next movement.
Move(r) ==
  /\ At(r, "stroke")
  /\ MayLock(r)
  /\ executor' = r
  /\ LET t == task[r]
         s == t.steps[t.n]
     IN  /\ position' = [position EXCEPT ![s.valve] = Clamp(@ + s.delta)]
         /\ unlogged' = unlogged \cup {s.valve}
         /\ Continue(r, Stroke("receipt", t.n, t.steps, t.gated))
  /\ UNCHANGED <<up, zone, engaged, receipts, file, bounds, unsaved, raced>>

\* Seeded fault: the receipt names the position the stroke set out from.
PlannedReceipt(r) ==
  LET s == task[r].steps[task[r].n]
  IN  [valve |-> s.valve, position |-> Clamp(position[s.valve] - s.delta),
       by |-> r, end |-> s.end]

ReceiptOf(r) ==
  LET s == task[r].steps[task[r].n]
  IN  [valve |-> s.valve, position |-> position[s.valve], by |-> r, end |-> s.end]

\* After the last receipt the valves are saved, from the first on.
AppendReceipt(r) ==
  /\ At(r, "receipt")
  /\ receipts' = Append(receipts, ReceiptOf(r))
  /\ unlogged' = unlogged \ {Moving(r)}
  /\ LET t == task[r]
     IN  Continue(r, IF Last(t) THEN Stroke("save", 1, t.steps, t.gated)
                                ELSE Stroke("stroke", t.n + 1, t.steps, t.gated))
  /\ UNCHANGED <<up, memory, engaged, executor, file, bounds, unsaved, raced>>

\* Seeded fault: the error path keeps the mutex.
KeepLock(r) == executor' = r

Unlock(r) == executor' = Nobody

\* The append fails: Apply returns, nothing is saved, the gate stays engaged.
FailReceipt(r) ==
  /\ At(r, "receipt")
  /\ Unlock(r)
  /\ unsaved' = unsaved \cup {task[r].steps[k].valve : k \in 1 .. task[r].n}
  /\ Continue(r, Idle)
  /\ UNCHANGED <<up, memory, engaged, receipts, file, bounds, unlogged, raced>>

\* Valve.Save: the record under Valve.mu ...
Save(r) ==
  /\ At(r, "save")
  /\ Continue(r, [at |-> "write", steps |-> task[r].steps, n |-> task[r].n,
                  gated |-> task[r].gated, record |-> ValveRecord(Moving(r))])
  /\ UNCHANGED <<up, memory, engaged, executor, receipts, file, bounds, history>>

\* The valve whose record a goroutine has yet to write, in a set.
Writing(r) == CASE task[r].at = "write"       -> {Moving(r)}
                [] task[r].at = "switchWrite" -> {task[r].valve}
                [] OTHER                      -> {}

\* ... and the write after it, which may fail.
WriteFile(r, v) ==
  /\ \/ file' = [file EXCEPT ![v] = task[r].record] /\ UNCHANGED unsaved
     \/ unsaved' = unsaved \cup {v} /\ UNCHANGED file
  /\ raced' = IF \E q \in Requests \ {r} : v \in Writing(q)
              THEN raced \cup {v} ELSE raced

\* Seeded fault: only the first valve of the steps is saved.
SavedFirst(t) == t.n = 1

SavedAll(t) == Last(t)

\* The steps are saved in turn and the error of a save is ignored.  After the
\* last one Apply returns; a close goes on to record the closure's peak.
Write(r) ==
  /\ At(r, "write")
  /\ WriteFile(r, Moving(r))
  /\ LET t == task[r] IN
     IF SavedAll(t)
     THEN /\ Unlock(r)
          /\ Continue(r, IF t.gated THEN [at |-> "peak", valve |-> Moving(r)]
                                    ELSE Idle)
     ELSE /\ Continue(r, Stroke("save", t.n + 1, t.steps, t.gated))
          /\ UNCHANGED executor
  /\ UNCHANGED <<up, memory, engaged, receipts, bounds, unlogged>>

-----------------------------------------------------------------------------
(* The rest of the handlers.                                               *)

\* RecordClosurePeak appends a reading; if it fails the handler returns.
RecordPeak(r) ==
  /\ At(r, "peak")
  /\ \/ Continue(r, [at |-> "release", valve |-> task[r].valve])
     \/ Continue(r, Idle)
  /\ UNCHANGED <<up, memory, engaged, executor, receipts, file, bounds, history>>

Release(r) ==
  /\ At(r, "release")
  /\ engaged' = engaged \ {task[r].valve}
  /\ Continue(r, Idle)
  /\ UNCHANGED <<up, memory, executor, receipts, file, bounds, history>>

\* SwitchZone saves the valve, position and all, without the executor's mutex.
SwitchSave(r) ==
  /\ At(r, "switchSave")
  /\ Continue(r, [at |-> "switchWrite", valve |-> task[r].valve,
                  record |-> ValveRecord(task[r].valve)])
  /\ UNCHANGED <<up, memory, engaged, executor, receipts, file, bounds, history>>

SwitchWrite(r) ==
  /\ At(r, "switchWrite")
  /\ WriteFile(r, task[r].valve)
  /\ Continue(r, Idle)
  /\ UNCHANGED <<up, memory, engaged, executor, receipts, bounds, unlogged>>

Stage(r) == \/ Move(r)       \/ AppendReceipt(r) \/ FailReceipt(r)
            \/ Save(r)       \/ Write(r)
            \/ RecordPeak(r) \/ Release(r)
            \/ SwitchSave(r) \/ SwitchWrite(r)

-----------------------------------------------------------------------------
\* The process ends at any point, or by a failed control cycle.
Crash == /\ up
         /\ up' = FALSE
         /\ task' = [r \in Requests |-> Idle]
         /\ executor' = Nobody
         /\ UNCHANGED <<memory, engaged, receipts, file, bounds, history>>

\* Bootstrap: the valves from their files, every gate open.
Restart == /\ ~up
           /\ restarts < MaxRestarts
           /\ restarts' = restarts + 1
           /\ up' = TRUE
           /\ position' = [v \in Valves |-> file[v].position]
           /\ zone' = [v \in Valves |-> file[v].zone]
           /\ engaged' = {}
           /\ receipts' = <<>>
           /\ unlogged' = {} /\ unsaved' = {} /\ raced' = {}
           /\ UNCHANGED <<executor, file, task, requests>>

Next == \/ \E r \in Requests : Request(r) \/ Stage(r)
        \/ Crash
        \/ Restart

\* A request once begun runs to its end (sync.Mutex starves nobody).
Fairness == \A r \in Requests : WF_vars(Stage(r))

Spec == Init /\ [][Next]_vars /\ Fairness

-----------------------------------------------------------------------------
\* The valve a close command that was admitted is closing, in a set.
Closing(r) ==
  CASE task[r].at \in {"stroke", "receipt", "save", "write"} ->
         IF task[r].gated THEN {task[r].steps[1].valve} ELSE {}
    [] task[r].at \in {"peak", "release"} -> {task[r].valve}
    [] OTHER -> {}

\* From its admission to its release or its failure a close command has the
\* gate of its valve for itself ("two concurrent close commands cannot both
\* slam the valve").
OneAdmittedClosure ==
  /\ \A r \in Requests : Closing(r) \subseteq engaged
  /\ \A r, q \in Requests : r # q => Closing(r) \cap Closing(q) = {}

\* The downstream valve of a plan moves right after its upstream valve, no
\* stroke of another request in between ("the upstream valve closes first").
PlanInOrder ==
  \A k \in DOMAIN receipts :
    receipts[k].end = "downstream" =>
      /\ k > 1
      /\ receipts[k - 1].end = "upstream"
      /\ receipts[k - 1].by = receipts[k].by

LastReceipt(v, k) == /\ receipts[k].valve = v
                     /\ \A j \in k + 1 .. Len(receipts) : receipts[j].valve # v

\* The last receipt of a valve tells where it stands, unless the receipt of a
\* later move is still to be appended or its append failed.
ReceiptTellsPosition ==
  up =>
    \A k \in DOMAIN receipts, v \in Valves \ unlogged :
      LastReceipt(v, k) => receipts[k].position = position[v]

\* The valves a request under way is about.
Touches(r) ==
  CASE task[r].at \in {"stroke", "receipt", "save", "write"} ->
         {task[r].steps[k].valve : k \in DOMAIN task[r].steps}
    [] task[r].at \in {"switchSave", "switchWrite"} -> {task[r].valve}
    [] OTHER -> {}

\* A valve nobody is working on is in its file as it is in memory, unless a
\* failure or two writes at the same time came between.
SavedWhenQuiet ==
  up => \A v \in Valves \ (unsaved \cup raced) :
          (\A r \in Requests : v \notin Touches(r)) => file[v] = ValveRecord(v)

\* Every request comes to an end: no error path of one keeps the executor.
RequestsFinish ==
  \A r \in Requests : task[r] # Idle ~> task[r] = Idle

-----------------------------------------------------------------------------
\* "Release disengages protection after the stroke completes": a gate is
\* engaged only while a close command is under way.
EngagedWhileClosing ==
  up => \A v \in engaged : \E r \in Requests : v \in Closing(r)
=============================================================================
