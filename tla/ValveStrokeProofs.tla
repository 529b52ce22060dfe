------------------------- MODULE ValveStrokeProofs --------------------------
(***************************************************************************)
(* What ValveStroke guarantees for every number of valves, zones,          *)
(* goroutines, requests and restarts, and for every number of steps an     *)
(* open valve is away from closed.                                         *)
(*                                                                         *)
(* Whoever is past its first movement holds the executor, so the receipts  *)
(* of a plan follow each other.  A file that is not the valve in memory    *)
(* has somebody who is still to read the valve for it, or holds what is to *)
(* be written.                                                             *)
(***************************************************************************)
EXTENDS ValveStroke, TLAPS

StrokeStages == {"stroke", "receipt", "save", "write"}

Ends == {"alone", "upstream", "downstream"}

\* The steps of a request: a downstream movement follows its upstream one, and
\* what the gate admitted is one movement.
Shaped(t) == /\ t.n \in 1 .. Len(t.steps)
             /\ t.gated => Len(t.steps) = 1
             /\ \A k \in 1 .. Len(t.steps) :
                  t.steps[k].end = "downstream" => k = 2 /\ t.steps[1].end = "upstream"

StepsShaped == \A r \in Requests : task[r].at \in StrokeStages => Shaped(task[r])

\* A goroutine at t has moved a valve, and Apply has not returned.
PastFirst(t) == \/ t.at \in {"receipt", "save", "write"}
                \/ t.at = "stroke" /\ t.n = 2

OneStroke == \A r \in Requests : PastFirst(task[r]) => executor = r

NothingHeld == ~up => /\ executor = Nobody
                      /\ \A r \in Requests : task[r] = Idle

\* The valve a goroutine at t has the gate of.
Closes(t, v) == \/ t.at \in StrokeStages /\ t.gated /\ t.steps[1].valve = v
                \/ t.at \in {"peak", "release"} /\ t.valve = v

GateHeld == \A r \in Requests, v \in Valves : Closes(task[r], v) =>
              /\ v \in engaged
              /\ \A q \in Requests : Closes(task[q], v) => q = r

\* Between the movements of a plan its upstream receipt is the last one.
PlanUnderWay ==
  \A r \in Requests :
    task[r].at \in {"stroke", "receipt"} /\ task[r].n = 2 =>
      /\ receipts # <<>>
      /\ receipts[Len(receipts)].by = r
      /\ receipts[Len(receipts)].end = task[r].steps[1].end

\* A goroutine at t may have changed v and has not read it since.
Unread(t, v) ==
  \/ t.at = "stroke"  /\ \E k \in 1 .. t.n - 1 : t.steps[k].valve = v
  \/ t.at = "receipt" /\ \E k \in 1 .. t.n : t.steps[k].valve = v
  \/ t.at = "save"    /\ \E k \in t.n .. Len(t.steps) : t.steps[k].valve = v
  \/ t.at = "write"   /\ \E k \in t.n + 1 .. Len(t.steps) : t.steps[k].valve = v
  \/ t.at = "switchSave" /\ t.valve = v

\* A goroutine at t is about to write the file of v.
Writes(t, v) == \/ t.at = "write" /\ t.steps[t.n].valve = v
                \/ t.at = "switchWrite" /\ t.valve = v

\* The file of v is what v is in memory or will be, or a failure or a race has
\* been noted.
Followed(v) ==
  \/ v \in unsaved \cup raced
  \/ \E r \in Requests : Unread(task[r], v)
  \/ \E r \in Requests : Writes(task[r], v) /\ task[r].record = ValveRecord(v)
  \/ file[v] = ValveRecord(v) /\ \A r \in Requests : ~Writes(task[r], v)

FilesFollow == up => \A v \in Valves : Followed(v)

IInv == /\ TypeOK
        /\ NothingHeld /\ StepsShaped /\ OneStroke
        /\ GateHeld
        /\ PlanUnderWay /\ PlanInOrder
        /\ ReceiptTellsPosition
        /\ FilesFollow

-----------------------------------------------------------------------------
(* Types.                                                                  *)

LEMMA StrokeTypes ==
  /\ \A s \in Steps : <<s>> \in Strokes
  /\ \A s, u \in Steps : <<s, u>> \in Strokes
  /\ \A v \in Valves, d \in -Full .. Full, e \in Ends :
       [valve |-> v, delta |-> d, end |-> e] \in Steps
BY DEF Strokes, Steps, Ends

LEMMA StrokeShape ==
  ASSUME NEW s \in Strokes
  PROVE  /\ Len(s) \in {1, 2} /\ DOMAIN s = 1 .. Len(s)
         /\ \A k \in 1 .. Len(s) : s[k] \in Steps
<1>1. CASE \E u \in Steps : s = <<u>>
  BY <1>1
<1>2. CASE \E u, w \in Steps : s = <<u, w>>
  BY <1>2
<1> QED BY <1>1, <1>2 DEF Strokes

LEMMA NotLast ==
  ASSUME NEW n, NEW len \in {1, 2}, n \in 1 .. len, n # len
  PROVE  n = 1 /\ len = 2 /\ n + 1 \in {1, 2}
OBVIOUS

LEMMA StepFields ==
  ASSUME NEW s \in Steps
  PROVE  s.valve \in Valves /\ s.delta \in -Full .. Full /\ s.end \in Ends
BY DEF Steps, Ends

LEMMA TaskTypes ==
  /\ Idle \in Tasks
  /\ \A s \in Strokes, n \in {1, 2}, g \in BOOLEAN, a \in {"stroke", "receipt", "save"} :
       Stroke(a, n, s, g) \in Tasks
  /\ \A s \in Strokes, n \in {1, 2}, g \in BOOLEAN, c \in Records :
       [at |-> "write", steps |-> s, n |-> n, gated |-> g, record |-> c] \in Tasks
  /\ \A v \in Valves, a \in {"peak", "release", "switchSave"} :
       [at |-> a, valve |-> v] \in Tasks
  /\ \A v \in Valves, c \in Records :
       [at |-> "switchWrite", valve |-> v, record |-> c] \in Tasks
BY DEF Tasks, Idle, Stroke

\* What a goroutine carries at each stage.
LEMMA Carried ==
  ASSUME NEW t \in Tasks
  PROVE  /\ t.at \in StrokeStages =>
              t.steps \in Strokes /\ t.n \in {1, 2} /\ t.gated \in BOOLEAN
         /\ t.at \in {"peak", "release", "switchSave", "switchWrite"} => t.valve \in Valves
         /\ t.at \in {"write", "switchWrite"} => t.record \in Records
BY DEF Tasks, Idle, StrokeStages

LEMMA ClampType ==
  ASSUME NEW p \in Int
  PROVE  Clamp(p) \in Positions
BY FullAssumption DEF Clamp, Positions

LEMMA Continued ==
  ASSUME TypeOK, NEW r \in Requests, NEW t, Continue(r, t)
  PROVE  task'[r] = t /\ \A q \in Requests \ {r} : task'[q] = task[q]
BY DEF TypeOK, Continue

\* The two kinds of steps a request makes of its strokes.
LEMMA AloneShape ==
  ASSUME NEW v \in Valves, NEW d \in {-Full, Full}
  PROVE  /\ Alone(v, d) \in Strokes /\ Len(Alone(v, d)) = 1
         /\ Alone(v, d)[1].valve = v /\ Alone(v, d)[1].end = "alone"
<1>1. [valve |-> v, delta |-> d, end |-> "alone"] \in Steps
  BY FullAssumption DEF Steps
<1> QED BY <1>1, StrokeTypes DEF Alone

LEMMA PlanShape ==
  ASSUME NEW u \in Valves, NEW d \in Valves
  PROVE  /\ PlanSteps(u, d) \in Strokes /\ Len(PlanSteps(u, d)) = 2
         /\ PlanSteps(u, d)[1].end = "upstream"
<1>1. /\ [valve |-> u, delta |-> -1, end |-> "upstream"] \in Steps
      /\ [valve |-> d, delta |-> -1, end |-> "downstream"] \in Steps
  BY FullAssumption DEF Steps
<1> QED BY <1>1, StrokeTypes DEF PlanSteps

LEMMA RecordTypes ==
  ASSUME TypeOK, NEW v \in Valves
  PROVE  ValveRecord(v) \in Records
BY DEF TypeOK, ValveRecord, Records

\* The step a goroutine is at.
LEMMA AtStep ==
  ASSUME TypeOK, StepsShaped, NEW r \in Requests, task[r].at \in StrokeStages
  PROVE  /\ task[r].n \in 1 .. Len(task[r].steps)
         /\ task[r].steps[task[r].n] \in Steps
         /\ Moving(r) \in Valves
<1>1. task[r].steps \in Strokes
  BY Carried DEF TypeOK
<1>2. task[r].n \in 1 .. Len(task[r].steps)
  BY DEF StepsShaped, Shaped
<1>3. task[r].steps[task[r].n] \in Steps
  BY <1>1, <1>2, StrokeShape
<1> QED BY <1>2, <1>3, StepFields DEF Moving

LEMMA InitInvariant == Init => IInv
<1> SUFFICES ASSUME Init PROVE IInv
  OBVIOUS
<1>1. TypeOK
  BY TaskTypes, BootZoneAssumption, FullAssumption DEF Init, TypeOK, Positions, Records
<1>2. \A r \in Requests : task[r] = Idle
  BY DEF Init
<1>3. receipts = <<>> /\ up
  BY DEF Init
<1>4. NothingHeld /\ StepsShaped /\ OneStroke
  BY <1>2, <1>3 DEF NothingHeld, StepsShaped, OneStroke, PastFirst, StrokeStages, Idle
<1>5. GateHeld /\ PlanUnderWay
  BY <1>2 DEF GateHeld, Closes, PlanUnderWay, StrokeStages, Idle
<1>6. PlanInOrder /\ ReceiptTellsPosition
  BY <1>3 DEF PlanInOrder, ReceiptTellsPosition
<1>7. \A v \in Valves : file[v] = ValveRecord(v)
  BY BootZoneAssumption DEF Init, ValveRecord
<1>8. \A r \in Requests, v \in Valves : ~Writes(task[r], v)
  BY <1>2 DEF Writes, Idle
<1>9. FilesFollow
  BY <1>7, <1>8 DEF FilesFollow, Followed
<1> QED BY <1>1, <1>4, <1>5, <1>6, <1>9 DEF IInv

\* A request that begins is at a task of its kind: at the first of the steps of
\* a stroke, admitted by the gate if it is gated, or about to save a valve.
StrokeBegun(t) == /\ t.at = "stroke" /\ t.n = 1 /\ Shaped(t) /\ UNCHANGED zone
                  /\ \/ t.gated /\ t.steps[1].valve \in Valves /\ Protect(t.steps[1].valve)
                     \/ ~t.gated /\ UNCHANGED engaged

SwitchBegun(t) == /\ t.at = "switchSave" /\ UNCHANGED engaged
                  /\ \E z \in Zones : zone' = [zone EXCEPT ![t.valve] = z]

LEMMA RequestTasks ==
  ASSUME TypeOK, NEW r \in Requests, Request(r)
  PROVE  \E t \in Tasks : /\ Begin(r, t) /\ UNCHANGED position
                          /\ StrokeBegun(t) \/ SwitchBegun(t)
<1>1. CASE CloseRequest(r)
  <2>1. PICK v \in Valves : /\ Protect(v) /\ UNCHANGED <<position, zone>>
                            /\ Begin(r, Stroke("stroke", 1, Alone(v, -Full), TRUE))
    BY <1>1 DEF CloseRequest, memory
  <2> DEFINE t == Stroke("stroke", 1, Alone(v, -Full), TRUE)
  <2>2. t \in Tasks
    BY AloneShape, TaskTypes
  <2>3. t.steps = Alone(v, -Full) /\ t.n = 1 /\ t.at = "stroke" /\ t.gated
    BY DEF Stroke
  <2>0. Begin(r, t)
    BY <2>1
  <2> HIDE DEF t
  <2>4. Len(t.steps) = 1 /\ t.steps[1].end = "alone" /\ t.steps[1].valve = v
    BY <2>3, AloneShape
  <2>5. Shaped(t)
    BY <2>3, <2>4 DEF Shaped
  <2>6. StrokeBegun(t)
    BY <2>1, <2>3, <2>4, <2>5 DEF StrokeBegun
  <2> QED BY <2>0, <2>1, <2>2, <2>6
<1>2. CASE FullStrokeRequest(r)
  <2>1. PICK v \in Valves, d \in {-Full, Full} :
               /\ UNCHANGED <<position, zone, engaged>>
               /\ Begin(r, Stroke("stroke", 1, Alone(v, d), FALSE))
    BY <1>2 DEF FullStrokeRequest, memory
  <2> DEFINE t == Stroke("stroke", 1, Alone(v, d), FALSE)
  <2>2. t \in Tasks
    BY AloneShape, TaskTypes
  <2>3. t.steps = Alone(v, d) /\ t.n = 1 /\ t.at = "stroke" /\ ~t.gated
    BY DEF Stroke
  <2>0. Begin(r, t)
    BY <2>1
  <2> HIDE DEF t
  <2>4. Len(t.steps) = 1 /\ t.steps[1].end = "alone"
    BY <2>3, AloneShape
  <2>5. Shaped(t)
    BY <2>3, <2>4 DEF Shaped
  <2>6. StrokeBegun(t)
    BY <2>1, <2>3, <2>5 DEF StrokeBegun
  <2> QED BY <2>0, <2>1, <2>2, <2>6
<1>3. CASE PlanRequest(r)
  <2>1. PICK u \in Valves, d \in Valves :
               /\ UNCHANGED <<position, zone, engaged>>
               /\ Begin(r, Stroke("stroke", 1, PlanSteps(u, d), FALSE))
    BY <1>3 DEF PlanRequest, memory
  <2> DEFINE t == Stroke("stroke", 1, PlanSteps(u, d), FALSE)
  <2>2. t \in Tasks
    BY PlanShape, TaskTypes
  <2>3. t.steps = PlanSteps(u, d) /\ t.n = 1 /\ t.at = "stroke" /\ ~t.gated
    BY DEF Stroke
  <2>0. Begin(r, t)
    BY <2>1
  <2> HIDE DEF t
  <2>4. Len(t.steps) = 2 /\ t.steps[1].end = "upstream"
    BY <2>3, PlanShape
  <2>5. Shaped(t)
    BY <2>3, <2>4 DEF Shaped
  <2>6. StrokeBegun(t)
    BY <2>1, <2>3, <2>5 DEF StrokeBegun
  <2> QED BY <2>0, <2>1, <2>2, <2>6
<1>4. CASE SwitchRequest(r)
  <2>1. PICK v \in Valves, z \in Zones :
               /\ Begin(r, [at |-> "switchSave", valve |-> v])
               /\ zone' = [zone EXCEPT ![v] = z]
               /\ UNCHANGED <<position, engaged>>
    BY <1>4 DEF SwitchRequest
  <2> DEFINE t == [at |-> "switchSave", valve |-> v]
  <2>2. t \in Tasks
    BY TaskTypes
  <2>3. SwitchBegun(t)
    BY <2>1 DEF SwitchBegun
  <2> QED BY <2>1, <2>2, <2>3
<1> QED BY <1>1, <1>2, <1>3, <1>4 DEF Request

LEMMA TaskKept ==
  ASSUME TypeOK, NEW r \in Requests, NEW t \in Tasks, Continue(r, t)
  PROVE  task' \in [Requests -> Tasks]
BY DEF TypeOK, Continue

LEMMA TypeStep ==
  ASSUME TypeOK, NothingHeld, StepsShaped, Next
  PROVE  TypeOK'
<1>1. ASSUME NEW r \in Requests, Request(r)
      PROVE  TypeOK'
  <2>1. PICK t \in Tasks : Begin(r, t) /\ UNCHANGED position
    BY <1>1, RequestTasks
  <2>2. task' \in [Requests -> Tasks]
    BY <2>1, TaskKept DEF Begin
  <2>3. zone' \in [Valves -> Zones \cup {None}] /\ engaged' \in SUBSET Valves
    BY <1>1 DEF TypeOK, Request, CloseRequest, FullStrokeRequest, PlanRequest,
                SwitchRequest, Protect, memory
  <2> QED BY <2>1, <2>2, <2>3 DEF TypeOK, Begin, history
<1>2. ASSUME NEW r \in Requests, Move(r)
      PROVE  TypeOK'
  <2> DEFINE s == task[r].steps[task[r].n]
  <2>1. /\ s \in Steps /\ task[r].steps \in Strokes /\ task[r].n \in {1, 2}
        /\ task[r].gated \in BOOLEAN
    BY <1>2, AtStep, Carried DEF Move, At, StrokeStages, TypeOK
  <2>2. s.valve \in Valves /\ s.delta \in Int
    BY <2>1, StepFields, FullAssumption
  <2>3. position' = [position EXCEPT ![s.valve] = Clamp(position[s.valve] + s.delta)]
    BY <1>2 DEF Move
  <2>4. position[s.valve] + s.delta \in Int
    BY <2>2, FullAssumption DEF TypeOK, Positions
  <2>5. position' \in [Valves -> Positions]
    BY <2>2, <2>3, <2>4, ClampType DEF TypeOK
  <2>6. unlogged' \in SUBSET Valves
    BY <1>2, <2>2 DEF Move, TypeOK
  <2>7. Stroke("receipt", task[r].n, task[r].steps, task[r].gated) \in Tasks
    BY <2>1, TaskTypes
  <2>8. task' \in [Requests -> Tasks]
    BY <1>2, <2>7, TaskKept DEF Move
  <2> QED BY <1>2, <2>5, <2>6, <2>8 DEF Move, TypeOK, bounds
<1>3. ASSUME NEW r \in Requests, AppendReceipt(r)
      PROVE  TypeOK'
  <2> DEFINE t == task[r]
  <2>1. /\ t.steps[t.n] \in Steps /\ t.steps \in Strokes /\ t.n \in {1, 2}
        /\ t.gated \in BOOLEAN /\ t.n \in 1 .. Len(t.steps)
    BY <1>3, AtStep, Carried DEF AppendReceipt, At, StrokeStages, TypeOK
  <2>2. ReceiptOf(r) \in Receipts
    BY <2>1, StepFields DEF ReceiptOf, Receipts, TypeOK, Ends
  <2>3. receipts' \in Seq(Receipts)
    BY <1>3, <2>2 DEF AppendReceipt, TypeOK
  <2>4. ASSUME ~Last(t) PROVE t.n + 1 \in {1, 2}
    <3>1. Len(t.steps) \in {1, 2}
      BY <2>1, StrokeShape
    <3>2. t.n # Len(t.steps)
      BY <2>4 DEF Last
    <3> QED BY <2>1, <3>1, <3>2, NotLast
  <2>5. /\ Stroke("save", 1, t.steps, t.gated) \in Tasks
        /\ ~Last(t) => Stroke("stroke", t.n + 1, t.steps, t.gated) \in Tasks
    BY <2>1, <2>4, TaskTypes
  <2>6. task' \in [Requests -> Tasks]
    BY <1>3, <2>5, TaskKept DEF AppendReceipt
  <2> QED BY <1>3, <2>3, <2>6 DEF AppendReceipt, TypeOK, bounds, memory
<1>4. ASSUME NEW r \in Requests, FailReceipt(r)
      PROVE  TypeOK'
  <2> DEFINE t == task[r]
  <2>1. t.steps \in Strokes /\ t.n \in 1 .. Len(t.steps)
    BY <1>4, AtStep, Carried DEF FailReceipt, At, StrokeStages, TypeOK
  <2>2. \A k \in 1 .. t.n : t.steps[k].valve \in Valves
    BY <2>1, StrokeShape, StepFields
  <2>3. unsaved' \in SUBSET Valves
    BY <1>4, <2>2 DEF FailReceipt, TypeOK
  <2>4. task' \in [Requests -> Tasks]
    BY <1>4, TaskKept, TaskTypes DEF FailReceipt
  <2> QED BY <1>4, <2>3, <2>4 DEF FailReceipt, Unlock, TypeOK, bounds, memory
<1>5. ASSUME NEW r \in Requests, Save(r)
      PROVE  TypeOK'
  <2> DEFINE t == task[r]
  <2>1. /\ t.steps \in Strokes /\ t.n \in {1, 2} /\ t.gated \in BOOLEAN
        /\ Moving(r) \in Valves
    BY <1>5, AtStep, Carried DEF Save, At, StrokeStages, TypeOK
  <2>2. [at |-> "write", steps |-> t.steps, n |-> t.n, gated |-> t.gated,
         record |-> ValveRecord(Moving(r))] \in Tasks
    BY <2>1, RecordTypes, TaskTypes
  <2>3. task' \in [Requests -> Tasks]
    BY <1>5, <2>2, TaskKept DEF Save
  <2> QED BY <1>5, <2>3 DEF Save, TypeOK, bounds, memory, history
<1>6. ASSUME NEW r \in Requests, NEW v \in Valves, WriteFile(r, v), task[r].record \in Records
      PROVE  file' \in [Valves -> Records] /\ unsaved' \subseteq Valves /\ raced' \subseteq Valves
  BY <1>6 DEF WriteFile, TypeOK
<1>7. ASSUME NEW r \in Requests, Write(r)
      PROVE  TypeOK'
  <2> DEFINE t == task[r]
  <2>1. /\ t.steps \in Strokes /\ t.n \in {1, 2} /\ t.gated \in BOOLEAN
        /\ Moving(r) \in Valves /\ t.n \in 1 .. Len(t.steps) /\ t.record \in Records
    BY <1>7, AtStep, Carried DEF Write, At, StrokeStages, TypeOK
  <2>2. ASSUME ~SavedAll(t) PROVE t.n + 1 \in {1, 2}
    <3>1. Len(t.steps) \in {1, 2}
      BY <2>1, StrokeShape
    <3>2. t.n # Len(t.steps)
      BY <2>2 DEF SavedAll, Last
    <3> QED BY <2>1, <3>1, <3>2, NotLast
  <2>3. /\ [at |-> "peak", valve |-> Moving(r)] \in Tasks
        /\ ~SavedAll(t) => Stroke("save", t.n + 1, t.steps, t.gated) \in Tasks
    BY <2>1, <2>2, TaskTypes
  <2>4. /\ SavedAll(t) => /\ executor' = Nobody
                          /\ \/ Continue(r, [at |-> "peak", valve |-> Moving(r)])
                             \/ Continue(r, Idle)
        /\ ~SavedAll(t) => /\ executor' = executor
                           /\ Continue(r, Stroke("save", t.n + 1, t.steps, t.gated))
    BY <1>7 DEF Write, Unlock
  <2>5. task' \in [Requests -> Tasks]
    BY <2>3, <2>4, TaskKept, TaskTypes
  <2>6. file' \in [Valves -> Records] /\ unsaved' \subseteq Valves /\ raced' \subseteq Valves
    BY <1>6, <1>7, <2>1 DEF Write
  <2> QED BY <1>7, <2>4, <2>5, <2>6 DEF Write, TypeOK, bounds, memory
<1>8. ASSUME NEW r \in Requests, RecordPeak(r) \/ Release(r)
      PROVE  TypeOK'
  <2>1. task[r].valve \in Valves
    BY <1>8, Carried DEF RecordPeak, Release, At, TypeOK
  <2>2. task' \in [Requests -> Tasks]
    BY <1>8, <2>1, TaskKept, TaskTypes DEF RecordPeak, Release
  <2> QED BY <1>8, <2>2 DEF RecordPeak, Release, TypeOK, bounds, memory, history
<1>9. ASSUME NEW r \in Requests, SwitchSave(r)
      PROVE  TypeOK'
  <2>1. task[r].valve \in Valves
    BY <1>9, Carried DEF SwitchSave, At, TypeOK
  <2>2. [at |-> "switchWrite", valve |-> task[r].valve,
         record |-> ValveRecord(task[r].valve)] \in Tasks
    BY <2>1, RecordTypes, TaskTypes
  <2>3. task' \in [Requests -> Tasks]
    BY <1>9, <2>2, TaskKept DEF SwitchSave
  <2> QED BY <1>9, <2>3 DEF SwitchSave, TypeOK, bounds, memory, history
<1>10. ASSUME NEW r \in Requests, SwitchWrite(r)
       PROVE  TypeOK'
  <2>1. task[r].valve \in Valves /\ task[r].record \in Records
    BY <1>10, Carried DEF SwitchWrite, At, TypeOK
  <2>2. task' \in [Requests -> Tasks]
    BY <1>10, TaskKept, TaskTypes DEF SwitchWrite
  <2>3. file' \in [Valves -> Records] /\ unsaved' \subseteq Valves /\ raced' \subseteq Valves
    BY <1>6, <1>10, <2>1 DEF SwitchWrite
  <2> QED BY <1>10, <2>2, <2>3 DEF SwitchWrite, TypeOK, bounds, memory
<1>11. CASE Crash
  BY <1>11, TaskTypes DEF Crash, TypeOK, bounds, memory, history
<1>12. CASE Restart
  <2>1. \A v \in Valves : /\ file[v].position \in Positions
                          /\ file[v].zone \in Zones \cup {None}
    BY DEF TypeOK, Records
  <2> QED BY <1>12, <2>1 DEF Restart, TypeOK
<1> QED BY <1>1, <1>2, <1>3, <1>4, <1>5, <1>7, <1>8, <1>9, <1>10, <1>11, <1>12
        DEF Next, Stage

-----------------------------------------------------------------------------
(* The steps of a stroke, and who makes them.                              *)

LEMMA ShapedAt ==
  ASSUME NEW t, Shaped(t), NEW stage, NEW n \in 1 .. Len(t.steps)
  PROVE  Shaped(Stroke(stage, n, t.steps, t.gated))
<1> DEFINE u == Stroke(stage, n, t.steps, t.gated)
<1>1. u.steps = t.steps /\ u.n = n /\ u.gated = t.gated
  BY DEF Stroke
<1> HIDE DEF u
<1> QED BY <1>1 DEF Shaped, u

LEMMA ShapedKept ==
  ASSUME TypeOK, StepsShaped, NEW r \in Requests, NEW t, Continue(r, t),
         t.at \in StrokeStages => Shaped(t)
  PROVE  StepsShaped'
<1>1. /\ task'[r] = t
      /\ \A q \in Requests : q # r => task'[q] = task[q]
  BY Continued
<1>2. ASSUME NEW q \in Requests, task'[q].at \in StrokeStages
      PROVE  Shaped(task'[q])
  BY <1>1, <1>2 DEF StepsShaped
<1> QED BY <1>2 DEF StepsShaped

\* Where a goroutine of the executor stands and what follows.
LEMMA StrokeAt ==
  ASSUME TypeOK, StepsShaped, NEW r \in Requests, task[r].at \in StrokeStages
  PROVE  /\ Shaped(task[r]) /\ task[r].steps \in Strokes
         /\ Len(task[r].steps) \in {1, 2}
         /\ task[r].n \in 1 .. Len(task[r].steps)
         /\ 1 \in 1 .. Len(task[r].steps)
         /\ ~Last(task[r]) => /\ task[r].n = 1 /\ Len(task[r].steps) = 2
                              /\ task[r].n + 1 \in 1 .. Len(task[r].steps)
<1>1. Shaped(task[r]) /\ task[r].steps \in Strokes
  BY Carried DEF StepsShaped, TypeOK
<1> DEFINE n == task[r].n  len == Len(task[r].steps)
<1>2. len \in {1, 2} /\ n \in 1 .. len
  BY <1>1, StrokeShape DEF Shaped
<1>3. Last(task[r]) <=> n = len
  BY DEF Last
<1> HIDE DEF n, len
<1>4. 1 \in 1 .. len
  BY <1>2
<1>5. n # len => n = 1 /\ len = 2 /\ n + 1 \in 1 .. len
  BY <1>2
<1> QED BY <1>1, <1>2, <1>3, <1>4, <1>5 DEF n, len

LEMMA ShapeStep ==
  ASSUME TypeOK, NothingHeld, StepsShaped, Next
  PROVE  StepsShaped'
<1>1. ASSUME NEW r \in Requests, Request(r)
      PROVE  StepsShaped'
  <2>1. PICK t \in Tasks : Begin(r, t) /\ (StrokeBegun(t) \/ SwitchBegun(t))
    BY <1>1, RequestTasks
  <2>2. t.at \in StrokeStages => Shaped(t)
    BY <2>1 DEF StrokeBegun, SwitchBegun, StrokeStages
  <2> QED BY <2>1, <2>2, ShapedKept DEF Begin
<1>2. ASSUME NEW r \in Requests, Move(r)
      PROVE  StepsShaped'
  <2> DEFINE u == task[r]  t == Stroke("receipt", u.n, u.steps, u.gated)
  <2>1. Shaped(u) /\ u.n \in 1 .. Len(u.steps)
    BY <1>2, StrokeAt DEF Move, At, StrokeStages
  <2>2. Shaped(t)
    BY <2>1, ShapedAt
  <2> HIDE DEF u
  <2>3. Continue(r, t)
    BY <1>2 DEF Move, u
  <2> HIDE DEF t
  <2> QED BY <2>2, <2>3, ShapedKept
<1>3. ASSUME NEW r \in Requests, AppendReceipt(r)
      PROVE  StepsShaped'
  <2> DEFINE u == task[r]
             s == Stroke("save", 1, u.steps, u.gated)
             t == Stroke("stroke", u.n + 1, u.steps, u.gated)
  <2>1. /\ Shaped(u) /\ 1 \in 1 .. Len(u.steps)
        /\ ~Last(u) => u.n + 1 \in 1 .. Len(u.steps)
    BY <1>3, StrokeAt DEF AppendReceipt, At, StrokeStages
  <2> HIDE DEF u
  <2>2. Shaped(s) /\ (~Last(u) => Shaped(t))
    BY <2>1, ShapedAt
  <2>3. (Last(u) /\ Continue(r, s)) \/ (~Last(u) /\ Continue(r, t))
    BY <1>3 DEF AppendReceipt, u
  <2> HIDE DEF s, t
  <2> QED BY <2>2, <2>3, ShapedKept
<1>4. ASSUME NEW r \in Requests, Save(r)
      PROVE  StepsShaped'
  <2> DEFINE u == task[r]
             t == [at |-> "write", steps |-> u.steps, n |-> u.n, gated |-> u.gated,
                   record |-> ValveRecord(Moving(r))]
  <2>1. Shaped(u)
    BY <1>4, StrokeAt DEF Save, At, StrokeStages
  <2>2. Continue(r, t)
    BY <1>4 DEF Save
  <2>3. t.steps = u.steps /\ t.n = u.n /\ t.gated = u.gated
    OBVIOUS
  <2> HIDE DEF t, u
  <2>4. Shaped(t)
    BY <2>1, <2>3 DEF Shaped
  <2> QED BY <2>2, <2>4, ShapedKept
<1>5. ASSUME NEW r \in Requests, Write(r)
      PROVE  StepsShaped'
  <2> DEFINE u == task[r]
             p == [at |-> "peak", valve |-> Moving(r)]
             t == Stroke("save", u.n + 1, u.steps, u.gated)
  <2>1. /\ Shaped(u)
        /\ ~SavedAll(u) => u.n + 1 \in 1 .. Len(u.steps)
    BY <1>5, StrokeAt DEF Write, At, StrokeStages, SavedAll
  <2> HIDE DEF u
  <2>2. ~SavedAll(u) => Shaped(t)
    BY <2>1, ShapedAt
  <2>3. (~SavedAll(u) /\ Continue(r, t)) \/ Continue(r, p) \/ Continue(r, Idle)
    BY <1>5 DEF Write, u
  <2>4. p.at \notin StrokeStages /\ Idle.at \notin StrokeStages
    BY DEF StrokeStages, Idle
  <2> HIDE DEF t, p
  <2> QED BY <2>2, <2>3, <2>4, ShapedKept
<1>6. ASSUME NEW r \in Requests,
             FailReceipt(r) \/ RecordPeak(r) \/ Release(r) \/ SwitchSave(r) \/ SwitchWrite(r)
      PROVE  StepsShaped'
  <2>1. PICK t : Continue(r, t) /\ t.at \in {"idle", "release", "switchWrite"}
    BY <1>6 DEF FailReceipt, RecordPeak, Release, SwitchSave, SwitchWrite, Idle
  <2> QED BY <2>1, ShapedKept DEF StrokeStages
<1>7. CASE Crash
  BY <1>7 DEF Crash, StepsShaped, StrokeStages, Idle
<1>8. CASE Restart
  BY <1>8 DEF Restart, StepsShaped
<1> QED BY <1>1, <1>2, <1>3, <1>4, <1>5, <1>6, <1>7, <1>8 DEF Next, Stage

-----------------------------------------------------------------------------
(* The mutex of the executor.                                              *)

LEMMA OneStrokeKept ==
  ASSUME TypeOK, OneStroke, NEW r \in Requests, NEW t, Continue(r, t),
         PastFirst(t) => executor' = r,
         \/ executor' = executor
         \/ \A q \in Requests \ {r} : ~PastFirst(task[q])
  PROVE  OneStroke'
<1>1. /\ task'[r] = t
      /\ \A q \in Requests : q # r => task'[q] = task[q]
  BY Continued
<1>2. ASSUME NEW q \in Requests, PastFirst(task'[q])
      PROVE  executor' = q
  BY <1>1, <1>2 DEF OneStroke
<1> QED BY <1>2 DEF OneStroke, PastFirst

\* Whoever is past its first movement is alone there.
LEMMA AloneInside ==
  ASSUME OneStroke, NEW r \in Requests, PastFirst(task[r])
  PROVE  executor = r /\ \A q \in Requests \ {r} : ~PastFirst(task[q])
BY DEF OneStroke

LEMMA HeldStep ==
  ASSUME TypeOK, NothingHeld, Next
  PROVE  NothingHeld'
<1>1. ASSUME NEW r \in Requests, Request(r) \/ Stage(r)
      PROVE  up'
  <2>1. CASE Request(r)
    BY <2>1, RequestTasks DEF Begin, At
  <2>2. CASE Stage(r)
    BY <2>2 DEF Stage, Move, AppendReceipt, FailReceipt, Save, Write, RecordPeak,
                Release, SwitchSave, SwitchWrite, At
  <2> QED BY <1>1, <2>1, <2>2
<1>2. CASE Crash
  BY <1>2 DEF Crash, NothingHeld
<1>3. CASE Restart
  BY <1>3 DEF Restart, NothingHeld
<1> QED BY <1>1, <1>2, <1>3 DEF Next, NothingHeld

LEMMA OneStrokeStep ==
  ASSUME TypeOK, NothingHeld, StepsShaped, OneStroke, Next
  PROVE  OneStroke'
<1>1. ASSUME NEW r \in Requests, Request(r)
      PROVE  OneStroke'
  <2>1. PICK t \in Tasks : Begin(r, t) /\ (StrokeBegun(t) \/ SwitchBegun(t))
    BY <1>1, RequestTasks
  <2>2. ~PastFirst(t)
    BY <2>1 DEF StrokeBegun, SwitchBegun, PastFirst
  <2> QED BY <2>1, <2>2, OneStrokeKept DEF Begin
<1>2. ASSUME NEW r \in Requests, Move(r)
      PROVE  OneStroke'
  <2>1. \A q \in Requests \ {r} : ~PastFirst(task[q])
    BY <1>2, NobodyAssumption DEF Move, MayLock, OneStroke
  <2> QED BY <1>2, <2>1, OneStrokeKept DEF Move
<1>3. ASSUME NEW r \in Requests, AppendReceipt(r) \/ Save(r)
      PROVE  OneStroke'
  <2>1. executor = r /\ executor' = executor
    BY <1>3, AloneInside DEF AppendReceipt, Save, At, PastFirst
  <2>2. PICK t : Continue(r, t)
    BY <1>3 DEF AppendReceipt, Save
  <2> QED BY <2>1, <2>2, OneStrokeKept
<1>4. ASSUME NEW r \in Requests, FailReceipt(r)
      PROVE  OneStroke'
  <2>1. \A q \in Requests \ {r} : ~PastFirst(task[q])
    BY <1>4, AloneInside DEF FailReceipt, At, PastFirst
  <2>2. ~PastFirst(Idle)
    BY DEF PastFirst, Idle
  <2> QED BY <1>4, <2>1, <2>2, OneStrokeKept DEF FailReceipt
<1>5. ASSUME NEW r \in Requests, Write(r)
      PROVE  OneStroke'
  <2> DEFINE u == task[r]
             p == [at |-> "peak", valve |-> Moving(r)]
             t == Stroke("save", u.n + 1, u.steps, u.gated)
  <2>1. executor = r /\ \A q \in Requests \ {r} : ~PastFirst(task[q])
    BY <1>5, AloneInside DEF Write, At, PastFirst
  <2>2. ~PastFirst(p) /\ ~PastFirst(Idle)
    BY DEF PastFirst, Idle
  <2>3. \/ Continue(r, p) \/ Continue(r, Idle)
        \/ Continue(r, t) /\ executor' = executor
    BY <1>5 DEF Write
  <2> HIDE DEF u, p, t
  <2> QED BY <2>1, <2>2, <2>3, OneStrokeKept
<1>6. ASSUME NEW r \in Requests,
             RecordPeak(r) \/ Release(r) \/ SwitchSave(r) \/ SwitchWrite(r)
      PROVE  OneStroke'
  <2>1. PICK t : Continue(r, t) /\ t.at \in {"idle", "release", "switchWrite"}
    BY <1>6 DEF RecordPeak, Release, SwitchSave, SwitchWrite, Idle
  <2>2. ~PastFirst(t)
    BY <2>1 DEF PastFirst
  <2>3. executor' = executor
    BY <1>6 DEF RecordPeak, Release, SwitchSave, SwitchWrite
  <2> QED BY <2>1, <2>2, <2>3, OneStrokeKept
<1>7. CASE Crash
  BY <1>7 DEF Crash, OneStroke, PastFirst, Idle
<1>8. CASE Restart
  BY <1>8 DEF Restart, OneStroke
<1> QED BY <1>1, <1>2, <1>3, <1>4, <1>5, <1>6, <1>7, <1>8 DEF Next, Stage

-----------------------------------------------------------------------------
(* The gate.                                                               *)

LEMMA GateKept ==
  ASSUME TypeOK, GateHeld, NEW r \in Requests, NEW t, Continue(r, t),
         \A v \in Valves : Closes(t, v) => Closes(task[r], v),
         UNCHANGED engaged
  PROVE  GateHeld'
<1>1. /\ task'[r] = t
      /\ \A q \in Requests : q # r => task'[q] = task[q]
  BY Continued
<1>2. \A q \in Requests, v \in Valves : Closes(task'[q], v) => Closes(task[q], v)
  BY <1>1
<1>3. ASSUME NEW q \in Requests, NEW v \in Valves, Closes(task'[q], v)
      PROVE  /\ v \in engaged'
             /\ \A p \in Requests : Closes(task'[p], v) => p = q
  BY <1>2, <1>3 DEF GateHeld
<1> QED BY <1>3 DEF GateHeld, Closes

LEMMA GateStep ==
  ASSUME TypeOK, NothingHeld, StepsShaped, GateHeld, Next
  PROVE  GateHeld'
<1>1. ASSUME NEW r \in Requests, NEW t, Begin(r, t), StrokeBegun(t), t.gated
      PROVE  GateHeld'
  <2> DEFINE c == t.steps[1].valve
  <2>1. c \notin engaged /\ engaged' = engaged \cup {c} /\ t.at = "stroke"
    BY <1>1 DEF StrokeBegun, Protect
  <2>2. \A v : Closes(t, v) => v = c
    BY <2>1 DEF Closes
  <2>3. /\ task'[r] = t
        /\ \A q \in Requests : q # r => task'[q] = task[q]
    BY <1>1, Continued DEF Begin
  <2>4. c \in Valves
    BY <1>1 DEF StrokeBegun
  <2> HIDE DEF c
  <2>5. ASSUME NEW q \in Requests, NEW v \in Valves, Closes(task'[q], v)
        PROVE  /\ v \in engaged'
               /\ \A p \in Requests : Closes(task'[p], v) => p = q
    BY <2>1, <2>2, <2>3, <2>4, <2>5 DEF GateHeld
  <2> QED BY <2>5 DEF GateHeld, Closes
<1>2. ASSUME NEW r \in Requests, Request(r)
      PROVE  GateHeld'
  <2>1. PICK t \in Tasks : Begin(r, t) /\ (StrokeBegun(t) \/ SwitchBegun(t))
    BY <1>2, RequestTasks
  <2>2. CASE StrokeBegun(t) /\ t.gated
    BY <1>1, <2>1, <2>2
  <2>3. CASE ~(StrokeBegun(t) /\ t.gated)
    <3>1. UNCHANGED engaged
      BY <2>1, <2>3 DEF StrokeBegun, SwitchBegun
    <3>2. \A v : ~Closes(t, v)
      BY <2>1, <2>3 DEF StrokeBegun, SwitchBegun, Closes, StrokeStages
    <3> QED BY <2>1, <3>1, <3>2, GateKept DEF Begin
  <2> QED BY <2>2, <2>3
<1>3. ASSUME NEW r \in Requests, Move(r) \/ AppendReceipt(r) \/ Save(r) \/ FailReceipt(r)
      PROVE  GateHeld'
  <2>1. task[r].at \in StrokeStages /\ UNCHANGED engaged
    BY <1>3 DEF Move, AppendReceipt, Save, FailReceipt, At, StrokeStages
  <2>2. PICK t : /\ Continue(r, t)
                 /\ \/ t.at \in StrokeStages /\ t.gated = task[r].gated
                                             /\ t.steps = task[r].steps
                    \/ t.at = "idle"
    BY <1>3 DEF Move, AppendReceipt, Save, FailReceipt, Stroke, StrokeStages, Idle
  <2>3. \A v : Closes(t, v) => Closes(task[r], v)
    BY <2>1, <2>2 DEF Closes, StrokeStages
  <2> QED BY <2>1, <2>2, <2>3, GateKept
<1>4. ASSUME NEW r \in Requests, Write(r)
      PROVE  GateHeld'
  <2> DEFINE u == task[r]
             p == [at |-> "peak", valve |-> Moving(r)]
             t == Stroke("save", u.n + 1, u.steps, u.gated)
  <2>1. /\ UNCHANGED engaged /\ u.at = "write"
        /\ \/ Continue(r, t) \/ Continue(r, Idle)
           \/ Continue(r, p) /\ u.gated
    BY <1>4 DEF Write, At
  <2>2. \A v : Closes(t, v) => Closes(u, v)
    BY <2>1 DEF Closes, Stroke, StrokeStages
  <2>3. \A v : ~Closes(Idle, v)
    BY DEF Closes, Idle, StrokeStages
  <2>4. u.gated => Moving(r) = u.steps[1].valve
    <3>1. u.n \in 1 .. Len(u.steps) /\ (u.gated => Len(u.steps) = 1)
      BY <2>1 DEF StepsShaped, Shaped, StrokeStages
    <3>2. u.gated => u.n \in 1 .. 1
      BY <3>1
    <3>3. \A n \in 1 .. 1 : n = 1
      OBVIOUS
    <3>4. u.gated => u.n = 1
      BY <3>2, <3>3
    <3> QED BY <3>4 DEF Moving
  <2>5. \A v : u.gated /\ Closes(p, v) => Closes(u, v)
    BY <2>1, <2>4 DEF Closes, StrokeStages
  <2> HIDE DEF u, p, t
  <2> QED BY <2>1, <2>2, <2>3, <2>5, GateKept DEF u
<1>5. ASSUME NEW r \in Requests, RecordPeak(r) \/ SwitchSave(r) \/ SwitchWrite(r)
      PROVE  GateHeld'
  <2>1. PICK t : /\ Continue(r, t) /\ UNCHANGED engaged
                 /\ \/ t.at = "release" /\ t.valve = task[r].valve /\ task[r].at = "peak"
                    \/ t.at \in {"idle", "switchWrite"}
    BY <1>5 DEF RecordPeak, SwitchSave, SwitchWrite, At, Idle
  <2>2. \A v : Closes(t, v) => Closes(task[r], v)
    BY <2>1 DEF Closes, StrokeStages
  <2> QED BY <2>1, <2>2, GateKept
<1>6. ASSUME NEW r \in Requests, Release(r)
      PROVE  GateHeld'
  <2>1. /\ task'[r] = Idle
        /\ \A q \in Requests : q # r => task'[q] = task[q]
    BY <1>6, Continued DEF Release
  <2>2. \A v : ~Closes(Idle, v)
    BY DEF Closes, Idle, StrokeStages
  <2>3. /\ Closes(task[r], task[r].valve) /\ task[r].valve \in Valves
        /\ engaged' = engaged \ {task[r].valve}
    BY <1>6, Carried DEF Release, At, Closes, TypeOK
  <2>4. ASSUME NEW q \in Requests, NEW v \in Valves, Closes(task'[q], v)
        PROVE  /\ v \in engaged'
               /\ \A p \in Requests : Closes(task'[p], v) => p = q
    <3>1. q # r /\ Closes(task[q], v)
      BY <2>1, <2>2, <2>4
    <3>2. v # task[r].valve /\ v \in engaged
      BY <2>3, <3>1 DEF GateHeld
    <3>3. \A p \in Requests : Closes(task'[p], v) => Closes(task[p], v)
      BY <2>1, <2>2
    <3> QED BY <2>3, <3>1, <3>2, <3>3 DEF GateHeld
  <2> QED BY <2>4 DEF GateHeld, Closes
<1>7. CASE Crash
  BY <1>7 DEF Crash, GateHeld, Closes, Idle, StrokeStages
<1>8. CASE Restart
  <2>1. \A q \in Requests : task'[q] = Idle
    BY <1>8 DEF Restart, NothingHeld
  <2> QED BY <2>1 DEF GateHeld, Closes, Idle, StrokeStages
<1> QED BY <1>2, <1>3, <1>4, <1>5, <1>6, <1>7, <1>8 DEF Next, Stage

-----------------------------------------------------------------------------
(* The receipts.                                                           *)

\* r has made the first movement of two, or both.
SecondMove(t) == t.at \in {"stroke", "receipt"} /\ t.n = 2

LEMMA PlanKept ==
  ASSUME TypeOK, PlanUnderWay, NEW r \in Requests, NEW t, Continue(r, t),
         SecondMove(t) => SecondMove(task[r]) /\ t.steps = task[r].steps,
         UNCHANGED receipts
  PROVE  PlanUnderWay'
<1>1. /\ task'[r] = t
      /\ \A q \in Requests : q # r => task'[q] = task[q]
  BY Continued
<1>2. ASSUME NEW q \in Requests, SecondMove(task'[q])
      PROVE  SecondMove(task[q]) /\ task'[q].steps = task[q].steps
  BY <1>1, <1>2
<1>3. ASSUME NEW q \in Requests, SecondMove(task'[q])
      PROVE  /\ receipts' # <<>>
             /\ receipts'[Len(receipts')].by = q
             /\ receipts'[Len(receipts')].end = task'[q].steps[1].end
  BY <1>2, <1>3 DEF PlanUnderWay, SecondMove
<1> QED BY <1>3 DEF PlanUnderWay, SecondMove

LEMMA Appended ==
  ASSUME NEW S, NEW s \in Seq(S), NEW e \in S
  PROVE  /\ Len(Append(s, e)) = Len(s) + 1 /\ Len(s) \in Nat
         /\ Append(s, e)[Len(s) + 1] = e /\ Append(s, e) # <<>>
         /\ \A k \in 1 .. Len(s) : Append(s, e)[k] = s[k]
OBVIOUS

\* The receipt a goroutine appends, and where it goes on from there.
LEMMA ReceiptAppended ==
  ASSUME TypeOK, StepsShaped, NEW r \in Requests, AppendReceipt(r)
  PROVE  /\ receipts' = Append(receipts, ReceiptOf(r)) /\ ReceiptOf(r) \in Receipts
         /\ task[r].at = "receipt" /\ Shaped(task[r])
         /\ task[r].n \in 1 .. Len(task[r].steps)
         /\ ReceiptOf(r).valve = Moving(r)
         /\ ReceiptOf(r).position = position[Moving(r)]
         /\ ReceiptOf(r).by = r
         /\ ReceiptOf(r).end = task[r].steps[task[r].n].end
         /\ \E t : /\ Continue(r, t) /\ t.steps = task[r].steps
                   /\ t.gated = task[r].gated
                   /\ \/ t.at = "save" /\ t.n = 1 /\ task[r].n = Len(task[r].steps)
                      \/ t.at = "stroke" /\ t.n = 2 /\ task[r].n = 1
<1> DEFINE u == task[r]
           s == Stroke("save", 1, u.steps, u.gated)
           t == Stroke("stroke", u.n + 1, u.steps, u.gated)
<1>1. /\ u.at = "receipt" /\ Shaped(u) /\ u.n \in 1 .. Len(u.steps)
      /\ ~Last(u) => u.n = 1
      /\ u.steps[u.n] \in Steps /\ Moving(r) \in Valves
  BY StrokeAt, AtStep DEF AppendReceipt, At, StrokeStages
<1>2. /\ ReceiptOf(r).valve = Moving(r) /\ ReceiptOf(r).position = position[Moving(r)]
      /\ ReceiptOf(r).by = r /\ ReceiptOf(r).end = u.steps[u.n].end
  BY DEF ReceiptOf, Moving
<1>3. ReceiptOf(r) \in Receipts
  BY <1>1, StepFields DEF ReceiptOf, Receipts, TypeOK, Ends
<1>4. receipts' = Append(receipts, ReceiptOf(r))
  BY DEF AppendReceipt
<1>5. (Last(u) /\ Continue(r, s)) \/ (~Last(u) /\ Continue(r, t))
  BY DEF AppendReceipt
<1>6. /\ s.steps = u.steps /\ s.gated = u.gated /\ s.at = "save" /\ s.n = 1
      /\ t.steps = u.steps /\ t.gated = u.gated /\ t.at = "stroke" /\ t.n = u.n + 1
  BY DEF Stroke
<1>7. Last(u) <=> u.n = Len(u.steps)
  BY DEF Last
<1> HIDE DEF s, t
<1>8. u.n = 1 => t.n = 2
  BY <1>6
<1> QED BY <1>1, <1>2, <1>3, <1>4, <1>5, <1>6, <1>7, <1>8

LEMMA PlanUnderWayStep ==
  ASSUME TypeOK, NothingHeld, StepsShaped, OneStroke, PlanUnderWay, Next
  PROVE  PlanUnderWay'
<1>1. ASSUME NEW r \in Requests, Request(r)
      PROVE  PlanUnderWay'
  <2>1. PICK t \in Tasks : Begin(r, t) /\ (StrokeBegun(t) \/ SwitchBegun(t))
    BY <1>1, RequestTasks
  <2>2. ~SecondMove(t)
    BY <2>1 DEF StrokeBegun, SwitchBegun, SecondMove
  <2> QED BY <2>1, <2>2, PlanKept DEF Begin
<1>2. ASSUME NEW r \in Requests, Move(r)
      PROVE  PlanUnderWay'
  <2> DEFINE t == Stroke("receipt", task[r].n, task[r].steps, task[r].gated)
  <2>1. Continue(r, t) /\ UNCHANGED receipts /\ task[r].at = "stroke"
    BY <1>2 DEF Move, At
  <2>2. SecondMove(t) => SecondMove(task[r]) /\ t.steps = task[r].steps
    BY <2>1 DEF SecondMove, Stroke
  <2> HIDE DEF t
  <2> QED BY <2>1, <2>2, PlanKept
<1>3. ASSUME NEW r \in Requests, AppendReceipt(r)
      PROVE  PlanUnderWay'
  <2>1. PICK t : /\ Continue(r, t) /\ t.steps = task[r].steps
                 /\ \/ t.at = "save"
                    \/ t.at = "stroke" /\ t.n = 2 /\ task[r].n = 1
    BY <1>3, ReceiptAppended
  <2>2. /\ task'[r] = t
        /\ \A q \in Requests : q # r => task'[q] = task[q]
    BY <2>1, Continued
  <2>3. \A q \in Requests \ {r} : ~PastFirst(task[q])
    BY <1>3, AloneInside DEF AppendReceipt, At, PastFirst
  <2>4. \A q \in Requests : SecondMove(task[q]) => PastFirst(task[q])
    BY DEF SecondMove, PastFirst
  <2>5. /\ receipts' # <<>>
        /\ receipts'[Len(receipts')] = ReceiptOf(r)
    BY <1>3, ReceiptAppended, Appended DEF TypeOK
  <2>6. ReceiptOf(r).by = r /\ ReceiptOf(r).end = task[r].steps[task[r].n].end
    BY <1>3, ReceiptAppended
  <2>7. ASSUME NEW q \in Requests, SecondMove(task'[q])
        PROVE  /\ receipts' # <<>>
               /\ receipts'[Len(receipts')].by = q
               /\ receipts'[Len(receipts')].end = task'[q].steps[1].end
    <3>1. q = r
      BY <2>2, <2>3, <2>4, <2>7
    <3>2. task[r].n = 1
      BY <2>1, <2>2, <2>7, <3>1 DEF SecondMove
    <3> QED BY <2>1, <2>2, <2>5, <2>6, <3>1, <3>2
  <2> QED BY <2>7 DEF PlanUnderWay, SecondMove
<1>4. ASSUME NEW r \in Requests,
             \/ FailReceipt(r) \/ Save(r) \/ Write(r) \/ RecordPeak(r) \/ Release(r)
             \/ SwitchSave(r) \/ SwitchWrite(r)
      PROVE  PlanUnderWay'
  <2>1. PICK t : /\ Continue(r, t) /\ UNCHANGED receipts
                 /\ t.at \in {"idle", "save", "write", "peak", "release", "switchWrite"}
    BY <1>4 DEF FailReceipt, Save, Write, RecordPeak, Release, SwitchSave, SwitchWrite,
                Stroke, Idle
  <2>2. ~SecondMove(t)
    BY <2>1 DEF SecondMove
  <2> QED BY <2>1, <2>2, PlanKept
<1>5. CASE Crash
  BY <1>5 DEF Crash, PlanUnderWay, Idle
<1>6. CASE Restart
  <2>1. \A q \in Requests : task'[q] = Idle
    BY <1>6 DEF Restart, NothingHeld
  <2> QED BY <2>1 DEF PlanUnderWay, Idle
<1> QED BY <1>1, <1>2, <1>3, <1>4, <1>5, <1>6 DEF Next, Stage

LEMMA ReceiptsChange ==
  ASSUME Next
  PROVE  \/ UNCHANGED receipts \/ receipts' = <<>>
         \/ \E r \in Requests : AppendReceipt(r)
<1>1. ASSUME NEW r \in Requests, Request(r)
      PROVE  UNCHANGED receipts
  BY <1>1 DEF Request, CloseRequest, FullStrokeRequest, PlanRequest, SwitchRequest, Begin
<1>2. ASSUME NEW r \in Requests, Stage(r), ~AppendReceipt(r)
      PROVE  UNCHANGED receipts
  BY <1>2 DEF Stage, Move, FailReceipt, Save, Write, RecordPeak, Release,
              SwitchSave, SwitchWrite
<1>3. CASE Crash \/ Restart
  BY <1>3 DEF Crash, Restart
<1> QED BY <1>1, <1>2, <1>3 DEF Next

LEMMA PlanInOrderStep ==
  ASSUME TypeOK, StepsShaped, PlanUnderWay, PlanInOrder, Next
  PROVE  PlanInOrder'
<1>1. ASSUME NEW r \in Requests, AppendReceipt(r)
      PROVE  PlanInOrder'
  <2> DEFINE e == ReceiptOf(r)  len == Len(receipts)
  <2>1. /\ receipts' = Append(receipts, e) /\ e \in Receipts /\ receipts \in Seq(Receipts)
        /\ e.by = r /\ e.end = task[r].steps[task[r].n].end
        /\ task[r].at = "receipt" /\ Shaped(task[r])
        /\ task[r].n \in 1 .. Len(task[r].steps)
    BY <1>1, ReceiptAppended DEF TypeOK
  <2> HIDE DEF e
  <2>2. /\ DOMAIN receipts = 1 .. len /\ DOMAIN receipts' = 1 .. len + 1 /\ len \in Nat
        /\ receipts'[len + 1] = e
        /\ \A k \in 1 .. len : receipts'[k] = receipts[k]
    BY <2>1, Appended
  <2>3. ASSUME e.end = "downstream"
        PROVE  /\ len > 0 /\ receipts[len].end = "upstream" /\ receipts[len].by = e.by
    <3>1. task[r].n = 2 /\ task[r].steps[1].end = "upstream"
      BY <2>1, <2>3 DEF Shaped
    <3>2. /\ receipts # <<>> /\ receipts[Len(receipts)].by = r
          /\ receipts[Len(receipts)].end = task[r].steps[1].end
      BY <2>1, <3>1 DEF PlanUnderWay
    <3> QED BY <2>1, <3>1, <3>2
  <2> HIDE DEF len
  <2>4. ASSUME NEW k \in 1 .. len + 1, receipts'[k].end = "downstream"
        PROVE  /\ k > 1
               /\ receipts'[k - 1].end = "upstream"
               /\ receipts'[k - 1].by = receipts'[k].by
    <3>1. CASE k = len + 1
      <4>1. len \in 1 .. len /\ k - 1 = len /\ k > 1
        BY <2>2, <2>3, <2>4, <3>1
      <4> QED BY <2>2, <2>3, <2>4, <3>1, <4>1
    <3>2. CASE k # len + 1
      <4>1. k \in 1 .. len
        BY <2>2, <3>2
      <4>2. /\ k > 1 /\ receipts[k - 1].end = "upstream"
            /\ receipts[k - 1].by = receipts[k].by
        BY <2>2, <2>4, <4>1 DEF PlanInOrder
      <4>3. k - 1 \in 1 .. len
        BY <2>2, <4>1, <4>2
      <4> QED BY <2>2, <4>1, <4>2, <4>3
    <3> QED BY <3>1, <3>2
  <2> QED BY <2>2, <2>4 DEF PlanInOrder
<1>2. CASE UNCHANGED receipts
  BY <1>2 DEF PlanInOrder
<1>3. CASE receipts' = <<>>
  BY <1>3 DEF PlanInOrder
<1> QED BY <1>1, <1>2, <1>3, ReceiptsChange

LEMMA TellsKept ==
  ASSUME ReceiptTellsPosition, up, UNCHANGED receipts, unlogged \subseteq unlogged',
         \A v \in Valves \ unlogged' : position'[v] = position[v]
  PROVE  ReceiptTellsPosition'
<1>1. ASSUME NEW k \in DOMAIN receipts, NEW v \in Valves \ unlogged', LastReceipt(v, k)'
      PROVE  receipts'[k].position = position'[v]
  <2>1. LastReceipt(v, k)
    BY <1>1 DEF LastReceipt
  <2> QED BY <2>1 DEF ReceiptTellsPosition
<1> QED BY <1>1 DEF ReceiptTellsPosition

LEMMA TellsStep ==
  ASSUME TypeOK, NothingHeld, StepsShaped, ReceiptTellsPosition, Next
  PROVE  ReceiptTellsPosition'
<1>1. ASSUME NEW r \in Requests, Request(r)
      PROVE  ReceiptTellsPosition'
  <2>1. PICK t \in Tasks : Begin(r, t) /\ UNCHANGED position
    BY <1>1, RequestTasks
  <2> QED BY <2>1, TellsKept DEF Begin, At, history
<1>2. ASSUME NEW r \in Requests, Move(r)
      PROVE  ReceiptTellsPosition'
  <2> DEFINE s == task[r].steps[task[r].n]
  <2>1. /\ up /\ UNCHANGED receipts /\ unlogged' = unlogged \cup {s.valve}
        /\ position' = [position EXCEPT ![s.valve] = Clamp(@ + s.delta)]
    BY <1>2 DEF Move, At
  <2> HIDE DEF s
  <2>2. \A v \in Valves \ unlogged' : position'[v] = position[v]
    BY <2>1 DEF TypeOK
  <2> QED BY <2>1, <2>2, TellsKept
<1>3. ASSUME NEW r \in Requests, AppendReceipt(r)
      PROVE  ReceiptTellsPosition'
  <2> DEFINE e == ReceiptOf(r)  len == Len(receipts)
  <2>1. /\ receipts' = Append(receipts, e) /\ e \in Receipts /\ receipts \in Seq(Receipts)
        /\ e.valve = Moving(r) /\ e.position = position[Moving(r)]
    BY <1>3, ReceiptAppended DEF TypeOK
  <2>2. up /\ UNCHANGED <<up, position>> /\ unlogged' = unlogged \ {Moving(r)}
    BY <1>3 DEF AppendReceipt, At, memory
  <2> HIDE DEF e
  <2>3. /\ DOMAIN receipts = 1 .. len /\ DOMAIN receipts' = 1 .. len + 1 /\ len \in Nat
        /\ receipts'[len + 1] = e /\ Len(receipts') = len + 1
        /\ \A k \in 1 .. len : receipts'[k] = receipts[k]
    BY <2>1, Appended
  <2> HIDE DEF len
  <2>4. ASSUME NEW k \in 1 .. len + 1, NEW v \in Valves \ unlogged',
               receipts'[k].valve = v,
               \A j \in k + 1 .. len + 1 : receipts'[j].valve # v
        PROVE  receipts'[k].position = position[v]
    <3>1. CASE k = len + 1
      BY <2>1, <2>3, <2>4, <3>1
    <3>2. CASE k # len + 1
      <4>1. k \in 1 .. len /\ len + 1 \in k + 1 .. len + 1
        BY <2>3, <3>2
      <4>2. v # Moving(r)
        BY <2>1, <2>3, <2>4, <4>1
      <4>3. v \in Valves \ unlogged
        BY <2>2, <2>4, <4>2
      <4>4. \A j \in k + 1 .. len : j \in k + 1 .. len + 1 /\ j \in 1 .. len
        BY <2>3, <4>1
      <4>5. LastReceipt(v, k)
        BY <2>3, <2>4, <4>1, <4>4 DEF LastReceipt, len
      <4>6. receipts[k].position = position[v]
        BY <2>2, <2>3, <4>1, <4>3, <4>5 DEF ReceiptTellsPosition
      <4> QED BY <2>3, <4>1, <4>6
    <3> QED BY <3>1, <3>2
  <2> QED BY <2>2, <2>3, <2>4 DEF ReceiptTellsPosition, LastReceipt
<1>4. ASSUME NEW r \in Requests,
             \/ FailReceipt(r) \/ Save(r) \/ Write(r) \/ RecordPeak(r) \/ Release(r)
             \/ SwitchSave(r) \/ SwitchWrite(r)
      PROVE  ReceiptTellsPosition'
  <2>1. up /\ UNCHANGED <<receipts, unlogged, position>>
    BY <1>4 DEF FailReceipt, Save, Write, RecordPeak, Release, SwitchSave, SwitchWrite,
                At, memory, history
  <2> QED BY <2>1, TellsKept
<1>5. CASE Crash
  BY <1>5 DEF Crash, ReceiptTellsPosition
<1>6. CASE Restart
  BY <1>6 DEF Restart, ReceiptTellsPosition
<1> QED BY <1>1, <1>2, <1>3, <1>4, <1>5, <1>6 DEF Next, Stage

-----------------------------------------------------------------------------
(* The files.                                                              *)

LEMMA WritingIs ==
  ASSUME NEW r, NEW v
  PROVE  v \in Writing(r) <=> Writes(task[r], v)
<1>1. CASE task[r].at = "write"
  BY <1>1 DEF Writing, Writes, Moving
<1>2. CASE task[r].at = "switchWrite"
  BY <1>2 DEF Writing, Writes
<1>3. CASE task[r].at \notin {"write", "switchWrite"}
  BY <1>3 DEF Writing, Writes
<1> QED BY <1>1, <1>2, <1>3

LEMMA FollowedKept ==
  ASSUME TypeOK, NEW r \in Requests, NEW t, Continue(r, t),
         NEW v \in Valves, Followed(v),
         file'[v] = file[v], ValveRecord(v)' = ValveRecord(v),
         unsaved \subseteq unsaved', raced \subseteq raced',
         Unread(task[r], v) => \/ Unread(t, v) \/ v \in unsaved'
                               \/ Writes(t, v) /\ t.record = ValveRecord(v),
         Writes(task[r], v) => Writes(t, v) /\ t.record = task[r].record,
         Writes(t, v) => Writes(task[r], v) \/ t.record = ValveRecord(v)
  PROVE  Followed(v)'
<1>1. /\ task'[r] = t
      /\ \A q \in Requests : q # r => task'[q] = task[q]
  BY Continued
<1> DEFINE c == ValveRecord(v)
<1>2. c' = c
  OBVIOUS
<1> HIDE DEF c
<1> SUFFICES \/ v \in unsaved' \cup raced'
             \/ \E q \in Requests : Unread(task'[q], v)
             \/ \E q \in Requests : Writes(task'[q], v) /\ task'[q].record = c
             \/ file'[v] = c /\ \A q \in Requests : ~Writes(task'[q], v)
  BY <1>2 DEF Followed, c, Unread, Writes
<1>3. CASE v \in unsaved \cup raced
  BY <1>3
<1>4. ASSUME NEW q \in Requests, Unread(task[q], v)
      PROVE  \/ v \in unsaved' \/ Unread(task'[q], v)
             \/ Writes(task'[q], v) /\ task'[q].record = c
  BY <1>1, <1>4 DEF c
<1>5. ASSUME NEW q \in Requests, Writes(task[q], v), task[q].record = c
      PROVE  Writes(task'[q], v) /\ task'[q].record = c
  BY <1>1, <1>5
<1>6. CASE file[v] = c /\ \A q \in Requests : ~Writes(task[q], v)
  <2>1. \A q \in Requests : Writes(task'[q], v) => task'[q].record = c
    BY <1>1, <1>6 DEF c
  <2> QED BY <1>6, <2>1
<1> QED BY <1>3, <1>4, <1>5, <1>6 DEF Followed, c

\* What is left to be read while a goroutine goes through its steps.
LEMMA UnreadRest ==
  ASSUME NEW t, NEW u, Shaped(u), NEW v, u.steps = t.steps
  PROVE  /\ u.at = "stroke" /\ t.at = "receipt" /\ t.n = u.n
              /\ Unread(u, v) => Unread(t, v)
         /\ u.at = "receipt" /\ t.at = "save" /\ t.n = 1 /\ u.n = Len(u.steps)
              /\ Unread(u, v) => Unread(t, v)
         /\ u.at = "receipt" /\ t.at = "stroke" /\ t.n = 2 /\ u.n = 1
              /\ Unread(u, v) => Unread(t, v)
         /\ u.at = "save" /\ t.at = "write" /\ t.n = u.n
              /\ Unread(u, v) => Unread(t, v) \/ Writes(t, v)
         /\ u.at = "write" /\ t.at = "save" /\ t.n = u.n + 1
              /\ Unread(u, v) => Unread(t, v)
<1> DEFINE len == Len(u.steps)  n == u.n
<1>1. n \in 1 .. len
  BY DEF Shaped
<1>2. CASE u.at = "stroke" /\ t.at = "receipt" /\ t.n = u.n
  <2>1. \A k \in 1 .. n - 1 : k \in 1 .. n
    BY <1>1
  <2> QED BY <1>2, <2>1 DEF Unread
<1>3. CASE u.at = "receipt" /\ t.at = "save" /\ t.n = 1 /\ u.n = Len(u.steps)
  BY <1>3 DEF Unread
<1>4. CASE u.at = "receipt" /\ t.at = "stroke" /\ t.n = 2 /\ u.n = 1
  BY <1>4 DEF Unread
<1>5. CASE u.at = "save" /\ t.at = "write" /\ t.n = u.n
  <2>1. \A k \in n .. len : k = n \/ k \in n + 1 .. len
    BY <1>1
  <2> QED BY <1>5, <2>1 DEF Unread, Writes
<1>6. CASE u.at = "write" /\ t.at = "save" /\ t.n = u.n + 1
  BY <1>6 DEF Unread
<1> QED BY <1>2, <1>3, <1>4, <1>5, <1>6

\* A goroutine writes the file of v, or fails to.
LEMMA WrittenFollowed ==
  ASSUME TypeOK, NEW r \in Requests, NEW t, Continue(r, t),
         NEW w \in Valves, Writes(task[r], w), \A v \in Valves : v # w => ~Writes(task[r], v),
         WriteFile(r, w), UNCHANGED memory,
         \A v \in Valves : ~Writes(t, v),
         \A v \in Valves : Unread(task[r], v) => Unread(t, v),
         NEW v \in Valves, Followed(v)
  PROVE  Followed(v)'
<1>1. UNCHANGED <<position, zone>> /\ ValveRecord(v)' = ValveRecord(v)
  BY DEF memory, ValveRecord
<1>2. unsaved \subseteq unsaved' /\ raced \subseteq raced'
  BY DEF WriteFile
<1>3. CASE v # w
  <2>1. file'[v] = file[v]
    BY <1>3 DEF WriteFile, TypeOK
  <2>2. ~Writes(task[r], v)
    BY <1>3
  <2> QED BY <1>1, <1>2, <2>1, <2>2, FollowedKept
<1>4. CASE v = w
  <2>1. /\ task'[r] = t
        /\ \A q \in Requests : q # r => task'[q] = task[q]
    BY Continued
  <2>2. CASE v \in unsaved' \cup raced'
    BY <2>2 DEF Followed
  <2>3. CASE v \notin unsaved' \cup raced'
    <3>1. file'[v] = task[r].record
      BY <1>4, <2>3 DEF WriteFile, TypeOK
    <3>2. \A q \in Requests \ {r} : v \notin Writing(q)
      BY <1>4, <2>3 DEF WriteFile
    <3>3. \A q \in Requests : q # r => ~Writes(task[q], v)
      BY <3>2, WritingIs
    <3>4. \A q \in Requests : ~Writes(task'[q], v)
      BY <2>1, <3>3
    <3>5. CASE \E q \in Requests : Unread(task[q], v)
      <4>1. \E q \in Requests : Unread(task'[q], v)
        BY <2>1, <3>5
      <4> QED BY <4>1 DEF Followed, Unread
    <3>6. CASE \E q \in Requests : Writes(task[q], v) /\ task[q].record = ValveRecord(v)
      <4>1. task[r].record = ValveRecord(v)
        BY <3>3, <3>6
      <4> QED BY <1>1, <3>1, <3>4, <4>1 DEF Followed, Writes
    <3> QED BY <1>2, <1>4, <2>3, <3>5, <3>6 DEF Followed
  <2> QED BY <2>2, <2>3
<1> QED BY <1>3, <1>4

LEMMA FilesStep ==
  ASSUME TypeOK, NothingHeld, StepsShaped, FilesFollow, Next
  PROVE  FilesFollow'
<1> SUFFICES ASSUME up', NEW v \in Valves
             PROVE  Followed(v)'
  BY DEF FilesFollow, Followed
<1>1. ASSUME NEW r \in Requests, Request(r)
      PROVE  Followed(v)'
  <2>1. PICK t \in Tasks : /\ Begin(r, t) /\ UNCHANGED position
                           /\ StrokeBegun(t) \/ SwitchBegun(t)
    BY <1>1, RequestTasks
  <2>2. /\ task[r].at = "idle" /\ Followed(v) /\ Continue(r, t)
        /\ UNCHANGED <<file, unsaved, raced>>
    BY <2>1 DEF Begin, At, FilesFollow, history
  <2>3. CASE SwitchBegun(t) /\ t.valve = v
    <3>1. Unread(t, v) /\ task'[r] = t
      BY <2>2, <2>3, Continued DEF SwitchBegun, Unread
    <3> QED BY <3>1 DEF Followed, Unread
  <2>4. CASE ~(SwitchBegun(t) /\ t.valve = v)
    <3>1. zone'[v] = zone[v]
      BY <2>1, <2>4 DEF StrokeBegun, SwitchBegun, TypeOK
    <3>2. ValveRecord(v)' = ValveRecord(v)
      BY <2>1, <3>1 DEF ValveRecord
    <3>3. ~Unread(task[r], v) /\ ~Writes(task[r], v)
      BY <2>2 DEF Unread, Writes
    <3>4. ~Writes(t, v)
      BY <2>1 DEF StrokeBegun, SwitchBegun, Writes
    <3> QED BY <2>2, <3>2, <3>3, <3>4, FollowedKept
  <2> QED BY <2>3, <2>4
<1>2. ASSUME NEW r \in Requests, Move(r)
      PROVE  Followed(v)'
  <2> DEFINE u == task[r]
             s == u.steps[u.n]
             t == Stroke("receipt", u.n, u.steps, u.gated)
  <2>1. /\ u.at = "stroke" /\ Followed(v) /\ Continue(r, t)
        /\ UNCHANGED <<file, unsaved, raced, zone>>
        /\ position' = [position EXCEPT ![s.valve] = Clamp(@ + s.delta)]
    BY <1>2 DEF Move, At, FilesFollow
  <2>2. Shaped(u) /\ u.n \in 1 .. Len(u.steps)
    BY <2>1, StrokeAt DEF StrokeStages
  <2>3. t.at = "receipt" /\ t.n = u.n /\ t.steps = u.steps
    BY DEF Stroke
  <2> HIDE DEF u, t
  <2>4. CASE s.valve = v
    <3>1. u.n \in 1 .. u.n
      BY <2>2
    <3>2. Unread(t, v)
      BY <2>3, <2>4, <3>1 DEF Unread
    <3>3. task'[r] = t
      BY <2>1, Continued
    <3> QED BY <3>2, <3>3 DEF Followed, Unread
  <2>5. CASE s.valve # v
    <3>1. ValveRecord(v)' = ValveRecord(v)
      BY <2>1, <2>5 DEF ValveRecord, TypeOK
    <3>2. Unread(u, v) => Unread(t, v)
      BY <2>1, <2>2, <2>3, UnreadRest
    <3>3. ~Writes(u, v) /\ ~Writes(t, v)
      BY <2>1, <2>3 DEF Writes
    <3> QED BY <2>1, <3>1, <3>2, <3>3, FollowedKept DEF u
  <2> QED BY <2>4, <2>5
<1>3. ASSUME NEW r \in Requests, AppendReceipt(r)
      PROVE  Followed(v)'
  <2> DEFINE u == task[r]
  <2>1. /\ u.at = "receipt" /\ Followed(v)
        /\ UNCHANGED <<file, unsaved, raced, zone, position>>
    BY <1>3 DEF AppendReceipt, At, FilesFollow, memory
  <2>2. PICK t : /\ Continue(r, t) /\ t.steps = u.steps
                 /\ \/ t.at = "save" /\ t.n = 1 /\ u.n = Len(u.steps)
                    \/ t.at = "stroke" /\ t.n = 2 /\ u.n = 1
    BY <1>3, ReceiptAppended
  <2>3. Shaped(u)
    BY <2>1, StrokeAt DEF StrokeStages
  <2> HIDE DEF u
  <2>4. ValveRecord(v)' = ValveRecord(v)
    BY <2>1 DEF ValveRecord
  <2>5. Unread(u, v) => Unread(t, v)
    BY <2>1, <2>2, <2>3, UnreadRest
  <2>6. ~Writes(u, v) /\ ~Writes(t, v)
    BY <2>1, <2>2 DEF Writes
  <2> QED BY <2>1, <2>2, <2>4, <2>5, <2>6, FollowedKept DEF u
<1>4. ASSUME NEW r \in Requests, FailReceipt(r)
      PROVE  Followed(v)'
  <2>1. /\ task[r].at = "receipt" /\ Followed(v) /\ Continue(r, Idle)
        /\ UNCHANGED <<file, raced, zone, position>>
        /\ unsaved' = unsaved \cup {task[r].steps[k].valve : k \in 1 .. task[r].n}
    BY <1>4 DEF FailReceipt, At, FilesFollow, memory
  <2>2. ValveRecord(v)' = ValveRecord(v)
    BY <2>1 DEF ValveRecord
  <2>3. Unread(task[r], v) => v \in unsaved'
    BY <2>1 DEF Unread
  <2>4. ~Writes(task[r], v) /\ ~Writes(Idle, v)
    BY <2>1 DEF Writes, Idle
  <2> QED BY <2>1, <2>2, <2>3, <2>4, FollowedKept
<1>5. ASSUME NEW r \in Requests, Save(r)
      PROVE  Followed(v)'
  <2> DEFINE u == task[r]
             t == [at |-> "write", steps |-> u.steps, n |-> u.n, gated |-> u.gated,
                   record |-> ValveRecord(Moving(r))]
  <2>1. /\ u.at = "save" /\ Followed(v) /\ Continue(r, t)
        /\ UNCHANGED <<file, unsaved, raced, zone, position>>
    BY <1>5 DEF Save, At, FilesFollow, memory, history
  <2>2. Shaped(u)
    BY <2>1, StrokeAt DEF StrokeStages
  <2>3. /\ t.at = "write" /\ t.n = u.n /\ t.steps = u.steps
        /\ t.record = ValveRecord(Moving(r)) /\ Moving(r) = u.steps[u.n].valve
    BY DEF Moving
  <2> HIDE DEF u, t
  <2>4. ValveRecord(v)' = ValveRecord(v)
    BY <2>1 DEF ValveRecord
  <2>5. Unread(u, v) => Unread(t, v) \/ Writes(t, v)
    BY <2>1, <2>2, <2>3, UnreadRest
  <2>6. ~Writes(u, v) /\ (Writes(t, v) => t.record = ValveRecord(v))
    BY <2>1, <2>3 DEF Writes
  <2> QED BY <2>1, <2>4, <2>5, <2>6, FollowedKept DEF u
<1>6. ASSUME NEW r \in Requests, Write(r)
      PROVE  Followed(v)'
  <2> DEFINE u == task[r]
             p == [at |-> "peak", valve |-> Moving(r)]
             t == Stroke("save", u.n + 1, u.steps, u.gated)
  <2>1. /\ u.at = "write" /\ Followed(v) /\ UNCHANGED memory /\ WriteFile(r, Moving(r))
        /\ \/ ~SavedAll(u) /\ Continue(r, t)
           \/ SavedAll(u) /\ (Continue(r, p) \/ Continue(r, Idle))
    BY <1>6 DEF Write, At, FilesFollow
  <2>2. Shaped(u) /\ u.n \in 1 .. Len(u.steps) /\ Moving(r) \in Valves
    BY <2>1, StrokeAt, AtStep DEF StrokeStages
  <2>3. t.at = "save" /\ t.n = u.n + 1 /\ t.steps = u.steps /\ p.at = "peak" /\ Idle.at = "idle"
    BY DEF Stroke, Idle
  <2>4. Moving(r) = u.steps[u.n].valve
    BY DEF Moving
  <2>5. SavedAll(u) => u.n = Len(u.steps)
    BY DEF SavedAll, Last
  <2> HIDE DEF u, t, p
  <2>6. PICK x : /\ Continue(r, x)
                 /\ \/ ~SavedAll(u) /\ x = t
                    \/ SavedAll(u) /\ x \in {p, Idle}
    BY <2>1
  <2>7. \A w : Writes(u, w) <=> w = Moving(r)
    BY <2>1, <2>4 DEF Writes
  <2>8. \A w : ~Writes(x, w)
    BY <2>3, <2>6 DEF Writes
  <2>9. \A w : Unread(u, w) => Unread(x, w)
    <3>1. CASE SavedAll(u)
      <4>1. u.n + 1 .. Len(u.steps) = {}
        BY <2>2, <2>5, <3>1
      <4> QED BY <2>1, <4>1 DEF Unread
    <3>2. CASE x = t
      BY <2>1, <2>2, <2>3, <3>2, UnreadRest
    <3> QED BY <2>6, <3>1, <3>2
  <2> QED BY <2>1, <2>2, <2>6, <2>7, <2>8, <2>9, WrittenFollowed DEF u
<1>7. ASSUME NEW r \in Requests, RecordPeak(r) \/ Release(r)
      PROVE  Followed(v)'
  <2>1. /\ task[r].at \in {"peak", "release"} /\ Followed(v)
        /\ UNCHANGED <<file, unsaved, raced, zone, position>>
    BY <1>7 DEF RecordPeak, Release, At, FilesFollow, memory, history
  <2>2. \/ Continue(r, Idle)
        \/ Continue(r, [at |-> "release", valve |-> task[r].valve])
    BY <1>7 DEF RecordPeak, Release
  <2>3. PICK t : Continue(r, t) /\ t.at \in {"idle", "release"}
    BY <2>2 DEF Idle
  <2>4. ValveRecord(v)' = ValveRecord(v)
    BY <2>1 DEF ValveRecord
  <2>5. ~Unread(task[r], v) /\ ~Writes(task[r], v) /\ ~Writes(t, v)
    BY <2>1, <2>3 DEF Unread, Writes
  <2> QED BY <2>1, <2>3, <2>4, <2>5, FollowedKept
<1>8. ASSUME NEW r \in Requests, SwitchSave(r)
      PROVE  Followed(v)'
  <2> DEFINE u == task[r]
             t == [at |-> "switchWrite", valve |-> u.valve, record |-> ValveRecord(u.valve)]
  <2>1. /\ u.at = "switchSave" /\ Followed(v) /\ Continue(r, t)
        /\ UNCHANGED <<file, unsaved, raced, zone, position>>
    BY <1>8 DEF SwitchSave, At, FilesFollow, memory, history
  <2>2. t.at = "switchWrite" /\ t.valve = u.valve /\ t.record = ValveRecord(u.valve)
    OBVIOUS
  <2> HIDE DEF u, t
  <2>3. ValveRecord(v)' = ValveRecord(v)
    BY <2>1 DEF ValveRecord
  <2>4. /\ Unread(u, v) => Writes(t, v)
        /\ ~Writes(u, v) /\ (Writes(t, v) => t.record = ValveRecord(v))
    BY <2>1, <2>2 DEF Unread, Writes
  <2> QED BY <2>1, <2>3, <2>4, FollowedKept DEF u
<1>9. ASSUME NEW r \in Requests, SwitchWrite(r)
      PROVE  Followed(v)'
  <2>1. /\ task[r].at = "switchWrite" /\ Followed(v) /\ Continue(r, Idle)
        /\ UNCHANGED memory /\ WriteFile(r, task[r].valve) /\ task[r].valve \in Valves
    BY <1>9, Carried DEF SwitchWrite, At, FilesFollow, TypeOK
  <2>2. /\ \A w : Writes(task[r], w) <=> w = task[r].valve
        /\ \A w : ~Unread(task[r], w)
    BY <2>1 DEF Writes, Unread
  <2>3. \A w : ~Writes(Idle, w)
    BY DEF Writes, Idle
  <2> QED BY <2>1, <2>2, <2>3, WrittenFollowed
<1>10. CASE Crash
  BY <1>10 DEF Crash
<1>11. CASE Restart
  <2>1. \A q \in Requests : ~Writes(task'[q], v)
    BY <1>11 DEF Restart, NothingHeld, Writes, Idle
  <2>2. file'[v] = ValveRecord(v)'
    <3>1. file[v] = [position |-> file[v].position, zone |-> file[v].zone]
      BY DEF TypeOK, Records
    <3> QED BY <1>11, <3>1 DEF Restart, ValveRecord
  <2> QED BY <2>1, <2>2 DEF Followed, Writes
<1> QED BY <1>1, <1>2, <1>3, <1>4, <1>5, <1>6, <1>7, <1>8, <1>9, <1>10, <1>11
        DEF Next, Stage

-----------------------------------------------------------------------------
(* The invariant and what follows from it.                                 *)

LEMMA StutterInvariant ==
  ASSUME IInv, UNCHANGED vars
  PROVE  IInv'
<1> USE DEF IInv, vars, memory, bounds, history
<1>1. TypeOK'
  BY DEF TypeOK
<1>2. NothingHeld' /\ StepsShaped' /\ OneStroke'
  BY DEF NothingHeld, StepsShaped, OneStroke, PastFirst
<1>3. GateHeld' /\ PlanUnderWay'
  BY DEF GateHeld, Closes, PlanUnderWay
<1>4. PlanInOrder'
  BY DEF PlanInOrder
<1>5. ReceiptTellsPosition'
  BY DEF ReceiptTellsPosition, LastReceipt
<1>6. FilesFollow'
  BY DEF FilesFollow, Followed, Unread, Writes, ValveRecord
<1> QED BY <1>1, <1>2, <1>3, <1>4, <1>5, <1>6

\* The inductive invariant: who is past its first movement holds the mutex, the
\* gate is the close command's, the receipts and the files follow the valves.
THEOREM Invariance == Spec => []IInv
<1>1. Init => IInv
  BY InitInvariant
<1>2. IInv /\ [Next]_vars => IInv'
  <2>1. ASSUME IInv, Next PROVE IInv'
    BY <2>1, TypeStep, HeldStep, ShapeStep, OneStrokeStep, GateStep, PlanUnderWayStep,
       PlanInOrderStep, TellsStep, FilesStep DEF IInv
  <2> QED BY <2>1, StutterInvariant
<1> QED BY <1>1, <1>2, PTL DEF Spec

\* The valves, the gate, the receipts, the files and the goroutines keep their
\* types: Clamp keeps every position between closed and open (valve/stroke.go).
THEOREM TypeCorrectness == Spec => []TypeOK
<1>1. IInv => TypeOK
  BY DEF IInv
<1> QED BY <1>1, Invariance, PTL

LEMMA ClosingIs ==
  ASSUME NEW r \in Requests, NEW v
  PROVE  v \in Closing(r) <=> Closes(task[r], v)
<1>1. CASE task[r].at \in StrokeStages
  BY <1>1 DEF Closing, Closes, StrokeStages
<1>2. CASE task[r].at \in {"peak", "release"}
  BY <1>2 DEF Closing, Closes, StrokeStages
<1>3. CASE task[r].at \notin StrokeStages \cup {"peak", "release"}
  BY <1>3 DEF Closing, Closes, StrokeStages
<1> QED BY <1>1, <1>2, <1>3

\* However the requests interleave and wherever the process crashes, a close
\* command has the gate of its valve for itself from its admission on
\* (hammer/validate.go, console/handlers.go).
THEOREM OneClosureAtATime == Spec => []OneAdmittedClosure
<1>1. IInv => OneAdmittedClosure
  <2> SUFFICES ASSUME IInv PROVE OneAdmittedClosure
    OBVIOUS
  <2>1. ASSUME NEW r \in Requests, NEW v \in Closing(r)
        PROVE  /\ v \in Valves /\ Closes(task[r], v)
    <3>1. Closes(task[r], v)
      BY <2>1, ClosingIs
    <3>2. CASE task[r].at \in StrokeStages
      <4>1. task[r].steps \in Strokes /\ v = task[r].steps[1].valve
        BY <3>1, <3>2, Carried DEF Closes, StrokeStages, IInv, TypeOK
      <4> QED BY <3>1, <4>1, StrokeShape, StepFields
    <3>3. CASE task[r].at \notin StrokeStages
      BY <3>1, <3>3, Carried DEF Closes, IInv, TypeOK
    <3> QED BY <3>2, <3>3
  <2>2. \A r \in Requests : Closing(r) \subseteq engaged
    BY <2>1 DEF IInv, GateHeld
  <2>3. ASSUME NEW r \in Requests, NEW q \in Requests, r # q
        PROVE  Closing(r) \cap Closing(q) = {}
    BY <2>1, <2>3 DEF IInv, GateHeld
  <2> QED BY <2>2, <2>3 DEF OneAdmittedClosure
<1> QED BY <1>1, Invariance, PTL

\* The two movements of a protection plan follow each other in the receipts, no
\* stroke of another request in between (valve/stroke.go).
THEOREM PlansInOrder == Spec => []PlanInOrder
<1>1. IInv => PlanInOrder
  BY DEF IInv
<1> QED BY <1>1, Invariance, PTL

\* The last receipt of a valve tells where it stands, unless the receipt of a
\* later move is still to come or its append failed (valve/stroke.go).
THEOREM ReceiptsTell == Spec => []ReceiptTellsPosition
<1>1. IInv => ReceiptTellsPosition
  BY DEF IInv
<1> QED BY <1>1, Invariance, PTL

\* A valve nobody is working on is in its file as it is in memory, unless a
\* failure or two writes at a time came between (valve/valve.go).
THEOREM FilesSaved == Spec => []SavedWhenQuiet
<1>1. IInv => SavedWhenQuiet
  <2> SUFFICES ASSUME IInv, up, NEW v \in Valves \ (unsaved \cup raced),
                      \A r \in Requests : v \notin Touches(r)
               PROVE  file[v] = ValveRecord(v)
    BY DEF SavedWhenQuiet
  <2>1. ASSUME NEW r \in Requests
        PROVE  ~Unread(task[r], v) /\ ~Writes(task[r], v)
    <3>1. CASE task[r].at \in StrokeStages
      <4>1. /\ DOMAIN task[r].steps = 1 .. Len(task[r].steps)
            /\ Len(task[r].steps) \in {1, 2}
            /\ task[r].n \in 1 .. Len(task[r].steps)
        BY <3>1, StrokeAt, StrokeShape DEF IInv
      <4>2. \A k \in 1 .. Len(task[r].steps) : task[r].steps[k].valve # v
        BY <3>1, <4>1 DEF Touches, StrokeStages
      <4> DEFINE n == task[r].n  len == Len(task[r].steps)
      <4>3. /\ \A k \in 1 .. n - 1 : k \in 1 .. len
            /\ \A k \in 1 .. n : k \in 1 .. len
            /\ \A k \in n .. len : k \in 1 .. len
            /\ \A k \in n + 1 .. len : k \in 1 .. len
        BY <4>1
      <4> QED BY <3>1, <4>1, <4>2, <4>3 DEF Unread, Writes, StrokeStages
    <3>2. CASE task[r].at \in {"switchSave", "switchWrite"}
      <4>1. v # task[r].valve
        BY <3>2 DEF Touches
      <4> QED BY <3>2, <4>1 DEF Unread, Writes
    <3>3. CASE task[r].at \notin StrokeStages \cup {"switchSave", "switchWrite"}
      BY <3>3 DEF Unread, Writes, StrokeStages
    <3> QED BY <3>1, <3>2, <3>3
  <2>2. Followed(v)
    BY DEF IInv, FilesFollow
  <2> QED BY <2>1, <2>2 DEF Followed
<1> QED BY <1>1, Invariance, PTL

-----------------------------------------------------------------------------
(* The gate that stays engaged.                                            *)

\* No receipt and no reading of a closure fails to be appended.
AllAppended == \A r \in Requests : /\ ~FailReceipt(r)
                                   /\ RecordPeak(r) => task'[r] # Idle

\* Every engaged gate belongs to a close command under way.
Owned == up => \A v \in engaged : \E r \in Requests : Closes(task[r], v)

\* A task that closes what the task before it closed leaves no gate behind.
LEMMA OwnedKept ==
  ASSUME TypeOK, Owned, up, NEW r \in Requests, NEW t, Continue(r, t),
         \A v \in Valves : Closes(task[r], v) => Closes(t, v),
         UNCHANGED engaged
  PROVE  Owned'
<1>1. task'[r] = t /\ \A q \in Requests : q # r => task'[q] = task[q]
  BY Continued
<1>2. ASSUME NEW v \in engaged
      PROVE  \E q \in Requests : Closes(task'[q], v)
  <2>1. v \in Valves
    BY DEF TypeOK
  <2>2. PICK q \in Requests : Closes(task[q], v)
    BY DEF Owned
  <2> QED BY <1>1, <2>1, <2>2
<1> QED BY <1>2 DEF Owned, Closes

LEMMA OwnedStep ==
  ASSUME TypeOK, StepsShaped, Owned, Next, AllAppended
  PROVE  Owned'
<1>1. ASSUME NEW r \in Requests, Request(r)
      PROVE  Owned'
  <2>1. PICK t \in Tasks : Begin(r, t) /\ (StrokeBegun(t) \/ SwitchBegun(t))
    BY <1>1, RequestTasks
  <2>2. up /\ UNCHANGED up /\ \A v : ~Closes(task[r], v)
    BY <2>1 DEF Begin, At, Closes, StrokeStages
  <2>3. CASE UNCHANGED engaged
    BY <2>1, <2>2, <2>3, OwnedKept DEF Begin
  <2>4. CASE StrokeBegun(t) /\ t.gated
    <3> DEFINE c == t.steps[1].valve
    <3>1. engaged' = engaged \cup {c} /\ Closes(t, c)
      BY <2>4 DEF StrokeBegun, Protect, Closes, StrokeStages
    <3>2. task'[r] = t /\ \A q \in Requests : q # r => task'[q] = task[q]
      BY <2>1, Continued DEF Begin
    <3> HIDE DEF c
    <3>3. \A v \in engaged' : \E q \in Requests : Closes(task'[q], v)
      BY <2>2, <3>1, <3>2 DEF Owned
    <3> QED BY <3>3 DEF Owned, Closes
  <2> QED BY <2>1, <2>3, <2>4 DEF StrokeBegun, SwitchBegun
<1>2. ASSUME NEW r \in Requests, Move(r) \/ AppendReceipt(r) \/ Save(r)
      PROVE  Owned'
  <2>1. up /\ task[r].at \in StrokeStages /\ UNCHANGED engaged
    BY <1>2 DEF Move, AppendReceipt, Save, At, StrokeStages
  <2>2. PICK t : /\ Continue(r, t) /\ t.at \in StrokeStages
                 /\ t.gated = task[r].gated /\ t.steps = task[r].steps
    BY <1>2 DEF Move, AppendReceipt, Save, Stroke, StrokeStages
  <2>3. \A v : Closes(task[r], v) => Closes(t, v)
    BY <2>1, <2>2 DEF Closes, StrokeStages
  <2> QED BY <2>1, <2>2, <2>3, OwnedKept
<1>3. ASSUME NEW r \in Requests, Write(r)
      PROVE  Owned'
  <2> DEFINE u == task[r]
             p == [at |-> "peak", valve |-> Moving(r)]
             t == Stroke("save", u.n + 1, u.steps, u.gated)
  <2>1. /\ up /\ UNCHANGED engaged /\ u.at = "write"
        /\ \/ Continue(r, t)
           \/ Continue(r, p) /\ u.gated
           \/ Continue(r, Idle) /\ ~u.gated
    BY <1>3 DEF Write, At
  <2>2. u.gated => Moving(r) = u.steps[1].valve
    <3>1. u.n \in 1 .. Len(u.steps) /\ (u.gated => Len(u.steps) = 1)
      BY <2>1 DEF StepsShaped, Shaped, StrokeStages
    <3>2. u.gated => u.n \in 1 .. 1
      BY <3>1
    <3>3. \A n \in 1 .. 1 : n = 1
      OBVIOUS
    <3>4. u.gated => u.n = 1
      BY <3>2, <3>3
    <3> QED BY <3>4 DEF Moving
  <2>3. /\ \A v : Closes(u, v) => Closes(t, v)
        /\ \A v : Closes(u, v) /\ u.gated => Closes(p, v)
        /\ \A v : Closes(u, v) => u.gated
    BY <2>1, <2>2 DEF Closes, Stroke, StrokeStages
  <2> HIDE DEF u, p, t
  <2> QED BY <2>1, <2>3, OwnedKept DEF u
<1>4. ASSUME NEW r \in Requests, RecordPeak(r)
      PROVE  Owned'
  <2> DEFINE t == [at |-> "release", valve |-> task[r].valve]
  <2>1. /\ up /\ task[r].at = "peak" /\ UNCHANGED engaged
        /\ Continue(r, t) \/ Continue(r, Idle)
    BY <1>4 DEF RecordPeak, At
  <2>2. Continue(r, t)
    BY <1>4, <2>1, Continued DEF AllAppended
  <2>3. \A v : Closes(task[r], v) => Closes(t, v)
    BY <2>1 DEF Closes, StrokeStages
  <2> HIDE DEF t
  <2> QED BY <2>1, <2>2, <2>3, OwnedKept
<1>5. ASSUME NEW r \in Requests, Release(r)
      PROVE  Owned'
  <2>1. task'[r] = Idle /\ \A q \in Requests : q # r => task'[q] = task[q]
    BY <1>5, Continued DEF Release
  <2>2. up /\ engaged' = engaged \ {task[r].valve} /\ task[r].at = "release"
    BY <1>5 DEF Release, At
  <2>3. ASSUME NEW v \in engaged'
        PROVE  \E q \in Requests : Closes(task'[q], v)
    <3>1. PICK q \in Requests : Closes(task[q], v)
      BY <2>2, <2>3 DEF Owned
    <3>2. q # r
      BY <2>2, <2>3, <3>1 DEF Closes, StrokeStages
    <3> QED BY <2>1, <3>1, <3>2
  <2> QED BY <2>3 DEF Owned, Closes
<1>6. ASSUME NEW r \in Requests, SwitchSave(r) \/ SwitchWrite(r)
      PROVE  Owned'
  <2>1. /\ up /\ UNCHANGED engaged /\ task[r].at \in {"switchSave", "switchWrite"}
        /\ \E t : Continue(r, t)
    BY <1>6 DEF SwitchSave, SwitchWrite, At
  <2>2. \A v : ~Closes(task[r], v)
    BY <2>1 DEF Closes, StrokeStages
  <2> QED BY <2>1, <2>2, OwnedKept
<1>7. CASE Crash
  BY <1>7 DEF Crash, Owned
<1>8. CASE Restart
  BY <1>8 DEF Restart, Owned
<1>9. \A r \in Requests : ~FailReceipt(r)
  BY DEF AllAppended
<1> QED BY <1>1, <1>2, <1>3, <1>4, <1>5, <1>6, <1>7, <1>8, <1>9 DEF Next, Stage

\* What the early returns of the close handler cost, and nothing else does: as
\* long as every append succeeds, a gate is engaged only while a close command
\* is under way, whatever requests and crashes interleave
\* (console/handlers.go, hammer/validate.go).
THEOREM GateReleased == Spec /\ [][AllAppended]_vars => []EngagedWhileClosing
<1>1. Init => Owned
  BY DEF Init, Owned
<1>2. IInv /\ Owned /\ [Next]_vars /\ [AllAppended]_vars => Owned'
  <2>1. ASSUME IInv, Owned, Next, AllAppended PROVE Owned'
    BY <2>1, OwnedStep DEF IInv
  <2>2. ASSUME Owned, UNCHANGED vars PROVE Owned'
    BY <2>2 DEF Owned, Closes, vars
  <2> QED BY <2>1, <2>2
<1>3. Owned => EngagedWhileClosing
  BY ClosingIs DEF Owned, EngagedWhileClosing
<1> QED BY <1>1, <1>2, <1>3, Invariance, PTL DEF Spec

=============================================================================
