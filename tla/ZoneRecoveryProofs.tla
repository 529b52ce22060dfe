------------------------- MODULE ZoneRecoveryProofs --------------------------
(***************************************************************************)
(* What ZoneRecovery guarantees for every number of valves, zones,         *)
(* goroutines, requests, starts and seconds.                               *)
(*                                                                         *)
(* The live file, while there is one, holds the last snapshot written, and *)
(* is removed only when the newest archive holds it too.  So a rotation    *)
(* may replace an archive of its own second, fail to remove the live file, *)
(* or be cut short by a crash and repeated, without losing that snapshot.  *)
(***************************************************************************)
EXTENDS ZoneRecovery, WellFoundedInduction, TLAPS

LastWriter == Max(Writers)

\* Nothing runs but in a process that serves.
Quiet == phase # "serve" => /\ cycle = Resting
                            /\ \A r \in Requests : task[r] = Idle

Counted == starts \in 1 .. MaxStarts /\ Writers \subseteq 1 .. starts

\* Nobody but one request is to attach v, to the zone v has; and if nobody is, v
\* is where it belongs.
Settled(v) ==
  /\ \A r \in Requests : task[r].at = "attach" /\ task[r].valve = v =>
       /\ task[r].to = zone[v]
       /\ \A q \in Requests : task[q].at = "attach" /\ task[q].valve = v => q = r
  /\ Attaching(v) \/ map[v] \in {zone[v], None}

\* So it is with every valve but those that a start, or two switches at a time,
\* left apart from the map.
AttachAlone == phase # "down" => \A v \in Valves \ apart : Settled(v)

\* What the cycle has sampled it will find in the map, or it has slipped.
SampledKept ==
  \A v \in Valves \ slipped : /\ Sampled(v) => map[v] # None
                              /\ cycle.at = "write" => cycle.snapshot[v] # None

\* The live file is the last snapshot, wherever the process stands.
LiveIsLast == live # NoSnapshot => Writers # {} /\ live = LastTaken

NewestIs(s) == Archived # {} /\ archives[NewestArchive] = s

\* The last snapshot is in the live file or is the newest archive.
NewestKept == Writers # {} => live = LastTaken \/ NewestIs(LastTaken)

\* A rotation under way has a file to rotate, and removes it once archived.
Rotating == /\ phase \in {"archive", "remove"} => live # NoSnapshot
            /\ phase = "remove" => NewestIs(live)

\* No archive bears a time to come, and what is archived was written.
ArchivesPast == /\ \A s \in Archived : s <= second
                /\ Archived # {} => Writers # {}

\* The newest archive is the last snapshot of the last writer but one.
Behind == \/ Archived = {}
          \/ \E n \in Writers : /\ n # LastWriter
                                /\ NewestIs(taken[n])
                                /\ \A m \in Writers : m > n => m = LastWriter

\* A start that has written has its snapshot in the live file, until a rotation
\* has archived that; a live file that is not of this start could not be removed.
Recent ==
  /\ phase \in {"archive", "remove"} => starts \notin Writers
  /\ phase = "serve" /\ ~unrotated =>
       /\ starts \in Writers => live # NoSnapshot
       /\ live # NoSnapshot => starts \in Writers \/ NewestIs(live)
  /\ Writers # {} /\ ~unrotated =>
       /\ phase = "serve" /\ starts \in Writers => Behind
       /\ \/ NewestIs(LastTaken)
          \/ live # NoSnapshot /\ Behind

IInv == /\ TypeOK
        /\ Quiet /\ Counted
        /\ AttachAlone
        /\ SampledKept /\ SnapshotsSampleable
        /\ LiveIsLast /\ Rotating /\ ArchivesPast /\ NewestKept
        /\ Recent

-----------------------------------------------------------------------------
(* The greatest of a bounded set of numbers.                               *)

LEMMA LessThan ==
  /\ IsWellFoundedOn(OpToRel(<, Nat), Nat)
  /\ \A x, y \in Nat : <<x, y>> \in OpToRel(<, Nat) <=> x < y
<1>1. IsWellFoundedOn(OpToRel(<, Nat), Nat)
  BY NatLessThanWellFounded
<1>2. \A x, y \in Nat : <<x, y>> \in OpToRel(<, Nat) <=> x < y
  BY DEF OpToRel
<1> QED BY <1>1, <1>2

LEMMA LeastIs ==
  ASSUME NEW T \in SUBSET Nat, T # {}
  PROVE  \E m \in T : \A y \in T : ~(y < m)
<1> DEFINE R == OpToRel(<, Nat)
<1>1. IsWellFoundedOn(R, Nat)
  BY LessThan
<1>2. \A x, y \in Nat : <<x, y>> \in R <=> x < y
  BY LessThan
<1> HIDE DEF R
<1>3. T \subseteq Nat
  OBVIOUS
<1>4. \E m \in T : \A y \in T : ~(<<y, m>> \in R)
  BY <1>1, <1>3, WFMin, Zenon
<1> QED BY <1>2, <1>4

LEMMA MaxIs ==
  ASSUME NEW n \in Nat, NEW S \in SUBSET (0 .. n), S # {}
  PROVE  Max(S) \in S /\ \A x \in S : x <= Max(S)
<1> DEFINE T == {k \in Nat : n - k \in S}
<1>1. PICK x \in S : TRUE
  OBVIOUS
<1>2. n - x \in Nat /\ n - (n - x) = x
  OBVIOUS
<1>3. T \in SUBSET Nat /\ T # {}
  BY <1>1, <1>2
<1>4. PICK m \in T : \A y \in T : ~(y < m)
  <2> HIDE DEF T
  <2> QED BY <1>3, LeastIs
<1>5. n - m \in S
  BY <1>4
<1>6. ASSUME NEW y \in S PROVE n - m >= y
  <2>1. n - y \in Nat /\ n - (n - y) = y
    OBVIOUS
  <2>2. n - y \in T
    BY <2>1
  <2>3. ~(n - y < m) /\ m \in Nat
    BY <1>4, <2>2
  <2> QED BY <2>1, <2>3
<1>7. \E z \in S : \A y \in S : z >= y
  BY <1>5, <1>6
<1>8. Max(S) \in S /\ \A y \in S : Max(S) >= y
  BY <1>7 DEF Max
<1> QED BY <1>8

-----------------------------------------------------------------------------
(* Types.                                                                  *)

LEMMA OrderIs ==
  /\ Len(Order) \in Nat \ {0} /\ DOMAIN Order = 1 .. Len(Order)
  /\ \A k \in 1 .. Len(Order) : Order[k] \in Valves
  /\ \A v \in Valves : \E k \in 1 .. Len(Order) : Order[k] = v
  /\ Order[1] \in Valves
BY OrderAssumption DEF Valves

LEMMA MapIsSnapshot ==
  ASSUME NEW m \in Maps
  PROVE  m \in Snapshots /\ m # NoSnapshot
<1>1. DOMAIN m # {}
  BY OrderIs DEF Maps
<1>2. DOMAIN NoSnapshot = {}
  BY DEF NoSnapshot
<1> QED BY <1>1, <1>2 DEF Snapshots

LEMMA TaskTypes ==
  /\ Idle \in Tasks
  /\ \A v \in Valves, z \in Zones : [at |-> "attach", valve |-> v, to |-> z] \in Tasks
  /\ \A v \in Valves : [at |-> "save", valve |-> v] \in Tasks
  /\ \A v \in Valves, z \in Zones \cup {None} :
       [at |-> "write", valve |-> v, record |-> z] \in Tasks
BY DEF Tasks, Idle

LEMMA TaskCarries ==
  ASSUME NEW t \in Tasks
  PROVE  /\ t.at \in {"attach", "save", "write"} => t.valve \in Valves
         /\ t.at = "attach" => t.to \in Zones
         /\ t.at = "write" => t.record \in Zones \cup {None}
BY DEF Tasks, Idle

LEMMA CycleTypes ==
  /\ Resting \in Cycles /\ [at |-> "snapshot"] \in Cycles
  /\ \A n \in DOMAIN Order, h \in BOOLEAN : [at |-> "sample", n |-> n, heard |-> h] \in Cycles
  /\ \A h \in BOOLEAN : [at |-> "evaluate", heard |-> h] \in Cycles
  /\ \A m \in Maps : [at |-> "write", snapshot |-> m] \in Cycles
BY DEF Cycles, Resting

LEMMA CycleCarries ==
  ASSUME NEW c \in Cycles
  PROVE  /\ c.at = "sample" => c.n \in DOMAIN Order
         /\ c.at = "write" => c.snapshot \in Maps
BY DEF Cycles

LEMMA Continued ==
  ASSUME TypeOK, NEW r \in Requests, NEW t, Continue(r, t)
  PROVE  /\ task'[r] = t /\ \A q \in Requests : q # r => task'[q] = task[q]
         /\ t \in Tasks => task' \in [Requests -> Tasks]
BY DEF TypeOK, Continue

LEMMA NewestIn ==
  ASSUME TypeOK, Archived # {}
  PROVE  /\ NewestArchive \in Archived /\ NewestArchive \in 0 .. MaxSecond
         /\ archives[NewestArchive] \in Maps
         /\ \A s \in Archived : s <= NewestArchive
<1>1. Archived \in SUBSET (0 .. MaxSecond)
  BY DEF Archived
<1>2. NewestArchive \in Archived /\ \A s \in Archived : s <= NewestArchive
  BY <1>1, MaxIs, BoundsAssumption DEF NewestArchive
<1>3. archives[NewestArchive] \in Snapshots /\ archives[NewestArchive] # NoSnapshot
  BY <1>1, <1>2 DEF Archived, TypeOK
<1> QED BY <1>1, <1>2, <1>3 DEF Snapshots

LEMMA RestoredType ==
  ASSUME TypeOK
  PROVE  RestoredMap \in Maps
<1>1. Latest \in Snapshots
  BY NewestIn DEF Latest, Snapshots, TypeOK
<1>2. BootMap \in Maps
  BY BootMapAssumption DEF Maps
<1> QED BY <1>1, <1>2 DEF RestoredMap, Snapshots

LEMMA InitInvariant == Init => IInv
<1> SUFFICES ASSUME Init PROVE IInv
  OBVIOUS
<1>1. BootMap \in Maps /\ NoSnapshot \in Snapshots
  BY BootMapAssumption DEF Maps, Snapshots
<1>2. TypeOK
  <2>1. /\ phase \in Phases
        /\ zone \in [Valves -> Zones \cup {None}] /\ file \in [Valves -> Zones \cup {None}]
        /\ map \in Maps /\ live \in Snapshots
    BY <1>1, BootZoneAssumption DEF Init, Phases
  <2>2. archives \in [0 .. MaxSecond -> Snapshots] /\ second \in 0 .. MaxSecond
    BY <1>1, BoundsAssumption DEF Init
  <2>3. cycle \in Cycles /\ task \in [Requests -> Tasks]
    BY TaskTypes, CycleTypes DEF Init
  <2>4. taken \in [1 .. MaxStarts -> Snapshots]
    BY <1>1 DEF Init
  <2>5. /\ requests \in Nat /\ starts \in Nat
        /\ apart \subseteq Valves /\ slipped \subseteq Valves /\ unrotated \in BOOLEAN
    BY DEF Init, Differing
  <2> QED BY <2>1, <2>2, <2>3, <2>4, <2>5 DEF TypeOK
<1>3. Quiet
  BY DEF Init, Quiet
<1>4. Writers = {} /\ Archived = {}
  BY DEF Init, Writers, Archived
<1>5. Counted
  BY <1>4, BoundsAssumption DEF Init, Counted
<1>6. AttachAlone
  <2>1. \A r \in Requests : task[r].at = "idle"
    BY DEF Init, Idle
  <2>2. \A v \in Valves \ apart : map[v] = zone[v]
    BY DEF Init, Differing
  <2> QED BY <2>1, <2>2 DEF AttachAlone, Settled
<1>7. SampledKept
  BY DEF Init, SampledKept, Sampled, Resting
<1>8. live = NoSnapshot /\ phase = "serve"
  BY DEF Init
<1>9. SnapshotsSampleable
  BY <1>4, <1>8 DEF SnapshotsSampleable
<1>10. LiveIsLast /\ Rotating /\ ArchivesPast /\ NewestKept /\ Recent
  BY <1>4, <1>8 DEF LiveIsLast, Rotating, ArchivesPast, NewestKept, Recent
<1> QED BY <1>2, <1>3, <1>5, <1>6, <1>7, <1>9, <1>10 DEF IInv

\* What a request changes as it begins.
LEMMA RequestIs ==
  ASSUME TypeOK, NEW r \in Requests, Request(r)
  PROVE  \/ \E v \in Valves, z \in Zones :
              /\ Begin(r, [at |-> "attach", valve |-> v, to |-> z])
              /\ zone' = [zone EXCEPT ![v] = z]
              /\ apart' = IF Attaching(v) THEN apart \cup {v} ELSE apart \ {v}
              /\ UNCHANGED <<map, slipped>>
         \/ \E v \in Valves :
              /\ Begin(r, Idle)
              /\ map' = [map EXCEPT ![v] = None]
              /\ slipped' = IF Sampled(v) THEN slipped \cup {v} ELSE slipped
              /\ UNCHANGED <<zone, apart>>
         \/ \E v \in Valves : /\ Begin(r, [at |-> "save", valve |-> v])
                              /\ UNCHANGED <<zone, map, apart, slipped>>
BY DEF Request, SwitchRequest, DetachRequest, StrokeRequest

LEMMA TypeStep ==
  ASSUME TypeOK, Counted, Next
  PROVE  TypeOK'
<1>1. ASSUME NEW r \in Requests, Request(r)
      PROVE  TypeOK'
  <2>1. PICK t \in Tasks : Begin(r, t)
    BY <1>1, RequestIs, TaskTypes
  <2>2. task' \in [Requests -> Tasks] /\ requests' \in Nat
    BY <2>1, Continued DEF Begin, TypeOK
  <2>3. /\ zone' \in [Valves -> Zones \cup {None}] /\ map' \in Maps
        /\ apart' \subseteq Valves /\ slipped' \subseteq Valves
    BY <1>1, RequestIs DEF TypeOK, Maps
  <2> QED BY <2>1, <2>2, <2>3 DEF Begin, TypeOK, disk
<1>2. ASSUME NEW r \in Requests, Attach(r)
      PROVE  TypeOK'
  <2>1. task[r].valve \in Valves /\ task[r].to \in Zones
    BY <1>2, TaskCarries DEF Attach, At, TypeOK
  <2>2. map' \in Maps
    BY <1>2, <2>1 DEF Attach, AttachZone, TypeOK, Maps
  <2>3. task' \in [Requests -> Tasks]
    BY <1>2, <2>1, Continued, TaskTypes DEF Attach
  <2> QED BY <1>2, <2>2, <2>3 DEF Attach, TypeOK, disk, bounds, history
<1>3. ASSUME NEW r \in Requests, Save(r)
      PROVE  TypeOK'
  <2>1. task[r].valve \in Valves /\ zone[task[r].valve] \in Zones \cup {None}
    BY <1>3, TaskCarries DEF Save, At, TypeOK
  <2>2. task' \in [Requests -> Tasks]
    BY <1>3, <2>1, Continued, TaskTypes DEF Save
  <2> QED BY <1>3, <2>2 DEF Save, TypeOK, disk, bounds, history
<1>4. ASSUME NEW r \in Requests, Write(r)
      PROVE  TypeOK'
  <2>1. task[r].valve \in Valves /\ task[r].record \in Zones \cup {None}
    BY <1>4, TaskCarries DEF Write, At, TypeOK
  <2>2. file' \in [Valves -> Zones \cup {None}]
    BY <1>4, <2>1 DEF Write, TypeOK
  <2>3. task' \in [Requests -> Tasks]
    BY <1>4, Continued, TaskTypes DEF Write
  <2> QED BY <1>4, <2>2, <2>3 DEF Write, TypeOK, bounds, history
<1>5. ASSUME NEW c \in Cycles, CycleContinues(c)
      PROVE  TypeOK'
  BY <1>5 DEF CycleContinues, TypeOK, disk, bounds, history
<1>6. ASSUME StartCycle \/ SampleValve \/ Evaluate \/ TakeSnapshot
      PROVE  TypeOK'
  <2>1. CASE StartCycle
    <3>1. 1 \in DOMAIN Order
      BY OrderIs
    <3>2. [at |-> "sample", n |-> 1, heard |-> FALSE] \in Cycles
      BY <3>1, CycleTypes
    <3> QED BY <1>5, <2>1, <3>2 DEF StartCycle
  <2>2. CASE SampleValve
    <3>1. cycle.n \in DOMAIN Order
      BY <2>2, CycleCarries DEF SampleValve, CycleAt, TypeOK
    <3> DEFINE n == cycle.n
               h == cycle.heard \/ map[Order[n]] = StationZone
    <3>2. n # Len(Order) => n + 1 \in DOMAIN Order
      BY <3>1, OrderIs
    <3>3. h \in BOOLEAN
      OBVIOUS
    <3>4. \/ CycleContinues([at |-> "evaluate", heard |-> h])
          \/ n # Len(Order) /\ CycleContinues([at |-> "sample", n |-> n + 1, heard |-> h])
      BY <2>2 DEF SampleValve
    <3> HIDE DEF n, h
    <3> QED BY <1>5, <3>2, <3>3, <3>4, CycleTypes
  <2>3. CASE Evaluate
    BY <1>5, <2>3, CycleTypes DEF Evaluate
  <2>4. CASE TakeSnapshot
    BY <1>5, <2>4, CycleTypes DEF TakeSnapshot, TypeOK
  <2> QED BY <1>6, <2>1, <2>2, <2>3, <2>4
<1>7. ASSUME WriteSnapshot
      PROVE  TypeOK'
  <2>1. cycle.snapshot \in Snapshots
    BY <1>7, CycleCarries, MapIsSnapshot DEF WriteSnapshot, CycleAt, TypeOK
  <2>2. live' \in Snapshots /\ taken' \in [1 .. MaxStarts -> Snapshots]
    BY <1>7, <2>1 DEF WriteSnapshot, SaveState, TypeOK
  <2> QED BY <1>7, <2>2, CycleTypes DEF WriteSnapshot, TypeOK, bounds
<1>8. ASSUME Ends
      PROVE  TypeOK'
  BY <1>8, TaskTypes, CycleTypes DEF Ends, TypeOK, Phases, disk, bounds, history
<1>9. ASSUME Start
      PROVE  TypeOK'
  <2>1. map' \in Maps /\ zone' \in [Valves -> Zones \cup {None}]
    BY <1>9, RestoredType DEF Start, RestoredZones, TypeOK
  <2>2. apart' \subseteq Valves /\ phase' \in Phases /\ starts' \in Nat
    BY <1>9 DEF Start, Differing, Phases, TypeOK
  <2> QED BY <1>9, <2>1, <2>2 DEF Start, TypeOK, disk
<1>10. ASSUME WriteArchive
       PROVE  TypeOK'
  <2>1. archives' \in [0 .. MaxSecond -> Snapshots]
    BY <1>10 DEF WriteArchive, ArchiveAs, TypeOK
  <2>2. phase' \in Phases /\ unrotated' \in BOOLEAN
    BY <1>10 DEF WriteArchive, Phases, TypeOK
  <2> QED BY <1>10, <2>1, <2>2 DEF WriteArchive, TypeOK, bounds
<1>11. ASSUME RemoveLive
       PROVE  TypeOK'
  BY <1>11 DEF RemoveLive, TypeOK, Phases, Snapshots, bounds, history
<1>12. ASSUME ClockTicks
       PROVE  TypeOK'
  <2>1. second' \in 0 .. MaxSecond
    BY <1>12, BoundsAssumption DEF ClockTicks, TypeOK
  <2> QED BY <1>12, <2>1 DEF ClockTicks, TypeOK, disk, history
<1> QED BY <1>1, <1>2, <1>3, <1>4, <1>6, <1>7, <1>8, <1>9, <1>10, <1>11, <1>12
        DEF Next, Stage, Cycle, SampleFails, EvaluateFails, Crash, Bootstrap

\* What no request changes.
LEMMA RequestKeeps ==
  ASSUME NEW r \in Requests, Request(r) \/ Stage(r)
  PROVE  /\ phase = "serve"
         /\ UNCHANGED <<phase, live, archives, cycle, second, starts, taken, unrotated>>
<1>1. CASE Request(r)
  BY <1>1 DEF Request, SwitchRequest, DetachRequest, StrokeRequest, Begin, At, disk
<1>2. CASE Attach(r)
  BY <1>2 DEF Attach, At, disk, bounds, history
<1>3. CASE Save(r)
  BY <1>3 DEF Save, At, disk, bounds, history
<1>4. CASE Write(r)
  BY <1>4 DEF Write, At, bounds, history
<1> QED BY <1>1, <1>2, <1>3, <1>4 DEF Stage

LEMMA QuietStep ==
  ASSUME TypeOK, Quiet, Next
  PROVE  Quiet'
<1>1. ASSUME NEW r \in Requests, Request(r) \/ Stage(r)
      PROVE  Quiet'
  BY <1>1, RequestKeeps DEF Quiet
<1>2. CASE Ends
  BY <1>2 DEF Ends, Quiet
<1>3. CASE StartCycle \/ SampleValve \/ Evaluate \/ TakeSnapshot \/ WriteSnapshot
  BY <1>3 DEF StartCycle, SampleValve, Evaluate, TakeSnapshot, WriteSnapshot,
              CycleAt, CycleContinues, Quiet
<1>4. CASE Bootstrap
  BY <1>4 DEF Bootstrap, Start, WriteArchive, RemoveLive, Quiet
<1>5. CASE ClockTicks
  BY <1>5 DEF ClockTicks, Quiet
<1> QED BY <1>1, <1>2, <1>3, <1>4, <1>5
        DEF Next, Cycle, SampleFails, EvaluateFails, Crash

-----------------------------------------------------------------------------
(* The snapshots written and where they are.                               *)

Disk == /\ Counted
        /\ LiveIsLast /\ Rotating /\ ArchivesPast /\ NewestKept
        /\ Recent

DiskSame == UNCHANGED <<live, archives, second, starts, taken, unrotated>>

LEMMA DiskCases ==
  ASSUME Next
  PROVE  \/ phase = "serve" /\ UNCHANGED phase /\ DiskSame
         \/ phase' = "down" /\ DiskSame
         \/ WriteSnapshot \/ Start \/ WriteArchive \/ RemoveLive \/ ClockTicks
<1>1. ASSUME NEW r \in Requests, Request(r) \/ Stage(r)
      PROVE  phase = "serve" /\ UNCHANGED phase /\ DiskSame
  BY <1>1, RequestKeeps DEF DiskSame
<1>2. CASE Ends
  BY <1>2 DEF Ends, DiskSame, disk, bounds, history
<1>3. CASE StartCycle \/ SampleValve \/ Evaluate \/ TakeSnapshot
  BY <1>3 DEF StartCycle, SampleValve, Evaluate, TakeSnapshot, CycleAt, CycleContinues,
              DiskSame, disk, bounds, history
<1> QED BY <1>1, <1>2, <1>3
        DEF Next, Cycle, SampleFails, EvaluateFails, Crash, Bootstrap

LEMMA MaxEquals ==
  ASSUME NEW n \in Nat, NEW S \in SUBSET (0 .. n), NEW m \in S, \A x \in S : x <= m
  PROVE  Max(S) = m
<1> DEFINE k == Max(S)
<1>1. k \in S /\ \A x \in S : x <= k
  BY MaxIs
<1> HIDE DEF k
<1>2. m \in 0 .. n /\ k \in 0 .. n
  BY <1>1
<1>3. m <= k /\ k <= m
  BY <1>1
<1>4. k = m
  BY <1>2, <1>3
<1> QED BY <1>4 DEF k

LEMMA WritersAre ==
  ASSUME TypeOK, Counted
  PROVE  /\ Writers \in SUBSET (0 .. MaxStarts) /\ MaxStarts \in Nat
         /\ Writers # {} => /\ LastWriter \in Writers
                            /\ \A n \in Writers : n <= LastWriter
                            /\ LastTaken = taken[LastWriter]
         /\ starts \in Writers => LastWriter = starts
<1>1. Writers \in SUBSET (0 .. MaxStarts) /\ MaxStarts \in Nat
  BY BoundsAssumption DEF Writers
<1>2. Writers # {} => LastWriter \in Writers /\ \A n \in Writers : n <= LastWriter
  BY <1>1, MaxIs DEF LastWriter
<1>3. starts \in Writers => LastWriter = starts
  <2>1. \A n \in Writers : n <= starts
    BY DEF Counted
  <2> QED BY <1>1, <2>1, MaxEquals DEF LastWriter
<1> QED BY <1>1, <1>2, <1>3 DEF LastTaken, LastWriter

LEMMA SnapshotWritten ==
  ASSUME TypeOK, Counted, WriteSnapshot
  PROVE  /\ Writers' = Writers \cup {starts} /\ LastWriter' = starts
         /\ live' # NoSnapshot /\ live' = LastTaken'
         /\ \A n \in Writers : n # starts => taken'[n] = taken[n]
         /\ \A n \in Writers : n <= starts
         /\ phase = "serve" /\ UNCHANGED <<phase, archives, second, starts, unrotated>>
<1>1. /\ live' = cycle.snapshot /\ taken' = [taken EXCEPT ![starts] = cycle.snapshot]
      /\ cycle.snapshot # NoSnapshot
      /\ phase = "serve" /\ UNCHANGED <<phase, archives, second, starts, unrotated>>
  BY CycleCarries, MapIsSnapshot DEF WriteSnapshot, SaveState, CycleAt, TypeOK, bounds
<1>2. starts \in 1 .. MaxStarts /\ \A n \in Writers : n <= starts
  BY DEF Counted
<1>3. Writers' = Writers \cup {starts}
  BY <1>1, <1>2 DEF Writers, TypeOK
<1>4. Max(Writers \cup {starts}) = starts
  <2> DEFINE S == Writers \cup {starts}
  <2>1. S \in SUBSET (0 .. MaxStarts) /\ MaxStarts \in Nat
    BY <1>2, WritersAre
  <2>2. starts \in S /\ \A n \in S : n <= starts
    BY <1>2
  <2> HIDE DEF S
  <2>3. Max(S) = starts
    BY <2>1, <2>2, MaxEquals
  <2> QED BY <2>3 DEF S
<1>5. taken'[starts] = live' /\ \A n \in Writers : n # starts => taken'[n] = taken[n]
  BY <1>1, <1>2 DEF TypeOK, Writers
<1>6. LastWriter' = starts /\ LastTaken' = taken'[starts]
  BY <1>3, <1>4 DEF LastWriter, LastTaken
<1> QED BY <1>1, <1>2, <1>3, <1>5, <1>6

LEMMA ArchiveWritten ==
  ASSUME TypeOK, ArchivesPast, live # NoSnapshot, ArchiveAs(second)
  PROVE  /\ Archived' = Archived \cup {second} /\ NewestArchive' = second
         /\ archives'[second] = live
<1>1. archives' = [archives EXCEPT ![second] = live] /\ second \in 0 .. MaxSecond
  BY DEF ArchiveAs, TypeOK
<1>2. Archived' = Archived \cup {second} /\ archives'[second] = live
  BY <1>1 DEF Archived, TypeOK
<1> DEFINE S == Archived \cup {second}
<1>3. S \in SUBSET (0 .. MaxSecond) /\ MaxSecond \in Nat
  BY <1>1, BoundsAssumption DEF Archived
<1>4. second \in S /\ \A s \in S : s <= second
  BY <1>1 DEF ArchivesPast
<1> HIDE DEF S
<1>5. Max(S) = second
  BY <1>3, <1>4, MaxEquals
<1>6. NewestArchive' = Max(Archived')
  BY DEF NewestArchive
<1> QED BY <1>2, <1>5, <1>6 DEF S

\* What is made of the snapshots and archives alone stays while they stay.
LEMMA TakenSame ==
  ASSUME UNCHANGED taken
  PROVE  UNCHANGED <<Writers, LastWriter, LastTaken>>
BY DEF Writers, LastWriter, LastTaken

LEMMA ArchivesSame ==
  ASSUME UNCHANGED archives
  PROVE  UNCHANGED <<Archived, NewestArchive>>
BY DEF Archived, NewestArchive

LEMMA KeptAlso ==
  ASSUME TypeOK, NewestIs(LastTaken)
  PROVE  LastTaken \in {live} \cup {archives[k] : k \in Archived}
BY NewestIn DEF NewestIs

LEMMA DiskStep ==
  ASSUME TypeOK, Disk, Next
  PROVE  Disk'
<1>1. CASE phase = "serve" /\ UNCHANGED phase /\ DiskSame
  BY <1>1, TakenSame, ArchivesSame
     DEF Disk, DiskSame, Counted, LiveIsLast, Rotating, ArchivesPast, NewestKept,
         Recent, NewestIs, Behind
<1>2. CASE phase' = "down" /\ DiskSame
  <2> USE <1>2, TakenSame, ArchivesSame DEF Disk, DiskSame
  <2>1. Counted' /\ LiveIsLast' /\ Rotating' /\ ArchivesPast' /\ NewestKept'
    BY DEF Counted, LiveIsLast, Rotating, ArchivesPast, NewestKept, NewestIs
  <2>2. Recent'
    BY DEF Recent, NewestIs, Behind
  <2> QED BY <2>1, <2>2
<1>3. CASE WriteSnapshot
  <2>1. /\ Writers' = Writers \cup {starts} /\ LastWriter' = starts
        /\ live' # NoSnapshot /\ live' = LastTaken'
        /\ \A n \in Writers : n # starts => taken'[n] = taken[n]
        /\ \A n \in Writers : n <= starts
        /\ phase = "serve" /\ UNCHANGED <<phase, archives, second, starts, unrotated>>
    BY <1>3, SnapshotWritten DEF Disk
  <2>2. UNCHANGED <<Archived, NewestArchive>>
    BY <2>1, ArchivesSame
  <2>3. starts \in Nat /\ Writers \subseteq Nat
    BY DEF Disk, Counted
  <2>4. Counted'
    BY <2>1, <2>3 DEF Disk, Counted
  <2>5. LiveIsLast' /\ Rotating' /\ ArchivesPast' /\ NewestKept'
    BY <2>1, <2>2 DEF Disk, LiveIsLast, Rotating, ArchivesPast, NewestKept
  <2>6. ASSUME ~unrotated PROVE Behind'
    <3>1. CASE Archived = {}
      BY <2>2, <3>1 DEF Behind
    <3>2. CASE starts \in Writers /\ Archived # {}
      <4>1. Writers # {} /\ LastWriter = starts
        BY <3>2, WritersAre DEF Disk
      <4>2. PICK n \in Writers : /\ n # LastWriter /\ NewestIs(taken[n])
                                 /\ \A m \in Writers : m > n => m = LastWriter
        BY <2>1, <2>6, <3>2, <4>1 DEF Disk, Recent, Behind
      <4>3. NewestIs(taken[n])'
        BY <2>1, <2>2, <4>1, <4>2 DEF NewestIs
      <4>4. \A m \in Writers' : m > n => m = LastWriter'
        BY <2>1, <4>1, <4>2
      <4>5. n \in Writers' /\ n # LastWriter'
        BY <2>1, <4>1, <4>2
      <4> QED BY <4>3, <4>4, <4>5 DEF Behind
    <3>3. CASE starts \notin Writers /\ Archived # {}
      <4>1. /\ Writers # {} /\ (live = NoSnapshot \/ NewestIs(live))
            /\ live # NoSnapshot => live = LastTaken
        BY <2>1, <2>6, <3>3 DEF Disk, Recent, ArchivesPast, LiveIsLast
      <4>2. NewestIs(LastTaken) /\ LastTaken = taken[LastWriter] /\ LastWriter \in Writers
            /\ \A n \in Writers : n <= LastWriter
        BY <2>6, <4>1, WritersAre DEF Disk, Recent
      <4> DEFINE n == LastWriter
      <4>3. n \in Writers' /\ n # starts /\ taken'[n] = taken[n]
        BY <2>1, <3>3, <4>2
      <4>4. NewestIs(taken[n]) /\ \A m \in Writers : m <= n
        BY <4>2
      <4> HIDE DEF n
      <4>5. Archived' # {} /\ archives'[NewestArchive'] = taken'[n]
        BY <2>1, <2>2, <4>3, <4>4 DEF NewestIs
      <4>6. \A m \in Writers' : m > n => m = starts
        <5>1. n \in Nat /\ \A m \in Writers : m \in Nat
          BY <2>1, <2>3, <4>2, <4>3, <4>4 DEF n
        <5>2. \A m \in Writers : ~(m > n)
          <6> SUFFICES ASSUME NEW m \in Writers PROVE ~(m > n)
            OBVIOUS
          <6>1. m \in Nat /\ n \in Nat /\ m <= n
            BY <4>4, <5>1
          <6> QED BY <6>1
        <5>3. \A m \in Writers' : m \in Writers \/ m = starts
          BY <2>1
        <5> QED BY <5>2, <5>3
      <4> QED BY <2>1, <4>3, <4>5, <4>6 DEF Behind, NewestIs
    <3> QED BY <3>1, <3>2, <3>3
  <2>7. Recent'
    BY <2>1, <2>6 DEF Recent
  <2> QED BY <2>4, <2>5, <2>7 DEF Disk
<1>4. CASE Start
  <2>1. /\ starts' = starts + 1 /\ starts < MaxStarts
        /\ UNCHANGED <<live, archives, taken, second, unrotated>>
        /\ phase' = IF live = NoSnapshot THEN "serve" ELSE "archive"
    BY <1>4 DEF Start, disk
  <2>2. UNCHANGED <<Writers, LastWriter, LastTaken, Archived, NewestArchive>>
    BY <2>1, TakenSame, ArchivesSame
  <2>3. Counted' /\ starts' \notin Writers'
    <3>1. starts' \in 1 .. MaxStarts /\ Writers \subseteq 1 .. starts
      BY <2>1, BoundsAssumption DEF Disk, Counted
    <3>2. \A n \in 1 .. starts : n \in 1 .. starts + 1 /\ n # starts + 1
      BY DEF Disk, Counted
    <3>3. Writers' \subseteq 1 .. starts' /\ starts' \notin Writers'
      BY <2>1, <2>2, <3>1, <3>2
    <3> QED BY <3>1, <3>3 DEF Counted
  <2>4. LiveIsLast' /\ Rotating' /\ ArchivesPast' /\ NewestKept'
    BY <2>1, <2>2 DEF Disk, LiveIsLast, Rotating, ArchivesPast, NewestKept, NewestIs
  <2>5. Recent'
    BY <2>1, <2>2, <2>3 DEF Disk, Recent, NewestIs, Behind
  <2> QED BY <2>3, <2>4, <2>5 DEF Disk
<1>5. CASE WriteArchive
  <2>1. /\ UNCHANGED <<live, taken, second, starts>> /\ phase = "archive"
        /\ live # NoSnapshot
    BY <1>5 DEF WriteArchive, Disk, Rotating, bounds
  <2>2. UNCHANGED <<Writers, LastWriter, LastTaken>>
    BY <2>1, TakenSame
  <2>3. live = LastTaken /\ Writers # {} /\ Counted' /\ starts \notin Writers
    BY <2>1, <2>2 DEF Disk, LiveIsLast, Counted, Recent
  <2>4. CASE ArchiveAs(second) /\ phase' = "remove" /\ UNCHANGED unrotated
    <3>1. /\ Archived' = Archived \cup {second} /\ NewestArchive' = second
          /\ archives'[second] = live
      BY <2>1, <2>4, ArchiveWritten DEF Disk
    <3>2. NewestIs(live)' /\ NewestIs(LastTaken)'
      BY <2>1, <2>2, <2>3, <3>1 DEF NewestIs
    <3>3. LiveIsLast' /\ Rotating' /\ NewestKept'
      BY <2>1, <2>2, <2>3, <3>2 DEF LiveIsLast, Rotating, NewestKept
    <3>4. ArchivesPast'
      <4>1. second <= second
        BY DEF TypeOK
      <4> QED BY <2>1, <2>2, <2>3, <3>1, <4>1 DEF Disk, ArchivesPast
    <3>5. Recent'
      BY <2>1, <2>2, <2>3, <2>4, <3>2 DEF Recent
    <3> QED BY <2>3, <3>3, <3>4, <3>5 DEF Disk
  <2>5. CASE phase' = "serve" /\ unrotated' /\ UNCHANGED archives
    <3>1. UNCHANGED <<Archived, NewestArchive>>
      BY <2>5, ArchivesSame
    <3>2. LiveIsLast' /\ Rotating' /\ ArchivesPast' /\ NewestKept'
      BY <2>1, <2>2, <2>5, <3>1 DEF Disk, LiveIsLast, Rotating, ArchivesPast,
                                     NewestKept
    <3>3. Recent'
      BY <2>5 DEF Recent
    <3> QED BY <2>3, <3>2, <3>3 DEF Disk
  <2> QED BY <1>5, <2>4, <2>5 DEF WriteArchive
<1>6. CASE RemoveLive
  <2>1. /\ UNCHANGED <<archives, taken, second, starts, unrotated>>
        /\ phase = "remove" /\ phase' = "serve" /\ live' \in {live, NoSnapshot}
        /\ live # NoSnapshot /\ NewestIs(live)
    BY <1>6 DEF RemoveLive, Disk, Rotating, bounds, history
  <2>2. UNCHANGED <<Writers, LastWriter, LastTaken, Archived, NewestArchive>>
    BY <2>1, TakenSame, ArchivesSame
  <2>3. live = LastTaken /\ Writers # {} /\ starts \notin Writers
    BY <2>1 DEF Disk, LiveIsLast, Recent
  <2>4. /\ NewestIs(LastTaken) /\ NewestIs(LastTaken)'
        /\ live' # NoSnapshot => live' = LastTaken' /\ NewestIs(live)'
    BY <2>1, <2>2, <2>3 DEF NewestIs
  <2>5. Counted' /\ LiveIsLast' /\ Rotating' /\ ArchivesPast' /\ NewestKept'
    BY <2>1, <2>2, <2>4 DEF Disk, Counted, LiveIsLast, Rotating, ArchivesPast,
                            NewestKept
  <2>6. Recent'
    <3>1. Writers' = Writers /\ starts' = starts /\ starts' \notin Writers'
      BY <2>1, <2>2, <2>3
    <3> QED BY <2>1, <2>4, <3>1 DEF Recent
  <2> QED BY <2>5, <2>6 DEF Disk
<1>7. CASE ClockTicks
  <2>1. /\ UNCHANGED <<phase, live, archives, starts, taken, unrotated>>
        /\ second' = second + 1
    BY <1>7 DEF ClockTicks, disk, history
  <2>2. UNCHANGED <<Writers, LastWriter, LastTaken, Archived, NewestArchive>>
    BY <2>1, TakenSame, ArchivesSame
  <2>3. ArchivesPast'
    <3>1. \A s \in Archived : s \in Int /\ s <= second
      BY DEF Disk, ArchivesPast, Archived
    <3>2. \A s \in Archived : s <= second + 1
      BY <3>1 DEF TypeOK
    <3> QED BY <2>1, <2>2, <3>2 DEF Disk, ArchivesPast
  <2>4. Counted' /\ LiveIsLast' /\ Rotating' /\ NewestKept'
    BY <2>1, <2>2 DEF Disk, Counted, LiveIsLast, Rotating, NewestKept, NewestIs
  <2>5. Recent'
    BY <2>1, <2>2 DEF Disk, Recent, NewestIs, Behind
  <2> QED BY <2>3, <2>4, <2>5 DEF Disk
<1> QED BY <1>1, <1>2, <1>3, <1>4, <1>5, <1>6, <1>7, DiskCases

-----------------------------------------------------------------------------
(* The zone of a valve and its entry in the map.                           *)

LEMMA SettledKept ==
  ASSUME TypeOK, NEW v \in Valves, Settled(v),
         NEW r \in Requests, NEW t, Continue(r, t),
         ~(task[r].at = "attach" /\ task[r].valve = v),
         ~(t.at = "attach" /\ t.valve = v),
         zone'[v] = zone[v], map'[v] \in {map[v], None}
  PROVE  Settled(v)'
<1>1. task'[r] = t /\ \A q \in Requests : q # r => task'[q] = task[q]
  BY Continued
<1>2. \A q \in Requests :
        task'[q].at = "attach" /\ task'[q].valve = v <=>
        task[q].at = "attach" /\ task[q].valve = v
  BY <1>1
<1>3. Attaching(v)' <=> Attaching(v)
  BY <1>2 DEF Attaching
<1>4. ASSUME NEW q \in Requests, task'[q].at = "attach", task'[q].valve = v
      PROVE  /\ task'[q].to = zone'[v]
             /\ \A p \in Requests : task'[p].at = "attach" /\ task'[p].valve = v => p = q
  BY <1>1, <1>2, <1>4 DEF Settled
<1> QED BY <1>3, <1>4 DEF Settled

LEMMA AttachStep ==
  ASSUME TypeOK, Quiet, AttachAlone, Next
  PROVE  AttachAlone'
<1> SUFFICES ASSUME phase' # "down", NEW v \in Valves, v \notin apart'
             PROVE  Settled(v)'
  BY DEF AttachAlone, Settled, Attaching
<1>1. ASSUME NEW r \in Requests, Request(r)
      PROVE  Settled(v)'
  <2>1. task[r].at = "idle" /\ phase = "serve"
    BY <1>1, RequestIs DEF Begin, At
  <2>2. CASE \E w \in Valves, z \in Zones :
               /\ Begin(r, [at |-> "attach", valve |-> w, to |-> z])
               /\ zone' = [zone EXCEPT ![w] = z]
               /\ apart' = IF Attaching(w) THEN apart \cup {w} ELSE apart \ {w}
               /\ UNCHANGED <<map, slipped>>
    <3>1. PICK w \in Valves, z \in Zones :
               /\ Begin(r, [at |-> "attach", valve |-> w, to |-> z])
               /\ zone' = [zone EXCEPT ![w] = z]
               /\ apart' = IF Attaching(w) THEN apart \cup {w} ELSE apart \ {w}
               /\ UNCHANGED <<map, slipped>>
      BY <2>2
    <3> DEFINE t == [at |-> "attach", valve |-> w, to |-> z]
    <3>2. Continue(r, t) /\ t.valve = w /\ t.at = "attach" /\ t.to = z
      BY <3>1 DEF Begin
    <3> HIDE DEF t
    <3>3. CASE v = w
      <4>1. task'[r] = t /\ \A q \in Requests : q # r => task'[q] = task[q]
        BY <3>2, Continued
      <4>2. ~Attaching(v)
        BY <3>1, <3>3
      <4>3. \A q \in Requests : task'[q].at = "attach" /\ task'[q].valve = v <=> q = r
        BY <3>2, <3>3, <4>1, <4>2 DEF Attaching
      <4>4. zone'[v] = z
        BY <3>1, <3>3 DEF TypeOK
      <4>5. Attaching(v)'
        BY <4>3 DEF Attaching
      <4> QED BY <3>2, <4>1, <4>3, <4>4, <4>5 DEF Settled
    <3>4. CASE v # w
      <4>1. Settled(v) /\ zone'[v] = zone[v]
        BY <2>1, <3>1, <3>4 DEF AttachAlone, TypeOK
      <4> QED BY <2>1, <3>1, <3>2, <3>4, <4>1, SettledKept
    <3> QED BY <3>3, <3>4
  <2>3. CASE \E w \in Valves :
               /\ Begin(r, Idle)
               /\ map' = [map EXCEPT ![w] = None]
               /\ slipped' = IF Sampled(w) THEN slipped \cup {w} ELSE slipped
               /\ UNCHANGED <<zone, apart>>
    <3>1. /\ Continue(r, Idle) /\ UNCHANGED <<zone, apart>>
          /\ map'[v] \in {map[v], None}
      BY <2>3 DEF Begin, TypeOK, Maps
    <3>2. Settled(v) /\ Idle.at = "idle"
      BY <2>1, <3>1 DEF AttachAlone, Idle
    <3> QED BY <2>1, <3>1, <3>2, SettledKept
  <2>4. CASE \E w \in Valves : /\ Begin(r, [at |-> "save", valve |-> w])
                               /\ UNCHANGED <<zone, map, apart, slipped>>
    <3>1. PICK t : Continue(r, t) /\ t.at = "save" /\ UNCHANGED <<zone, map, apart>>
      BY <2>4 DEF Begin
    <3>2. Settled(v)
      BY <2>1, <3>1 DEF AttachAlone
    <3> QED BY <2>1, <3>1, <3>2, SettledKept
  <2> QED BY <1>1, <2>2, <2>3, <2>4, RequestIs
<1>2. ASSUME NEW r \in Requests, Attach(r)
      PROVE  Settled(v)'
  <2> DEFINE w == task[r].valve
             t == [at |-> "save", valve |-> w]
  <2>1. /\ task[r].at = "attach" /\ Continue(r, t) /\ UNCHANGED <<zone, apart>>
        /\ map' = [map EXCEPT ![w] = task[r].to] /\ w \in Valves
        /\ Settled(v)
    BY <1>2, TaskCarries DEF Attach, At, AttachZone, AttachAlone, history, TypeOK
  <2>2. t.at = "save"
    OBVIOUS
  <2> HIDE DEF t
  <2>3. CASE v = w
    <3>1. task'[r] = t /\ \A q \in Requests : q # r => task'[q] = task[q]
      BY <2>1, Continued
    <3>2. task[r].to = zone[v] /\ map'[v] = zone'[v]
      BY <2>1, <2>3 DEF Settled, TypeOK, Maps
    <3>3. \A q \in Requests : ~(task'[q].at = "attach" /\ task'[q].valve = v)
      BY <2>1, <2>2, <2>3, <3>1 DEF Settled
    <3> QED BY <3>2, <3>3 DEF Settled
  <2>4. CASE v # w
    <3>1. map'[v] = map[v]
      BY <2>1, <2>4 DEF TypeOK, Maps
    <3> QED BY <2>1, <2>2, <2>4, <3>1, SettledKept
  <2> QED BY <2>3, <2>4
<1>3. ASSUME NEW r \in Requests, Save(r) \/ Write(r)
      PROVE  Settled(v)'
  <2>1. /\ task[r].at \in {"save", "write"} /\ UNCHANGED <<zone, map, apart>>
        /\ Settled(v)
    BY <1>3 DEF Save, Write, At, AttachAlone, history
  <2>2. PICK t : Continue(r, t) /\ t.at \in {"write", "idle"}
    BY <1>3 DEF Save, Write, Idle
  <2> QED BY <2>1, <2>2, SettledKept
<1>4. CASE Ends
  BY <1>4 DEF Ends
<1>5. CASE StartCycle \/ SampleValve \/ Evaluate \/ TakeSnapshot \/ WriteSnapshot
  <2>1. UNCHANGED <<zone, map, apart, task, phase>>
    BY <1>5 DEF StartCycle, SampleValve, Evaluate, TakeSnapshot, WriteSnapshot,
                CycleContinues, history
  <2> QED BY <2>1 DEF AttachAlone, Settled, Attaching
<1>6. CASE Start
  <2>1. \A q \in Requests : task'[q].at = "idle"
    BY <1>6 DEF Start, Quiet, Idle
  <2>2. map'[v] = zone'[v]
    BY <1>6 DEF Start, Differing
  <2> QED BY <2>1, <2>2 DEF Settled
<1>7. CASE WriteArchive \/ RemoveLive \/ ClockTicks
  <2>1. UNCHANGED <<zone, map, apart, task>> /\ phase # "down"
    BY <1>7 DEF WriteArchive, RemoveLive, ClockTicks, history
  <2> QED BY <2>1 DEF AttachAlone, Settled, Attaching
<1> QED BY <1>1, <1>2, <1>3, <1>4, <1>5, <1>6, <1>7
        DEF Next, Stage, Cycle, SampleFails, EvaluateFails, Crash, Bootstrap

-----------------------------------------------------------------------------
(* What the cycle samples and what it writes down.                         *)

LEMMA SampledStep ==
  ASSUME TypeOK, Quiet, SampledKept, Next
  PROVE  SampledKept'
<1> SUFFICES ASSUME NEW v \in Valves, v \notin slipped'
             PROVE  /\ Sampled(v)' => map'[v] # None
                    /\ cycle'.at = "write" => cycle'.snapshot[v] # None
  BY DEF SampledKept
<1>1. ASSUME UNCHANGED cycle, v \notin slipped, Sampled(v) /\ map[v] # None => map'[v] # None
      PROVE  /\ Sampled(v)' => map'[v] # None
             /\ cycle'.at = "write" => cycle'.snapshot[v] # None
  BY <1>1 DEF SampledKept, Sampled
<1>2. ASSUME NEW r \in Requests, Request(r)
      PROVE  /\ UNCHANGED cycle /\ v \notin slipped
             /\ Sampled(v) => map'[v] = map[v]
  <2>1. UNCHANGED cycle
    BY <1>2, RequestKeeps
  <2>2. CASE UNCHANGED <<map, slipped>>
    BY <2>1, <2>2
  <2>3. CASE \E w \in Valves :
               /\ map' = [map EXCEPT ![w] = None]
               /\ slipped' = IF Sampled(w) THEN slipped \cup {w} ELSE slipped
    BY <2>1, <2>3 DEF TypeOK, Maps
  <2> QED BY <1>2, <2>2, <2>3, RequestIs
<1>3. ASSUME NEW r \in Requests, Attach(r)
      PROVE  /\ UNCHANGED cycle /\ v \notin slipped
             /\ map[v] # None => map'[v] # None
  <2>1. task[r].valve \in Valves /\ task[r].to # None
    BY <1>3, TaskCarries, NoneAssumption DEF Attach, At, TypeOK
  <2> QED BY <1>3, <2>1 DEF Attach, AttachZone, TypeOK, Maps, history
<1>4. ASSUME NEW r \in Requests, Save(r) \/ Write(r)
      PROVE  UNCHANGED <<cycle, map, slipped>>
  BY <1>4 DEF Save, Write, history
<1>5. CASE StartCycle
  <2>1. cycle' = [at |-> "sample", n |-> 1, heard |-> FALSE]
    BY <1>5 DEF StartCycle, CycleContinues
  <2>2. cycle'.at = "sample" /\ cycle'.n = 1
    BY <2>1
  <2> QED BY <2>2 DEF Sampled
<1>6. CASE SampleValve
  <2> DEFINE n == cycle.n
             h == cycle.heard \/ map[Order[n]] = StationZone
  <2>1. /\ cycle.at = "sample" /\ n \in 1 .. Len(Order) /\ map[Order[n]] # None
        /\ UNCHANGED <<map, slipped>>
        /\ \/ n = Len(Order) /\ cycle' = [at |-> "evaluate", heard |-> h]
           \/ n # Len(Order) /\ cycle' = [at |-> "sample", n |-> n + 1, heard |-> h]
    BY <1>6, CycleCarries, OrderIs DEF SampleValve, CycleAt, CycleContinues, Sampleable,
                                       TypeOK, history
  <2> HIDE DEF h
  <2>2. \/ cycle'.at = "evaluate" /\ n = Len(Order)
        \/ cycle'.at = "sample" /\ cycle'.n = n + 1
    BY <2>1
  <2>3. ASSUME NEW k \in 1 .. n, Order[k] = v PROVE map[v] # None
    <3>1. CASE k = n
      BY <2>1, <2>3, <3>1
    <3>2. CASE k # n
      <4>1. k \in 1 .. n - 1
        BY <2>1, <3>2
      <4>2. Sampled(v)
        BY <2>1, <2>3, <4>1 DEF Sampled
      <4> QED BY <2>1, <4>2 DEF SampledKept
    <3> QED BY <3>1, <3>2
  <2>4. Sampled(v)' => \E k \in 1 .. n : Order[k] = v
    <3>1. CASE cycle'.at = "evaluate" /\ n = Len(Order)
      BY <3>1, OrderIs
    <3>2. CASE cycle'.at = "sample" /\ cycle'.n = n + 1
      <4>1. (n + 1) - 1 = n
        BY <2>1
      <4> QED BY <3>2, <4>1 DEF Sampled
    <3> QED BY <2>2, <3>1, <3>2
  <2> QED BY <2>1, <2>2, <2>3, <2>4
<1>7. CASE Evaluate
  <2>1. /\ cycle.at = "evaluate" /\ cycle' = [at |-> "snapshot"]
        /\ UNCHANGED <<map, slipped>>
    BY <1>7 DEF Evaluate, CycleAt, CycleContinues, history
  <2> QED BY <2>1 DEF SampledKept, Sampled
<1>8. CASE TakeSnapshot
  <2>1. /\ cycle.at = "snapshot" /\ cycle' = [at |-> "write", snapshot |-> map]
        /\ UNCHANGED <<map, slipped>>
    BY <1>8 DEF TakeSnapshot, CycleAt, CycleContinues, history
  <2> QED BY <2>1 DEF SampledKept, Sampled
<1>9. CASE cycle' = Resting
  BY <1>9 DEF Resting, Sampled
<1>10. CASE WriteSnapshot \/ Ends
  BY <1>9, <1>10 DEF WriteSnapshot, Ends
<1>11. CASE Start
  BY <1>9, <1>11 DEF Start, Quiet
<1>12. CASE WriteArchive \/ RemoveLive \/ ClockTicks
  <2>1. UNCHANGED <<cycle, map, slipped>>
    BY <1>12 DEF WriteArchive, RemoveLive, ClockTicks, history
  <2> QED BY <1>1, <2>1
<1> QED BY <1>1, <1>2, <1>3, <1>4, <1>5, <1>6, <1>7, <1>8, <1>10, <1>11, <1>12
        DEF Next, Stage, Cycle, SampleFails, EvaluateFails, Crash, Bootstrap

\* The snapshots a restart may resume from stay, or are a live file that was
\* archived or the one the cycle has just written.
LEMMA SnapshotsCome ==
  ASSUME TypeOK, Next
  PROVE  /\ live' \in {live, NoSnapshot} \/ WriteSnapshot
         /\ \A k \in Archived' : \/ k \in Archived /\ archives'[k] = archives[k]
                                 \/ archives'[k] = live
         /\ slipped \subseteq slipped'
<1>1. ASSUME NEW r \in Requests, Request(r) \/ Stage(r)
      PROVE  UNCHANGED <<live, archives>> /\ slipped \subseteq slipped'
  <2>1. UNCHANGED <<live, archives>>
    BY <1>1, RequestKeeps
  <2>2. CASE Request(r)
    BY <2>1, <2>2, RequestIs
  <2>3. CASE Stage(r)
    BY <2>1, <2>3 DEF Stage, Attach, Save, Write, history
  <2> QED BY <1>1, <2>1, <2>2, <2>3
<1>2. CASE StartCycle \/ SampleValve \/ Evaluate \/ TakeSnapshot \/ Ends \/ Start \/ ClockTicks
  BY <1>2, ArchivesSame
     DEF StartCycle, SampleValve, Evaluate, TakeSnapshot, CycleContinues, Ends, Start,
         ClockTicks, disk, history
<1>3. CASE WriteSnapshot \/ RemoveLive
  BY <1>3, ArchivesSame DEF WriteSnapshot, RemoveLive, history
<1>4. CASE WriteArchive
  <2>1. UNCHANGED <<live, slipped>>
    BY <1>4 DEF WriteArchive
  <2>2. CASE UNCHANGED archives
    BY <2>1, <2>2, ArchivesSame
  <2>3. CASE archives' = [archives EXCEPT ![second] = live]
    <3>1. \A k \in 0 .. MaxSecond : archives'[k] = IF k = second THEN live ELSE archives[k]
      BY <2>3 DEF TypeOK
    <3> QED BY <2>1, <3>1 DEF Archived
  <2> QED BY <1>4, <2>2, <2>3 DEF WriteArchive, ArchiveAs
<1> QED BY <1>1, <1>2, <1>3, <1>4, ArchivesSame
        DEF Next, Cycle, SampleFails, EvaluateFails, Crash, Bootstrap

LEMMA SampleableStep ==
  ASSUME TypeOK, SampledKept, SnapshotsSampleable, Next
  PROVE  SnapshotsSampleable'
<1> SUFFICES ASSUME NEW v \in Valves, v \notin slipped',
                    NEW s, s # NoSnapshot,
                    s = live' \/ \E k \in Archived' : s = archives'[k]
             PROVE  s[v] # None
  BY DEF SnapshotsSampleable
<1>1. v \notin slipped
  BY SnapshotsCome
<1>2. CASE s = live \/ \E k \in Archived : s = archives[k]
  BY <1>1, <1>2 DEF SnapshotsSampleable
<1>3. CASE WriteSnapshot /\ s = live'
  BY <1>1, <1>3 DEF SampledKept, WriteSnapshot, SaveState, CycleAt
<1> QED BY <1>2, <1>3, SnapshotsCome

-----------------------------------------------------------------------------
(* The invariant and what follows from it.                                 *)

LEMMA StutterInvariant ==
  ASSUME IInv, UNCHANGED vars
  PROVE  IInv'
<1>1. /\ UNCHANGED <<phase, zone, map, file, live, archives, cycle, task, second>>
      /\ UNCHANGED <<requests, starts, taken, apart, slipped, unrotated>>
  BY DEF vars, disk, bounds, history
<1> USE <1>1, TakenSame, ArchivesSame DEF IInv
<1>2. TypeOK'
  BY DEF TypeOK
<1>3. Quiet' /\ Counted'
  BY DEF Quiet, Counted
<1>4. AttachAlone' /\ SampledKept'
  BY DEF AttachAlone, Settled, Attaching, SampledKept, Sampled
<1>5. SnapshotsSampleable'
  BY DEF SnapshotsSampleable
<1>6. LiveIsLast' /\ Rotating' /\ ArchivesPast' /\ NewestKept'
  BY DEF LiveIsLast, Rotating, NewestIs, ArchivesPast, NewestKept
<1>7. Recent'
  BY DEF Recent, NewestIs, Behind
<1> QED BY <1>2, <1>3, <1>4, <1>5, <1>6, <1>7

\* The inductive invariant: the live file is the last snapshot written, a
\* rotation removes it only once it is the newest archive, and what the cycle
\* has sampled has a zone.
THEOREM Invariance == Spec => []IInv
<1>1. Init => IInv
  BY InitInvariant
<1>2. IInv /\ [Next]_vars => IInv'
  <2>1. ASSUME IInv, Next PROVE IInv'
    BY <2>1, TypeStep, QuietStep, AttachStep, SampledStep, SampleableStep, DiskStep
       DEF IInv, Disk
  <2> QED BY <2>1, StutterInvariant
<1> QED BY <1>1, <1>2, PTL DEF Spec

\* The map, the snapshots and the state of the cycle keep their types: what is
\* restored is a map of every valve (console/api.go, store/snapshot.go).
THEOREM TypeCorrectness == Spec => []TypeOK
<1>1. IInv => TypeOK
  BY DEF IInv
<1> QED BY <1>1, Invariance, PTL

\* However requests interleave, a switch leaves a valve attributed to the zone it
\* isolates, until two switches of it overlap or a start builds or restores the two
\* apart (valve/zone.go, pressure/map.go, console/api.go).
THEOREM ZonesInStep == Spec => []ZonesAgree
<1>1. IInv => ZonesAgree
  BY DEF IInv, AttachAlone, Settled, ZonesAgree
<1> QED BY <1>1, Invariance, PTL

\* A snapshot a restart may resume from has every valve the cycle must sample,
\* except one detached after its own sample (pressure/sample.go).
THEOREM SnapshotsComplete == Spec => []SnapshotsSampleable
<1>1. IInv => SnapshotsSampleable
  BY DEF IInv
<1> QED BY <1>1, Invariance, PTL

\* Wherever a rotation is cut short, and whatever archive of the same second it
\* replaces, the last snapshot written is on the disk (store/snapshot.go).
THEOREM SnapshotNeverLost == Spec => []LastSnapshotKept
<1>1. IInv => LastSnapshotKept
  BY KeptAlso DEF IInv, NewestKept, LastSnapshotKept
<1> QED BY <1>1, Invariance, PTL

\* Unless an archive could not be written, a restart resumes from the last
\* snapshot of the last start that wrote one or of the one before
\* (store/snapshot.go).
THEOREM RestartIsRecent == Spec => []LatestIsRecent
<1>1. IInv => LatestIsRecent
  <2> SUFFICES ASSUME IInv, Writers # {}, ~unrotated
               PROVE  \E n \in Writers : /\ Latest = taken[n]
                                         /\ \A m, k \in Writers : m > n /\ k > n => m = k
    BY DEF LatestIsRecent
  <2>1. /\ LastWriter \in Writers /\ LastTaken = taken[LastWriter]
        /\ \A n \in Writers : n <= LastWriter
        /\ Writers \subseteq Nat
    BY WritersAre DEF IInv
  <2> DEFINE w == LastWriter
  <2>2. \A m, k \in Writers : m > w /\ k > w => m = k
    <3>1. w \in Nat /\ \A m \in Writers : m \in Nat /\ m <= w
      BY <2>1
    <3> HIDE DEF w
    <3> QED BY <3>1
  <2>3. CASE NewestIs(LastTaken)
    BY <2>1, <2>2, <2>3 DEF NewestIs, Latest
  <2>4. CASE live # NoSnapshot /\ Archived = {}
    <3>1. Latest = LastTaken
      BY <2>4 DEF Latest, IInv, LiveIsLast
    <3> QED BY <2>1, <2>2, <3>1
  <2>5. CASE live # NoSnapshot /\ Archived # {} /\ Behind
    <3>1. PICK n \in Writers : /\ NewestIs(taken[n])
                               /\ \A m \in Writers : m > n => m = LastWriter
      BY <2>5 DEF Behind
    <3>2. Latest = taken[n]
      BY <3>1 DEF Latest, NewestIs
    <3> QED BY <3>1, <3>2
  <2> QED BY <2>3, <2>4, <2>5 DEF IInv, Recent
<1> QED BY <1>1, Invariance, PTL

\* Why a restart may miss the latest snapshot, and the only reason: it is in
\* the live file, and an archive, of which Latest thinks first, hides it
\* (store/snapshot.go, console/api.go).
THEOREM OnlyArchiveHidesLatest ==
  Spec => [](Writers # {} /\ Latest # LastTaken => live = LastTaken /\ Archived # {})
<1>1. IInv => (Writers # {} /\ Latest # LastTaken => live = LastTaken /\ Archived # {})
  BY DEF IInv, NewestKept, LiveIsLast, Latest, NewestIs
<1> QED BY <1>1, Invariance, PTL

=============================================================================
