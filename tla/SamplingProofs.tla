--------------------------- MODULE SamplingProofs ---------------------------
(***************************************************************************)
(* What Sampling guarantees for every number of valves, zones, goroutines, *)
(* requests, days and restarts, and for every limit.                       *)
(*                                                                         *)
(* The quota of a zone is an account: what the ledger says and what earlier *)
(* windows took from it are the rows of this window and the units under    *)
(* way.  The excess over the limit is paid by samples that were under way  *)
(* when the window opened, each of which is spent once: as a row of its    *)
(* own or as a unit it gives back.                                         *)
(***************************************************************************)
EXTENDS Sampling, FiniteSetTheorems, TLAPS

\* A goroutine at t holds a unit of zone z that window o gave.
Holds(t, z, o) == t.at \in {"append", "release"} /\ t.zone = z /\ t.of = o

Holders(z, o) == {p \in Procs : Holds(task[p], z, o)}

\* A goroutine at t samples v for zone z.
Locates(t, v) == t.at \in {"consume", "append"} /\ t.valve = v

\* ... which is not the zone of v any more.
Strays(t, v) == Locates(t, v) /\ t.zone # map[v]

Astray(v) == {p \in Procs : Strays(task[p], v)}

UnderWay == {p \in Procs : task[p] # Idle}

\* A process that is down has no sample under way.
Quiet == ~up => UnderWay = {}

\* What UsageAccounted says, of one zone.
Balanced(z) == used[z] + robbed[z]
                 = (rows[z] - stray[z]) + Cardinality(Holders(z, "this"))

\* A sample under way when the window opened takes a row or a unit, not both.
SpentOnce(z) == stray[z] + robbed[z] + Cardinality(Holders(z, "earlier"))
                  <= carried[z]

\* A sample under way when its valve left the zone files one row, if any.
FiledOnce(v) == misfiled[v] + Cardinality(Astray(v)) <= caught[v]

Account == \A z \in Zones : /\ up => Balanced(z)
                            /\ SpentOnce(z)
                            /\ used[z] <= Limit
                            /\ stray[z] <= rows[z]
                            /\ rows[z] <= Limit + carried[z]

IInv == /\ TypeOK
        /\ IsFiniteSet(UnderWay)
        /\ Quiet
        /\ Account
        /\ \A v \in Valves : FiledOnce(v)

-----------------------------------------------------------------------------
(* Types.                                                                  *)

LEMMA TaskTypes ==
  /\ Idle \in Tasks
  /\ [at |-> "rollover"] \in Tasks
  /\ \A v \in Valves, n \in Nat :
       [at |-> "lookup", valve |-> v, left |-> n] \in Tasks
  /\ \A v \in Valves, n \in Nat, z \in Zones :
       [at |-> "consume", valve |-> v, left |-> n, zone |-> z] \in Tasks
  /\ \A v \in Valves, n \in Nat, z \in Zones, o \in {"this", "earlier"},
        s \in {"append", "release"} :
       [at |-> s, valve |-> v, left |-> n, zone |-> z, of |-> o] \in Tasks
BY DEF Tasks, Idle

\* What a goroutine carries at each stage.
LEMMA Carried ==
  ASSUME NEW t \in Tasks
  PROVE  /\ t.at \in {"lookup", "consume", "append", "release"}
              => t.valve \in Valves /\ t.left \in Nat
         /\ t.at \in {"consume", "append", "release"} => t.zone \in Zones
         /\ t.at \in {"append", "release"} => t.of \in {"this", "earlier"}
BY DEF Tasks, Idle

\* The unit of a sample is given back for the zone it was consumed from, and
\* an older window gave it once a new one is open.
LEMMA HeldUnit ==
  ASSUME NEW t \in Tasks
  PROVE  /\ t.at = "append" => [t EXCEPT !.at = "release"]
              = [at |-> "release", valve |-> t.valve, left |-> t.left,
                 zone |-> t.zone, of |-> t.of]
         /\ t.at \in {"append", "release"} => [t EXCEPT !.of = "earlier"]
              = [at |-> t.at, valve |-> t.valve, left |-> t.left,
                 zone |-> t.zone, of |-> "earlier"]
BY DEF Tasks, Idle

\* After a sample nothing is held: the next one begins, or the request ends.
LEMMA AfterSampleTypes ==
  ASSUME NEW p \in Procs, NEW t \in Tasks, t.at = "append"
  PROVE  /\ AfterSample(p, t) \in Tasks
         /\ AfterSample(p, t).at \in {"lookup", "idle"}
<1>1. t.valve \in Valves /\ t.left \in Nat
  BY Carried
<1>2. NextValve(t.valve) \in Tasks /\ NextValve(t.valve).at \in {"lookup", "idle"}
  <2> DEFINE k == CHOOSE k \in DOMAIN Order : Order[k] = t.valve
  <2>1. k + 1 \in DOMAIN Order => Order[k + 1] \in Valves
    BY OrderAssumption
  <2>2. NextValve(t.valve) =
          IF k + 1 \in DOMAIN Order
          THEN [at |-> "lookup", valve |-> Order[k + 1], left |-> 1] ELSE Idle
    BY DEF NextValve
  <2> HIDE DEF k
  <2> QED BY <2>1, <2>2, TaskTypes DEF Idle
<1>3. t.left > 1 => /\ NextReading(t) \in Tasks
                    /\ NextReading(t).at = "lookup"
  <2>1. t.left > 1 => t.left - 1 \in Nat
    BY <1>1
  <2> QED BY <1>1, <2>1, TaskTypes DEF NextReading
<1> QED BY <1>2, <1>3, TaskTypes DEF AfterSample, Idle

LEMMA FirstValve == Order[1] \in Valves
BY OrderAssumption

-----------------------------------------------------------------------------
(* Counting the samples under way.                                         *)

\* 1 if b, else 0.
Unit(b) == IF b THEN 1 ELSE 0

LEMMA UnderWayFinite ==
  ASSUME IsFiniteSet(UnderWay)
  PROVE  /\ \A S \in SUBSET UnderWay : IsFiniteSet(S) /\ Cardinality(S) \in Nat
         /\ \A z, o : Holders(z, o) \subseteq UnderWay
         /\ \A v : Astray(v) \subseteq UnderWay
<1>1. \A S \in SUBSET UnderWay : IsFiniteSet(S) /\ Cardinality(S) \in Nat
  BY FS_Subset, FS_CardinalityType
<1>2. \A z, o : Holders(z, o) \subseteq UnderWay
  BY DEF Holders, Holds, UnderWay, Idle
<1>3. \A v : Astray(v) \subseteq UnderWay
  BY DEF Astray, Strays, Locates, UnderWay, Idle
<1> QED BY <1>1, <1>2, <1>3

\* Both counts of all zones and valves are numbers.
LEMMA Counts ==
  ASSUME IsFiniteSet(UnderWay)
  PROVE  /\ \A z, o : /\ IsFiniteSet(Holders(z, o))
                      /\ Cardinality(Holders(z, o)) \in Nat
         /\ \A v : IsFiniteSet(Astray(v)) /\ Cardinality(Astray(v)) \in Nat
BY UnderWayFinite

LEMMA Continued ==
  ASSUME TypeOK, NEW p \in Procs, NEW t, Continue(p, t)
  PROVE  task'[p] = t /\ \A q \in Procs \ {p} : task'[q] = task[q]
BY DEF TypeOK, Continue

\* What is counted changes by one element at most when one goroutine goes on.
LEMMA OneMoves ==
  ASSUME NEW S, NEW T, NEW x, IsFiniteSet(S), Cardinality(S) \in Nat,
         T \in {S \cup {x}, S \ {x}}
  PROVE  /\ IsFiniteSet(T)
         /\ Cardinality(T) = (Cardinality(S) + Unit(x \in T)) - Unit(x \in S)
<1>1. CASE T = S \cup {x}
  <2>1. /\ IsFiniteSet(T)
        /\ Cardinality(T) = IF x \in S THEN Cardinality(S) ELSE Cardinality(S) + 1
    BY <1>1, FS_AddElement
  <2> QED BY <1>1, <2>1 DEF Unit
<1>2. CASE T = S \ {x}
  <2>1. /\ IsFiniteSet(T)
        /\ Cardinality(T) = IF x \in S THEN Cardinality(S) - 1 ELSE Cardinality(S)
    BY <1>2, FS_RemoveElement
  <2> QED BY <1>2, <2>1 DEF Unit
<1> QED BY <1>1, <1>2

LEMMA UnderWayMoves ==
  ASSUME TypeOK, IsFiniteSet(UnderWay), NEW p \in Procs, NEW t, Continue(p, t)
  PROVE  IsFiniteSet(UnderWay')
<1>1. UnderWay' \in {UnderWay \cup {p}, UnderWay \ {p}}
  BY Continued DEF UnderWay
<1> QED BY <1>1, FS_AddElement, FS_RemoveElement

LEMMA HoldersMove ==
  ASSUME TypeOK, IsFiniteSet(UnderWay), NEW p \in Procs, NEW t, Continue(p, t),
         NEW z, NEW o
  PROVE  Cardinality(Holders(z, o)')
           = (Cardinality(Holders(z, o)) + Unit(Holds(t, z, o)))
               - Unit(Holds(task[p], z, o))
<1>1. task'[p] = t /\ \A q \in Procs \ {p} : task'[q] = task[q]
  BY Continued
<1>2. /\ p \in Holders(z, o)' <=> Holds(t, z, o)
      /\ p \in Holders(z, o) <=> Holds(task[p], z, o)
      /\ Holders(z, o)' \in {Holders(z, o) \cup {p}, Holders(z, o) \ {p}}
  BY <1>1 DEF Holders, Holds
<1>3. IsFiniteSet(Holders(z, o)) /\ Cardinality(Holders(z, o)) \in Nat
  BY Counts
<1>4. Cardinality(Holders(z, o)')
        = (Cardinality(Holders(z, o)) + Unit(p \in Holders(z, o)'))
            - Unit(p \in Holders(z, o))
  BY <1>2, <1>3, OneMoves
<1> QED BY <1>2, <1>4 DEF Unit

LEMMA AstrayMove ==
  ASSUME TypeOK, IsFiniteSet(UnderWay), NEW p \in Procs, NEW t, Continue(p, t),
         UNCHANGED map, NEW v
  PROVE  Cardinality(Astray(v)')
           = (Cardinality(Astray(v)) + Unit(Strays(t, v))) - Unit(Strays(task[p], v))
<1>1. task'[p] = t /\ \A q \in Procs \ {p} : task'[q] = task[q]
  BY Continued
<1>2. /\ p \in Astray(v)' <=> Strays(t, v)
      /\ p \in Astray(v) <=> Strays(task[p], v)
      /\ Astray(v)' \in {Astray(v) \cup {p}, Astray(v) \ {p}}
  BY <1>1 DEF Astray, Strays, Locates
<1>3. IsFiniteSet(Astray(v)) /\ Cardinality(Astray(v)) \in Nat
  BY Counts
<1>4. Cardinality(Astray(v)')
        = (Cardinality(Astray(v)) + Unit(p \in Astray(v)')) - Unit(p \in Astray(v))
  BY <1>2, <1>3, OneMoves
<1> QED BY <1>2, <1>4 DEF Unit

\* Nothing is under way in a process that has ended.
LEMMA NoneUnderWay ==
  ASSUME \A p \in Procs : task'[p] = Idle
  PROVE  /\ UnderWay' = {} /\ IsFiniteSet(UnderWay')
         /\ \A z, o : Cardinality(Holders(z, o)') = 0
         /\ \A v : Cardinality(Astray(v)') = 0
<1>1. /\ UnderWay' = {}
      /\ \A z, o : Holders(z, o)' = {}
      /\ \A v : Astray(v)' = {}
  BY DEF UnderWay, Holders, Holds, Astray, Strays, Locates, Idle
<1> QED BY <1>1, FS_EmptySet

-----------------------------------------------------------------------------
(* Steps.                                                                  *)

LEMMA InitInvariant == Init => IInv
<1> SUFFICES ASSUME Init PROVE IInv
  OBVIOUS
<1>1. TypeOK
  BY BootMapAssumption, TaskTypes
  DEF Init, TypeOK, NoZone, NoValve, PerZone, PerValve
<1>2. /\ UnderWay = {} /\ \A z, o : Holders(z, o) = {} /\ \A v : Astray(v) = {}
  BY DEF Init, UnderWay, Holders, Holds, Astray, Strays, Locates, Idle
<1>3. /\ IsFiniteSet(UnderWay) /\ \A z, o : Cardinality(Holders(z, o)) = 0
      /\ \A v : Cardinality(Astray(v)) = 0
  BY <1>2, FS_EmptySet
<1>4. Account
  BY <1>3, LimitAssumption DEF Account, Balanced, SpentOnce, Init, NoZone
<1>5. \A v \in Valves : FiledOnce(v)
  BY <1>3 DEF FiledOnce, Init, NoValve
<1> QED BY <1>1, <1>2, <1>3, <1>4, <1>5 DEF IInv, Quiet

\* A step that touches no unit of quota leaves the account as it is.
LEMMA AccountFrame ==
  ASSUME Account, up \/ ~up', UNCHANGED <<used, charges>>,
         \A z \in Zones, o \in {"this", "earlier"} :
           Cardinality(Holders(z, o)') = Cardinality(Holders(z, o))
  PROVE  Account'
<1>1. \A z \in Zones : /\ Balanced(z) => Balanced(z)'
                       /\ SpentOnce(z) => SpentOnce(z)'
  BY DEF Balanced, SpentOnce, charges
<1> QED BY <1>1 DEF Account, charges

\* A process that ends gives up what its samples hold.
LEMMA AccountEnds ==
  ASSUME TypeOK, IsFiniteSet(UnderWay), Account, Ends, UNCHANGED <<used, charges>>
  PROVE  Account'
<1>1. \A z \in Zones : SpentOnce(z)'
  <2> SUFFICES ASSUME NEW z \in Zones PROVE SpentOnce(z)'
    OBVIOUS
  <2>1. Cardinality(Holders(z, "earlier")') = 0
    BY NoneUnderWay DEF Ends
  <2>2. Cardinality(Holders(z, "earlier")) \in Nat
    BY Counts
  <2> QED BY <2>1, <2>2 DEF Account, SpentOnce, charges, TypeOK, PerZone
<1> QED BY <1>1 DEF Account, Ends, charges

LEMMA FiledEnds ==
  ASSUME TypeOK, IsFiniteSet(UnderWay), \A v \in Valves : FiledOnce(v), Ends,
         UNCHANGED filing
  PROVE  \A v \in Valves : FiledOnce(v)'
<1> SUFFICES ASSUME NEW v \in Valves PROVE FiledOnce(v)'
  OBVIOUS
<1>1. Cardinality(Astray(v)') = 0
  BY NoneUnderWay DEF Ends
<1>2. Cardinality(Astray(v)) \in Nat
  BY Counts
<1> QED BY <1>1, <1>2 DEF FiledOnce, filing, TypeOK, PerValve

\* A goroutine that files nothing, and is not sent astray, leaves the filing.
LEMMA FiledFrame ==
  ASSUME TypeOK, IsFiniteSet(UnderWay), \A v \in Valves : FiledOnce(v),
         NEW p \in Procs, NEW t, Continue(p, t), UNCHANGED <<map, filing>>,
         \A v \in Valves : Strays(t, v) => Strays(task[p], v)
  PROVE  \A v \in Valves : FiledOnce(v)'
<1> SUFFICES ASSUME NEW v \in Valves PROVE FiledOnce(v)'
  OBVIOUS
<1>1. Cardinality(Astray(v)')
        = (Cardinality(Astray(v)) + Unit(Strays(t, v))) - Unit(Strays(task[p], v))
  BY AstrayMove
<1>2. Cardinality(Astray(v)) \in Nat
  BY Counts
<1>3. Cardinality(Astray(v)') <= Cardinality(Astray(v)) /\ Cardinality(Astray(v)') \in Int
  BY <1>1, <1>2 DEF Unit
<1> QED BY <1>2, <1>3 DEF FiledOnce, filing, TypeOK, PerValve

\* A goroutine that goes on with the units it has.
LEMMA PlainStep ==
  ASSUME IInv, up, NEW p \in Procs, NEW t \in Tasks, Continue(p, t),
         UNCHANGED <<up, map, ledger, charges, filing>>,
         today' \in Nat, requests' \in Nat, restarts' \in Nat,
         \A z \in Zones, o \in {"this", "earlier"} :
           Holds(t, z, o) <=> Holds(task[p], z, o),
         \A v \in Valves : Strays(t, v) => Strays(task[p], v)
  PROVE  IInv'
<1>1. TypeOK /\ IsFiniteSet(UnderWay) /\ Account /\ \A v \in Valves : FiledOnce(v)
  BY DEF IInv
<1>2. TypeOK'
  BY <1>1 DEF TypeOK, Continue, ledger, charges, filing
<1>3. IsFiniteSet(UnderWay')
  BY <1>1, UnderWayMoves
<1>4. \A z \in Zones, o \in {"this", "earlier"} :
        Cardinality(Holders(z, o)') = Cardinality(Holders(z, o))
  <2> SUFFICES ASSUME NEW z \in Zones, NEW o \in {"this", "earlier"}
               PROVE  Cardinality(Holders(z, o)') = Cardinality(Holders(z, o))
    OBVIOUS
  <2>1. Cardinality(Holders(z, o)')
          = (Cardinality(Holders(z, o)) + Unit(Holds(t, z, o)))
              - Unit(Holds(task[p], z, o))
    BY <1>1, HoldersMove
  <2>2. Cardinality(Holders(z, o)) \in Nat
    BY <1>1, Counts
  <2>3. Holds(t, z, o) <=> Holds(task[p], z, o)
    OBVIOUS
  <2> HIDE DEF Holds
  <2> QED BY <2>1, <2>2, <2>3 DEF Unit
<1>5. Account'
  BY <1>1, <1>4, AccountFrame DEF ledger
<1>6. \A v \in Valves : FiledOnce(v)'
  BY <1>1, FiledFrame
<1>7. Quiet'
  BY DEF Quiet
<1> QED BY <1>2, <1>3, <1>5, <1>6, <1>7 DEF IInv

LEMMA EndStep ==
  ASSUME IInv, Ends, UNCHANGED <<map, ledger, today, bounds, charges, filing>>
  PROVE  IInv'
<1>1. TypeOK /\ IsFiniteSet(UnderWay) /\ Account /\ \A v \in Valves : FiledOnce(v)
  BY DEF IInv
<1>2. TypeOK'
  BY <1>1, TaskTypes DEF TypeOK, Ends, ledger, bounds, charges, filing
<1>3. UnderWay' = {} /\ IsFiniteSet(UnderWay')
  BY NoneUnderWay DEF Ends
<1>4. Account' /\ \A v \in Valves : FiledOnce(v)'
  BY <1>1, AccountEnds, FiledEnds DEF ledger
<1> QED BY <1>2, <1>3, <1>4 DEF IInv, Quiet

\* A sample that fails without a unit of quota.
LEMMA FailStep ==
  ASSUME IInv, up, NEW p \in Procs, SampleFails(p), task[p].at \in {"lookup", "consume"},
         UNCHANGED <<map, ledger, today, bounds, charges, filing>>
  PROVE  IInv'
<1>1. CASE Continue(p, Idle) /\ UNCHANGED up
  <2>1. today \in Nat /\ requests \in Nat /\ restarts \in Nat
    BY DEF IInv, TypeOK
  <2>2. \A z \in Zones, o \in {"this", "earlier"} :
          ~Holds(Idle, z, o) /\ ~Holds(task[p], z, o)
    BY DEF Holds, Idle
  <2>3. \A v \in Valves : ~Strays(Idle, v)
    BY DEF Strays, Locates, Idle
  <2> QED BY <1>1, <2>1, <2>2, <2>3, TaskTypes, PlainStep DEF bounds
<1> QED BY <1>1, EndStep DEF SampleFails

LEMMA SampleRequestStep ==
  ASSUME IInv, NEW p \in Procs, SampleRequest(p)
  PROVE  IInv'
<1>1. PICK v \in Valves, n \in 1 .. MaxBatch :
             Begin(p, [at |-> "lookup", valve |-> v, left |-> n])
  BY DEF SampleRequest
<1> DEFINE t == [at |-> "lookup", valve |-> v, left |-> n]
<1>2. t \in Tasks /\ t.at = "lookup"
  BY TaskTypes
<1>3. /\ up /\ task[p].at = "idle" /\ Continue(p, t)
      /\ UNCHANGED <<up, map, ledger, charges, filing, today, restarts>>
      /\ requests' = requests + 1
  BY <1>1 DEF SampleRequest, Begin, At
<1>4. today' \in Nat /\ requests' \in Nat /\ restarts' \in Nat
  BY <1>3 DEF IInv, TypeOK
<1> HIDE DEF t
<1>5. /\ \A z, o : ~Holds(t, z, o) /\ ~Holds(task[p], z, o)
      /\ \A w : ~Strays(t, w)
  BY <1>2, <1>3 DEF Holds, Strays, Locates
<1> QED BY <1>2, <1>3, <1>4, <1>5, PlainStep

\* A valve that moves sends astray at most what is under way for it.
LEMMA ZoneRequestStep ==
  ASSUME IInv, NEW p \in Procs, ZoneRequest(p)
  PROVE  IInv'
<1>1. PICK v \in Valves, z \in Zones \cup {None} : Begin(p, Idle) /\ Reattribute(v, z)
  BY DEF ZoneRequest
<1>2. TypeOK /\ IsFiniteSet(UnderWay) /\ Account /\ \A w \in Valves : FiledOnce(w)
  BY DEF IInv
<1>3. /\ up /\ task[p].at = "idle" /\ requests' = requests + 1
      /\ UNCHANGED <<up, ledger, today, restarts, charges>>
      /\ \A q \in Procs : \/ task'[q] = task[q]
                          \/ task[q].at = "idle" /\ task'[q] = Idle
  BY <1>1, <1>2, Continued DEF Begin, At
<1>4. \A q \in Procs : task'[q].at = task[q].at
  BY <1>3 DEF Idle
<1>5. Located(v) \subseteq UnderWay
  BY DEF Located, UnderWay, Idle
<1>6. Cardinality(Located(v)) \in Nat /\ IsFiniteSet(Located(v))
  BY <1>2, <1>5, UnderWayFinite
<1>7. TypeOK'
  BY <1>1, <1>2, <1>3, <1>6, TaskTypes
  DEF TypeOK, Begin, Continue, Reattribute, ledger, charges, PerValve
<1>8. IsFiniteSet(UnderWay')
  BY <1>1, <1>2, UnderWayMoves DEF Begin
<1>9. \A y, o : Holders(y, o)' = Holders(y, o)
  BY <1>3, <1>4 DEF Holders, Holds
<1>10. Account'
  BY <1>2, <1>3, <1>9, AccountFrame DEF ledger
<1>11. ASSUME NEW w \in Valves PROVE FiledOnce(w)'
  <2>1. CASE w = v
    <3>1. Astray(v)' \subseteq Located(v)
      BY <1>3, <1>4 DEF Astray, Strays, Locates, Located
    <3>2. Cardinality(Astray(v)') <= Cardinality(Located(v))
          /\ Cardinality(Astray(v)') \in Nat
      BY <1>6, <3>1, FS_Subset, FS_CardinalityType
    <3>3. misfiled'[v] = 0 /\ caught'[v] = Cardinality(Located(v))
      BY <1>1, <1>2 DEF Reattribute, TypeOK, PerValve
    <3> QED BY <1>6, <2>1, <3>2, <3>3 DEF FiledOnce
  <2>2. CASE w # v
    <3>1. map'[w] = map[w] /\ misfiled'[w] = misfiled[w] /\ caught'[w] = caught[w]
      BY <1>1, <1>2, <2>2 DEF Reattribute, TypeOK, PerValve
    <3>2. Astray(w)' = Astray(w)
      BY <1>3, <1>4, <3>1 DEF Astray, Strays, Locates
    <3> QED BY <1>2, <3>1, <3>2 DEF FiledOnce
  <2> QED BY <2>1, <2>2
<1> QED BY <1>3, <1>7, <1>8, <1>10, <1>11 DEF IInv, Quiet

LEMMA LookupStep ==
  ASSUME IInv, NEW p \in Procs, Lookup(p)
  PROVE  IInv'
<1> DEFINE t == task[p]
           z == map[t.valve]
           c == [at |-> "consume", valve |-> t.valve, left |-> t.left, zone |-> z]
<1>1. /\ up /\ t.at = "lookup"
      /\ UNCHANGED <<map, ledger, today, bounds, charges, filing>>
  BY DEF Lookup, At
<1>2. CASE z # None /\ Continue(p, c) /\ UNCHANGED up
  <2>1. t \in Tasks /\ map \in [Valves -> Zones \cup {None}]
    BY DEF IInv, TypeOK
  <2>2. t.valve \in Valves /\ t.left \in Nat /\ z \in Zones
    BY <1>1, <1>2, <2>1, Carried
  <2>3. c \in Tasks /\ c.at = "consume" /\ c.valve = t.valve /\ c.zone = map[c.valve]
    BY <2>2, TaskTypes
  <2>4. today' \in Nat /\ requests' \in Nat /\ restarts' \in Nat
    BY <1>1 DEF IInv, TypeOK, bounds
  <2> HIDE DEF c
  <2>5. /\ \A y, o : ~Holds(c, y, o) /\ ~Holds(task[p], y, o)
        /\ \A v : ~Strays(c, v)
    BY <1>1, <2>3 DEF Holds, Strays, Locates
  <2> QED BY <1>1, <1>2, <2>3, <2>4, <2>5, PlainStep
<1>3. CASE SampleFails(p)
  BY <1>1, <1>3, FailStep
<1> QED BY <1>2, <1>3 DEF Lookup

LEMMA FailAppendStep ==
  ASSUME IInv, NEW p \in Procs, FailAppend(p)
  PROVE  IInv'
<1> DEFINE t == task[p]
           c == [at |-> "release", valve |-> t.valve, left |-> t.left,
                 zone |-> t.zone, of |-> t.of]
<1>1. /\ up /\ t.at = "append" /\ Continue(p, [t EXCEPT !.at = "release"])
      /\ UNCHANGED <<up, map, ledger, today, bounds, charges, filing>>
  BY DEF FailAppend, At
<1>2. t \in Tasks
  BY DEF IInv, TypeOK
<1>3. Continue(p, c)
  BY <1>1, <1>2, HeldUnit
<1>4. c \in Tasks
  BY <1>1, <1>2, Carried, TaskTypes
<1>5. c.at = "release" /\ c.zone = t.zone /\ c.of = t.of
  OBVIOUS
<1>6. today' \in Nat /\ requests' \in Nat /\ restarts' \in Nat
  BY <1>1 DEF IInv, TypeOK, bounds
<1> HIDE DEF c
<1>7. /\ \A y, o : Holds(c, y, o) <=> Holds(task[p], y, o)
      /\ \A v : ~Strays(c, v)
  BY <1>1, <1>5 DEF Holds, Strays, Locates
<1> QED BY <1>1, <1>3, <1>4, <1>6, <1>7, PlainStep

LEMMA StartCycleStep ==
  ASSUME IInv, StartCycle
  PROVE  IInv'
<1> DEFINE c == IF window # today THEN [at |-> "rollover"]
                ELSE [at |-> "lookup", valve |-> Order[1], left |-> 1]
<1>1. /\ up /\ task[Scheduler].at = "idle" /\ Continue(Scheduler, c)
      /\ UNCHANGED <<up, map, ledger, today, bounds, charges, filing>>
  BY DEF StartCycle, At
<1>2. c \in Tasks /\ c.at \in {"rollover", "lookup"}
  BY TaskTypes, FirstValve
<1>3. today' \in Nat /\ requests' \in Nat /\ restarts' \in Nat
  BY <1>1 DEF IInv, TypeOK, bounds
<1> HIDE DEF c
<1>4. /\ \A y, o : ~Holds(c, y, o) /\ ~Holds(task[Scheduler], y, o)
      /\ \A v : ~Strays(c, v)
  BY <1>1, <1>2 DEF Holds, Strays, Locates
<1>5. Scheduler \in Procs
  BY DEF Procs
<1> QED BY <1>1, <1>2, <1>3, <1>4, <1>5, PlainStep

LEMMA ConsumeStep ==
  ASSUME IInv, NEW p \in Procs, Consume(p)
  PROVE  IInv'
<1> DEFINE t == task[p]
           c == [at |-> "append", valve |-> t.valve, left |-> t.left,
                 zone |-> t.zone, of |-> "this"]
<1>1. /\ up /\ t.at = "consume"
      /\ UNCHANGED <<map, window, today, bounds, charges, filing>>
  BY DEF Consume, At
<1>2. CASE /\ Grants(t.zone) /\ used' = [used EXCEPT ![t.zone] = @ + 1]
           /\ Continue(p, c) /\ UNCHANGED up
  <2>1. TypeOK /\ IsFiniteSet(UnderWay) /\ Account /\ \A v \in Valves : FiledOnce(v)
    BY DEF IInv
  <2>2. t \in Tasks /\ used \in [Zones -> Nat]
    BY <2>1 DEF TypeOK, PerZone
  <2>3. t.valve \in Valves /\ t.left \in Nat /\ t.zone \in Zones
    BY <1>1, <2>2, Carried
  <2>4. c \in Tasks
    BY <2>3, TaskTypes
  <2>5. /\ c.at = "append" /\ c.valve = t.valve /\ c.zone = t.zone /\ c.of = "this"
    OBVIOUS
  <2> HIDE DEF c
  <2>6. /\ used' \in [Zones -> Nat] /\ used'[t.zone] = used[t.zone] + 1
        /\ used'[t.zone] <= Limit
        /\ \A z \in Zones \ {t.zone} : used'[z] = used[z]
    BY <1>2, <2>2, <2>3 DEF Grants
  <2>7. TypeOK'
    BY <1>1, <1>2, <2>1, <2>4, <2>6
    DEF TypeOK, Continue, PerZone, bounds, charges, filing
  <2>8. IsFiniteSet(UnderWay')
    BY <1>2, <2>1, UnderWayMoves
  <2>9. ASSUME NEW z \in Zones
        PROVE  /\ Cardinality(Holders(z, "this")') = Cardinality(Holders(z, "this"))
                                                      + Unit(z = t.zone)
               /\ Cardinality(Holders(z, "earlier")') = Cardinality(Holders(z, "earlier"))
    <3>1. \A o : Cardinality(Holders(z, o)')
                   = (Cardinality(Holders(z, o)) + Unit(Holds(c, z, o)))
                       - Unit(Holds(t, z, o))
      BY <1>2, <2>1, HoldersMove
    <3>2. /\ Holds(c, z, "this") <=> z = t.zone
          /\ ~Holds(c, z, "earlier") /\ \A o : ~Holds(t, z, o)
      BY <1>1, <2>5 DEF Holds
    <3>3. \A o : Cardinality(Holders(z, o)) \in Nat
      BY <2>1, Counts
    <3> QED BY <3>1, <3>2, <3>3 DEF Unit
  <2>10. Account'
    <3> SUFFICES ASSUME NEW z \in Zones
                 PROVE  /\ Balanced(z)' /\ SpentOnce(z)' /\ used'[z] <= Limit
                        /\ stray'[z] <= rows'[z] /\ rows'[z] <= Limit + carried'[z]
      BY DEF Account
    <3>1. /\ Balanced(z) /\ SpentOnce(z) /\ used[z] <= Limit
          /\ stray[z] <= rows[z] /\ rows[z] <= Limit + carried[z]
      BY <1>1, <2>1 DEF Account
    <3>2. UNCHANGED <<rows, stray, robbed, carried>>
      BY <1>1 DEF charges
    <3>3. /\ Cardinality(Holders(z, "this")) \in Nat
          /\ used[z] \in Nat /\ robbed[z] \in Nat /\ rows[z] \in Nat /\ stray[z] \in Nat
      BY <2>1, Counts DEF TypeOK, PerZone
    <3>4. Balanced(z)'
      BY <2>6, <2>9, <3>1, <3>2, <3>3 DEF Balanced, Unit
    <3>5. SpentOnce(z)'
      BY <2>9, <3>1, <3>2 DEF SpentOnce
    <3> QED BY <2>6, <3>1, <3>2, <3>4, <3>5
  <2>11. \A v \in Valves : Strays(c, v) => Strays(t, v)
    BY <1>1, <2>5 DEF Strays, Locates
  <2>12. \A v \in Valves : FiledOnce(v)'
    BY <1>1, <1>2, <2>1, <2>11, FiledFrame
  <2> QED BY <1>1, <1>2, <2>7, <2>8, <2>10, <2>12 DEF IInv, Quiet
<1>3. CASE SampleFails(p) /\ UNCHANGED used
  BY <1>1, <1>3, FailStep DEF ledger
<1> QED BY <1>2, <1>3 DEF Consume

\* A unit that becomes a row: the account stays balanced, and the row is within
\* the limit or paid by a sample that was under way when the window opened.
LEMMA AppendRowStep ==
  ASSUME IInv, NEW p \in Procs, AppendRow(p)
  PROVE  IInv'
<1> DEFINE t == task[p]
           c == AfterSample(p, t)
<1>1. /\ up /\ t.at = "append" /\ Continue(p, c)
      /\ UNCHANGED <<up, map, used, window, today, bounds, robbed, carried, caught>>
      /\ rows' = [rows EXCEPT ![t.zone] = @ + 1]
      /\ stray' = IF t.of = "earlier" THEN [stray EXCEPT ![t.zone] = @ + 1]
                                      ELSE stray
      /\ misfiled' = IF map[t.valve] = t.zone THEN misfiled
                     ELSE [misfiled EXCEPT ![t.valve] = @ + 1]
  BY DEF AppendRow, At, ledger
<1>2. TypeOK /\ IsFiniteSet(UnderWay) /\ Account /\ \A v \in Valves : FiledOnce(v)
  BY DEF IInv
<1>3. /\ t \in Tasks /\ used \in [Zones -> Nat] /\ robbed \in [Zones -> Nat]
      /\ rows \in [Zones -> Nat] /\ stray \in [Zones -> Nat]
      /\ carried \in [Zones -> Nat]
      /\ misfiled \in [Valves -> Nat] /\ caught \in [Valves -> Nat]
  BY <1>2 DEF TypeOK, PerZone, PerValve
<1>4. /\ t.valve \in Valves /\ t.zone \in Zones /\ t.of \in {"this", "earlier"}
  BY <1>1, <1>3, Carried
<1>5. c \in Tasks /\ c.at \in {"lookup", "idle"}
  BY <1>1, <1>3, AfterSampleTypes
<1> HIDE DEF c
<1>6. /\ rows' \in [Zones -> Nat] /\ stray' \in [Zones -> Nat]
      /\ \A z \in Zones : /\ rows'[z] = rows[z] + Unit(z = t.zone)
                          /\ stray'[z] = stray[z] + Unit(z = t.zone /\ t.of = "earlier")
  BY <1>1, <1>3, <1>4 DEF Unit
<1>7. /\ misfiled' \in [Valves -> Nat]
      /\ \A v \in Valves : misfiled'[v] = misfiled[v] + Unit(Strays(t, v))
  <2>1. \A v \in Valves : Strays(t, v) <=> v = t.valve /\ t.zone # map[t.valve]
    BY <1>1 DEF Strays, Locates
  <2> QED BY <1>1, <1>3, <1>4, <2>1 DEF Unit
<1>8. TypeOK'
  BY <1>1, <1>2, <1>5, <1>6, <1>7 DEF TypeOK, Continue, PerZone, PerValve, bounds
<1>9. IsFiniteSet(UnderWay')
  BY <1>1, <1>2, UnderWayMoves
<1>10. ASSUME NEW z \in Zones, NEW o \in {"this", "earlier"}
       PROVE  /\ Cardinality(Holders(z, o)')
                    = Cardinality(Holders(z, o)) - Unit(z = t.zone /\ o = t.of)
              /\ Cardinality(Holders(z, o)) \in Nat /\ Cardinality(Holders(z, o)') \in Nat
  <2>1. Cardinality(Holders(z, o)')
          = (Cardinality(Holders(z, o)) + Unit(Holds(c, z, o))) - Unit(Holds(t, z, o))
    BY <1>1, <1>2, HoldersMove
  <2>2. ~Holds(c, z, o) /\ (Holds(t, z, o) <=> z = t.zone /\ o = t.of)
    BY <1>1, <1>5 DEF Holds
  <2>3. Cardinality(Holders(z, o)) \in Nat
    BY <1>2, Counts
  <2>4. Cardinality(Holders(z, o)') \in Nat
    <3>1. Holders(z, o)' \subseteq UnderWay'
      BY DEF Holders, Holds, UnderWay, Idle
    <3> QED BY <1>9, <3>1, FS_Subset, FS_CardinalityType
  <2> QED BY <2>1, <2>2, <2>3, <2>4 DEF Unit
<1>11. Account'
  <2> SUFFICES ASSUME NEW z \in Zones
               PROVE  /\ Balanced(z)' /\ SpentOnce(z)' /\ used'[z] <= Limit
                      /\ stray'[z] <= rows'[z] /\ rows'[z] <= Limit + carried'[z]
    BY DEF Account
  <2> DEFINE this == Cardinality(Holders(z, "this"))
             earlier == Cardinality(Holders(z, "earlier"))
             this1 == Cardinality(Holders(z, "this")')
             earlier1 == Cardinality(Holders(z, "earlier")')
  <2>1. /\ used[z] + robbed[z] = (rows[z] - stray[z]) + this
        /\ stray[z] + robbed[z] + earlier <= carried[z] /\ used[z] <= Limit
        /\ stray[z] <= rows[z] /\ rows[z] <= Limit + carried[z]
    BY <1>1, <1>2 DEF Account, Balanced, SpentOnce
  <2>2. /\ used[z] \in Nat /\ robbed[z] \in Nat /\ rows[z] \in Nat /\ stray[z] \in Nat
        /\ carried[z] \in Nat /\ this \in Nat /\ earlier \in Nat
        /\ this1 \in Nat /\ earlier1 \in Nat
    BY <1>3, <1>10
  <2>3. /\ this1 = this - Unit(z = t.zone /\ "this" = t.of)
        /\ earlier1 = earlier - Unit(z = t.zone /\ "earlier" = t.of)
    BY <1>10
  <2>4. /\ used'[z] = used[z] /\ robbed'[z] = robbed[z] /\ carried'[z] = carried[z]
        /\ rows'[z] = rows[z] + Unit(z = t.zone)
        /\ stray'[z] = stray[z] + Unit(z = t.zone /\ t.of = "earlier")
    BY <1>1, <1>6
  <2> HIDE DEF this, earlier, this1, earlier1
  <2>5. /\ used'[z] + robbed'[z] = (rows'[z] - stray'[z]) + this1
        /\ stray'[z] + robbed'[z] + earlier1 <= carried'[z]
        /\ used'[z] <= Limit /\ stray'[z] <= rows'[z]
    BY <1>4, <2>1, <2>2, <2>3, <2>4 DEF Unit
  <2>6. rows'[z] <= Limit + carried'[z]
    BY <1>4, <2>1, <2>2, <2>3, <2>4, LimitAssumption DEF Unit
  <2> QED BY <2>5, <2>6 DEF Balanced, SpentOnce, this1, earlier1
<1>12. \A v \in Valves : FiledOnce(v)'
  <2> SUFFICES ASSUME NEW v \in Valves PROVE FiledOnce(v)'
    OBVIOUS
  <2>1. Cardinality(Astray(v)')
          = (Cardinality(Astray(v)) + Unit(Strays(c, v))) - Unit(Strays(t, v))
    BY <1>1, <1>2, AstrayMove
  <2>2. ~Strays(c, v)
    BY <1>5 DEF Strays, Locates
  <2>3. Cardinality(Astray(v)) \in Nat
    BY <1>2, Counts
  <2>4. misfiled'[v] = misfiled[v] + Unit(Strays(t, v)) /\ caught'[v] = caught[v]
    BY <1>1, <1>7
  <2>5. misfiled[v] + Cardinality(Astray(v)) <= caught[v]
    BY <1>2 DEF FiledOnce
  <2> QED BY <1>3, <2>1, <2>2, <2>3, <2>4, <2>5 DEF FiledOnce, Unit
<1> QED BY <1>1, <1>8, <1>9, <1>11, <1>12 DEF IInv, Quiet

\* A unit given back: to the window that gave it, or at the cost of the open
\* one, or not at all when the open one has given nothing.
LEMMA ReleaseStep ==
  ASSUME IInv, NEW p \in Procs, Release(p)
  PROVE  IInv'
<1> DEFINE t == task[p]
<1>1. /\ up /\ t.at = "release" /\ SampleFails(p)
      /\ UNCHANGED <<map, window, today, bounds, rows, stray, carried, filing>>
      /\ used' = GiveBack(t.zone)
      /\ robbed' = [robbed EXCEPT ![t.zone] =
                      CASE t.of = "earlier" /\ used[t.zone] > 0 -> @ + 1
                        [] t.of = "this" /\ used[t.zone] = 0    -> @ - 1
                        [] OTHER                                -> @]
  BY DEF Release, At
<1>2. TypeOK /\ IsFiniteSet(UnderWay) /\ Account /\ \A v \in Valves : FiledOnce(v)
  BY DEF IInv
<1>3. /\ t \in Tasks /\ used \in [Zones -> Nat] /\ robbed \in [Zones -> Nat]
      /\ rows \in [Zones -> Nat] /\ stray \in [Zones -> Nat]
      /\ carried \in [Zones -> Nat]
  BY <1>2 DEF TypeOK, PerZone
<1>4. t.zone \in Zones /\ t.of \in {"this", "earlier"}
  BY <1>1, <1>3, Carried
<1>5. \A z \in Zones, o \in {"this", "earlier"} :
        /\ Cardinality(Holders(z, o)) \in Nat
        /\ z = t.zone /\ o = t.of => Cardinality(Holders(z, o)) >= 1
  <2> SUFFICES ASSUME NEW z \in Zones, NEW o \in {"this", "earlier"}
               PROVE  /\ Cardinality(Holders(z, o)) \in Nat
                      /\ z = t.zone /\ o = t.of => Cardinality(Holders(z, o)) >= 1
    OBVIOUS
  <2>1. IsFiniteSet(Holders(z, o)) /\ Cardinality(Holders(z, o)) \in Nat
    BY <1>2, Counts
  <2>2. ASSUME z = t.zone, o = t.of PROVE Holders(z, o) # {}
    BY <1>1, <2>2 DEF Holders, Holds
  <2>3. Holders(z, o) # {} => Cardinality(Holders(z, o)) # 0
    BY <2>1, FS_EmptySet
  <2> QED BY <2>1, <2>2, <2>3
<1>6. \A z \in Zones :
        /\ up => Balanced(z)
        /\ SpentOnce(z) /\ used[z] <= Limit
        /\ stray[z] <= rows[z] /\ rows[z] <= Limit + carried[z]
  BY <1>2 DEF Account
<1>7. t.of = "this" /\ used[t.zone] = 0 => robbed[t.zone] >= 1
  <2>1. /\ used[t.zone] + robbed[t.zone]
             = (rows[t.zone] - stray[t.zone]) + Cardinality(Holders(t.zone, "this"))
        /\ stray[t.zone] <= rows[t.zone]
    BY <1>1, <1>4, <1>6 DEF Balanced
  <2>2. /\ Cardinality(Holders(t.zone, "this")) \in Nat
        /\ t.of = "this" => Cardinality(Holders(t.zone, "this")) >= 1
    BY <1>4, <1>5
  <2>3. /\ used[t.zone] \in Nat /\ robbed[t.zone] \in Nat
        /\ rows[t.zone] \in Nat /\ stray[t.zone] \in Nat
    BY <1>3, <1>4
  <2> QED BY <2>1, <2>2, <2>3
<1>8. /\ used' \in [Zones -> Nat] /\ robbed' \in [Zones -> Nat]
      /\ \A z \in Zones \ {t.zone} : used'[z] = used[z] /\ robbed'[z] = robbed[z]
      /\ used[t.zone] >= 1 => used'[t.zone] = used[t.zone] - 1
      /\ used[t.zone] = 0 => used'[t.zone] = 0
      /\ robbed'[t.zone] =
           CASE t.of = "earlier" /\ used[t.zone] > 0 -> robbed[t.zone] + 1
             [] t.of = "this" /\ used[t.zone] = 0    -> robbed[t.zone] - 1
             [] OTHER                                -> robbed[t.zone]
  BY <1>1, <1>3, <1>4, <1>7 DEF GiveBack
<1>9. TypeOK'
  <2>1. task' \in [Procs -> Tasks] /\ up' \in BOOLEAN
    BY <1>1, <1>2, TaskTypes DEF TypeOK, SampleFails, Ends, Continue
  <2> QED BY <1>1, <1>2, <1>8, <2>1 DEF TypeOK, PerZone, bounds, filing
\* The goroutine is idle, or all are and the process is down.
<1>10. /\ IsFiniteSet(UnderWay') /\ Quiet'
       /\ \A v \in Valves : FiledOnce(v)'
       /\ \A z \in Zones, o \in {"this", "earlier"} :
            /\ Cardinality(Holders(z, o)') \in Nat
            /\ Cardinality(Holders(z, o)')
                 <= Cardinality(Holders(z, o)) - Unit(z = t.zone /\ o = t.of)
            /\ up' => Cardinality(Holders(z, o)')
                        = Cardinality(Holders(z, o)) - Unit(z = t.zone /\ o = t.of)
  <2>1. CASE Continue(p, Idle) /\ UNCHANGED up
    <3>1. IsFiniteSet(UnderWay')
      BY <1>2, <2>1, UnderWayMoves
    <3>2. \A v \in Valves : FiledOnce(v)'
      <4>1. \A v \in Valves : ~Strays(Idle, v)
        BY DEF Strays, Locates, Idle
      <4> QED BY <1>1, <1>2, <2>1, <4>1, FiledFrame
    <3>3. ASSUME NEW z \in Zones, NEW o \in {"this", "earlier"}
          PROVE  Cardinality(Holders(z, o)')
                   = Cardinality(Holders(z, o)) - Unit(z = t.zone /\ o = t.of)
      <4>1. Cardinality(Holders(z, o)')
              = (Cardinality(Holders(z, o)) + Unit(Holds(Idle, z, o)))
                  - Unit(Holds(t, z, o))
        BY <1>2, <2>1, HoldersMove
      <4>2. ~Holds(Idle, z, o) /\ (Holds(t, z, o) <=> z = t.zone /\ o = t.of)
        BY <1>1 DEF Holds, Idle
      <4>3. Cardinality(Holders(z, o)) \in Nat
        BY <1>5
      <4> QED BY <4>1, <4>2, <4>3 DEF Unit
    <3>4. \A z \in Zones, o \in {"this", "earlier"} :
            Cardinality(Holders(z, o)') \in Nat
      BY <1>5, <3>3 DEF Unit
    <3>5. Quiet'
      BY <1>1, <2>1 DEF Quiet
    <3> QED BY <3>1, <3>2, <3>3, <3>4, <3>5
  <2>2. CASE Ends
    <3>1. /\ UnderWay' = {} /\ IsFiniteSet(UnderWay')
          /\ \A z, o : Cardinality(Holders(z, o)') = 0
      BY <2>2, NoneUnderWay DEF Ends
    <3>2. \A z \in Zones, o \in {"this", "earlier"} :
            0 <= Cardinality(Holders(z, o)) - Unit(z = t.zone /\ o = t.of)
      BY <1>5 DEF Unit
    <3>3. \A v \in Valves : FiledOnce(v)'
      BY <1>1, <1>2, <2>2, FiledEnds
    <3> QED BY <2>2, <3>1, <3>2, <3>3 DEF Quiet, Ends
  <2> QED BY <1>1, <2>1, <2>2 DEF SampleFails
<1>11. Account'
  <2> SUFFICES ASSUME NEW z \in Zones
               PROVE  /\ up' => Balanced(z)'
                      /\ SpentOnce(z)' /\ used'[z] <= Limit
                      /\ stray'[z] <= rows'[z] /\ rows'[z] <= Limit + carried'[z]
    BY DEF Account
  <2> DEFINE this == Cardinality(Holders(z, "this"))
             earlier == Cardinality(Holders(z, "earlier"))
             this1 == Cardinality(Holders(z, "this")')
             earlier1 == Cardinality(Holders(z, "earlier")')
  <2>1. /\ used[z] + robbed[z] = (rows[z] - stray[z]) + this
        /\ stray[z] + robbed[z] + earlier <= carried[z] /\ used[z] <= Limit
        /\ stray[z] <= rows[z] /\ rows[z] <= Limit + carried[z]
    BY <1>1, <1>6 DEF Balanced, SpentOnce
  <2>2. /\ used[z] \in Nat /\ robbed[z] \in Nat /\ rows[z] \in Nat /\ stray[z] \in Nat
        /\ carried[z] \in Nat /\ this \in Nat /\ earlier \in Nat
        /\ this1 \in Nat /\ earlier1 \in Nat
    BY <1>3, <1>5, <1>10
  <2>3. /\ up' => this1 = this - Unit(z = t.zone /\ "this" = t.of)
        /\ earlier1 <= earlier - Unit(z = t.zone /\ "earlier" = t.of)
        /\ UNCHANGED <<rows, stray, carried>>
    BY <1>1, <1>10
  <2> HIDE DEF this, earlier, this1, earlier1
  <2>4. CASE z # t.zone
    <3>1. used'[z] = used[z] /\ robbed'[z] = robbed[z]
      BY <1>8, <2>4
    <3> QED BY <2>1, <2>2, <2>3, <2>4, <3>1
            DEF Unit, Balanced, SpentOnce, this1, earlier1
  <2>5. CASE z = t.zone
    <3>1. /\ used[z] >= 1 => used'[z] = used[z] - 1
          /\ used[z] = 0 => used'[z] = 0
          /\ robbed'[z] = CASE t.of = "earlier" /\ used[z] > 0 -> robbed[z] + 1
                            [] t.of = "this" /\ used[z] = 0    -> robbed[z] - 1
                            [] OTHER                           -> robbed[z]
      BY <1>8, <2>5
    <3>2. CASE t.of = "earlier"
      <4>1. robbed'[z] = IF used[z] > 0 THEN robbed[z] + 1 ELSE robbed[z]
        BY <2>2, <3>1, <3>2
      <4>2. used'[z] + robbed'[z] = used[z] + robbed[z] /\ robbed'[z] <= robbed[z] + 1
        BY <2>2, <3>1, <4>1
      <4>3. (up' => this1 = this) /\ earlier1 <= earlier - 1
        BY <2>2, <2>3, <2>5, <3>2 DEF Unit
      <4>4. used'[z] \in Nat /\ robbed'[z] \in Nat /\ used'[z] <= used[z]
        BY <2>2, <3>1, <4>1
      <4> QED BY <2>1, <2>2, <2>3, <4>2, <4>3, <4>4, LimitAssumption
              DEF Balanced, SpentOnce, this1, earlier1
    <3>3. CASE t.of = "this"
      <4>1. robbed'[z] = IF used[z] = 0 THEN robbed[z] - 1 ELSE robbed[z]
        BY <2>2, <3>1, <3>3
      <4>2. used'[z] + robbed'[z] = (used[z] + robbed[z]) - 1 /\ robbed'[z] <= robbed[z]
        BY <2>2, <3>1, <4>1
      <4>3. (up' => this1 = this - 1) /\ earlier1 <= earlier
        BY <2>2, <2>3, <2>5, <3>3 DEF Unit
      <4>4. used'[z] \in Nat /\ robbed'[z] \in Nat /\ used'[z] <= used[z]
        BY <1>4, <1>8, <2>2, <2>5, <3>1
      <4> QED BY <2>1, <2>2, <2>3, <4>2, <4>3, <4>4, LimitAssumption
              DEF Balanced, SpentOnce, this1, earlier1
    <3> QED BY <1>4, <3>2, <3>3
  <2> QED BY <2>4, <2>5
<1> QED BY <1>9, <1>10, <1>11 DEF IInv

\* The samples under way at a rollover are those the new window must bear.
LEMMA RolloverStep ==
  ASSUME IInv, Rollover
  PROVE  IInv'
<1> DEFINE first == [at |-> "lookup", valve |-> Order[1], left |-> 1]
<1>1. /\ up /\ task[Scheduler].at = "rollover"
      /\ UNCHANGED <<up, map, today, bounds, filing>>
      /\ used' = NoZone /\ rows' = NoZone /\ stray' = NoZone /\ robbed' = NoZone
      /\ window' = today /\ carried' = [z \in Zones |-> Cardinality(Holding(z))]
      /\ task' = [p \in Procs |-> IF p = Scheduler THEN first ELSE Aged(task[p])]
  BY DEF Rollover, At, NewWindow, NewUsage
<1>2. TypeOK /\ IsFiniteSet(UnderWay) /\ Account /\ \A v \in Valves : FiledOnce(v)
  BY DEF IInv
<1>3. first \in Tasks /\ first.at = "lookup"
  BY TaskTypes, FirstValve
<1> HIDE DEF first
<1>4. ASSUME NEW t \in Tasks
      PROVE  /\ Aged(t) \in Tasks /\ Aged(t).at = t.at
             /\ Aged(t).at \in {"consume", "append"} =>
                  Aged(t).valve = t.valve /\ Aged(t).zone = t.zone
             /\ Aged(t).at \in {"append", "release"} =>
                  Aged(t).zone = t.zone /\ Aged(t).of = "earlier"
             /\ t = Idle => Aged(t) = Idle
  <2>1. CASE t.at \in {"append", "release"}
    <3>1. Aged(t) = [at |-> t.at, valve |-> t.valve, left |-> t.left,
                     zone |-> t.zone, of |-> "earlier"]
      BY <2>1, HeldUnit DEF Aged
    <3>2. t.valve \in Valves /\ t.left \in Nat /\ t.zone \in Zones
      BY <2>1, Carried
    <3>3. Aged(t) \in Tasks
      BY <2>1, <3>1, <3>2, TaskTypes
    <3>4. /\ Aged(t).at = t.at /\ Aged(t).valve = t.valve
          /\ Aged(t).zone = t.zone /\ Aged(t).of = "earlier"
      BY <3>1
    <3> QED BY <2>1, <3>3, <3>4 DEF Idle
  <2>2. CASE t.at \notin {"append", "release"}
    BY <2>2 DEF Aged
  <2> QED BY <2>1, <2>2
<1>5. /\ task'[Scheduler] = first
      /\ \A p \in Procs \ {Scheduler} : task'[p] = Aged(task[p]) /\ task[p] \in Tasks
  BY <1>1, <1>2 DEF TypeOK, Procs
<1>6. UnderWay' \subseteq UnderWay
  BY <1>1, <1>4, <1>5 DEF UnderWay, Idle
<1>7. \A z : Holders(z, "this")' = {} /\ Holders(z, "earlier")' = Holding(z)
  <2>1. ASSUME NEW z, NEW p \in Procs
        PROVE  /\ ~Holds(task'[p], z, "this")
               /\ Holds(task'[p], z, "earlier") <=>
                    task[p].at \in {"append", "release"} /\ task[p].zone = z
    <3>1. CASE p = Scheduler
      BY <1>1, <1>3, <1>5, <3>1 DEF Holds
    <3>2. CASE p # Scheduler
      BY <1>4, <1>5, <3>2 DEF Holds
    <3> QED BY <3>1, <3>2
  <2> QED BY <2>1 DEF Holders, Holding, Holds
<1>8. \A v : Astray(v)' = Astray(v)
  <2>1. ASSUME NEW v, NEW p \in Procs
        PROVE  Strays(task[p], v)' <=> Strays(task[p], v)
    <3>1. CASE p = Scheduler
      BY <1>1, <1>3, <1>5, <3>1 DEF Strays, Locates
    <3>2. CASE p # Scheduler
      BY <1>1, <1>4, <1>5, <3>2 DEF Strays, Locates
    <3> QED BY <3>1, <3>2
  <2> QED BY <2>1 DEF Astray, Strays, Locates
<1>9. \A z \in Zones : Cardinality(Holding(z)) \in Nat
  <2>1. \A z : Holding(z) \subseteq UnderWay
    BY DEF Holding, UnderWay, Idle
  <2> QED BY <1>2, <2>1, UnderWayFinite
<1>10. TypeOK'
  <2>1. task' \in [Procs -> Tasks]
    BY <1>1, <1>2, <1>3, <1>4 DEF TypeOK
  <2>2. carried' \in [Zones -> Nat]
    BY <1>1, <1>9
  <2> QED BY <1>1, <1>2, <2>1, <2>2 DEF TypeOK, PerZone, NoZone, bounds, filing
<1>11. IsFiniteSet(UnderWay')
  BY <1>2, <1>6, FS_Subset
<1>12. Account'
  <2> SUFFICES ASSUME NEW z \in Zones
               PROVE  /\ Balanced(z)' /\ SpentOnce(z)' /\ used'[z] <= Limit
                      /\ stray'[z] <= rows'[z] /\ rows'[z] <= Limit + carried'[z]
    BY DEF Account
  <2>1. /\ used'[z] = 0 /\ rows'[z] = 0 /\ stray'[z] = 0 /\ robbed'[z] = 0
        /\ carried'[z] = Cardinality(Holding(z))
    BY <1>1 DEF NoZone
  <2>2. /\ Cardinality(Holders(z, "this")') = 0
        /\ Cardinality(Holders(z, "earlier")') = Cardinality(Holding(z))
    BY <1>7, FS_EmptySet
  <2>3. Cardinality(Holding(z)) \in Nat
    BY <1>9
  <2> QED BY <2>1, <2>2, <2>3, LimitAssumption DEF Balanced, SpentOnce
<1>13. \A v \in Valves : FiledOnce(v)'
  BY <1>1, <1>2, <1>8 DEF FiledOnce, filing
<1> QED BY <1>1, <1>10, <1>11, <1>12, <1>13 DEF IInv, Quiet

\* The ledger of a new process has given nothing, and nothing is under way.
LEMMA RestartStep ==
  ASSUME IInv, Restart
  PROVE  IInv'
<1>1. /\ ~up /\ up' /\ UNCHANGED <<today, task, requests>> /\ restarts' = restarts + 1
      /\ map' = BootMap /\ used' = NoZone /\ window' = 0
      /\ rows' = NoZone /\ stray' = NoZone /\ robbed' = NoZone /\ carried' = NoZone
      /\ misfiled' = NoValve /\ caught' = NoValve
  BY DEF Restart
<1>2. TypeOK /\ UnderWay = {}
  BY <1>1 DEF IInv, Quiet
<1>3. \A p \in Procs : task'[p] = Idle
  BY <1>1, <1>2 DEF UnderWay
<1>4. TypeOK'
  BY <1>1, <1>2, BootMapAssumption
  DEF TypeOK, NoZone, NoValve, PerZone, PerValve
<1>5. /\ IsFiniteSet(UnderWay') /\ \A z, o : Cardinality(Holders(z, o)') = 0
      /\ \A v : Cardinality(Astray(v)') = 0
  BY <1>3, NoneUnderWay
<1>6. Account'
  BY <1>1, <1>5, LimitAssumption DEF Account, Balanced, SpentOnce, NoZone
<1>7. \A v \in Valves : FiledOnce(v)'
  BY <1>1, <1>5 DEF FiledOnce, NoValve
<1> QED BY <1>1, <1>4, <1>5, <1>6, <1>7 DEF IInv, Quiet

LEMMA MidnightStep ==
  ASSUME IInv, Midnight \/ UNCHANGED vars
  PROVE  IInv'
<1>1. /\ UNCHANGED <<up, map, ledger, task, bounds, charges, filing>>
      /\ today' \in Nat
  BY DEF Midnight, vars, IInv, TypeOK
<1>2. TypeOK'
  BY <1>1 DEF IInv, TypeOK, ledger, bounds, charges, filing
<1>3. Account' /\ \A v \in Valves : FiledOnce(v)'
  BY <1>1 DEF IInv, Account, Balanced, SpentOnce, FiledOnce, Holders, Astray,
              Strays, ledger, charges, filing
<1>4. IsFiniteSet(UnderWay') /\ Quiet'
  BY <1>1 DEF IInv, Quiet, UnderWay
<1> QED BY <1>2, <1>3, <1>4 DEF IInv

LEMMA NextInvariant == IInv /\ [Next]_vars => IInv'
<1> SUFFICES ASSUME IInv, [Next]_vars PROVE IInv'
  OBVIOUS
<1>1. ASSUME NEW p \in Procs, Request(p) PROVE IInv'
  BY <1>1, SampleRequestStep, ZoneRequestStep DEF Request
<1>2. ASSUME NEW p \in Procs, Stage(p) PROVE IInv'
  BY <1>2, LookupStep, ConsumeStep, AppendRowStep, FailAppendStep, ReleaseStep
  DEF Stage
<1>3. CASE Crash
  BY <1>3, EndStep DEF Crash
<1> QED BY <1>1, <1>2, <1>3, StartCycleStep, RolloverStep, MidnightStep, RestartStep
        DEF Next

-----------------------------------------------------------------------------
(* The theorems.                                                           *)

\* The account of every zone and the filing of every valve stay in order,
\* whatever requests, failed appends, rollovers and restarts come.
THEOREM Invariance == Spec => []IInv
BY InitInvariant, NextInvariant, PTL DEF Spec

\* Every variable keeps its type.  For the units that robbed counts this rests
\* on the account: a window owes no more than earlier ones gave back.
THEOREM TypeCorrectness == Spec => []TypeOK
<1>1. IInv => TypeOK
  BY DEF IInv
<1> QED BY <1>1, Invariance, PTL

\* TryConsume, Release and the rollover keep the quota of a zone an account of
\* its rows, in any interleaving.
THEOREM QuotaIsAccount == Spec => []UsageAccounted
<1>1. IInv => UsageAccounted
  <2>1. \A z : HoldingThis(z) = Holders(z, "this")
    BY DEF HoldingThis, Holding, Holders, Holds
  <2> QED BY <2>1 DEF IInv, Account, Balanced, UsageAccounted
<1> QED BY <1>1, Invariance, PTL

\* A window takes no more rows of a zone than its limit and one for each sample
\* that was under way when it opened.
THEOREM LimitIsHard == Spec => []HardLimit
<1>1. IInv => HardLimit
  BY DEF IInv, Account, HardLimit
<1> QED BY <1>1, Invariance, PTL

\* AttachZone reaches every sample: a sample under way when its valve left a
\* zone files at most one more row there.
THEOREM SwitchIsolates == Spec => []SwitchReachesSamples
<1>1. IInv => SwitchReachesSamples
  <2> SUFFICES ASSUME IInv, NEW v \in Valves PROVE misfiled[v] <= caught[v]
    BY DEF SwitchReachesSamples
  <2>1. Cardinality(Astray(v)) \in Nat
    BY Counts DEF IInv
  <2> QED BY <2>1 DEF IInv, FiledOnce, TypeOK, PerValve
<1> QED BY <1>1, Invariance, PTL
=============================================================================
