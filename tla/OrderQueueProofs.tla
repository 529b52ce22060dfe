-------------------------- MODULE OrderQueueProofs --------------------------
(***************************************************************************)
(* What the dispatch queue guarantees for every number of issuers, of      *)
(* drainers and of orders.                                                 *)
(*                                                                         *)
(* Two facts carry the proofs.  An order is in one place at a time, the    *)
(* served part of the array holding only orders that have left the queue:  *)
(* so the selection by swapping takes exactly one order out of the pending *)
(* ones.  And an order that has been taken has overtaken every older order *)
(* not yet done with: when it was taken it was the oldest pending one.     *)
(***************************************************************************)
EXTENDS OrderQueue, TLAPS

\* The orders some drainer has taken.
Taken == Held \cup Applied \cup rejected

Partition ==
  /\ Tickets \cup Pending \cup Taken \cup cleared = 1 .. seq
  /\ Tickets \cap (Pending \cup Taken \cup cleared) = {}
  /\ Pending \cap (Taken \cup cleared) = {}
  /\ Held \cap (Applied \cup rejected \cup cleared) = {}
  /\ Applied \cap (rejected \cup cleared) = {}
  /\ rejected \cap cleared = {}

Single ==
  /\ Distinct(orders)
  /\ Distinct(applied)
  /\ \A i, j \in Issuers : ticket[i] = ticket[j] /\ ticket[i] # None => i = j
  /\ \A d, e \in Drainers : taken[d] = taken[e] /\ taken[d] # None => d = e

ServedTaken == \A k \in 1 .. cursor : orders[k] \in Taken

Overtakes ==
  \A o \in Taken : \A x \in Tickets \cup Pending \cup Held : x < o => x \in late

IInv == TypeOK /\ Partition /\ Single /\ ServedTaken /\ Overtakes /\ OnlyRacesInvert

USE DEF None

-----------------------------------------------------------------------------
(* How each action moves orders from place to place.                       *)

LEMMA InitInvariant == Init => IInv
<1> SUFFICES ASSUME Init PROVE IInv
  OBVIOUS
<1>1. TypeOK
  BY MaxOrdersAssumption DEF Init, TypeOK
<1>2. Tickets = {} /\ Pending = {} /\ Held = {} /\ Applied = {} /\ rejected = {}
  BY DEF Init, Tickets, Pending, Waiting, Held, Applied
<1>3. Partition
  BY <1>2 DEF Partition, Taken, Init
<1>4. Single
  BY DEF Single, Distinct, Init
<1>5. ServedTaken /\ Overtakes /\ OnlyRacesInvert
  BY <1>2 DEF ServedTaken, Overtakes, OnlyRacesInvert, Taken, Init
<1> QED BY <1>1, <1>3, <1>4, <1>5 DEF IInv

LEMMA NextSeqInvariant ==
  ASSUME IInv, NEW i \in Issuers, NextSeq(i)
  PROVE  IInv'
<1> USE DEF NextSeq, IInv
<1>1. TypeOK'
  BY MaxOrdersAssumption DEF TypeOK, Orders
<1>2. Tickets' = Tickets \cup {seq + 1}
  BY DEF TypeOK, Orders, Tickets
<1>3. Pending' = Pending /\ Held' = Held /\ Applied' = Applied /\ Taken' = Taken
  BY DEF Pending, Waiting, Held, Applied, Taken
<1>4. 1 .. seq' = (1 .. seq) \cup {seq + 1} /\ seq + 1 \notin 1 .. seq
  BY DEF TypeOK
<1>5. Partition'
  BY <1>2, <1>3, <1>4 DEF Partition, Taken
<1>6. Single'
  <2>1. \A j \in Issuers : ticket[j] # seq + 1
    BY <1>4 DEF Partition, Tickets, TypeOK
  <2> QED BY <2>1 DEF Single, Distinct, TypeOK
<1>7. ServedTaken'
  BY <1>3 DEF ServedTaken
<1>8. Overtakes'
  <2>1. \A o \in Taken : o \in 1 .. seq
    BY DEF Partition
  <2> QED BY <1>2, <1>3, <2>1 DEF Overtakes, TypeOK
<1>9. OnlyRacesInvert'
  BY DEF OnlyRacesInvert
<1> QED BY <1>1, <1>5, <1>6, <1>7, <1>8, <1>9

\* An order that is enqueued goes to the end of the array.
LEMMA EnqueuePending ==
  ASSUME TypeOK, NEW i \in Issuers, Enqueue(i)
  PROVE  /\ ticket[i] \in Orders /\ ticket[i] \in Tickets
         /\ orders' \in Seq(Orders) /\ Len(orders') = Len(orders) + 1
         /\ \A k \in 1 .. Len(orders) : orders'[k] = orders[k]
         /\ orders'[Len(orders) + 1] = ticket[i]
         /\ Pending' = Pending \cup {ticket[i]}
<1> USE DEF Enqueue
<1>1. ticket[i] \in Orders /\ ticket[i] \in Tickets
  BY DEF TypeOK, Tickets
<1>2. /\ orders' \in Seq(Orders) /\ Len(orders') = Len(orders) + 1
      /\ \A k \in 1 .. Len(orders) : orders'[k] = orders[k]
      /\ orders'[Len(orders) + 1] = ticket[i]
  BY <1>1 DEF TypeOK
<1>3. Waiting' = Waiting \cup {Len(orders) + 1}
  BY <1>2 DEF TypeOK, Waiting
<1>4. Pending' = Pending \cup {ticket[i]}
  BY <1>2, <1>3 DEF TypeOK, Pending, Waiting
<1> QED BY <1>1, <1>2, <1>4

LEMMA EnqueueInvariant ==
  ASSUME IInv, NEW i \in Issuers, Enqueue(i)
  PROVE  IInv'
<1> USE DEF Enqueue, IInv
<1> DEFINE t == ticket[i]
<1>1. /\ t \in Orders /\ t \in Tickets
      /\ orders' \in Seq(Orders) /\ Len(orders') = Len(orders) + 1
      /\ \A k \in 1 .. Len(orders) : orders'[k] = orders[k]
      /\ orders'[Len(orders) + 1] = t
      /\ Pending' = Pending \cup {t}
  BY EnqueuePending
<1>2. TypeOK'
  BY <1>1 DEF TypeOK
<1>3. Tickets' = Tickets \ {t}
  BY DEF TypeOK, Tickets, Single
<1>4. Held' = Held /\ Applied' = Applied /\ Taken' = Taken
  BY DEF Held, Applied, Taken
<1>5. Partition'
  BY <1>1, <1>3, <1>4 DEF Partition, Taken
<1>6. Single'
  <2>1. \A k \in 1 .. Len(orders) : orders[k] \in Pending \cup Taken
    BY DEF ServedTaken, Pending, Waiting, TypeOK
  <2>2. t \notin Pending \cup Taken
    BY <1>1 DEF Partition
  <2>3. Distinct(orders')
    BY <1>1, <2>1, <2>2 DEF Single, Distinct, TypeOK
  <2> QED BY <2>3 DEF Single, Distinct, TypeOK
<1>7. ServedTaken'
  BY <1>1, <1>4 DEF ServedTaken, TypeOK
<1>8. Overtakes'
  BY <1>1, <1>3, <1>4 DEF Overtakes
<1>9. OnlyRacesInvert'
  BY DEF OnlyRacesInvert
<1> QED BY <1>2, <1>5, <1>6, <1>7, <1>8, <1>9

\* Swapping keeps the orders of the array: only their positions change.
LEMMA SwapPending ==
  ASSUME TypeOK, Distinct(orders), NEW k \in Waiting,
         orders' = Swap(k), cursor' = cursor + 1
  PROVE  /\ orders' \in Seq(Orders) /\ Len(orders') = Len(orders)
         /\ cursor' \in 0 .. Len(orders')
         /\ orders[k] \in Pending /\ orders[k] \in Orders
         /\ Pending' = Pending \ {orders[k]}
         /\ Distinct(orders)'
         /\ \A j \in 1 .. cursor : orders'[j] = orders[j]
         /\ orders'[cursor + 1] = orders[k]
<1> DEFINE c == cursor + 1
<1>1. c \in 1 .. Len(orders) /\ k \in 1 .. Len(orders) /\ c <= k
  BY DEF TypeOK, Waiting
<1>2. /\ orders' \in Seq(Orders) /\ Len(orders') = Len(orders)
      /\ \A j \in 1 .. Len(orders) :
           orders'[j] = IF j = c THEN orders[k]
                        ELSE IF j = k THEN orders[c] ELSE orders[j]
  BY <1>1 DEF TypeOK, Swap
<1>3. Distinct(orders)'
  <2>1. \A i, j \in 1 .. Len(orders) : orders[i] = orders[j] => i = j
    BY DEF Distinct, TypeOK
  <2>2. ASSUME NEW i \in 1 .. Len(orders), NEW j \in 1 .. Len(orders),
               orders'[i] = orders'[j]
        PROVE  i = j
    <3> DEFINE from(n) == IF n = c THEN k ELSE IF n = k THEN c ELSE n
    <3>1. from(i) \in 1 .. Len(orders) /\ from(j) \in 1 .. Len(orders)
      BY <1>1
    <3>2. orders[from(i)] = orders[from(j)]
      BY <1>1, <1>2, <2>2
    <3>3. from(i) = from(j)
      BY <2>1, <3>1, <3>2
    <3> QED BY <3>3
  <2>3. DOMAIN orders' = 1 .. Len(orders)
    BY <1>2
  <2> QED BY <2>2, <2>3 DEF Distinct
<1>4. Waiting' = Waiting \ {c}
  BY <1>1, <1>2 DEF Waiting, TypeOK
<1>5. Pending' \subseteq Pending \ {orders[k]}
  BY <1>1, <1>2, <1>4 DEF Pending, Waiting, Distinct, TypeOK
<1>6. ASSUME NEW o \in Pending, o # orders[k]
      PROVE  o \in Pending'
  <2>1. PICK j \in Waiting : o = orders[j]
    BY DEF Pending
  <2>2. CASE j = c
    BY <1>1, <1>2, <1>4, <1>6, <2>1, <2>2 DEF Pending, Waiting, TypeOK
  <2>3. CASE j # c
    BY <1>1, <1>2, <1>4, <1>6, <2>1, <2>3 DEF Pending, Waiting, TypeOK
  <2> QED BY <2>2, <2>3
<1>7. orders[k] \in Pending /\ orders[k] \in Orders
  BY <1>1 DEF Pending, TypeOK
<1> QED BY <1>1, <1>2, <1>3, <1>5, <1>6, <1>7 DEF TypeOK

LEMMA TakeInvariant ==
  ASSUME IInv, NEW d \in Drainers, Take(d)
  PROVE  IInv'
<1> USE DEF Take, IInv
<1>1. PICK k \in Waiting : /\ Best(k)
                           /\ orders' = Swap(k)
                           /\ taken' = [taken EXCEPT ![d] = orders[k]]
                           /\ late' = late \cup Overtaken(orders[k])
  OBVIOUS
<1> DEFINE o == orders[k]
<1>2. /\ orders' \in Seq(Orders) /\ Len(orders') = Len(orders)
      /\ cursor' \in 0 .. Len(orders')
      /\ o \in Pending /\ o \in Orders
      /\ Pending' = Pending \ {o}
      /\ Distinct(orders)'
      /\ \A j \in 1 .. cursor : orders'[j] = orders[j]
      /\ orders'[cursor + 1] = o
  BY <1>1, SwapPending DEF Single
<1>3. TypeOK'
  <2>1. late' \subseteq Orders
    BY <1>1 DEF TypeOK, Overtaken, Tickets, Held
  <2> QED BY <1>1, <1>2, <2>1 DEF TypeOK
<1>4. Held' = Held \cup {o} /\ o # None
  BY <1>1, <1>2 DEF TypeOK, Held, Orders
<1>5. Tickets' = Tickets /\ Applied' = Applied /\ Taken' = Taken \cup {o}
  BY <1>4 DEF Tickets, Applied, Taken
<1>6. o \notin Held
  BY <1>2 DEF Partition, Taken
<1>7. Partition'
  BY <1>2, <1>4, <1>5 DEF Partition, Taken
<1>8. Single'
  <2>1. \A e \in Drainers : taken[e] # o
    BY <1>4, <1>6 DEF Held
  <2>2. \A e \in Drainers : taken'[e] = IF e = d THEN o ELSE taken[e]
    BY <1>1 DEF TypeOK
  <2>3. \A e, f \in Drainers : taken'[e] = taken'[f] /\ taken'[e] # None => e = f
    BY <2>1, <2>2 DEF Single
  <2> QED BY <1>2, <2>3 DEF Single, Distinct
<1>9. ServedTaken'
  <2>1. \A j \in 1 .. cursor + 1 : j \in 1 .. cursor \/ j = cursor + 1
    BY DEF TypeOK
  <2> QED BY <1>2, <1>5, <2>1 DEF ServedTaken
<1>10. Overtakes'
  <2>1. \A x \in Pending : o <= x
    BY <1>1 DEF Best, Pending
  <2>2. \A x \in Tickets \cup Held : x < o => x \in late'
    BY <1>1 DEF Overtaken
  <2>3. Pending \subseteq Int
    BY DEF Partition
  <2>4. ASSUME NEW x \in Tickets \cup Pending \cup Held', x < o
        PROVE  x \in late'
    <3>1. o \in Int /\ x # o
      BY <1>2, <2>3, <2>4 DEF Orders
    <3>2. ASSUME x \in Pending PROVE FALSE
      <4>1. x \in Int /\ o <= x
        BY <2>1, <2>3, <3>2
      <4> HIDE DEF o
      <4> QED BY <2>4, <3>1, <4>1
    <3> QED BY <1>4, <2>2, <2>4, <3>1, <3>2
  <2>5. ASSUME NEW q \in Taken, NEW x \in Tickets \cup Pending \cup Held', x < q
        PROVE  x \in late'
    BY <1>1, <1>2, <1>4, <2>5 DEF Overtakes
  <2> QED BY <1>2, <1>5, <2>4, <2>5 DEF Overtakes
<1>11. OnlyRacesInvert'
  BY <1>1 DEF OnlyRacesInvert
<1> QED BY <1>3, <1>7, <1>8, <1>9, <1>10, <1>11

\* The order a drainer holds, once it lets go of it.
LEMMA HeldBy ==
  ASSUME TypeOK, Single, NEW d \in Drainers, taken[d] # None,
         taken' = [taken EXCEPT ![d] = None]
  PROVE  taken[d] \in Held /\ taken[d] \in Orders /\ Held' = Held \ {taken[d]}
<1>1. \A e \in Drainers : taken'[e] = IF e = d THEN None ELSE taken[e]
  BY DEF TypeOK
<1>2. \A e \in Drainers : e # d /\ taken[e] # None => taken[e] # taken[d]
  BY DEF Single
<1> QED BY <1>1, <1>2 DEF TypeOK, Held

LEMMA ApplyInvariant ==
  ASSUME IInv, NEW d \in Drainers, Apply(d)
  PROVE  IInv'
<1> USE DEF Apply, IInv
<1> DEFINE o == taken[d]
<1>1. o \in Held /\ o \in Orders /\ Held' = Held \ {o}
  BY HeldBy
<1>2. /\ applied' \in Seq(Orders) /\ Len(applied') = Len(applied) + 1
      /\ \A k \in 1 .. Len(applied) : applied'[k] = applied[k]
      /\ applied'[Len(applied) + 1] = o
  BY <1>1 DEF TypeOK
<1>3. TypeOK'
  BY <1>2 DEF TypeOK
<1>4. Applied' = Applied \cup {o}
  <2>0. DOMAIN applied = 1 .. Len(applied)
    BY DEF TypeOK
  <2>1. Applied = {applied[k] : k \in 1 .. Len(applied)}
    BY <2>0 DEF Applied
  <2>2. Applied' = {applied'[k] : k \in 1 .. Len(applied) + 1}
    BY <1>2 DEF Applied
  <2>3. 1 .. Len(applied) + 1 = (1 .. Len(applied)) \cup {Len(applied) + 1}
    BY DEF TypeOK
  <2> QED BY <1>2, <2>1, <2>2, <2>3
<1>5. Tickets' = Tickets /\ Pending' = Pending /\ Taken' = Taken
  BY <1>1, <1>4 DEF Tickets, Pending, Waiting, Taken
<1>6. o \notin Applied
  BY <1>1 DEF Partition
<1>7. Partition'
  BY <1>1, <1>4, <1>5 DEF Partition
<1>8. Single'
  <2>1. \A k \in 1 .. Len(applied) : applied[k] # o
    BY <1>6 DEF Applied, TypeOK
  <2>2. Distinct(applied')
    BY <1>2, <2>1 DEF Single, Distinct, TypeOK
  <2>3. \A e \in Drainers : taken'[e] = IF e = d THEN None ELSE taken[e]
    BY DEF TypeOK
  <2> QED BY <2>2, <2>3 DEF Single, Distinct
<1>9. ServedTaken'
  BY <1>5 DEF ServedTaken
<1>10. Overtakes'
  BY <1>1, <1>5 DEF Overtakes
<1>11. OnlyRacesInvert'
  <2> SUFFICES ASSUME NEW j \in 1 .. Len(applied'), NEW k \in 1 .. Len(applied'),
                      j < k, applied'[j] > applied'[k]
               PROVE  applied'[k] \in late
    BY <1>2 DEF OnlyRacesInvert
  <2>1. CASE k \in 1 .. Len(applied)
    BY <1>2, <2>1 DEF OnlyRacesInvert, TypeOK
  <2>2. CASE k = Len(applied) + 1
    <3>1. j \in 1 .. Len(applied) /\ applied'[k] = o /\ applied'[j] = applied[j]
      BY <1>2, <2>2 DEF TypeOK
    <3>2. applied[j] \in Taken /\ o < applied[j]
      BY <1>1, <3>1 DEF Taken, Applied, TypeOK, Orders
    <3> QED BY <1>1, <3>1, <3>2 DEF Overtakes
  <2> QED BY <1>2, <2>1, <2>2 DEF TypeOK
<1> QED BY <1>3, <1>7, <1>8, <1>9, <1>10, <1>11

LEMMA RejectInvariant ==
  ASSUME IInv, NEW d \in Drainers, Reject(d)
  PROVE  IInv'
<1> USE DEF Reject, IInv
<1> DEFINE o == taken[d]
<1>1. o \in Held /\ o \in Orders /\ Held' = Held \ {o}
  BY HeldBy
<1>2. TypeOK'
  BY <1>1 DEF TypeOK
<1>3. /\ Tickets' = Tickets /\ Pending' = Pending /\ Applied' = Applied
      /\ Taken' = Taken
  BY <1>1 DEF Tickets, Pending, Waiting, Applied, Taken
<1>4. Partition'
  BY <1>1, <1>3 DEF Partition
<1>5. Single'
  <2>1. \A e \in Drainers : taken'[e] = IF e = d THEN None ELSE taken[e]
    BY DEF TypeOK
  <2> QED BY <2>1 DEF Single, Distinct
<1>6. ServedTaken' /\ Overtakes' /\ OnlyRacesInvert'
  BY <1>1, <1>3 DEF ServedTaken, Overtakes, OnlyRacesInvert
<1> QED BY <1>2, <1>4, <1>5, <1>6

LEMMA ResetInvariant ==
  ASSUME IInv, Reset
  PROVE  IInv'
<1> USE DEF Reset, IInv
<1>1. Pending \subseteq Orders
  BY DEF Pending, Waiting, TypeOK
<1>2. TypeOK'
  BY <1>1 DEF TypeOK
<1>3. Pending' = {}
  BY DEF Pending, Waiting
<1>4. Tickets' = Tickets /\ Held' = Held /\ Applied' = Applied /\ Taken' = Taken
  BY DEF Tickets, Held, Applied, Taken
<1>5. Partition'
  BY <1>3, <1>4 DEF Partition, Taken
<1>6. Single' /\ ServedTaken' /\ OnlyRacesInvert'
  BY DEF Single, Distinct, ServedTaken, OnlyRacesInvert
<1>7. Overtakes'
  BY <1>3, <1>4 DEF Overtakes
<1> QED BY <1>2, <1>5, <1>6, <1>7

\* Entering and leaving a drain moves no order.
LEMMA DrainBoundsInvariant ==
  ASSUME IInv, NEW d \in Drainers, BeginDrain(d) \/ EndDrain(d)
  PROVE  IInv'
<1> USE DEF BeginDrain, EndDrain, IInv
<1>1. TypeOK'
  BY DEF TypeOK
<1>2. /\ Tickets' = Tickets /\ Pending' = Pending /\ Held' = Held
      /\ Applied' = Applied /\ Taken' = Taken
  BY DEF Tickets, Pending, Waiting, Held, Applied, Taken
<1>3. Partition' /\ Single' /\ ServedTaken' /\ Overtakes' /\ OnlyRacesInvert'
  BY <1>2 DEF Partition, Single, Distinct, ServedTaken, Overtakes, OnlyRacesInvert
<1> QED BY <1>1, <1>3

LEMMA NextInvariant == IInv /\ [Next]_vars => IInv'
<1> SUFFICES ASSUME IInv, [Next]_vars PROVE IInv'
  OBVIOUS
<1>1. CASE UNCHANGED vars
  <2>1. TypeOK'
    BY <1>1 DEF vars, code, IInv, TypeOK
  <2>2. /\ Tickets' = Tickets /\ Pending' = Pending /\ Held' = Held
        /\ Applied' = Applied /\ Taken' = Taken
    BY <1>1 DEF vars, code, Tickets, Pending, Waiting, Held, Applied, Taken
  <2> QED BY <1>1, <2>1, <2>2 DEF vars, code, IInv, Partition, Single, Distinct,
          ServedTaken, Overtakes, OnlyRacesInvert
<1>2. CASE Next
  BY <1>2, NextSeqInvariant, EnqueueInvariant, TakeInvariant, ApplyInvariant,
     RejectInvariant, ResetInvariant, DrainBoundsInvariant DEF Next, Drain
<1> QED BY <1>1, <1>2

-----------------------------------------------------------------------------
\* An order is in one place, and what was taken has overtaken only late orders.
THEOREM Invariance == Spec => []IInv
<1>1. Init => IInv
  BY InitInvariant
<1>2. IInv /\ [Next]_vars => IInv'
  BY NextInvariant
<1> QED BY <1>1, <1>2, PTL DEF Spec

\* The array, its cursor, the tickets and what the drainers hold keep their
\* types: the cursor never passes the end of the array (dispatch/order.go).
THEOREM TypeCorrectness == Spec => []TypeOK
<1>1. IInv => TypeOK
  BY DEF IInv
<1> QED BY <1>1, Invariance, PTL

\* No order is lost and none is applied twice.
THEOREM OrdersAccountedFor == Spec => []EveryOrderOnce
<1>1. IInv => EveryOrderOnce
  <2> SUFFICES ASSUME Partition, Single PROVE EveryOrderOnce
    BY DEF IInv
  <2>1. DOMAIN Places = 1 .. 6
    BY DEF Places
  <2>2. UNION {Places[n] : n \in DOMAIN Places} = 1 .. seq
    <3>1. UNION {Places[n] : n \in 1 .. 6}
            = Tickets \cup Pending \cup Held \cup Applied \cup rejected \cup cleared
      BY DEF Places
    <3> QED BY <2>1, <3>1 DEF Partition, Taken
  <2>3. \A m, n \in DOMAIN Places : m # n => Places[m] \cap Places[n] = {}
    BY <2>1 DEF Places, Partition, Taken
  <2> QED BY <2>2, <2>3 DEF EveryOrderOnce, Single
<1> QED BY <1>1, Invariance, PTL

\* Only an order that a race made late is applied after a younger one.
THEOREM InversionsAreRaces == Spec => []OnlyRacesInvert
<1>1. IInv => OnlyRacesInvert
  BY DEF IInv
<1> QED BY <1>1, Invariance, PTL

-----------------------------------------------------------------------------
\* Without races there are no late orders: with one issuer and one drainer the
\* commands are applied in the order of their issue.
Timely == /\ late = {}
          /\ \A x \in Tickets : \A y \in Pending \cup Taken : y < x

THEOREM SerialIssueOrder ==
  ASSUME \A i, j \in Issuers : i = j,
         \A d, e \in Drainers : d = e
  PROVE  Spec => []AppliedInIssueOrder
<1>1. Init => Timely
  BY DEF Init, Timely, Tickets
<1>2. IInv /\ Timely /\ [Next]_vars => Timely'
  <2> SUFFICES ASSUME IInv, Timely, [Next]_vars PROVE Timely'
    OBVIOUS
  <2>1. ASSUME NEW i \in Issuers, NextSeq(i) PROVE Timely'
    <3>1. Tickets' = {seq + 1}
      <4>1. \A j \in Issuers : j = i
        OBVIOUS
      <4>2. ticket'[i] = seq + 1 /\ seq + 1 # None
        BY <2>1 DEF NextSeq, IInv, TypeOK
      <4> QED BY <4>1, <4>2 DEF Tickets
    <3>2. Pending' = Pending /\ Taken' = Taken
      BY <2>1 DEF NextSeq, Pending, Waiting, Held, Applied, Taken
    <3>3. \A y \in Pending \cup Taken : y \in 1 .. seq
      BY DEF IInv, Partition
    <3>4. \A y \in 1 .. seq : y < seq + 1
      BY DEF IInv, TypeOK
    <3> QED BY <2>1, <3>1, <3>2, <3>3, <3>4 DEF Timely, NextSeq
  <2>2. ASSUME NEW i \in Issuers, Enqueue(i) PROVE Timely'
    <3>1. \A j \in Issuers : ticket'[j] = None
      BY <2>2 DEF Enqueue, IInv, TypeOK
    <3> QED BY <2>2, <3>1 DEF Timely, Tickets, Enqueue
  <2>3. ASSUME NEW d \in Drainers, Take(d) PROVE Timely'
    <3>1. PICK k \in Waiting : /\ orders' = Swap(k)
                               /\ taken' = [taken EXCEPT ![d] = orders[k]]
                               /\ late' = late \cup Overtaken(orders[k])
      BY <2>3 DEF Take
    <3>2. Held = {}
      BY <2>3 DEF Take, Held
    <3>3. orders[k] \in Pending /\ orders[k] \in Orders
          /\ Pending' = Pending \ {orders[k]}
      BY <2>3, <3>1, SwapPending DEF Take, IInv, Single
    <3>4. Overtaken(orders[k]) = {}
      <4> SUFFICES ASSUME NEW x \in Tickets, x < orders[k] PROVE FALSE
        BY <3>2 DEF Overtaken
      <4>1. orders[k] < x
        BY <3>3 DEF Timely
      <4>2. x \in Int /\ orders[k] \in Int
        BY <3>3 DEF IInv, TypeOK, Tickets, Orders
      <4> QED BY <4>1, <4>2
    <3>5. Taken' \subseteq Taken \cup {orders[k]}
      BY <2>3, <3>1 DEF Take, IInv, TypeOK, Taken, Held, Applied
    <3>6. Tickets' = Tickets
      BY <2>3 DEF Take, Tickets
    <3> QED BY <3>1, <3>3, <3>4, <3>5, <3>6 DEF Timely
  <2>4. ASSUME NEW d \in Drainers, Apply(d) PROVE Timely'
    <3>1. taken[d] \in Held /\ Held' = Held \ {taken[d]}
      BY <2>4, HeldBy DEF Apply, IInv
    <3>2. Applied' \subseteq Applied \cup {taken[d]}
      BY <2>4 DEF Apply, Applied, IInv, TypeOK
    <3> QED BY <2>4, <3>1, <3>2 DEF Apply, Timely, Tickets, Pending, Waiting, Taken
  <2>5. ASSUME NEW d \in Drainers, Reject(d) PROVE Timely'
    <3>1. taken[d] \in Held /\ Held' = Held \ {taken[d]}
      BY <2>5, HeldBy DEF Reject, IInv
    <3> QED BY <2>5, <3>1
            DEF Reject, Timely, Tickets, Pending, Waiting, Taken, Applied
  <2>6. CASE Reset
    BY <2>6 DEF Reset, Timely, Tickets, Pending, Waiting, Taken, Held, Applied
  <2>7. ASSUME NEW d \in Drainers, BeginDrain(d) \/ EndDrain(d) PROVE Timely'
    BY <2>7 DEF BeginDrain, EndDrain, Timely, Tickets, Pending, Waiting, Taken,
       Held, Applied
  <2>8. CASE UNCHANGED vars
    BY <2>8 DEF vars, code, Timely, Tickets, Pending, Waiting, Taken, Held, Applied
  <2> QED BY <2>1, <2>2, <2>3, <2>4, <2>5, <2>6, <2>7, <2>8 DEF Next, Drain
<1>3. IInv /\ Timely => AppliedInIssueOrder
  <2> SUFFICES ASSUME IInv, Timely,
                      NEW j \in DOMAIN applied, NEW k \in DOMAIN applied, j < k
               PROVE  applied[j] < applied[k]
    BY DEF AppliedInIssueOrder
  <2>1. ~(applied[j] > applied[k])
    BY DEF IInv, OnlyRacesInvert, Timely
  <2>2. applied[j] # applied[k]
    BY DEF IInv, Single, Distinct, TypeOK
  <2>3. applied[j] \in Orders /\ applied[k] \in Orders
    BY DEF IInv, TypeOK
  <2>4. applied[j] \in Int /\ applied[k] \in Int
    BY <2>3 DEF Orders
  <2> QED BY <2>1, <2>2, <2>4
<1> QED BY <1>1, <1>2, <1>3, Invariance, PTL DEF Spec

-----------------------------------------------------------------------------
\* The array with its cursor implements the promised queue: every step is one
\* of its steps or leaves it as it is.
THEOREM Refinement == Spec => RefinesIssueQueue
<1>1. Init => Issue!Init
  BY DEF Init, Issue!Init, Pending, Waiting
<1>2. IInv /\ [Next]_vars
        => [Issue!Put \/ Issue!Take \/ Issue!Clear]_<<Pending, SubSeq(orders, 1, cursor)>>
  <2> SUFFICES ASSUME IInv, [Next]_vars
               PROVE  [Issue!Put \/ Issue!Take \/ Issue!Clear]_<<Pending, SubSeq(orders, 1, cursor)>>
    OBVIOUS
  <2>1. ASSUME NEW i \in Issuers, Enqueue(i) PROVE Issue!Put
    <3>1. /\ ticket[i] \in Orders /\ ticket[i] \in Tickets
          /\ Pending' = Pending \cup {ticket[i]}
      BY <2>1, EnqueuePending DEF IInv
    <3>2. ticket[i] \notin Pending
      BY <3>1 DEF IInv, Partition
    <3>3. SubSeq(orders', 1, cursor') = SubSeq(orders, 1, cursor)
      BY <2>1, <3>1 DEF Enqueue, IInv, TypeOK
    <3> QED BY <3>1, <3>2, <3>3 DEF Issue!Put
  <2>2. ASSUME NEW d \in Drainers, Take(d) PROVE Issue!Take
    <3>1. PICK k \in Waiting : Best(k) /\ orders' = Swap(k)
      BY <2>2 DEF Take
    <3>2. /\ orders' \in Seq(Orders) /\ Len(orders') = Len(orders)
          /\ cursor' \in 0 .. Len(orders')
          /\ orders[k] \in Pending
          /\ Pending' = Pending \ {orders[k]}
          /\ \A j \in 1 .. cursor : orders'[j] = orders[j]
          /\ orders'[cursor + 1] = orders[k]
      BY <2>2, <3>1, SwapPending DEF Take, IInv, Single
    <3>3. SubSeq(orders', 1, cursor') = Append(SubSeq(orders, 1, cursor), orders[k])
      BY <2>2, <3>2 DEF Take, IInv, TypeOK
    <3>4. \A p \in Pending : orders[k] <= p
      BY <3>1 DEF Best, Pending
    <3> QED BY <3>2, <3>3, <3>4 DEF Issue!Take
  <2>3. CASE Reset
    BY <2>3 DEF Reset, Issue!Clear, Pending, Waiting
  <2>4. ASSUME orders' = orders, cursor' = cursor
        PROVE  UNCHANGED <<Pending, SubSeq(orders, 1, cursor)>>
    BY <2>4 DEF Pending, Waiting
  <2> QED BY <2>1, <2>2, <2>3, <2>4 DEF Next, Drain, NextSeq, BeginDrain, Apply,
          Reject, EndDrain, vars, code
<1> QED BY <1>1, <1>2, Invariance, PTL DEF Spec, RefinesIssueQueue, Issue!Spec
=============================================================================
