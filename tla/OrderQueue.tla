----------------------------- MODULE OrderQueue -----------------------------
(***************************************************************************)
(* The dispatch queue of the server: POST /dispatch/queue draws an issue   *)
(* sequence number and then, as a second critical section, enqueues the    *)
(* order; POST /dispatch/apply drains the queue, several requests at once  *)
(* if the operators send several; POST /dispatch/queue/reset empties it.   *)
(*                                                                         *)
(* An order is its issue sequence number.  Whether its command can be      *)
(* applied is up to the group (PumpStation): here it may or may not.  The  *)
(* queue lives in memory, so a restart is Init again.                      *)
(***************************************************************************)
EXTENDS Integers, Sequences

CONSTANTS Issuers,    \* goroutines that serve /dispatch/queue
          Drainers,   \* goroutines that serve /dispatch/apply
          MaxOrders   \* bound on the orders issued

ASSUME MaxOrdersAssumption == MaxOrders \in Nat

VARIABLES seq,        \* Server.seq, the last issue sequence number drawn
          orders,     \* OrderQueue.orders, the served ones included
          cursor,     \* OrderQueue.cursor, how many are served
          ticket,     \* the number each issuer drew and has yet to enqueue
          draining,   \* the drainers inside ApplyDispatch
          taken,      \* the order each drainer took and has yet to apply
          \* History, for the properties:
          applied,    \* the orders applied, in the order they were
          rejected,   \* the orders whose command failed
          cleared,    \* the orders a reset threw away
          late        \* the orders a younger one overtook, see Take

code == <<seq, orders, cursor, ticket, draining, taken>>
vars == <<code, applied, rejected, cleared, late>>

None == 0
Orders == 1 .. MaxOrders

TypeOK == /\ seq \in 0 .. MaxOrders
          /\ orders \in Seq(Orders)
          /\ cursor \in 0 .. Len(orders)
          /\ ticket \in [Issuers -> Orders \cup {None}]
          /\ draining \subseteq Drainers
          /\ taken \in [Drainers -> Orders \cup {None}]
          /\ applied \in Seq(Orders)
          /\ rejected \subseteq Orders
          /\ cleared \subseteq Orders
          /\ late \subseteq Orders

Init == /\ seq = 0
        /\ orders = <<>>
        /\ cursor = 0
        /\ ticket = [i \in Issuers |-> None]
        /\ draining = {}
        /\ taken = [d \in Drainers |-> None]
        /\ applied = <<>>
        /\ rejected = {}
        /\ cleared = {}
        /\ late = {}

\* Positions in orders that are still pending, and the orders there.
Waiting == cursor + 1 .. Len(orders)
Pending == {orders[k] : k \in Waiting}

Tickets == {ticket[i] : i \in Issuers} \ {None}
Held    == {taken[d] : d \in Drainers} \ {None}
Applied == {applied[k] : k \in DOMAIN applied}

-----------------------------------------------------------------------------
\* NextSeq, under Server.mu.
NextSeq(i) ==
  /\ ticket[i] = None
  /\ seq < MaxOrders
  /\ seq' = seq + 1
  /\ ticket' = [ticket EXCEPT ![i] = seq + 1]
  /\ UNCHANGED <<orders, cursor, draining, taken, applied, rejected, cleared, late>>

\* Enqueue, under the mutex of the queue.
Enqueue(i) ==
  /\ ticket[i] # None
  /\ orders' = Append(orders, ticket[i])
  /\ ticket' = [ticket EXCEPT ![i] = None]
  /\ UNCHANGED <<seq, cursor, draining, taken, applied, rejected, cleared, late>>

BeginDrain(d) ==
  /\ d \notin draining
  /\ draining' = draining \cup {d}
  /\ UNCHANGED <<seq, orders, cursor, ticket, taken, applied, rejected, cleared, late>>

\* Seeded fault: the order that arrived first.
FirstArrived(k) == k = cursor + 1

\* The smallest issue sequence among the pending orders.
Best(k) == \A j \in Waiting : orders[k] <= orders[j]

\* Seeded fault: the order that stood at the cursor is overwritten.
Overwrite(k) == [orders EXCEPT ![cursor + 1] = orders[k]]

\* The order at k changes places with the one at the cursor.
Swap(k) == [orders EXCEPT ![cursor + 1] = orders[k], ![k] = orders[cursor + 1]]

\* The older orders that are on their way at the time o is taken: drawn and
\* not enqueued, or taken by another drainer and not applied.
Overtaken(o) == {x \in Tickets \cup Held : x < o}

\* Next, under the mutex of the queue.
Take(d) ==
  /\ d \in draining
  /\ taken[d] = None
  /\ \E k \in Waiting : /\ Best(k)
                        /\ orders' = Swap(k)
                        /\ taken' = [taken EXCEPT ![d] = orders[k]]
                        /\ late' = late \cup Overtaken(orders[k])
  /\ cursor' = cursor + 1
  /\ UNCHANGED <<seq, ticket, draining, applied, rejected, cleared>>

\* pump.Apply succeeds and the drain goes on.
Apply(d) ==
  /\ taken[d] # None
  /\ applied' = Append(applied, taken[d])
  /\ taken' = [taken EXCEPT ![d] = None]
  /\ UNCHANGED <<seq, orders, cursor, ticket, draining, rejected, cleared, late>>

\* It fails, or the group is unknown: the drain stops, the order is consumed.
Reject(d) ==
  /\ taken[d] # None
  /\ rejected' = rejected \cup {taken[d]}
  /\ taken' = [taken EXCEPT ![d] = None]
  /\ draining' = draining \ {d}
  /\ UNCHANGED <<seq, orders, cursor, ticket, applied, cleared, late>>

\* Seeded fault: the last order is not looked at.
AlmostDrained == cursor + 1 >= Len(orders)

Drained == cursor >= Len(orders)

EndDrain(d) ==
  /\ d \in draining
  /\ taken[d] = None
  /\ Drained
  /\ draining' = draining \ {d}
  /\ UNCHANGED <<seq, orders, cursor, ticket, taken, applied, rejected, cleared, late>>

\* Seeded fault: the cursor of the old orders is kept.
ResetOrders ==
  /\ orders' = <<>>
  /\ cleared' = cleared \cup Pending
  /\ UNCHANGED <<seq, cursor, ticket, draining, taken, applied, rejected, late>>

\* Reset; an order a drainer has taken is still applied after it.
Reset ==
  /\ orders' = <<>>
  /\ cursor' = 0
  /\ cleared' = cleared \cup Pending
  /\ UNCHANGED <<seq, ticket, draining, taken, applied, rejected, late>>

Drain(d) == Take(d) \/ Apply(d) \/ Reject(d) \/ EndDrain(d)

Next == \/ \E i \in Issuers : NextSeq(i) \/ Enqueue(i)
        \/ \E d \in Drainers : BeginDrain(d) \/ Drain(d)
        \/ Reset

\* A handler once begun runs to its end; nobody has to send a request.
Fairness == /\ \A i \in Issuers : WF_vars(Enqueue(i))
            /\ \A d \in Drainers : WF_vars(Drain(d))

Spec == Init /\ [][Next]_vars /\ Fairness

-----------------------------------------------------------------------------
Distinct(s) == \A j, k \in DOMAIN s : s[j] = s[k] => j = k

\* The places an order can be in.
Places == <<Tickets, Pending, Held, Applied, rejected, cleared>>

\* Every order issued is in exactly one place, there once: the selection by
\* swapping, two drainers and a reset in the middle of a drain neither lose an
\* order nor apply one twice.
EveryOrderOnce ==
  /\ UNION {Places[n] : n \in DOMAIN Places} = 1 .. seq
  /\ \A m, n \in DOMAIN Places : m # n => Places[m] \cap Places[n] = {}
  /\ Distinct(orders) /\ Distinct(applied)
  /\ \A i, j \in Issuers : ticket[i] = ticket[j] /\ ticket[i] # None => i = j
  /\ \A d, e \in Drainers : taken[d] = taken[e] /\ taken[d] # None => d = e

\* Commands are applied in issue order but for the orders a race made late:
\* whatever was pending when a younger order was taken is not applied after it.
OnlyRacesInvert ==
  \A j, k \in DOMAIN applied :
    j < k /\ applied[j] > applied[k] => applied[k] \in late

\* The queue is the one promised.
Issue == INSTANCE IssueQueue
           WITH pending <- Pending, served <- SubSeq(orders, 1, cursor)
RefinesIssueQueue == Issue!Spec

\* As long as no command fails, a drain under way gets to every pending order.
DrainReachesOrders ==
  \A o \in Orders : o \in Pending /\ draining # {}
                      ~> o \notin Pending \/ rejected # {}

-----------------------------------------------------------------------------
\* "Orders are served in issue order, never in arrival order", and ApplyDispatch
\* "applies every command ... in issue order": not so when two requests race.
AppliedInIssueOrder ==
  \A j, k \in DOMAIN applied : j < k => applied[j] < applied[k]
=============================================================================
