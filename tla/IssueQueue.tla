----------------------------- MODULE IssueQueue -----------------------------
(***************************************************************************)
(* What dispatch.OrderQueue promises: a set of pending orders, handed out  *)
(* the oldest issue first, whatever the order they arrived in.             *)
(***************************************************************************)
EXTENDS Integers, Sequences

CONSTANT Orders      \* issue sequence numbers

VARIABLES pending,   \* the orders not yet handed out
          served     \* the orders handed out since the queue was last reset

Init == pending = {} /\ served = <<>>

Put == /\ \E o \in Orders \ pending : pending' = pending \cup {o}
       /\ UNCHANGED served

Take == \E o \in pending : /\ \A p \in pending : o <= p
                           /\ pending' = pending \ {o}
                           /\ served' = Append(served, o)

Clear == pending' = {} /\ served' = <<>>

Spec == Init /\ [][Put \/ Take \/ Clear]_<<pending, served>>
=============================================================================
