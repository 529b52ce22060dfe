---------------------------- MODULE DurableLedger ----------------------------
(***************************************************************************)
(* What a ledger with a file promises: the file holds, whole, a state the  *)
(* ledger was in when it was saved; a crash loses the ledger and not the   *)
(* file, and a restart resumes from exactly that state.                    *)
(***************************************************************************)
CONSTANTS Ledgers,  \* the states of the ledger
          Lost      \* none of them: the process is down

VARIABLES memory,   \* the ledger
          durable   \* its file

Init == memory \in Ledgers /\ durable = memory

Change == memory # Lost /\ memory' \in Ledgers /\ UNCHANGED durable

Save == memory # Lost /\ durable' = memory /\ UNCHANGED memory

Crash == memory # Lost /\ memory' = Lost /\ UNCHANGED durable

Recover == memory = Lost /\ memory' = durable /\ UNCHANGED durable

Next == Change \/ Save \/ Crash \/ Recover

Spec == Init /\ [][Next]_<<memory, durable>>
=============================================================================
