-------------------------- MODULE SavedRecordsProofs --------------------------
(***************************************************************************)
(* What SavedRecords guarantees for every number of goroutines, requests,  *)
(* restarts and targets.                                                   *)
(*                                                                         *)
(* The ledger is saved under its mutex: the one goroutine between opening  *)
(* and renaming the temporary file carries the ledger as it is, and has    *)
(* the temporary file to itself.  The policy has no such goroutine, but    *)
(* all that write it at a time carry the same target, and as long as none  *)
(* fails one of them has yet to bring it to the path.                      *)
(***************************************************************************)
EXTENDS SavedRecords, FiniteSetTheorems, TLAPS

SavingLedger(r) == task[r].at \in {"fillLedger", "renameLedger"}

\* Saves exclude each other and every change of the ledger.
LedgerSaves ==
  \A r \in Requests : SavingLedger(r) =>
    /\ holder = r
    /\ task[r].record = ledger
    /\ task[r].at = "fillLedger" => /\ ledgerFile.tmp = Torn
                                    /\ ledgerFile.at[r] = "tmp"
    /\ task[r].at = "renameLedger" => ledgerFile.tmp = ledger

\* Flow in the ledger whose request is not answered yet.
Unanswered == {r \in Requests : /\ SavingLedger(r) \/ task[r].at = "save"
                                /\ task[r].flow}

FlowCounted == /\ IsFiniteSet(Unanswered)
               /\ ledger.total >= acked + Cardinality(Unanswered)

\* The file is the ledger of some moment, so what holds of a segment holds of
\* the segment in the file.
Segments == /\ RunsOneWay(ledger) /\ RunsOneWay(LoadedLedger)
            /\ Switching => ledger.along = NoFlow

FillingPolicy(r) == task[r].at = "fillPolicy"

SavingPolicy(r) == task[r].at \in {"fillPolicy", "renamePolicy"}

\* SetTarget writes alone, and whoever writes, writes the target.
PolicySaves == /\ WritingPolicy = {r \in Requests : SavingPolicy(r)}
               /\ writer # Nobody => readers = {}
               /\ \A r \in WritingPolicy : task[r].record = target

\* While no write has failed, what a goroutine fills was truncated for the
\* target, a truncated temporary file is still being filled, and the target is
\* at the path or on its way there.
PolicyArrives ==
  up /\ "policy" \notin unsaved =>
    /\ \A r \in Requests : FillingPolicy(r) =>
         /\ policyFile.at[r] = "tmp" => policyFile.tmp \in {Torn, target}
         /\ policyFile.at[r] = "path" => policyFile.path \in {Torn, target}
    /\ WritingPolicy # {} =>
         /\ policyFile.tmp \in {Missing, Torn, target}
         /\ policyFile.tmp = Torn =>
              \E r \in Requests : FillingPolicy(r) /\ policyFile.at[r] = "tmp"
    /\ \/ policyFile.path = target
       \/ policyFile.path = Torn /\ \E r \in Requests : /\ FillingPolicy(r)
                                                        /\ policyFile.at[r] = "path"
       \/ WritingPolicy # {} /\ policyFile.tmp # Missing

\* A single writer leaves the file at the path alone until it renames.
PolicyIntact ==
  ~overlapped =>
    /\ policyFile.path \in Targets
    /\ \A r, q \in WritingPolicy : r = q
    /\ \A r \in WritingPolicy :
         IF FillingPolicy(r) THEN policyFile.at[r] = "tmp" /\ policyFile.tmp = Torn
                             ELSE policyFile.tmp \in Targets

\* A process that is down holds nothing.
NothingHeld == ~up => /\ \A r \in Requests : task[r] = Idle
                      /\ holder = Nobody /\ readers = {} /\ writer = Nobody

LedgerInv == /\ ledgerFile.path # Torn
             /\ LedgerSaves
             /\ FlowCounted /\ AckedFlowSaved
             /\ Segments

PolicyInv == PolicySaves /\ PolicyArrives /\ PolicyIntact

IInv == TypeOK /\ NothingHeld /\ LedgerInv /\ PolicyInv

-----------------------------------------------------------------------------
(* Types.                                                                  *)

LEMMA TaskTypes ==
  /\ Idle \in Tasks
  /\ \A d \in Directions : [at |-> "direct", direction |-> d] \in Tasks
  /\ \A b \in BOOLEAN : [at |-> "save", flow |-> b] \in Tasks
  /\ \A b \in BOOLEAN, l \in Ledgers, s \in {"fillLedger", "renameLedger"} :
       [at |-> s, flow |-> b, record |-> l] \in Tasks
  /\ \A t \in Targets, s \in {"fillPolicy", "renamePolicy"} :
       [at |-> s, record |-> t] \in Tasks
BY DEF Tasks, Idle

\* What a goroutine carries at each stage.
LEMMA Carried ==
  ASSUME TypeOK, NEW r \in Requests
  PROVE  /\ task[r].at = "direct" => task[r].direction \in Directions
         /\ task[r].at \in {"save", "fillLedger", "renameLedger"}
              => task[r].flow \in BOOLEAN
         /\ task[r].at \in {"fillLedger", "renameLedger"}
              => task[r].record \in Ledgers
         /\ task[r].at \in {"fillPolicy", "renamePolicy"}
              => task[r].record \in Targets
BY DEF TypeOK, Tasks, Idle

\* A goroutine that has written goes on with the record it has.
LEMMA NextStage ==
  ASSUME TypeOK, NEW r \in Requests
  PROVE  /\ task[r].at = "fillLedger" =>
              [task[r] EXCEPT !.at = "renameLedger"]
                = [at |-> "renameLedger", flow |-> task[r].flow,
                   record |-> task[r].record]
         /\ task[r].at = "fillPolicy" =>
              [task[r] EXCEPT !.at = "renamePolicy"]
                = [at |-> "renamePolicy", record |-> task[r].record]
BY DEF TypeOK, Tasks, Idle

LEMMA LedgerTypes ==
  /\ EmptyLedger \in Ledgers
  /\ \A l \in Ledgers : Add(l) \in Ledgers /\ SwitchBase(l) \in Ledgers
  /\ \A l \in Ledgers, d \in Directions : [l EXCEPT !.direction = d] \in Ledgers
<1>1. EmptyLedger \in Ledgers
  BY DEF EmptyLedger, Ledgers, NoFlow
<1>2. ASSUME NEW l \in Ledgers PROVE Add(l) \in Ledgers
  <2> DEFINE d == IF l.direction = None THEN "forward" ELSE l.direction
             n == IF Switching THEN l.along[d] ELSE l.along[d] + 1
             k == IF Switching THEN l.strayed + 1 ELSE l.strayed
  <2>1. d \in Directions /\ l.along[d] \in Nat /\ l.strayed \in Nat /\ l.total \in Nat
    BY DEF Ledgers, Directions
  <2>2. n \in Nat /\ k \in Nat /\ l.total + 1 \in Nat
    BY <2>1
  <2>3. Add(l) = [l EXCEPT !.total = l.total + 1, !.direction = d,
                           !.along = [l.along EXCEPT ![d] = n], !.strayed = k]
    BY <2>1 DEF Add, Ledgers
  <2>4. [l.along EXCEPT ![d] = n] \in [Directions -> Nat]
    BY <2>1, <2>2 DEF Ledgers
  <2> HIDE DEF d, n, k
  <2> QED BY <2>1, <2>2, <2>3, <2>4 DEF Ledgers
<1>3. ASSUME NEW l \in Ledgers PROVE SwitchBase(l) \in Ledgers
  BY DEF SwitchBase, Ledgers, NoFlow
<1>4. ASSUME NEW l \in Ledgers, NEW d \in Directions
      PROVE  [l EXCEPT !.direction = d] \in Ledgers
  BY DEF Ledgers
<1> QED BY <1>1, <1>2, <1>3, <1>4

\* What is left after a write, by what the writer had open.
LEMMA Filled ==
  ASSUME NEW Rs, NEW f \in Store!Files(Rs), NEW r \in Requests, NEW c,
         NEW g \in Store!Fill(f, r, c)
  PROVE  /\ g = [path |-> g.path, tmp |-> g.tmp, at |-> g.at]
         /\ g.at = [f.at EXCEPT ![r] = "closed"]
<1>1. CASE f.at[r] = "tmp"
  <2>1. PICK k \in Store!Overlay(f.tmp, c) :
          g = [[f EXCEPT !.at[r] = "closed"] EXCEPT !.tmp = k]
    BY <1>1 DEF Store!Fill
  <2> QED BY <1>1, <2>1 DEF Store!Files
<1>2. CASE f.at[r] = "path"
  <2>1. PICK k \in Store!Overlay(f.path, c) :
          g = [[f EXCEPT !.at[r] = "closed"] EXCEPT !.path = k]
    BY <1>2 DEF Store!Fill
  <2> QED BY <1>2, <2>1 DEF Store!Files
<1>3. CASE f.at[r] \notin {"tmp", "path"}
  <2>1. g = [f EXCEPT !.at[r] = "closed"]
    BY <1>3 DEF Store!Fill
  <2> QED BY <1>3, <2>1 DEF Store!Files
<1> QED BY <1>1, <1>2, <1>3

LEMMA KeptPath ==
  ASSUME NEW Rs, NEW f \in Store!Files(Rs), NEW r \in Requests, NEW c,
         NEW g \in Store!Fill(f, r, c), f.at[r] # "path"
  PROVE  g.path = f.path
<1>1. CASE f.at[r] = "tmp"
  <2>1. PICK k \in Store!Overlay(f.tmp, c) :
          g = [[f EXCEPT !.at[r] = "closed"] EXCEPT !.tmp = k]
    BY <1>1 DEF Store!Fill
  <2> QED BY <2>1 DEF Store!Files
<1>2. CASE f.at[r] # "tmp"
  <2>1. g = [f EXCEPT !.at[r] = "closed"]
    BY <1>2 DEF Store!Fill
  <2> QED BY <2>1 DEF Store!Files
<1> QED BY <1>1, <1>2

LEMMA KeptTmp ==
  ASSUME NEW Rs, NEW f \in Store!Files(Rs), NEW r \in Requests, NEW c,
         NEW g \in Store!Fill(f, r, c), f.at[r] # "tmp"
  PROVE  g.tmp = f.tmp
<1>1. CASE f.at[r] = "path"
  <2>1. PICK k \in Store!Overlay(f.path, c) :
          g = [[f EXCEPT !.at[r] = "closed"] EXCEPT !.path = k]
    BY <1>1 DEF Store!Fill
  <2> QED BY <2>1 DEF Store!Files
<1>2. CASE f.at[r] # "path"
  <2>1. g = [f EXCEPT !.at[r] = "closed"]
    BY <1>2 DEF Store!Fill
  <2> QED BY <2>1 DEF Store!Files
<1> QED BY <1>1, <1>2

LEMMA FilledTmp ==
  ASSUME NEW Rs, NEW f \in Store!Files(Rs), NEW r \in Requests, NEW c,
         NEW g \in Store!Fill(f, r, c), f.at[r] = "tmp"
  PROVE  g.tmp \in Store!Overlay(f.tmp, c)
<1>1. PICK k \in Store!Overlay(f.tmp, c) :
        g = [[f EXCEPT !.at[r] = "closed"] EXCEPT !.tmp = k]
  BY DEF Store!Fill
<1> QED BY <1>1 DEF Store!Files

LEMMA FilledPath ==
  ASSUME NEW Rs, NEW f \in Store!Files(Rs), NEW r \in Requests, NEW c,
         NEW g \in Store!Fill(f, r, c), f.at[r] = "path"
  PROVE  g.path \in Store!Overlay(f.path, c)
<1>1. PICK k \in Store!Overlay(f.path, c) :
        g = [[f EXCEPT !.at[r] = "closed"] EXCEPT !.path = k]
  BY DEF Store!Fill
<1> QED BY <1>1 DEF Store!Files

\* Every step of a write leaves a file of the records it is given.
LEMMA FileTypes ==
  ASSUME NEW Rs, NEW f \in Store!Files(Rs), NEW r \in Requests, NEW c \in Rs
  PROVE  /\ Store!Truncate(f, r) \in Store!Files(Rs)
         /\ Store!Fill(f, r, c) \subseteq Store!Files(Rs)
         /\ Store!Abandon(f, r) \in Store!Files(Rs)
         /\ Store!Rename(f) \in Store!Files(Rs)
<1> USE DEF Store!Files, Store!Contents, Store!Handles
<1>1. Store!Truncate(f, r) \in Store!Files(Rs)
  BY DEF Store!Truncate
<1>2. Store!Fill(f, r, c) \subseteq Store!Files(Rs)
  <2> SUFFICES ASSUME NEW g \in Store!Fill(f, r, c) PROVE g \in Store!Files(Rs)
    OBVIOUS
  <2>1. \A old : Store!Overlay(old, c) \subseteq Store!Contents(Rs)
    BY DEF Store!Overlay
  <2>2. /\ f.path \in Store!Contents(Rs) /\ f.tmp \in Store!Contents(Rs)
        /\ f.at \in [Requests -> Store!Handles]
    OBVIOUS
  <2>3. /\ g = [path |-> g.path, tmp |-> g.tmp, at |-> g.at]
        /\ g.at \in [Requests -> Store!Handles]
    <3> HIDE DEF Store!Files, Store!Contents
    <3>1. /\ g = [path |-> g.path, tmp |-> g.tmp, at |-> g.at]
          /\ g.at = [f.at EXCEPT ![r] = "closed"]
      BY Filled
    <3> QED BY <2>2, <3>1
  <2>4. g.path \in Store!Contents(Rs)
    <3> HIDE DEF Store!Files, Store!Contents
    <3> QED BY <2>1, <2>2, KeptPath, FilledPath
  <2>5. g.tmp \in Store!Contents(Rs)
    <3> HIDE DEF Store!Files, Store!Contents
    <3> QED BY <2>1, <2>2, KeptTmp, FilledTmp
  <2> QED BY <2>3, <2>4, <2>5
<1>3. Store!Abandon(f, r) \in Store!Files(Rs)
  BY DEF Store!Abandon
<1>4. Store!Rename(f) \in Store!Files(Rs)
  BY DEF Store!Rename, Store!Renamed
<1> QED BY <1>1, <1>2, <1>3, <1>4

LEMMA ClosedFileTypes ==
  ASSUME NEW Rs
  PROVE  /\ \A f \in Store!Files(Rs) : Store!CloseAll(f) \in Store!Files(Rs)
         /\ \A c \in Rs : Store!FileWith(c) \in Store!Files(Rs)
BY DEF Store!Files, Store!Contents, Store!Handles, Store!CloseAll, Store!FileWith

LEMMA LoadedTypes ==
  ASSUME TypeOK
  PROVE  LoadedLedger \in Ledgers /\ LoadedTarget \in Targets
BY LedgerTypes, TargetsAssumption
DEF TypeOK, LoadedLedger, LoadedTarget, Store!Decodes, Store!Files, Store!Contents

LEMMA InitInvariant == Init => IInv
<1> SUFFICES ASSUME Init PROVE IInv
  OBVIOUS
<1>1. /\ EmptyLedger \in Ledgers /\ RunsOneWay(EmptyLedger)
      /\ EmptyLedger.total = 0 /\ EmptyLedger.along = NoFlow
  BY LedgerTypes, NoneAssumption DEF EmptyLedger, RunsOneWay, NoFlow
<1>2. /\ ledgerFile \in Store!Files(Ledgers) /\ policyFile \in Store!Files(Targets)
      /\ ledgerFile.path = Missing /\ policyFile.path = DefaultTarget
  BY TargetsAssumption
  DEF Init, Store!FileWith, Store!Files, Store!Contents, Store!Handles
<1>3. \A r \in Requests : task[r] = Idle /\ Idle.at = "idle"
  BY DEF Init, Idle
<1>4. TypeOK
  BY <1>1, <1>2, TaskTypes, TargetsAssumption DEF Init, TypeOK
<1>5. Unanswered = {} /\ Cardinality(Unanswered) = 0 /\ IsFiniteSet(Unanswered)
  BY <1>3, FS_EmptySet DEF Unanswered, SavingLedger
<1>6. LoadedLedger = EmptyLedger
  BY <1>2 DEF LoadedLedger, Store!Decodes
<1>7. LedgerInv
  BY <1>1, <1>2, <1>3, <1>5, <1>6, ContentAssumption
  DEF Init, LedgerInv, LedgerSaves, SavingLedger, FlowCounted, AckedFlowSaved,
      Segments, Switching
<1>8. WritingPolicy = {}
  BY DEF Init, WritingPolicy
<1>9. PolicyInv
  BY <1>2, <1>3, <1>8, TargetsAssumption
  DEF Init, PolicyInv, PolicySaves, SavingPolicy, PolicyArrives, PolicyIntact,
      FillingPolicy
<1> QED BY <1>4, <1>7, <1>9 DEF IInv, NothingHeld, Init

LEMMA TypeStep == TypeOK /\ [Next]_vars => TypeOK'
<1> SUFFICES ASSUME TypeOK, [Next]_vars PROVE TypeOK'
  OBVIOUS
<1> USE TaskTypes, LedgerTypes
<1>a. /\ up \in BOOLEAN /\ ledger \in Ledgers /\ holder \in Requests \cup {Nobody}
      /\ target \in Targets /\ readers \subseteq Requests
      /\ writer \in Requests \cup {Nobody}
      /\ ledgerFile \in Store!Files(Ledgers) /\ policyFile \in Store!Files(Targets)
      /\ task \in [Requests -> Tasks] /\ requests \in Nat /\ restarts \in Nat
      /\ acked \in Nat /\ unsaved \subseteq {"ledger", "policy"}
      /\ overlapped \in BOOLEAN
  BY DEF TypeOK
<1>b. ASSUME NEW r \in Requests, NEW t \in Tasks, Continue(r, t)
      PROVE  task' \in [Requests -> Tasks]
  BY <1>a, <1>b DEF Continue
<1>c. ASSUME NEW r \in Requests, NEW c \in Ledgers
      PROVE  /\ Store!Truncate(ledgerFile, r) \in Store!Files(Ledgers)
             /\ Store!Fill(ledgerFile, r, c) \subseteq Store!Files(Ledgers)
             /\ Store!Abandon(ledgerFile, r) \in Store!Files(Ledgers)
             /\ Store!Rename(ledgerFile) \in Store!Files(Ledgers)
  BY <1>a, FileTypes
<1>d. ASSUME NEW r \in Requests, NEW c \in Targets
      PROVE  /\ Store!Truncate(policyFile, r) \in Store!Files(Targets)
             /\ Store!Fill(policyFile, r, c) \subseteq Store!Files(Targets)
             /\ Store!Abandon(policyFile, r) \in Store!Files(Targets)
             /\ Store!Rename(policyFile) \in Store!Files(Targets)
  BY <1>a, FileTypes
<1>e. /\ Store!CloseAll(ledgerFile) \in Store!Files(Ledgers)
      /\ Store!CloseAll(policyFile) \in Store!Files(Targets)
      /\ Store!FileWith(EmptyLedger) \in Store!Files(Ledgers)
      /\ Store!FileWith(DefaultTarget) \in Store!Files(Targets)
  BY <1>a, ClosedFileTypes, TargetsAssumption
<1>1. ASSUME NEW r \in Requests, FlowRequest(r) PROVE TypeOK'
  <2>1. [at |-> "save", flow |-> TRUE] \in Tasks
    OBVIOUS
  <2>2. ledger' \in Ledgers
    BY <1>1, <1>a DEF FlowRequest
  <2> QED BY <1>1, <1>a, <1>b, <2>1, <2>2
          DEF FlowRequest, Begin, locks, files, history, TypeOK
<1>2. ASSUME NEW r \in Requests, DirectionRequest(r) PROVE TypeOK'
  <2>1. PICK d \in Directions : /\ Begin(r, [at |-> "direct", direction |-> d])
                                /\ ledger' = SwitchBase(ledger)
    BY <1>2 DEF DirectionRequest
  <2>2. ledger' \in Ledgers /\ task' \in [Requests -> Tasks]
    BY <1>a, <1>b, <2>1 DEF Begin
  <2> QED BY <1>2, <1>a, <2>2
          DEF DirectionRequest, Begin, locks, files, history, TypeOK
<1>3. ASSUME NEW r \in Requests, PublishRequest(r) PROVE TypeOK'
  <2>1. PICK t \in Targets : /\ Begin(r, [at |-> "fillPolicy", record |-> t])
                             /\ target' = t
    BY <1>3 DEF PublishRequest
  <2>2. task' \in [Requests -> Tasks]
    BY <1>b, <2>1 DEF Begin
  <2> QED BY <1>3, <1>a, <1>d, <2>1, <2>2
          DEF PublishRequest, Begin, OpenPolicy, TypeOK
<1>4. ASSUME NEW r \in Requests, PersistRequest(r) PROVE TypeOK'
  <2>1. task' \in [Requests -> Tasks]
    BY <1>4, <1>a, <1>b DEF PersistRequest, Begin
  <2> QED BY <1>4, <1>a, <1>d, <2>1
          DEF PersistRequest, Begin, OpenPolicy, TypeOK
<1>5. ASSUME NEW r \in Requests, SetDirection(r) PROVE TypeOK'
  BY <1>5, <1>a, <1>b, Carried
  DEF SetDirection, At, locks, files, history, bounds, TypeOK
<1>6. ASSUME NEW r \in Requests, SaveLedger(r) PROVE TypeOK'
  <2>1. task[r].flow \in BOOLEAN
    BY <1>6, Carried DEF SaveLedger, At
  <2>2. task' \in [Requests -> Tasks]
    BY <1>6, <1>a, <1>b, <2>1 DEF SaveLedger
  <2> QED BY <1>6, <1>a, <1>c, <2>2 DEF SaveLedger, memory, history, bounds, TypeOK
<1>7. ASSUME NEW r \in Requests, FillLedger(r) PROVE TypeOK'
  <2>1. task[r].flow \in BOOLEAN /\ task[r].record \in Ledgers
    BY <1>7, Carried DEF FillLedger, At
  <2>2. [task[r] EXCEPT !.at = "renameLedger"] \in Tasks
    <3>1. [task[r] EXCEPT !.at = "renameLedger"]
            = [at |-> "renameLedger", flow |-> task[r].flow, record |-> task[r].record]
      BY <1>7, NextStage DEF FillLedger, At
    <3> QED BY <2>1, <3>1
  <2>3. task' \in [Requests -> Tasks]
    BY <1>7, <1>b, <2>2 DEF FillLedger, AnswerMeter
  <2>4. ledgerFile' \in Store!Files(Ledgers)
    BY <1>7, <1>a, <1>c, <2>1 DEF FillLedger
  <2> QED BY <1>7, <1>a, <2>3, <2>4
          DEF FillLedger, AnswerMeter, UnlockLedger, memory, bounds, TypeOK
<1>8. ASSUME NEW r \in Requests, RenameLedger(r) PROVE TypeOK'
  <2>1. task' \in [Requests -> Tasks]
    BY <1>8, <1>b DEF RenameLedger, AnswerMeter
  <2> QED BY <1>8, <1>a, <1>c, <2>1
          DEF RenameLedger, AnswerMeter, UnlockLedger, memory, bounds, TypeOK
<1>9. ASSUME NEW r \in Requests, FillPolicy(r) PROVE TypeOK'
  <2>1. task[r].record \in Targets
    BY <1>9, Carried DEF FillPolicy, At
  <2>2. [task[r] EXCEPT !.at = "renamePolicy"] \in Tasks
    BY <1>9, <2>1, NextStage DEF FillPolicy, At
  <2>3. task' \in [Requests -> Tasks]
    BY <1>9, <1>b, <2>2 DEF FillPolicy, AnswerPolicy
  <2>4. policyFile' \in Store!Files(Targets)
    BY <1>9, <1>a, <1>d, <2>1 DEF FillPolicy
  <2> QED BY <1>9, <1>a, <2>3, <2>4
          DEF FillPolicy, AnswerPolicy, memory, bounds, TypeOK
<1>10. ASSUME NEW r \in Requests, RenamePolicy(r) PROVE TypeOK'
  <2>1. task' \in [Requests -> Tasks]
    BY <1>10, <1>b DEF RenamePolicy, AnswerPolicy
  <2>2. policyFile' \in Store!Files(Targets)
    BY <1>10, <1>a, <1>d, TargetsAssumption DEF RenamePolicy
  <2> QED BY <1>10, <1>a, <2>1, <2>2
          DEF RenamePolicy, AnswerPolicy, memory, bounds, history, TypeOK
<1>11. CASE Crash
  BY <1>11, <1>a, <1>e DEF Crash, memory, bounds, history, TypeOK
<1>12. CASE Restart
  <2>1. LoadedLedger.total \in Nat
    BY LoadedTypes DEF Ledgers
  <2>2. LoadedLedger \in Ledgers /\ LoadedTarget \in Targets
    BY LoadedTypes
  <2>3. ledgerFile' \in Store!Files(Ledgers) /\ policyFile' \in Store!Files(Targets)
    BY <1>12, <1>a, <1>e DEF Restart
  <2>4. restarts' \in Nat
    BY <1>12, <1>a DEF Restart
  <2>5. up' \in BOOLEAN /\ unsaved' \subseteq {"ledger", "policy"} /\ overlapped' \in BOOLEAN
    BY <1>12 DEF Restart
  <2>6. /\ ledger' = LoadedLedger /\ target' = LoadedTarget /\ acked' = LoadedLedger.total
        /\ UNCHANGED <<holder, readers, writer, task, requests>>
    BY <1>12 DEF Restart, locks
  <2> QED BY <1>a, <2>1, <2>2, <2>3, <2>4, <2>5, <2>6 DEF TypeOK
<1>13. CASE UNCHANGED vars
  BY <1>13, <1>a DEF vars, memory, locks, files, bounds, history, TypeOK
<1> QED BY <1>1, <1>2, <1>3, <1>4, <1>5, <1>6, <1>7, <1>8, <1>9, <1>10, <1>11,
           <1>12, <1>13 DEF Next, Request, Stage

-----------------------------------------------------------------------------
(* The ledger.                                                             *)

LEMMA Continued ==
  ASSUME TypeOK, NEW r \in Requests, NEW t, Continue(r, t)
  PROVE  task'[r] = t /\ \A q \in Requests \ {r} : task'[q] = task[q]
BY DEF TypeOK, Continue

\* Steps of other requests leave the ledger's part alone.
LEMMA LedgerFrame ==
  ASSUME LedgerInv, UNCHANGED <<ledger, holder, ledgerFile, acked>>,
         "ledger" \in unsaved <=> "ledger" \in unsaved',
         \A q \in Requests :
           \/ task'[q] = task[q]
           \/ /\ task[q].at \notin {"direct", "save", "fillLedger", "renameLedger"}
              /\ task'[q].at \notin {"direct", "save", "fillLedger", "renameLedger"}
  PROVE  LedgerInv'
<1>1. Unanswered' = Unanswered
  BY DEF Unanswered, SavingLedger
<1>2. Switching' = Switching /\ LoadedLedger' = LoadedLedger
  BY DEF Switching, LoadedLedger, Store!Decodes
<1>3. LedgerSaves'
  BY DEF LedgerInv, LedgerSaves, SavingLedger
<1>4. FlowCounted' /\ AckedFlowSaved'
  BY <1>1, <1>2 DEF LedgerInv, FlowCounted, AckedFlowSaved
<1>5. Segments'
  BY <1>2 DEF LedgerInv, Segments, RunsOneWay
<1> QED BY <1>3, <1>4, <1>5 DEF LedgerInv

LEMMA AddRuns ==
  ASSUME NEW l \in Ledgers, RunsOneWay(l), Switching => l.along = NoFlow
  PROVE  /\ RunsOneWay(Add(l)) /\ Add(l).total = l.total + 1
         /\ Switching => Add(l).along = NoFlow
<1> DEFINE d == IF l.direction = None THEN "forward" ELSE l.direction
<1>1. /\ d \in Directions /\ l.along \in [Directions -> Nat]
      /\ l.total \in Nat /\ l.base \in Nat /\ l.strayed \in Nat
      /\ l.direction \in Directions \cup {None}
  BY DEF Ledgers, Directions
<1>2. /\ Add(l).total = l.total + 1 /\ Add(l).base = l.base
      /\ Add(l).direction = d
      /\ Add(l).along = [l.along EXCEPT ![d] = IF Switching THEN @ ELSE @ + 1]
      /\ Add(l).strayed = IF Switching THEN l.strayed + 1 ELSE l.strayed
  BY <1>1 DEF Add, Ledgers
<1>3. \A e \in Directions \ {d} : l.along[e] = 0
  BY <1>1, NoneAssumption DEF RunsOneWay
<1>4. l.total - l.base = l.along[d] + l.strayed
  <2>1. CASE l.direction = None
    BY <1>1, <2>1, NoneAssumption DEF RunsOneWay
  <2>2. CASE l.direction # None
    BY <1>1, <2>2 DEF RunsOneWay
  <2> QED BY <2>1, <2>2
<1> HIDE DEF d
<1>5. d # None
  BY <1>1, NoneAssumption
<1>6. CASE Switching
  <2>1. Add(l).along = l.along
    BY <1>1, <1>2, <1>6
  <2> QED BY <1>1, <1>2, <1>3, <1>4, <1>5, <1>6, <2>1 DEF RunsOneWay
<1>7. CASE ~Switching
  <2>1. /\ Add(l).along[d] = l.along[d] + 1
        /\ \A e \in Directions \ {d} : Add(l).along[e] = l.along[e]
    BY <1>1, <1>2, <1>7
  <2> QED BY <1>1, <1>2, <1>3, <1>4, <1>5, <1>7, <2>1 DEF RunsOneWay
<1> QED BY <1>6, <1>7

\* The answer of a request whose save ended, well or not.
LEMMA Answered ==
  ASSUME TypeOK, LedgerInv, NEW r \in Requests, SavingLedger(r),
         AnswerMeter(r), UNCHANGED ledger
  PROVE  /\ FlowCounted' /\ ledger.total >= acked'
         /\ \A q \in Requests : ~SavingLedger(q)'
         /\ Switching' = Switching
<1>1. task'[r] = Idle /\ \A q \in Requests \ {r} : task'[q] = task[q]
  BY Continued DEF AnswerMeter
<1>2. \A q \in Requests : ~SavingLedger(q)'
  BY <1>1 DEF LedgerInv, LedgerSaves, SavingLedger, Idle
<1>3. Switching' = Switching
  BY <1>1 DEF Switching, SavingLedger, Idle
<1>4. Unanswered' = Unanswered \ {r}
  BY <1>1 DEF Unanswered, SavingLedger, Idle
<1>5. /\ IsFiniteSet(Unanswered) /\ IsFiniteSet(Unanswered \ {r})
      /\ Cardinality(Unanswered) \in Nat /\ Cardinality(Unanswered \ {r}) \in Nat
      /\ Cardinality(Unanswered \ {r}) =
           IF r \in Unanswered THEN Cardinality(Unanswered) - 1
                               ELSE Cardinality(Unanswered)
  BY FS_RemoveElement, FS_CardinalityType DEF LedgerInv, FlowCounted
<1>6. r \in Unanswered <=> task[r].flow
  BY DEF Unanswered
<1>7. acked \in Nat /\ ledger.total \in Nat
  BY DEF TypeOK, Ledgers
<1>8. /\ ledger.total >= acked + Cardinality(Unanswered)
      /\ acked' = IF task[r].flow THEN acked + 1 ELSE acked
  BY DEF LedgerInv, FlowCounted, AnswerMeter
<1>9. /\ ledger.total >= acked' + Cardinality(Unanswered \ {r})
      /\ ledger.total >= acked'
  BY <1>5, <1>6, <1>7, <1>8
<1>10. FlowCounted'
  BY <1>4, <1>5, <1>9 DEF FlowCounted
<1> QED BY <1>2, <1>3, <1>9, <1>10

LEMMA FlowStep ==
  ASSUME TypeOK, LedgerInv, NEW r \in Requests, FlowRequest(r)
  PROVE  LedgerInv'
<1>1. /\ task[r].at = "idle"
      /\ task'[r] = [at |-> "save", flow |-> TRUE]
      /\ \A q \in Requests \ {r} : task'[q] = task[q]
  BY Continued DEF FlowRequest, Begin, At
<1>2. /\ holder = Nobody /\ ledger' = Add(ledger)
      /\ UNCHANGED <<ledgerFile, acked, unsaved>>
  BY DEF FlowRequest, LedgerFree, files, history
<1>3. \A q \in Requests : ~SavingLedger(q) /\ ~SavingLedger(q)'
  BY <1>1, <1>2, NobodyAssumption DEF LedgerInv, LedgerSaves, SavingLedger
<1>4. Switching' = Switching /\ LoadedLedger' = LoadedLedger
  BY <1>1, <1>2 DEF Switching, LoadedLedger, Store!Decodes
<1>5. /\ RunsOneWay(ledger') /\ ledger'.total = ledger.total + 1
      /\ Switching => ledger'.along = NoFlow
  BY <1>2, AddRuns DEF TypeOK, LedgerInv, Segments
<1>6. Unanswered' = Unanswered \cup {r} /\ r \notin Unanswered
  BY <1>1 DEF Unanswered, SavingLedger
<1>7. /\ IsFiniteSet(Unanswered') /\ Cardinality(Unanswered) \in Nat
      /\ Cardinality(Unanswered') = Cardinality(Unanswered) + 1
  BY <1>6, FS_AddElement, FS_CardinalityType DEF LedgerInv, FlowCounted
<1>8. FlowCounted'
  BY <1>2, <1>5, <1>7 DEF LedgerInv, FlowCounted, TypeOK, Ledgers
<1>9. Segments'
  BY <1>4, <1>5 DEF LedgerInv, Segments, RunsOneWay
<1> QED BY <1>2, <1>3, <1>4, <1>8, <1>9
        DEF LedgerInv, LedgerSaves, AckedFlowSaved

LEMMA DirectionStep ==
  ASSUME TypeOK, LedgerInv, NEW r \in Requests, DirectionRequest(r)
  PROVE  LedgerInv'
<1>1. PICK d \in Directions : Begin(r, [at |-> "direct", direction |-> d])
  BY DEF DirectionRequest
<1>2. /\ task[r].at = "idle"
      /\ task'[r] = [at |-> "direct", direction |-> d]
      /\ \A q \in Requests \ {r} : task'[q] = task[q]
  BY <1>1, Continued DEF Begin, At
<1>3. /\ holder = Nobody /\ ledger' = SwitchBase(ledger)
      /\ UNCHANGED <<ledgerFile, acked, unsaved>>
  BY DEF DirectionRequest, LedgerFree, files, history
<1>4. \A q \in Requests : ~SavingLedger(q) /\ ~SavingLedger(q)'
  BY <1>2, <1>3, NobodyAssumption DEF LedgerInv, LedgerSaves, SavingLedger
<1>5. LoadedLedger' = LoadedLedger
  BY <1>3 DEF LoadedLedger, Store!Decodes
<1>6. /\ ledger'.total = ledger.total /\ ledger'.along = NoFlow
      /\ RunsOneWay(ledger')
  BY <1>3 DEF SwitchBase, TypeOK, Ledgers, RunsOneWay, NoFlow
<1>7. Unanswered' = Unanswered
  BY <1>2 DEF Unanswered, SavingLedger
<1>8. FlowCounted'
  BY <1>3, <1>6, <1>7 DEF LedgerInv, FlowCounted
<1>9. Segments'
  BY <1>5, <1>6 DEF LedgerInv, Segments, RunsOneWay
<1> QED BY <1>3, <1>4, <1>5, <1>8, <1>9
        DEF LedgerInv, LedgerSaves, AckedFlowSaved

LEMMA SetDirectionStep ==
  ASSUME TypeOK, LedgerInv, NEW r \in Requests, SetDirection(r)
  PROVE  LedgerInv'
<1>1. /\ task[r].at = "direct" /\ task[r].direction \in Directions
      /\ task'[r] = [at |-> "save", flow |-> FALSE]
      /\ \A q \in Requests \ {r} : task'[q] = task[q]
  BY Continued, Carried DEF SetDirection, At
<1>2. /\ holder = Nobody
      /\ ledger' = [ledger EXCEPT !.direction = task[r].direction]
      /\ UNCHANGED <<ledgerFile, acked, unsaved>>
  BY DEF SetDirection, LedgerFree, files, history
<1>3. \A q \in Requests : ~SavingLedger(q) /\ ~SavingLedger(q)'
  BY <1>1, <1>2, NobodyAssumption DEF LedgerInv, LedgerSaves, SavingLedger
<1>4. LoadedLedger' = LoadedLedger
  BY <1>2 DEF LoadedLedger, Store!Decodes
<1>5. ledger.along = NoFlow
  BY <1>1 DEF LedgerInv, Segments, Switching
<1>6. /\ ledger'.total = ledger.total /\ ledger'.along = NoFlow
      /\ ledger'.base = ledger.base /\ ledger'.strayed = ledger.strayed
      /\ ledger'.direction \in Directions
  BY <1>1, <1>2, <1>5 DEF TypeOK, Ledgers
<1>7. RunsOneWay(ledger')
  BY <1>5, <1>6, NoneAssumption
  DEF TypeOK, Ledgers, LedgerInv, Segments, RunsOneWay, NoFlow
<1>8. Unanswered' = Unanswered
  BY <1>1 DEF Unanswered, SavingLedger
<1>9. FlowCounted'
  BY <1>2, <1>6, <1>8 DEF LedgerInv, FlowCounted
<1>10. Segments'
  BY <1>4, <1>6, <1>7 DEF LedgerInv, Segments, RunsOneWay
<1> QED BY <1>2, <1>3, <1>4, <1>9, <1>10
        DEF LedgerInv, LedgerSaves, AckedFlowSaved

LEMMA SaveLedgerStep ==
  ASSUME TypeOK, LedgerInv, NEW r \in Requests, SaveLedger(r)
  PROVE  LedgerInv'
<1>1. /\ task[r].at = "save"
      /\ task'[r] = [at |-> "fillLedger", flow |-> task[r].flow, record |-> ledger]
      /\ \A q \in Requests \ {r} : task'[q] = task[q]
  BY Continued DEF SaveLedger, At
<1>2. /\ holder = Nobody /\ holder' = r
      /\ UNCHANGED <<ledger, acked, unsaved>>
  BY DEF SaveLedger, LedgerFree, memory, history
<1>3. /\ ledgerFile'.path = ledgerFile.path /\ ledgerFile'.tmp = Torn
      /\ ledgerFile'.at[r] = "tmp"
  BY DEF SaveLedger, Store!Truncate, TypeOK, Store!Files
<1>4. \A q \in Requests : ~SavingLedger(q)
  BY <1>2, NobodyAssumption DEF LedgerInv, LedgerSaves
<1>5. LedgerSaves'
  BY <1>1, <1>2, <1>3, <1>4 DEF LedgerSaves, SavingLedger
<1>6. Unanswered' = Unanswered /\ Switching' = Switching
  BY <1>1 DEF Unanswered, SavingLedger, Switching
<1>7. LoadedLedger' = LoadedLedger
  BY <1>3 DEF LoadedLedger, Store!Decodes
<1> QED BY <1>2, <1>3, <1>5, <1>6, <1>7
        DEF LedgerInv, FlowCounted, AckedFlowSaved, Segments, RunsOneWay

LEMMA FillLedgerStep ==
  ASSUME TypeOK, LedgerInv, NEW r \in Requests, FillLedger(r)
  PROVE  LedgerInv'
<1>1. /\ task[r].at = "fillLedger" /\ SavingLedger(r)
      /\ task[r].record \in Ledgers /\ task[r].flow \in BOOLEAN
      /\ task[r].record = ledger /\ holder = r
      /\ ledgerFile.tmp = Torn /\ ledgerFile.at[r] = "tmp"
  BY Carried DEF FillLedger, At, SavingLedger, LedgerInv, LedgerSaves
<1>2. UNCHANGED ledger
  BY DEF FillLedger, memory
<1>3. CASE /\ ledgerFile' \in Store!Fill(ledgerFile, r, task[r].record)
           /\ Continue(r, [task[r] EXCEPT !.at = "renameLedger"])
           /\ UNCHANGED <<holder, acked, unsaved>>
  <2>1. /\ task'[r] = [at |-> "renameLedger", flow |-> task[r].flow, record |-> ledger]
        /\ \A q \in Requests \ {r} : task'[q] = task[q]
    <3>1. [task[r] EXCEPT !.at = "renameLedger"]
            = [at |-> "renameLedger", flow |-> task[r].flow, record |-> ledger]
      BY <1>1, NextStage
    <3>2. /\ task'[r] = [task[r] EXCEPT !.at = "renameLedger"]
          /\ \A q \in Requests \ {r} : task'[q] = task[q]
      BY <1>3, Continued
    <3> QED BY <3>1, <3>2
  <2>2. ledgerFile'.path = ledgerFile.path /\ ledgerFile'.tmp = ledger
    <3>1. /\ ledgerFile'.path = ledgerFile.path
          /\ ledgerFile'.tmp \in Store!Overlay(Torn, ledger)
      <4>1. ledgerFile \in Store!Files(Ledgers)
        BY DEF TypeOK
      <4>2. ledgerFile' \in Store!Fill(ledgerFile, r, ledger)
        BY <1>1, <1>3
      <4>3. ledgerFile'.path = ledgerFile.path
        BY <1>1, <4>1, <4>2, KeptPath
      <4>4. ledgerFile'.tmp \in Store!Overlay(ledgerFile.tmp, ledger)
        BY <1>1, <4>1, <4>2, FilledTmp
      <4> QED BY <1>1, <4>3, <4>4
    <3> QED BY <3>1 DEF Store!Overlay
  <2>3. LedgerSaves'
    BY <1>1, <1>2, <1>3, <2>1, <2>2 DEF LedgerInv, LedgerSaves, SavingLedger
  <2>4. Unanswered' = Unanswered /\ Switching' = Switching
    BY <1>1, <2>1 DEF Unanswered, SavingLedger, Switching
  <2>5. LoadedLedger' = LoadedLedger
    BY <2>2 DEF LoadedLedger, Store!Decodes
  <2> QED BY <1>2, <1>3, <2>2, <2>3, <2>4, <2>5
          DEF LedgerInv, FlowCounted, AckedFlowSaved, Segments, RunsOneWay
<1>4. CASE /\ ledgerFile' = Store!Abandon(ledgerFile, r)
           /\ AnswerMeter(r)
           /\ unsaved' = unsaved \cup {"ledger"}
  <2>1. ledgerFile'.path = ledgerFile.path
    BY <1>4 DEF Store!Abandon, TypeOK, Store!Files
  <2>2. LoadedLedger' = LoadedLedger
    BY <2>1 DEF LoadedLedger, Store!Decodes
  <2> QED BY <1>1, <1>2, <1>4, <2>1, <2>2, Answered
          DEF LedgerInv, LedgerSaves, AckedFlowSaved, Segments, RunsOneWay
<1> QED BY <1>3, <1>4 DEF FillLedger

LEMMA RenameLedgerStep ==
  ASSUME TypeOK, LedgerInv, NEW r \in Requests, RenameLedger(r)
  PROVE  LedgerInv' /\ LoadedLedger' = ledger
<1>1. /\ task[r].at = "renameLedger" /\ SavingLedger(r)
      /\ ledgerFile.tmp = ledger /\ ledger \in Ledgers
  BY DEF RenameLedger, At, SavingLedger, LedgerInv, LedgerSaves, TypeOK
<1>2. UNCHANGED ledger /\ AnswerMeter(r)
  BY DEF RenameLedger, memory
<1>3. ledgerFile' = Store!Rename(ledgerFile)
  BY <1>1, ContentAssumption DEF RenameLedger, Store!RenameFails
<1>4. ledgerFile'.path = ledger
  BY <1>1, <1>3 DEF Store!Rename
<1>5. LoadedLedger' = ledger
  BY <1>1, <1>4, ContentAssumption DEF LoadedLedger, Store!Decodes
<1> QED BY <1>1, <1>2, <1>4, <1>5, Answered, ContentAssumption
        DEF LedgerInv, LedgerSaves, AckedFlowSaved, Segments, RunsOneWay

\* A process that starts has no request under way.
LEMMA QuietLedger ==
  ASSUME \A r \in Requests : task'[r] = Idle
  PROVE  /\ Unanswered' = {} /\ ~Switching'
         /\ IsFiniteSet(Unanswered') /\ Cardinality(Unanswered') = 0
         /\ \A r \in Requests : ~SavingLedger(r)'
<1>1. Unanswered' = {} /\ ~Switching' /\ \A r \in Requests : ~SavingLedger(r)'
  BY DEF Unanswered, Switching, SavingLedger, Idle
<1> QED BY <1>1, FS_EmptySet

LEMMA CrashLedger ==
  ASSUME TypeOK, LedgerInv, Crash
  PROVE  LedgerInv'
<1>1. /\ UNCHANGED <<ledger, acked, unsaved>>
      /\ \A r \in Requests : task'[r] = Idle
      /\ ledgerFile'.path = ledgerFile.path
  BY DEF Crash, memory, history, Store!CloseAll, TypeOK, Store!Files
<1>2. LoadedLedger' = LoadedLedger
  BY <1>1 DEF LoadedLedger, Store!Decodes
<1>3. Cardinality(Unanswered) \in Nat
  BY FS_CardinalityType DEF LedgerInv, FlowCounted
<1>4. FlowCounted'
  BY <1>1, <1>3, QuietLedger DEF LedgerInv, FlowCounted, TypeOK, Ledgers
<1> QED BY <1>1, <1>2, <1>4, QuietLedger
        DEF LedgerInv, LedgerSaves, AckedFlowSaved, Segments, RunsOneWay

LEMMA RestartLedger ==
  ASSUME TypeOK, NothingHeld, LedgerInv, Restart
  PROVE  LedgerInv'
<1>1. /\ ledger' = LoadedLedger /\ acked' = LoadedLedger.total
      /\ \A r \in Requests : task'[r] = Idle
      /\ ledgerFile' = ledgerFile
  BY DEF Restart, NothingHeld, LedgerInv
<1>2. LoadedLedger' = LoadedLedger
  BY <1>1 DEF LoadedLedger, Store!Decodes
<1>3. LoadedLedger.total \in Nat
  BY LoadedTypes DEF Ledgers
<1>4. FlowCounted' /\ AckedFlowSaved'
  BY <1>1, <1>2, <1>3, QuietLedger DEF FlowCounted, AckedFlowSaved
<1> QED BY <1>1, <1>2, <1>4, QuietLedger
        DEF LedgerInv, LedgerSaves, Segments, RunsOneWay

LEMMA LedgerStep ==
  ASSUME TypeOK, NothingHeld, LedgerInv, [Next]_vars
  PROVE  LedgerInv'
<1>1. ASSUME NEW r \in Requests, Request(r) PROVE LedgerInv'
  <2>1. ASSUME PublishRequest(r) \/ PersistRequest(r) PROVE LedgerInv'
    <3>1. UNCHANGED <<ledger, holder, ledgerFile, acked>>
      BY <2>1 DEF PublishRequest, PersistRequest, OpenPolicy
    <3>2. "ledger" \in unsaved <=> "ledger" \in unsaved'
      BY <2>1 DEF PublishRequest, PersistRequest, OpenPolicy
    <3>3. /\ task[r].at = "idle" /\ task'[r].at = "fillPolicy"
          /\ \A q \in Requests \ {r} : task'[q] = task[q]
      <4>1. PICK t : t.at = "fillPolicy" /\ Begin(r, t)
        <5>1. \A c : [at |-> "fillPolicy", record |-> c].at = "fillPolicy"
          OBVIOUS
        <5> QED BY <2>1, <5>1 DEF PublishRequest, PersistRequest
      <4> QED BY <4>1, Continued DEF Begin, At
    <3> QED BY <3>1, <3>2, <3>3, LedgerFrame
  <2> QED BY <1>1, <2>1, FlowStep, DirectionStep DEF Request
<1>2. ASSUME NEW r \in Requests, Stage(r) PROVE LedgerInv'
  <2>1. ASSUME FillPolicy(r) \/ RenamePolicy(r) PROVE LedgerInv'
    <3>1. UNCHANGED <<ledger, holder, ledgerFile, acked>>
      BY <2>1 DEF FillPolicy, RenamePolicy, memory, history
    <3>2. "ledger" \in unsaved <=> "ledger" \in unsaved'
      BY <2>1 DEF FillPolicy, RenamePolicy, history
    <3>3. /\ task[r].at \in {"fillPolicy", "renamePolicy"}
          /\ task'[r].at \in {"idle", "renamePolicy"}
          /\ \A q \in Requests \ {r} : task'[q] = task[q]
      <4>1. ASSUME Continue(r, Idle)
            PROVE  /\ task'[r].at = "idle"
                   /\ \A q \in Requests \ {r} : task'[q] = task[q]
        BY <4>1, Continued DEF Idle
      <4>2. CASE FillPolicy(r)
        <5>1. ASSUME Continue(r, [task[r] EXCEPT !.at = "renamePolicy"])
              PROVE  /\ task'[r].at = "renamePolicy"
                     /\ \A q \in Requests \ {r} : task'[q] = task[q]
          <6>1. [task[r] EXCEPT !.at = "renamePolicy"].at = "renamePolicy"
            BY <4>2, NextStage DEF FillPolicy, At
          <6> QED BY <5>1, <6>1, Continued
        <5> QED BY <4>1, <4>2, <5>1 DEF FillPolicy, AnswerPolicy, At
      <4>3. CASE RenamePolicy(r)
        BY <4>1, <4>3 DEF RenamePolicy, AnswerPolicy, At
      <4> QED BY <2>1, <4>2, <4>3
    <3> QED BY <3>1, <3>2, <3>3, LedgerFrame
  <2> QED BY <1>2, <2>1, SetDirectionStep, SaveLedgerStep, FillLedgerStep,
             RenameLedgerStep DEF Stage
<1>3. CASE UNCHANGED vars
  BY <1>3, LedgerFrame DEF vars, memory, locks, files, history
<1> QED BY <1>1, <1>2, <1>3, CrashLedger, RestartLedger DEF Next

-----------------------------------------------------------------------------
(* The policy.                                                             *)

\* Steps of other requests leave the policy's part alone.
LEMMA PolicyFrame ==
  ASSUME PolicyInv,
         UNCHANGED <<up, target, readers, writer, policyFile, overlapped>>,
         "policy" \in unsaved <=> "policy" \in unsaved',
         \A q \in Requests :
           \/ task'[q] = task[q]
           \/ /\ task[q].at \notin {"fillPolicy", "renamePolicy"}
              /\ task'[q].at \notin {"fillPolicy", "renamePolicy"}
  PROVE  PolicyInv'
<1>1. WritingPolicy' = WritingPolicy
  BY DEF WritingPolicy
<1>2. \A q \in Requests : /\ SavingPolicy(q)' <=> SavingPolicy(q)
                          /\ FillingPolicy(q)' <=> FillingPolicy(q)
  BY DEF SavingPolicy, FillingPolicy
<1>3. WritingPolicy = {r \in Requests : SavingPolicy(r)}
  BY DEF PolicyInv, PolicySaves
<1>4. \A q \in WritingPolicy : task'[q] = task[q]
  BY <1>3 DEF SavingPolicy
<1>5. PolicySaves'
  BY <1>1, <1>2, <1>3, <1>4 DEF PolicyInv, PolicySaves
<1>6. PolicyArrives'
  BY <1>1, <1>2 DEF PolicyInv, PolicyArrives
<1>7. PolicyIntact'
  BY <1>1, <1>2, <1>3 DEF PolicyInv, PolicyIntact
<1> QED BY <1>5, <1>6, <1>7 DEF PolicyInv

\* A goroutine opens the temporary file for what is now the target.
LEMMA OpenStep ==
  ASSUME TypeOK, PolicyInv, NEW r \in Requests, OpenPolicy(r), up' = up,
         task[r].at = "idle",
         task'[r] = [at |-> "fillPolicy", record |-> target'],
         \A q \in Requests \ {r} : task'[q] = task[q],
         target' = target \/ WritingPolicy = {},
         WritingPolicy' = WritingPolicy \cup {r},
         writer' # Nobody => readers' = {}
  PROVE  PolicyInv'
<1>1. /\ policyFile'.path = policyFile.path /\ policyFile'.tmp = Torn
      /\ policyFile'.at[r] = "tmp"
      /\ \A q \in Requests \ {r} : policyFile'.at[q] = policyFile.at[q]
  BY DEF OpenPolicy, Store!Truncate, TypeOK, Store!Files
<1>2. /\ FillingPolicy(r)' /\ SavingPolicy(r)'
      /\ \A q \in Requests \ {r} : /\ SavingPolicy(q)' <=> SavingPolicy(q)
                                   /\ FillingPolicy(q)' <=> FillingPolicy(q)
  BY DEF FillingPolicy, SavingPolicy
<1>3. WritingPolicy = {q \in Requests : SavingPolicy(q)} /\ r \notin WritingPolicy
  BY DEF PolicyInv, PolicySaves, SavingPolicy
<1>4. PolicySaves'
  <2>1. WritingPolicy' = {q \in Requests : SavingPolicy(q)}'
    BY <1>2, <1>3
  <2>2. \A q \in WritingPolicy' : task'[q].record = target'
    BY <1>3 DEF PolicyInv, PolicySaves
  <2> QED BY <2>1, <2>2 DEF PolicySaves
<1>5. PolicyArrives'
  <2> SUFFICES ASSUME up', "policy" \notin unsaved' PROVE PolicyArrives'
    BY DEF PolicyArrives
  <2>1. ASSUME NEW q \in Requests, FillingPolicy(q)', policyFile'.at[q] = "path"
        PROVE  policyFile'.path \in {Torn, target'}
    <3>1. q # r
      BY <1>1, <2>1
    <3>2. FillingPolicy(q) /\ policyFile.at[q] = "path"
      BY <1>1, <1>2, <2>1, <3>1
    <3>3. WritingPolicy # {}
      BY <1>3, <3>2 DEF SavingPolicy, FillingPolicy
    <3>4. up /\ "policy" \notin unsaved /\ target' = target
      BY <3>3 DEF OpenPolicy
    <3> QED BY <1>1, <3>2, <3>4 DEF PolicyInv, PolicyArrives
  <2>2. WritingPolicy' # {} /\ policyFile'.tmp # Missing
    BY <1>1, ContentAssumption
  <2> QED BY <1>1, <1>2, <2>1, <2>2 DEF PolicyArrives
<1>6. PolicyIntact'
  BY <1>1, <1>2, <1>3 DEF PolicyInv, PolicyIntact, OpenPolicy
<1> QED BY <1>4, <1>5, <1>6 DEF PolicyInv

LEMMA PublishStep ==
  ASSUME TypeOK, PolicyInv, NEW r \in Requests, PublishRequest(r)
  PROVE  PolicyInv'
<1>1. PICK t \in Targets : /\ Begin(r, [at |-> "fillPolicy", record |-> t])
                           /\ target' = t
  BY DEF PublishRequest
<1>2. /\ task[r].at = "idle"
      /\ task'[r] = [at |-> "fillPolicy", record |-> target']
      /\ \A q \in Requests \ {r} : task'[q] = task[q]
  BY <1>1, Continued DEF Begin, At
<1>3. /\ OpenPolicy(r) /\ readers = {} /\ writer = Nobody
      /\ readers' = {} /\ writer' = r /\ up' = up
  BY DEF PublishRequest, PolicyFree, Begin
<1>4. WritingPolicy = {} /\ WritingPolicy' = WritingPolicy \cup {r}
  BY <1>3, NobodyAssumption DEF WritingPolicy
<1> QED BY <1>2, <1>3, <1>4, OpenStep

LEMMA PersistStep ==
  ASSUME TypeOK, PolicyInv, NEW r \in Requests, PersistRequest(r)
  PROVE  PolicyInv'
<1>1. /\ task[r].at = "idle" /\ target' = target
      /\ task'[r] = [at |-> "fillPolicy", record |-> target']
      /\ \A q \in Requests \ {r} : task'[q] = task[q]
  BY Continued DEF PersistRequest, Begin, At
<1>2. /\ OpenPolicy(r) /\ writer = Nobody /\ writer' = Nobody
      /\ readers' = readers \cup {r} /\ up' = up
  BY DEF PersistRequest, Begin
<1>3. WritingPolicy' = WritingPolicy \cup {r}
  BY <1>2 DEF WritingPolicy
<1> QED BY <1>1, <1>2, <1>3, OpenStep

\* A goroutine that gives up its lock is the only one to leave the writers.
LEMMA PolicyAnswered ==
  ASSUME TypeOK, PolicyInv, NEW r \in Requests, SavingPolicy(r), AnswerPolicy(r)
  PROVE  /\ WritingPolicy' = WritingPolicy \ {r}
         /\ \A q \in Requests \ {r} : task'[q] = task[q]
         /\ ~SavingPolicy(r)' /\ ~FillingPolicy(r)'
         /\ writer' # Nobody => readers' = {}
<1>1. /\ task'[r] = Idle /\ \A q \in Requests \ {r} : task'[q] = task[q]
  BY Continued DEF AnswerPolicy
<1>2. WritingPolicy' = WritingPolicy \ {r}
  BY NobodyAssumption DEF AnswerPolicy, WritingPolicy
<1>3. writer' # Nobody => readers' = {}
  BY DEF AnswerPolicy, PolicyInv, PolicySaves
<1> QED BY <1>1, <1>2, <1>3 DEF Idle, SavingPolicy, FillingPolicy

\* The writers that are left carry the target as before.
LEMMA SavesAfterAnswer ==
  ASSUME TypeOK, PolicyInv, NEW r \in Requests, SavingPolicy(r), AnswerPolicy(r),
         UNCHANGED target
  PROVE  PolicySaves'
<1>1. /\ WritingPolicy' = WritingPolicy \ {r}
      /\ \A q \in Requests \ {r} : task'[q] = task[q]
      /\ ~SavingPolicy(r)'
      /\ writer' # Nobody => readers' = {}
  BY PolicyAnswered
<1>2. WritingPolicy = {q \in Requests : SavingPolicy(q)}
  BY DEF PolicyInv, PolicySaves
<1>3. WritingPolicy' = {q \in Requests : SavingPolicy(q)}'
  BY <1>1, <1>2 DEF SavingPolicy
<1>4. \A q \in WritingPolicy' : task'[q].record = target'
  BY <1>1, <1>2 DEF PolicyInv, PolicySaves
<1> QED BY <1>1, <1>3, <1>4 DEF PolicySaves

LEMMA AbandonPolicyStep ==
  ASSUME TypeOK, PolicyInv, NEW r \in Requests, SavingPolicy(r), AnswerPolicy(r),
         policyFile' = Store!Abandon(policyFile, r),
         unsaved' = unsaved \cup {"policy"},
         UNCHANGED <<target, overlapped>>
  PROVE  PolicyInv'
<1>1. /\ policyFile'.path = policyFile.path /\ policyFile'.tmp = policyFile.tmp
      /\ \A q \in Requests \ {r} : policyFile'.at[q] = policyFile.at[q]
  BY DEF Store!Abandon, TypeOK, Store!Files
<1>2. /\ WritingPolicy' = WritingPolicy \ {r}
      /\ \A q \in Requests \ {r} : task'[q] = task[q]
  BY PolicyAnswered
<1>3. WritingPolicy \subseteq Requests
  BY DEF PolicyInv, PolicySaves
<1>4. PolicyIntact'
  BY <1>1, <1>2, <1>3 DEF PolicyInv, PolicyIntact, FillingPolicy
<1>5. PolicyArrives'
  BY DEF PolicyArrives
<1> QED BY <1>4, <1>5, SavesAfterAnswer DEF PolicyInv

LEMMA WritePolicyStep ==
  ASSUME TypeOK, PolicyInv, NEW r \in Requests, task[r].at = "fillPolicy",
         policyFile' \in Store!Fill(policyFile, r, task[r].record),
         Continue(r, [task[r] EXCEPT !.at = "renamePolicy"]),
         UNCHANGED <<up, target, readers, writer, unsaved, overlapped>>
  PROVE  PolicyInv'
<1>1. WritingPolicy = {q \in Requests : SavingPolicy(q)} /\ r \in WritingPolicy
  BY DEF PolicyInv, PolicySaves, SavingPolicy
<1>2. task[r].record = target /\ target \in Targets
  BY <1>1 DEF PolicyInv, PolicySaves, TypeOK
<1>3. /\ task'[r] = [at |-> "renamePolicy", record |-> target]
      /\ \A q \in Requests \ {r} : task'[q] = task[q]
  <2>1. [task[r] EXCEPT !.at = "renamePolicy"]
          = [at |-> "renamePolicy", record |-> target]
    BY <1>2, NextStage
  <2>2. /\ task'[r] = [task[r] EXCEPT !.at = "renamePolicy"]
        /\ \A q \in Requests \ {r} : task'[q] = task[q]
    BY Continued
  <2> QED BY <2>1, <2>2
<1>4. WritingPolicy' = WritingPolicy
  BY DEF WritingPolicy
<1>5. /\ FillingPolicy(r) /\ ~FillingPolicy(r)' /\ SavingPolicy(r) /\ SavingPolicy(r)'
      /\ \A q \in Requests \ {r} : /\ SavingPolicy(q)' <=> SavingPolicy(q)
                                   /\ FillingPolicy(q)' <=> FillingPolicy(q)
  BY <1>3 DEF FillingPolicy, SavingPolicy
<1>6. PolicySaves'
  <2>1. WritingPolicy' = {q \in Requests : SavingPolicy(q)}'
    BY <1>1, <1>4, <1>5
  <2>2. \A q \in WritingPolicy' : task'[q].record = target'
    BY <1>1, <1>3, <1>4 DEF PolicyInv, PolicySaves
  <2> QED BY <1>4, <2>1, <2>2 DEF PolicyInv, PolicySaves
<1> DEFINE f == policyFile
           g == policyFile'
<1>7. f \in Store!Files(Targets) /\ g \in Store!Fill(f, r, target)
  BY <1>2 DEF TypeOK
<1>8. g.at = [f.at EXCEPT ![r] = "closed"]
  BY <1>7, Filled
<1>9. /\ g.at[r] = "closed"
      /\ \A q \in Requests \ {r} : g.at[q] = f.at[q]
  BY <1>7, <1>8 DEF Store!Files
<1>10. f.at[r] # "path" => g.path = f.path
  BY <1>7, KeptPath
<1>11. f.at[r] # "tmp" => g.tmp = f.tmp
  BY <1>7, KeptTmp
<1>12. f.at[r] = "tmp" /\ f.tmp \in {Torn, target} => g.tmp = target
  <2>1. f.at[r] = "tmp" => g.tmp \in Store!Overlay(f.tmp, target)
    BY <1>7, FilledTmp
  <2> QED BY <2>1 DEF Store!Overlay
<1>13. f.at[r] = "path" /\ f.path \in {Torn, target} => g.path = target
  <2>1. f.at[r] = "path" => g.path \in Store!Overlay(f.path, target)
    BY <1>7, FilledPath
  <2> QED BY <2>1 DEF Store!Overlay
<1>14. Missing # Torn /\ target # Missing /\ target # Torn
  BY <1>2, ContentAssumption
<1>15. PolicyArrives'
  <2> HIDE DEF f, g
  <2> SUFFICES ASSUME up, "policy" \notin unsaved PROVE PolicyArrives'
    BY DEF PolicyArrives
  <2>1. /\ \A q \in Requests : FillingPolicy(q) =>
             /\ f.at[q] = "tmp" => f.tmp \in {Torn, target}
             /\ f.at[q] = "path" => f.path \in {Torn, target}
        /\ f.tmp \in {Missing, Torn, target}
        /\ f.tmp = Torn =>
             \E q \in Requests : FillingPolicy(q) /\ f.at[q] = "tmp"
        /\ \/ f.path = target
           \/ f.path = Torn /\ \E q \in Requests : FillingPolicy(q) /\ f.at[q] = "path"
           \/ f.tmp # Missing
    BY <1>1 DEF PolicyInv, PolicyArrives, f
  <2>2. \A q \in Requests : FillingPolicy(q)' =>
             /\ g.at[q] = "tmp" => g.tmp \in {Torn, target}
             /\ g.at[q] = "path" => g.path \in {Torn, target}
    BY <1>5, <1>9, <1>10, <1>11, <1>12, <1>13, <2>1
  <2>3. g.tmp \in {Missing, Torn, target}
    BY <1>5, <1>11, <1>12, <2>1
  <2>4. g.tmp = Torn => \E q \in Requests : FillingPolicy(q)' /\ g.at[q] = "tmp"
    BY <1>5, <1>9, <1>11, <1>12, <1>14, <2>1
  <2>5. \/ g.path = target
        \/ g.path = Torn /\ \E q \in Requests : FillingPolicy(q)' /\ g.at[q] = "path"
        \/ g.tmp # Missing
    BY <1>5, <1>9, <1>10, <1>11, <1>12, <1>13, <1>14, <2>1
  <2> QED BY <1>1, <1>4, <2>2, <2>3, <2>4, <2>5 DEF PolicyArrives, g
<1>16. PolicyIntact'
  <2> HIDE DEF f, g
  <2> SUFFICES ASSUME ~overlapped PROVE PolicyIntact'
    BY DEF PolicyIntact
  <2>1. /\ f.path \in Targets /\ \A p, q \in WritingPolicy : p = q
        /\ f.at[r] = "tmp" /\ f.tmp = Torn
    BY <1>1, <1>5 DEF PolicyInv, PolicyIntact, f
  <2>2. g.path \in Targets /\ g.tmp \in Targets
    BY <1>2, <1>10, <1>12, <2>1
  <2> QED BY <1>1, <1>4, <1>5, <2>1, <2>2 DEF PolicyIntact, g
<1> QED BY <1>6, <1>15, <1>16 DEF PolicyInv

LEMMA FillPolicyStep ==
  ASSUME TypeOK, PolicyInv, NEW r \in Requests, FillPolicy(r)
  PROVE  PolicyInv'
<1>1. task[r].at = "fillPolicy" /\ SavingPolicy(r) /\ UNCHANGED <<up, target, overlapped>>
  BY DEF FillPolicy, At, SavingPolicy, memory
<1> QED BY <1>1, WritePolicyStep, AbandonPolicyStep DEF FillPolicy

LEMMA RenamePolicyStep ==
  ASSUME TypeOK, PolicyInv, NEW r \in Requests, RenamePolicy(r)
  PROVE  PolicyInv'
<1> DEFINE f == policyFile
           g == policyFile'
<1>1. /\ task[r].at = "renamePolicy" /\ SavingPolicy(r) /\ ~FillingPolicy(r)
      /\ AnswerPolicy(r) /\ UNCHANGED <<up, target, unsaved, overlapped>>
  BY DEF RenamePolicy, At, SavingPolicy, FillingPolicy, memory, history
<1>2. /\ WritingPolicy' = WritingPolicy \ {r} /\ ~FillingPolicy(r)'
      /\ \A q \in Requests \ {r} : FillingPolicy(q)' <=> FillingPolicy(q)
  BY <1>1, PolicyAnswered DEF FillingPolicy
<1>3. /\ r \in WritingPolicy /\ WritingPolicy \subseteq Requests
      /\ task[r].record = target /\ target \in Targets
  BY <1>1 DEF PolicyInv, PolicySaves, TypeOK
<1>4. PolicySaves'
  BY <1>1, SavesAfterAnswer
<1>5. f.tmp = Missing => g = f
  BY DEF RenamePolicy, Store!RenameFails
<1>6. f.tmp # Missing =>
        /\ g.path = f.tmp /\ g.tmp = Missing
        /\ \A q \in Requests : /\ f.at[q] = "tmp" => g.at[q] = "path"
                               /\ g.at[q] # "tmp"
                               /\ g.at[q] = "path" => f.at[q] = "tmp"
  BY DEF RenamePolicy, Store!RenameFails, Store!Rename, Store!Renamed, TypeOK,
         Store!Files, Store!Handles
<1>7. Missing # Torn /\ Missing \notin Targets
  BY ContentAssumption
<1>8. PolicyArrives'
  <2> HIDE DEF f, g
  <2> SUFFICES ASSUME up, "policy" \notin unsaved PROVE PolicyArrives'
    BY <1>1 DEF PolicyArrives
  <2>1. /\ \A q \in Requests : FillingPolicy(q) =>
             /\ f.at[q] = "tmp" => f.tmp \in {Torn, target}
             /\ f.at[q] = "path" => f.path \in {Torn, target}
        /\ f.tmp \in {Missing, Torn, target}
        /\ f.tmp = Torn =>
             \E q \in Requests : FillingPolicy(q) /\ f.at[q] = "tmp"
        /\ \/ f.path = target
           \/ f.path = Torn /\ \E q \in Requests : FillingPolicy(q) /\ f.at[q] = "path"
           \/ f.tmp # Missing
    BY <1>3 DEF PolicyInv, PolicyArrives, f
  <2>2. \A q \in Requests : FillingPolicy(q)' =>
             /\ g.at[q] = "tmp" => g.tmp \in {Torn, target}
             /\ g.at[q] = "path" => g.path \in {Torn, target}
    BY <1>2, <1>5, <1>6, <2>1
  <2>3. g.tmp = Missing
    BY <1>5, <1>6
  <2>4. \/ g.path = target
        \/ g.path = Torn /\ \E q \in Requests : FillingPolicy(q)' /\ g.at[q] = "path"
    BY <1>1, <1>2, <1>5, <1>6, <2>1
  <2> QED BY <1>1, <1>7, <2>2, <2>3, <2>4 DEF PolicyArrives, g
<1>9. PolicyIntact'
  <2> HIDE DEF f, g
  <2> SUFFICES ASSUME ~overlapped PROVE PolicyIntact'
    BY <1>1 DEF PolicyIntact
  <2>1. WritingPolicy = {r} /\ f.tmp \in Targets
    BY <1>1, <1>3 DEF PolicyInv, PolicyIntact, f
  <2>2. g.path \in Targets /\ WritingPolicy' = {}
    BY <1>2, <1>6, <1>7, <2>1
  <2> QED BY <2>2 DEF PolicyIntact, g
<1> QED BY <1>4, <1>8, <1>9 DEF PolicyInv

LEMMA CrashPolicy ==
  ASSUME TypeOK, PolicyInv, Crash
  PROVE  PolicyInv'
<1>1. /\ ~up' /\ overlapped' = overlapped
      /\ \A r \in Requests : task'[r] = Idle
      /\ policyFile'.path = policyFile.path
      /\ writer' = Nobody /\ readers' = {}
  BY DEF Crash, history, Store!CloseAll, TypeOK, Store!Files
<1>2. WritingPolicy' = {} /\ \A r \in Requests : ~SavingPolicy(r)'
  BY <1>1 DEF WritingPolicy, SavingPolicy, Idle
<1> QED BY <1>1, <1>2
        DEF PolicyInv, PolicySaves, PolicyArrives, PolicyIntact

LEMMA RestartPolicy ==
  ASSUME TypeOK, NothingHeld, PolicyInv, Restart
  PROVE  PolicyInv'
<1>1. /\ target' = LoadedTarget
      /\ \A r \in Requests : task'[r] = Idle
      /\ writer' = Nobody /\ readers' = {}
  BY DEF Restart, NothingHeld, locks
<1>2. WritingPolicy' = {}
      /\ \A r \in Requests : ~SavingPolicy(r)' /\ ~FillingPolicy(r)'
  BY <1>1 DEF WritingPolicy, SavingPolicy, FillingPolicy, Idle
<1>3. policyFile'.path = LoadedTarget
  BY DEF Restart, LoadedTarget, Store!FileWith, Store!Decodes
<1>4. target' \in Targets
  BY <1>1, LoadedTypes
<1> QED BY <1>1, <1>2, <1>3, <1>4
        DEF PolicyInv, PolicySaves, PolicyArrives, PolicyIntact

LEMMA PolicyStep ==
  ASSUME TypeOK, NothingHeld, PolicyInv, [Next]_vars
  PROVE  PolicyInv'
<1>1. ASSUME NEW r \in Requests, Request(r) PROVE PolicyInv'
  <2>1. ASSUME FlowRequest(r) \/ DirectionRequest(r) PROVE PolicyInv'
    <3>1. /\ UNCHANGED <<up, target, readers, writer, policyFile, overlapped>>
          /\ UNCHANGED unsaved
      BY <2>1 DEF FlowRequest, DirectionRequest, Begin, locks, files, history
    <3>2. /\ task[r].at = "idle" /\ task'[r].at \in {"save", "direct"}
          /\ \A q \in Requests \ {r} : task'[q] = task[q]
      <4>1. CASE FlowRequest(r)
        BY <4>1, Continued DEF FlowRequest, Begin, At
      <4>2. CASE DirectionRequest(r)
        <5>1. PICK d : Begin(r, [at |-> "direct", direction |-> d])
          BY <4>2 DEF DirectionRequest
        <5> QED BY <5>1, Continued DEF Begin, At
      <4> QED BY <2>1, <4>1, <4>2
    <3> QED BY <3>1, <3>2, PolicyFrame
  <2> QED BY <1>1, <2>1, PublishStep, PersistStep DEF Request
<1>2. ASSUME NEW r \in Requests, Stage(r) PROVE PolicyInv'
  <2>1. ASSUME SetDirection(r) \/ SaveLedger(r) \/ FillLedger(r) \/ RenameLedger(r)
        PROVE  PolicyInv'
    <3>1. UNCHANGED <<up, target, readers, writer, policyFile, overlapped>>
      BY <2>1 DEF SetDirection, SaveLedger, FillLedger, RenameLedger, memory,
                  locks, files, history
    <3>2. "policy" \in unsaved <=> "policy" \in unsaved'
      BY <2>1 DEF SetDirection, SaveLedger, FillLedger, RenameLedger, history
    <3>3. /\ task[r].at \in {"direct", "save", "fillLedger", "renameLedger"}
          /\ task'[r].at \in {"save", "fillLedger", "renameLedger", "idle"}
          /\ \A q \in Requests \ {r} : task'[q] = task[q]
      <4>1. ASSUME Continue(r, Idle)
            PROVE  task'[r].at = "idle" /\ \A q \in Requests \ {r} : task'[q] = task[q]
        BY <4>1, Continued DEF Idle
      <4>2. CASE SetDirection(r)
        BY <4>2, Continued DEF SetDirection, At
      <4>3. CASE SaveLedger(r)
        BY <4>3, Continued DEF SaveLedger, At
      <4>4. CASE FillLedger(r)
        <5>1. task[r].at = "fillLedger"
          BY <4>4 DEF FillLedger, At
        <5>2. [task[r] EXCEPT !.at = "renameLedger"].at = "renameLedger"
          BY <5>1, NextStage
        <5>3. ASSUME Continue(r, [task[r] EXCEPT !.at = "renameLedger"])
              PROVE  /\ task'[r].at = "renameLedger"
                     /\ \A q \in Requests \ {r} : task'[q] = task[q]
          BY <5>2, <5>3, Continued
        <5> QED BY <4>1, <4>4, <5>1, <5>3 DEF FillLedger, AnswerMeter
      <4>5. CASE RenameLedger(r)
        BY <4>1, <4>5 DEF RenameLedger, AnswerMeter, At
      <4> QED BY <2>1, <4>2, <4>3, <4>4, <4>5
    <3> QED BY <3>1, <3>2, <3>3, PolicyFrame
  <2> QED BY <1>2, <2>1, FillPolicyStep, RenamePolicyStep DEF Stage
<1>3. CASE UNCHANGED vars
  BY <1>3, PolicyFrame DEF vars, memory, locks, files, history
<1> QED BY <1>1, <1>2, <1>3, CrashPolicy, RestartPolicy DEF Next

-----------------------------------------------------------------------------
(* The theorems.                                                           *)

LEMMA NothingHeldStep ==
  ASSUME NothingHeld, [Next]_vars
  PROVE  NothingHeld'
<1>1. ASSUME NEW r \in Requests, Request(r) \/ Stage(r)
      PROVE  up /\ UNCHANGED up
  BY <1>1 DEF Request, Stage, FlowRequest, DirectionRequest, PublishRequest,
              PersistRequest, Begin, SetDirection, SaveLedger, FillLedger,
              RenameLedger, FillPolicy, RenamePolicy, At
<1>2. CASE Crash
  BY <1>2 DEF Crash, NothingHeld
<1>3. CASE Restart
  BY <1>3 DEF Restart, NothingHeld
<1>4. CASE UNCHANGED vars
  BY <1>4 DEF vars, locks, NothingHeld
<1> QED BY <1>1, <1>2, <1>3, <1>4 DEF Next, NothingHeld

\* Every state keeps the invariant: the saver that holds the mutex of the
\* ledger has the ledger and the temporary file to itself, and the writers of
\* the policy all bring the same target to the path.
THEOREM Invariance == Spec => []IInv
<1>1. IInv /\ [Next]_vars => IInv'
  BY TypeStep, NothingHeldStep, LedgerStep, PolicyStep DEF IInv
<1> QED BY <1>1, InitInvariant, PTL DEF Spec

\* Every variable keeps its type, whatever requests, crashes and restarts come.
THEOREM TypeCorrectness == Spec => []TypeOK
<1>1. IInv => TypeOK
  BY DEF IInv
<1> QED BY <1>1, Invariance, PTL

\* CumulativeLedger.Save loses no flow whose request was answered, however
\* many requests save at a time, unless the last write failed.
THEOREM FlowSurvives == Spec => []AckedFlowSaved
<1>1. IInv => AckedFlowSaved
  BY DEF IInv, LedgerInv
<1> QED BY <1>1, Invariance, PTL

\* A segment of the ledger accounts for the flow of one direction and for what
\* was added while a switch was under way, and for nothing else, across every
\* restart: the ledger in the file is no mixture of two states.
THEOREM SegmentsRunOneWay == Spec => []SegmentRunsOneWay
<1>1. IInv => SegmentRunsOneWay
  BY DEF IInv, LedgerInv, Segments, SegmentRunsOneWay
<1> QED BY <1>1, Invariance, PTL

\* Config.Save takes the lock for reading only, and still the file holds the
\* published target once all saves have returned without an error.
THEOREM PolicyFileFollows == Spec => []PolicyFileCurrent
<1>1. IInv => PolicyFileCurrent
  <2> SUFFICES ASSUME IInv, up, WritingPolicy = {}, "policy" \notin unsaved
               PROVE  policyFile.path = target
    BY DEF PolicyFileCurrent
  <2>1. \A r \in Requests : ~FillingPolicy(r)
    BY DEF IInv, PolicyInv, PolicySaves, SavingPolicy, FillingPolicy
  <2> QED BY <2>1 DEF IInv, PolicyInv, PolicyArrives
<1> QED BY <1>1, Invariance, PTL

\* One save at a time never leaves a policy that cannot be loaded, whatever
\* write fails and whenever the process dies.
THEOREM PolicyLoads == Spec => []PolicyWhole
<1>1. IInv => PolicyWhole
  BY ContentAssumption
  DEF IInv, PolicyInv, PolicyIntact, PolicyWhole, Store!Decodes
<1> QED BY <1>1, Invariance, PTL

\* The ledger with its file is a durable ledger: Save replaces the file by the
\* ledger of that moment, and a restart resumes from what was saved last.
THEOREM LedgerIsDurable == Spec => RefinesDurableLedger
<1> DEFINE m == IF up THEN ledger ELSE Missing
           d == LoadedLedger
<1>1. Init => Durable!Init
  <2> SUFFICES ASSUME Init PROVE Durable!Init
    OBVIOUS
  <2>1. up /\ ledger = EmptyLedger /\ ledgerFile.path = Missing
    BY DEF Init, Store!FileWith
  <2>2. LoadedLedger = EmptyLedger
    BY <2>1 DEF LoadedLedger, Store!Decodes
  <2> QED BY <2>1, <2>2, LedgerTypes DEF Durable!Init
<1>2. IInv /\ IInv' /\ [Next]_vars => [Durable!Next]_<<m, d>>
  <2> SUFFICES ASSUME IInv, IInv', [Next]_vars PROVE [Durable!Next]_<<m, d>>
    OBVIOUS
  <2>1. /\ ledger \in Ledgers /\ ledger' \in Ledgers
        /\ ledger # Missing /\ ledgerFile.path # Torn
    BY ContentAssumption DEF IInv, TypeOK, LedgerInv
  <2>2. ASSUME UNCHANGED <<up, ledger, ledgerFile>> PROVE UNCHANGED <<m, d>>
    BY <2>2 DEF LoadedLedger, Store!Decodes
  <2>3. ASSUME NEW r \in Requests, Request(r) PROVE [Durable!Next]_<<m, d>>
    <3>1. ASSUME FlowRequest(r) \/ DirectionRequest(r) PROVE Durable!Change
      <4>1. up /\ UNCHANGED up /\ UNCHANGED ledgerFile
        BY <3>1 DEF FlowRequest, DirectionRequest, Begin, At, files
      <4> QED BY <2>1, <4>1 DEF Durable!Change, LoadedLedger, Store!Decodes
    <3>2. ASSUME PublishRequest(r) \/ PersistRequest(r) PROVE UNCHANGED <<m, d>>
      BY <2>2, <3>2 DEF PublishRequest, PersistRequest, Begin, OpenPolicy
    <3> QED BY <2>3, <3>1, <3>2 DEF Request, Durable!Next
  <2>4. ASSUME NEW r \in Requests, Stage(r) PROVE [Durable!Next]_<<m, d>>
    <3>1. ASSUME SetDirection(r) PROVE Durable!Change
      <4>1. up /\ up' /\ ledgerFile' = ledgerFile
        BY <3>1 DEF SetDirection, At, files
      <4> QED BY <2>1, <4>1 DEF Durable!Change, LoadedLedger, Store!Decodes
    <3>2. ASSUME SaveLedger(r) \/ FillLedger(r) PROVE UNCHANGED <<m, d>>
      <4>1. UNCHANGED <<up, ledger>>
        BY <3>2 DEF SaveLedger, FillLedger, memory
      <4>2. ledgerFile'.path = ledgerFile.path
        <5>1. CASE SaveLedger(r)
          BY <5>1 DEF SaveLedger, Store!Truncate, IInv, TypeOK, Store!Files
        <5>2. CASE FillLedger(r)
          <6>1. ledgerFile \in Store!Files(Ledgers) /\ ledgerFile.at[r] = "tmp"
            BY <5>2 DEF FillLedger, At, IInv, TypeOK, LedgerInv, LedgerSaves,
                        SavingLedger
          <6>2. ASSUME ledgerFile' \in Store!Fill(ledgerFile, r, task[r].record)
                PROVE  ledgerFile'.path = ledgerFile.path
            BY <6>1, <6>2, KeptPath
          <6>3. ASSUME ledgerFile' = Store!Abandon(ledgerFile, r)
                PROVE  ledgerFile'.path = ledgerFile.path
            BY <6>1, <6>3 DEF Store!Abandon, Store!Files
          <6> QED BY <5>2, <6>2, <6>3 DEF FillLedger
        <5> QED BY <3>2, <5>1, <5>2
      <4> QED BY <4>1, <4>2 DEF LoadedLedger, Store!Decodes
    <3>3. ASSUME RenameLedger(r) PROVE Durable!Save
      <4>1. up /\ up' /\ ledger' = ledger
        BY <3>3 DEF RenameLedger, At, memory
      <4>2. LoadedLedger' = ledger
        BY <3>3, RenameLedgerStep DEF IInv
      <4> QED BY <2>1, <4>1, <4>2 DEF Durable!Save
    <3>4. ASSUME FillPolicy(r) \/ RenamePolicy(r) PROVE UNCHANGED <<m, d>>
      BY <2>2, <3>4 DEF FillPolicy, RenamePolicy, memory
    <3> QED BY <2>4, <3>1, <3>2, <3>3, <3>4 DEF Stage, Durable!Next
  <2>5. ASSUME Crash PROVE Durable!Crash
    <3>1. up /\ ~up' /\ ledgerFile'.path = ledgerFile.path
      BY <2>5 DEF Crash, Store!CloseAll, IInv, TypeOK, Store!Files
    <3> QED BY <2>1, <3>1 DEF Durable!Crash, LoadedLedger, Store!Decodes
  <2>6. ASSUME Restart PROVE Durable!Recover
    <3>1. ~up /\ up' /\ ledger' = LoadedLedger /\ ledgerFile' = ledgerFile
      BY <2>1, <2>6 DEF Restart
    <3> QED BY <3>1 DEF Durable!Recover, LoadedLedger, Store!Decodes
  <2>7. CASE UNCHANGED vars
    BY <2>2, <2>7 DEF vars, memory, files
  <2> QED BY <2>3, <2>4, <2>5, <2>6, <2>7 DEF Next, Durable!Next
<1> QED BY <1>1, <1>2, Invariance, PTL DEF Spec, RefinesDurableLedger, Durable!Spec
=============================================================================
