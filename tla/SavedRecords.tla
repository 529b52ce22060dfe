---------------------------- MODULE SavedRecords ----------------------------
(***************************************************************************)
(* Two records that HTTP requests change and save at the same time, down   *)
(* to the steps of the file store: the ledger of the flow meter            *)
(* (cumulative.json), whose mutex is held while its file is written, and   *)
(* the published target of the station's zone (policy.json), which         *)
(* SetTarget writes under the write lock but Save under a read lock only.  *)
(* Every write may fail; the process crashes between any two steps and     *)
(* restarts from the files.                                                *)
(*                                                                         *)
(* Flow is added to meter m-1 only (meter1, whatever the URL says) and in  *)
(* units of one.  Reads of the ledger for a response change nothing and    *)
(* are left out, and a rejected request is no step.                        *)
(***************************************************************************)
EXTENDS Integers, FiniteSets

CONSTANTS Requests,       \* goroutines that serve HTTP requests
          Nobody,         \* no goroutine
          None,           \* the direction of a meter without an entry
          Missing, Torn,  \* contents of a file, see FileStore
          Targets,        \* the targets an operator publishes
          DefaultTarget,  \* the target Bootstrap publishes when there is none
          MaxRequests,    \* bound on the requests served
          MaxRestarts     \* bound on the restarts of the process

Directions == {"forward", "reverse"}

ASSUME NobodyAssumption == Nobody \notin Requests
ASSUME NoneAssumption == None \notin Directions
ASSUME TargetsAssumption == DefaultTarget \in Targets
ASSUME BoundsAssumption == MaxRequests \in Nat /\ MaxRestarts \in Nat

Store == INSTANCE FileStore WITH Writers <- Requests

VARIABLES up,          \* the process is alive
          ledger,      \* CumulativeLedger: the entry of meter m-1
          holder,      \* who holds CumulativeLedger.mu over a write
          target,      \* Config.targets
          readers,     \* who holds Config.mu for reading
          writer,      \* who holds Config.mu for writing
          ledgerFile,  \* cumulative.json
          policyFile,  \* policy.json
          task,        \* where each goroutine stands
          requests,    \* requests served so far
          restarts,    \* restarts so far
          \* History, for the properties:
          acked,       \* the flow whose request was answered
          unsaved,     \* records whose last write failed
          overlapped   \* two writes of policy.json at a time since a restart

memory  == <<ledger, target>>
locks   == <<holder, readers, writer>>
files   == <<ledgerFile, policyFile>>
bounds  == <<requests, restarts>>
history == <<acked, unsaved, overlapped>>
vars    == <<up, memory, locks, files, task, bounds, history>>

\* along and strayed are history: the flow of the segment by the direction
\* the meter had when it was added, and what was added during a switch.
Ledgers == [total : Nat, base : Nat, direction : Directions \cup {None},
            along : [Directions -> Nat], strayed : Nat]

\* A file without a whole record is none of the records.
ASSUME ContentAssumption == /\ Missing # Torn
                            /\ Missing \notin Ledgers \cup Targets
                            /\ Torn \notin Ledgers \cup Targets

NoFlow == [d \in Directions |-> 0]

EmptyLedger == [total |-> 0, base |-> 0, direction |-> None,
                along |-> NoFlow, strayed |-> 0]

Idle == [at |-> "idle"]

\* flow: the request is one that adds flow.
Tasks ==
       {Idle}
  \cup [at : {"direct"}, direction : Directions]
  \cup [at : {"save"}, flow : BOOLEAN]
  \cup [at : {"fillLedger", "renameLedger"}, flow : BOOLEAN, record : Ledgers]
  \cup [at : {"fillPolicy", "renamePolicy"}, record : Targets]

TypeOK == /\ up \in BOOLEAN
          /\ ledger \in Ledgers
          /\ holder \in Requests \cup {Nobody}
          /\ target \in Targets
          /\ readers \subseteq Requests
          /\ writer \in Requests \cup {Nobody}
          /\ ledgerFile \in Store!Files(Ledgers)
          /\ policyFile \in Store!Files(Targets)
          /\ task \in [Requests -> Tasks]
          /\ requests \in Nat /\ restarts \in Nat
          /\ acked \in Nat
          /\ unsaved \subseteq {"ledger", "policy"}
          /\ overlapped \in BOOLEAN

\* The first start: the policy is published, the ledger has no file yet.
Init == /\ up = TRUE
        /\ ledger = EmptyLedger
        /\ holder = Nobody
        /\ target = DefaultTarget
        /\ readers = {} /\ writer = Nobody
        /\ ledgerFile = Store!FileWith(Missing)
        /\ policyFile = Store!FileWith(DefaultTarget)
        /\ task = [r \in Requests |-> Idle]
        /\ requests = 0 /\ restarts = 0
        /\ acked = 0
        /\ unsaved = {}
        /\ overlapped = FALSE

At(r, stage) == up /\ task[r].at = stage

Continue(r, t) == task' = [task EXCEPT ![r] = t]

Begin(r, t) == /\ At(r, "idle")
               /\ requests < MaxRequests
               /\ requests' = requests + 1
               /\ Continue(r, t)
               /\ UNCHANGED <<up, restarts>>

-----------------------------------------------------------------------------
(* The flow meter.                                                         *)

\* Seeded fault: Save takes no mutex.
SavesAnyway == holder \in Requests \cup {Nobody}

\* CumulativeLedger.mu is free.
LedgerFree == holder = Nobody

\* Some switch has moved the base and not yet set the direction.
Switching == \E r \in Requests : task[r].at = "direct"

\* Add gives a meter without an entry the direction "forward".
Add(l) ==
  LET d == IF l.direction = None THEN "forward" ELSE l.direction
  IN  [l EXCEPT !.total = @ + 1,
                !.direction = d,
                !.along[d] = IF Switching THEN @ ELSE @ + 1,
                !.strayed = IF Switching THEN @ + 1 ELSE @]

FlowRequest(r) ==
  /\ LedgerFree
  /\ Begin(r, [at |-> "save", flow |-> TRUE])
  /\ ledger' = Add(ledger)
  /\ UNCHANGED <<target, locks, files, history>>

\* Seeded fault: the base stays where the last switch put it.
KeepBase(l) == [l EXCEPT !.along = NoFlow, !.strayed = 0]

SwitchBase(l) == [l EXCEPT !.base = l.total, !.along = NoFlow, !.strayed = 0]

\* The switch of a meter without an entry is rejected.
DirectionRequest(r) ==
  \E d \in Directions :
     /\ LedgerFree
     /\ ledger.direction # None
     /\ Begin(r, [at |-> "direct", direction |-> d])
     /\ ledger' = SwitchBase(ledger)
     /\ UNCHANGED <<target, locks, files, history>>

SetDirection(r) ==
  /\ At(r, "direct")
  /\ LedgerFree
  /\ ledger' = [ledger EXCEPT !.direction = task[r].direction]
  /\ Continue(r, [at |-> "save", flow |-> FALSE])
  /\ UNCHANGED <<up, target, locks, files, bounds, history>>

\* CumulativeLedger.Save: the mutex, the record, and the temporary file.
SaveLedger(r) ==
  /\ At(r, "save")
  /\ LedgerFree
  /\ holder' = r
  /\ ledgerFile' = Store!Truncate(ledgerFile, r)
  /\ Continue(r, [at |-> "fillLedger", flow |-> task[r].flow, record |-> ledger])
  /\ UNCHANGED <<up, memory, readers, writer, policyFile, bounds, history>>

\* Seeded fault: Save returns with the mutex.
KeepLedger == UNCHANGED holder

UnlockLedger == holder' = Nobody

\* The request is answered, whether or not its ledger could be saved.
AnswerMeter(r) == /\ UnlockLedger
                  /\ Continue(r, Idle)
                  /\ acked' = IF task[r].flow THEN acked + 1 ELSE acked

FillLedger(r) ==
  /\ At(r, "fillLedger")
  /\ \/ /\ ledgerFile' \in Store!Fill(ledgerFile, r, task[r].record)
        /\ Continue(r, [task[r] EXCEPT !.at = "renameLedger"])
        /\ UNCHANGED <<holder, acked, unsaved>>
     \/ /\ ledgerFile' = Store!Abandon(ledgerFile, r)
        /\ AnswerMeter(r)
        /\ unsaved' = unsaved \cup {"ledger"}
  /\ UNCHANGED <<up, memory, readers, writer, policyFile, bounds, overlapped>>

RenameLedger(r) ==
  /\ At(r, "renameLedger")
  /\ ledgerFile' = IF Store!RenameFails(ledgerFile) THEN ledgerFile
                                                    ELSE Store!Rename(ledgerFile)
  /\ AnswerMeter(r)
  /\ unsaved' = unsaved \ {"ledger"}
  /\ UNCHANGED <<up, memory, readers, writer, policyFile, bounds, overlapped>>

-----------------------------------------------------------------------------
(* The policy.                                                             *)

WritingPolicy == readers \cup ({writer} \ {Nobody})

OpenPolicy(r) == /\ policyFile' = Store!Truncate(policyFile, r)
                 /\ overlapped' = (overlapped \/ WritingPolicy # {})
                 /\ unsaved' = IF WritingPolicy = {} THEN unsaved \ {"policy"}
                                                    ELSE unsaved
                 /\ UNCHANGED <<ledger, holder, ledgerFile, acked>>

\* Seeded fault: SetTarget does not wait for the saves under way.
OnlyNoWriter == writer = Nobody

\* Config.mu can be locked.
PolicyFree == readers = {} /\ writer = Nobody

\* SetTarget: nobody else reads or writes until the file is written.
PublishRequest(r) ==
  \E t \in Targets :
     /\ PolicyFree
     /\ Begin(r, [at |-> "fillPolicy", record |-> t])
     /\ target' = t
     /\ writer' = r
     /\ OpenPolicy(r)
     /\ UNCHANGED readers

\* Save: other saves may be writing the same file.
PersistRequest(r) ==
  /\ writer = Nobody
  /\ Begin(r, [at |-> "fillPolicy", record |-> target])
  /\ readers' = readers \cup {r}
  /\ OpenPolicy(r)
  /\ UNCHANGED <<target, writer>>

\* The handler returns; on an error too it has given up its lock.
AnswerPolicy(r) == /\ readers' = readers \ {r}
                   /\ writer' = IF writer = r THEN Nobody ELSE writer
                   /\ Continue(r, Idle)

FillPolicy(r) ==
  /\ At(r, "fillPolicy")
  /\ \/ /\ policyFile' \in Store!Fill(policyFile, r, task[r].record)
        /\ Continue(r, [task[r] EXCEPT !.at = "renamePolicy"])
        /\ UNCHANGED <<readers, writer, unsaved>>
     \/ /\ policyFile' = Store!Abandon(policyFile, r)
        /\ AnswerPolicy(r)
        /\ unsaved' = unsaved \cup {"policy"}
  /\ UNCHANGED <<up, memory, holder, ledgerFile, bounds, acked, overlapped>>

\* A rename that finds the temporary file renamed already is an error.
RenamePolicy(r) ==
  /\ At(r, "renamePolicy")
  /\ policyFile' = IF Store!RenameFails(policyFile) THEN policyFile
                                                    ELSE Store!Rename(policyFile)
  /\ AnswerPolicy(r)
  /\ UNCHANGED <<up, memory, holder, ledgerFile, bounds, history>>

-----------------------------------------------------------------------------
Request(r) == \/ FlowRequest(r)    \/ DirectionRequest(r)
              \/ PublishRequest(r) \/ PersistRequest(r)

Stage(r) == \/ SetDirection(r) \/ SaveLedger(r)
            \/ FillLedger(r)   \/ RenameLedger(r)
            \/ FillPolicy(r)   \/ RenamePolicy(r)

Crash == /\ up
         /\ up' = FALSE
         /\ task' = [r \in Requests |-> Idle]
         /\ holder' = Nobody
         /\ readers' = {} /\ writer' = Nobody
         /\ ledgerFile' = Store!CloseAll(ledgerFile)
         /\ policyFile' = Store!CloseAll(policyFile)
         /\ UNCHANGED <<memory, bounds, history>>

\* A ledger without a file starts empty, and so does one whose file does not
\* decode, which Bootstrap then overwrites.
LoadedLedger == IF Store!Decodes(ledgerFile) THEN ledgerFile.path ELSE EmptyLedger

\* Seeded fault: what the file holds is taken for a policy.
LoadedAnyway == policyFile.path

\* A policy that cannot be loaded is replaced by the default.
LoadedTarget == IF Store!Decodes(policyFile) THEN policyFile.path ELSE DefaultTarget

Restart ==
  /\ ~up
  /\ restarts < MaxRestarts
  /\ restarts' = restarts + 1
  /\ up' = TRUE
  /\ ledger' = LoadedLedger
  /\ ledgerFile' = IF ledgerFile.path = Torn THEN Store!FileWith(EmptyLedger)
                                             ELSE ledgerFile
  /\ target' = LoadedTarget
  /\ policyFile' = IF Store!Decodes(policyFile) THEN policyFile
                                                ELSE Store!FileWith(DefaultTarget)
  /\ acked' = LoadedLedger.total
  /\ unsaved' = {}
  /\ overlapped' = FALSE
  /\ UNCHANGED <<locks, task, requests>>

Next == \/ \E r \in Requests : Request(r) \/ Stage(r)
        \/ Crash
        \/ Restart

\* A request once begun runs to its end (sync.Mutex and sync.RWMutex starve
\* nobody).
Fairness == \A r \in Requests : WF_vars(Stage(r))

Spec == Init /\ [][Next]_vars /\ Fairness

-----------------------------------------------------------------------------
\* Flow whose request was answered is in the file, whoever wrote that file
\* last, unless the last write of the ledger failed.
AckedFlowSaved == "ledger" \in unsaved \/ LoadedLedger.total >= acked

RunsOneWay(l) ==
  /\ \A d \in Directions \ {l.direction} : l.along[d] = 0
  /\ l.total - l.base
       = (IF l.direction = None THEN 0 ELSE l.along[l.direction]) + l.strayed

\* The flow of a segment ran in the direction the meter shows, but for what was
\* added while some switch stood between its base and its direction: that much,
\* and no more, may be on the account of the wrong direction.
SegmentRunsOneWay == RunsOneWay(ledger)

\* While nobody writes the policy its file holds what is published, however
\* many saves wrote it at a time, unless a write failed.
PolicyFileCurrent ==
  up /\ WritingPolicy = {} /\ "policy" \notin unsaved => policyFile.path = target

\* Whenever the process dies the policy can be loaded again, unless two saves
\* wrote the file at the same time since the last start (see PolicyNeverTorn).
PolicyWhole == overlapped \/ Store!Decodes(policyFile)

\* The ledger with its file is what DurableLedger promises, since Save keeps
\* the mutex until the file is renamed.
Durable == INSTANCE DurableLedger WITH memory <- IF up THEN ledger ELSE Missing,
                                       durable <- LoadedLedger, Lost <- Missing

RefinesDurableLedger == Durable!Spec

\* Every request comes to an end: no error path of one keeps a lock.
RequestsFinish == \A r \in Requests : task[r] # Idle ~> task[r] = Idle

-----------------------------------------------------------------------------
(* What the repository says of the program and its code does not do.       *)

\* "Resets the cumulative base so the new direction starts accounting from zero."
NewDirectionFromZero ==
  [][\A r \in Requests :
       SetDirection(r) /\ ledger'.direction # ledger.direction =>
         ledger'.total = ledger'.base]_vars

\* "A crashed process never leaves a half-written record behind."
PolicyNeverTorn == ~up => Store!Decodes(policyFile)
=============================================================================
