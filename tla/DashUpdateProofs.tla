-------------------------- MODULE DashUpdateProofs --------------------------
(***************************************************************************)
(* The self-update keeps its promises for any number of jobs, releases and *)
(* faults: a pending transaction can be recovered, no older binary serves  *)
(* a migrated database, completed is only said of what is installed, and a *)
(* reconciliation contradicts no updater.                                  *)
(***************************************************************************)
EXTENDS DashUpdate, FiniteSetTheorems, TLAPS

\* Jobs are numbered from 1.
LEMMA JobNumbers ==
    /\ Jobs \subseteq Nat \ {0} /\ 0 \notin Jobs /\ NoRelease \notin Jobs /\ Down \notin Releases
    /\ Releases \subseteq Nat
    /\ \A s \in Releases : \A j \in Jobs : j > s => s + 1 \in Jobs
<1>1. Cardinality(Jobs) \in Nat
  BY JobsAssumption, FS_CardinalityType
<1> DEFINE n == Cardinality(Jobs)
<1>2. Jobs = 1 .. n /\ n \in Nat
  BY <1>1, JobsAssumption
<1> HIDE DEF n
<1> QED  BY <1>2 DEF Releases, NoRelease, Down

\* Versions are ranks.
LEMMA VersionNumbers == Versions \subseteq Nat /\ \A i \in Installs : i.version \in Versions
  BY VersionsAssumption DEF Versions

-----------------------------------------------------------------------------
(* Types. *)

\* Values that initial and final states are made of.
LEMMA Constants ==
    /\ NoTxn \in Txns /\ NoJob \in Items /\ OpenItem \in Items /\ NoEx \in Executors /\ NoRn \in Controllers
    /\ StatusForRequest \in Items /\ FailQueuedJob \in Items /\ SubmissionFailed \in Items
    /\ OpenItem.status = "running" /\ StatusForRequest.status = "running" /\ FailQueuedJob.status = "failed"
<1>1. NoTxn \in Txns
  BY DEF NoTxn, Txns, Releases, NoRelease, Phases, Queued, Done
<1>2. NoJob \in Items /\ StatusForRequest \in Items /\ SubmissionFailed \in Items /\ StatusForRequest.status = "running"
  BY DEF NoJob, Items, StatusForRequest, SubmissionFailed, Phases, Queued, Done
<1>3. OpenItem \in Items /\ OpenItem.status = "running"
  BY <1>2 DEF OpenItem, Items, StatusForRequest
<1>4. FailQueuedJob \in Items /\ FailQueuedJob.status = "failed"
  BY <1>2 DEF FailQueuedJob, Items, StatusForRequest
<1>5. NoEx \in Executors
  BY <1>1, <1>2 DEF NoEx, Executors, Points, Causes, Releases
<1>6. NoRn \in Controllers
  BY DEF NoRn, Controllers, Releases
<1> QED  BY <1>1, <1>2, <1>3, <1>4, <1>5, <1>6

\* The transaction that is none.
LEMMA NoTxnFacts ==
    /\ NoTxn.job = 0 /\ NoTxn.phase = Queued /\ NoTxn.mig = FALSE
    /\ \A t : t.job \in Jobs => t # NoTxn
  BY JobNumbers DEF NoTxn

\* A status keeps its type when its phase or its recovery flag is set.
LEMMA ItemFacts ==
    ASSUME NEW item \in Items
    PROVE  /\ \A p \in Phases : At(item, p) \in Items /\ At(item, p).status = item.status
           /\ \A b \in BOOLEAN : [item EXCEPT !.rec = b] \in Items /\ [item EXCEPT !.rec = b].status = item.status
           /\ [item EXCEPT !.rec = TRUE] \in Items
  BY DEF At, Items

\* A transaction that reaches a phase keeps all else.
LEMMA TxnFacts ==
    ASSUME NEW t \in Txns, NEW p \in Phases
    PROVE  LET u == [t EXCEPT !.phase = p] IN
           u \in Txns /\ u.phase = p /\ u.job = t.job /\ u.prev = t.prev /\ u.legacy = t.legacy
             /\ u.manager = t.manager /\ u.active = t.active /\ u.mig = t.mig
  BY DEF Txns

\* The phases the steps record.
LEMMA PhaseNames ==
    /\ {Queued, Locked, Download, Validate, Prepared, Stopping, Switching, Migrating, Starting, Cleanup, Done} \subseteq Phases
    /\ Queued # Done /\ Prepared # Done /\ Stopping # Done /\ Switching # Done /\ Migrating # Done /\ Starting # Done /\ Cleanup # Done
  BY DEF Phases, Queued, Locked, Download, Validate, Prepared, Stopping, Switching, Migrating, Starting, Cleanup, Done

\* What the type of the lock holder says of each field.
LEMMA ExTypes ==
    ASSUME TypeOK
    PROVE  /\ ex.item \in Items /\ ex.t \in Txns /\ ex.cause \in Causes /\ ex.job \in Releases /\ ex.pc \in Points
           /\ ex.kind \in {"none", "execute", "manual", "recover"}
           /\ \A pc \in Points : \A item \in Items : \A t \in Txns : \A cause \in Causes : Ex(pc, item, t, cause) \in Executors
           /\ \A pc \in Points : Goto(pc) \in Executors
<1>1. ex \in Executors
  BY DEF TypeOK
<1>2. /\ ex.item \in Items /\ ex.t \in Txns /\ ex.cause \in Causes /\ ex.job \in Releases /\ ex.pc \in Points
      /\ ex.kind \in {"none", "execute", "manual", "recover"}
  BY <1>1 DEF Executors
<1>3. ASSUME NEW pc \in Points, NEW item \in Items, NEW t \in Txns, NEW cause \in Causes
      PROVE  Ex(pc, item, t, cause) \in Executors
  BY <1>2 DEF Executors, Ex
<1> QED  BY <1>2, <1>3 DEF Goto

\* What the ends of an executor's step leave of process and unit.
ExTyped == ex' \in Executors /\ unit' \in [Jobs -> UnitStates]
LEMMA ExTyping ==
    ASSUME TypeOK
    PROVE  /\ \A o \in Outcomes : Spend(o) => faults' \in 0 .. MaxFaults
           /\ Quit => ExTyped
           /\ \A e \in Executors : Continue(e) => ExTyped
<1>1. \A o \in Outcomes : Spend(o) => faults' \in 0 .. MaxFaults
  BY BoundsAssumption DEF TypeOK, Outcomes, Spend
<1>2. Quit => ExTyped
  BY Constants DEF TypeOK, Quit, ExTyped, UnitStates
<1> QED  BY <1>1, <1>2 DEF Continue, ExTyped, TypeOK

\* The outcomes of a failed step keep the holder's type.
LEMMA ErrorTyping ==
    ASSUME TypeOK, NEW t \in Txns
    PROVE  /\ SwitchError(t) => ExTyped
           /\ ForwardError(t) => ExTyped
           /\ RollbackError => ExTyped
           /\ \A cause \in Causes : Fail(cause) => ExTyped
<1>1. "restore" \in Points /\ "finish" \in Points /\ "failed" \in Causes
  BY DEF Points, Causes
<1>2. [ex.item EXCEPT !.rec = TRUE] \in Items
  BY ExTypes, ItemFacts
<1> QED  BY <1>1, <1>2, ExTypes, ExTyping DEF SwitchError, ForwardError, RollbackError, Fail

\* So do the writes an executor makes to jobs, service and releases.
LEMMA WriteTyping ==
    ASSUME TypeOK
    PROVE  /\ \A item \in Items : [job EXCEPT ![ex.job] = item] \in [Jobs -> Items]
           /\ \A item \in Items : Report(item) => job' \in [Jobs -> Items]
           /\ StopService => service' \in Releases \cup {Down} /\ rn' \in Controllers
           /\ PruneReleases => DOMAIN releases' \subseteq Releases /\ \A r \in DOMAIN releases' : releases'[r] \in Versions
<1>1. \A item \in Items : [job EXCEPT ![ex.job] = item] \in [Jobs -> Items]
  BY DEF TypeOK
<1>2. StopService => service' \in Releases \cup {Down} /\ rn' \in Controllers
  BY Constants DEF TypeOK, StopService
<1>3. PruneReleases => DOMAIN releases' \subseteq Releases /\ \A r \in DOMAIN releases' : releases'[r] \in Versions
  BY DEF TypeOK, PruneReleases
<1> QED  BY <1>1, <1>2, <1>3 DEF Report, TypeOK

\* A job that was submitted has a plan.
LEMMA PlanTyping ==
    ASSUME TypeOK, JobsInOrder, NEW j \in Jobs, unit[j] # "none"
    PROVE  plan[j] \in Plans /\ plan[j].target \in Versions /\ plan[j].manager \in {"auto", "systemd", "none"} /\ j <= selected
<1>1. j \in Nat /\ selected \in Nat
  BY JobNumbers DEF TypeOK
<1>2. plan[j] \in Plans /\ j <= selected
  BY <1>1 DEF JobsInOrder
<1> QED  BY <1>2 DEF Plans

\* What a record of the lock holder is made of.
LEMMA NewExTypes ==
    ASSUME NEW kind \in {"execute", "manual", "recover"}, NEW pc \in Points, NEW j \in Releases, NEW item \in Items,
           NEW t \in Txns, NEW cause \in Causes
    PROVE  [kind |-> kind, pc |-> pc, job |-> j, item |-> item, t |-> t, cause |-> cause] \in Executors
  BY DEF Executors

\* The lock that nobody holds.
LEMMA NoExFacts == NoEx.pc = "idle" /\ NoEx.kind = "none" /\ NoEx.job = 0 /\ NoEx.t = NoTxn /\ NoEx.cause = ""
  BY DEF NoEx

\* The process that holds the lock works for a job.
LEMMA Running ==
    ASSUME LockHolder, TypeOK, ex.pc # "idle"
    PROVE  /\ ex.kind # "none" /\ ex.job \in Jobs /\ ex.kind \in {"execute", "manual", "recover"}
           /\ ex.kind # "recover" => unit[ex.job] = "locked"
<1>1. ex.kind \in {"none", "execute", "manual", "recover"}
  BY ExTypes
<1>2. ex.kind # "none"
  BY NoExFacts DEF LockHolder
<1> QED  BY <1>1, <1>2 DEF LockHolder

\* The steps of an executor keep the types.
LEMMA ExecutorTypes ==
    ASSUME UpdateInv, Executor
    PROVE  TypeOK'
<1> USE DEF UpdateInv
<1>0. /\ ex.item \in Items /\ ex.t \in Txns /\ ex.cause \in Causes /\ ex.job \in Releases
      /\ \A j \in Jobs : job[j] \in Items
  BY ExTypes DEF TypeOK
<1>1. ASSUME BeginUpdate PROVE TypeOK'
  <2>1. ExTyped /\ faults' \in 0 .. MaxFaults
    BY <1>1, ErrorTyping, ExTypes, ExTyping, ItemFacts, TxnFacts, Constants, PhaseNames DEF Points, Causes, BeginUpdate
  <2>2. job' \in [Jobs -> Items] /\ temps' \subseteq Jobs
    <3>1. At(ex.item, Locked) \in Items
      BY ItemFacts, PhaseNames, <1>0
    <3>2. job' \in [Jobs -> Items]
      BY <3>1, <1>1, WriteTyping DEF BeginUpdate, TypeOK
    <3>3. ex.job \in Jobs
      BY <1>1, Running DEF BeginUpdate
    <3> QED  BY <3>2, <3>3, <1>1 DEF BeginUpdate, TypeOK
  <2> QED  BY <2>2, <2>1, <1>1 DEF TypeOK, BeginUpdate, store, disk, ExTyped
<1>2. ASSUME StageRelease PROVE TypeOK'
  <2>1. ExTyped /\ faults' \in 0 .. MaxFaults
    BY <1>2, ErrorTyping, ExTypes, ExTyping, ItemFacts, TxnFacts, Constants, PhaseNames DEF Points, Causes, StageRelease
  <2>2. ex.job \in Jobs /\ plan[ex.job].target \in Versions
    <3>1. ex.job \in Jobs /\ unit[ex.job] # "none"
      BY <1>2, Running DEF StageRelease, LockHolder, Staging
    <3> QED  BY <3>1, PlanTyping
  <2>3. DOMAIN releases' \subseteq Releases /\ \A r \in DOMAIN releases' : releases'[r] \in Versions
    <3>1. releases' \in {releases, [r \in DOMAIN releases \cup {ex.job} |-> IF r = ex.job THEN plan[ex.job].target ELSE releases[r]]}
      BY <1>2 DEF StageRelease
    <3> QED  BY <3>1, <2>2, <1>0 DEF TypeOK
  <2>4. job' \in [Jobs -> Items] /\ temps' \subseteq Jobs
    BY <1>2, <1>0, WriteTyping, ItemFacts, PhaseNames DEF StageRelease, TypeOK
  <2> QED  BY <2>3, <2>4, <2>1, <1>2 DEF TypeOK, StageRelease, store, disk, ExTyped
<1>3. ASSUME RestorePrevious PROVE TypeOK'
  <2>1. ExTyped /\ faults' \in 0 .. MaxFaults
    BY <1>3, ErrorTyping, ExTypes, ExTyping, ItemFacts, TxnFacts, Constants, PhaseNames DEF Points, Causes, RestorePrevious
  <2>2. ex.t.prev \in Releases \cup {NoRelease}
    BY <1>0 DEF Txns
  <2> QED  BY <2>2, <2>1, <1>3 DEF TypeOK, RestorePrevious, store, disk, ExTyped
<1>4. ASSUME FinishJob PROVE TypeOK'
  <2>1. ExTyped /\ faults' \in 0 .. MaxFaults
    BY <1>4, ErrorTyping, ExTypes, ExTyping, ItemFacts, TxnFacts, Constants, PhaseNames DEF Points, Causes, FinishJob
  <2>2. job' \in [Jobs -> Items]
    <3> DEFINE done == [status |-> "completed", phase |-> Done, code |-> "", rec |-> ex.item.rec, pid |-> ex.item.pid]
               lost == [status |-> "failed", phase |-> ex.item.phase, code |-> FailureCode(ex.item, ex.cause),
                        rec |-> ex.item.rec, pid |-> ex.item.pid]
    <3>1. done \in Items
      BY <1>0, PhaseNames DEF Items
    <3>2. FailureCode(ex.item, ex.cause) \in {"recovery_required", "install_changed", "update_failed"}
      BY DEF FailureCode
    <3>3. lost \in Items
      BY <3>2, <1>0 DEF Items
    <3> QED  BY <3>1, <3>3, <1>4, WriteTyping DEF FinishJob, TypeOK
  <2> QED  BY <2>2, <2>1, <1>4 DEF TypeOK, FinishJob, store, disk, ExTyped
<1>5. ASSUME RemoveTransaction PROVE TypeOK'
  <2>1. ExTyped /\ faults' \in 0 .. MaxFaults
    BY <1>5, ErrorTyping, ExTypes, ExTyping, ItemFacts, TxnFacts, Constants, PhaseNames DEF Points, Causes, RemoveTransaction
  <2>2. txn' \in Txns
    BY <1>5, Constants DEF RemoveTransaction, RemovedTxn, TypeOK
  <2>3. DOMAIN releases' \subseteq Releases /\ (\A r \in DOMAIN releases' : releases'[r] \in Versions) /\ temps' \subseteq Jobs
    BY <1>5, WriteTyping DEF RemoveTransaction, TypeOK
  <2> QED  BY <2>2, <2>3, <2>1, <1>5 DEF TypeOK, RemoveTransaction, store, disk, ExTyped
<1>6. ASSUME RecordRecoveryResult PROVE TypeOK'
  <2>1. ExTyped /\ faults' \in 0 .. MaxFaults
    BY <1>6, ErrorTyping, ExTypes, ExTyping, ItemFacts, TxnFacts, Constants, PhaseNames DEF Points, Causes, RecordRecoveryResult
  <2>2. \A item \in Items : StatusFromDoneTransaction(item, ex.t) \in Items
    BY PhaseNames DEF StatusFromDoneTransaction, Items
  <2>3. job' \in [Jobs -> Items]
    <3>1. CASE ex.job \in Jobs
      BY <2>2, <3>1, <1>0, <1>6, WriteTyping DEF RecordRecoveryResult, TypeOK
    <3>2. CASE ex.job \notin Jobs
      BY <3>2, <1>6, Running DEF RecordRecoveryResult
    <3> QED  BY <3>1, <3>2
  <2> QED  BY <2>3, <2>1, <1>6 DEF TypeOK, RecordRecoveryResult, store, disk, ExTyped
<1>7. ASSUME RecordTransaction PROVE TypeOK'
  <2> DEFINE manager == DetectServiceManager(plan[ex.job].manager)
             t == [job |-> ex.job, phase |-> Prepared, prev |-> current, legacy |-> layout = "flat",
                   manager |-> manager, active |-> manager = "systemd" /\ service # Down, mig |-> FALSE]
  <2>1. t \in Txns
    <3>1. manager \in {"systemd", "none", ""}
      BY DEF DetectServiceManager
    <3> HIDE DEF manager
    <3> QED  BY <3>1, <1>0, PhaseNames DEF Txns, TypeOK
  <2>2. PICK o \in Outcomes :
          /\ Spend(o)
          /\ txn' = IF Took(o) THEN t ELSE txn
          /\ CASE o = "ok" -> Continue(Ex("guard", ex.item, t, ""))
               [] o = "late" -> Continue(Ex("finish", [ex.item EXCEPT !.rec = TRUE], t, "failed"))
               [] o = "fail" -> Fail("failed")
          /\ IF RetainStaged(o) THEN UNCHANGED <<releases, temps>>
             ELSE /\ releases' = [r \in DOMAIN releases \ {ex.job} |-> releases[r]]
                  /\ temps' = temps \ {ex.job}
    BY <1>7 DEF RecordTransaction
  <2> HIDE DEF t
  <2>3. ExTyped /\ faults' \in 0 .. MaxFaults
    BY <2>1, <2>2, ErrorTyping, ExTypes, ExTyping, ItemFacts DEF Points, Causes, Outcomes
  <2> QED  BY <2>1, <2>2, <2>3, <1>7 DEF TypeOK, RecordTransaction, store, ExTyped
<1>8. ASSUME CrossBoundary PROVE TypeOK'
  <2> DEFINE t == [job |-> ex.t.job, phase |-> Migrating, prev |-> ex.t.prev, legacy |-> ex.t.legacy,
                   manager |-> ex.t.manager, active |-> ex.t.active, mig |-> TRUE]
  <2>1. t \in Txns
    BY <1>0, PhaseNames DEF Txns
  <2>2. PICK o \in Outcomes :
          /\ Spend(o)
          /\ SaveTxn(o, t)
          /\ IF o = "ok" THEN Report(At(ex.item, Migrating)) /\ Continue(Ex("migrate", At(ex.item, Migrating), t, ""))
             ELSE ForwardError(t) /\ UNCHANGED job
    BY <1>8 DEF CrossBoundary
  <2> HIDE DEF t
  <2>3. ExTyped /\ faults' \in 0 .. MaxFaults
    BY <2>1, <2>2, <1>0, ErrorTyping, ExTypes, ExTyping, ItemFacts, PhaseNames DEF Points, Causes
  <2>4. job' \in [Jobs -> Items]
    BY <2>2, <1>0, WriteTyping, ItemFacts, PhaseNames DEF TypeOK
  <2> QED  BY <2>1, <2>2, <2>3, <2>4, <1>8 DEF TypeOK, CrossBoundary, SaveTxn, store, ExTyped
<1>9. ASSUME RunCandidateMigration PROVE TypeOK'
  <2>1. ExTyped /\ faults' \in 0 .. MaxFaults
    BY <1>9, ErrorTyping, ExTypes, ExTyping DEF Points, RunCandidateMigration
  <2>2. Version(ex.job) \in Versions
    BY <1>9, VersionNumbers, JobNumbers DEF RunCandidateMigration, HolderInv, CutoverKnows, Cutover, Forward, DiskInv, PendingKnows, Version, TypeOK
  <2> QED  BY <2>1, <2>2, <1>9 DEF TypeOK, RunCandidateMigration, store, ExTyped
<1>10. ASSUME NEW pc \in Points, NEW p \in Phases, NEW next \in Points, ReachPhase(pc, p, next) PROVE TypeOK'
  <2>1. CASE p < ex.t.phase
    BY <2>1, <1>10, ExTypes, ExTyping DEF ReachPhase, TypeOK, ExTyped
  <2>2. CASE ~(p < ex.t.phase)
    <3> DEFINE t == [ex.t EXCEPT !.phase = p]
    <3>1. t \in Txns
      BY <1>0, TxnFacts
    <3>2. PICK o \in Outcomes :
            /\ Spend(o)
            /\ SaveTxn(o, t)
            /\ IF o = "ok" THEN Report(At(ex.item, p)) /\ Continue(Ex(next, At(ex.item, p), t, ex.cause))
               ELSE /\ UNCHANGED job
                    /\ IF ex.t.mig THEN ForwardError(t) ELSE SwitchError(t)
      BY <1>10, <2>2 DEF ReachPhase
    <3> HIDE DEF t
    <3>3. ExTyped /\ faults' \in 0 .. MaxFaults
      BY <3>1, <3>2, <1>0, ErrorTyping, ExTypes, ExTyping, ItemFacts
    <3>4. job' \in [Jobs -> Items]
      BY <3>2, <1>0, WriteTyping, ItemFacts DEF TypeOK
    <3> QED  BY <3>1, <3>2, <3>3, <3>4, <1>10 DEF TypeOK, ReachPhase, SaveTxn, ExTyped
  <2> QED  BY <2>1, <2>2
<1>11. ASSUME NEW pc, NEW next \in Points, RemoveBlock(pc, next) PROVE TypeOK'
  <2>1. ExTyped /\ faults' \in 0 .. MaxFaults
    BY <1>11, <1>0, ErrorTyping, ExTypes, ExTyping DEF RemoveBlock
  <2> QED  BY <2>1, <1>11 DEF TypeOK, RemoveBlock, store, ExTyped
<1>12. ASSUME NEW pc, NEW next \in Points, MarkDone(pc, next) PROVE TypeOK'
  <2>1. [ex.t EXCEPT !.phase = Done] \in Txns
    BY <1>0, TxnFacts, PhaseNames
  <2>2. ExTyped /\ faults' \in 0 .. MaxFaults
    BY <2>1, <1>12, <1>0, ErrorTyping, ExTypes, ExTyping DEF MarkDone
  <2> QED  BY <2>1, <2>2, <1>12 DEF TypeOK, MarkDone, SaveTxn, store, ExTyped
<1>13. ASSUME NEW pc, NEW next \in Points, StartDash(pc, next) PROVE TypeOK'
  <2>1. ExTyped
    BY <1>13, ExTypes, ExTyping DEF StartDash, Points
  <2>2. faults' \in 0 .. MaxFaults
    BY <1>13, BoundsAssumption DEF StartDash, Spend, Outcomes, TypeOK
  <2>3. service' \in Releases \cup {Down}
    <3>1. Bins \subseteq Releases \cup {Down}
      BY DEF Bins, TypeOK, Releases, NoRelease, Down
    <3> QED  BY <3>1, <1>13 DEF StartDash, TypeOK
  <2> QED  BY <2>1, <2>2, <2>3, <1>13 DEF TypeOK, StartDash, store, ExTyped
<1>14. ASSUME FetchRelease PROVE TypeOK'
  <2>1. ExTyped /\ faults' \in 0 .. MaxFaults
    BY <1>14, <1>0, ErrorTyping, ExTypes, ExTyping, ItemFacts, PhaseNames, Constants DEF Points, Causes, FetchRelease, TypeOK
  <2> QED  BY <2>1, <1>14, <1>0, ItemFacts, PhaseNames, WriteTyping DEF TypeOK, FetchRelease, store, ExTyped
<1>15. ASSUME InstallGuard PROVE TypeOK'
  <2>1. ExTyped /\ faults' \in 0 .. MaxFaults
    BY <1>15, <1>0, ErrorTyping, ExTypes, ExTyping, ItemFacts, PhaseNames, Constants DEF Points, Causes, InstallGuard, Outcomes
  <2> QED  BY <2>1, <1>15, <1>0, ItemFacts, PhaseNames, WriteTyping DEF TypeOK, InstallGuard, store, ExTyped
<1>16. ASSUME WriteBlock PROVE TypeOK'
  <2>1. ExTyped /\ faults' \in 0 .. MaxFaults
    BY <1>16, <1>0, ErrorTyping, ExTypes, ExTyping, ItemFacts, PhaseNames, Constants DEF Points, Causes, WriteBlock
  <2> QED  BY <2>1, <1>16, <1>0, ItemFacts, PhaseNames, WriteTyping DEF TypeOK, WriteBlock, store, ExTyped
<1>17. ASSUME StopDash PROVE TypeOK'
  <2>1. ExTyped /\ faults' \in 0 .. MaxFaults
    BY <1>17, <1>0, ErrorTyping, ExTypes, ExTyping, ItemFacts, PhaseNames, Constants DEF Points, Causes, StopDash
  <2> QED  BY <2>1, <1>17, <1>0, ItemFacts, PhaseNames, WriteTyping DEF TypeOK, StopDash, store, ExTyped
<1>18. ASSUME ActivateRelease PROVE TypeOK'
  <2>1. ExTyped /\ faults' \in 0 .. MaxFaults
    BY <1>18, <1>0, ErrorTyping, ExTypes, ExTyping, ItemFacts, PhaseNames, Constants DEF Points, Causes, ActivateRelease, AfterActivate
  <2> QED  BY <2>1, <1>18, <1>0, ItemFacts, PhaseNames, WriteTyping DEF TypeOK, ActivateRelease, store, ExTyped
<1>19. ASSUME InstallAliases PROVE TypeOK'
  <2>1. ExTyped /\ faults' \in 0 .. MaxFaults
    BY <1>19, <1>0, ErrorTyping, ExTypes, ExTyping, ItemFacts, PhaseNames, Constants DEF Points, Causes, InstallAliases, AfterActivate
  <2> QED  BY <2>1, <1>19, <1>0, ItemFacts, PhaseNames, WriteTyping DEF TypeOK, InstallAliases, store, ExTyped
<1>20. ASSUME HoldDash PROVE TypeOK'
  <2>1. ExTyped /\ faults' \in 0 .. MaxFaults
    BY <1>20, <1>0, ErrorTyping, ExTypes, ExTyping, ItemFacts, PhaseNames, Constants DEF Points, Causes, HoldDash
  <2> QED  BY <2>1, <1>20, <1>0, ItemFacts, PhaseNames, WriteTyping DEF TypeOK, HoldDash, store, ExTyped
<1>21. ASSUME WrapUp PROVE TypeOK'
  <2>1. ExTyped /\ faults' \in 0 .. MaxFaults
    BY <1>21, <1>0, ErrorTyping, ExTypes, ExTyping, ItemFacts, PhaseNames, Constants DEF Points, Causes, WrapUp, TypeOK
  <2> QED  BY <2>1, <1>21, <1>0, ItemFacts, PhaseNames, WriteTyping DEF TypeOK, WrapUp, store, ExTyped
<1>22. ASSUME CopyBackup PROVE TypeOK'
  <2>1. ExTyped /\ faults' \in 0 .. MaxFaults
    BY <1>22, <1>0, ErrorTyping, ExTypes, ExTyping, ItemFacts, PhaseNames, Constants DEF Points, Causes, CopyBackup
  <2> QED  BY <2>1, <1>22, <1>0, ItemFacts, PhaseNames, WriteTyping DEF TypeOK, CopyBackup, store, ExTyped
<1>23. ASSUME RemoveCandidate PROVE TypeOK'
  <2>1. ExTyped /\ faults' \in 0 .. MaxFaults
    BY <1>23, <1>0, ErrorTyping, ExTypes, ExTyping, ItemFacts, PhaseNames, Constants DEF Points, Causes, RemoveCandidate, TypeOK
  <2> QED  BY <2>1, <1>23, <1>0, ItemFacts, PhaseNames, WriteTyping DEF TypeOK, RemoveCandidate, store, ExTyped
<1>24. /\ {"idle", "stopping", "stop", "switching", "activate", "starting", "unblock", "start", "cleanup", "done", "result", "wrap",
          "rb_unblock", "rb_start", "rb_done", "rb_clean"} \subseteq Points
  BY DEF Points
<1>25. (IF ex.kind = "recover" THEN "result" ELSE "wrap") \in Points
  BY <1>24
<1>26. /\ Stopping \in Phases /\ Switching \in Phases /\ Starting \in Phases /\ Cleanup \in Phases
  BY PhaseNames
<1> QED  BY <1>1, <1>2, <1>3, <1>4, <1>5, <1>6, <1>7, <1>8, <1>9, <1>10, <1>11, <1>12, <1>13, <1>14, <1>15, <1>16, <1>17, <1>18, <1>19, <1>20, <1>21, <1>22, <1>23, <1>24, <1>25, <1>26 DEF Executor

-----------------------------------------------------------------------------
(* Jobs, units and the holder of the lock. *)

\* The controller creates jobs without gaps.
LEMMA NextJobIs ==
    ASSUME TypeOK, JobsInOrder, rn.pc = "create"
    PROVE  NextJob = selected + 1 /\ selected + 1 \in Jobs
<1>1. selected + 1 \in Jobs /\ selected \in Nat
  BY JobNumbers DEF JobsInOrder, TypeOK
<1>2. job[selected + 1].status = "none" /\ \A k \in 1 .. ((selected + 1) - 1) : job[k].status # "none"
  <2>1. \A k \in 1 .. selected : k \in Jobs
    <3>1. Cardinality(Jobs) \in Nat /\ Jobs = 1 .. Cardinality(Jobs)
      BY JobsAssumption, FS_CardinalityType
    <3> QED  BY <3>1, <1>1
  <2> QED  BY <1>1, <2>1 DEF JobsInOrder
<1>3. ASSUME NEW j \in Jobs, job[j].status = "none", \A k \in 1 .. (j - 1) : job[k].status # "none"
      PROVE  j = selected + 1
  <2>1. j \in Nat /\ j > selected
    BY <1>1, <1>3, JobNumbers DEF JobsInOrder
  <2>2. ~(j > selected + 1)
    BY <1>1, <1>2, <1>3, <2>1
  <2> QED  BY <1>1, <2>1, <2>2
<1> QED  BY <1>1, <1>2, <1>3 DEF NextJob

\* The controller's record.
LEMMA RnTypes ==
    ASSUME TypeOK
    PROVE  /\ rn.by \in {"none", "service", "cli"} /\ rn.job \in Releases /\ rn.plan \in Plans \cup {NoPlan}
           /\ rn.pc \in {"idle", "status", "inspect", "settle", "create", "submit", "verify", "notify"}
           /\ rn.next \in {"none", "create", "notify"}
<1>1. rn \in Controllers
  BY DEF TypeOK
<1> QED  BY <1>1 DEF Controllers

\* Where a reconciliation leads.
LEMMA AfterStatusTypes ==
    ASSUME TypeOK, JobsInOrder, rn.pc \in {"status", "inspect", "settle"}, NEW status
    PROVE  /\ AfterStatus(status) \in Controllers
           /\ AfterStatus(status) = NoRn \/
                /\ AfterStatus(status).pc \in {"create", "notify"} /\ AfterStatus(status).pc = rn.next
                /\ AfterStatus(status).next = "none" /\ AfterStatus(status).plan = rn.plan
  BY RnTypes, Constants DEF AfterStatus, Controllers, Releases, JobsInOrder

\* The controller's steps keep the types.
LEMMA ControllerTypes ==
    ASSUME UpdateInv, Controller
    PROVE  TypeOK'
<1> USE DEF UpdateInv
<1>0. /\ \A j \in Jobs : job[j] \in Items
      /\ selected # 0 => selected \in Jobs /\ job[selected] \in Items
      /\ \A i \in Items : i.phase \in Phases /\ i.rec \in BOOLEAN /\ i.pid \in BOOLEAN
  BY DEF TypeOK, Releases, Items
<1>1. ASSUME NEW r \in Requests, BeginStart(r) PROVE TypeOK'
  <2>1. ResolvePlan(r) # NoPlan => ResolvePlan(r) \in Plans
    BY DEF ResolvePlan, PlanValid
  <2>2. rn' \in Controllers
    BY <2>1, <1>1, RequestsAssumption DEF BeginStart, Controllers, Releases
  <2>3. faults' \in 0 .. MaxFaults
    BY <1>1, BoundsAssumption DEF BeginStart, TypeOK
  <2> QED  BY <2>2, <2>3, <1>1 DEF TypeOK, BeginStart, disk, store
<1>2. ASSUME BeginStatus PROVE TypeOK'
  <2>1. rn' \in Controllers
    BY <1>2 DEF BeginStatus, Controllers, Releases
  <2> QED  BY <2>1, <1>2 DEF TypeOK, BeginStatus, disk, store
<1>3. \A item \in Items : StatusFromDoneTransaction(item, txn) \in Items /\ StaleStatus(item) \in Items
  BY PhaseNames DEF StatusFromDoneTransaction, StaleStatus, Items
<1>4. \A item \in Items : Reconciled(item) \in Items /\ Settled(item) \in Items
  BY <1>3 DEF Reconciled, Settled
<1>5. ASSUME ReadStatus PROVE TypeOK'
  <2>1. rn' \in Controllers
    BY <1>5, AfterStatusTypes, Constants, RnTypes DEF ReadStatus, Controllers, TypeOK
  <2>2. job' \in [Jobs -> Items] /\ txn' \in Txns
    BY <1>0, <1>4, <1>5, Constants DEF ReadStatus, TypeOK
  <2> QED  BY <2>1, <2>2, <1>5 DEF TypeOK, ReadStatus
<1>6. ASSUME InspectUnit PROVE TypeOK'
  <2>1. rn' \in Controllers
    BY <1>6, AfterStatusTypes, RnTypes DEF InspectUnit, Controllers
  <2> QED  BY <2>1, <1>6 DEF TypeOK, InspectUnit, disk, store
<1>7. ASSUME SettleStopped PROVE TypeOK'
  <2>1. rn' \in Controllers
    BY <1>7, AfterStatusTypes DEF SettleStopped
  <2>2. job' \in [Jobs -> Items] /\ txn' \in Txns
    BY <1>0, <1>4, <1>7, Constants DEF SettleStopped, TypeOK
  <2> QED  BY <2>1, <2>2, <1>7 DEF TypeOK, SettleStopped
<1>8. ASSUME SubmitUnit PROVE TypeOK'
  <2>1. rn' \in Controllers
    BY <1>8, Constants, RnTypes DEF SubmitUnit, Controllers
  <2>2. faults' \in 0 .. MaxFaults
    BY <1>8, BoundsAssumption DEF SubmitUnit, Spend, TypeOK
  <2>3. unit' \in [Jobs -> UnitStates]
    BY <1>8 DEF SubmitUnit, TypeOK, UnitStates
  <2> QED  BY <2>1, <2>2, <2>3, <1>8 DEF TypeOK, SubmitUnit, disk, store
<1>9. ASSUME VerifyUnit PROVE TypeOK'
  <2>1. rn' \in Controllers /\ job' \in [Jobs -> Items]
    BY <1>9, Constants DEF VerifyUnit, TypeOK
  <2> QED  BY <2>1, <1>9 DEF TypeOK, VerifyUnit, disk
<1>10. ASSUME NotifyFinished PROVE TypeOK'
  <2>1. [NoJob EXCEPT !.status = "gone"] \in Items
    BY Constants DEF Items
  <2>2. job' \in [Jobs -> Items]
    BY <2>1, <1>0, <1>10 DEF NotifyFinished, TypeOK
  <2>3. handled' \subseteq Jobs /\ notified' \subseteq Jobs
    BY <1>10 DEF NotifyFinished, TypeOK
  <2>4. faults' \in 0 .. MaxFaults /\ rn' \in Controllers
    BY <1>10, ExTyping, Constants DEF NotifyFinished
  <2> QED  BY <2>2, <2>3, <2>4, <1>10 DEF TypeOK, NotifyFinished, disk
<1>11. ASSUME CreateJob PROVE TypeOK'
  <2>1. rn.pc = "create" /\ NextJob \in Jobs /\ NextJob \in Releases
    BY <1>11, NextJobIs DEF CreateJob, Releases
  <2>2. rn.plan \in Plans
    BY <2>1 DEF JobsInOrder
  <2>3. rn' \in Controllers
    <3>1. rn' \in {NoRn, [by |-> rn.by, pc |-> "submit", job |-> NextJob, next |-> "none", plan |-> rn.plan]}
      BY <1>11 DEF CreateJob
    <3> QED  BY <3>1, <2>1, RnTypes, Constants DEF Controllers
  <2>4. job' \in [Jobs -> Items]
    BY <1>11, <2>1, Constants DEF CreateJob, TypeOK
  <2>5. plan' \in [Jobs -> Plans \cup {NoPlan}] /\ selected' \in Releases /\ fresh' \subseteq Jobs
    BY <1>11, <2>1, <2>2 DEF CreateJob, TypeOK
  <2>6. faults' \in 0 .. MaxFaults
    BY <1>11, ExTyping DEF CreateJob, TypeOK
  <2>7. unit' \in [Jobs -> UnitStates]
    BY <1>11, <2>1 DEF CreateJob, TypeOK, UnitStates
  <2>8. ex' \in Executors
    <3>1. ex' \in {ex, [kind |-> "manual", pc |-> "begin", job |-> NextJob, item |-> OpenItem, t |-> NoTxn, cause |-> ""]}
      BY <1>11 DEF CreateJob
    <3>2. "begin" \in Points /\ "" \in Causes
      BY DEF Points, Causes
    <3>3. [kind |-> "manual", pc |-> "begin", job |-> NextJob, item |-> OpenItem, t |-> NoTxn, cause |-> ""] \in Executors
      BY <3>2, <2>1, Constants, NewExTypes
    <3> QED  BY <3>1, <3>3 DEF TypeOK
  <2> QED  BY <2>3, <2>4, <2>5, <2>6, <2>7, <2>8, <1>11 DEF TypeOK, CreateJob, disk
<1> QED  BY <1>1, <1>2, <1>5, <1>6, <1>7, <1>8, <1>9, <1>10, <1>11 DEF Controller

\* The rest of the world keeps them too.
Machine ==
    \/ RecoverUpdate
    \/ \E j \in Jobs : OpenReporter(j) \/ AcquireUpdateLock(j) \/ GraceEnds(j) \/ LateSubmission(j)
    \/ ServiceStarts \/ ServiceStops \/ ExecutorDies \/ Reboot
LEMMA MachineTypes ==
    ASSUME UpdateInv, Machine
    PROVE  TypeOK'
<1> USE DEF UpdateInv
<1>1. ASSUME RecoverUpdate PROVE TypeOK'
  <2>1. ex' \in Executors
    <3>1. txn \in Txns /\ txn.job \in Releases
      BY DEF TypeOK, Txns
    <3>2. (IF txn.phase = Done THEN "result" ELSE "guard") \in Points /\ (IF txn.phase = Done THEN "done" ELSE "") \in Causes
      BY DEF Points, Causes
    <3> QED  BY <3>1, <3>2, <1>1, Constants, NewExTypes DEF RecoverUpdate
  <2> QED  BY <1>1, <2>1 DEF RecoverUpdate, TypeOK, disk, store
<1>2. ASSUME NEW j \in Jobs, OpenReporter(j) PROVE TypeOK'
  <2>1. job' \in [Jobs -> Items] /\ unit' \in [Jobs -> UnitStates]
    BY <1>2, Constants DEF OpenReporter, TypeOK, UnitStates
  <2> QED  BY <2>1, <1>2 DEF OpenReporter, TypeOK, disk
<1>3. ASSUME NEW j \in Jobs, AcquireUpdateLock(j) PROVE TypeOK'
  <2>1. unit' \in [Jobs -> UnitStates]
    BY <1>3 DEF AcquireUpdateLock, TypeOK, UnitStates
  <2>2. ex' \in {ex, [kind |-> "execute", pc |-> "begin", job |-> j, item |-> OpenItem, t |-> NoTxn, cause |-> ""]}
    BY <1>3 DEF AcquireUpdateLock
  <2>3. ex' \in Executors
    <3>1. "begin" \in Points /\ "" \in Causes /\ j \in Releases
      BY DEF Points, Causes, Releases
    <3>2. [kind |-> "execute", pc |-> "begin", job |-> j, item |-> OpenItem, t |-> NoTxn, cause |-> ""] \in Executors
      BY <3>1, Constants, NewExTypes
    <3> QED  BY <3>2, <2>2 DEF TypeOK
  <2> QED  BY <2>1, <2>3, <1>3 DEF AcquireUpdateLock, TypeOK, disk, store
<1>4. ASSUME NEW j \in Jobs, GraceEnds(j) PROVE TypeOK'
  BY <1>4 DEF GraceEnds, TypeOK, disk
<1>5. ASSUME NEW j \in Jobs, LateSubmission(j) PROVE TypeOK'
  <2>1. unit' \in [Jobs -> UnitStates]
    BY <1>5 DEF LateSubmission, TypeOK, UnitStates
  <2> QED  BY <2>1, <1>5 DEF LateSubmission, TypeOK, disk, store
<1>6. ASSUME ServiceStarts PROVE TypeOK'
  <2>1. service' \in Releases
    BY <1>6 DEF ServiceStarts, Bins, TypeOK, Releases
  <2> QED  BY <2>1, <1>6 DEF ServiceStarts, TypeOK, store
<1>7. ASSUME ServiceStops PROVE TypeOK'
  BY <1>7, WriteTyping DEF ServiceStops, TypeOK, store
<1>8. ASSUME ExecutorDies PROVE TypeOK'
  <2>1. ExTyped /\ faults' \in 0 .. MaxFaults
    BY <1>8, ExTyping, BoundsAssumption DEF ExecutorDies, TypeOK
  <2> QED  BY <2>1, <1>8 DEF ExecutorDies, TypeOK, disk, store, ExTyped
<1>9. ASSUME Reboot PROVE TypeOK'
  <2>1. unit' \in [Jobs -> UnitStates]
    BY <1>9 DEF Reboot, UnitStates
  <2>2. faults' \in 0 .. MaxFaults
    BY <1>9, BoundsAssumption DEF Reboot, TypeOK
  <2> QED  BY <2>1, <2>2, <1>9, Constants DEF Reboot, TypeOK, store
<1> QED  BY <1>1, <1>2, <1>3, <1>4, <1>5, <1>6, <1>7, <1>8, <1>9 DEF Machine

\* Together: the type invariant is kept.
LEMMA TypesKept ==
    ASSUME UpdateInv, [Next]_vars
    PROVE  TypeOK'
<1>1. CASE UNCHANGED vars
  BY <1>1 DEF UpdateInv, TypeOK, vars
<1>2. Next => Executor \/ Controller \/ Machine
  BY DEF Next, Machine
<1> QED  BY <1>1, <1>2, ExecutorTypes, ControllerTypes, MachineTypes

\* How an executor's step ends: the process quits, or it goes on.
Goes(pc, t, cause) ==
    /\ unit' = unit /\ ex'.kind = ex.kind /\ ex'.job = ex.job /\ ex'.item.status = ex.item.status
    /\ ex'.pc = pc /\ ex'.t = t /\ ex'.cause = cause

\* How a step ends: the process goes on at a point, or quits.
LEMMA Endings ==
    ASSUME TypeOK, NEW t \in Txns
    PROVE  /\ \A pc : Continue(Goto(pc)) => Goes(pc, ex.t, ex.cause)
           /\ \A pc, item, cause : item.status = ex.item.status /\ Continue(Ex(pc, item, t, cause)) => Goes(pc, t, cause)
           /\ SwitchError(t) => Quit \/ (ex.kind # "recover" /\ Goes("restore", t, "failed"))
           /\ ForwardError(t) => Quit \/ (ex.kind # "recover" /\ Goes("finish", t, "failed"))
           /\ RollbackError => Quit \/ (ex.kind # "recover" /\ Goes("finish", ex.t, ex.cause))
           /\ \A cause : Fail(cause) => Goes("finish", ex.t, cause)
<1>1. \A pc, item, cause : item.status = ex.item.status /\ Continue(Ex(pc, item, t, cause)) => Goes(pc, t, cause)
  BY DEF Continue, Ex, Goes
<1>2. \A pc, cause : Continue(Ex(pc, ex.item, ex.t, cause)) => Goes(pc, ex.t, cause)
  BY DEF Continue, Ex, Goes
<1>3. [ex.item EXCEPT !.rec = TRUE].status = ex.item.status
  BY ExTypes, ItemFacts
<1> QED  BY <1>1, <1>2, <1>3 DEF Goto, SwitchError, ForwardError, RollbackError, Fail

\* Steps of an executor leave the controller's bookkeeping in order.
Books == JobsInOrder /\ StoppedStays
LEMMA ExecutorBooks ==
    ASSUME UpdateInv, TypeOK', ex.pc # "idle",
           Quit \/ \E pc, t, cause : Goes(pc, t, cause),
           plan' = plan, selected' = selected, fresh' = fresh, rn' \in {rn, NoRn},
           \A j \in Jobs : job'[j].status = "none" <=> job[j].status = "none"
    PROVE  Books'
<1> USE DEF UpdateInv
<1>1. ex.job \in Jobs /\ (ex.kind # "recover" => unit[ex.job] = "locked")
  BY Running
<1>2. /\ \A j \in Jobs : unit'[j] = unit[j] \/ (unit[j] = "locked" /\ unit'[j] = "gone")
  BY <1>1 DEF Quit, Goes, TypeOK
<1>3. ex.job \in Jobs /\ selected \in Nat /\ \A j \in Jobs : j \in Nat
  BY <1>1, JobNumbers DEF TypeOK
<1>4. JobsInOrder'
  BY <1>2, <1>3 DEF JobsInOrder, NoRn
<1>5. StoppedStays'
  BY <1>2, <1>3 DEF StoppedStays, NoRn, JobsInOrder
<1> QED  BY <1>4, <1>5 DEF Books

\* A status that an executor writes is that of a job that exists.
LEMMA ReportBooks ==
    ASSUME UpdateInv, ex.pc # "idle", NEW item \in Items, item.status # "none",
           job' = [job EXCEPT ![ex.job] = item] \/ job' = job \/ Report(item),
           ex.kind # "recover" \/ job' = job \/ Report(item) \/ job[ex.job].status # "none"
    PROVE  \A j \in Jobs : job'[j].status = "none" <=> job[j].status = "none"
<1> USE DEF UpdateInv
<1>1. ex.job \in Jobs /\ (ex.kind # "recover" => unit[ex.job] = "locked")
  BY Running
<1>2. ex.kind # "recover" => job[ex.job].status # "none"
  BY <1>1 DEF JobsInOrder
<1> QED  BY <1>1, <1>2 DEF Report, TypeOK

\* A process that has ended knows nothing.
LEMMA QuitHolder ==
    ASSUME UpdateInv, Quit, ex.pc # "idle"
    PROVE  LockHolder' /\ HolderInv'
<1> USE DEF UpdateInv
<1>1. ex' = NoEx /\ ex'.pc = "idle" /\ ex'.kind = "none" /\ ex'.job = 0
  BY NoExFacts DEF Quit
<1>2. LockHolder'
  <2>1. ex.job \in Jobs /\ (ex.kind # "recover" => unit[ex.job] = "locked") /\ ex.kind \in {"execute", "manual", "recover"}
    BY Running
  <2>2. \A j \in Jobs : unit'[j] # "locked"
    BY <2>1 DEF Quit, LockHolder, TypeOK
  <2> QED  BY <1>1, <2>2 DEF LockHolder
<1>3. HolderInv'
  BY <1>1 DEF HolderInv, StagingKnows, CutoverKnows, EndKnows, HolderHolds, Staging, Cutover, Cutting, Forward, RollingBack
<1> QED  BY <1>2, <1>3

\* The lock stays with a process that goes on.
LEMMA GoesLock ==
    ASSUME UpdateInv, ex.pc # "idle", NEW pc, NEW t, NEW cause, Goes(pc, t, cause), pc # "idle",
           ex.kind # "recover" =>
             /\ pc # "result"
             /\ pc \in Cutting => ~t.mig
             /\ pc \in RollingBack \cup {"rb_clean"} \/ (pc = "hold" /\ ~t.mig) => cause = "failed",
           ex.kind = "recover" =>
             /\ pc \notin Staging \cup {"begin", "stopping", "switching", "boundary", "wrap", "finish"}
             /\ pc \in {"activate", "alias"} => t.mig
    PROVE  LockHolder'
<1> USE DEF UpdateInv
<1>1. ex.kind # "none" /\ ex.kind \in {"execute", "manual", "recover"}
  BY Running
<1> QED  BY <1>1 DEF LockHolder, Goes

\* An executor that has failed or is done has nothing left to know.
LEMMA EndHolder ==
    ASSUME UpdateInv, ex.pc # "idle", ex.kind # "recover", NEW pc, NEW t, NEW cause, Goes(pc, t, cause),
           (pc = "finish" /\ cause # "") \/ pc = "remove"
    PROVE  LockHolder' /\ HolderInv'
<1>1. LockHolder'
  BY GoesLock DEF Cutting, RollingBack
<1>2. HolderInv'
  BY DEF Goes, HolderInv, StagingKnows, CutoverKnows, EndKnows, HolderHolds, Staging, Cutover, Cutting, Forward, RollingBack
<1> QED  BY <1>1, <1>2

\* New jobs stay unused as long as an executor touches only what is its own.
LEMMA ExecutorUnused ==
    ASSUME UpdateInv, ex.pc # "idle", Quit \/ \E pc, t, cause : pc # "begin" /\ Goes(pc, t, cause),
           DOMAIN releases' \subseteq DOMAIN releases \cup (IF ex.kind = "recover" THEN {} ELSE {ex.job}),
           current' \in {current, NoRelease} \cup DOMAIN releases \cup (IF ex.kind = "recover" THEN {} ELSE {ex.job})
    PROVE  NewJobsAreUnused'
<1> USE DEF UpdateInv
<1>1. ex.job \in Jobs /\ (ex.kind # "recover" => unit[ex.job] = "locked")
  BY Running
<1>2. /\ \A j \in Jobs : unit'[j] = unit[j] \/ (unit[j] = "locked" /\ unit'[j] = "gone")
      /\ ex'.pc # "begin"
  BY <1>1, NoExFacts DEF Quit, Goes, TypeOK
<1> QED  BY <1>1, <1>2, JobNumbers DEF NewJobsAreUnused, Unused

-----------------------------------------------------------------------------
(* What is on disk. *)

\* The definitions that say so depend on the disk, the plans and the service only.
Fixed == install' = install /\ plan' = plan /\ selected' = selected
LEMMA DiskKept ==
    ASSUME UpdateInv, Fixed, UNCHANGED <<current, layout, releases, schema>>,
           \/ txn' = txn
           \/ /\ TxnPending /\ TxnPending' /\ txn'.job = txn.job /\ txn'.prev = txn.prev /\ txn'.legacy = txn.legacy
              /\ txn'.manager = txn.manager /\ txn'.mig = txn.mig,
           TxnPending => txn.job \in temps',
           guard => guard', block => block', service' \in {service, Down}
    PROVE  DiskInv'
<1> USE DEF UpdateInv, DiskInv, Fixed
<1>1. TxnPending' => TxnPending
  BY DEF TxnPending
<1>2. Bins' = Bins /\ UnderSystemd' = UnderSystemd /\ \A r : Version(r)' = Version(r)
  BY DEF Bins, UnderSystemd, Version
<1>3. PendingKnows'
  BY <1>1, <1>2 DEF PendingKnows
<1>4. DoneKnows'
  BY DEF DoneKnows, Installed, TxnPending, PendingKnows
<1>5. AliasesLead'
  BY DEF AliasesLead
<1>6. ServiceHeld'
  BY <1>1, <1>2 DEF ServiceHeld, Held
<1>7. SchemaNeverAhead'
  BY <1>2 DEF SchemaNeverAhead
<1> QED  BY <1>3, <1>4, <1>5, <1>6, <1>7

\* What a start would run is installed.
LEMMA BinVersions ==
    ASSUME TypeOK, AliasesLead, NEW b \in Bins
    PROVE  Version(b) \in Versions /\ b \in {0} \cup DOMAIN releases /\ b \in Releases
  BY VersionNumbers DEF Bins, Version, TypeOK, AliasesLead, Releases

\* The step BeginUpdate keeps the invariant.
LEMMA BeginUpdateKeeps ==
    ASSUME UpdateInv, TypeOK', BeginUpdate
    PROVE  UpdateInv'
<1> USE DEF UpdateInv
<1>1. ex.pc = "begin" /\ ex.job \in Jobs /\ ex.kind \in {"execute", "manual"} /\ ex.item.status = "running" /\ unit[ex.job] = "locked"
  BY Running DEF BeginUpdate, LockHolder
<1>2. /\ Fixed /\ UNCHANGED <<fresh, rn, current, layout, releases, schema, txn, guard, block, service>>
      /\ temps' \in {temps, temps \cup {ex.job}}
  BY DEF BeginUpdate, Fixed
<1>3. At(ex.item, Locked).status = "running" /\ At(ex.item, Locked) \in Items
  BY <1>1, ExTypes, ItemFacts, PhaseNames
<1>4. job' = job \/ job' = [job EXCEPT ![ex.job] = At(ex.item, Locked)]
  BY DEF BeginUpdate
<1>5. PICK bin \in Bins \cup {NoRelease} :
        \/ \E cause \in {"failed", "recovery", "conflict"} : Goes("finish", NoTxn, cause)
        \/ /\ Goes("finish", NoTxn, "") /\ txn = NoTxn /\ bin \in Bins /\ UpdateNeeded(plan[ex.job], bin) = "no"
        \/ /\ Goes("download", NoTxn, "") /\ txn = NoTxn /\ bin \in Bins /\ UpdateNeeded(plan[ex.job], bin) = "yes"
           /\ temps' = temps \cup {ex.job}
  <2>1. \A pc, cause : Continue(Ex(pc, At(ex.item, Locked), NoTxn, cause)) => Goes(pc, NoTxn, cause)
    BY <1>1, <1>3, Endings, Constants
  <2>2. \A p, b : UpdateNeeded(p, b) \in {"conflict", "no", "yes"}
    BY DEF UpdateNeeded
  <2>3. Bins # {} => (CHOOSE b \in Bins : TRUE) \in Bins
    OBVIOUS
  <2> DEFINE bin == CHOOSE b \in Bins : TRUE
  <2>4. CASE Bins = {}
    BY <2>1, <2>4 DEF BeginUpdate
  <2>5. CASE Bins # {}
    BY <2>1, <2>2, <2>3, <2>5 DEF BeginUpdate
  <2> QED  BY <2>4, <2>5
<1>6. DiskInv'
  <2>1. TxnPending => txn.job \in temps'
    BY <1>2 DEF DiskInv, PendingKnows
  <2> QED  BY <1>2, <2>1, DiskKept
<1>7. Books'
  <2>1. \A j \in Jobs : job'[j].status = "none" <=> job[j].status = "none"
    BY <1>1, <1>3, <1>4, ReportBooks
  <2>2. \E pc, t, cause : Goes(pc, t, cause)
    BY <1>5
  <2> QED  BY <1>1, <1>2, <2>1, <2>2, ExecutorBooks DEF Fixed
<1>8. NewJobsAreUnused'
  BY <1>1, <1>2, <1>5, ExecutorUnused
<1>9. CASE \E cause \in {"failed", "recovery", "conflict"} : Goes("finish", NoTxn, cause)
  BY <1>1, <1>6, <1>7, <1>8, <1>9, EndHolder DEF Books
<1>10. CASE /\ Goes("finish", NoTxn, "") /\ txn = NoTxn /\ bin \in Bins /\ UpdateNeeded(plan[ex.job], bin) = "no"
  <2>1. LockHolder'
    BY <1>1, <1>10, GoesLock DEF Cutting, RollingBack
  <2>2. Version(bin) = plan[ex.job].target
    BY <1>10 DEF UpdateNeeded
  <2>3. txn' = NoTxn /\ \E b \in Bins' : Version(b)' = plan'[ex'.job].target
    BY <1>2, <1>10, <2>2 DEF Goes, Fixed, Bins, Version
  <2>4. ~TxnPending'
    BY <2>3 DEF TxnPending
  <2>5. HolderInv'
    BY <1>10, <2>3, <2>4
       DEF Goes, HolderInv, StagingKnows, CutoverKnows, EndKnows, HolderHolds, Staging, Cutover, Cutting, Forward, RollingBack
  <2> QED  BY <1>6, <1>7, <1>8, <2>1, <2>5 DEF Books
<1>11. CASE /\ Goes("download", NoTxn, "") /\ txn = NoTxn /\ bin \in Bins /\ UpdateNeeded(plan[ex.job], bin) = "yes"
            /\ temps' = temps \cup {ex.job}
  <2>1. LockHolder'
    BY <1>1, <1>11, GoesLock DEF Cutting, RollingBack
  <2>2. plan[ex.job].target >= schema
    <3>1. ~(plan[ex.job].target < Version(bin))
      BY <1>11 DEF UpdateNeeded
    <3>2. plan[ex.job].target \in Nat /\ Version(bin) \in Nat /\ schema \in Nat
      BY <1>1, <1>11, PlanTyping, BinVersions, VersionNumbers DEF DiskInv, TypeOK
    <3>3. Version(bin) >= schema
      BY <1>11 DEF DiskInv, SchemaNeverAhead
    <3> QED  BY <3>1, <3>2, <3>3
  <2>3. layout # "mixed" /\ current # ex.job
    BY <1>1, <1>11 DEF Bins, NewJobsAreUnused, Unused
  <2>4. StagingKnows'
    BY <1>2, <1>11, <2>2, <2>3 DEF Goes, StagingKnows, Fixed
  <2>5. HolderInv'
    BY <1>11, <2>4 DEF Goes, HolderInv, CutoverKnows, EndKnows, HolderHolds, Cutover, Cutting, Forward, RollingBack
  <2> QED  BY <1>6, <1>7, <1>8, <2>1, <2>5 DEF Books
<1> QED  BY <1>5, <1>9, <1>10, <1>11

\* The step FetchRelease keeps the invariant.
LEMMA FetchReleaseKeeps ==
    ASSUME UpdateInv, TypeOK', FetchRelease
    PROVE  UpdateInv'
<1> USE DEF UpdateInv
<1>1. ex.pc = "download" /\ ex.job \in Jobs /\ ex.kind \in {"execute", "manual"} /\ ex.item.status = "running" /\ unit[ex.job] = "locked"
  BY Running DEF FetchRelease, LockHolder, Staging
<1>2. /\ Fixed /\ UNCHANGED <<fresh, rn, current, layout, releases, schema, txn, guard, block, service>>
      /\ Report(At(ex.item, Download))
  BY DEF FetchRelease, Fixed
<1>3. At(ex.item, Download).status = "running" /\ At(ex.item, Download) \in Items
  BY <1>1, ExTypes, ItemFacts, PhaseNames
<1>4. \/ Goes("finish", NoTxn, "failed")
      \/ Goes("validate", NoTxn, "") /\ temps' = temps
  <2>1. \A pc, cause : Continue(Ex(pc, At(ex.item, Download), NoTxn, cause)) => Goes(pc, NoTxn, cause)
    BY <1>1, <1>3, Endings, Constants
  <2> QED  BY <2>1 DEF FetchRelease
<1>5. txn = NoTxn
  BY <1>1 DEF HolderInv, StagingKnows, Staging
<1>6. DiskInv'
  BY <1>2, <1>5, DiskKept DEF TxnPending
<1>7. Books'
  <2>1. \A j \in Jobs : job'[j].status = "none" <=> job[j].status = "none"
    BY <1>1, <1>2, <1>3, ReportBooks
  <2> QED  BY <1>1, <1>2, <1>4, <2>1, ExecutorBooks DEF Fixed
<1>8. NewJobsAreUnused'
  BY <1>1, <1>2, <1>4, ExecutorUnused
<1>9. CASE Goes("finish", NoTxn, "failed")
  BY <1>1, <1>6, <1>7, <1>8, <1>9, EndHolder DEF Books
<1>10. CASE Goes("validate", NoTxn, "") /\ temps' = temps
  <2>1. LockHolder'
    BY <1>1, <1>10, GoesLock DEF Cutting, RollingBack
  <2>2. HolderInv'
    BY <1>1, <1>2, <1>5, <1>10 DEF Goes, HolderInv, StagingKnows, CutoverKnows, EndKnows, HolderHolds, Fixed, Staging, Cutover, Cutting, Forward, RollingBack
  <2> QED  BY <1>6, <1>7, <1>8, <2>1, <2>2 DEF Books
<1> QED  BY <1>4, <1>9, <1>10

\* The step StageRelease keeps the invariant.
LEMMA StageReleaseKeeps ==
    ASSUME UpdateInv, TypeOK', StageRelease
    PROVE  UpdateInv'
<1> USE DEF UpdateInv
<1>1. ex.pc = "validate" /\ ex.job \in Jobs /\ ex.kind \in {"execute", "manual"} /\ ex.item.status = "running" /\ unit[ex.job] = "locked"
  BY Running DEF StageRelease, LockHolder, Staging
<1>2. /\ Fixed /\ UNCHANGED <<fresh, rn, current, layout, schema, txn, guard, block, service>>
      /\ Report(At(ex.item, Validate))
  BY DEF StageRelease, Fixed
<1>3. At(ex.item, Validate).status = "running" /\ At(ex.item, Validate) \in Items
  BY <1>1, ExTypes, ItemFacts, PhaseNames
<1>4. \/ Goes("finish", NoTxn, "failed") /\ releases' = releases
      \/ /\ Goes("record", NoTxn, "") /\ temps' = temps
         /\ releases' = [r \in DOMAIN releases \cup {ex.job} |-> IF r = ex.job THEN plan[ex.job].target ELSE releases[r]]
  <2>1. \A pc, cause : Continue(Ex(pc, At(ex.item, Validate), NoTxn, cause)) => Goes(pc, NoTxn, cause)
    BY <1>1, <1>3, Endings, Constants
  <2> QED  BY <2>1 DEF StageRelease
<1>5. txn = NoTxn /\ txn' = NoTxn /\ ~TxnPending' /\ current # ex.job
  BY <1>1, <1>2 DEF HolderInv, StagingKnows, Staging, TxnPending
<1>6. Books'
  <2>1. \A j \in Jobs : job'[j].status = "none" <=> job[j].status = "none"
    BY <1>1, <1>2, <1>3, ReportBooks
  <2> QED  BY <1>1, <1>2, <1>4, <2>1, ExecutorBooks DEF Fixed
<1>7. NewJobsAreUnused'
  BY <1>1, <1>2, <1>4, ExecutorUnused
<1>8. CASE Goes("finish", NoTxn, "failed") /\ releases' = releases
  <2>1. DiskInv'
    BY <1>2, <1>5, <1>8, DiskKept DEF TxnPending
  <2> QED  BY <1>1, <2>1, <1>6, <1>7, <1>8, EndHolder DEF Books
<1>9. CASE /\ Goes("record", NoTxn, "") /\ temps' = temps
           /\ releases' = [r \in DOMAIN releases \cup {ex.job} |-> IF r = ex.job THEN plan[ex.job].target ELSE releases[r]]
  <2>1. LockHolder'
    BY <1>1, <1>9, GoesLock DEF Cutting, RollingBack
  <2>2. HolderInv'
    BY <1>1, <1>2, <1>5, <1>9 DEF Goes, HolderInv, StagingKnows, CutoverKnows, EndKnows, HolderHolds, Fixed, Staging, Cutover, Cutting, Forward, RollingBack
  <2>3. Bins' = Bins /\ UnderSystemd' = UnderSystemd
    BY <1>2 DEF Bins, UnderSystemd, Fixed
  <2>4. \A b \in {0} \cup Bins : Version(b)' = Version(b)
    <3>1. ex.job # 0
      BY <1>1, JobNumbers
    <3>2. ex.job \notin Bins
      BY <1>5, <3>1 DEF Bins
    <3> QED  BY <3>1, <3>2, <1>2, <1>9, BinVersions DEF Version, Fixed, DiskInv
  <2>5. AliasesLead' /\ PendingKnows' /\ DoneKnows'
    BY <1>2, <1>5, <1>9, NoTxnFacts, PhaseNames DEF DiskInv, AliasesLead, PendingKnows, DoneKnows
  <2>6. ServiceHeld'
    BY <1>2, <1>5, <2>3 DEF DiskInv, ServiceHeld
  <2>7. SchemaNeverAhead'
    BY <1>2, <2>3, <2>4 DEF DiskInv, SchemaNeverAhead, ServiceHeld
  <2> QED  BY <1>6, <1>7, <2>1, <2>2, <2>5, <2>6, <2>7 DEF Books, DiskInv
<1> QED  BY <1>4, <1>8, <1>9

\* The step RecordTransaction keeps the invariant.
LEMMA RecordTransactionKeeps ==
    ASSUME UpdateInv, TypeOK', RecordTransaction
    PROVE  UpdateInv'
<1> USE DEF UpdateInv
<1> DEFINE manager == DetectServiceManager(plan[ex.job].manager)
<1>1. ex.pc = "record" /\ ex.job \in Jobs /\ ex.kind \in {"execute", "manual"} /\ ex.item.status = "running" /\ unit[ex.job] = "locked"
  BY Running DEF RecordTransaction, LockHolder, Staging
<1>2. /\ Fixed /\ UNCHANGED <<fresh, job, rn, current, layout, schema, guard, block, service>>
  BY DEF RecordTransaction, Fixed, store
<1>3. PICK t :
        /\ t.job = ex.job /\ t.phase = Prepared /\ t.prev = current /\ (t.legacy <=> layout = "flat") /\ t.manager = manager
        /\ ~t.mig
        /\ \/ txn' = t /\ UNCHANGED <<releases, temps>> /\ (Goes("guard", t, "") \/ Goes("finish", t, "failed"))
           \/ /\ txn' = txn /\ Goes("finish", ex.t, "failed")
              /\ releases' = [r \in DOMAIN releases \ {ex.job} |-> releases[r]]
  <2> DEFINE t == [job |-> ex.job, phase |-> Prepared, prev |-> current, legacy |-> layout = "flat",
                   manager |-> manager, active |-> manager = "systemd" /\ service # Down, mig |-> FALSE]
  <2>1. PICK o \in Outcomes :
          /\ txn' = IF Took(o) THEN t ELSE txn
          /\ CASE o = "ok" -> Continue(Ex("guard", ex.item, t, ""))
               [] o = "late" -> Continue(Ex("finish", [ex.item EXCEPT !.rec = TRUE], t, "failed"))
               [] o = "fail" -> Fail("failed")
          /\ IF RetainStaged(o) THEN UNCHANGED <<releases, temps>>
             ELSE /\ releases' = [r \in DOMAIN releases \ {ex.job} |-> releases[r]]
                  /\ temps' = temps \ {ex.job}
    BY DEF RecordTransaction
  <2>2. /\ t.job = ex.job /\ t.phase = Prepared /\ t.prev = current /\ (t.legacy <=> layout = "flat") /\ t.manager = manager
        /\ ~t.mig
    OBVIOUS
  <2>3. t \in Txns
    <3>1. manager \in {"systemd", "none", ""}
      BY DEF DetectServiceManager
    <3> HIDE DEF manager
    <3> QED  BY <3>1, <1>1, PhaseNames DEF Txns, TypeOK, Releases
  <2> HIDE DEF t
  <2>4. [ex.item EXCEPT !.rec = TRUE].status = ex.item.status
    BY ExTypes, ItemFacts
  <2>5. o \in {"ok", "fail", "late"}
    BY DEF Outcomes
  <2>6. CASE o = "ok"
    BY <2>1, <2>2, <2>3, <2>6, Endings DEF Took, RetainStaged
  <2>7. CASE o = "late"
    BY <2>1, <2>2, <2>3, <2>4, <2>7, Endings DEF Took, RetainStaged
  <2>8. CASE o = "fail"
    BY <2>1, <2>2, <2>3, <2>8, Endings DEF Took, RetainStaged
  <2> QED  BY <2>5, <2>6, <2>7, <2>8
<1>4. /\ txn = NoTxn /\ current # ex.job /\ ex.job \in temps /\ plan[ex.job].target >= schema
      /\ ex.job \in DOMAIN releases /\ releases[ex.job] = plan[ex.job].target /\ layout \in {"flat", "aliases"}
      /\ ~TxnPending
  BY <1>1 DEF HolderInv, StagingKnows, Staging, TypeOK, TxnPending
<1>5. ex.job <= selected /\ plan[ex.job].manager \in {"auto", "systemd", "none"}
  BY <1>1, PlanTyping
<1>6. Books'
  BY <1>1, <1>2, <1>3, ExecutorBooks DEF Fixed
<1>7. NewJobsAreUnused'
  BY <1>1, <1>2, <1>3, ExecutorUnused
<1>8. ex.job # 0 /\ ex.job \notin Bins
  BY <1>1, <1>4, JobNumbers DEF Bins
<1>9. Bins' = Bins /\ UnderSystemd' = UnderSystemd
  BY <1>2 DEF Bins, UnderSystemd, Fixed
<1>10. CASE txn' = t /\ UNCHANGED <<releases, temps>> /\ (Goes("guard", t, "") \/ Goes("finish", t, "failed"))
  <2>1. \A r : Version(r)' = Version(r)
    BY <1>2, <1>10 DEF Version, Fixed
  <2>2. /\ txn'.job = ex.job /\ txn'.phase = Prepared /\ txn'.prev = current /\ (txn'.legacy <=> layout = "flat")
        /\ txn'.manager = manager /\ ~txn'.mig
    BY <1>3, <1>10
  <2>11. UnderSystemd => manager = "systemd"
    BY <1>1, <1>5 DEF UnderSystemd, DetectServiceManager
  <2> HIDE DEF manager
  <2>9. txn' # NoTxn /\ txn'.phase # Done
    BY <1>1, <2>2, NoTxnFacts, PhaseNames
  <2>10. TxnPending'
    BY <2>9 DEF TxnPending
  <2>3. AliasesLead' /\ DoneKnows' /\ SchemaNeverAhead'
    <3>1. AliasesLead'
      BY <1>2, <1>10 DEF DiskInv, AliasesLead
    <3>2. DoneKnows'
      BY <1>1, <2>2, <2>9 DEF DoneKnows
    <3>3. SchemaNeverAhead'
      BY <1>2, <1>9, <2>1 DEF DiskInv, SchemaNeverAhead
    <3> QED  BY <3>1, <3>2, <3>3
  <2>4. PendingKnows'
    <3>1. Version(IF txn'.legacy THEN 0 ELSE txn'.prev) >= schema
      BY <2>2, <1>4 DEF DiskInv, SchemaNeverAhead, Bins
    <3>2. ~txn'.legacy => layout = "aliases" /\ current \in DOMAIN releases \ {ex.job}
      BY <2>2, <1>4 DEF DiskInv, AliasesLead
    <3>3. Version(IF txn.legacy THEN 0 ELSE txn.prev)' >= schema'
      BY <3>1, <1>2, <1>10 DEF Version, Fixed
    <3> QED  BY <1>1, <1>2, <1>4, <1>5, <1>10, <2>2, <3>2, <3>3 DEF PendingKnows, Fixed
  <2>5. ServiceHeld'
    <3>1. UnderSystemd => txn'.manager = "systemd"
      BY <2>2, <2>11
    <3>2. current' # txn'.job
      BY <1>2, <1>4, <2>2
    <3>3. UnderSystemd /\ service' # Down => service' \in {0} \cup Bins'
      BY <1>2, <1>9 DEF DiskInv, ServiceHeld
    <3> QED  BY <1>9, <3>1, <3>2, <3>3 DEF ServiceHeld
  <2>6. LockHolder'
    <3>1. t = txn'
      BY <1>10
    <3> QED  BY <1>1, <2>2, <3>1, <1>10, GoesLock DEF Cutting, RollingBack
  <2>7. CASE Goes("finish", t, "failed")
    BY <1>1, <1>6, <1>7, <2>3, <2>4, <2>5, <2>7, EndHolder DEF Books, DiskInv
  <2>8. CASE Goes("guard", t, "")
    <3>1. CutoverKnows'
      BY <1>10, <2>2, <2>10, <2>8, PhaseNames DEF Goes, CutoverKnows, Matches, Forward, RollingBack
    <3>2. StagingKnows' /\ EndKnows' /\ HolderHolds'
      BY <2>8 DEF Goes, StagingKnows, EndKnows, HolderHolds, Staging
    <3> QED  BY <3>1, <3>2, <1>6, <1>7, <2>3, <2>4, <2>5, <2>6 DEF Books, DiskInv, HolderInv
  <2> QED  BY <1>10, <2>7, <2>8
<1>11. CASE /\ txn' = txn /\ Goes("finish", ex.t, "failed")
            /\ releases' = [r \in DOMAIN releases \ {ex.job} |-> releases[r]]
  <2>1. \A b \in {0} \cup Bins : Version(b)' = Version(b)
    BY <1>2, <1>8, <1>11, BinVersions DEF Version, Fixed, DiskInv
  <2>2. AliasesLead' /\ PendingKnows' /\ DoneKnows' /\ ~TxnPending'
    BY <1>2, <1>4, <1>11, NoTxnFacts, PhaseNames DEF DiskInv, AliasesLead, PendingKnows, DoneKnows, TxnPending
  <2>3. ServiceHeld'
    BY <1>2, <2>2, <1>9 DEF DiskInv, ServiceHeld
  <2>4. SchemaNeverAhead'
    BY <1>2, <1>9, <2>1 DEF DiskInv, SchemaNeverAhead, ServiceHeld
  <2> QED  BY <1>1, <1>6, <1>7, <1>11, <2>2, <2>3, <2>4, EndHolder DEF Books, DiskInv
<1> QED  BY <1>3, <1>10, <1>11

-----------------------------------------------------------------------------
(* The cutover. *)

\* What an executor in the cutover knows of its transaction.
LEMMA InCutover ==
    ASSUME UpdateInv, ex.pc \in Cutover
    PROVE  /\ ex.pc # "idle" /\ ex.job \in Jobs /\ ex.kind \in {"execute", "manual", "recover"} /\ TxnPending
           /\ ex.job # 0 /\ ex.job # NoRelease /\ ex.job \in Releases
           /\ txn.job = ex.job /\ ex.t.job = ex.job /\ ex.t.prev = txn.prev /\ ex.t.legacy = txn.legacy /\ ex.t.phase # Done
           /\ ex.t.manager = txn.manager /\ ex.t.mig = txn.mig /\ ex.t.active = txn.active
           /\ ex.t \in Txns /\ ex.t.mig \in BOOLEAN /\ ex.t.legacy \in BOOLEAN /\ txn \in Txns
           /\ ex.job \in DOMAIN releases /\ ex.job \in temps /\ ex.job <= selected
           /\ ~ex.t.legacy => ex.t.prev \in DOMAIN releases /\ ex.t.prev # ex.job
<1> USE DEF UpdateInv
<1>1. ex.pc # "idle"
  BY DEF Cutover, Cutting, Forward, RollingBack
<1>2. ex.job \in Jobs /\ ex.kind \in {"execute", "manual", "recover"} /\ ex.job # 0 /\ ex.job # NoRelease /\ ex.job \in Releases
  BY <1>1, Running, JobNumbers DEF Releases
<1>3. /\ TxnPending /\ txn.job = ex.job /\ ex.t.job = ex.job /\ ex.t.prev = txn.prev /\ ex.t.legacy = txn.legacy /\ ex.t.phase # Done
      /\ ex.t.manager = txn.manager /\ ex.t.mig = txn.mig /\ ex.t.active = txn.active
  BY DEF HolderInv, CutoverKnows, Matches
<1>4. ex.t \in Txns /\ ex.t.mig \in BOOLEAN /\ ex.t.legacy \in BOOLEAN /\ txn \in Txns
  BY ExTypes DEF Txns, TypeOK
<1>5. /\ ex.job \in DOMAIN releases /\ ex.job \in temps /\ ex.job <= selected
      /\ ~ex.t.legacy => ex.t.prev \in DOMAIN releases /\ ex.t.prev # ex.job
  BY <1>3 DEF DiskInv, PendingKnows
<1> QED  BY <1>1, <1>2, <1>3, <1>4, <1>5

\* A step that leaves the releases where they are, as most do: the service may be stopped,
\* or started with what is installed, where that is allowed.
LEMMA SameReleases ==
    ASSUME UpdateInv, Fixed, UNCHANGED <<current, layout, releases, schema>>,
           \/ txn' = txn
           \/ /\ TxnPending /\ TxnPending' /\ txn'.job = txn.job /\ txn'.prev = txn.prev /\ txn'.legacy = txn.legacy
              /\ txn'.manager = txn.manager /\ txn'.mig = txn.mig,
           TxnPending => txn.job \in temps',
           service' \in {service, Down} \cup Bins,
           UnderSystemd /\ TxnPending /\ ~txn.mig /\ current = txn.job => Held'
    PROVE  DiskInv'
<1> USE DEF UpdateInv, DiskInv, Fixed
<1>1. TxnPending' => TxnPending
  BY DEF TxnPending
<1>2. Bins' = Bins /\ UnderSystemd' = UnderSystemd /\ \A r : Version(r)' = Version(r)
  BY DEF Bins, UnderSystemd, Version
<1>3. PendingKnows'
  BY <1>1, <1>2 DEF PendingKnows
<1>4. DoneKnows'
  BY DEF DoneKnows, Installed, TxnPending, PendingKnows
<1>5. AliasesLead'
  BY DEF AliasesLead
<1>6. ServiceHeld'
  BY <1>1, <1>2 DEF ServiceHeld
<1>7. SchemaNeverAhead'
  BY <1>2 DEF SchemaNeverAhead
<1> QED  BY <1>3, <1>4, <1>5, <1>6, <1>7

\* A report of a phase creates no job.
LEMMA ReportAt ==
    ASSUME UpdateInv, ex.pc # "idle", NEW p \in Phases, Report(At(ex.item, p)) \/ job' = job
    PROVE  \A j \in Jobs : job'[j].status = "none" <=> job[j].status = "none"
<1> USE DEF UpdateInv
<1>1. CASE ex.kind = "recover"
  BY <1>1 DEF Report
<1>2. CASE ex.kind # "recover"
  <2>1. At(ex.item, p) \in Items /\ At(ex.item, p).status = ex.item.status
    BY ExTypes, ItemFacts
  <2>2. ex.item.status = "running"
    BY <1>2, Running DEF LockHolder
  <2> QED  BY <1>2, <2>1, <2>2, ReportBooks
<1> QED  BY <1>1, <1>2

\* Steps of the cutover leave the books in order and touch no other job's release.
LEMMA CutoverStep ==
    ASSUME UpdateInv, TypeOK', ex.pc \in Cutover,
           Quit \/ \E pc, t, cause : pc # "begin" /\ Goes(pc, t, cause),
           Fixed, fresh' = fresh, rn' \in {rn, NoRn},
           job' = job \/ \E p \in Phases : Report(At(ex.item, p)),
           releases' = releases,
           current' \in {current, NoRelease, ex.job} \/ (~ex.t.legacy /\ current' = ex.t.prev)
    PROVE  Books' /\ NewJobsAreUnused'
<1>1. ex.pc # "idle" /\ ex.job \in DOMAIN releases /\ (~ex.t.legacy => ex.t.prev \in DOMAIN releases)
  BY InCutover
<1>2. Queued \in Phases
  BY PhaseNames
<1>3. \A j \in Jobs : job'[j].status = "none" <=> job[j].status = "none"
  BY <1>1, <1>2, ReportAt
<1>4. Books'
  BY <1>1, <1>3, ExecutorBooks DEF Fixed
<1>5. NewJobsAreUnused'
  BY <1>1, ExecutorUnused
<1> QED  BY <1>4, <1>5

\* An error before the migration boundary: the executor rolls back what is on disk.
LEMMA SwitchErrorHolder ==
    ASSUME UpdateInv, ex.pc \in Cutting, NEW t \in Txns, SwitchError(t), TxnPending', Matches(t)',
           t.phase # Done, t.job = ex.job, t.mig = ex.t.mig
    PROVE  LockHolder' /\ HolderInv' /\ (Quit \/ \E pc, u, cause : pc # "begin" /\ Goes(pc, u, cause))
<1> USE DEF UpdateInv
<1>0. ex.pc \in Cutover
  BY DEF Cutover
<1>1. CASE Quit
  BY <1>0, <1>1, QuitHolder, InCutover
<1>2. CASE ex.kind # "recover" /\ Goes("restore", t, "failed")
  <2>1. ~t.mig /\ ex.pc # "idle" /\ ex.job = txn'.job
    BY <1>0, <1>2, InCutover DEF LockHolder, Matches
  <2>2. LockHolder'
    BY <1>2, <2>1, GoesLock DEF Cutting
  <2>3. CutoverKnows'
    BY <1>2, <2>1 DEF Goes, CutoverKnows, Forward
  <2>4. StagingKnows' /\ EndKnows' /\ HolderHolds'
    BY <1>2 DEF Goes, StagingKnows, EndKnows, HolderHolds, Staging
  <2> QED  BY <1>2, <2>2, <2>3, <2>4 DEF HolderInv
<1> QED  BY <1>1, <1>2, Endings

\* An error after it ends the process and leaves the rest to recovery.
LEMMA ForwardErrorHolder ==
    ASSUME UpdateInv, ex.pc # "idle", NEW t \in Txns, ForwardError(t)
    PROVE  LockHolder' /\ HolderInv' /\ (Quit \/ \E pc, u, cause : pc # "begin" /\ Goes(pc, u, cause))
  BY QuitHolder, EndHolder, Endings DEF UpdateInv

\* So does an error while rolling back.
LEMMA RollbackErrorHolder ==
    ASSUME UpdateInv, ex.pc \in RollingBack \/ (ex.pc = "hold" /\ ~ex.t.mig), RollbackError
    PROVE  LockHolder' /\ HolderInv' /\ (Quit \/ \E pc, u, cause : pc # "begin" /\ Goes(pc, u, cause))
<1> USE DEF UpdateInv
<1>1. ex.pc # "idle" /\ ex.t \in Txns /\ ex.kind \in {"execute", "manual", "recover"}
  BY InCutover DEF Cutover
<1>2. ex.kind # "recover" => ex.cause = "failed"
  BY <1>1 DEF LockHolder
<1> QED  BY <1>1, <1>2, QuitHolder, EndHolder, Endings

\* Under systemd a pending transaction is one of a service that can be held.
LEMMA ManagerIs ==
    ASSUME UpdateInv, ex.pc \in Cutover, UnderSystemd
    PROVE  ex.t.manager = "systemd"
  BY InCutover DEF UpdateInv, DiskInv, ServiceHeld

\* The step InstallGuard keeps the invariant.
LEMMA InstallGuardKeeps ==
    ASSUME UpdateInv, TypeOK', InstallGuard
    PROVE  UpdateInv'
<1> USE DEF UpdateInv
<1>1. ex.pc = "guard" /\ ex.pc \in Cutover /\ ex.pc \in Cutting
  BY DEF InstallGuard, Cutover, Cutting
<1>2. Fixed /\ UNCHANGED <<fresh, rn, job, temps, current, layout, releases, schema, txn, block, service>> /\ (guard => guard')
  BY DEF InstallGuard, Fixed, store
<1>3. \/ Goes("block", ex.t, ex.cause) /\ (ex.t.manager = "systemd" => guard')
      \/ SwitchError(ex.t)
  BY <1>1, InCutover, Endings DEF InstallGuard
<1>4. TxnPending' /\ Matches(ex.t) /\ UnderSystemd' = UnderSystemd
  BY <1>1, <1>2, InCutover DEF TxnPending, Matches, Fixed, UnderSystemd
<1>5. DiskInv'
  BY <1>1, <1>2, InCutover, DiskKept
<1>6. CASE SwitchError(ex.t)
  <2>1. PICK t \in Txns : t = ex.t
    BY <1>1, InCutover
  <2>2. Matches(t)'
    BY <1>2, <1>4, <2>1 DEF Matches
  <2>3. LockHolder' /\ HolderInv' /\ (Quit \/ \E pc, u, cause : pc # "begin" /\ Goes(pc, u, cause))
    BY <1>1, <1>4, <1>6, <2>1, <2>2, InCutover, SwitchErrorHolder
  <2> QED  BY <1>1, <1>2, <1>5, <2>3, CutoverStep DEF Books
<1>7. CASE Goes("block", ex.t, ex.cause) /\ (ex.t.manager = "systemd" => guard')
  <2>1. LockHolder'
    BY <1>1, <1>7, InCutover, GoesLock DEF LockHolder, Cutting, RollingBack, Staging
  <2>2. ex'.job = txn'.job /\ Matches(ex.t)' /\ ex'.t = ex.t /\ ex'.t.phase # Done
    BY <1>1, <1>2, <1>4, <1>7, InCutover DEF Goes, Matches
  <2>3. CutoverKnows'
    BY <1>4, <1>7, <2>2 DEF Goes, CutoverKnows, Forward, RollingBack, Matches
  <2>4. StagingKnows' /\ EndKnows'
    BY <1>7 DEF Goes, StagingKnows, EndKnows, Staging
  <2>5. HolderHolds'
    BY <1>1, <1>4, <1>7, ManagerIs DEF Goes, HolderHolds
  <2> QED  BY <1>1, <1>2, <1>5, <1>7, <2>1, <2>3, <2>4, <2>5, CutoverStep DEF Books, HolderInv
<1> QED  BY <1>3, <1>6, <1>7

\* The step WriteBlock keeps the invariant.
LEMMA WriteBlockKeeps ==
    ASSUME UpdateInv, TypeOK', WriteBlock
    PROVE  UpdateInv'
<1> USE DEF UpdateInv
<1>1. ex.pc = "block" /\ ex.pc \in Cutover /\ ex.pc \in Cutting
  BY DEF WriteBlock, Cutover, Cutting
<1>2. Fixed /\ UNCHANGED <<fresh, rn, temps, current, layout, releases, schema, txn, guard, service>> /\ (block => block')
  BY DEF WriteBlock, Fixed, store
<1>3. \/ /\ Goes(IF ex.kind = "recover" THEN "stop" ELSE "stopping", ex.t, "") /\ block' /\ Report(At(ex.item, Prepared))
      \/ SwitchError(ex.t) /\ job' = job
  <2>1. At(ex.item, Prepared).status = ex.item.status
    BY ExTypes, ItemFacts, PhaseNames
  <2> QED  BY <1>1, <2>1, InCutover, Endings DEF WriteBlock, Took
<1>4. TxnPending' /\ Matches(ex.t) /\ UnderSystemd' = UnderSystemd
  BY <1>1, <1>2, InCutover DEF TxnPending, Matches, Fixed, UnderSystemd
<1>5. DiskInv'
  BY <1>1, <1>2, InCutover, DiskKept
<1>6. CASE SwitchError(ex.t) /\ job' = job
  <2>1. PICK t \in Txns : t = ex.t
    BY <1>1, InCutover
  <2>2. Matches(t)'
    BY <1>2, <1>4, <2>1 DEF Matches
  <2>3. LockHolder' /\ HolderInv' /\ (Quit \/ \E pc, u, cause : pc # "begin" /\ Goes(pc, u, cause))
    BY <1>1, <1>4, <1>6, <2>1, <2>2, InCutover, SwitchErrorHolder
  <2> QED  BY <1>1, <1>2, <1>5, <1>6, <2>3, CutoverStep DEF Books
<1>7. CASE Goes(IF ex.kind = "recover" THEN "stop" ELSE "stopping", ex.t, "") /\ block' /\ Report(At(ex.item, Prepared))
  <2>0. PICK pc \in {"stop", "stopping"} : Goes(pc, ex.t, "") /\ (ex.kind = "recover" => pc = "stop")
    BY <1>7
  <2>1. LockHolder'
    BY <1>1, <2>0, InCutover, GoesLock DEF LockHolder, Cutting, RollingBack, Staging
  <2>2. ex'.job = txn'.job /\ Matches(ex.t)' /\ ex'.t = ex.t /\ ex'.t.phase # Done
    BY <1>1, <1>2, <1>4, <2>0, InCutover DEF Goes, Matches
  <2>3. CutoverKnows'
    BY <1>4, <2>0, <2>2 DEF Goes, CutoverKnows, Forward, RollingBack, Matches
  <2>4. StagingKnows' /\ EndKnows'
    BY <2>0 DEF Goes, StagingKnows, EndKnows, Staging
  <2>5. HolderHolds'
    BY <1>1, <1>2, <1>4, <1>7, <2>0 DEF Goes, HolderHolds, HolderInv
  <2> QED  BY <1>1, <1>2, <1>5, <1>7, <2>0, <2>1, <2>3, <2>4, <2>5, CutoverStep, PhaseNames DEF Books, HolderInv
<1> QED  BY <1>3, <1>6, <1>7

\* A phase is recorded in the transaction, then in the job.
LEMMA ReachPhaseKeeps ==
    ASSUME UpdateInv, TypeOK', NEW pc, NEW p \in Phases, NEW next, p # Done, ReachPhase(pc, p, next),
           <<pc, next>> \in {<<"stopping", "stop">>, <<"switching", "activate">>, <<"starting", "unblock">>, <<"cleanup", "done">>}
    PROVE  UpdateInv'
<1> USE DEF UpdateInv
<1>1. ex.pc = pc /\ ex.pc \in Cutover /\ ex.pc \in {"stopping", "switching", "starting", "cleanup"}
  BY DEF ReachPhase, Cutover, Cutting, Forward
<1>2. Fixed /\ UNCHANGED <<fresh, rn, temps, current, layout, releases, schema, guard, block, service>>
  BY DEF ReachPhase, Fixed, store
<1>3. PICK t \in Txns :
        /\ t.job = ex.job /\ t.prev = ex.t.prev /\ t.legacy = ex.t.legacy /\ t.manager = ex.t.manager
        /\ t.active = ex.t.active /\ t.mig = ex.t.mig /\ t.phase # Done
        /\ txn' = t \/ txn' = txn
        /\ \/ Goes(next, t, ex.cause) /\ (job' = job \/ Report(At(ex.item, p)))
           \/ ex.t.mig /\ ForwardError(t) /\ job' = job
           \/ ~ex.t.mig /\ SwitchError(t) /\ job' = job
  <2>1. CASE p < ex.t.phase
    BY <1>1, <2>1, InCutover, Endings DEF ReachPhase
  <2>2. CASE ~(p < ex.t.phase)
    <3> DEFINE u == [ex.t EXCEPT !.phase = p]
    <3>1. /\ u \in Txns /\ u.job = ex.job /\ u.prev = ex.t.prev /\ u.legacy = ex.t.legacy /\ u.manager = ex.t.manager
          /\ u.active = ex.t.active /\ u.mig = ex.t.mig /\ u.phase # Done
      BY <1>1, InCutover, TxnFacts
    <3>2. /\ txn' = u \/ txn' = txn
          /\ \/ Continue(Ex(next, At(ex.item, p), u, ex.cause)) /\ Report(At(ex.item, p))
             \/ ex.t.mig /\ ForwardError(u) /\ job' = job
             \/ ~ex.t.mig /\ SwitchError(u) /\ job' = job
      BY <2>2 DEF ReachPhase, SaveTxn
    <3> HIDE DEF u
    <3>3. At(ex.item, p).status = ex.item.status
      BY ExTypes, ItemFacts
    <3> QED  BY <3>1, <3>2, <3>3, Endings
  <2> QED  BY <2>1, <2>2
<1>4. /\ txn'.job = ex.job /\ txn'.prev = txn.prev /\ txn'.legacy = txn.legacy /\ txn'.manager = txn.manager
      /\ txn'.mig = txn.mig /\ txn'.active = txn.active /\ txn'.phase # Done
  BY <1>1, <1>3, InCutover DEF TxnPending
<1>5. TxnPending' /\ UnderSystemd' = UnderSystemd /\ Matches(t)'
  BY <1>1, <1>2, <1>3, <1>4, InCutover, NoTxnFacts DEF TxnPending, Matches, Fixed, UnderSystemd
<1>6. DiskInv'
  BY <1>1, <1>2, <1>4, <1>5, InCutover, DiskKept
<1>7. CASE ~ex.t.mig /\ SwitchError(t) /\ job' = job
  <2>1. ex.pc \in Cutting
    BY <1>1, <1>7 DEF HolderInv, CutoverKnows, Forward, Cutting
  <2>3. LockHolder' /\ HolderInv' /\ (Quit \/ \E q, u, cause : q # "begin" /\ Goes(q, u, cause))
    BY <2>1, <1>3, <1>5, <1>7, SwitchErrorHolder
  <2> QED  BY <1>1, <1>2, <1>6, <1>7, <2>3, CutoverStep DEF Books
<1>8. CASE ex.t.mig /\ ForwardError(t) /\ job' = job
  <2>3. LockHolder' /\ HolderInv' /\ (Quit \/ \E q, u, cause : q # "begin" /\ Goes(q, u, cause))
    BY <1>1, <1>3, <1>8, InCutover, ForwardErrorHolder
  <2> QED  BY <1>1, <1>2, <1>6, <1>8, <2>3, CutoverStep DEF Books
<1>9. CASE Goes(next, t, ex.cause) /\ (job' = job \/ Report(At(ex.item, p)))
  <2>1. next \in {"stop", "activate", "unblock", "done"}
    OBVIOUS
  <2>2. LockHolder'
    <3>1. next \in Cutting => ex.pc \in Cutting
      BY <1>1, <2>1 DEF Cutting
    <3>2. ex.kind = "recover" => next \notin {"activate", "stop"}
      BY <1>1 DEF LockHolder
    <3> QED  BY <1>1, <1>3, <1>9, <2>1, <3>1, <3>2, InCutover, GoesLock DEF LockHolder, RollingBack, Staging
  <2>3. ex'.job = txn'.job /\ ex'.t = t /\ ex'.t.phase # Done
    BY <1>3, <1>4, <1>9 DEF Goes
  <2>4. next \in {"unblock", "done"} => /\ ex.pc \in Forward \ {"migrate"}
                                        /\ current' = ex'.job /\ layout' = "aliases" /\ t.mig /\ schema' = releases'[ex'.job]
    BY <1>1, <1>2, <1>3, <1>9 DEF Goes, HolderInv, CutoverKnows, Forward
  <2>5. CutoverKnows'
    BY <1>5, <1>9, <2>1, <2>3, <2>4 DEF Goes, CutoverKnows, Forward, RollingBack, Matches
  <2>6. StagingKnows' /\ EndKnows'
    BY <1>9, <2>1 DEF Goes, StagingKnows, EndKnows, Staging
  <2>7. HolderHolds'
    BY <1>1, <1>2, <1>5, <1>9, <2>1 DEF Goes, HolderHolds, HolderInv, Held
  <2> QED  BY <1>1, <1>2, <1>6, <1>9, <2>1, <2>2, <2>5, <2>6, <2>7, CutoverStep DEF Books, HolderInv
<1> QED  BY <1>3, <1>7, <1>8, <1>9

\* The step StopDash keeps the invariant.
LEMMA StopDashKeeps ==
    ASSUME UpdateInv, TypeOK', StopDash
    PROVE  UpdateInv'
<1> USE DEF UpdateInv
<1>1. ex.pc = "stop" /\ ex.pc \in Cutover /\ ex.pc \in Cutting
  BY DEF StopDash, Cutover, Cutting
<1>2. /\ Fixed /\ UNCHANGED <<fresh, job, temps, current, layout, releases, schema, txn, guard, block>>
      /\ service' \in {service, Down} /\ rn' \in {rn, NoRn}
  BY DEF StopDash, Fixed, store, StopService
<1>3. \/ service' = Down /\ \E pc \in {"switching", "activate", "restore"} :
           /\ Goes(pc, ex.t, ex.cause)
           /\ pc = "switching" <=> ex.kind # "recover"
           /\ pc = "activate" => ex.t.mig
           /\ pc = "restore" => ~ex.t.mig
      \/ SwitchError(ex.t)
  BY <1>1, InCutover, Endings DEF StopDash, Took, StopService
<1>4. TxnPending' /\ Matches(ex.t) /\ UnderSystemd' = UnderSystemd
  BY <1>1, <1>2, InCutover DEF TxnPending, Matches, Fixed, UnderSystemd
<1>5. DiskInv'
  BY <1>1, <1>2, InCutover, DiskKept
<1>6. CASE SwitchError(ex.t)
  <2>1. PICK t \in Txns : t = ex.t
    BY <1>1, InCutover
  <2>2. Matches(t)'
    BY <1>2, <1>4, <2>1 DEF Matches
  <2>3. LockHolder' /\ HolderInv' /\ (Quit \/ \E pc, u, cause : pc # "begin" /\ Goes(pc, u, cause))
    BY <1>1, <1>4, <1>6, <2>1, <2>2, InCutover, SwitchErrorHolder
  <2> QED  BY <1>1, <1>2, <1>5, <2>3, CutoverStep DEF Books
<1>7. ASSUME service' = Down,
             NEW pc \in {"switching", "activate", "restore"}, Goes(pc, ex.t, ex.cause),
             pc = "switching" <=> ex.kind # "recover", pc = "activate" => ex.t.mig, pc = "restore" => ~ex.t.mig
      PROVE  UpdateInv'
  <2>1. LockHolder'
    BY <1>1, <1>7, InCutover, GoesLock DEF LockHolder, Cutting, RollingBack, Staging
  <2>2. ex'.job = txn'.job /\ Matches(ex.t)' /\ ex'.t = ex.t /\ ex'.t.phase # Done
    BY <1>1, <1>2, <1>4, <1>7, InCutover DEF Goes, Matches
  <2>3. CutoverKnows'
    BY <1>4, <1>7, <2>2 DEF Goes, CutoverKnows, Forward, RollingBack, Matches
  <2>4. StagingKnows' /\ EndKnows'
    BY <1>7 DEF Goes, StagingKnows, EndKnows, Staging
  <2>5. HolderHolds'
    BY <1>1, <1>2, <1>4, <1>7 DEF Goes, HolderHolds, HolderInv, Held
  <2> QED  BY <1>1, <1>2, <1>5, <1>7, <2>1, <2>3, <2>4, <2>5, CutoverStep DEF Books, HolderInv
<1> QED  BY <1>3, <1>6, <1>7

\* Activating the candidate is safe wherever the service is held.
LEMMA ActivateDisk ==
    ASSUME UpdateInv, ex.pc \in Cutover, UnderSystemd => Held, Fixed, UNCHANGED <<releases, temps, schema, txn, guard, block, service>>,
           current' \in {current, ex.job},
           layout' \in {layout, "mixed"} \/ (layout' = "aliases" /\ current' = ex.job),
           ~ex.t.legacy => layout' = layout
    PROVE  DiskInv'
<1> USE DEF UpdateInv, DiskInv, Fixed
<1>1. TxnPending' = TxnPending /\ UnderSystemd' = UnderSystemd /\ \A r : Version(r)' = Version(r)
  BY DEF TxnPending, UnderSystemd, Version
<1>2. PendingKnows'
  BY <1>1, InCutover DEF PendingKnows
<1>3. DoneKnows' /\ AliasesLead'
  <2>1. txn.phase # Done
    BY InCutover DEF TxnPending
  <2> QED  BY <2>1, InCutover DEF DoneKnows, AliasesLead
<1>4. ServiceHeld'
  BY <1>1 DEF ServiceHeld, Held
<1>5. \A b \in Bins' : b \in Bins \/ b = ex.job
  BY DEF Bins
<1>6. Version(ex.job) >= schema
  BY InCutover DEF PendingKnows, Version
<1>7. SchemaNeverAhead'
  BY <1>1, <1>5, <1>6 DEF SchemaNeverAhead, Held
<1> QED  BY <1>2, <1>3, <1>4, <1>7

\* The step ActivateRelease keeps the invariant.
LEMMA ActivateReleaseKeeps ==
    ASSUME UpdateInv, TypeOK', ActivateRelease
    PROVE  UpdateInv'
<1> USE DEF UpdateInv
<1>1. ex.pc = "activate" /\ ex.pc \in Cutover /\ ex.pc \in Cutting /\ (ex.kind = "recover" => ex.t.mig) /\ (UnderSystemd => Held)
  BY DEF ActivateRelease, Cutover, Cutting, LockHolder, HolderInv, HolderHolds
<1>2. /\ Fixed /\ UNCHANGED <<fresh, job, rn, temps, releases, schema, txn, guard, block, service>>
      /\ current' \in {current, ex.job} /\ layout' \in {layout, "mixed"} /\ (~ex.t.legacy => layout' = layout)
  BY DEF ActivateRelease, Fixed, store
<1>3. \/ current' = ex.job /\ \E pc \in {"alias", "migrate", "boundary"} :
           /\ Goes(pc, ex.t, ex.cause)
           /\ pc = "alias" => ex.t.legacy
           /\ pc # "alias" => ~ex.t.legacy
           /\ pc = "migrate" => ex.kind = "recover"
           /\ pc = "boundary" => ex.kind # "recover"
      \/ SwitchError(ex.t)
  BY <1>1, InCutover, Endings DEF ActivateRelease, Took, AfterActivate
<1>4. TxnPending' /\ Matches(ex.t) /\ UnderSystemd' = UnderSystemd
  BY <1>1, <1>2, InCutover DEF TxnPending, Matches, Fixed, UnderSystemd
<1>5. DiskInv'
  BY <1>1, <1>2, ActivateDisk
<1>6. CASE SwitchError(ex.t)
  <2>1. PICK t \in Txns : t = ex.t
    BY <1>1, InCutover
  <2>2. Matches(t)'
    BY <1>2, <1>4, <2>1 DEF Matches
  <2>3. LockHolder' /\ HolderInv' /\ (Quit \/ \E pc, u, cause : pc # "begin" /\ Goes(pc, u, cause))
    BY <1>1, <1>4, <1>6, <2>1, <2>2, InCutover, SwitchErrorHolder
  <2> QED  BY <1>1, <1>2, <1>5, <2>3, CutoverStep DEF Books
<1>7. ASSUME current' = ex.job, NEW pc \in {"alias", "migrate", "boundary"}, Goes(pc, ex.t, ex.cause),
             pc = "alias" => ex.t.legacy, pc # "alias" => ~ex.t.legacy,
             pc = "migrate" => ex.kind = "recover", pc = "boundary" => ex.kind # "recover"
      PROVE  UpdateInv'
  <2>1. LockHolder'
    BY <1>1, <1>7, InCutover, GoesLock DEF LockHolder, Cutting, RollingBack, Staging
  <2>2. ex'.job = txn'.job /\ Matches(ex.t)' /\ ex'.t = ex.t /\ ex'.t.phase # Done /\ current' = ex'.job
    BY <1>1, <1>2, <1>4, <1>7, InCutover DEF Goes, Matches
  <2>3. pc # "alias" => layout' = "aliases"
    BY <1>1, <1>2, <1>7, InCutover DEF DiskInv, PendingKnows
  <2>4. CutoverKnows'
    BY <1>1, <1>4, <1>7, <2>2, <2>3 DEF Goes, CutoverKnows, Forward, RollingBack, Matches
  <2>5. StagingKnows' /\ EndKnows'
    BY <1>7 DEF Goes, StagingKnows, EndKnows, Staging
  <2>6. HolderHolds'
    BY <1>1, <1>2, <1>4, <1>7 DEF Goes, HolderHolds, HolderInv, Held
  <2> QED  BY <1>1, <1>2, <1>5, <1>7, <2>1, <2>4, <2>5, <2>6, CutoverStep DEF Books, HolderInv
<1> QED  BY <1>3, <1>6, <1>7

\* The step InstallAliases keeps the invariant.
LEMMA InstallAliasesKeeps ==
    ASSUME UpdateInv, TypeOK', InstallAliases
    PROVE  UpdateInv'
<1> USE DEF UpdateInv
<1>1. /\ ex.pc = "alias" /\ ex.pc \in Cutover /\ ex.pc \in Cutting /\ (ex.kind = "recover" => ex.t.mig) /\ (UnderSystemd => Held)
      /\ ex.t.legacy /\ current = ex.job
  BY DEF InstallAliases, Cutover, Cutting, LockHolder, HolderInv, HolderHolds, CutoverKnows
<1>2. /\ Fixed /\ UNCHANGED <<fresh, job, rn, temps, current, releases, schema, txn, guard, block, service>>
      /\ layout' \in {layout, "aliases"}
  BY DEF InstallAliases, Fixed, store
<1>3. \/ layout' = "aliases" /\ \E pc \in {"migrate", "boundary"} :
           /\ Goes(pc, ex.t, ex.cause)
           /\ pc = "migrate" => ex.kind = "recover"
           /\ pc = "boundary" => ex.kind # "recover"
      \/ SwitchError(ex.t)
  BY <1>1, InCutover, Endings DEF InstallAliases, Took, AfterActivate
<1>4. TxnPending' /\ Matches(ex.t) /\ UnderSystemd' = UnderSystemd
  BY <1>1, <1>2, InCutover DEF TxnPending, Matches, Fixed, UnderSystemd
<1>5. DiskInv'
  BY <1>1, <1>2, ActivateDisk
<1>6. CASE SwitchError(ex.t)
  <2>1. PICK t \in Txns : t = ex.t
    BY <1>1, InCutover
  <2>2. Matches(t)'
    BY <1>2, <1>4, <2>1 DEF Matches
  <2>3. LockHolder' /\ HolderInv' /\ (Quit \/ \E pc, u, cause : pc # "begin" /\ Goes(pc, u, cause))
    BY <1>1, <1>4, <1>6, <2>1, <2>2, InCutover, SwitchErrorHolder
  <2> QED  BY <1>1, <1>2, <1>5, <2>3, CutoverStep DEF Books
<1>7. ASSUME layout' = "aliases", NEW pc \in {"migrate", "boundary"}, Goes(pc, ex.t, ex.cause),
             pc = "migrate" => ex.kind = "recover", pc = "boundary" => ex.kind # "recover"
      PROVE  UpdateInv'
  <2>1. LockHolder'
    BY <1>1, <1>7, InCutover, GoesLock DEF LockHolder, Cutting, RollingBack, Staging
  <2>2. ex'.job = txn'.job /\ Matches(ex.t)' /\ ex'.t = ex.t /\ ex'.t.phase # Done /\ current' = ex'.job
    BY <1>1, <1>2, <1>4, <1>7, InCutover DEF Goes, Matches
  <2>4. CutoverKnows'
    BY <1>1, <1>4, <1>7, <2>2 DEF Goes, CutoverKnows, Forward, RollingBack, Matches
  <2>5. StagingKnows' /\ EndKnows'
    BY <1>7 DEF Goes, StagingKnows, EndKnows, Staging
  <2>6. HolderHolds'
    BY <1>1, <1>2, <1>4, <1>7 DEF Goes, HolderHolds, HolderInv, Held
  <2> QED  BY <1>1, <1>2, <1>5, <1>7, <2>1, <2>4, <2>5, <2>6, CutoverStep DEF Books, HolderInv
<1> QED  BY <1>3, <1>6, <1>7

\* Past the boundary the candidate is what is installed, and it can serve the schema.
LEMMA CrossBoundaryKeeps ==
    ASSUME UpdateInv, TypeOK', CrossBoundary
    PROVE  UpdateInv'
<1> USE DEF UpdateInv
<1>1. /\ ex.pc = "boundary" /\ ex.pc \in Cutover /\ ex.pc \in Cutting /\ ex.kind # "recover" /\ (UnderSystemd => Held)
      /\ current = ex.job /\ layout = "aliases"
  BY DEF CrossBoundary, Cutover, Cutting, LockHolder, HolderInv, HolderHolds, CutoverKnows
<1>2. Fixed /\ UNCHANGED <<fresh, rn, temps, current, layout, releases, schema, guard, block, service>>
  BY DEF CrossBoundary, Fixed, store
<1>3. PICK t \in Txns :
        /\ t.job = ex.job /\ t.prev = ex.t.prev /\ t.legacy = ex.t.legacy /\ t.manager = ex.t.manager
        /\ t.active = ex.t.active /\ t.mig /\ t.phase # Done
        /\ txn' = t \/ txn' = txn
        /\ \/ txn' = t /\ Goes("migrate", t, "") /\ Report(At(ex.item, Migrating))
           \/ ForwardError(t) /\ job' = job
  <2> DEFINE u == [job |-> ex.t.job, phase |-> Migrating, prev |-> ex.t.prev, legacy |-> ex.t.legacy,
                   manager |-> ex.t.manager, active |-> ex.t.active, mig |-> TRUE]
  <2>1. /\ u.job = ex.job /\ u.prev = ex.t.prev /\ u.legacy = ex.t.legacy /\ u.manager = ex.t.manager
        /\ u.active = ex.t.active /\ u.mig /\ u.phase # Done
    BY <1>1, InCutover, PhaseNames
  <2>2. u \in Txns
    <3>1. ex.t \in Txns
      BY <1>1, InCutover
    <3> QED  BY <3>1, PhaseNames DEF Txns
  <2>3. /\ txn' = u \/ txn' = txn
        /\ \/ txn' = u /\ Continue(Ex("migrate", At(ex.item, Migrating), u, "")) /\ Report(At(ex.item, Migrating))
           \/ ForwardError(u) /\ job' = job
    BY DEF CrossBoundary, SaveTxn, Took
  <2> HIDE DEF u
  <2>4. At(ex.item, Migrating).status = ex.item.status
    BY ExTypes, ItemFacts, PhaseNames
  <2> QED  BY <2>1, <2>2, <2>3, <2>4, Endings
<1>4. /\ txn'.job = ex.job /\ txn'.prev = txn.prev /\ txn'.legacy = txn.legacy /\ txn'.manager = txn.manager /\ txn'.phase # Done
      /\ txn'.mig \/ txn' = txn
  BY <1>1, <1>3, InCutover DEF TxnPending
<1>5. TxnPending' /\ UnderSystemd' = UnderSystemd /\ Bins' = Bins /\ \A r : Version(r)' = Version(r)
  BY <1>1, <1>2, <1>3, <1>4, InCutover, NoTxnFacts DEF TxnPending, Fixed, UnderSystemd, Bins, Version
<1>6. DiskInv'
  <2>1. PendingKnows
    BY DEF DiskInv
  <2>2. PendingKnows'
    BY <1>1, <1>2, <1>4, <1>5, <2>1, InCutover DEF PendingKnows, Fixed
  <2>3. DoneKnows' /\ AliasesLead'
    BY <1>1, <1>2, <1>4, InCutover DEF DoneKnows, AliasesLead
  <2>4. ServiceHeld'
    BY <1>1, <1>2, <1>4, <1>5, InCutover DEF DiskInv, ServiceHeld, Held
  <2>5. SchemaNeverAhead'
    BY <1>2, <1>5 DEF DiskInv, SchemaNeverAhead
  <2> QED  BY <2>2, <2>3, <2>4, <2>5 DEF DiskInv
<1>7. CASE ForwardError(t) /\ job' = job
  <2>3. LockHolder' /\ HolderInv' /\ (Quit \/ \E q, u, cause : q # "begin" /\ Goes(q, u, cause))
    BY <1>1, <1>3, <1>7, InCutover, ForwardErrorHolder
  <2> QED  BY <1>1, <1>2, <1>6, <1>7, <2>3, CutoverStep DEF Books
<1>8. CASE txn' = t /\ Goes("migrate", t, "") /\ Report(At(ex.item, Migrating))
  <2>1. LockHolder'
    BY <1>1, <1>8, InCutover, GoesLock DEF LockHolder, Cutting, RollingBack, Staging
  <2>2. ex'.job = txn'.job /\ Matches(ex.t)' /\ ex'.t = t /\ ex'.t.phase # Done /\ current' = ex'.job /\ layout' = "aliases" /\ t.mig
    BY <1>1, <1>2, <1>3, <1>8, InCutover DEF Goes, Matches
  <2>4. CutoverKnows'
    BY <1>5, <1>8, <2>2 DEF Goes, CutoverKnows, Forward, RollingBack, Matches
  <2>5. StagingKnows' /\ EndKnows'
    BY <1>8 DEF Goes, StagingKnows, EndKnows, Staging
  <2>6. HolderHolds'
    BY <1>1, <1>2, <1>5, <1>8 DEF Goes, HolderHolds, HolderInv, Held
  <2> QED  BY <1>1, <1>2, <1>6, <1>8, <2>1, <2>4, <2>5, <2>6, CutoverStep, PhaseNames DEF Books, HolderInv
<1> QED  BY <1>3, <1>7, <1>8

\* The step RunCandidateMigration keeps the invariant.
LEMMA RunCandidateMigrationKeeps ==
    ASSUME UpdateInv, TypeOK', RunCandidateMigration
    PROVE  UpdateInv'
<1> USE DEF UpdateInv
<1>1. /\ ex.pc = "migrate" /\ ex.pc \in Cutover /\ ex.pc \in Forward /\ (UnderSystemd => Held)
      /\ current = ex.job /\ layout = "aliases" /\ ex.t.mig
  BY DEF RunCandidateMigration, Cutover, Forward, HolderInv, HolderHolds, CutoverKnows
<1>2. /\ Fixed /\ UNCHANGED <<fresh, job, rn, temps, current, layout, releases, txn, guard, block, service>>
      /\ schema' \in {schema, Version(ex.job)}
  BY DEF RunCandidateMigration, Fixed, store
<1>3. \/ schema' = Version(ex.job) /\ Goes("starting", ex.t, ex.cause)
      \/ ForwardError(ex.t)
  BY <1>1, InCutover, Endings DEF RunCandidateMigration, Took
<1>4. Version(ex.job) = releases[ex.job] /\ releases[ex.job] >= schema /\ releases[ex.job] \in Nat
  <2>1. releases[ex.job] \in Versions
    BY <1>1, InCutover DEF TypeOK
  <2> QED  BY <1>1, <2>1, InCutover, VersionNumbers DEF Version, DiskInv, PendingKnows
<1>5. /\ TxnPending' /\ Matches(ex.t) /\ UnderSystemd' = UnderSystemd /\ Bins' = {ex.job}
      /\ Version(ex.job) = releases'[ex.job] /\ releases'[ex.job] >= schema' /\ \A r : Version(r)' = Version(r)
  <2>1. TxnPending' /\ Matches(ex.t) /\ UnderSystemd' = UnderSystemd
    BY <1>1, <1>2, InCutover DEF TxnPending, Matches, Fixed, UnderSystemd
  <2>2. Bins' = {ex.job} /\ \A r : Version(r)' = Version(r)
    BY <1>1, <1>2 DEF Fixed, Bins, Version
  <2>3. Version(ex.job) = releases'[ex.job] /\ releases'[ex.job] >= schema'
    BY <1>2, <1>4
  <2> QED  BY <2>1, <2>2, <2>3
<1>6. DiskInv'
  <2>1. PendingKnows'
    BY <1>1, <1>2, <1>5, InCutover DEF DiskInv, PendingKnows, Fixed
  <2>2. DoneKnows' /\ AliasesLead'
    <3>1. txn'.phase # Done /\ txn'.job = ex.job
      BY <1>1, <1>2, InCutover DEF TxnPending
    <3> QED  BY <1>1, <1>2, <3>1, InCutover DEF DoneKnows, AliasesLead
  <2>3. ServiceHeld'
    BY <1>1, <1>2, <1>5, InCutover DEF DiskInv, ServiceHeld, Held
  <2>4. SchemaNeverAhead'
    BY <1>1, <1>2, <1>5 DEF SchemaNeverAhead, Held
  <2> QED  BY <2>1, <2>2, <2>3, <2>4 DEF DiskInv
<1>7. CASE ForwardError(ex.t)
  <2>3. LockHolder' /\ HolderInv' /\ (Quit \/ \E q, u, cause : q # "begin" /\ Goes(q, u, cause))
    BY <1>1, <1>7, InCutover, ForwardErrorHolder
  <2> QED  BY <1>1, <1>2, <1>6, <1>7, <2>3, CutoverStep DEF Books
<1>8. CASE schema' = Version(ex.job) /\ Goes("starting", ex.t, ex.cause)
  <2>1. LockHolder'
    BY <1>1, <1>8, InCutover, GoesLock DEF LockHolder, Cutting, RollingBack, Staging
  <2>2. /\ ex'.job = txn'.job /\ Matches(ex.t)' /\ ex'.t = ex.t /\ ex'.t.phase # Done /\ current' = ex'.job /\ layout' = "aliases"
        /\ schema' = releases'[ex'.job]
    BY <1>1, <1>2, <1>5, <1>8, InCutover DEF Goes, Matches
  <2>4. CutoverKnows'
    BY <1>1, <1>5, <1>8, <2>2 DEF Goes, CutoverKnows, Forward, RollingBack, Matches
  <2>5. StagingKnows' /\ EndKnows'
    BY <1>8 DEF Goes, StagingKnows, EndKnows, Staging
  <2>6. HolderHolds'
    BY <1>1, <1>2, <1>5, <1>8 DEF Goes, HolderHolds, HolderInv, Held
  <2> QED  BY <1>1, <1>2, <1>6, <1>8, <2>1, <2>4, <2>5, <2>6, CutoverStep DEF Books, HolderInv
<1> QED  BY <1>3, <1>7, <1>8

\* Once it is done with the other release, an executor lets the service start again.
LEMMA Released ==
    ASSUME UpdateInv, ex.pc \in {"unblock", "start", "rb_unblock", "rb_start", "rb_done"}
    PROVE  ex.pc \in Cutover /\ (txn.mig \/ current # txn.job) /\ (ex.t.mig <=> ex.pc \in Forward) /\ (~ex.t.mig => ex.pc \in RollingBack)
<1> USE DEF UpdateInv
<1>1. ex.pc \in Cutover /\ (ex.pc \in Forward \/ ex.pc \in RollingBack)
  BY DEF Cutover, Forward, RollingBack
<1>2. CASE ex.pc \in Forward
  BY <1>1, <1>2, InCutover DEF HolderInv, CutoverKnows
<1>3. CASE ex.pc \in RollingBack /\ ex.pc \notin Forward
  <2>1. ex.pc \in {"rb_unblock", "rb_start", "rb_done"}
    BY <1>3 DEF Forward
  <2>2. current # ex.job
    BY <1>1, <2>1, InCutover DEF HolderInv, CutoverKnows
  <2> QED  BY <1>1, <1>3, <2>2, InCutover DEF HolderInv, CutoverKnows
<1> QED  BY <1>1, <1>2, <1>3

\* The step RemoveBlock keeps the invariant.
LEMMA RemoveBlockKeeps ==
    ASSUME UpdateInv, TypeOK', NEW pc, NEW next, RemoveBlock(pc, next),
           <<pc, next>> \in {<<"unblock", "start">>, <<"rb_unblock", "rb_start">>}
    PROVE  UpdateInv'
<1> USE DEF UpdateInv
<1>1. /\ ex.pc = pc /\ ex.pc \in Cutover /\ ex.pc \in {"unblock", "rb_unblock"} /\ (txn.mig \/ current # txn.job)
      /\ (~ex.t.mig => ex.pc \in RollingBack)
  BY Released DEF RemoveBlock
<1>2. Fixed /\ UNCHANGED <<fresh, job, rn, temps, current, layout, releases, schema, txn, guard, service>>
  BY DEF RemoveBlock, Fixed, store
<1>3. Goes(next, ex.t, ex.cause) \/ (ex.t.mig /\ ForwardError(ex.t)) \/ (~ex.t.mig /\ RollbackError)
  BY <1>1, InCutover, Endings DEF RemoveBlock
<1>4. TxnPending' /\ Matches(ex.t) /\ UnderSystemd' = UnderSystemd
  BY <1>1, <1>2, InCutover DEF TxnPending, Matches, Fixed, UnderSystemd
<1>5. DiskInv'
  BY <1>1, <1>2, InCutover, SameReleases
<1>6. CASE (ex.t.mig /\ ForwardError(ex.t)) \/ (~ex.t.mig /\ RollbackError)
  <2>3. LockHolder' /\ HolderInv' /\ (Quit \/ \E q, u, cause : q # "begin" /\ Goes(q, u, cause))
    BY <1>1, <1>6, InCutover, ForwardErrorHolder, RollbackErrorHolder
  <2> QED  BY <1>1, <1>2, <1>5, <2>3, CutoverStep DEF Books
<1>7. CASE Goes(next, ex.t, ex.cause)
  <2>1. LockHolder'
    BY <1>1, <1>7, InCutover, GoesLock DEF LockHolder, Cutting, RollingBack, Staging
  <2>2. ex'.job = txn'.job /\ Matches(ex.t)' /\ ex'.t = ex.t /\ ex'.t.phase # Done
    BY <1>1, <1>2, <1>4, <1>7, InCutover DEF Goes, Matches
  <2>3. CutoverKnows'
    BY <1>1, <1>2, <1>4, <1>7, <2>2 DEF Goes, HolderInv, CutoverKnows, Forward, RollingBack
  <2>5. StagingKnows' /\ EndKnows' /\ HolderHolds'
    BY <1>7 DEF Goes, StagingKnows, EndKnows, HolderHolds, Staging
  <2> QED  BY <1>1, <1>2, <1>5, <1>7, <2>1, <2>3, <2>5, CutoverStep DEF Books, HolderInv
<1> QED  BY <1>3, <1>6, <1>7

\* The step StartDash keeps the invariant.
LEMMA StartDashKeeps ==
    ASSUME UpdateInv, TypeOK', NEW pc, NEW next, StartDash(pc, next),
           <<pc, next>> \in {<<"start", "cleanup">>, <<"rb_start", "rb_done">>}
    PROVE  UpdateInv'
<1> USE DEF UpdateInv
<1>1. /\ ex.pc = pc /\ ex.pc \in Cutover /\ ex.pc \in {"start", "rb_start"} /\ (txn.mig \/ current # txn.job)
      /\ (~ex.t.mig => ex.pc \in RollingBack)
  BY Released DEF StartDash
<1>2. /\ Fixed /\ UNCHANGED <<fresh, job, rn, temps, current, layout, releases, schema, txn, guard, block>>
      /\ service' \in {service, Down} \cup Bins
  BY DEF StartDash, Fixed, store
<1>3. Goes(next, ex.t, ex.cause) \/ Goes("hold", ex.t, ex.cause)
  BY <1>1, InCutover, Endings DEF StartDash
<1>4. TxnPending' /\ Matches(ex.t) /\ UnderSystemd' = UnderSystemd
  BY <1>1, <1>2, InCutover DEF TxnPending, Matches, Fixed, UnderSystemd
<1>5. DiskInv'
  BY <1>1, <1>2, InCutover, SameReleases
<1>7. ASSUME NEW q \in {next, "hold"}, Goes(q, ex.t, ex.cause) PROVE UpdateInv'
  <2>1. LockHolder'
    BY <1>1, <1>7, InCutover, GoesLock DEF LockHolder, Cutting, RollingBack, Staging
  <2>2. ex'.job = txn'.job /\ Matches(ex.t)' /\ ex'.t = ex.t /\ ex'.t.phase # Done
    BY <1>1, <1>2, <1>4, <1>7, InCutover DEF Goes, Matches
  <2>3. CutoverKnows'
    BY <1>1, <1>2, <1>4, <1>7, <2>2 DEF Goes, HolderInv, CutoverKnows, Forward, RollingBack
  <2>5. StagingKnows' /\ EndKnows' /\ HolderHolds'
    BY <1>7 DEF Goes, StagingKnows, EndKnows, HolderHolds, Staging
  <2> QED  BY <1>1, <1>2, <1>5, <1>7, <2>1, <2>3, <2>5, CutoverStep DEF Books, HolderInv
<1> QED  BY <1>3, <1>7

\* The step HoldDash keeps the invariant.
LEMMA HoldDashKeeps ==
    ASSUME UpdateInv, TypeOK', HoldDash
    PROVE  UpdateInv'
<1> USE DEF UpdateInv
<1>1. ex.pc = "hold" /\ ex.pc \in Cutover
  BY DEF HoldDash, Cutover
<1>2. /\ Fixed /\ UNCHANGED <<fresh, job, temps, current, layout, releases, schema, txn, guard>> /\ (block => block')
      /\ service' \in {service, Down} /\ rn' \in {rn, NoRn}
  BY DEF HoldDash, Fixed, store, StopService
<1>3. (ex.t.mig /\ ForwardError(ex.t)) \/ (~ex.t.mig /\ RollbackError)
  BY DEF HoldDash
<1>5. DiskInv'
  BY <1>1, <1>2, InCutover, DiskKept
<1>6. LockHolder' /\ HolderInv' /\ (Quit \/ \E q, u, cause : q # "begin" /\ Goes(q, u, cause))
  BY <1>1, <1>3, InCutover, ForwardErrorHolder, RollbackErrorHolder
<1> QED  BY <1>1, <1>2, <1>5, <1>6, CutoverStep DEF Books

\* The step RestorePrevious keeps the invariant.
LEMMA RestorePreviousKeeps ==
    ASSUME UpdateInv, TypeOK', RestorePrevious
    PROVE  UpdateInv'
<1> USE DEF UpdateInv
<1>1. ex.pc = "restore" /\ ex.pc \in Cutover /\ ex.pc \in RollingBack /\ ~ex.t.mig
  BY DEF RestorePrevious, Cutover, RollingBack, HolderInv, CutoverKnows
<1>2. /\ Fixed /\ UNCHANGED <<fresh, job, rn, temps, releases, schema, txn, guard, block, service>>
      /\ ex.t.legacy => UNCHANGED <<current, layout>> \/ (current' = NoRelease /\ layout' = "mixed")
      /\ ~ex.t.legacy => current' \in {current, ex.t.prev} /\ layout' = layout
  BY DEF RestorePrevious, Fixed, store
<1>3. \/ ex.t.legacy /\ Goes("copy", ex.t, ex.cause) /\ current' = NoRelease
      \/ ~ex.t.legacy /\ Goes("rb_unblock", ex.t, ex.cause) /\ current' = ex.t.prev
      \/ RollbackError
  BY <1>1, InCutover, Endings DEF RestorePrevious, Took
<1>4. TxnPending' /\ Matches(ex.t) /\ UnderSystemd' = UnderSystemd /\ (\A r : Version(r)' = Version(r)) /\ txn.phase # Done
  BY <1>1, <1>2, InCutover DEF TxnPending, Matches, Fixed, UnderSystemd, Version
<1>5. DiskInv'
  <2>1. PendingKnows'
    BY <1>1, <1>2, <1>4, InCutover DEF DiskInv, PendingKnows, Fixed
  <2>2. DoneKnows' /\ AliasesLead'
    BY <1>1, <1>2, <1>4, InCutover DEF DiskInv, DoneKnows, AliasesLead
  <2>3. ServiceHeld'
    <3>1. current' = txn'.job => current = txn.job
      BY <1>1, <1>2, InCutover
    <3>2. UnderSystemd /\ service # Down => service \in {0} \cup Bins'
      <4> SUFFICES ASSUME UnderSystemd, service # Down PROVE service \in {0} \cup Bins'
        OBVIOUS
      <4>1. current # ex.job /\ service \in {0} \cup Bins
        BY <1>1, InCutover DEF DiskInv, ServiceHeld, Held
      <4>2. CASE ex.t.legacy
        BY <1>1, <4>1, <4>2, InCutover DEF DiskInv, PendingKnows, Bins
      <4>3. CASE ~ex.t.legacy
        BY <1>1, <1>2, <4>1, <4>3, InCutover DEF DiskInv, PendingKnows, Bins
      <4> QED  BY <4>2, <4>3
    <3> QED  BY <1>1, <1>2, <1>4, <3>1, <3>2, InCutover DEF DiskInv, ServiceHeld, Held
  <2>4. \A b \in Bins' : b \in Bins \/ (~ex.t.legacy /\ b = ex.t.prev)
    BY <1>1, <1>2, InCutover DEF Bins
  <2>5. ~ex.t.legacy => Version(ex.t.prev) >= schema
    BY <1>1, InCutover DEF DiskInv, PendingKnows
  <2>6. SchemaNeverAhead'
    BY <1>2, <1>4, <2>4, <2>5 DEF DiskInv, SchemaNeverAhead
  <2> QED  BY <2>1, <2>2, <2>3, <2>6 DEF DiskInv
<1>6. current' \in {current, NoRelease, ex.job} \/ (~ex.t.legacy /\ current' = ex.t.prev)
  BY <1>1, <1>2, InCutover
<1>7. CASE RollbackError
  <2>3. LockHolder' /\ HolderInv' /\ (Quit \/ \E q, u, cause : q # "begin" /\ Goes(q, u, cause))
    BY <1>1, <1>7, RollbackErrorHolder
  <2> QED  BY <1>1, <1>2, <1>5, <1>6, <2>3, CutoverStep DEF Books
<1>8. ASSUME NEW q, Goes(q, ex.t, ex.cause),
             \/ q = "copy" /\ ex.t.legacy /\ current' = NoRelease
             \/ q = "rb_unblock" /\ ~ex.t.legacy /\ current' = ex.t.prev
      PROVE  UpdateInv'
  <2>1. LockHolder'
    BY <1>1, <1>8, InCutover, GoesLock DEF LockHolder, Cutting, RollingBack, Staging
  <2>2. ex'.job = txn'.job /\ Matches(ex.t)' /\ ex'.t = ex.t /\ ex'.t.phase # Done
    BY <1>1, <1>2, <1>4, <1>8, InCutover DEF Goes, Matches
  <2>3. CutoverKnows'
    BY <1>1, <1>2, <1>4, <1>8, <2>2 DEF Goes, CutoverKnows, Forward, RollingBack
  <2>5. StagingKnows' /\ EndKnows' /\ HolderHolds'
    BY <1>8 DEF Goes, StagingKnows, EndKnows, HolderHolds, Staging
  <2> QED  BY <1>1, <1>2, <1>5, <1>6, <1>8, <2>1, <2>3, <2>5, CutoverStep DEF Books, HolderInv
<1> QED  BY <1>3, <1>7, <1>8

\* The step CopyBackup keeps the invariant.
LEMMA CopyBackupKeeps ==
    ASSUME UpdateInv, TypeOK', CopyBackup
    PROVE  UpdateInv'
<1> USE DEF UpdateInv
<1>1. ex.pc = "copy" /\ ex.pc \in Cutover /\ ex.pc \in RollingBack /\ ~ex.t.mig /\ ex.t.legacy /\ current = NoRelease
  BY DEF CopyBackup, Cutover, RollingBack, HolderInv, CutoverKnows
<1>2. /\ Fixed /\ UNCHANGED <<fresh, job, rn, temps, current, releases, schema, txn, guard, block, service>>
      /\ layout' \in {layout, "flat"}
  BY DEF CopyBackup, Fixed, store
<1>3. (Goes("rb_unblock", ex.t, ex.cause) /\ layout' = "flat") \/ RollbackError
  BY <1>1, InCutover, Endings DEF CopyBackup
<1>4. TxnPending' /\ Matches(ex.t) /\ UnderSystemd' = UnderSystemd /\ (\A r : Version(r)' = Version(r)) /\ txn.phase # Done
  BY <1>1, <1>2, InCutover DEF TxnPending, Matches, Fixed, UnderSystemd, Version
<1>5. DiskInv'
  <2>1. layout # "aliases"
    <3>1. NoRelease \notin DOMAIN releases
      BY JobNumbers DEF TypeOK, Releases, NoRelease
    <3> QED  BY <1>1, <3>1 DEF DiskInv, AliasesLead
  <2>2. PendingKnows'
    BY <1>1, <1>2, <1>4, <2>1, InCutover DEF DiskInv, PendingKnows, Fixed
  <2>3. DoneKnows' /\ AliasesLead'
    BY <1>1, <1>2, <1>4, <2>1, InCutover DEF DoneKnows, AliasesLead
  <2>4. Bins \subseteq {0} /\ Bins' \subseteq {0}
    BY <1>2, <2>1 DEF Bins
  <2>5. ServiceHeld'
    BY <1>1, <1>2, <1>4, <2>4, InCutover DEF DiskInv, ServiceHeld, Held
  <2>6. Version(0) >= schema
    BY <1>1, InCutover DEF DiskInv, PendingKnows
  <2>7. SchemaNeverAhead'
    BY <1>2, <1>4, <2>4, <2>6 DEF DiskInv, SchemaNeverAhead
  <2> QED  BY <2>2, <2>3, <2>5, <2>7 DEF DiskInv
<1>7. CASE RollbackError
  <2>3. LockHolder' /\ HolderInv' /\ (Quit \/ \E q, u, cause : q # "begin" /\ Goes(q, u, cause))
    BY <1>1, <1>7, RollbackErrorHolder
  <2> QED  BY <1>1, <1>2, <1>5, <2>3, CutoverStep DEF Books
<1>8. CASE Goes("rb_unblock", ex.t, ex.cause) /\ layout' = "flat"
  <2>1. LockHolder'
    BY <1>1, <1>8, InCutover, GoesLock DEF LockHolder, Cutting, RollingBack, Staging
  <2>2. ex'.job = txn'.job /\ Matches(ex.t)' /\ ex'.t = ex.t /\ ex'.t.phase # Done
    BY <1>1, <1>2, <1>4, <1>8, InCutover DEF Goes, Matches
  <2>3. CutoverKnows'
    BY <1>1, <1>2, <1>4, <1>8, <2>2 DEF Goes, CutoverKnows, Forward, RollingBack
  <2>5. StagingKnows' /\ EndKnows' /\ HolderHolds'
    BY <1>8 DEF Goes, StagingKnows, EndKnows, HolderHolds, Staging
  <2> QED  BY <1>1, <1>2, <1>5, <1>8, <2>1, <2>3, <2>5, CutoverStep DEF Books, HolderInv
<1> QED  BY <1>3, <1>7, <1>8

\* Finishing a transaction: forward the job's release is installed, back it is not.
LEMMA MarkDoneKeeps ==
    ASSUME UpdateInv, TypeOK', NEW pc, NEW next, MarkDone(pc, next),
           \/ pc = "done" /\ next = IF ex.kind = "recover" THEN "result" ELSE "wrap"
           \/ pc = "rb_done" /\ next = "rb_clean"
    PROVE  UpdateInv'
<1> USE DEF UpdateInv
<1>1. /\ ex.pc = pc /\ ex.pc \in Cutover /\ (pc = "done" <=> ex.t.mig)
      /\ pc = "rb_done" => ex.pc \in RollingBack
  BY DEF MarkDone, Cutover, Forward, RollingBack, HolderInv, CutoverKnows
<1>2. Fixed /\ UNCHANGED <<fresh, job, rn, temps, current, layout, releases, schema, guard, block, service>>
  BY DEF MarkDone, Fixed, store
<1>3. PICK t \in Txns :
        /\ t.job = ex.job /\ t.mig = ex.t.mig /\ t.phase = Done
        /\ \/ txn' = t /\ Goes(next, t, ex.cause)
           \/ (txn' = t \/ txn' = txn) /\ ex.t.mig /\ ForwardError(ex.t)
           \/ (txn' = t \/ txn' = txn) /\ ~ex.t.mig /\ RollbackError
  <2> DEFINE u == [ex.t EXCEPT !.phase = Done]
  <2>1. u \in Txns /\ u.job = ex.job /\ u.mig = ex.t.mig /\ u.phase = Done
    BY <1>1, InCutover, TxnFacts, PhaseNames
  <2>2. \/ txn' = u /\ Continue(Ex(next, ex.item, u, ex.cause))
        \/ (txn' = u \/ txn' = txn) /\ ex.t.mig /\ ForwardError(ex.t)
        \/ (txn' = u \/ txn' = txn) /\ ~ex.t.mig /\ RollbackError
    BY DEF MarkDone, SaveTxn, Took
  <2> HIDE DEF u
  <2> QED  BY <2>1, <2>2, Endings
<1>4. ex.t.mig => Installed(ex.job)
  BY <1>1, InCutover DEF HolderInv, CutoverKnows, Forward, Installed, DiskInv, PendingKnows
<1>5. UnderSystemd' = UnderSystemd /\ Bins' = Bins /\ (\A r : Version(r)' = Version(r)) /\ (\A j : Installed(j)' <=> Installed(j))
  BY <1>2 DEF UnderSystemd, Bins, Version, Installed, Fixed
<1>6. DiskInv'
  <2>1. CASE txn' = txn
    BY <1>1, <1>2, <2>1, InCutover, DiskKept
  <2>2. CASE txn' = t
    <3>1. ~TxnPending' /\ txn'.job = ex.job /\ (txn'.mig => ex.t.mig)
      BY <1>3, <2>2 DEF TxnPending
    <3>2. PendingKnows' /\ AliasesLead'
      BY <1>2, <3>1 DEF DiskInv, PendingKnows, AliasesLead
    <3>3. \A j : j = ex.job /\ ex.t.mig => Installed(j)'
      BY <1>4, <1>5
    <3>4. DoneKnows'
      BY <1>1, <3>1, <3>3, InCutover DEF DoneKnows
    <3>5. ServiceHeld'
      BY <1>2, <1>5, <3>1 DEF DiskInv, ServiceHeld
    <3>6. SchemaNeverAhead'
      BY <1>2, <1>5 DEF DiskInv, SchemaNeverAhead
    <3> QED  BY <3>2, <3>4, <3>5, <3>6 DEF DiskInv
  <2> QED  BY <1>3, <2>1, <2>2
<1>7. CASE (ex.t.mig /\ ForwardError(ex.t)) \/ (~ex.t.mig /\ RollbackError)
  <2>3. LockHolder' /\ HolderInv' /\ (Quit \/ \E q, u, cause : q # "begin" /\ Goes(q, u, cause))
    BY <1>1, <1>7, InCutover, ForwardErrorHolder, RollbackErrorHolder
  <2> QED  BY <1>1, <1>2, <1>6, <2>3, CutoverStep DEF Books
<1>8. CASE txn' = t /\ Goes(next, t, ex.cause)
  <2>1. next \in {"result", "wrap", "rb_clean"} /\ (next = "rb_clean" <=> ~ex.t.mig) /\ (next = "result" => ex.kind = "recover")
          /\ (next = "wrap" => ex.kind # "recover")
    BY <1>1
  <2>2. LockHolder'
    BY <1>1, <1>8, <2>1, InCutover, GoesLock DEF LockHolder, Cutting, RollingBack, Staging
  <2>3. ~TxnPending' /\ ex'.job = ex.job /\ ex'.t = t /\ ex'.t.mig = ex.t.mig /\ ex'.pc = next
    BY <1>3, <1>8 DEF TxnPending, Goes
  <2>4. \A j : j = ex.job /\ ex.t.mig => Installed(j)'
    BY <1>4, <1>5
  <2>5. ex.t.mig => Installed(ex.job)'
    BY <2>3, <2>4
  <2>6. next = "rb_clean" /\ layout' = "aliases" => current' # ex'.job
    BY <1>1, <1>2, <2>1, <2>3, InCutover DEF HolderInv, CutoverKnows
  <2>7. EndKnows'
    BY <2>1, <2>3, <2>5, <2>6 DEF EndKnows
  <2>8. StagingKnows' /\ CutoverKnows' /\ HolderHolds'
    BY <2>1, <2>3 DEF StagingKnows, CutoverKnows, HolderHolds, Staging, Cutover, Cutting, Forward, RollingBack
  <2> QED  BY <1>1, <1>2, <1>6, <1>8, <2>1, <2>2, <2>7, <2>8, CutoverStep DEF Books, HolderInv
<1> QED  BY <1>3, <1>7, <1>8

-----------------------------------------------------------------------------
(* The end of a job, and its recovery. *)

\* With no transaction pending, releases other than what is installed may go.
LEMMA PruneDisk ==
    ASSUME UpdateInv, ~TxnPending, Fixed, UNCHANGED <<current, layout, schema, service>>, txn' \in {txn, NoTxn},
           \A r \in DOMAIN releases' : r \in DOMAIN releases /\ releases'[r] = releases[r],
           layout = "aliases" => current \in DOMAIN releases'
    PROVE  DiskInv' /\ (\A j : Installed(j) => Installed(j)')
<1> USE DEF UpdateInv, DiskInv, Fixed
<1>1. ~TxnPending' /\ Bins' = Bins /\ UnderSystemd' = UnderSystemd
  BY DEF TxnPending, Bins, UnderSystemd
<1>2. \A b \in {0} \cup Bins : Version(b)' = Version(b)
  BY DEF Version, Bins
<1>3. \A j : Installed(j) => Installed(j)'
  BY DEF Installed
<1>4. PendingKnows' /\ AliasesLead'
  BY <1>1 DEF PendingKnows, AliasesLead
<1>5. DoneKnows'
  <2>1. CASE txn' = txn
    BY <1>3, <2>1 DEF DoneKnows
  <2>2. CASE txn' = NoTxn
    BY <2>2, NoTxnFacts, PhaseNames DEF DoneKnows
  <2> QED  BY <2>1, <2>2
<1>6. ServiceHeld'
  BY <1>1 DEF ServiceHeld
<1>7. SchemaNeverAhead'
  BY <1>1, <1>2 DEF SchemaNeverAhead, ServiceHeld
<1> QED  BY <1>3, <1>4, <1>5, <1>6, <1>7

\* The step WrapUp keeps the invariant.
LEMMA WrapUpKeeps ==
    ASSUME UpdateInv, TypeOK', WrapUp
    PROVE  UpdateInv'
<1> USE DEF UpdateInv
<1>1. ex.pc = "wrap" /\ ex.kind # "recover" /\ ex.job \in Jobs /\ ~TxnPending /\ Installed(ex.job)
  BY Running DEF WrapUp, LockHolder, HolderInv, EndKnows
<1>2. /\ Fixed /\ UNCHANGED <<fresh, job, rn, current, layout, schema, txn, guard, block, service>>
      /\ releases' = [r \in DOMAIN releases \cap {current} |-> releases[r]]
  BY DEF WrapUp, Fixed, store, PruneReleases
<1>3. Goes("finish", ex.t, ex.cause) /\ ex.t \in Txns
  BY ExTypes, Endings DEF WrapUp
<1>4. DiskInv' /\ (\A j : Installed(j) => Installed(j)')
  <2>1. layout = "aliases" => current \in DOMAIN releases'
    BY <1>2 DEF DiskInv, AliasesLead
  <2> QED  BY <1>1, <1>2, <2>1, PruneDisk
<1>5. Books'
  BY <1>1, <1>2, <1>3, ExecutorBooks DEF Fixed
<1>6. NewJobsAreUnused'
  BY <1>1, <1>2, <1>3, ExecutorUnused
<1>7. LockHolder'
  BY <1>1, <1>3, GoesLock DEF Cutting, RollingBack
<1>8. HolderInv'
  <2>1. \A j : j = ex.job => Installed(j)'
    BY <1>1, <1>4
  <2>2. ex'.pc = "finish" /\ ex'.job = ex.job
    BY <1>3 DEF Goes
  <2>3. Installed(ex.job)'
    BY <2>1, <2>2
  <2> QED  BY <2>2, <2>3 DEF HolderInv, StagingKnows, CutoverKnows, EndKnows, HolderHolds, Staging, Cutover, Cutting, Forward, RollingBack
<1> QED  BY <1>4, <1>5, <1>6, <1>7, <1>8 DEF Books

\* The step RemoveCandidate keeps the invariant.
LEMMA RemoveCandidateKeeps ==
    ASSUME UpdateInv, TypeOK', RemoveCandidate
    PROVE  UpdateInv'
<1> USE DEF UpdateInv
<1>1. /\ ex.pc = "rb_clean" /\ ex.job \in Jobs /\ ~TxnPending /\ (layout = "aliases" => current # ex.job) /\ ~ex.t.mig
      /\ ex.kind # "recover" => ex.cause = "failed"
  BY Running DEF RemoveCandidate, LockHolder, HolderInv, EndKnows
<1>2. /\ Fixed /\ UNCHANGED <<fresh, job, rn, current, layout, schema, txn, guard, block, service>>
      /\ releases' = [r \in DOMAIN releases \ {ex.job} |-> releases[r]]
  BY DEF RemoveCandidate, Fixed, store
<1>3. Goes(IF ex.kind = "recover" THEN "result" ELSE "finish", ex.t, ex.cause) /\ ex.t \in Txns
  BY ExTypes, Endings DEF RemoveCandidate
<1>4. DiskInv'
  <2>1. layout = "aliases" => current \in DOMAIN releases'
    BY <1>1, <1>2 DEF DiskInv, AliasesLead
  <2> QED  BY <1>1, <1>2, <2>1, PruneDisk
<1>5. Books'
  BY <1>1, <1>2, <1>3, ExecutorBooks DEF Fixed
<1>6. NewJobsAreUnused'
  <2>1. \E pc : pc # "begin" /\ Goes(pc, ex.t, ex.cause)
    BY <1>3
  <2> QED  BY <1>1, <1>2, <2>1, ExecutorUnused
<1>7. CASE ex.kind # "recover"
  BY <1>1, <1>3, <1>4, <1>5, <1>6, <1>7, EndHolder DEF Books
<1>8. CASE ex.kind = "recover"
  <2>1. LockHolder'
    BY <1>1, <1>3, <1>8, GoesLock DEF Cutting, RollingBack, Staging
  <2>2. ex'.pc = "result" /\ ~ex'.t.mig /\ ~TxnPending'
    BY <1>1, <1>2, <1>3, <1>8 DEF Goes, TxnPending
  <2>3. HolderInv'
    BY <2>2 DEF HolderInv, StagingKnows, CutoverKnows, EndKnows, HolderHolds, Staging, Cutover, Cutting, Forward, RollingBack
  <2> QED  BY <1>4, <1>5, <1>6, <2>1, <2>3 DEF Books
<1> QED  BY <1>7, <1>8

\* The step FinishJob keeps the invariant.
LEMMA FinishJobKeeps ==
    ASSUME UpdateInv, TypeOK', FinishJob
    PROVE  UpdateInv'
<1> USE DEF UpdateInv
<1>1. ex.pc = "finish" /\ ex.kind # "recover" /\ ex.job \in Jobs
  BY Running DEF FinishJob, LockHolder
<1>2. Fixed /\ UNCHANGED <<fresh, rn, temps, releases, current, layout, schema, txn, guard, block, service>>
  BY DEF FinishJob, Fixed, disk
<1>3. (Goes("remove", ex.t, ex.cause) \/ Quit) /\ ex.t \in Txns
  BY ExTypes, Endings DEF FinishJob
<1>4. PICK item : item.status \in {"completed", "failed"} /\ job' \in {job, [job EXCEPT ![ex.job] = item]}
  <2> DEFINE done == [status |-> "completed", phase |-> Done, code |-> "", rec |-> ex.item.rec, pid |-> ex.item.pid]
             lost == [status |-> "failed", phase |-> ex.item.phase, code |-> FailureCode(ex.item, ex.cause),
                      rec |-> ex.item.rec, pid |-> ex.item.pid]
  <2>1. done.status = "completed" /\ lost.status = "failed"
    OBVIOUS
  <2>2. job' \in {job, [job EXCEPT ![ex.job] = done], [job EXCEPT ![ex.job] = lost]}
    BY DEF FinishJob
  <2> HIDE DEF done, lost
  <2> QED  BY <2>1, <2>2
<1>5. DiskInv'
  <2>1. TxnPending => txn.job \in temps'
    BY <1>2 DEF DiskInv, PendingKnows
  <2> QED  BY <1>2, <2>1, DiskKept
<1>6. Books'
  <2>1. job[ex.job].status # "none"
    BY <1>1, Running, PlanTyping, JobNumbers DEF JobsInOrder, TypeOK
  <2>2. \A j \in Jobs : job'[j].status = "none" <=> job[j].status = "none"
    BY <1>1, <1>4, <2>1 DEF TypeOK
  <2> QED  BY <1>1, <1>2, <1>3, <2>2, ExecutorBooks DEF Fixed
<1>7. NewJobsAreUnused'
  BY <1>1, <1>2, <1>3, ExecutorUnused
<1>8. LockHolder' /\ HolderInv'
  BY <1>1, <1>3, QuitHolder, EndHolder
<1> QED  BY <1>5, <1>6, <1>7, <1>8 DEF Books

\* The step RemoveTransaction keeps the invariant.
LEMMA RemoveTransactionKeeps ==
    ASSUME UpdateInv, TypeOK', RemoveTransaction
    PROVE  UpdateInv'
<1> USE DEF UpdateInv
<1>1. ex.pc = "remove" /\ ex.job \in Jobs /\ (ex.kind = "recover" => ~TxnPending)
  BY Running DEF RemoveTransaction, LockHolder, HolderInv, EndKnows
<1>2. /\ Fixed /\ UNCHANGED <<fresh, job, rn, current, layout, schema, guard, block, service>>
      /\ Quit /\ (txn' = txn \/ (txn' = NoTxn /\ txn.phase = Done))
      /\ ex.kind # "recover" => UNCHANGED <<temps, releases>>
      /\ releases' \in {releases, [r \in DOMAIN releases \cap {current} |-> releases[r]]}
  BY DEF RemoveTransaction, Fixed, store, PruneReleases, RemovedTxn
<1>3. DiskInv'
  <2>1. CASE TxnPending
    <3>1. txn' = txn /\ UNCHANGED <<temps, releases>>
      BY <1>1, <1>2, <2>1 DEF TxnPending
    <3> QED  BY <1>2, <2>1, <3>1, DiskKept DEF DiskInv, PendingKnows
  <2>2. CASE ~TxnPending
    <3>1. layout = "aliases" => current \in DOMAIN releases'
      BY <1>2 DEF DiskInv, AliasesLead
    <3>2. \A r \in DOMAIN releases' : r \in DOMAIN releases /\ releases'[r] = releases[r]
      BY <1>2
    <3> QED  BY <1>2, <2>2, <3>1, <3>2, PruneDisk
  <2> QED  BY <2>1, <2>2
<1>4. Books'
  BY <1>1, <1>2, ExecutorBooks DEF Fixed
<1>5. NewJobsAreUnused'
  BY <1>1, <1>2, ExecutorUnused
<1>6. LockHolder' /\ HolderInv'
  BY <1>1, <1>2, QuitHolder
<1> QED  BY <1>3, <1>4, <1>5, <1>6 DEF Books

\* The step RecordRecoveryResult keeps the invariant.
LEMMA RecordRecoveryResultKeeps ==
    ASSUME UpdateInv, TypeOK', RecordRecoveryResult
    PROVE  UpdateInv'
<1> USE DEF UpdateInv
<1>1. ex.pc = "result" /\ ex.kind = "recover" /\ ex.job \in Jobs /\ ~TxnPending
  BY Running DEF RecordRecoveryResult, LockHolder, HolderInv, EndKnows
<1>2. Fixed /\ UNCHANGED <<fresh, rn, temps, releases, current, layout, schema, txn, guard, block, service>>
  BY DEF RecordRecoveryResult, Fixed, disk
<1>3. (Goes("remove", ex.t, ex.cause) \/ Quit) /\ ex.t \in Txns
  BY ExTypes, Endings DEF RecordRecoveryResult
<1>4. \/ job' = job
      \/ /\ job[ex.job].status # "none"
         /\ job' = [job EXCEPT ![ex.job] = StatusFromDoneTransaction(job[ex.job], ex.t)]
  BY DEF RecordRecoveryResult
<1>5. DiskInv'
  BY <1>1, <1>2, DiskKept
<1>6. Books'
  <2>1. StatusFromDoneTransaction(job[ex.job], ex.t).status # "none"
    BY DEF StatusFromDoneTransaction
  <2>2. \A j \in Jobs : job'[j].status = "none" <=> job[j].status = "none"
    BY <1>1, <1>4, <2>1 DEF TypeOK
  <2> QED  BY <1>1, <1>2, <1>3, <2>2, ExecutorBooks DEF Fixed
<1>7. NewJobsAreUnused'
  BY <1>1, <1>2, <1>3, ExecutorUnused
<1>8. LockHolder' /\ HolderInv'
  <2>1. CASE Quit
    BY <1>1, <2>1, QuitHolder
  <2>2. CASE Goes("remove", ex.t, ex.cause)
    <3>1. LockHolder'
      BY <1>1, <2>2, GoesLock DEF Cutting, RollingBack, Staging
    <3>2. ex'.pc = "remove" /\ ~TxnPending'
      BY <1>1, <1>2, <2>2 DEF Goes, TxnPending
    <3> QED  BY <3>1, <3>2 DEF HolderInv, StagingKnows, CutoverKnows, EndKnows, HolderHolds, Staging, Cutover, Cutting, Forward, RollingBack
  <2> QED  BY <1>3, <2>1, <2>2
<1> QED  BY <1>5, <1>6, <1>7, <1>8 DEF Books

\* Every step of an executor keeps the invariant.
LEMMA ExecutorKeeps ==
    ASSUME UpdateInv, TypeOK', Executor
    PROVE  UpdateInv'
<1>1. Stopping \in Phases /\ Switching \in Phases /\ Starting \in Phases /\ Cleanup \in Phases
      /\ Stopping # Done /\ Switching # Done /\ Starting # Done /\ Cleanup # Done
  BY PhaseNames
<1>2. ReachPhase("stopping", Stopping, "stop") => UpdateInv'
  BY <1>1, ReachPhaseKeeps
<1>3. ReachPhase("switching", Switching, "activate") => UpdateInv'
  BY <1>1, ReachPhaseKeeps
<1>4. ReachPhase("starting", Starting, "unblock") => UpdateInv'
  BY <1>1, ReachPhaseKeeps
<1>5. ReachPhase("cleanup", Cleanup, "done") => UpdateInv'
  BY <1>1, ReachPhaseKeeps
<1>6. RemoveBlock("unblock", "start") \/ RemoveBlock("rb_unblock", "rb_start") => UpdateInv'
  BY RemoveBlockKeeps
<1>7. StartDash("start", "cleanup") \/ StartDash("rb_start", "rb_done") => UpdateInv'
  BY StartDashKeeps
<1>8. MarkDone("done", IF ex.kind = "recover" THEN "result" ELSE "wrap") \/ MarkDone("rb_done", "rb_clean") => UpdateInv'
  BY MarkDoneKeeps
<1> QED  BY <1>2, <1>3, <1>4, <1>5, <1>6, <1>7, <1>8,
            BeginUpdateKeeps, FetchReleaseKeeps, StageReleaseKeeps, RecordTransactionKeeps, InstallGuardKeeps, WriteBlockKeeps,
            StopDashKeeps, ActivateReleaseKeeps, InstallAliasesKeeps, CrossBoundaryKeeps, RunCandidateMigrationKeeps, HoldDashKeeps,
            WrapUpKeeps, RestorePreviousKeeps, CopyBackupKeeps, RemoveCandidateKeeps, FinishJobKeeps, RemoveTransactionKeeps,
            RecordRecoveryResultKeeps
         DEF Executor

\* The step RecoverUpdate keeps the invariant.
LEMMA RecoverUpdateKeeps ==
    ASSUME UpdateInv, TypeOK', RecoverUpdate
    PROVE  UpdateInv'
<1> USE DEF UpdateInv
<1>1. /\ ex = NoEx /\ txn # NoTxn /\ txn.job \in Jobs /\ ex'.kind = "recover" /\ ex'.job = txn.job /\ ex'.t = txn
      /\ IF txn.phase = Done THEN ex'.pc = "result" ELSE ex'.pc = "guard"
  BY DEF RecoverUpdate, DiskInv, DoneKnows
<1>2. Fixed /\ UNCHANGED <<unit, job, fresh, rn, temps, releases, current, layout, schema, txn, guard, block, service>>
  BY DEF RecoverUpdate, Fixed, disk, store
<1>3. DiskInv'
  BY <1>2, DiskKept DEF DiskInv, PendingKnows
<1>4. Books'
  BY <1>2 DEF Books, JobsInOrder, StoppedStays, Fixed
<1>5. NewJobsAreUnused'
  BY <1>1, <1>2 DEF NewJobsAreUnused, Unused
<1>6. LockHolder'
  BY <1>1, <1>2, NoExFacts DEF LockHolder, Staging
<1>7. TxnPending' <=> txn.phase # Done
  BY <1>1, <1>2 DEF TxnPending
<1>8. \A j : Installed(j)' <=> Installed(j)
  BY <1>2 DEF Installed, Fixed
<1>9. HolderInv'
  <2>1. CASE txn.phase = Done
    <3>1. txn.mig => Installed(txn.job)
      BY <2>1 DEF DiskInv, DoneKnows
    <3>2. \A j : j = txn.job /\ txn.mig => Installed(j)'
      BY <3>1, <1>8
    <3>3. ex'.t.mig => Installed(ex.job)'
      BY <1>1, <3>2
    <3> QED  BY <1>1, <1>7, <2>1, <3>3 DEF HolderInv, StagingKnows, CutoverKnows, EndKnows, HolderHolds, Staging, Cutover, Cutting, Forward, RollingBack
  <2>2. CASE txn.phase # Done
    <3>1. CutoverKnows'
      BY <1>1, <1>2, <1>7, <2>2 DEF CutoverKnows, Matches, Forward, RollingBack
    <3>2. StagingKnows' /\ EndKnows' /\ HolderHolds'
      BY <1>1, <2>2 DEF StagingKnows, EndKnows, HolderHolds, Staging
    <3> QED  BY <3>1, <3>2 DEF HolderInv
  <2> QED  BY <2>1, <2>2
<1> QED  BY <1>3, <1>4, <1>5, <1>6, <1>9 DEF Books

-----------------------------------------------------------------------------
(* Everyone else. *)

\* Jobs are only added; a finished transaction may be removed, and the service may stop, or start when it is not held.
Grows ==
    /\ install' = install /\ selected <= selected'
    /\ \A j \in Jobs : j <= selected => plan'[j] = plan[j]
    /\ UNCHANGED <<current, layout, releases, temps, schema, guard, block>>
    /\ txn' = txn \/ (txn' = NoTxn /\ ~TxnPending)
    /\ service' \in {service, Down} \/ (service = Down /\ service' \in Bins /\ (install.systemd => ~(guard /\ block)))
LEMMA OthersDisk ==
    ASSUME UpdateInv, TypeOK', Grows
    PROVE  /\ DiskInv' /\ (UnderSystemd' => UnderSystemd) /\ (TxnPending' <=> TxnPending) /\ Bins' = Bins
           /\ \A r : Version(r)' = Version(r)
           /\ \A j : Installed(j) => Installed(j)'
           /\ UnderSystemd /\ Held => Held'
<1> USE DEF UpdateInv, DiskInv, Grows
<1>0. selected \in Nat /\ selected' \in Nat /\ \A j \in Jobs : j \in Nat
  BY JobNumbers DEF TypeOK
<1>1. (TxnPending' <=> TxnPending) /\ Bins' = Bins /\ \A r : Version(r)' = Version(r)
  BY DEF TxnPending, Bins, Version
<1>2. UnderSystemd' => UnderSystemd
  BY <1>0 DEF UnderSystemd
<1>3. \A j : Installed(j) => Installed(j)'
  BY <1>0 DEF Installed
<1>4. UnderSystemd /\ Held => Held'
  BY DEF Held, UnderSystemd
<1>5. TxnPending => txn' = txn
  OBVIOUS
<1>6. PendingKnows'
  BY <1>0, <1>1, <1>5 DEF PendingKnows
<1>7. DoneKnows' /\ AliasesLead'
  <2>1. CASE txn' = txn
    BY <1>3, <2>1 DEF DoneKnows, AliasesLead
  <2>2. CASE txn' = NoTxn
    BY <2>2, NoTxnFacts, PhaseNames DEF DoneKnows, AliasesLead
  <2> QED  BY <2>1, <2>2
<1>8. ServiceHeld'
  BY <1>1, <1>2, <1>4, <1>5 DEF ServiceHeld
<1>9. SchemaNeverAhead'
  BY <1>1, <1>2 DEF SchemaNeverAhead
<1> QED  BY <1>1, <1>2, <1>3, <1>4, <1>6, <1>7, <1>8, <1>9

NotYet == {"none", "pending", "starting", "opened"}
LEMMA OthersKeep ==
    ASSUME UpdateInv, TypeOK', Grows, Books', ex' = ex,
           \A j \in Jobs : /\ unit'[j] = "locked" <=> unit[j] = "locked"
                           /\ unit'[j] \in NotYet => unit[j] \in NotYet
    PROVE  UpdateInv'
<1> USE DEF UpdateInv
<1>1. DiskInv' /\ (UnderSystemd' => UnderSystemd) /\ (TxnPending' <=> TxnPending) /\ Bins' = Bins
  BY OthersDisk
<1>2. NewJobsAreUnused'
  BY DEF NewJobsAreUnused, Unused, Grows, NotYet
<1>3. LockHolder'
  BY DEF LockHolder
<1>4. ex.kind \in {"execute", "manual"} => plan'[ex.job] = plan[ex.job]
  <2> SUFFICES ASSUME ex.kind \in {"execute", "manual"} PROVE plan'[ex.job] = plan[ex.job]
    OBVIOUS
  <2>1. ex.job \in Jobs /\ unit[ex.job] = "locked"
    BY DEF LockHolder
  <2> QED  BY <2>1, PlanTyping DEF Grows
<1>5. StagingKnows'
  <2>1. ex.pc \in Staging => ex.kind \in {"execute", "manual"} /\ ~TxnPending
    BY Running DEF LockHolder, Staging, HolderInv, StagingKnows, TxnPending
  <2> QED  BY <1>4, <2>1 DEF HolderInv, StagingKnows, Grows
<1>6. CutoverKnows'
  <2>1. TxnPending => txn' = txn
    BY DEF Grows
  <2> QED  BY <1>1, <2>1 DEF HolderInv, CutoverKnows, Grows, Matches
<1>7. EndKnows'
  <2>1. \A j : Installed(j) => Installed(j)'
    BY OthersDisk
  <2>2. PICK k : k = ex.job
    OBVIOUS
  <2>3. Installed(ex.job) => Installed(ex.job)'
    <3>1. Installed(k) => Installed(k)'
      BY <2>1
    <3> QED  BY <2>2, <3>1
  <2>4. ex.pc = "finish" => ex.kind \in {"execute", "manual"}
    BY Running DEF LockHolder
  <2>5. txn = NoTxn => txn' = NoTxn
    BY DEF Grows
  <2>6. \A b \in Bins : Version(b)' = Version(b)
    BY OthersDisk
  <2> QED  BY <1>1, <1>4, <2>3, <2>4, <2>5, <2>6 DEF HolderInv, EndKnows, Grows
<1>8. HolderHolds'
  <2>1. UnderSystemd /\ Held => Held'
    BY OthersDisk
  <2> QED  BY <1>1, <2>1 DEF HolderInv, HolderHolds, Grows
<1> QED  BY <1>1, <1>2, <1>3, <1>5, <1>6, <1>7, <1>8 DEF Books, HolderInv

\* The numbers of jobs.
LEMMA Numbers ==
    ASSUME TypeOK
    PROVE  selected \in Nat /\ selected \in Releases /\ (\A j \in Jobs : j \in Nat /\ j # 0) /\ (selected # 0 => selected \in Jobs)
           /\ rn.pc \in {"idle", "status", "inspect", "settle", "create", "submit", "verify", "notify"}
  BY JobNumbers, RnTypes DEF TypeOK, Releases

\* The controller at rest.
LEMMA NoRnFacts == NoRn.pc = "idle" /\ NoRn.next = "none"
  BY DEF NoRn

\* A reconciliation goes on to what it was for.
LEMMA AfterStatusBooks ==
    ASSUME UpdateInv, rn.pc \in {"status", "inspect", "settle"}, NEW status, rn' = AfterStatus(status),
           UNCHANGED <<plan, selected, fresh, unit>>,
           \A j \in Jobs : job'[j].status = "none" <=> job[j].status = "none"
    PROVE  Books'
<1> USE DEF UpdateInv
<1>1. rn' = NoRn \/ (rn'.pc \in {"create", "notify"} /\ rn'.pc = rn.next /\ rn'.next = "none" /\ rn'.plan = rn.plan)
  BY AfterStatusTypes
<1>2. JobsInOrder'
  BY <1>1, NoRnFacts DEF JobsInOrder
<1>3. StoppedStays'
  BY <1>1, NoRnFacts DEF StoppedStays
<1> QED  BY <1>2, <1>3 DEF Books

\* Every step of the controller keeps the invariant.
LEMMA ControllerKeeps ==
    ASSUME UpdateInv, TypeOK', Controller
    PROVE  UpdateInv'
<1> USE DEF UpdateInv
<1>0. /\ \A j \in Jobs : job[j] \in Items
      /\ selected \in Nat /\ (\A j \in Jobs : j \in Nat /\ j # 0) /\ (selected # 0 => selected \in Jobs)
  BY Numbers DEF TypeOK
<1>1. ASSUME NEW r \in Requests, BeginStart(r) PROVE UpdateInv'
  <2>1. selected + 1 \in Jobs
    <3>1. PICK j \in Jobs : job[j].status = "none"
      BY <1>1 DEF BeginStart, Selectable
    <3> QED  BY <3>1, JobNumbers, Numbers DEF JobsInOrder
  <2>2. ResolvePlan(r) # NoPlan => ResolvePlan(r) \in Plans
    BY DEF ResolvePlan, PlanValid
  <2>3. /\ rn'.pc = "status" /\ rn'.next = "create" /\ rn'.plan \in Plans
        /\ UNCHANGED <<job, plan, selected, fresh, unit, ex>>
    BY <1>1, <2>2 DEF BeginStart, store
  <2>4. Books'
    BY <2>1, <2>3 DEF Books, JobsInOrder, StoppedStays
  <2>5. Grows
    BY <1>0, <1>1 DEF BeginStart, disk, store, Grows
  <2> QED  BY <2>3, <2>4, <2>5, OthersKeep
<1>2. ASSUME BeginStatus PROVE UpdateInv'
  <2>3. rn'.pc = "status" /\ rn'.next = "notify" /\ UNCHANGED <<job, plan, selected, fresh, unit, ex>>
    BY <1>2 DEF BeginStatus, store
  <2>4. Books'
    BY <2>3 DEF Books, JobsInOrder, StoppedStays
  <2>5. Grows
    BY <1>0, <1>2 DEF BeginStatus, disk, store, Grows
  <2> QED  BY <2>3, <2>4, <2>5, OthersKeep
<1>3. \A item \in Items : /\ StatusFromDoneTransaction(item, txn).status # "none" /\ StaleStatus(item).status # "none"
                          /\ Reconciled(item).status = "none" <=> item.status = "none"
                          /\ Settled(item).status = "none" <=> item.status = "none"
                          /\ Reconciled(item) \in Items
  BY PhaseNames DEF StatusFromDoneTransaction, StaleStatus, Reconciled, Settled, Items
<1>4. ASSUME ReadStatus PROVE UpdateInv'
  <2>1. UNCHANGED <<plan, selected, fresh, unit, ex>> /\ rn.pc = "status"
    BY <1>4 DEF ReadStatus
  <2>2. Grows
    BY <1>0, <1>4 DEF ReadStatus, Grows, DoneForSelected, TxnPending
  <2>3. \A j \in Jobs : job'[j].status = "none" <=> job[j].status = "none"
    BY <1>0, <1>3, <1>4 DEF ReadStatus, TypeOK
  <2>4. (\E status : rn' = AfterStatus(status)) \/ rn' = NoRn
          \/ /\ rn'.pc = "inspect" /\ rn'.job = selected /\ selected # 0 /\ selected \notin fresh
             /\ rn'.next = rn.next /\ rn'.plan = rn.plan
    BY <1>4 DEF ReadStatus
  <2>5. Books'
    <3>1. CASE \E status : rn' = AfterStatus(status)
      BY <2>1, <2>3, <3>1, AfterStatusBooks
    <3>2. CASE rn' = NoRn
      BY <2>1, <2>3, <3>2, NoRnFacts DEF Books, JobsInOrder, StoppedStays
    <3>3. CASE /\ rn'.pc = "inspect" /\ rn'.job = selected /\ selected # 0 /\ selected \notin fresh
               /\ rn'.next = rn.next /\ rn'.plan = rn.plan
      <4>1. JobsInOrder'
        BY <1>0, <2>1, <2>3, <3>3 DEF JobsInOrder
      <4>2. StoppedStays'
        BY <2>1, <3>3 DEF StoppedStays
      <4> QED  BY <4>1, <4>2 DEF Books
    <3> QED  BY <2>4, <3>1, <3>2, <3>3
  <2> QED  BY <2>1, <2>2, <2>5, OthersKeep
<1>5. ASSUME InspectUnit PROVE UpdateInv'
  <2>1. UNCHANGED <<job, plan, selected, fresh, unit, ex>> /\ rn.pc = "inspect"
    BY <1>5 DEF InspectUnit, store
  <2>2. Grows
    BY <1>0, <1>5 DEF InspectUnit, Grows, disk, store
  <2>3. rn' = AfterStatus("running")
          \/ (~UnitBusy(rn.job) /\ rn'.pc = "settle" /\ rn'.job = rn.job /\ rn'.next = rn.next /\ rn'.plan = rn.plan)
    BY <1>5 DEF InspectUnit
  <2>4. Books'
    <3>1. CASE rn' = AfterStatus("running")
      BY <2>1, <3>1, AfterStatusBooks
    <3>2. CASE ~UnitBusy(rn.job) /\ rn'.pc = "settle" /\ rn'.job = rn.job /\ rn'.next = rn.next /\ rn'.plan = rn.plan
      <4>1. unit[rn.job] \in {"none", "gone"}
        BY <2>1, <3>2 DEF UnitBusy, JobsInOrder, StoppedStays, TypeOK, UnitStates
      <4>2. JobsInOrder'
        BY <2>1, <3>2 DEF JobsInOrder
      <4>3. StoppedStays'
        BY <2>1, <3>2, <4>1 DEF StoppedStays
      <4> QED  BY <4>2, <4>3 DEF Books
    <3> QED  BY <2>3, <3>1, <3>2
  <2> QED  BY <2>1, <2>2, <2>4, OthersKeep
<1>6. ASSUME SettleStopped PROVE UpdateInv'
  <2>1. UNCHANGED <<plan, selected, fresh, unit, ex>> /\ rn.pc = "settle" /\ rn.job \in Jobs
    BY <1>6 DEF SettleStopped, JobsInOrder
  <2>2. Grows
    BY <1>0, <1>6 DEF SettleStopped, Grows, DoneForSelected, TxnPending
  <2>3. \A j \in Jobs : job'[j].status = "none" <=> job[j].status = "none"
    <3>1. CASE selected # rn.job \/ (txn # NoTxn /\ txn.phase = Done /\ txn.job # selected)
      BY <1>6, <3>1 DEF SettleStopped
    <3>2. CASE ~(selected # rn.job \/ (txn # NoTxn /\ txn.phase = Done /\ txn.job # selected))
      <4>1. job[selected] \in Items /\ selected \in Jobs
        BY <1>0, <2>1, <3>2
      <4>2. PICK final : job' = [job EXCEPT ![selected] = final] /\ (final.status = "none" <=> job[selected].status = "none")
        BY <1>3, <1>6, <3>2, <4>1 DEF SettleStopped
      <4> QED  BY <4>1, <4>2 DEF TypeOK
    <3> QED  BY <3>1, <3>2
  <2>4. \E status : rn' = AfterStatus(status)
    BY <1>6 DEF SettleStopped
  <2>5. Books'
    BY <2>1, <2>3, <2>4, AfterStatusBooks
  <2> QED  BY <2>1, <2>2, <2>5, OthersKeep
<1>7. ASSUME SubmitUnit PROVE UpdateInv'
  <2>1. UNCHANGED <<job, plan, selected, fresh, ex>> /\ rn.pc = "submit" /\ rn.job \in Jobs /\ rn.job <= selected /\ unit[rn.job] = "none" /\ rn.job \in fresh
    BY <1>7 DEF SubmitUnit, store, JobsInOrder
  <2>2. Grows
    BY <1>0, <1>7 DEF SubmitUnit, Grows, disk, store
  <2>3. PICK u \in {"none", "pending", "starting"} : unit' = [unit EXCEPT ![rn.job] = u]
    BY <1>7 DEF SubmitUnit
  <2>4. rn' = NoRn \/ (rn'.pc = "verify" /\ rn'.job = rn.job /\ rn'.next = "none")
    BY <1>7 DEF SubmitUnit
  <2>5. \A j \in Jobs : unit'[j] = unit[j] \/ (j = rn.job /\ unit'[j] \in {"none", "pending", "starting"})
    BY <2>1, <2>3 DEF TypeOK
  <2>6. JobsInOrder'
    BY <1>0, <2>1, <2>4, <2>5, NoRnFacts DEF JobsInOrder
  <2>7. StoppedStays'
    BY <2>1, <2>4, <2>5, NoRnFacts DEF StoppedStays
  <2> QED  BY <2>1, <2>2, <2>5, <2>6, <2>7, OthersKeep DEF Books, NotYet
<1>8. ASSUME VerifyUnit PROVE UpdateInv'
  <2>1. UNCHANGED <<plan, selected, fresh, unit, ex>> /\ rn.pc = "verify" /\ rn.job \in Jobs /\ rn.job <= selected /\ rn' = NoRn
    BY <1>8 DEF VerifyUnit, JobsInOrder
  <2>2. Grows
    BY <1>0, <1>8 DEF VerifyUnit, Grows, disk
  <2>3. job' = job \/ job' = [job EXCEPT ![rn.job] = SubmissionFailed]
    BY <1>8 DEF VerifyUnit
  <2>4. \A j \in Jobs : job'[j].status = "none" <=> job[j].status = "none"
    BY <1>0, <2>1, <2>3 DEF TypeOK, SubmissionFailed, JobsInOrder
  <2>5. Books'
    BY <2>1, <2>4, NoRnFacts DEF Books, JobsInOrder, StoppedStays
  <2> QED  BY <2>1, <2>2, <2>5, OthersKeep
<1>9. ASSUME NotifyFinished PROVE UpdateInv'
  <2>1. UNCHANGED <<plan, selected, fresh, unit, ex>> /\ rn' = NoRn
    BY <1>9 DEF NotifyFinished
  <2>2. Grows
    BY <1>0, <1>9 DEF NotifyFinished, Grows, disk
  <2>3. [NoJob EXCEPT !.status = "gone"].status = "gone"
    BY Constants DEF Items
  <2>4. \A j \in Jobs : job'[j] = job[j] \/ (Terminal(job[j].status) /\ job'[j].status = "gone")
    BY <1>9, <2>3 DEF NotifyFinished, Removable
  <2>5. Books'
    BY <2>1, <2>4, NoRnFacts DEF Books, JobsInOrder, StoppedStays, Terminal
  <2> QED  BY <2>1, <2>2, <2>5, OthersKeep
<1>10. ASSUME CreateJob PROVE UpdateInv'
  <2>0. UNCHANGED disk
    BY <1>10 DEF CreateJob
  <2>1. rn.pc = "create" /\ NextJob = selected + 1 /\ selected + 1 \in Jobs /\ rn.plan \in Plans
    BY <1>10, NextJobIs DEF CreateJob, JobsInOrder
  <2>2. CASE UNCHANGED <<job, plan, selected, fresh, unit, ex>> /\ rn' = NoRn
    <3>1. Grows
      BY <1>0, <2>0, <2>2 DEF Grows, disk
    <3>2. Books'
      BY <2>2, NoRnFacts DEF Books, JobsInOrder, StoppedStays
    <3> QED  BY <2>2, <3>1, <3>2, OthersKeep
  <2>3. CASE ~(UNCHANGED <<job, plan, selected, fresh, unit, ex>> /\ rn' = NoRn)
    <3> DEFINE s == selected + 1
    <3>1. /\ plan' = [plan EXCEPT ![s] = rn.plan] /\ selected' = s /\ fresh' = fresh \cup {s}
          /\ rn' = NoRn \/ (rn'.pc = "submit" /\ rn'.job = s /\ rn'.next = "none" /\ UNCHANGED <<ex, unit>>)
          /\ \/ UNCHANGED <<ex, unit>>
             \/ /\ ex = NoEx /\ rn' = NoRn /\ unit' = [unit EXCEPT ![s] = "locked"]
                /\ ex'.kind = "manual" /\ ex'.pc = "begin" /\ ex'.job = s /\ ex'.item = OpenItem
      <4>1. ~(rn.by = "cli" /\ ex # NoEx)
        BY <1>10, <2>3 DEF CreateJob
      <4>2. PICK o \in Outcomes :
              /\ o # "fail" /\ plan' = [plan EXCEPT ![s] = rn.plan] /\ selected' = s /\ fresh' = fresh \cup {s}
              /\ IF rn.by = "cli" /\ o = "ok"
                 THEN /\ ex' = [kind |-> "manual", pc |-> "begin", job |-> s, item |-> OpenItem, t |-> NoTxn, cause |-> ""]
                      /\ unit' = [unit EXCEPT ![s] = "locked"]
                 ELSE UNCHANGED <<ex, unit>>
              /\ rn' = IF rn.by = "cli" \/ o = "late" THEN NoRn
                       ELSE [by |-> rn.by, pc |-> "submit", job |-> s, next |-> "none", plan |-> rn.plan]
        BY <1>10, <2>1, <2>3, <4>1 DEF CreateJob
      <4> HIDE DEF s
      <4>3. CASE rn.by = "cli" /\ o = "ok"
        <5>1. /\ ex' = [kind |-> "manual", pc |-> "begin", job |-> s, item |-> OpenItem, t |-> NoTxn, cause |-> ""]
              /\ unit' = [unit EXCEPT ![s] = "locked"] /\ rn' = NoRn
          BY <4>2, <4>3
        <5>2. ex'.kind = "manual" /\ ex'.pc = "begin" /\ ex'.job = s /\ ex'.item = OpenItem
          BY <5>1
        <5> QED  BY <4>1, <4>2, <4>3, <5>1, <5>2
      <4>4. CASE ~(rn.by = "cli" /\ o = "ok")
        BY <4>2, <4>4
      <4> QED  BY <4>3, <4>4
    <3>2. PICK item : job' = [job EXCEPT ![s] = item] /\ item.status # "none"
      <4>1. OpenItem.status # "none" /\ StatusForRequest.status # "none" /\ FailQueuedJob.status # "none"
        BY Constants
      <4>2. job' \in {[job EXCEPT ![s] = OpenItem], [job EXCEPT ![s] = StatusForRequest], [job EXCEPT ![s] = FailQueuedJob]}
        BY <1>10, <2>1, <2>3 DEF CreateJob
      <4> QED  BY <4>1, <4>2
    <3>3. s \in Jobs /\ s \in Nat /\ s > selected /\ unit[s] = "none" /\ \A j \in Jobs : j > selected /\ j # s => j > s
      BY <1>0, <2>1 DEF JobsInOrder
    <3> HIDE DEF s
    <3>4. Grows
      <4>1. selected <= selected' /\ \A j \in Jobs : j <= selected => plan'[j] = plan[j]
        BY <1>0, <3>1, <3>3 DEF TypeOK
      <4> QED  BY <2>0, <4>1 DEF Grows, disk
    <3>5. \A j \in Jobs : j # s => job'[j] = job[j] /\ plan'[j] = plan[j] /\ unit'[j] = unit[j]
      BY <3>1, <3>2 DEF TypeOK
    <3>6. job'[s].status # "none" /\ plan'[s] \in Plans
      BY <2>1, <3>1, <3>2, <3>3 DEF TypeOK
    <3>7. JobsInOrder'
      <4>1. \A j \in Jobs : /\ job'[j].status = "none" <=> j > s
                            /\ j > s => unit'[j] = "none"
                            /\ j <= s => plan'[j] \in Plans
        <5> SUFFICES ASSUME NEW j \in Jobs
                     PROVE  /\ job'[j].status = "none" <=> j > s
                            /\ j > s => unit'[j] = "none"
                            /\ j <= s => plan'[j] \in Plans
          OBVIOUS
        <5>1. CASE j = s
          BY <1>0, <3>3, <3>6, <5>1
        <5>2. CASE j # s
          <6>1. (j > s <=> j > selected) /\ (j <= s => j <= selected)
            BY <1>0, <3>3, <5>2
          <6> QED  BY <3>5, <5>2, <6>1 DEF JobsInOrder
        <5> QED  BY <5>1, <5>2
      <4>2. rn' = NoRn \/ (rn'.pc = "submit" /\ rn'.job = s /\ rn'.next = "none" /\ unit'[s] = "none" /\ s \in fresh')
        BY <3>1, <3>3
      <4> QED  BY <3>1, <3>3, <4>1, <4>2, NoRnFacts DEF JobsInOrder
    <3>8. StoppedStays'
      <4>1. unit'[s] # "pending"
        BY <3>1, <3>3 DEF TypeOK
      <4>2. \A j \in Jobs : unit'[j] = "pending" => j \in fresh'
        BY <3>1, <3>5, <4>1 DEF StoppedStays
      <4> QED  BY <3>1, <4>2, NoRnFacts DEF StoppedStays
    <3>9. CASE UNCHANGED <<ex, unit>>
      BY <3>4, <3>7, <3>8, <3>9, OthersKeep DEF Books
    <3>10. CASE /\ ex = NoEx /\ rn' = NoRn /\ unit' = [unit EXCEPT ![s] = "locked"]
                /\ ex'.kind = "manual" /\ ex'.pc = "begin" /\ ex'.job = s /\ ex'.item = OpenItem
      <4>1. LockHolder'
        <5>1. \A j \in Jobs : unit'[j] = "locked" <=> j = s
          BY <3>3, <3>10, NoExFacts DEF LockHolder, TypeOK
        <5> QED  BY <3>3, <3>10, <5>1, Constants DEF LockHolder, Cutting, RollingBack
      <4>2. NewJobsAreUnused'
        BY <3>3, <3>4, <3>5, <3>10 DEF NewJobsAreUnused, Unused, Grows
      <4>3. HolderInv'
        BY <3>10 DEF HolderInv, StagingKnows, CutoverKnows, EndKnows, HolderHolds, Staging, Cutover, Cutting, Forward, RollingBack
      <4>4. DiskInv'
        BY <3>4, OthersDisk
      <4> QED  BY <3>7, <3>8, <4>1, <4>2, <4>3, <4>4
    <3> QED  BY <3>1, <3>9, <3>10
  <2> QED  BY <2>2, <2>3
<1> QED  BY <1>1, <1>2, <1>4, <1>5, <1>6, <1>7, <1>8, <1>9, <1>10 DEF Controller

\* What systemd and the machine do keeps the invariant.
LEMMA MachineKeeps ==
    ASSUME UpdateInv, TypeOK', Machine
    PROVE  UpdateInv'
<1> USE DEF UpdateInv
<1>0. selected \in Nat /\ (\A j \in Jobs : j \in Nat /\ j # 0)
  BY Numbers DEF TypeOK
<1>1. ASSUME NEW j \in Jobs, OpenReporter(j) PROVE UpdateInv'
  <2>1. UNCHANGED <<plan, selected, fresh, ex, rn>> /\ unit[j] = "starting"
    BY <1>1 DEF OpenReporter
  <2>2. Grows
    BY <1>0, <1>1 DEF OpenReporter, Grows, disk
  <2>3. \A k \in Jobs : unit'[k] = unit[k] \/ (k = j /\ unit'[k] \in {"opened", "gone"})
    BY <1>1 DEF OpenReporter, TypeOK
  <2>4. \A k \in Jobs : job'[k].status = "none" <=> job[k].status = "none"
    BY <1>1, Constants DEF OpenReporter, TypeOK
  <2>5. JobsInOrder'
    BY <1>0, <2>1, <2>3, <2>4 DEF JobsInOrder
  <2>6. StoppedStays'
    BY <2>1, <2>3 DEF StoppedStays, JobsInOrder
  <2> QED  BY <2>1, <2>2, <2>3, <2>5, <2>6, OthersKeep DEF Books, NotYet
<1>2. ASSUME NEW j \in Jobs, AcquireUpdateLock(j) PROVE UpdateInv'
  <2>1. UNCHANGED <<job, plan, selected, fresh, rn>> /\ unit[j] = "opened"
    BY <1>2 DEF AcquireUpdateLock, store
  <2>2. Grows
    <3>1. UNCHANGED <<disk, store>>
      BY <1>2 DEF AcquireUpdateLock
    <3> QED  BY <1>0, <3>1 DEF Grows, disk, store
  <2>3. \A k \in Jobs : unit'[k] = unit[k] \/ (k = j /\ unit'[k] \in {"locked", "gone"})
    BY <1>2 DEF AcquireUpdateLock, TypeOK
  <2>4. JobsInOrder'
    BY <1>0, <2>1, <2>3 DEF JobsInOrder
  <2>5. StoppedStays'
    BY <2>1, <2>3 DEF StoppedStays, JobsInOrder
  <2>6. CASE ex' = ex /\ unit' = [unit EXCEPT ![j] = "gone"]
    <3>1. \A k \in Jobs : (unit'[k] = "locked" <=> unit[k] = "locked") /\ (unit'[k] \in NotYet => unit[k] \in NotYet)
      BY <2>1, <2>6 DEF TypeOK, NotYet
    <3> QED  BY <2>2, <2>4, <2>5, <2>6, <3>1, OthersKeep DEF Books
  <2>7. CASE /\ ex = NoEx /\ unit' = [unit EXCEPT ![j] = "locked"]
             /\ ex'.kind = "execute" /\ ex'.pc = "begin" /\ ex'.job = j /\ ex'.item = OpenItem
    <3>1. LockHolder'
      <4>1. \A k \in Jobs : unit'[k] = "locked" <=> k = j
        BY <2>7, NoExFacts DEF LockHolder, TypeOK
      <4> QED  BY <2>7, <4>1, Constants DEF LockHolder, Cutting, RollingBack
    <3>2. NewJobsAreUnused'
      BY <2>1, <2>2, <2>3, <2>7 DEF NewJobsAreUnused, Unused, Grows
    <3>3. HolderInv'
      BY <2>7 DEF HolderInv, StagingKnows, CutoverKnows, EndKnows, HolderHolds, Staging, Cutover, Cutting, Forward, RollingBack
    <3>4. DiskInv'
      BY <2>2, OthersDisk
    <3> QED  BY <2>4, <2>5, <3>1, <3>2, <3>3, <3>4
  <2>8. CASE ex = NoEx
    <3>1. /\ ex' = [kind |-> "execute", pc |-> "begin", job |-> j, item |-> OpenItem, t |-> NoTxn, cause |-> ""]
          /\ unit' = [unit EXCEPT ![j] = "locked"]
      BY <1>2, <2>8 DEF AcquireUpdateLock
    <3>2. ex'.kind = "execute" /\ ex'.pc = "begin" /\ ex'.job = j /\ ex'.item = OpenItem
      BY <3>1
    <3> QED  BY <2>7, <2>8, <3>1, <3>2
  <2>9. CASE ex # NoEx
    BY <1>2, <2>6, <2>9 DEF AcquireUpdateLock
  <2> QED  BY <2>8, <2>9
<1>3. ASSUME NEW j \in Jobs, GraceEnds(j) PROVE UpdateInv'
  <2>1. UNCHANGED <<job, plan, selected, unit, ex, rn>> /\ fresh' = fresh \ {j} /\ unit[j] # "pending" /\ rn.pc # "submit"
    BY <1>3 DEF GraceEnds
  <2>2. Grows
    BY <1>0, <1>3 DEF GraceEnds, Grows, disk
  <2>3. JobsInOrder' /\ StoppedStays'
    BY <2>1 DEF JobsInOrder, StoppedStays
  <2> QED  BY <2>1, <2>2, <2>3, OthersKeep DEF Books
<1>4. ASSUME NEW j \in Jobs, LateSubmission(j) PROVE UpdateInv'
  <2>1. UNCHANGED <<job, plan, selected, fresh, ex, rn>> /\ unit[j] = "pending"
    BY <1>4 DEF LateSubmission, store
  <2>2. Grows
    BY <1>0, <1>4 DEF LateSubmission, Grows, disk, store
  <2>3. \A k \in Jobs : unit'[k] = unit[k] \/ (k = j /\ unit'[k] \in {"starting", "none"})
    BY <1>4 DEF LateSubmission, TypeOK
  <2>4. JobsInOrder'
    BY <1>0, <2>1, <2>3 DEF JobsInOrder
  <2>5. StoppedStays'
    BY <2>1, <2>3 DEF StoppedStays, JobsInOrder
  <2> QED  BY <2>1, <2>2, <2>3, <2>4, <2>5, OthersKeep DEF Books, NotYet
<1>5. ASSUME ServiceStarts PROVE UpdateInv'
  <2>1. UNCHANGED <<job, plan, selected, fresh, unit, ex, rn>>
    BY <1>5 DEF ServiceStarts, store
  <2>2. Grows
    BY <1>0, <1>5 DEF ServiceStarts, Grows, store
  <2>3. Books'
    BY <2>1 DEF Books, JobsInOrder, StoppedStays
  <2> QED  BY <2>1, <2>2, <2>3, OthersKeep
<1>6. ASSUME ServiceStops PROVE UpdateInv'
  <2>1. UNCHANGED <<job, plan, selected, fresh, unit, ex>> /\ rn' \in {rn, NoRn}
    BY <1>6 DEF ServiceStops, store, StopService
  <2>2. Grows
    BY <1>0, <1>6 DEF ServiceStops, Grows, store, StopService
  <2>3. Books'
    BY <2>1, NoRnFacts DEF Books, JobsInOrder, StoppedStays
  <2> QED  BY <2>1, <2>2, <2>3, OthersKeep
<1>7. ASSUME ExecutorDies PROVE UpdateInv'
  <2>1. ex.pc # "idle" /\ Quit
    BY <1>7 DEF ExecutorDies, LockHolder
  <2>2. Fixed /\ UNCHANGED <<job, fresh, rn, temps, releases, current, layout, schema, txn, guard, block, service>>
    BY <1>7 DEF ExecutorDies, Fixed, disk, store
  <2>3. DiskInv'
    BY <2>2, DiskKept DEF DiskInv, PendingKnows
  <2>4. Books' /\ NewJobsAreUnused'
    BY <2>1, <2>2, ExecutorBooks, ExecutorUnused DEF Fixed
  <2> QED  BY <2>1, <2>3, <2>4, QuitHolder DEF Books
<1>8. ASSUME Reboot PROVE UpdateInv'
  <2>1. /\ UNCHANGED <<job, plan, selected, fresh>> /\ ex' = NoEx /\ rn' = NoRn
        /\ \A j \in Jobs : unit'[j] = "none" <=> unit[j] = "none"
        /\ \A j \in Jobs : unit'[j] \in {"none", "gone"}
    BY <1>8 DEF Reboot, store
  <2>2. Grows
    BY <1>0, <1>8 DEF Reboot, Grows, store
  <2>3. JobsInOrder' /\ StoppedStays'
    BY <2>1, NoRnFacts DEF JobsInOrder, StoppedStays
  <2>4. LockHolder'
    BY <2>1, NoExFacts DEF LockHolder
  <2>5. NewJobsAreUnused'
    BY <2>1, <2>2, NoExFacts DEF NewJobsAreUnused, Unused, Grows
  <2>6. HolderInv'
    BY <2>1, NoExFacts DEF HolderInv, StagingKnows, CutoverKnows, EndKnows, HolderHolds, Staging, Cutover, Cutting, Forward, RollingBack
  <2> QED  BY <2>2, <2>3, <2>4, <2>5, <2>6, OthersDisk
<1> QED  BY <1>1, <1>2, <1>3, <1>4, <1>5, <1>6, <1>7, <1>8, RecoverUpdateKeeps DEF Machine

-----------------------------------------------------------------------------
(* The theorems. *)

\* The invariant holds initially.
LEMMA InitHolds ==
    ASSUME Init
    PROVE  UpdateInv
<1>1. install.version \in Versions /\ install.version \in Nat /\ selected = 0
  BY VersionNumbers DEF Init
<1>2. TypeOK
  <2>1. 0 \in Releases /\ \A r \in DOMAIN releases : r \in Releases /\ releases[r] \in Versions
    BY <1>1 DEF Init, Releases
  <2>2. job \in [Jobs -> Items] /\ ex \in Executors /\ rn \in Controllers /\ txn \in Txns
    BY Constants DEF Init
  <2>3. unit \in [Jobs -> UnitStates] /\ plan \in [Jobs -> Plans \cup {NoPlan}] /\ faults \in 0 .. MaxFaults
    BY BoundsAssumption DEF Init, UnitStates
  <2> QED  BY <1>1, <2>1, <2>2, <2>3 DEF Init, TypeOK
<1>3. ~TxnPending /\ txn = NoTxn /\ ex = NoEx /\ rn = NoRn
  BY DEF Init, TxnPending
<1>4. JobsInOrder /\ StoppedStays
  <2>1. \A j \in Jobs : job[j].status = "none" /\ unit[j] = "none" /\ j > 0 /\ ~(j <= 0)
    <3>1. \A j \in Jobs : job[j] = NoJob /\ unit[j] = "none"
      BY DEF Init
    <3>2. NoJob.status = "none"
      BY DEF NoJob
    <3> QED  BY <3>1, <3>2, JobNumbers
  <2> QED  BY <1>1, <1>3, <2>1, NoRnFacts DEF JobsInOrder, StoppedStays
<1>5. LockHolder /\ HolderInv
  <2>1. LockHolder
    BY <1>3, NoExFacts DEF Init, LockHolder
  <2>2. HolderInv
    BY <1>3, NoExFacts DEF HolderInv, StagingKnows, CutoverKnows, EndKnows, HolderHolds, Staging, Cutover, Cutting, Forward, RollingBack
  <2> QED  BY <2>1, <2>2
<1>6. NewJobsAreUnused
  BY <1>3, JobNumbers, NoExFacts DEF Init, NewJobsAreUnused, Unused
<1>7. Bins = {0} /\ service = 0 /\ schema = install.version /\ Version(0) = install.version
  BY DEF Init, Bins, Version
<1>8. DiskInv
  <2>1. PendingKnows /\ DoneKnows
    BY <1>3, NoTxnFacts, PhaseNames DEF PendingKnows, DoneKnows
  <2>2. AliasesLead
    BY DEF Init, AliasesLead
  <2>3. ServiceHeld /\ SchemaNeverAhead
    BY <1>1, <1>3, <1>7 DEF ServiceHeld, SchemaNeverAhead
  <2> QED  BY <2>1, <2>2, <2>3 DEF DiskInv
<1> QED  BY <1>2, <1>4, <1>5, <1>6, <1>8 DEF UpdateInv

\* Every step keeps the invariant.
LEMMA StepKeeps ==
    ASSUME UpdateInv, [Next]_vars
    PROVE  UpdateInv'
<1>1. TypeOK'
  BY TypesKept
<1>2. CASE Next
  BY <1>1, <1>2, ExecutorKeeps, ControllerKeeps, MachineKeeps DEF Next, Machine
<1>3. CASE UNCHANGED vars
  <2>1. Books'
    BY <1>3 DEF vars, UpdateInv, Books, JobsInOrder, StoppedStays
  <2>2. Grows /\ ex' = ex /\ unit' = unit
    <3>1. selected \in Nat
      BY Numbers DEF UpdateInv
    <3> QED  BY <1>3, <3>1 DEF vars, Grows
  <2> QED  BY <1>1, <2>1, <2>2, OthersKeep
<1> QED  BY <1>2, <1>3

\* The inductive invariant of the self-update.
THEOREM UpdateInvariant == Spec => []UpdateInv
<1>1. Init => UpdateInv
  BY InitHolds
<1>2. UpdateInv /\ [Next]_vars => UpdateInv'
  BY StepKeeps
<1> QED  BY <1>1, <1>2, PTL DEF Spec

\* Every variable of the self-update keeps its type.
THEOREM TypeCorrect == Spec => []TypeOK
<1>1. UpdateInv => TypeOK
  BY DEF UpdateInv
<1> QED  BY <1>1, UpdateInvariant, PTL

\* For any jobs, installations, catalogs and faults: what the next start would run is never older
\* than the schema, and under systemd neither is what runs.
THEOREM MigratedIsNeverServedOld == Spec => []SchemaNeverAhead
<1>1. UpdateInv => SchemaNeverAhead
  BY DEF UpdateInv, DiskInv
<1> QED  BY <1>1, UpdateInvariant, PTL

\* For any of them too: what `dash update recover` needs is on disk while a transaction is pending,
\* and the aliases lead to a release that exists.
THEOREM RecoveryIsPossible == Spec => []RecoveryPossible
<1>1. UpdateInv => RecoveryPossible
  BY DEF UpdateInv, DiskInv, AliasesLead, PendingKnows, RecoveryPossible
<1> QED  BY <1>1, UpdateInvariant, PTL

\* What a write to the status of a job may say.
True(j) == \E b \in Bins : Version(b) = plan[j].target /\ (txn.job = j => schema = plan[j].target)
Honest(j) ==
    /\ job'[j].status = "completed" => True(j)
    /\ rn' # rn /\ rn.pc = "settle" /\ job[j].status # "failed" /\ job'[j].status = "failed" => ~UnitBusy(j)
    /\ Terminal(job[j].status) => job'[j].status = "gone" \/ (ex.job = j /\ ex' # ex)

\* What is installed is what the job was for.
LEMMA InstalledIsTrue ==
    ASSUME NEW j \in Jobs, Installed(j)
    PROVE  True(j)
<1>1. j # 0
  BY JobNumbers
<1> QED  BY <1>1 DEF Installed, True, Bins, Version

\* A report of a phase completes nothing.
LEMMA ReportIsHonest ==
    ASSUME UpdateInv, ex.pc # "idle", ex'.pc # ex.pc, rn' = rn, NEW p \in Phases,
           job' = job \/ Report(At(ex.item, p)) \/ (ex.kind # "recover" /\ job' = [job EXCEPT ![ex.job] = At(ex.item, p)]),
           NEW j \in Jobs, job'[j].status # job[j].status
    PROVE  Honest(j)
<1> USE DEF UpdateInv
<1>1. ex.kind # "recover" /\ job' = [job EXCEPT ![ex.job] = At(ex.item, p)]
  BY DEF Report
<1>2. At(ex.item, p).status = "running" /\ ex.job \in Jobs
  BY <1>1, Running, ExTypes, ItemFacts DEF LockHolder
<1>3. ex.job = j /\ job'[j].status = "running"
  BY <1>1, <1>2 DEF TypeOK
<1> QED  BY <1>3 DEF Honest

\* A process that goes on is at the point it was sent to.
LEMMA PointOf ==
    /\ \A pc, item, t, cause : Continue(Ex(pc, item, t, cause)) => ex'.pc = pc
    /\ \A pc : Continue(Goto(pc)) => ex'.pc = pc
    /\ Quit => ex'.pc = "idle"
<1>1. ASSUME NEW pc, NEW item, NEW t, NEW cause PROVE Ex(pc, item, t, cause).pc = pc
  BY DEF Ex
<1>2. ASSUME NEW pc, NEW item, NEW t, NEW cause, Continue(Ex(pc, item, t, cause)) PROVE ex'.pc = pc
  <2>1. ex' = Ex(pc, item, t, cause)
    BY <1>2 DEF Continue
  <2> QED  BY <1>1, <2>1
<1>3. ASSUME NEW pc, Continue(Goto(pc)) PROVE ex'.pc = pc
  BY <1>2, <1>3 DEF Goto
<1>4. Quit => ex'.pc = "idle"
  BY NoExFacts DEF Quit
<1> QED  BY <1>2, <1>3, <1>4

\* Every step of an executor is honest.
LEMMA ExecutorIsHonest ==
    ASSUME UpdateInv, TypeOK', Executor, NEW j \in Jobs, job'[j].status # job[j].status
    PROVE  Honest(j)
<1> USE DEF UpdateInv
<1>1. CASE BeginUpdate
  <2>1. ex.pc = "begin" /\ rn' = rn /\ ex'.pc \in {"finish", "download"}
    BY <1>1, PointOf DEF BeginUpdate
  <2>2. Locked \in Phases /\ ex.kind # "recover" /\ job' \in {job, [job EXCEPT ![ex.job] = At(ex.item, Locked)]}
    BY <1>1, <2>1, PhaseNames DEF BeginUpdate, LockHolder
  <2> QED  BY <2>1, <2>2, ReportIsHonest
<1>2. CASE FetchRelease
  <2>1. ex.pc = "download" /\ rn' = rn /\ ex'.pc \in {"finish", "validate"} /\ Report(At(ex.item, Download)) /\ Download \in Phases
    BY <1>2, PhaseNames, PointOf DEF FetchRelease
  <2> QED  BY <2>1, ReportIsHonest
<1>3. CASE StageRelease
  <2>1. ex.pc = "validate" /\ rn' = rn /\ ex'.pc \in {"finish", "record"} /\ Report(At(ex.item, Validate)) /\ Validate \in Phases
    BY <1>3, PhaseNames, PointOf DEF StageRelease
  <2> QED  BY <2>1, ReportIsHonest
<1>4. CASE WriteBlock
  <2>1. ex.pc = "block" /\ rn' = rn /\ (job' = job \/ Report(At(ex.item, Prepared))) /\ Prepared \in Phases
    BY <1>4, PhaseNames DEF WriteBlock
  <2>2. job' # job => ex'.pc \in {"stop", "stopping"}
    BY <1>4, PointOf DEF WriteBlock
  <2> QED  BY <2>1, <2>2, ReportIsHonest
<1>5. ASSUME NEW pc, NEW p \in Phases, NEW next, ReachPhase(pc, p, next),
             <<pc, next>> \in {<<"stopping", "stop">>, <<"switching", "activate">>, <<"starting", "unblock">>, <<"cleanup", "done">>}
      PROVE  Honest(j)
  <2>1. ex.pc = pc /\ pc # next /\ pc # "idle" /\ rn' = rn /\ (job' = job \/ Report(At(ex.item, p)))
    BY <1>5 DEF ReachPhase
  <2>2. job' # job => ex'.pc = next
    BY <1>5, PointOf DEF ReachPhase
  <2> QED  BY <2>1, <2>2, ReportIsHonest
<1>6. CASE CrossBoundary
  <2>1. ex.pc = "boundary" /\ rn' = rn /\ (job' = job \/ Report(At(ex.item, Migrating))) /\ Migrating \in Phases
    BY <1>6, PhaseNames DEF CrossBoundary
  <2>2. job' # job => ex'.pc = "migrate"
    BY <1>6, PointOf DEF CrossBoundary
  <2> QED  BY <2>1, <2>2, ReportIsHonest
<1>7. CASE FinishJob
  <2>1. ex.pc = "finish" /\ ex.kind # "recover" /\ ex.job \in Jobs /\ rn' = rn
    BY <1>7, Running DEF FinishJob, LockHolder
  <2>2. ex'.pc \in {"remove", "idle"}
    BY <1>7, PointOf DEF FinishJob
  <2>3. ex.job = j
    BY <1>7 DEF FinishJob, TypeOK
  <2>4. job'[j].status = "completed" => ex.cause = ""
    <3> SUFFICES ASSUME ex.cause # "" PROVE job'[j].status # "completed"
      OBVIOUS
    <3> DEFINE lost == [status |-> "failed", phase |-> ex.item.phase, code |-> FailureCode(ex.item, ex.cause),
                        rec |-> ex.item.rec, pid |-> ex.item.pid]
    <3>1. lost.status = "failed" /\ job' \in {job, [job EXCEPT ![ex.job] = lost]}
      BY <1>7 DEF FinishJob
    <3> HIDE DEF lost
    <3> QED  BY <2>1, <2>3, <3>1 DEF TypeOK
  <2>5. ex.cause = "" => Installed(ex.job) \/ (txn = NoTxn /\ \E b \in Bins : Version(b) = plan[ex.job].target)
    BY <2>1 DEF HolderInv, EndKnows
  <2>6. ex.cause = "" => True(j)
    <3>1. txn = NoTxn => txn.job # j
      BY NoTxnFacts, JobNumbers
    <3> QED  BY <2>3, <2>5, <3>1, InstalledIsTrue DEF True
  <2> QED  BY <2>1, <2>2, <2>3, <2>4, <2>6 DEF Honest
<1>8. CASE RecordRecoveryResult
  <2>1. ex.pc = "result" /\ ex.job \in Jobs /\ rn' = rn
    BY <1>8, Running DEF RecordRecoveryResult
  <2>2. ex'.pc \in {"remove", "idle"}
    BY <1>8, PointOf DEF RecordRecoveryResult
  <2>3. ex.job = j /\ job'[j] = StatusFromDoneTransaction(job[j], ex.t)
    BY <1>8, <2>1 DEF RecordRecoveryResult, TypeOK
  <2>4. job'[j].status = "completed" => ex.t.mig
    <3>1. CASE ~ex.t.mig
      BY <2>3, <3>1 DEF StatusFromDoneTransaction
    <3> QED  BY <3>1
  <2>5. ex.t.mig => Installed(ex.job)
    BY <2>1 DEF HolderInv, EndKnows
  <2>6. ex.t.mig => True(j)
    BY <2>3, <2>5, InstalledIsTrue
  <2> QED  BY <2>1, <2>2, <2>3, <2>4, <2>6 DEF Honest
<1>9. job' # job
  OBVIOUS
<1>10. Stopping \in Phases /\ Switching \in Phases /\ Starting \in Phases /\ Cleanup \in Phases
  BY PhaseNames
<1>11. \/ BeginUpdate \/ FetchRelease \/ StageRelease \/ WriteBlock \/ CrossBoundary \/ FinishJob \/ RecordRecoveryResult
       \/ ReachPhase("stopping", Stopping, "stop") \/ ReachPhase("switching", Switching, "activate")
       \/ ReachPhase("starting", Starting, "unblock") \/ ReachPhase("cleanup", Cleanup, "done")
  <2>1. /\ RecordTransaction => job' = job
        /\ InstallGuard => job' = job
        /\ StopDash => job' = job
        /\ ActivateRelease => job' = job
        /\ InstallAliases => job' = job
        /\ RunCandidateMigration => job' = job
        /\ \A pc, next : RemoveBlock(pc, next) => job' = job
        /\ \A pc, next : StartDash(pc, next) => job' = job
    BY DEF RecordTransaction, InstallGuard, StopDash, ActivateRelease, InstallAliases, RunCandidateMigration, RemoveBlock, StartDash, store
  <2>2. /\ \A pc, next : MarkDone(pc, next) => job' = job
        /\ WrapUp => job' = job
        /\ RestorePrevious => job' = job
        /\ CopyBackup => job' = job
        /\ RemoveCandidate => job' = job
        /\ HoldDash => job' = job
        /\ RemoveTransaction => job' = job
    BY DEF MarkDone, WrapUp, RestorePrevious, CopyBackup, RemoveCandidate, HoldDash, RemoveTransaction, store
  <2> QED  BY <1>9, <2>1, <2>2 DEF Executor
<1>12. ReachPhase("stopping", Stopping, "stop") => Honest(j)
  BY <1>5, <1>10
<1>13. ReachPhase("switching", Switching, "activate") => Honest(j)
  BY <1>5, <1>10
<1>14. ReachPhase("starting", Starting, "unblock") => Honest(j)
  BY <1>5, <1>10
<1>15. ReachPhase("cleanup", Cleanup, "done") => Honest(j)
  BY <1>5, <1>10
<1> QED  BY <1>1, <1>2, <1>3, <1>4, <1>6, <1>7, <1>8, <1>11, <1>12, <1>13, <1>14, <1>15

\* So is every other step.
LEMMA OthersAreHonest ==
    ASSUME UpdateInv, TypeOK', Controller \/ Machine, NEW j \in Jobs, job'[j].status # job[j].status
    PROVE  Honest(j)
<1> USE DEF UpdateInv
<1>0. job' # job /\ job[j] \in Items
  BY DEF TypeOK
<1>1. ASSUME DoneForSelected, Terminal(Reconciled(job[selected]).status), ~Terminal(job[selected].status), selected = j
      PROVE  Reconciled(job[j]).status = "completed" => True(j)
  <2>1. Reconciled(job[j]).status = "completed" => txn.mig
    BY <1>1 DEF Reconciled, StatusFromDoneTransaction, Terminal
  <2>2. txn.mig => Installed(txn.job)
    BY <1>1 DEF DoneForSelected, DiskInv, DoneKnows
  <2>3. txn.job = j
    BY <1>1 DEF DoneForSelected
  <2> QED  BY <2>1, <2>2, <2>3, InstalledIsTrue
<1>2. CASE ReadStatus
  <2>1. rn.pc = "status" /\ DoneForSelected /\ selected = j /\ job'[j] = Reconciled(job[j])
    BY <1>0, <1>2 DEF ReadStatus, TypeOK
  <2>2. job[j].status = "running" /\ Reconciled(job[j]).status \in {"completed", "failed"}
    BY <2>1 DEF Reconciled, StatusFromDoneTransaction
  <2> QED  BY <1>1, <2>1, <2>2 DEF Honest, Terminal
<1>3. CASE SettleStopped
  <2>1. rn.pc = "settle" /\ selected = rn.job /\ selected = j
    BY <1>0, <1>3 DEF SettleStopped, TypeOK
  <2>2. job'[j] = Settled(IF DoneForSelected THEN Reconciled(job[j]) ELSE job[j])
    BY <1>0, <1>3, <2>1 DEF SettleStopped, TypeOK
  <2>3. ~UnitBusy(j)
    BY <2>1 DEF StoppedStays, UnitBusy
  <2>4. Reconciled(job[j]).status # "running"
    BY DEF Reconciled, StatusFromDoneTransaction
  <2>5. job[j].status = "running"
    BY <2>2 DEF Settled, Reconciled
  <2>6. job'[j].status = "completed" => DoneForSelected /\ job'[j] = Reconciled(job[j])
    BY <2>2, <2>4, <2>5 DEF Settled, StaleStatus
  <2>7. job'[j].status = "completed" => True(j)
    BY <1>1, <2>1, <2>5, <2>6 DEF Terminal
  <2> QED  BY <2>3, <2>5, <2>7 DEF Honest, Terminal
<1>4. CASE CreateJob
  <2>1. rn.pc = "create" /\ NextJob = selected + 1 /\ selected + 1 \in Jobs /\ selected \in Nat
    BY <1>4, NextJobIs, Numbers DEF CreateJob
  <2>2. job[selected + 1].status = "none"
    BY <2>1 DEF JobsInOrder
  <2>3. job' \in {[job EXCEPT ![selected + 1] = OpenItem], [job EXCEPT ![selected + 1] = StatusForRequest],
                  [job EXCEPT ![selected + 1] = FailQueuedJob]}
    BY <1>0, <1>4, <2>1 DEF CreateJob
  <2>4. j = selected + 1 /\ job'[j].status \in {"running", "failed"}
    BY <1>0, <2>1, <2>3, Constants DEF TypeOK
  <2> QED  BY <2>1, <2>2, <2>4 DEF Honest, Terminal
<1>5. CASE VerifyUnit
  <2>1. rn.pc = "verify" /\ ~Terminal(job[j].status) /\ job'[j].status = "failed"
    BY <1>0, <1>5 DEF VerifyUnit, TypeOK, SubmissionFailed
  <2> QED  BY <2>1 DEF Honest
<1>6. CASE NotifyFinished
  <2>1. [NoJob EXCEPT !.status = "gone"].status = "gone"
    BY Constants DEF Items
  <2>2. job'[j].status = "gone"
    BY <1>6, <2>1 DEF NotifyFinished
  <2> QED  BY <2>2 DEF Honest
<1>7. ASSUME NEW k \in Jobs, OpenReporter(k) PROVE Honest(j)
  <2>1. job[j].status = "running" /\ job'[j].status = "running"
    BY <1>0, <1>7, Constants DEF OpenReporter, TypeOK
  <2> QED  BY <2>1 DEF Honest, Terminal
<1>8. /\ \A r \in Requests : BeginStart(r) => job' = job
      /\ BeginStatus \/ InspectUnit \/ SubmitUnit => job' = job
      /\ RecoverUpdate \/ ServiceStarts \/ ServiceStops \/ ExecutorDies \/ Reboot => job' = job
      /\ \A k \in Jobs : AcquireUpdateLock(k) \/ GraceEnds(k) \/ LateSubmission(k) => job' = job
  BY DEF BeginStart, BeginStatus, InspectUnit, SubmitUnit, RecoverUpdate, ServiceStarts, ServiceStops, ExecutorDies, Reboot,
         AcquireUpdateLock, GraceEnds, LateSubmission, store
<1> QED  BY <1>0, <1>2, <1>3, <1>4, <1>5, <1>6, <1>7, <1>8 DEF Controller, Machine

\* Hence every step of the specification.
LEMMA StepIsHonest ==
    ASSUME UpdateInv, [Next]_vars, NEW j \in Jobs, job'[j].status # job[j].status
    PROVE  Honest(j)
<1>1. TypeOK'
  BY TypesKept
<1>2. Next
  BY DEF vars
<1> QED  BY <1>1, <1>2, ExecutorIsHonest, OthersAreHonest DEF Next, Machine

\* For any jobs, installations, catalogs and faults: whoever says completed, the executor, a recovery or
\* a reconciliation, says it of a job whose target is installed and, if it has a transaction, migrated to.
THEOREM CompletedIsInstalled == Spec => CompletionIsTrue
<1>1. UpdateInv /\ [Next]_vars =>
        [\A j \in Jobs :
           job[j].status # "completed" /\ job'[j].status = "completed" =>
             \E b \in Bins : Version(b) = plan[j].target /\ (txn.job = j => schema = plan[j].target)]_vars
  <2> SUFFICES ASSUME UpdateInv, [Next]_vars, NEW j \in Jobs, job[j].status # "completed", job'[j].status = "completed"
               PROVE  \E b \in Bins : Version(b) = plan[j].target /\ (txn.job = j => schema = plan[j].target)
    OBVIOUS
  <2> QED  BY StepIsHonest DEF Honest, True
<1> QED  BY <1>1, UpdateInvariant, PTL DEF Spec, CompletionIsTrue

\* For any of them: a reconciliation fails no job whose updater is alive, and an outcome once
\* written is changed only by its updater, by a recovery or by removal.
THEOREM OutcomesStay == Spec => OutcomeStays
<1>1. UpdateInv /\ [Next]_vars =>
        [\A j \in Jobs :
           /\ rn' # rn /\ rn.pc = "settle" /\ job[j].status # "failed" /\ job'[j].status = "failed" => ~UnitBusy(j)
           /\ Terminal(job[j].status) /\ job'[j].status # job[j].status =>
                job'[j].status = "gone" \/ (ex.job = j /\ ex' # ex)]_vars
  <2> SUFFICES ASSUME UpdateInv, [Next]_vars, NEW j \in Jobs, job'[j].status # job[j].status
               PROVE  /\ rn' # rn /\ rn.pc = "settle" /\ job[j].status # "failed" /\ job'[j].status = "failed" => ~UnitBusy(j)
                      /\ Terminal(job[j].status) => job'[j].status = "gone" \/ (ex.job = j /\ ex' # ex)
    OBVIOUS
  <2> QED  BY StepIsHonest DEF Honest
<1> QED  BY <1>1, UpdateInvariant, PTL DEF Spec, OutcomeStays
=============================================================================
