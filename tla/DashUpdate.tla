----------------------------- MODULE DashUpdate -----------------------------
(***************************************************************************)
(* The self-update of Dash, internal/dashupdate.  A controller inside the  *)
(* running Dash (Runner) plans an update, records it as a job and asks     *)
(* systemd for a transient unit; the unit, or the command line, runs the   *)
(* executor, which under one lock stages the release and then cuts over    *)
(* with a transaction file.  `dash update recover` resumes or rolls back.  *)
(*                                                                         *)
(* A step of the executor is one durable write or one external command:    *)
(* it may fail before or after taking effect, and the process may die, or  *)
(* the machine may reboot, between any two steps.  A reconciliation's      *)
(* reads and the write that follows them are one step; its step boundary   *)
(* is the systemctl call between them.                                     *)
(*                                                                         *)
(* A version is its rank in the order of versions, odd for a prerelease.   *)
(* A release directory is named by the job that prepared it; release 0 is  *)
(* what the machine started with.                                          *)
(***************************************************************************)
EXTENDS Integers, FiniteSets, Sequences

CONSTANTS
    Jobs,          \* job ids, 1..n, in the order in which they are created
    Installs,      \* the installations to start from
    Requests,      \* the requests users and the automatic check make
    Catalog,       \* the published releases, newest first as listed
    Archives,      \* the archives a download may return
    Observations,  \* what systemctl may report while a start is watched
    MaxFaults,     \* bound on failed steps, crashes, reboots and jobs after the first
    MaxBytes, MaxEntries, MaxExtract,   \* limits on an archive
    StablePolls,   \* polls for which a started service must keep running
    InspectFails,  \* whether asking systemd about a unit may fail
    ManualCLI      \* whether `dash update` is also run by hand

ASSUME JobsAssumption == IsFiniteSet(Jobs) /\ Jobs = 1 .. Cardinality(Jobs)
ASSUME BoundsAssumption ==
    /\ MaxFaults \in Nat /\ MaxBytes \in Nat /\ MaxEntries \in Nat /\ MaxExtract \in Nat
    /\ StablePolls \in Nat \ {0}
    /\ InspectFails \in BOOLEAN /\ ManualCLI \in BOOLEAN
ASSUME RequestsAssumption == \A r \in Requests : r.by \in {"service", "cli"}
ASSUME VersionsAssumption ==
    /\ \A i \in Installs : i.version \in Nat
    /\ \A k \in DOMAIN Catalog : Catalog[k].version \in Nat

VARIABLES
    \* the installation on disk, and what runs
    install,    \* how Dash was installed: [version, legacy, systemd, runner]
    current,    \* target of DASH_HOME/current: a release, or NoRelease
    layout,     \* DASH_HOME/bin and the other managed paths: "flat", "mixed", "aliases"
    releases,   \* release directories: a function from release to version
    temps,      \* staging directories, named by their job
    guard,      \* the service drop-in that makes update.block a start condition
    block,      \* update.block exists
    txn,        \* transaction.env, or NoTxn
    schema,     \* the version whose migrations the database has
    service,    \* the release whose binary runs as the server, or Down
    \* the job store
    job,        \* status.env of each job
    plan,       \* request.env of each job
    selected,   \* the job the `current` symlink names, 0 before the first
    fresh,      \* jobs started less than updateStartGrace ago
    handled,    \* automatic jobs with a finish marker
    notified,   \* finish notifications handed to the outbox, by job
    \* the processes
    unit,       \* the transient unit or manual process of each job
    ex,         \* the process that holds the update lock
    rn,         \* a status reconciliation, and the start or the notification it leads to
    faults

vars == <<install, current, layout, releases, temps, guard, block, txn, schema, service,
          job, plan, selected, fresh, handled, notified, unit, ex, rn, faults>>
disk == <<install, current, layout, releases, temps, guard, block, txn, schema, service>>
store == <<job, plan, selected, fresh, handled, notified>>

NoRelease == -1
Down == -1
Releases == Jobs \cup {0}
Versions == {c.version : c \in {Catalog[i] : i \in DOMAIN Catalog}} \cup {i.version : i \in Installs}

-----------------------------------------------------------------------------
(* Versions, channels and releases. *)

ChannelFor(v) == IF v % 2 = 1 THEN "prerelease" ELSE "release"
VersionStatus(cur, latest) ==
    IF cur < latest THEN "available"
    ELSE IF cur > latest THEN "ahead" ELSE "current"

ReleaseAssetFor(c) == ~c.draft /\ c.asset
ReleaseInChannel(c, channel) ==
    ~c.draft /\ ChannelFor(c.version) = channel /\ c.pre = (channel = "prerelease")

\* The newest usable release of a channel; 0 when there is none.
Latest(channel) ==
    LET usable == {i \in DOMAIN Catalog : ReleaseAssetFor(Catalog[i]) /\ ReleaseInChannel(Catalog[i], channel)}
    IN  IF usable = {} THEN 0
        ELSE CHOOSE v \in {Catalog[i].version : i \in usable} :
               \A i \in usable : v >= Catalog[i].version

\* The first listed release with this tag decides, whether it is usable or not.
Find(version) ==
    LET tagged == {i \in DOMAIN Catalog : ~Catalog[i].draft /\ Catalog[i].version = version}
        first == Catalog[CHOOSE i \in tagged : \A k \in tagged : i <= k]
    IN  tagged # {} /\ first.pre = (ChannelFor(version) = "prerelease") /\ ReleaseAssetFor(first)

\* What downloadRelease, extractRelease and validateReleasePackage accept.
DownloadRelease(a) == a.bytes <= MaxBytes /\ (a.declared > 0 => a.bytes = a.declared)

TotalSize(a, n) == LET sum[k \in 0 .. n] == IF k = 0 THEN 0 ELSE sum[k - 1] + a.entries[k].size IN sum[n]
ExtractRelease(a) ==
    LET E == a.entries IN
    /\ Len(E) <= MaxEntries
    /\ \A i \in DOMAIN E :
         /\ E[i].safe /\ E[i].root /\ E[i].kind \in {"file", "dir"}
         /\ \A k \in 1 .. (i - 1) : E[k].name # E[i].name
         /\ E[i].kind = "file" => TotalSize(a, i) <= MaxExtract
    /\ \E i \in DOMAIN E : E[i].root

ReadReleaseManifest(m) == m.format = 1 /\ m.complete /\ ~m.unknown /\ m.os = "linux" /\ m.arch \in {"amd64", "arm64"}
ValidateReleasePackage(a, target) ==
    /\ ReadReleaseManifest(a.manifest)
    /\ a.manifest.dash = target
    /\ a.manifest.arch = "amd64"
    /\ a.tree /\ a.nodeSums
    /\ a.binary = a.manifest.dash /\ a.binaryNode = a.manifest.node

-----------------------------------------------------------------------------
(* Plans, jobs and transactions. *)

Queued == 0
Locked == 1
Download == 2
Validate == 3
Prepared == 4
Stopping == 5
Switching == 6
Migrating == 7
Starting == 8
Cleanup == 9
Done == 10
Phases == Queued .. Done

Plans == [action: {"update", "reinstall"}, target: Versions, version: Versions,
          revision: Releases, origin: {"manual", "auto"}, manager: {"auto", "systemd", "none"}]
NoPlan == [action |-> "none"]

NoJob == [status |-> "none", phase |-> Queued, code |-> "", rec |-> FALSE, pid |-> FALSE]
StatusForRequest == [status |-> "running", phase |-> Queued, code |-> "", rec |-> FALSE, pid |-> FALSE]
Terminal(s) == s \in {"completed", "failed"}

NoTxn == [job |-> 0, phase |-> Queued, prev |-> NoRelease, legacy |-> FALSE, manager |-> "none",
          active |-> FALSE, mig |-> FALSE]
TxnPending == txn # NoTxn /\ txn.phase # Done

\* The binary behind DASH_HOME/bin/dash; none while the flat layout is being replaced.
Bins == CASE layout = "flat" -> {0}
          [] layout = "aliases" -> {current}
          [] OTHER -> {}
Version(r) == IF r = 0 THEN install.version ELSE releases[r]

DetectServiceManager(requested) ==
    CASE requested = "auto" -> IF install.systemd THEN "systemd" ELSE IF install.runner THEN "none" ELSE ""
      [] requested = "systemd" -> IF install.systemd THEN "systemd" ELSE ""
      [] requested = "none" -> IF install.runner THEN "none" ELSE ""
      [] OTHER -> ""

\* Plan.validate: the target is of the plan's channel and the parts are well formed.
PlanValid(p, channel) == p \in Plans /\ ChannelFor(p.target) = channel

\* resolvePlan on the facts of a fresh check; NoPlan when the request is refused.
ResolvePlan(r) ==
    LET target == Latest(r.channel)
        p == [action |-> r.action, target |-> target, version |-> Version(CHOOSE b \in Bins : TRUE),
              revision |-> CHOOSE b \in Bins : TRUE, origin |-> r.origin, manager |-> r.manager]
    IN  IF \/ target = 0 \/ Bins = {} \/ ~PlanValid(p, r.channel)
           \/ r.action = "update" /\ p.target <= p.version
           \/ r.action = "reinstall" /\ p.target < p.version
        THEN NoPlan ELSE p

\* updateNeeded: "conflict", "no" or "yes", for what is installed now.
UpdateNeeded(p, bin) ==
    CASE Version(bin) # p.version \/ bin # p.revision -> "conflict"
      [] p.target < Version(bin) -> "conflict"
      [] p.action = "update" /\ p.target = Version(bin) -> "no"
      [] OTHER -> "yes"

\* waitDashStable: activating for a while, then running for StablePolls polls,
\* with one restart count throughout.
WaitDashStable(obs) ==
    \E a \in 0 .. Len(obs) :
      /\ a + StablePolls <= Len(obs)
      /\ \A i \in 1 .. a : obs[i].state = "activating"
      /\ \A i \in (a + 1) .. (a + StablePolls) : obs[i].state = "running"
      /\ \A i \in 1 .. (a + StablePolls) : obs[i].restarts = obs[1].restarts

\* systemdUnitStatus: whether systemd, or /proc for a manual job, still shows the executor.
UnitBusy(j) == unit[j] \in {"starting", "opened", "locked"}

\* Fault: a finished transaction counts as a finished update.
DoneMeansCompleted(item, t) == [status |-> "completed", phase |-> Done, code |-> "", rec |-> FALSE, pid |-> FALSE]
\* The terminal status a finished transaction stands for.
StatusFromDoneTransaction(item, t) ==
    IF t.mig THEN [status |-> "completed", phase |-> Done, code |-> "", rec |-> FALSE, pid |-> FALSE]
    ELSE [status |-> "failed", phase |-> item.phase, code |-> "rolled_back", rec |-> FALSE, pid |-> FALSE]

RecoveryStatePending == TxnPending \/ block

-----------------------------------------------------------------------------
(* Processes.  A step succeeds, fails without effect, or fails after its   *)
(* effect (the rename is done and the directory sync reports an error).    *)

Points == {"idle", "begin", "download", "validate", "record", "guard", "block", "stopping", "stop", "switching",
           "activate", "alias", "boundary", "migrate", "starting", "unblock", "start", "cleanup", "done", "wrap",
           "restore", "copy", "rb_unblock", "rb_start", "rb_done", "rb_clean", "hold", "finish", "remove", "result"}
NoEx == [kind |-> "none", pc |-> "idle", job |-> 0, item |-> NoJob, t |-> NoTxn, cause |-> ""]
NoRn == [by |-> "none", pc |-> "idle", job |-> 0, next |-> "none", plan |-> NoPlan]
OpenItem == [StatusForRequest EXCEPT !.pid = TRUE]

Outcomes == IF faults < MaxFaults THEN {"ok", "fail", "late"} ELSE {"ok"}
Spend(o) == faults' = IF o = "ok" THEN faults ELSE faults + 1
Took(o) == o # "fail"

Ex(pc, item, t, cause) ==
    [kind |-> ex.kind, pc |-> pc, job |-> ex.job, item |-> item, t |-> t, cause |-> cause]
Goto(pc) == Ex(pc, ex.item, ex.t, ex.cause)
Quit == ex' = NoEx /\ unit' = IF ex.kind = "recover" THEN unit ELSE [unit EXCEPT ![ex.job] = "gone"]
Continue(e) == ex' = e /\ UNCHANGED unit

\* reports of the executor go to its job; a recovery has no job reporter
Report(item) == job' = IF ex.kind = "recover" THEN job ELSE [job EXCEPT ![ex.job] = item]
At(item, p) == [item EXCEPT !.phase = p]

\* an error before migration rolls back, during a recovery it ends the command
SwitchError(t) == IF ex.kind = "recover" THEN Quit ELSE Continue(Ex("restore", ex.item, t, "failed"))
\* Fault: a failure after the boundary rolls back like one before it.
ForwardErrorRollsBack(t) == IF ex.kind = "recover" THEN Quit ELSE Continue(Ex("restore", ex.item, t, "failed"))
\* an error after the boundary leaves the transaction to `dash update recover`
ForwardError(t) ==
    IF ex.kind = "recover" THEN Quit
    ELSE Continue(Ex("finish", [ex.item EXCEPT !.rec = TRUE], t, "failed"))
RollbackError == IF ex.kind = "recover" THEN Quit ELSE Continue(Goto("finish"))

\* stopping the server ends a reconciliation or a start it was running
StopService == service' = Down /\ rn' = IF rn.by = "service" THEN NoRn ELSE rn

-----------------------------------------------------------------------------
(* The executor up to the transaction: applyUpdateLocked and stageUpdate. *)

Fail(cause) == Continue(Ex("finish", ex.item, ex.t, cause))

BeginUpdate ==
    /\ ex.pc = "begin"
    /\ \E o \in Outcomes :
         LET item == At(ex.item, Locked)
             stop(cause) == Continue(Ex("finish", item, NoTxn, cause)) /\ UNCHANGED temps
         IN  /\ Spend(o)
             /\ job' = IF Took(o) THEN [job EXCEPT ![ex.job] = item] ELSE job
             /\ IF o # "ok" THEN stop("failed")
                ELSE IF txn # NoTxn \/ block THEN stop("recovery")
                ELSE IF Bins = {} THEN stop("failed")
                ELSE LET bin == CHOOSE b \in Bins : TRUE
                         need == UpdateNeeded(plan[ex.job], bin)
                     IN  IF need = "conflict" THEN stop("conflict")
                         ELSE IF need = "no" THEN stop("")
                         ELSE IF DetectServiceManager(plan[ex.job].manager) = "" \/ ~Find(plan[ex.job].target)
                              THEN stop("failed")
                         ELSE /\ temps' = temps \cup {ex.job}
                              /\ Continue(Ex("download", item, NoTxn, ""))
    /\ UNCHANGED <<install, current, layout, releases, guard, block, txn, schema, service,
                   plan, selected, fresh, handled, notified, rn>>

FetchRelease ==
    /\ ex.pc = "download"
    /\ LET item == At(ex.item, Download) IN
       /\ Report(item)
       /\ \E a \in Archives :
            IF DownloadRelease(a)
            THEN Continue(Ex("validate", item, NoTxn, "")) /\ UNCHANGED temps
            ELSE Continue(Ex("finish", item, NoTxn, "failed")) /\ temps' = temps \ {ex.job}
    /\ UNCHANGED <<install, current, layout, releases, guard, block, txn, schema, service,
                   plan, selected, fresh, handled, notified, rn, faults>>

StageRelease ==
    /\ ex.pc = "validate"
    /\ \E a \in {b \in Archives : DownloadRelease(b)}, o \in Outcomes :
         LET item == At(ex.item, Validate)
             target == plan[ex.job].target
         IN  /\ Spend(o)
             /\ Report(item)
             /\ IF o = "ok" /\ ExtractRelease(a) /\ ValidateReleasePackage(a, target)
                THEN /\ releases' = [r \in DOMAIN releases \cup {ex.job} |->
                                      IF r = ex.job THEN target ELSE releases[r]]
                     /\ Continue(Ex("record", item, NoTxn, "")) /\ UNCHANGED temps
                ELSE /\ Continue(Ex("finish", item, NoTxn, "failed"))
                     /\ temps' = temps \ {ex.job} /\ UNCHANGED releases
    /\ UNCHANGED <<install, current, layout, guard, block, txn, schema, service,
                   plan, selected, fresh, handled, notified, rn>>

\* Fault: the staged release is kept only when the write reports success.
RetainStagedOnSuccess(o) == o = "ok"
\* A transaction that may be on disk keeps what recovery needs.
RetainStaged(o) == Took(o)

\* The transaction file; before it exists nothing has to be undone.
RecordTransaction ==
    /\ ex.pc = "record"
    /\ \E o \in Outcomes :
         LET manager == DetectServiceManager(plan[ex.job].manager)
             t == [job |-> ex.job, phase |-> Prepared, prev |-> current, legacy |-> layout = "flat",
                   manager |-> manager, active |-> manager = "systemd" /\ service # Down, mig |-> FALSE]
         IN  /\ Spend(o)
             /\ txn' = IF Took(o) THEN t ELSE txn
             /\ CASE o = "ok" -> Continue(Ex("guard", ex.item, t, ""))
                  [] o = "late" -> Continue(Ex("finish", [ex.item EXCEPT !.rec = TRUE], t, "failed"))
                  [] o = "fail" -> Fail("failed")
             /\ IF RetainStaged(o) THEN UNCHANGED <<releases, temps>>
                ELSE /\ releases' = [r \in DOMAIN releases \ {ex.job} |-> releases[r]]
                     /\ temps' = temps \ {ex.job}
    /\ UNCHANGED <<install, current, layout, guard, block, schema, service, store, rn>>
-----------------------------------------------------------------------------
(* The cutover: switchRelease, finishForward and recoverUpdateLocked.      *)

SaveTxn(o, t) == txn' = IF Took(o) THEN t ELSE txn

\* ensureServiceRecoveryGuard: a failed daemon-reload leaves the drop-in without effect.
InstallGuard ==
    /\ ex.pc = "guard"
    /\ \E o \in IF ex.t.manager = "systemd" THEN Outcomes ELSE {"ok"} :
         /\ Spend(o)
         /\ guard' = (guard \/ (ex.t.manager = "systemd" /\ o = "ok"))
         /\ IF o = "ok" THEN Continue(Goto("block")) ELSE SwitchError(ex.t)
    /\ UNCHANGED <<install, current, layout, releases, temps, block, txn, schema, service, store, rn>>

WriteBlock ==
    /\ ex.pc = "block"
    /\ \E o \in Outcomes :
         LET item == At(ex.item, Prepared) IN
         /\ Spend(o)
         /\ block' = (block \/ Took(o))
         /\ IF o = "ok"
            THEN /\ Report(item)
                 /\ Continue(Ex(IF ex.kind = "recover" THEN "stop" ELSE "stopping", item, ex.t, ""))
            ELSE SwitchError(ex.t) /\ UNCHANGED job
    /\ UNCHANGED <<install, current, layout, releases, temps, guard, txn, schema, service,
                   plan, selected, fresh, handled, notified, rn>>

\* reachPhase: the transaction first, then the job's status; a phase already
\* passed is skipped when a recovery runs the forward steps again.
ReachPhase(pc, p, next) ==
    /\ ex.pc = pc
    /\ IF p < ex.t.phase THEN Continue(Goto(next)) /\ UNCHANGED <<txn, job, faults>>
       ELSE \E o \in Outcomes :
              LET t == [ex.t EXCEPT !.phase = p]
                  item == At(ex.item, p)
              IN  /\ Spend(o)
                  /\ SaveTxn(o, t)
                  /\ IF o = "ok" THEN Report(item) /\ Continue(Ex(next, item, t, ex.cause))
                     ELSE /\ UNCHANGED job
                          /\ IF ex.t.mig THEN ForwardError(t) ELSE SwitchError(t)
    /\ UNCHANGED <<install, current, layout, releases, temps, guard, block, schema, service,
                   plan, selected, fresh, handled, notified, rn>>

StopDash ==
    /\ ex.pc = "stop"
    /\ \E o \in Outcomes :
         /\ Spend(o)
         /\ IF Took(o) THEN StopService ELSE UNCHANGED <<service, rn>>
         /\ IF o # "ok" THEN SwitchError(ex.t)
            ELSE Continue(Goto(IF ex.kind # "recover" THEN "switching"
                               ELSE IF ex.t.mig THEN "activate" ELSE "restore"))
    /\ UNCHANGED <<install, current, layout, releases, temps, guard, block, txn, schema, store>>

\* activateRelease: the flat layout is replaced only after `current` names the candidate.
AfterActivate == IF ex.kind = "recover" THEN "migrate" ELSE "boundary"
ActivateRelease ==
    /\ ex.pc = "activate"
    /\ \E o \in Outcomes :
         /\ Spend(o)
         /\ current' = IF Took(o) THEN ex.job ELSE current
         /\ layout' = IF ex.t.legacy /\ o = "ok" THEN "mixed" ELSE layout
         /\ IF o = "ok" THEN Continue(Goto(IF ex.t.legacy THEN "alias" ELSE AfterActivate)) ELSE SwitchError(ex.t)
    /\ UNCHANGED <<install, releases, temps, guard, block, txn, schema, service, store, rn>>

InstallAliases ==
    /\ ex.pc = "alias"
    /\ \E o \in Outcomes :
         /\ Spend(o)
         /\ layout' = IF Took(o) THEN "aliases" ELSE layout
         /\ IF o = "ok" THEN Continue(Goto(AfterActivate)) ELSE SwitchError(ex.t)
    /\ UNCHANGED <<install, current, releases, temps, guard, block, txn, schema, service, store, rn>>

\* The migration boundary.  Whether or not the write took effect, the executor
\* does not roll back: recovery decides from the file.
CrossBoundary ==
    /\ ex.pc = "boundary"
    /\ \E o \in Outcomes :
         LET t == [job |-> ex.t.job, phase |-> Migrating, prev |-> ex.t.prev, legacy |-> ex.t.legacy,
                   manager |-> ex.t.manager, active |-> ex.t.active, mig |-> TRUE]
             item == At(ex.item, Migrating)
         IN  /\ Spend(o)
             /\ SaveTxn(o, t)
             /\ IF o = "ok" THEN Report(item) /\ Continue(Ex("migrate", item, t, ""))
                ELSE ForwardError(t) /\ UNCHANGED job
    /\ UNCHANGED <<install, current, layout, releases, temps, guard, block, schema, service,
                   plan, selected, fresh, handled, notified, rn>>

\* `dash migrate` of the candidate; it refuses a schema newer than itself.
RunCandidateMigration ==
    /\ ex.pc = "migrate"
    /\ \E o \in Outcomes :
         LET v == Version(ex.job) IN
         /\ Spend(o)
         /\ IF Took(o) /\ schema <= v THEN schema' = v ELSE UNCHANGED schema
         /\ IF o = "ok" /\ schema <= v THEN Continue(Goto("starting")) ELSE ForwardError(ex.t)
    /\ UNCHANGED <<install, current, layout, releases, temps, guard, block, txn, service, store, rn>>

RemoveBlock(pc, next) ==
    /\ ex.pc = pc
    /\ \E o \in Outcomes :
         /\ Spend(o)
         /\ block' = (block /\ ~Took(o))
         /\ IF o = "ok" THEN Continue(Goto(next))
            ELSE IF ex.t.mig THEN ForwardError(ex.t) ELSE RollbackError
    /\ UNCHANGED <<install, current, layout, releases, temps, guard, txn, schema, service, store, rn>>

\* startDash and waitDashStable; a service that does not settle is held.
StartDash(pc, next) ==
    /\ ex.pc = pc
    /\ IF ~ex.t.active THEN Continue(Goto(next)) /\ UNCHANGED <<service, faults>>
       ELSE \E o \in Outcomes, obs \in Observations :
              LET ok == o = "ok" /\ WaitDashStable(obs) IN
              /\ (o = "ok" /\ ~ok) => faults < MaxFaults
              /\ Spend(IF ok THEN "ok" ELSE "late")
              /\ service' \in IF o = "fail" THEN {service} ELSE IF ok THEN Bins ELSE Bins \cup {Down}
              /\ Continue(Goto(IF ok THEN next ELSE "hold"))
    /\ UNCHANGED <<install, current, layout, releases, temps, guard, block, txn, schema, store, rn>>

\* holdDashForRecovery: block the service again, then stop it, whatever fails.
HoldDash ==
    /\ ex.pc = "hold"
    /\ \E o \in Outcomes, stopped \in BOOLEAN :
         /\ o = "ok" => stopped
         /\ Spend(o)
         /\ block' = (block \/ Took(o))
         /\ IF stopped THEN StopService ELSE UNCHANGED <<service, rn>>
         /\ IF ex.t.mig THEN ForwardError(ex.t) ELSE RollbackError
    /\ UNCHANGED <<install, current, layout, releases, temps, guard, txn, schema, store>>

MarkDone(pc, next) ==
    /\ ex.pc = pc
    /\ \E o \in Outcomes :
         LET t == [ex.t EXCEPT !.phase = Done] IN
         /\ Spend(o)
         /\ SaveTxn(o, t)
         /\ IF o = "ok" THEN Continue(Ex(next, ex.item, t, ex.cause))
            ELSE IF ex.t.mig THEN ForwardError(ex.t) ELSE RollbackError
    /\ UNCHANGED <<install, current, layout, releases, temps, guard, block, schema, service, store, rn>>

\* pruneReleases keeps only what `current` names.
PruneReleases == releases' = [r \in DOMAIN releases \cap {current} |-> releases[r]]

WrapUp ==
    /\ ex.pc = "wrap"
    /\ temps' = temps \ {ex.job}
    /\ PruneReleases
    /\ Continue(Goto("finish"))
    /\ UNCHANGED <<install, current, layout, guard, block, txn, schema, service, store, rn, faults>>
(* rollbackBeforeMigration, step by step. *)
RestorePrevious ==
    /\ ex.pc = "restore"
    /\ \E o \in Outcomes :
         /\ Spend(o)
         /\ IF ex.t.legacy
            THEN /\ current' = IF Took(o) THEN NoRelease ELSE current
                 /\ layout' = IF Took(o) THEN "mixed" ELSE layout
                 /\ IF o = "ok" /\ ex.job \in temps THEN Continue(Goto("copy")) ELSE RollbackError
            ELSE /\ current' = IF Took(o) THEN ex.t.prev ELSE current
                 /\ UNCHANGED layout
                 /\ IF o = "ok" THEN Continue(Goto("rb_unblock")) ELSE RollbackError
    /\ UNCHANGED <<install, releases, temps, guard, block, txn, schema, service, store, rn>>

CopyBackup ==
    /\ ex.pc = "copy"
    /\ \E o \in Outcomes :
         /\ Spend(o)
         /\ layout' = IF o = "ok" THEN "flat" ELSE layout
         /\ IF o = "ok" THEN Continue(Goto("rb_unblock")) ELSE RollbackError
    /\ UNCHANGED <<install, current, releases, temps, guard, block, txn, schema, service, store, rn>>

RemoveCandidate ==
    /\ ex.pc = "rb_clean"
    /\ releases' = [r \in DOMAIN releases \ {ex.job} |-> releases[r]]
    /\ temps' = temps \ {ex.job}
    /\ Continue(Goto(IF ex.kind = "recover" THEN "result" ELSE "finish"))
    /\ UNCHANGED <<install, current, layout, guard, block, txn, schema, service, store, rn, faults>>

\* jobReporter.finish with updateFailureCode, the last write to the job's status.
FailureCode(item, cause) ==
    CASE item.rec \/ cause = "recovery" -> "recovery_required"
      [] cause = "conflict" -> "install_changed"
      [] OTHER -> "update_failed"
FinishJob ==
    /\ ex.pc = "finish"
    /\ \E o \in Outcomes :
         LET item == IF ex.cause = ""
                     THEN [status |-> "completed", phase |-> Done, code |-> "", rec |-> ex.item.rec, pid |-> ex.item.pid]
                     ELSE [status |-> "failed", phase |-> ex.item.phase, code |-> FailureCode(ex.item, ex.cause),
                           rec |-> ex.item.rec, pid |-> ex.item.pid]
         IN  /\ Spend(o)
             /\ job' = IF Took(o) THEN [job EXCEPT ![ex.job] = item] ELSE job
             /\ IF o = "ok" THEN Continue(Goto("remove")) ELSE Quit
    /\ UNCHANGED <<disk, plan, selected, fresh, handled, notified, rn>>

\* removeDoneTransaction: only a finished transaction, and only this job's.
RemovedTxn(j) == IF txn.job = j /\ txn.phase = Done THEN NoTxn ELSE txn
RemoveTransaction ==
    /\ ex.pc = "remove"
    /\ \E o \in Outcomes :
         /\ Spend(o)
         /\ txn' = IF Took(o) THEN RemovedTxn(ex.job) ELSE txn
         /\ IF ex.kind = "recover" /\ o = "ok"
            THEN /\ temps' = temps \ {ex.job}
                 /\ IF ex.t.mig /\ ex.cause # "done" THEN PruneReleases ELSE UNCHANGED releases
            ELSE UNCHANGED <<temps, releases>>
         /\ Quit
    /\ UNCHANGED <<install, current, layout, guard, block, schema, service, store, rn>>

\* Fault: a transaction from before the boundary is left to the next update.
RecoverUpdateForwardOnly ==
    /\ ex = NoEx /\ txn # NoTxn /\ txn.mig
    /\ ex' = [kind |-> "recover", pc |-> IF txn.phase = Done THEN "result" ELSE "guard",
              job |-> txn.job, item |-> NoJob, t |-> txn, cause |-> IF txn.phase = Done THEN "done" ELSE ""]
    /\ UNCHANGED <<disk, store, unit, rn, faults>>
\* `dash update recover`
RecoverUpdate ==
    /\ ex = NoEx /\ txn # NoTxn
    /\ ex' = [kind |-> "recover", pc |-> IF txn.phase = Done THEN "result" ELSE "guard",
              job |-> txn.job, item |-> NoJob, t |-> txn, cause |-> IF txn.phase = Done THEN "done" ELSE ""]
    /\ UNCHANGED <<disk, store, unit, rn, faults>>

\* recordRecoveryResult: the outcome is written to the status of the transaction's job.
RecordRecoveryResult ==
    /\ ex.pc = "result"
    /\ \E o \in Outcomes :
         /\ Spend(o)
         /\ IF job[ex.job].status \in {"none", "gone"} THEN Quit /\ UNCHANGED job
            ELSE /\ job' = IF Took(o) THEN [job EXCEPT ![ex.job] = StatusFromDoneTransaction(job[ex.job], ex.t)] ELSE job
                 /\ IF o = "ok" THEN Continue(Goto("remove")) ELSE Quit
    /\ UNCHANGED <<disk, plan, selected, fresh, handled, notified, rn>>

Executor ==
    \/ BeginUpdate \/ FetchRelease \/ StageRelease \/ RecordTransaction
    \/ InstallGuard \/ WriteBlock
    \/ ReachPhase("stopping", Stopping, "stop") \/ StopDash
    \/ ReachPhase("switching", Switching, "activate") \/ ActivateRelease \/ InstallAliases
    \/ CrossBoundary \/ RunCandidateMigration
    \/ ReachPhase("starting", Starting, "unblock") \/ RemoveBlock("unblock", "start")
    \/ StartDash("start", "cleanup") \/ ReachPhase("cleanup", Cleanup, "done")
    \/ MarkDone("done", IF ex.kind = "recover" THEN "result" ELSE "wrap") \/ WrapUp
    \/ RestorePrevious \/ CopyBackup \/ RemoveBlock("rb_unblock", "rb_start")
    \/ StartDash("rb_start", "rb_done") \/ MarkDone("rb_done", "rb_clean") \/ RemoveCandidate
    \/ HoldDash \/ FinishJob \/ RemoveTransaction \/ RecordRecoveryResult

-----------------------------------------------------------------------------
(* The transient unit of a job, before it takes the update lock. *)

\* openJobReporter: the status must still be that of the queued job.
OpenReporter(j) ==
    /\ unit[j] = "starting"
    /\ IF job[j].status = "running"
       THEN job' = [job EXCEPT ![j] = OpenItem] /\ unit' = [unit EXCEPT ![j] = "opened"]
       ELSE unit' = [unit EXCEPT ![j] = "gone"] /\ UNCHANGED job
    /\ UNCHANGED <<disk, plan, selected, fresh, handled, notified, ex, rn, faults>>

\* applyUpdate: a unit that finds the lock taken exits without a word to its status.
AcquireUpdateLock(j) ==
    /\ unit[j] = "opened"
    /\ IF ex = NoEx
       THEN /\ ex' = [kind |-> "execute", pc |-> "begin", job |-> j, item |-> OpenItem, t |-> NoTxn, cause |-> ""]
            /\ unit' = [unit EXCEPT ![j] = "locked"]
       ELSE unit' = [unit EXCEPT ![j] = "gone"] /\ UNCHANGED ex
    /\ UNCHANGED <<disk, store, rn, faults>>

-----------------------------------------------------------------------------
(* The controller: Status with its reconciliation, Start, and the notifier. *)

NextJob == CHOOSE j \in Jobs : job[j].status = "none" /\ \A k \in 1 .. (j - 1) : job[k].status # "none"
Selectable == \E j \in Jobs : job[j].status = "none"

\* checkAvailability: no recovery pending, and the installed binary is the running one.
Available == ~RecoveryStatePending /\ \E b \in Bins : Version(b) = Version(service)

\* checkAndAct: the automatic check starts an update only when one is available.
CheckAndAct(r) == \E b \in Bins : Latest(r.channel) # 0 /\ VersionStatus(Version(b), Latest(r.channel)) = "available"

\* Start: the plan is resolved first; then, under the start lock, the status is
\* reconciled.  A manual update holds that lock until it ends.
BeginStart(r) ==
    /\ rn = NoRn /\ ex.kind # "manual" /\ Selectable
    /\ selected # 0 => faults < MaxFaults
    /\ faults' = IF selected = 0 THEN faults ELSE faults + 1
    /\ r.by = "service" => install.systemd /\ service # Down /\ Available
    /\ r.by = "cli" => ManualCLI
    /\ r.origin = "auto" => CheckAndAct(r)
    /\ LET p == ResolvePlan(r) IN
       /\ p # NoPlan
       /\ rn' = [by |-> r.by, pc |-> "status", job |-> 0, next |-> "create", plan |-> p]
    /\ UNCHANGED <<disk, store, unit, ex>>

\* The notifier's tick.  A status request is a tick that ends with the status,
\* as one does whose service stops there.
BeginStatus ==
    /\ rn = NoRn /\ service # Down
    /\ selected # 0
    /\ rn' = [by |-> "service", pc |-> "status", job |-> 0, next |-> "notify", plan |-> NoPlan]
    /\ UNCHANGED <<disk, store, unit, ex, faults>>

\* What follows once the status of the selected job is known.
AfterStatus(status) ==
    IF rn.next = "create" /\ status = "running" THEN NoRn
    ELSE [by |-> rn.by, pc |-> rn.next, job |-> 0, next |-> "none", plan |-> rn.plan]

\* reconcileDoneTransaction on the status item of the selected job: a finished
\* transaction gives a job still running its outcome, then goes.
DoneForSelected == txn # NoTxn /\ txn.phase = Done /\ txn.job = selected
Reconciled(item) == IF item.status = "running" THEN StatusFromDoneTransaction(item, txn) ELSE item

ReadStatus ==
    /\ rn.pc = "status"
    /\ IF selected = 0
       THEN rn' = AfterStatus("idle") /\ UNCHANGED <<job, txn>>
       ELSE LET item == job[selected] IN
            IF DoneForSelected
            THEN /\ job' = [job EXCEPT ![selected] = Reconciled(item)]
                 /\ txn' = NoTxn
                 /\ rn' = AfterStatus(Reconciled(item).status)
            ELSE /\ UNCHANGED <<job, txn>>
                 /\ IF item.status # "running" \/ selected \in fresh \/ (txn # NoTxn /\ txn.phase = Done)
                    THEN rn' = IF rn.by = "cli" /\ txn # NoTxn /\ txn.phase = Done THEN NoRn ELSE AfterStatus(item.status)
                    ELSE rn' = [by |-> rn.by, pc |-> "inspect", job |-> selected, next |-> rn.next, plan |-> rn.plan]
    /\ UNCHANGED <<install, current, layout, releases, temps, guard, block, schema, service,
                   plan, selected, fresh, handled, notified, unit, ex, faults>>

InspectUnit ==
    /\ rn.pc = "inspect"
    /\ \/ rn' = IF UnitBusy(rn.job) THEN AfterStatus("running")
                ELSE [by |-> rn.by, pc |-> "settle", job |-> rn.job, next |-> rn.next, plan |-> rn.plan]
       \/ InspectFails /\ rn' = AfterStatus("running")
    /\ UNCHANGED <<disk, store, unit, ex, faults>>

\* settleStoppedStatus and failStaleStatus, on a status read again.
StaleStatus(item) ==
    [status |-> "failed", phase |-> item.phase,
     code |-> IF RecoveryStatePending THEN "recovery_required" ELSE "executor_lost",
     rec |-> item.rec \/ (TxnPending /\ txn.job = selected), pid |-> item.pid]
\* Fault: the status is settled as it was read before systemd was asked.
SettledUnread(latest) == StaleStatus(latest)
Settled(latest) == IF latest.status = "running" THEN StaleStatus(latest) ELSE latest
SettleStopped ==
    /\ rn.pc = "settle"
    /\ IF selected # rn.job \/ (txn # NoTxn /\ txn.phase = Done /\ txn.job # selected)
       THEN rn' = AfterStatus("running") /\ UNCHANGED <<job, txn>>
       ELSE LET item == job[selected]
                latest == IF DoneForSelected THEN Reconciled(item) ELSE item
                final == Settled(latest)
            IN  /\ job' = [job EXCEPT ![selected] = final]
                /\ txn' = IF DoneForSelected THEN NoTxn ELSE txn
                /\ rn' = AfterStatus(final.status)
    /\ UNCHANGED <<install, current, layout, releases, temps, guard, block, schema, service,
                   plan, selected, fresh, handled, notified, unit, ex, faults>>

(* StartPrepared and runManualJob: reserve the job, then hand it over. *)

\* A job that is reserved but cannot be made ready is failed at once.
FailQueuedJob == [StatusForRequest EXCEPT !.status = "failed"]
CreateJob ==
    /\ rn.pc = "create"
    /\ IF rn.by = "cli" /\ ex # NoEx
       THEN rn' = NoRn /\ UNCHANGED <<job, plan, selected, fresh, unit, ex, faults>>
       ELSE \E o \in Outcomes :
              LET j == NextJob IN
              /\ Spend(o)
              /\ IF o = "fail"
                 THEN rn' = NoRn /\ UNCHANGED <<job, plan, selected, fresh, unit, ex>>
                 ELSE /\ job' = [job EXCEPT ![j] = CASE o = "late" -> FailQueuedJob
                                                     [] rn.by = "cli" -> OpenItem
                                                     [] OTHER -> StatusForRequest]
                      /\ plan' = [plan EXCEPT ![j] = rn.plan]
                      /\ selected' = j
                      /\ fresh' = fresh \cup {j}
                      /\ IF rn.by = "cli" /\ o = "ok"
                         THEN /\ ex' = [kind |-> "manual", pc |-> "begin", job |-> j, item |-> OpenItem,
                                        t |-> NoTxn, cause |-> ""]
                              /\ unit' = [unit EXCEPT ![j] = "locked"]
                         ELSE UNCHANGED <<ex, unit>>
                      /\ rn' = IF rn.by = "cli" \/ o = "late" THEN NoRn
                               ELSE [by |-> rn.by, pc |-> "submit", job |-> j, next |-> "none", plan |-> rn.plan]
    /\ UNCHANGED <<disk, handled, notified>>

\* systemd-run is only the submission client: its failure says nothing of the
\* unit, and after a timeout the request may still reach systemd.
SubmitUnit ==
    /\ rn.pc = "submit"
    /\ \E result \in IF faults < MaxFaults THEN {"ok", "error", "timeout"} ELSE {"ok"} :
         /\ Spend(IF result = "ok" THEN "ok" ELSE "fail")
         /\ \E u \in CASE result = "ok" -> {"starting"}
                       [] result = "error" -> {"none", "starting"}
                       [] OTHER -> {"none", "pending", "starting"} :
              unit' = [unit EXCEPT ![rn.job] = u]
         /\ rn' = IF result = "error" THEN [by |-> rn.by, pc |-> "verify", job |-> rn.job, next |-> "none", plan |-> rn.plan]
                  ELSE NoRn
    /\ UNCHANGED <<disk, store, ex>>

\* The unit's outcome is resolved before a failure is recorded; when systemd
\* cannot be asked, the failure is recorded all the same.
SubmissionFailed == [status |-> "failed", phase |-> Queued, code |-> "submission_failed", rec |-> FALSE, pid |-> FALSE]
VerifyUnit ==
    /\ rn.pc = "verify"
    /\ LET j == rn.job IN
       IF Terminal(job[j].status) THEN rn' = NoRn /\ UNCHANGED job
       ELSE \/ UnitBusy(j) /\ rn' = NoRn /\ UNCHANGED job
            \/ /\ ~UnitBusy(j) \/ InspectFails
               /\ job' = [job EXCEPT ![j] = SubmissionFailed] /\ rn' = NoRn
    /\ UNCHANGED <<disk, plan, selected, fresh, handled, notified, unit, ex, faults>>

\* notifyFinishedAutoUpdate and cleanupUpdateJobs.
Finished(j) == Terminal(job[j].status) /\ plan[j].origin = "auto" /\ j \notin handled
Removable(j, done) == j # selected /\ Terminal(job[j].status) /\ (plan[j].origin = "auto" => j \in done)
NotifyFinished ==
    /\ rn.pc = "notify"
    /\ \E o \in Outcomes :
         LET due == {j \in Jobs : Finished(j)}
             done == IF o = "ok" THEN handled \cup due ELSE handled
         IN  /\ o # "ok" => due # {}
             /\ Spend(o)
             /\ notified' = IF Took(o) THEN notified \cup due ELSE notified
             /\ handled' = done
             /\ job' = [j \in Jobs |-> IF Removable(j, done) THEN [NoJob EXCEPT !.status = "gone"] ELSE job[j]]
    /\ rn' = NoRn
    /\ UNCHANGED <<disk, plan, selected, fresh, unit, ex>>

-----------------------------------------------------------------------------
(* The machine: time, systemd, processes that die, reboots. *)

\* updateStartGrace is longer than updateCommandLimit: a submission whose client
\* timed out has reached systemd, or never will, when the grace period ends, and
\* a manual executor has recorded itself.
GraceEnds(j) ==
    /\ j \in fresh /\ job[j].status = "running" /\ unit[j] # "pending"
    /\ rn.pc \notin {"submit", "verify"}
    /\ fresh' = fresh \ {j}
    /\ UNCHANGED <<disk, job, plan, selected, handled, notified, unit, ex, rn, faults>>

LateSubmission(j) ==
    /\ unit[j] = "pending"
    /\ \E u \in {"starting", "none"} : unit' = [unit EXCEPT ![j] = u]
    /\ UNCHANGED <<disk, store, ex, rn, faults>>

\* Boot, an administrator or Restart=: the condition is read when the unit starts.
ServiceStarts ==
    /\ service = Down
    /\ install.systemd => ~(guard /\ block)
    /\ \E b \in Bins : (b = 0 \/ b \in DOMAIN releases) /\ service' = b
    /\ UNCHANGED <<install, current, layout, releases, temps, guard, block, txn, schema, store, unit, ex, rn, faults>>

ServiceStops ==
    /\ service # Down
    /\ StopService
    /\ UNCHANGED <<install, current, layout, releases, temps, guard, block, txn, schema, store, unit, ex, faults>>

ExecutorDies ==
    /\ ex # NoEx /\ faults < MaxFaults
    /\ Quit /\ faults' = faults + 1
    /\ UNCHANGED <<disk, store, rn>>

Reboot ==
    /\ faults < MaxFaults /\ faults' = faults + 1
    /\ ex' = NoEx /\ rn' = NoRn /\ service' = Down
    /\ unit' = [j \in Jobs |-> IF unit[j] = "none" THEN "none" ELSE "gone"]
    /\ UNCHANGED <<install, current, layout, releases, temps, guard, block, txn, schema, store>>

-----------------------------------------------------------------------------
Init ==
    /\ install \in Installs
    /\ current = IF install.legacy THEN NoRelease ELSE 0
    /\ layout = IF install.legacy THEN "flat" ELSE "aliases"
    /\ releases = [r \in IF install.legacy THEN {} ELSE {0} |-> install.version]
    /\ temps = {} /\ guard = FALSE /\ block = FALSE /\ txn = NoTxn
    /\ schema = install.version
    /\ service = 0
    /\ job = [j \in Jobs |-> NoJob] /\ plan = [j \in Jobs |-> NoPlan]
    /\ selected = 0 /\ fresh = {} /\ handled = {} /\ notified = {}
    /\ unit = [j \in Jobs |-> "none"]
    /\ ex = NoEx /\ rn = NoRn /\ faults = 0

Controller ==
    \/ \E r \in Requests : BeginStart(r)
    \/ BeginStatus \/ ReadStatus \/ InspectUnit \/ SettleStopped \/ CreateJob \/ SubmitUnit \/ VerifyUnit \/ NotifyFinished

Next ==
    \/ Executor \/ RecoverUpdate \/ Controller
    \/ \E j \in Jobs : OpenReporter(j) \/ AcquireUpdateLock(j) \/ GraceEnds(j) \/ LateSubmission(j)
    \/ ServiceStarts \/ ServiceStops \/ ExecutorDies \/ Reboot

\* The executor runs until it ends, and an operator runs `dash update recover`
\* again and again while a transaction is there.
Spec == Init /\ [][Next]_vars
FairSpec == Spec /\ WF_vars(Executor) /\ WF_vars(RecoverUpdate)
-----------------------------------------------------------------------------
(* Properties. *)

\* Every variable keeps its type.
Items == [status : {"none", "running", "completed", "failed", "gone"}, phase : Phases,
          code : {"", "rolled_back", "recovery_required", "install_changed", "update_failed", "executor_lost", "submission_failed"},
          rec : BOOLEAN, pid : BOOLEAN]
Txns == [job : Releases, phase : Phases, prev : Releases \cup {NoRelease}, legacy : BOOLEAN,
         manager : {"systemd", "none", ""}, active : BOOLEAN, mig : BOOLEAN]
Causes == {"", "failed", "recovery", "conflict", "done"}
Executors == [kind : {"none", "execute", "manual", "recover"}, pc : Points, job : Releases,
              item : Items, t : Txns, cause : Causes]
Controllers == [by : {"none", "service", "cli"}, job : Releases, plan : Plans \cup {NoPlan},
                pc : {"idle", "status", "inspect", "settle", "create", "submit", "verify", "notify"},
                next : {"none", "create", "notify"}]
UnitStates == {"none", "pending", "starting", "opened", "locked", "gone"}
TypeOK ==
    /\ install \in Installs /\ current \in Releases \cup {NoRelease}
    /\ layout \in {"flat", "mixed", "aliases"}
    /\ DOMAIN releases \subseteq Releases /\ \A r \in DOMAIN releases : releases[r] \in Versions
    /\ temps \subseteq Jobs /\ guard \in BOOLEAN /\ block \in BOOLEAN
    /\ txn \in Txns /\ schema \in Versions /\ service \in Releases \cup {Down}
    /\ job \in [Jobs -> Items] /\ plan \in [Jobs -> Plans \cup {NoPlan}]
    /\ selected \in Releases /\ fresh \subseteq Jobs /\ handled \subseteq Jobs /\ notified \subseteq Jobs
    /\ unit \in [Jobs -> UnitStates]
    /\ ex \in Executors /\ rn \in Controllers
    /\ faults \in 0 .. MaxFaults

\* Dash runs under systemd, and no update was told to leave the service alone.
UnderSystemd == install.systemd /\ \A j \in Jobs : j <= selected => plan[j].manager # "none"

\* A database that was migrated is never served by an older binary: what the next start
\* would run is not older than the schema, and neither is, under systemd, what runs,
\* whatever failed, died or rebooted during cutover, rollback and recovery
\* (the migration boundary, switchRelease and rollbackBeforeMigration).
SchemaNeverAhead ==
    /\ \A b \in Bins : Version(b) >= schema
    /\ UnderSystemd /\ service # Down => Version(service) >= schema

\* What recovery needs is on disk for as long as a transaction is pending: the
\* candidate, the staging directory with the legacy backup, the release to return
\* to; and the aliases always lead to a release that exists (stageUpdate's
\* retained directories, pruneReleases).
RecoveryPossible ==
    /\ layout = "aliases" => current \in DOMAIN releases
    /\ TxnPending => /\ txn.job \in DOMAIN releases
                     /\ txn.job \in temps
                     /\ ~txn.legacy => txn.prev \in DOMAIN releases

\* A job becomes completed only when its target is what is installed and the
\* database is at its version, whether the executor, a recovery or a
\* reconciliation of a finished transaction says so (statusFromDoneTransaction).
CompletionIsTrue ==
    [][\A j \in Jobs :
         job[j].status # "completed" /\ job'[j].status = "completed" =>
           \E b \in Bins : Version(b) = plan[j].target /\ (txn.job = j => schema = plan[j].target)]_vars

\* A reconciliation never contradicts an updater: a job is declared failed by it
\* only when no updater of the job is alive, and an outcome once written is
\* changed only by the updater itself, by a recovery of its transaction or by
\* removal of the job (settleStoppedStatus re-reads what it settles).
OutcomeStays ==
    [][\A j \in Jobs :
         /\ rn' # rn /\ rn.pc = "settle" /\ job[j].status # "failed" /\ job'[j].status = "failed" => ~UnitBusy(j)
         /\ Terminal(job[j].status) /\ job'[j].status # job[j].status =>
              job'[j].status = "gone" \/ (ex.job = j /\ ex' # ex)]_vars

\* Every cutover is brought to an end, forward or back, however often the
\* executor died, if recovery is run (recoverUpdateLocked can be repeated).
UpdateSettles == TxnPending ~> ~TxnPending

\* The documentation's promise that recovery resolves the recorded transaction.
TransactionResolved == (txn # NoTxn) ~> (txn = NoTxn)
-----------------------------------------------------------------------------
(* The inductive invariant. *)

Staging == {"download", "validate", "record"}
Cutting == {"guard", "block", "stopping", "stop", "switching", "activate", "alias", "boundary"}
Forward == {"migrate", "starting", "unblock", "start", "cleanup", "done"}
RollingBack == {"restore", "copy", "rb_unblock", "rb_start", "rb_done"}
Cutover == Cutting \cup Forward \cup RollingBack \cup {"hold"}

\* Jobs are created in order; a controller that will create one or submit one still can.
JobsInOrder ==
    /\ \A j \in Jobs : /\ job[j].status = "none" <=> j > selected
                       /\ j > selected => unit[j] = "none"
                       /\ j <= selected => plan[j] \in Plans
    /\ rn.pc \in {"status", "inspect", "settle"} => rn.next \in {"create", "notify"}
    /\ rn.next = "create" \/ rn.pc = "create" => selected + 1 \in Jobs /\ rn.plan \in Plans
    /\ rn.pc \in {"inspect", "settle", "submit", "verify"} => rn.job \in Jobs /\ rn.job <= selected
    /\ rn.pc = "submit" => unit[rn.job] = "none" /\ rn.job \in fresh

\* After the grace period no submission is under way, so a unit that has ended stays so.
StoppedStays ==
    /\ \A j \in Jobs : unit[j] = "pending" => j \in fresh
    /\ rn.pc \in {"inspect", "settle"} => rn.job \notin fresh
    /\ rn.pc = "settle" => unit[rn.job] \in {"none", "gone"}

\* The holder of the update lock, and which steps are an executor's or a recovery's.
LockHolder ==
    /\ ex.kind = "none" => ex = NoEx
    /\ ex.kind # "none" => ex.job \in Jobs /\ ex.pc # "idle"
    /\ \A j \in Jobs : unit[j] = "locked" <=> ex.job = j /\ ex.kind \in {"execute", "manual"}
    /\ ex.kind \in {"execute", "manual"} =>
         /\ ex.pc # "result" /\ ex.item.status = "running"
         /\ ex.pc \in Cutting => ~ex.t.mig
         /\ ex.pc \in RollingBack \cup {"rb_clean"} \/ (ex.pc = "hold" /\ ~ex.t.mig) => ex.cause = "failed"
    /\ ex.kind = "recover" =>
         /\ ex.pc \notin Staging \cup {"begin", "stopping", "switching", "boundary", "wrap", "finish"}
         /\ ex.pc \in {"activate", "alias"} => ex.t.mig

\* A job not executed yet has no release.
Unused(j) == j \notin DOMAIN releases /\ current # j
NewJobsAreUnused ==
    /\ \A j \in Jobs : unit[j] \in {"none", "pending", "starting", "opened"} => Unused(j)
    /\ ex.pc = "begin" => Unused(ex.job)

\* The release of a job is installed, and the database is at its version.
Installed(j) ==
    /\ j \in Jobs /\ j <= selected /\ layout = "aliases" /\ current = j /\ j \in DOMAIN releases
    /\ releases[j] = plan[j].target /\ schema = plan[j].target

\* What the transaction stands for on disk while it is pending, and once it went forward.
PendingKnows ==
    TxnPending =>
        /\ txn.job \in Jobs /\ txn.job <= selected /\ txn.job \in temps
        /\ txn.job \in DOMAIN releases /\ releases[txn.job] = plan[txn.job].target /\ releases[txn.job] >= schema
        /\ ~txn.legacy => layout = "aliases" /\ current \in {txn.prev, txn.job} /\ txn.prev \in DOMAIN releases \ {txn.job}
        /\ txn.legacy /\ layout = "aliases" => current = txn.job
        /\ txn.mig => current = txn.job /\ layout # "flat"
        /\ ~txn.mig => Version(IF txn.legacy THEN 0 ELSE txn.prev) >= schema
DoneKnows ==
    /\ txn # NoTxn => txn.job \in Jobs
    /\ txn.phase = Done /\ txn.mig => Installed(txn.job)
AliasesLead == layout = "aliases" => current \in DOMAIN releases

\* Under systemd the service is held while the candidate is active and not yet migrated.
Held == guard /\ block /\ service = Down
ServiceHeld ==
    UnderSystemd =>
        /\ TxnPending => txn.manager = "systemd" /\ (~txn.mig /\ current = txn.job => Held)
        /\ service # Down => service \in {0} \cup Bins

DiskInv == PendingKnows /\ DoneKnows /\ AliasesLead /\ ServiceHeld /\ SchemaNeverAhead

\* While a release is staged there is no transaction.
StagingKnows ==
    ex.pc \in Staging =>
        /\ txn = NoTxn /\ layout # "mixed" /\ current # ex.job /\ ex.job \in temps
        /\ plan[ex.job].target >= schema
        /\ ex.pc = "record" => ex.job \in DOMAIN releases /\ releases[ex.job] = plan[ex.job].target

\* An executor in the cutover works on the transaction that is on disk.
Matches(t) ==
    /\ t.job = txn.job /\ t.prev = txn.prev /\ t.legacy = txn.legacy
    /\ t.manager = txn.manager /\ t.active = txn.active /\ t.mig = txn.mig
CutoverKnows ==
    ex.pc \in Cutover =>
        /\ TxnPending /\ ex.t.phase # Done /\ ex.job = txn.job /\ Matches(ex.t)
        /\ ex.pc \in Forward \cup {"boundary"} => current = ex.job /\ layout = "aliases"
        /\ ex.pc \in Forward => ex.t.mig
        /\ ex.pc \in Forward \ {"migrate"} => schema = releases[ex.job]
        /\ ex.pc = "alias" => ex.t.legacy /\ current = ex.job
        /\ ex.pc \in RollingBack => ~ex.t.mig
        /\ ex.pc = "copy" => ex.t.legacy /\ current = NoRelease
        /\ ex.pc \in {"rb_unblock", "rb_start", "rb_done"} =>
             IF ex.t.legacy THEN layout = "flat" /\ current = NoRelease ELSE current = ex.t.prev

\* Who acts on a finished transaction finds it finished, or gone.
EndKnows ==
    /\ ex.pc \in {"wrap", "rb_clean", "result"} \/ (ex.pc = "remove" /\ ex.kind = "recover") => ~TxnPending
    /\ ex.pc = "wrap" \/ (ex.pc = "result" /\ ex.t.mig) => Installed(ex.job)
    /\ ex.pc = "rb_clean" => ~ex.t.mig /\ (layout = "aliases" => current # ex.job)
    /\ ex.pc = "finish" /\ ex.cause = "" =>
         Installed(ex.job) \/ (txn = NoTxn /\ \E b \in Bins : Version(b) = plan[ex.job].target)

HolderHolds ==
    UnderSystemd =>
        /\ ex.pc \in {"block", "stopping", "stop"} => guard
        /\ ex.pc \in {"stopping", "stop"} => block
        /\ ex.pc \in {"switching", "activate", "alias", "boundary", "migrate", "starting", "unblock"} => Held

HolderInv == StagingKnows /\ CutoverKnows /\ EndKnows /\ HolderHolds

UpdateInv ==
    /\ TypeOK /\ JobsInOrder /\ StoppedStays /\ LockHolder /\ NewJobsAreUnused
    /\ DiskInv /\ HolderInv
=============================================================================
