---------------------------- MODULE AlertRuntime ----------------------------
(***************************************************************************)
(* Alert evaluation of one server (internal/alert): the rules and events   *)
(* in PostgreSQL, the phases kept in memory, the worker that evaluates the *)
(* server, the control loop that follows rule changes and reconciles every *)
(* minute, metrics ingest, administrators, and restarts.                   *)
(*                                                                         *)
(* Servers share neither keys of the runtime nor events, so one is enough. *)
(* The dirty queue is what DirtyWork promises: owed evaluations, at most   *)
(* one running. A phase is kept without values and times: `elapsed` holds  *)
(* the keys whose present phase has lasted for its period. Only            *)
(* evaluations write the values, so states of equal phase and event are    *)
(* equal wherever two actors meet.                                         *)
(***************************************************************************)
EXTENDS Naturals, FiniteSets

CONSTANTS Rules, Builtins, \* custom rules and built-in ones
          OfflineRules,    \* rules on the metric node.offline
          Stored,          \* custom rules in the database at the start, mounted
          Legacy,          \* those of them that do not compile any more
          Immediate,       \* custom rules without a duration
          Cooldowns,       \* rules with a cooldown
          Values,          \* what reports say of a metric
          MaxGeneration, MaxReport, MaxUpsets   \* bounds

AllRules == Rules \cup Builtins

\* ruleStateKey: built-in rules have one generation.
Keys == [rule : Rules, generation : 1..MaxGeneration] \cup [rule : Builtins, generation : {1}]
KeysOf(r) == {k \in Keys : k.rule = r}

\* compileRule rejects these: what an earlier release stored.
Invalid == {k \in Keys : k.rule \in Legacy /\ k.generation = 1}

ASSUME RulesAssumption ==
    /\ Rules \cap Builtins = {}
    /\ OfflineRules \cup Cooldowns \subseteq AllRules
    /\ Values \subseteq {"above", "below", "unknown"}
    /\ Legacy \subseteq Stored /\ Stored \cup Immediate \subseteq Rules
ASSUME BoundsAssumption ==
    /\ MaxGeneration \in Nat \ {0}
    /\ MaxReport \in Nat /\ MaxUpsets \in Nat

VARIABLES
    rule, mounted, gone, tasks, \* PostgreSQL: rules, effective mounts, server, control tasks
    row,                        \* server_current_metrics
    event,                      \* alert_events: the open event of each key, 0 for none
    staleTo, elapsed, grace,    \* clock: stale reports, periods over, startup grace
    up, cache, runtime,         \* the process, RuleCache, s.runtime
    owed, snap,                 \* dirty queue: an evaluation to do, the entry's snapshot
    marking,                    \* ingest is between its commit and its mark
    epc, esnap, erules, ecur, enext, eobs, eclose, eopen, einsert,   \* evaluation worker
    cpc, clisted, ctask, cinvalid, ctodo, cdrops, caffected,         \* control loop
    excused,                    \* history: keys with a reason to close their event
    upsets                      \* administrator changes and faults so far

adminVars == <<rule, mounted, gone>>
clockVars == <<staleTo, elapsed, grace>>
procVars  == <<up, cache, runtime>>
queueVars == <<owed, snap>>
evalVars  == <<epc, esnap, erules, ecur, enext, eobs, eclose, eopen, einsert>>
ctlVars   == <<cpc, clisted, ctask, cinvalid, ctodo, cdrops, caffected>>
vars == <<adminVars, tasks, row, event, clockVars, procVars, queueVars, marking,
          evalVars, ctlVars, excused, upsets>>

\* RuntimeState; "none" stands for a key that is not in the map.
States == [phase : {"none", "pending", "firing", "cooldown"}, event : Nat]
None      == [phase |-> "none", event |-> 0]
Pending   == [phase |-> "pending", event |-> 0]
Cooldown  == [phase |-> "cooldown", event |-> 0]
Firing(n) == [phase |-> "firing", event |-> n]
IsFiring(st) == st.phase = "firing"
NoStates == [k \in Keys |-> None]

\* A report: its number among those that differ, and how each metric compares
\* with its rule's threshold; "unknown" is a missing optional field.
Observations == [AllRules \ OfflineRules -> Values]
Snapshots == [seq : Nat, obs : [AllRules \ OfflineRules -> Values \cup {"unknown"}]]
\* A nil snapshot, and the row of a server that never reported.
NoSnapshot == [seq |-> 0, obs |-> [r \in AllRules \ OfflineRules |-> "unknown"]]

\* An event is named by its key and a number; the unique index allows one open
\* event of a key.
EventIds == [key : Keys, number : Nat]
Open == {k \in Keys : event[k] # 0}
OpenIds(ks) == {[key |-> k, number |-> event[k]] : k \in ks \cap Open}
IsOpen(k, n) == k \in Open /\ event[k] = n

\* Ids in the database are never used again; a number here is, once neither the
\* runtime, the worker nor the control loop refers to it.
Referenced(k) ==
    {runtime[k].event, ecur[k].event, enext[k].event}
        \cup {id.number : id \in {i \in ctodo : i.key = k}}
FreshNumber(k) == CHOOSE n \in 1..5 : n \notin Referenced(k) /\ 1..(n - 1) \subseteq Referenced(k)

\* A rule change names the generation it leaves behind, 0 for a new rule.
RuleTask(r, old) == [type |-> "rule", rule |-> r, old |-> old]
FullTask == [type |-> "full"]
Tasks == [type : {"rule"}, rule : Rules, old : 0..MaxGeneration] \cup {FullTask}

TypeOK ==
    /\ rule \in [Rules -> [generation : 0..MaxGeneration, enabled : BOOLEAN, deleted : BOOLEAN]]
    /\ mounted \subseteq AllRules /\ gone \in BOOLEAN /\ tasks \subseteq Tasks
    /\ row \in Snapshots
    /\ event \in [Keys -> Nat]
    /\ staleTo \in Nat /\ elapsed \subseteq Keys /\ grace \in BOOLEAN
    /\ up \in BOOLEAN /\ cache \subseteq Keys /\ runtime \in [Keys -> States]
    /\ owed \in BOOLEAN /\ snap \in Snapshots /\ marking \in BOOLEAN
    /\ epc \in {"idle", "refresh", "load", "fetch", "evaluate", "write"}
    /\ esnap \in Snapshots /\ erules \subseteq Keys
    /\ ecur \in [Keys -> States] /\ enext \in [Keys -> States]
    /\ eobs \subseteq Keys /\ eclose \subseteq Keys /\ eopen \subseteq Keys /\ einsert \subseteq Keys
    /\ cpc \in {"idle", "generation", "invalid", "deleted", "restore", "enqueue"}
    /\ clisted \in BOOLEAN /\ ctask \in Tasks /\ cinvalid \subseteq Keys
    /\ ctodo \subseteq EventIds /\ cdrops \subseteq Keys /\ caffected \in BOOLEAN
    /\ excused \subseteq Keys
    /\ upsets \in 0..MaxUpsets

\* The process is down; the database holds stored rules, those that do not
\* compile any more each with an open event of an earlier release.
Init ==
    /\ rule = [r \in Rules |-> [generation |-> IF r \in Stored THEN 1 ELSE 0,
                                enabled |-> r \in Stored, deleted |-> FALSE]]
    /\ mounted = Builtins \cup Stored /\ gone = FALSE /\ tasks = {}
    /\ row = NoSnapshot
    /\ event = [k \in Keys |-> IF k \in Invalid THEN 1 ELSE 0]
    /\ staleTo = 0 /\ elapsed = {} /\ grace = FALSE
    /\ up = FALSE /\ cache = {} /\ runtime = NoStates
    /\ owed = FALSE /\ snap = NoSnapshot /\ marking = FALSE
    /\ epc = "idle" /\ esnap = NoSnapshot /\ erules = {}
    /\ ecur = NoStates /\ enext = NoStates
    /\ eobs = {} /\ eclose = {} /\ eopen = {} /\ einsert = {}
    /\ cpc = "idle" /\ clisted = FALSE /\ ctask = FullTask /\ cinvalid = {}
    /\ ctodo = {} /\ cdrops = {} /\ caffected = FALSE
    /\ excused = Invalid
    /\ upsets = 0

-----------------------------------------------------------------------------
(* Rules *)

\* The rule row is the one of this key, enabled and not deleted.
Current(k) ==
    \/ k.rule \in Builtins
    \/ k.rule \in Rules /\ rule[k.rule] = [generation |-> k.generation, enabled |-> TRUE, deleted |-> FALSE]

\* RulesForCompile and CompileRules: the built-in rules and the enabled rows,
\* the invalid ones listed apart.
Compilable == {k \in Keys : Current(k)}

\* An administrator's change or a fault; there are finitely many.
Upset == upsets < MaxUpsets /\ upsets' = upsets + 1

\* CreateRule, PatchRule and DeleteRule commit the row together with its task.
CreateRule(r) ==
    /\ up /\ Upset
    /\ rule[r].generation = 0
    /\ \E on \in BOOLEAN :
        rule' = [rule EXCEPT ![r] = [generation |-> 1, enabled |-> on, deleted |-> FALSE]]
    /\ tasks' = tasks \cup {RuleTask(r, 0)}
    /\ UNCHANGED <<mounted, gone, row, event, clockVars, procVars, queueVars, marking,
                   evalVars, ctlVars, excused>>

\* needsGeneration: a patch that does not change what is evaluated is not
\* seen here.
PatchRule(r) ==
    /\ up /\ Upset
    /\ rule[r].generation \in 1..(MaxGeneration - 1) /\ ~rule[r].deleted
    /\ \E on \in BOOLEAN :
        rule' = [rule EXCEPT ![r] = [generation |-> rule[r].generation + 1, enabled |-> on,
                                     deleted |-> FALSE]]
    /\ tasks' = tasks \cup {RuleTask(r, rule[r].generation)}
    /\ excused' = excused \cup KeysOf(r)
    /\ UNCHANGED <<mounted, gone, row, event, clockVars, procVars, queueVars, marking,
                   evalVars, ctlVars>>

DeleteRule(r) ==
    /\ up /\ Upset
    /\ rule[r].generation \in 1..(MaxGeneration - 1) /\ ~rule[r].deleted
    /\ rule' = [rule EXCEPT ![r] = [generation |-> rule[r].generation + 1,
                                    enabled |-> rule[r].enabled, deleted |-> TRUE]]
    /\ mounted' = mounted \ {r}
    /\ tasks' = tasks \cup {RuleTask(r, rule[r].generation)}
    /\ excused' = excused \cup KeysOf(r)
    /\ UNCHANGED <<gone, row, event, clockVars, procVars, queueVars, marking,
                   evalVars, ctlVars>>

\* SetRuleMounts commits, then marks the server dirty.
SetRuleMounts(r, on) ==
    /\ up /\ ~gone /\ Upset
    /\ r \in Rules => rule[r].generation > 0 /\ ~rule[r].deleted
    /\ mounted' = IF on THEN mounted \cup {r} ELSE mounted \ {r}
    /\ mounted' # mounted
    /\ owed' = TRUE
    /\ excused' = IF on THEN excused ELSE excused \cup KeysOf(r)
    /\ UNCHANGED <<rule, gone, tasks, row, event, clockVars, procVars, snap, marking,
                   evalVars, ctlVars>>

\* deleteNode holds the node's lock, as ingest does.
DeleteNode ==
    /\ up /\ ~gone /\ ~marking /\ Upset
    /\ gone' = TRUE
    /\ excused' = Keys
    /\ UNCHANGED <<rule, mounted, tasks, row, event, clockVars, procVars, queueVars, marking,
                   evalVars, ctlVars>>
-----------------------------------------------------------------------------
(* Metrics ingest and the clock *)

\* metricValue: an offline rule reads the age of the snapshot, any other rule
\* needs a fresh one.
Reading(r, s) ==
    IF r \in OfflineRules
    THEN IF s.seq > staleTo THEN "below" ELSE "above"
    ELSE IF s.seq > staleTo THEN s.obs[r] ELSE "unknown"

\* persistMetrics: a report is committed to the current row. One that repeats
\* the last report, while that is fresh, differs in time only.
SaveMetrics(obs) ==
    /\ up /\ ~gone /\ ~marking
    /\ marking' = TRUE
    /\ \/ obs = row.obs /\ row.seq > staleTo /\ UNCHANGED row
       \/ ~(obs = row.obs /\ row.seq > staleTo) /\ row.seq < MaxReport
          /\ row' = [seq |-> row.seq + 1, obs |-> obs]
    /\ excused' = excused \cup {k \in Keys : k.rule \in OfflineRules \/ obs[k.rule] = "below"}
    /\ UNCHANGED <<adminVars, tasks, event, clockVars, procVars, queueVars, evalVars,
                   ctlVars, upsets>>

\* The node goes on reporting what it reported last.
RepeatReport == row.seq > staleTo /\ SaveMetrics(row.obs)

\* MarkServerMetrics, still under the node's lock.
MarkServerMetrics ==
    /\ marking
    /\ marking' = FALSE
    /\ owed' = TRUE /\ snap' = row
    /\ UNCHANGED <<adminVars, tasks, row, event, clockVars, procVars, evalVars, ctlVars,
                   excused, upsets>>

\* SyncServerCache failed after the commit: Metrics returns without a mark.
MarkLost ==
    /\ Upset
    /\ marking
    /\ marking' = FALSE
    /\ UNCHANGED <<adminVars, tasks, row, event, clockVars, procVars, queueVars, evalVars,
                   ctlVars, excused>>

\* snapshotOnline: every report so far is older than the offline threshold.
GoStale ==
    /\ row.seq > staleTo /\ ~marking
    /\ staleTo' = row.seq
    /\ UNCHANGED <<adminVars, tasks, row, event, elapsed, grace, procVars, queueVars, marking,
                   evalVars, ctlVars, excused, upsets>>

\* A pending key has been so for its duration, a firing one without a
\* heartbeat for the interval, a cooldown is over.
Elapse(k) ==
    /\ runtime[k] # None /\ k \notin elapsed
    /\ elapsed' = elapsed \cup {k}
    /\ UNCHANGED <<adminVars, tasks, row, event, staleTo, grace, procVars, queueVars, marking,
                   evalVars, ctlVars, excused, upsets>>

GraceOver ==
    /\ grace
    /\ grace' = FALSE
    /\ UNCHANGED <<adminVars, tasks, row, event, staleTo, elapsed, procVars, queueVars, marking,
                   evalVars, ctlVars, excused, upsets>>

PeriodOver == GraceOver \/ \E k \in Keys : Elapse(k)

-----------------------------------------------------------------------------
(* processServer *)

\* NextDirtyServer: the snapshot stays in the entry.
Take ==
    /\ up /\ epc = "idle" /\ owed
    /\ owed' = FALSE
    /\ esnap' = snap
    /\ epc' = "refresh"
    /\ UNCHANGED <<adminVars, tasks, row, event, clockVars, procVars, snap, marking, erules,
                   ecur, enext, eobs, eclose, eopen, einsert, ctlVars, excused, upsets>>

\* RuleCache.Refresh without force returns the cached rules while they are
\* young, or when the database fails; it replaces them otherwise.
Refresh ==
    /\ epc = "refresh"
    /\ cache' \in {cache, Compilable}
    /\ erules' = cache'
    /\ epc' = "load"
    /\ UNCHANGED <<adminVars, tasks, row, event, clockVars, up, runtime, queueVars, marking,
                   esnap, ecur, enext, eobs, eclose, eopen, einsert, ctlVars, excused, upsets>>

\* loadRuntimeState.
Load ==
    /\ epc = "load"
    /\ ecur' = runtime
    /\ epc' = IF esnap = NoSnapshot THEN "fetch" ELSE "evaluate"
    /\ UNCHANGED <<adminVars, tasks, row, event, clockVars, procVars, queueVars, marking,
                   esnap, erules, enext, eobs, eclose, eopen, einsert, ctlVars, excused, upsets>>

\* FetchCurrentNode, since the entry had no snapshot: nil for a deleted server.
Fetch ==
    /\ epc = "fetch"
    /\ esnap' = IF gone THEN NoSnapshot ELSE row
    /\ epc' = "evaluate"
    /\ UNCHANGED <<adminVars, tasks, row, event, clockVars, procVars, queueVars, marking,
                   erules, ecur, enext, eobs, eclose, eopen, einsert, ctlVars, excused, upsets>>

\* ForMounts: the compiled rules mounted on the server.
Seen == {k \in erules \ Invalid : k.rule \in mounted}

\* The snapshot tells how this key's condition stands.
Reads(k, value) == k \in Seen /\ esnap.seq > 0 /\ Reading(k.rule, esnap) = value

CooldownActive(k) == ecur[k] = Cooldown /\ k \notin elapsed

\* EvaluateServer: the state of a key after this evaluation; one that fires is
\* kept until its event is closed.
NextState(k) ==
    IF IsFiring(ecur[k]) \/ (CooldownActive(k) /\ k \in Seen /\ esnap.seq > 0) THEN ecur[k]
    ELSE IF Reads(k, "above") THEN Pending ELSE None

\* Fault: a value that is missing counts as a condition that cleared.
ClosingUnknown == {k \in Keys : IsFiring(ecur[k]) /\ ~Reads(k, "above")}

Closing == {k \in Keys : IsFiring(ecur[k]) /\ (k \notin Seen \/ Reads(k, "below"))}

\* durationSatisfied. A rule without a duration opens at once, a custom one only
\* if the report is not older than the rule: `prompt` holds those.
Opening(prompt) ==
    {k \in Keys : NextState(k) = Pending
                  /\ \/ k.rule \in Builtins \cup prompt
                     \/ ecur[k] = Pending /\ k \in elapsed}

\* RuleMountsForServer and EvaluateServer, with filterStartupOpens.
Evaluate ==
    /\ epc = "evaluate"
    /\ enext' = [k \in Keys |-> NextState(k)]
    /\ eobs' = {k \in Keys : IsFiring(ecur[k]) /\ (Reads(k, "above") \/ Reads(k, "below"))}
    /\ eclose' = Closing
    /\ \E prompt \in SUBSET Immediate : eopen' = IF grace THEN {} ELSE Opening(prompt)
    /\ erules' = {}
    /\ epc' = "write"
    /\ UNCHANGED <<adminVars, tasks, row, event, clockVars, procVars, queueVars, marking,
                   esnap, ecur, einsert, ctlVars, excused, upsets>>

EvalReset ==
    /\ epc' = "idle" /\ esnap' = NoSnapshot /\ erules' = {}
    /\ ecur' = NoStates /\ enext' = NoStates
    /\ eobs' = {} /\ eclose' = {} /\ eopen' = {} /\ einsert' = {}

\* The row or the mounts could not be read: the server is retried.
EvalError ==
    /\ Upset
    /\ epc \in {"fetch", "evaluate"}
    /\ EvalReset
    /\ owed' = TRUE
    /\ UNCHANGED <<adminVars, tasks, row, event, clockVars, procVars, snap, marking, ctlVars,
                   excused>>

\* WriteCloseTransition closes the event with this id, if it is open.
CloseEvent(k, n) == event' = IF IsOpen(k, n) THEN [event EXCEPT ![k] = 0] ELSE event

\* A close transition: the state goes whether the event was open or not; a
\* cooldown starts if this write closed it because the condition cleared.
Close(k) ==
    /\ epc = "write" /\ k \in eclose
    /\ CloseEvent(k, ecur[k].event)
    /\ enext' = [enext EXCEPT ![k] =
                    IF k \in eobs /\ k.rule \in Cooldowns /\ IsOpen(k, ecur[k].event)
                    THEN Cooldown ELSE None]
    /\ eclose' = eclose \ {k}
    /\ UNCHANGED <<adminVars, tasks, row, clockVars, procVars, queueVars, marking, epc,
                   esnap, erules, ecur, eobs, eopen, einsert, ctlVars, excused, upsets>>

\* The notification targets or the write are unavailable, or the outcome of
\* the commit is unknown: the transition is left to a later evaluation.
CloseFails(k) ==
    /\ Upset
    /\ epc = "write" /\ k \in eclose
    /\ CloseEvent(k, ecur[k].event) \/ UNCHANGED event
    /\ eclose' = eclose \ {k}
    /\ UNCHANGED <<adminVars, tasks, row, clockVars, procVars, queueVars, marking, epc,
                   esnap, erules, ecur, enext, eobs, eopen, einsert, ctlVars, excused>>

\* The first statement of WriteOpenTransition. It inserts an event if the rule
\* row is still of this key; if an event is open already, that one is adopted.
Insert(k) ==
    /\ epc = "write" /\ eclose = {} /\ einsert = {} /\ k \in eopen
    /\ eopen' = eopen \ {k}
    /\ einsert' = IF Current(k) /\ k \notin Open THEN {k} ELSE {}
    /\ enext' = IF Current(k) /\ k \in Open
                THEN [enext EXCEPT ![k] = Firing(event[k])] ELSE enext
    /\ UNCHANGED <<adminVars, tasks, row, event, clockVars, procVars, queueVars, marking, epc,
                   esnap, erules, ecur, eobs, eclose, ctlVars, excused, upsets>>

OpenSkipped(k) ==
    /\ Upset
    /\ epc = "write" /\ eclose = {} /\ einsert = {} /\ k \in eopen
    /\ eopen' = eopen \ {k}
    /\ UNCHANGED <<adminVars, tasks, row, event, clockVars, procVars, queueVars, marking, epc,
                   esnap, erules, ecur, enext, eobs, eclose, einsert, ctlVars, excused>>

\* The inserted event becomes visible. From now on it may only be closed for
\* something not known yet, or already recorded where an evaluation reads it.
Publish(k) ==
    /\ event' = [event EXCEPT ![k] = FreshNumber(k)]
    /\ excused' = IF \/ ~Current(k) \/ k.rule \notin mounted \/ gone
                     \/ Reading(k.rule, row) = "below"
                     \/ snap # NoSnapshot /\ Reading(k.rule, snap) = "below"
                  THEN excused \cup {k} ELSE excused \ {k}

Commit(k) ==
    /\ k \in einsert
    /\ einsert' = {}
    /\ Publish(k)
    /\ enext' = [enext EXCEPT ![k] = Firing(event'[k])]
    /\ UNCHANGED <<adminVars, tasks, row, clockVars, procVars, queueVars, marking, epc,
                   esnap, erules, ecur, eobs, eclose, eopen, ctlVars, upsets>>

\* The commit fails, or succeeds without the worker learning of it.
CommitFails(k) ==
    /\ Upset
    /\ k \in einsert
    /\ einsert' = {}
    /\ Publish(k) \/ UNCHANGED <<event, excused>>
    /\ UNCHANGED <<adminVars, tasks, row, clockVars, procVars, queueVars, marking, epc,
                   esnap, erules, ecur, enext, eobs, eclose, eopen, ctlVars>>

\* shouldHeartbeatFiring.
HeartbeatDue == {k \in eobs \cap elapsed : IsFiring(enext[k])}

\* saveRuntimeState: an entry is written if it is still what was loaded.
SaveRuntimeState(final) ==
    runtime' = [k \in Keys |-> IF runtime[k] = ecur[k] THEN final[k] ELSE runtime[k]]

\* flushHeartbeats, saveRuntimeState and FinishDirtyServer. TouchOpenEvent
\* drops the state of an event that is not open any more; some of the writes
\* may fail. The entry, and its snapshot, go unless the server was marked.
Finish ==
    /\ epc = "write" /\ eclose = {} /\ eopen = {} /\ einsert = {}
    /\ \E touched \in SUBSET HeartbeatDue :
        /\ \/ touched = HeartbeatDue /\ UNCHANGED upsets
           \/ touched # HeartbeatDue /\ Upset
        /\ SaveRuntimeState([k \in Keys |-> IF k \in touched /\ ~IsOpen(k, enext[k].event)
                                            THEN None ELSE enext[k]])
        /\ elapsed' = {k \in elapsed \ touched : runtime'[k] = runtime[k]}
    /\ EvalReset
    /\ snap' = IF owed THEN snap ELSE NoSnapshot
    /\ UNCHANGED <<adminVars, tasks, row, event, staleTo, grace, up, cache, owed, marking,
                   ctlVars, excused>>

EvalStep ==
    \/ Take \/ Refresh \/ Load \/ Fetch \/ Evaluate
    \/ \E k \in Keys : Close(k) \/ Insert(k) \/ Commit(k)
    \/ Finish

EvalFault ==
    \/ EvalError
    \/ \E k \in Keys : CloseFails(k) \/ OpenSkipped(k) \/ CommitFails(k)
-----------------------------------------------------------------------------
(* The control loop *)

CtlReset ==
    /\ cpc' = "idle" /\ clisted' = FALSE /\ ctask' = FullTask /\ cinvalid' = {}
    /\ ctodo' = {} /\ cdrops' = {} /\ caffected' = FALSE

\* TakeNextControlTask and the forced refresh of controlTask. The task stays
\* pending while it is worked on; one for a new rule closes no generation.
TakeTask(t) ==
    /\ up /\ cpc = "idle" /\ t \in tasks
    /\ ctask' = t
    /\ cache' = Compilable
    /\ cinvalid' = Compilable \cap Invalid
    /\ cpc' = IF t # FullTask /\ t.old > 0 THEN "generation" ELSE "invalid"
    /\ UNCHANGED <<adminVars, tasks, row, event, clockVars, up, runtime, queueVars, marking,
                   evalVars, clisted, ctodo, cdrops, caffected, excused, upsets>>

\* The open events that each part of a task goes through.
Listed ==
    CASE cpc = "generation" -> OpenIds({k \in KeysOf(ctask.rule) : k.generation = ctask.old})
      [] cpc = "invalid"    -> OpenIds(cinvalid)
      [] cpc = "deleted"    -> IF gone THEN OpenIds(Keys) ELSE {}
      [] cpc = "restore"    -> OpenIds(Keys)

\* What controlTask does next, by the type of the task.
NextPart ==
    CASE cpc = "generation" -> "invalid"
      [] cpc = "invalid"    -> IF ctask = FullTask THEN "deleted" ELSE "enqueue"
      [] cpc = "deleted"    -> "restore"
      [] cpc = "restore"    -> "enqueue"

\* ListOpenEventsByRule, ListOpenEventsForDeletedServers, ListOpenEvents. With
\* nothing to go through the loop is at the next part.
ListEvents ==
    /\ cpc \in {"generation", "invalid", "deleted", "restore"} /\ ~clisted
    /\ ctodo' = Listed
    /\ clisted' = (Listed # {})
    /\ cpc' = IF Listed = {} THEN NextPart ELSE cpc
    /\ cdrops' = IF cpc = "deleted" THEN {id.key : id \in Listed} ELSE {}
    /\ caffected' = (caffected \/ (cpc # "restore" /\ Listed # {}))
    /\ UNCHANGED <<adminVars, tasks, row, event, clockVars, procVars, queueVars, marking,
                   evalVars, ctask, cinvalid, excused, upsets>>

\* One WriteCloseTransition of closeGeneration, closeInvalid, closeDeletedServers.
CloseListed(id) ==
    /\ cpc # "restore" /\ id \in ctodo
    /\ CloseEvent(id.key, id.number)
    /\ ctodo' = ctodo \ {id}
    /\ UNCHANGED <<adminVars, tasks, row, clockVars, procVars, queueVars, marking,
                   evalVars, cpc, clisted, ctask, cinvalid, cdrops, caffected, excused, upsets>>

\* All listed events are closed; closeDeletedServers drops their states.
ClosingDone ==
    /\ cpc \in {"generation", "invalid", "deleted"} /\ clisted /\ ctodo = {}
    /\ runtime' = [k \in Keys |-> IF k \in cdrops THEN None ELSE runtime[k]]
    /\ elapsed' = elapsed \ cdrops
    /\ cdrops' = {}
    /\ cpc' = NextPart
    /\ clisted' = FALSE
    /\ UNCHANGED <<adminVars, tasks, row, event, staleTo, grace, up, cache, queueVars, marking,
                   evalVars, ctask, cinvalid, ctodo, caffected, excused, upsets>>

\* Fault: open events without a state in memory are left alone.
RestoredNothing(ids, states) == states

\* The states that a list of open events stands for.
Restored(ids, states) ==
    [k \in Keys |-> IF \E id \in ids : id.key = k
                    THEN Firing((CHOOSE id \in ids : id.key = k).number)
                    ELSE states[k]]

\* The second half of restoreOpenRuntime merges the list it read before.
Merge ==
    /\ cpc = "restore" /\ clisted
    /\ runtime' = Restored(ctodo, runtime)
    /\ elapsed' = {k \in elapsed : runtime'[k] = runtime[k]}
    /\ ctodo' = {} /\ clisted' = FALSE
    /\ cpc' = "enqueue"
    /\ UNCHANGED <<adminVars, tasks, row, event, staleTo, grace, up, cache, queueVars, marking,
                   evalVars, ctask, cinvalid, cdrops, caffected, excused, upsets>>

\* Fault: servers without a state in memory are not evaluated again.
TargetedKnown == caffected \/ runtime # NoStates

\* markServersDirty and enqueueTargets.
Targeted ==
    \/ caffected
    \/ row.seq > 0 /\ ~gone
    \/ runtime # NoStates
    \/ ctask = FullTask /\ Open # {}

\* The server is marked and the task deleted, or the deletion fails.
Enqueue ==
    /\ cpc = "enqueue"
    /\ owed' = (owed \/ Targeted)
    /\ \/ tasks' = tasks \ {ctask} /\ UNCHANGED upsets
       \/ UNCHANGED tasks /\ Upset
    /\ CtlReset
    /\ UNCHANGED <<adminVars, row, event, clockVars, procVars, snap, marking, evalVars,
                   excused>>

\* A query or a write failed: RetryControlTask leaves the task for later. A
\* close may have been committed all the same.
ControlFails ==
    /\ Upset
    /\ cpc # "idle"
    /\ \/ UNCHANGED event
       \/ cpc # "restore" /\ \E id \in ctodo : CloseEvent(id.key, id.number)
    /\ CtlReset
    /\ UNCHANGED <<adminVars, tasks, row, clockVars, procVars, queueVars, marking,
                   evalVars, excused>>

ControlStep ==
    \/ \E t \in tasks : TakeTask(t)
    \/ ListEvents \/ ClosingDone \/ Merge \/ Enqueue
    \/ \E id \in ctodo : CloseListed(id)

\* runFullReconcileTicker; the dedupe key keeps one full task at a time.
Tick ==
    /\ up /\ FullTask \notin tasks
    /\ tasks' = tasks \cup {FullTask}
    /\ UNCHANGED <<adminVars, row, event, clockVars, procVars, queueVars, marking, evalVars,
                   ctlVars, excused, upsets>>

-----------------------------------------------------------------------------
(* The process *)

\* Memory is lost, and with it an insert that was not committed.
Crash ==
    /\ up /\ Upset
    /\ up' = FALSE /\ cache' = {} /\ runtime' = NoStates
    /\ elapsed' = {} /\ grace' = FALSE
    /\ owed' = FALSE /\ snap' = NoSnapshot /\ marking' = FALSE
    /\ EvalReset /\ CtlReset
    /\ UNCHANGED <<adminVars, tasks, row, event, staleTo, excused>>

\* NewService and Run, up to starting the loops: rules, rebuildRuntimeFromOpenEvents
\* with closeDeletedServers, and a full task.
Start ==
    /\ ~up
    /\ up' = TRUE /\ grace' = TRUE
    /\ cache' = Compilable
    /\ event' = IF gone THEN [k \in Keys |-> 0] ELSE event
    /\ runtime' = IF gone THEN NoStates ELSE Restored(OpenIds(Keys), NoStates)
    /\ tasks' = tasks \cup {FullTask}
    /\ UNCHANGED <<adminVars, row, staleTo, elapsed, queueVars, marking, evalVars, ctlVars,
                   excused, upsets>>

Admin ==
    \/ \E r \in Rules : CreateRule(r) \/ PatchRule(r) \/ DeleteRule(r)
    \/ \E r \in AllRules, on \in BOOLEAN : SetRuleMounts(r, on)
    \/ DeleteNode

Ingest == (\E obs \in Observations : SaveMetrics(obs)) \/ MarkServerMetrics \/ MarkLost

Next ==
    \/ Admin \/ Ingest
    \/ GoStale \/ PeriodOver
    \/ EvalStep \/ EvalFault
    \/ ControlStep \/ ControlFails \/ Tick
    \/ Crash \/ Start

Spec == Init /\ [][Next]_vars

\* The goroutines run, the clock advances, the process is restarted, and a
\* server that is not stale goes on reporting. Nothing is assumed of the order
\* of tasks and nobody has to change anything; faults are finitely many.
FairSpec ==
    /\ Spec
    /\ WF_vars(EvalStep) /\ WF_vars(ControlStep) /\ WF_vars(Tick)
    /\ WF_vars(RepeatReport \/ MarkServerMetrics)
    /\ WF_vars(PeriodOver) /\ WF_vars(Start)

-----------------------------------------------------------------------------
(* Properties *)

\* An open event is closed only for a reason that arose after it was opened, or
\* that was recorded but not yet evaluated then: its rule was changed, deleted
\* or unmounted, its server deleted, or a report cleared its condition
\* (EvaluateServer, controlTask). A stale report, a missing field, a failed
\* write, a restart or rules cached too long never close one.
CloseIsJustified == [][\A k \in Open : event'[k] = 0 => k \in excused]_vars

\* Nothing about the server, its rules or its last report keeps this event.
Unwanted(k) ==
    \/ gone \/ ~Current(k) \/ k \in Invalid \/ k.rule \notin mounted
    \/ Reading(k.rule, row) = "below"

\* An open event whose reason is gone is closed, or the reason comes back: by
\* the evaluation the change led to, or after a failed write, a lost mark, a
\* crash or an overwritten state by one that the full reconcile leads to.
UnwantedEventsClose ==
    \A k \in Keys : k \in Open /\ Unwanted(k) ~> k \notin Open \/ ~Unwanted(k)

Wanted(k) ==
    /\ ~gone /\ Current(k) /\ k \notin Invalid /\ k.rule \in mounted
    /\ row.seq > 0 /\ Reading(k.rule, row) = "above"

\* A condition that holds and goes on holding has an open event in the end, an
\* offline server included: not even a state that still fires for a closed
\* event (restoreOpenRuntime merges a list that is no longer true) suppresses
\* it for ever, since the heartbeat finds it out.
WantedEventsOpen == \A k \in Keys : Wanted(k) ~> k \in Open \/ ~Wanted(k)

\* docs/breaking-changes.md: the open events of stored rules that are invalid
\* now are closed "with the `rule_invalid` reason", so by closeInvalid, unless
\* the rule was changed or the server deleted meanwhile.
InvalidClosedAsInvalid ==
    [][\A k \in Open \cap Invalid :
          event'[k] = 0 /\ Current(k) /\ ~gone => cpc = "invalid" /\ clisted]_vars
-----------------------------------------------------------------------------
(* The inductive invariant behind CloseIsJustified. *)

\* The rule has left this generation, for good.
Past(k) == k.rule \in Rules /\ rule[k.rule].generation > k.generation

\* A snapshot that clears the condition of an open event is a reason to close it.
ClearsExcused(s) == \A k \in Open : Reading(k.rule, s) = "below" => k \in excused

\* What PostgreSQL and the queue say against an open event is a reason, also if
\* it was there before the event.
Standing ==
    /\ gone => excused = Keys
    /\ Invalid \subseteq excused
    /\ \A k \in Open : ~Current(k) \/ k.rule \notin mounted => k \in excused
    /\ ClearsExcused(row) /\ ClearsExcused(snap)

\* Rules in the cache were in force once; they lack no event that is to stay.
CacheKnows ==
    /\ up => Open \subseteq cache \cup excused
    /\ \A k \in cache : Current(k) \/ Past(k)
    /\ \A k \in erules : k \in cache \/ Past(k)

\* What the worker has read and decided to close is justified until it writes, if
\* the event is still the one it was decided for; and what it will open, the cache has.
WorkerKnows ==
    /\ epc # "idle" => up
    /\ epc \notin {"idle", "write"} => ClearsExcused(esnap)
    /\ epc \in {"load", "fetch", "evaluate"} => Open \subseteq erules \cup excused
    /\ epc # "write" => eclose = {} /\ eopen = {} /\ einsert = {}
    /\ \A k \in eclose : IsOpen(k, ecur[k].event) => k \in excused
    /\ \A k \in eopen \cup einsert : k \notin Invalid /\ (k \in cache \/ Past(k))
    /\ einsert \cap Open = {}

\* So is what the control loop has listed to close. A task names a past generation.
ControlKnows ==
    /\ \A t \in tasks \cup {ctask} : t # FullTask /\ t.old > 0 => rule[t.rule].generation > t.old
    /\ cpc = "generation" => ctask # FullTask /\ ctask.old > 0
    /\ cinvalid \subseteq Invalid
    /\ cpc \in {"idle", "enqueue"} \/ ~clisted => ctodo = {}
    /\ \A i, j \in ctodo : i.key = j.key => i = j
    /\ cpc # "restore" => \A id \in ctodo : IsOpen(id.key, id.number) => id.key \in excused

AlertInv == TypeOK /\ Standing /\ CacheKnows /\ WorkerKnows /\ ControlKnows
=============================================================================
