------------------------------- MODULE Traffic -------------------------------
(***************************************************************************)
(* Traffic accounting: internal/traffic and the materialisers of           *)
(* internal/store/traffic.  One Service scans the stored NIC samples into  *)
(* monthly totals (usage), replays the totals of nodes whose billing cycle *)
(* changed (repairs), and in billing mode derives five-minute facts and,   *)
(* from those, monthly snapshots.  A rebuild, started by an administrator, *)
(* rewrites one node's facts.  Settings and billing cycles change at any   *)
(* moment, from HTTP handlers that do not take the write gate.             *)
(*                                                                         *)
(* Time is counted in five-minute buckets and a sample stands on a bucket  *)
(* boundary, so that a bucket is covered entirely or not at all.  A node   *)
(* has one interface with one byte counter; samples carry the time at      *)
(* which Dash received them, so they arrive in order.  A step that runs    *)
(* inside one database transaction is one action; every such action of     *)
(* the Service and of the rebuild also holds the write gate.               *)
(***************************************************************************)
EXTENDS Integers, FiniteSets, FiniteSetsExt, Functions

CONSTANTS
    Nodes,              \* node ids
    Rules,              \* billing cycle rules a node may have
    Boundaries,         \* the cycle boundaries of each rule
    Deltas,             \* bytes a node may transfer between two reports
    Settle,             \* materializeSettle: no report is stored later than this
    Chunk, Overlap,     \* trafficMaterializationChunk, trafficMaterializationOverlap
    RepairChunk,        \* trafficUsageRepairChunk
    RebuildChunk,       \* rebuildChunkSize
    MaxGap,             \* trafficMaxBillingGap
    Grace,              \* trafficSnapshotGrace
    SourceRetention, TrafficRetention,
    MaxSteps,           \* materializeMaxSteps
    MaxRepairSteps,     \* usageRepairMaxSteps
    Scenarios           \* the initial mode of each behaviour and the bounds on what happens in it

ASSUME TimesAssumption ==
    /\ {Settle, Chunk, Overlap, RepairChunk, RebuildChunk, MaxGap, Grace, SourceRetention,
        TrafficRetention, MaxSteps, MaxRepairSteps} \subseteq Nat \ {0}
    /\ Rules # {} /\ Boundaries \in [Rules -> SUBSET Int]
ASSUME ScenariosAssumption ==
    /\ Deltas \subseteq Nat
    /\ Scenarios \subseteq [mode: {"lite", "billing"}, time: Nat, resets: Nat, modes: Nat, cycles: Nat,
                           rebuilds: Nat, snapshots: Nat, faults: Nat]
\* Cycles begin before the samples do and go on for as long as time does.
ASSUME BoundariesAssumption ==
    \A r \in Rules : /\ \E b \in Boundaries[r] : b <= 0
                     /\ \A s \in Scenarios : \E b \in Boundaries[r] : b > s.time

VARIABLES
    clock,      \* now, in buckets
    samples,    \* nic_metrics: for each node a function from time to the counter
    mode,       \* traffic_settings.usage_mode
    rule,       \* the billing cycle of each node
    cursor,     \* traffic_materialization_progress: [usage, facts]
    repairs,    \* traffic_usage_repairs: a function from some nodes to scanned_until
    usage,      \* traffic_month_usage: a function from usage keys to rows
    facts,      \* traffic_5m: for each node a function from buckets to rows
    monthly,    \* traffic_monthly: a function from usage keys to snapshots
    service,    \* where the Service stands
    gate,       \* the write gate between transactions: "free", or "snapshot"
    rebuild,    \* the RebuildRunner's state and its goroutine
    lagged,     \* history: some usage window has ended before its target
    left        \* what remains of the bounds

vars == <<clock, samples, mode, rule, cursor, repairs, usage, facts, monthly, service, gate, rebuild, lagged, left>>

Never == -1        \* the zero time
Larger(a, b) == IF a < b THEN b ELSE a
Smaller(a, b) == IF a < b THEN a ELSE b
\* A row is inserted, or updated.
Put(f, x, v) == [y \in DOMAIN f \cup {x} |-> IF y = x THEN v ELSE f[y]]

-----------------------------------------------------------------------------
(* Cycles, adjacent samples and the bytes of a part of a pair. *)

\* The member of a set of times that comes next after t.
Following(T, t) == Min({u \in T : u > t})

At(r, t) == [start |-> Max({b \in Boundaries[r] : b <= t}), end |-> Following(Boundaries[r], t)]
Key(n, c) == [node |-> n, rule |-> rule[n], start |-> c.start, end |-> c.end]
Cycles(r) ==
    {[start |-> b, end |-> Following(Boundaries[r], b)] : b \in {b \in Boundaries[r] : \E u \in Boundaries[r] : u > b}}

\* Cycles that ended by ref and after since.
Closed(r, ref, since) == {c \in Cycles(r) : c.end <= ref /\ c.end > since}

Pairs(n) ==
    LET D == DOMAIN samples[n] IN
    {[from |-> t, to |-> Following(D, t)] : t \in D \ {Max(D)}}
Delta(n, p) == samples[n][p.to] - samples[n][p.from]

\* The samples of a window with the one before and the one after it, paired.
LoadTrafficRows(n, start, end) == {p \in Pairs(n) : p.to >= start /\ p.from < end}

\* math.Round(total * elapsed / duration), cut to 0 .. total
TrafficBytesAt(total, elapsed, duration) ==
    IF total <= 0 \/ elapsed <= 0 THEN 0
    ELSE IF elapsed >= duration THEN total
    ELSE (2 * total * elapsed + duration) \div (2 * duration)
BytesBetween(n, p, from, to) ==
    LET d == p.to - p.from IN
    TrafficBytesAt(Delta(n, p), to - p.from, d) - TrafficBytesAt(Delta(n, p), from - p.from, d)

-----------------------------------------------------------------------------
(* Monthly usage. *)

LastCollected(k) == IF k \in DOMAIN usage THEN usage[k].last ELSE Never

\* Fault: the progress of a row is not consulted.
UsageSegmentIgnoringProgress(n, p, c, start, end) ==
    LET k == Key(n, c)
    IN  [key |-> k, from |-> Max({p.from, start, c.start}), to |-> Min({p.to, c.end, end}), pair |-> p,
         gap |-> p.to - p.from > MaxGap]

\* mergeTrafficUsagePair: the part of a pair in one cycle that is new to its row.
UsageSegment(n, p, c, start, end) ==
    LET k == Key(n, c)
        from == Max({p.from, start, c.start, LastCollected(k)})
    IN  [key |-> k, from |-> from, to |-> Min({p.to, c.end, end}), pair |-> p,
         gap |-> p.to - p.from > MaxGap /\ ~(LastCollected(k) > Larger(p.from, c.start))]
UsageSegments(n, start, end) ==
    {s \in {UsageSegment(n, pc[1], pc[2], start, end) :
              pc \in {p \in LoadTrafficRows(n, start, end) : Delta(n, p) > 0} \X Cycles(rule[n])} :
       s.to > s.from}

\* mergeTrafficUsageReset: the counter fell between two samples.
UsageResets(n, start, end) ==
    {t \in {p.to : p \in {p \in LoadTrafficRows(n, start, end) : Delta(n, p) < 0}} :
       t >= start /\ t < end /\ t > LastCollected(Key(n, At(rule[n], t)))}

\* upsertTrafficMonthUsage adds to a row what the window contributes.
UsageRow(n, k, segments, resets) ==
    LET S == {s \in segments : s.key = k}
        R == {t \in resets : Key(n, At(rule[n], t)) = k}
        old == IF k \in DOMAIN usage THEN {usage[k]} ELSE {}
        bytes(s) == BytesBetween(n, s.pair, s.from, s.to)
        total(f(_)) == MapThenSumSet(f, old)
        oldBytes(r) == r.bytes
        oldGaps(r) == r.gaps
        oldResets(r) == r.resets
        reached == {s.to : s \in S} \cup R
    IN  [bytes |-> total(oldBytes) + MapThenSumSet(bytes, S),
         gaps |-> total(oldGaps) + Cardinality({s \in S : s.gap}),
         resets |-> total(oldResets) + Cardinality(R),
         from |-> Min({s.from : s \in S} \cup R \cup {r.from : r \in old}),
         until |-> Max(reached \cup {r.until : r \in old}),
         last |-> Max(reached \cup {r.last : r \in old})]

MaterializeUsageRange(scope, start, end) ==
    LET segs(n) == UsageSegments(n, start, end)
        rsts(n) == UsageResets(n, start, end)
        keys(n) == {s.key : s \in segs(n)} \cup {Key(n, At(rule[n], t)) : t \in rsts(n)}
        touched == UNION {keys(n) : n \in scope}
    IN  usage' = [k \in touched \cup DOMAIN usage |->
                    IF k \in touched THEN UsageRow(k.node, k, segs(k.node), rsts(k.node)) ELSE usage[k]]

\* nextMaterializationRange: the window to scan and whether it advances.
Window(at, target, floor) ==
    LET c == Larger(at, floor)
        end == Smaller(c + Chunk, target)
    IN  IF target <= c THEN [start |-> c, end |-> c, advanced |-> FALSE]
        ELSE [start |-> Larger(IF end = target THEN c - Overlap ELSE c, floor), end |-> end, advanced |-> TRUE]
HasMore(w, target) == w.advanced /\ w.end < target

Mark(field, value) == cursor' = [cursor EXCEPT ![field] = value]

\* MaterializeTrafficMonthUsage: one chunk for every node without a repair.
MaterializeTrafficMonthUsage(target) ==
    LET w == Window(cursor.usage, target, target - SourceRetention) IN
    /\ IF w.advanced
       THEN MaterializeUsageRange(Nodes \ DOMAIN repairs, w.start, w.end)
       ELSE UNCHANGED usage
    /\ Mark("usage", w.end)

\* lockNextTrafficUsageRepair: the repair that is furthest behind.
NextRepair == CHOOSE n \in DOMAIN repairs : \A m \in DOMAIN repairs : repairs[n] <= repairs[m]

\* Fault: a finished chunk ends the repair.
RepairAfterOneChunk(n, target) ==
    LET start == Larger(repairs[n], target - SourceRetention) IN
    /\ IF target > start
       THEN MaterializeUsageRange({n}, start, Smaller(start + RepairChunk, target))
       ELSE UNCHANGED usage
    /\ repairs' = Restrict(repairs, DOMAIN repairs \ {n})

\* Fault: the progress of a repair is not stored.
RepairWithoutProgress(n, target) ==
    LET start == Larger(repairs[n], target - SourceRetention)
        end == Smaller(start + RepairChunk, target)
        done == target <= start \/ end = target
    IN  /\ IF target > start THEN MaterializeUsageRange({n}, start, end) ELSE UNCHANGED usage
        /\ repairs' = IF done THEN Restrict(repairs, DOMAIN repairs \ {n}) ELSE repairs

\* MaterializeTrafficMonthUsageRepair: one chunk of the repair of node n.
Repair(n, target) ==
    LET start == Larger(repairs[n], target - SourceRetention)
        end == Smaller(start + RepairChunk, target)
        done == target <= start \/ end = target
    IN  /\ IF target > start THEN MaterializeUsageRange({n}, start, end) ELSE UNCHANGED usage
        /\ repairs' = IF done THEN Restrict(repairs, DOMAIN repairs \ {n})
                      ELSE [repairs EXCEPT ![n] = end]

-----------------------------------------------------------------------------
(* Five-minute facts. *)

\* buildTraffic5mRows: the pair that covers bucket b, and the pairs that reset in it.
Covering(n, b) == {p \in Pairs(n) : p.from <= b /\ b < p.to /\ Delta(n, p) >= 0}
Reset(n, b) == {p \in Pairs(n) : p.to = b /\ Delta(n, p) < 0}
FactBuckets(n) == {b \in 0 .. clock : Covering(n, b) \cup Reset(n, b) # {}}
FactRow(n, b) ==
    LET C == Covering(n, b)
        gap(p) == p.to - p.from > MaxGap
    IN  [bytes |-> SumFunctionOnSet([p \in C |-> BytesBetween(n, p, b, b + 1)], C),
         gaps |-> Cardinality({p \in C : gap(p) /\ p.from = b}),
         resets |-> Cardinality(Reset(n, b)),
         sample |-> C # {} /\ Reset(n, b) = {} /\ \A p \in C : ~gap(p)]

\* upsertTraffic5mRows replaces the rows a window yields and leaves the others.
UpsertFacts(n, start, end) ==
    LET B == {b \in FactBuckets(n) : start <= b /\ b < end} IN
    [b \in B \cup DOMAIN facts[n] |-> IF b \in B THEN FactRow(n, b) ELSE facts[n][b]]

\* deleteTraffic5mRange, then the new rows.
ReplaceFacts(n, start, end) ==
    LET B == {b \in FactBuckets(n) : start <= b /\ b < end}
        kept == {b \in DOMAIN facts[n] : ~(start <= b /\ b < end)}
    IN  [b \in B \cup kept |-> IF b \in B THEN FactRow(n, b) ELSE facts[n][b]]

\* MaterializeTraffic5m: lockFactsEnabled, then one chunk for every node.
MaterializeTraffic5m(target) ==
    LET w == Window(cursor.facts, target, target - Smaller(SourceRetention, TrafficRetention)) IN
    /\ facts' = IF mode = "billing" /\ w.advanced
                THEN [n \in Nodes |-> UpsertFacts(n, w.start, w.end)] ELSE facts
    /\ IF mode = "billing" THEN Mark("facts", w.end) ELSE UNCHANGED cursor

-----------------------------------------------------------------------------
(* Monthly snapshots. *)

BucketsIn(n, c) == {b \in DOMAIN facts[n] : c.start <= b /\ b < c.end}
FactBytes(n, c) == SumFunctionOnSet([b \in BucketsIn(n, c) |-> facts[n][b].bytes], BucketsIn(n, c))

\* trafficEffectiveWindow starts a cycle at the first sample, if it comes later.
EffectiveStart(n, c) ==
    LET D == {t \in DOMAIN samples[n] : t < c.end} IN
    IF D = {} THEN c.start ELSE Larger(c.start, Min(D))
TrafficDataComplete(n, c) ==
    LET B == BucketsIn(n, c) IN
    /\ Cardinality({b \in B : facts[n][b].sample}) >= c.end - EffectiveStart(n, c)
    /\ \A b \in B : facts[n][b].gaps = 0 /\ facts[n][b].resets = 0

TrafficSnapshotStatus(c, ref) ==
    IF ref < c.end THEN "provisional" ELSE IF ref < c.end + Grace THEN "grace" ELSE "sealed"

\* Fault: a cycle is sealed by its age alone.
SaveableByAge(status, complete, sourceComplete) == status

\* trafficMonthlySaveable: an incomplete month is not sealed.
Saveable(status, complete, sourceComplete) ==
    IF status = "sealed" /\ ~complete THEN IF sourceComplete THEN "grace" ELSE "stale" ELSE status

\* trafficMonthlySnapshotReusable
Reusable(row, sourceComplete) ==
    /\ sourceComplete => row.complete
    /\ row.status = "stale" \/ (row.status = "sealed" /\ row.complete)

TrafficSummary(n, c, ref) ==
    LET complete == TrafficDataComplete(n, c) IN
    [status |-> Saveable(TrafficSnapshotStatus(c, ref), complete, c.start >= ref - TrafficRetention),
     bytes |-> FactBytes(n, c), complete |-> complete]

-----------------------------------------------------------------------------
(* The Service: a tick runs usage, then repairs, then facts; every hour, *)
(* instead of a tick, a snapshot.  The phases of a tick are "usage",     *)
(* "repair" and "facts"; those of a snapshot "snapshot" and "save".      *)

Idle == [pc |-> "idle", mode |-> "lite", target |-> 0, left |-> 0, todo |-> {}, row |-> {}]
NoRebuild ==
    [status |-> "idle", pc |-> "none", node |-> CHOOSE n \in Nodes : TRUE, from |-> 0, until |-> 0, at |-> 0]

Init ==
    /\ clock = 0
    /\ samples = [n \in Nodes |-> [t \in {0} |-> 0]]
    /\ left \in Scenarios
    /\ mode = left.mode
    /\ rule \in [Nodes -> {CHOOSE r \in Rules : TRUE}]
    /\ cursor = [usage |-> 0, facts |-> 0]
    /\ repairs = [n \in {} |-> 0]
    /\ usage = [k \in {} |-> 0]
    /\ facts = [n \in Nodes |-> [b \in {} |-> 0]]
    /\ monthly = [k \in {} |-> 0]
    /\ service = Idle
    /\ gate = "free"
    /\ rebuild = NoRebuild
    /\ lagged = FALSE

Spend(what) == left[what] > 0 /\ left' = [left EXCEPT ![what] = @ - 1]

\* Time passes.
Pass ==
    /\ Spend("time")
    /\ clock' = clock + 1
    /\ UNCHANGED <<samples, mode, rule, cursor, repairs, usage, facts, monthly, service, gate, rebuild, lagged>>

\* A node's report is stored with the time of its reception.
Report(n) ==
    /\ clock \notin DOMAIN samples[n]
    /\ LET prior == samples[n][Max(DOMAIN samples[n])] IN
       \/ /\ \E d \in Deltas : samples' = [samples EXCEPT ![n] = Put(@, clock, prior + d)]
          /\ UNCHANGED left
       \/ /\ prior > 0
          /\ samples' = [samples EXCEPT ![n] = Put(@, clock, 0)]
          /\ Spend("resets")
    /\ UNCHANGED <<clock, mode, rule, cursor, repairs, usage, facts, monthly, service, gate, rebuild, lagged>>

\* PatchSettingsAt: entering billing moves the facts cursor to the recent past.
PatchSettingsAt(m) ==
    /\ m # mode
    /\ Spend("modes")
    /\ mode' = m
    /\ IF m = "billing" THEN Mark("facts", clock - Overlap) ELSE UNCHANGED cursor
    /\ UNCHANGED <<clock, samples, rule, repairs, usage, facts, monthly, service, gate, rebuild, lagged>>

\* resetCycleDerived, with enqueueTrafficUsageRepair
ResetCycleDerived(n, from) ==
    /\ usage' = Restrict(usage, {k \in DOMAIN usage : k.node # n \/ k.end <= from})
    /\ monthly' = Restrict(monthly, {k \in DOMAIN monthly : k.node # n \/ k.end <= from})
    /\ repairs' = [m \in DOMAIN repairs \cup {n} |->
                     IF m # n THEN repairs[m]
                     ELSE IF n \in DOMAIN repairs THEN Smaller(repairs[n], from) ELSE from]

\* The node update that changes a billing cycle, with PrepareServerCycleChange.
ChangeCycle(n, r) ==
    /\ r # rule[n]
    /\ Spend("cycles")
    /\ rule' = [rule EXCEPT ![n] = r]
    /\ ResetCycleDerived(n, Smaller(At(rule[n], clock).start, At(r, clock).start))
    /\ UNCHANGED <<clock, samples, mode, cursor, facts, service, gate, rebuild, lagged>>

\* materializeOnce: settings and target are read once for the tick.
Tick ==
    /\ service.pc = "idle"
    /\ service' = [Idle EXCEPT !.pc = "usage", !.left = MaxSteps, !.mode = mode, !.target = clock - Settle]
    /\ UNCHANGED <<clock, samples, mode, rule, cursor, repairs, usage, facts, monthly, gate, rebuild, left, lagged>>

\* The phase after the present one, when its loop ends or a step fails.
AfterPhase ==
    CASE service.pc = "usage" -> [service EXCEPT !.pc = "repair", !.left = MaxRepairSteps]
      [] service.pc = "repair" /\ service.mode = "billing" -> [service EXCEPT !.pc = "facts", !.left = MaxSteps]
      [] OTHER -> Idle
Proceed(hasMore) ==
    service' = IF hasMore /\ service.left > 1 THEN [service EXCEPT !.left = @ - 1] ELSE AfterPhase

UsageStep ==
    /\ service.pc = "usage" /\ gate = "free"
    /\ MaterializeTrafficMonthUsage(service.target)
    /\ LET more == HasMore(Window(cursor.usage, service.target, service.target - SourceRetention), service.target)
       IN  Proceed(more) /\ lagged' = (lagged \/ more)
    /\ UNCHANGED <<clock, samples, mode, rule, repairs, facts, monthly, gate, rebuild, left>>

UsageRepairStep ==
    /\ service.pc = "repair" /\ gate = "free"
    /\ IF DOMAIN repairs = {} THEN UNCHANGED <<usage, repairs>> ELSE Repair(NextRepair, service.target)
    /\ Proceed(DOMAIN repairs' # {})
    /\ lagged' = (lagged \/ DOMAIN repairs' # {})
    /\ UNCHANGED <<clock, samples, mode, rule, cursor, facts, monthly, gate, rebuild, left>>

FactsStep ==
    /\ service.pc = "facts" /\ gate = "free"
    /\ MaterializeTraffic5m(service.target)
    /\ Proceed(/\ mode = "billing"
               /\ HasMore(Window(cursor.facts, service.target,
                                 service.target - Smaller(SourceRetention, TrafficRetention)), service.target))
    /\ UNCHANGED <<clock, samples, mode, rule, repairs, usage, monthly, gate, rebuild, left, lagged>>

\* A step's transaction fails, or the budget of the repairs is spent.
StepFails ==
    /\ service.pc \in {"usage", "repair", "facts"}
    /\ Spend("faults")
    /\ service' = AfterPhase
    /\ UNCHANGED <<clock, samples, mode, rule, cursor, repairs, usage, facts, monthly, gate, rebuild, lagged>>

\* RefreshTrafficMonthlySnapshots holds the gate over many statements.
Snapshot ==
    /\ Spend("snapshots")
    /\ service.pc = "idle" /\ gate = "free"
    /\ mode = "billing"
    /\ service' = [Idle EXCEPT !.pc = "snapshot", !.target = clock,
                     !.todo = UNION {{Key(n, c) : c \in Closed(rule[n], clock, clock - TrafficRetention)} : n \in Nodes}]
    /\ gate' = "snapshot"
    /\ UNCHANGED <<clock, samples, mode, rule, cursor, repairs, usage, facts, monthly, rebuild, lagged>>

\* One month of one node: skipped when it is reusable or has no facts.
SnapshotRead(k) ==
    /\ service.pc = "snapshot" /\ k \in service.todo
    /\ LET reusable == k \in DOMAIN monthly
                         /\ Reusable(monthly[k], k.start >= service.target - TrafficRetention)
           skip == reusable \/ BucketsIn(k.node, k) = {}
       IN  service' = [service EXCEPT !.todo = IF skip THEN @ \ {k} ELSE @,
                                      !.pc = IF skip THEN "snapshot" ELSE "save",
                                      !.row = IF skip THEN {} ELSE {[key |-> k, val |-> TrafficSummary(k.node, k, service.target)]}]
    /\ UNCHANGED <<clock, samples, mode, rule, cursor, repairs, usage, facts, monthly, gate, rebuild, left, lagged>>

\* saveTrafficMonthly
SnapshotSave ==
    /\ service.pc = "save"
    /\ \E row \in service.row :
         /\ monthly' = Put(monthly, row.key, row.val)
         /\ service' = [service EXCEPT !.pc = "snapshot", !.todo = @ \ {row.key}, !.row = {}]
    /\ UNCHANGED <<clock, samples, mode, rule, cursor, repairs, usage, facts, gate, rebuild, left, lagged>>

\* The refresh ends, after its last month or at an error, and leaves the gate.
SnapshotEnds ==
    /\ service.pc \in {"snapshot", "save"}
    /\ IF service.pc = "snapshot" /\ service.todo = {} THEN UNCHANGED left ELSE Spend("faults")
    /\ service' = Idle
    /\ gate' = "free"
    /\ UNCHANGED <<clock, samples, mode, rule, cursor, repairs, usage, facts, monthly, rebuild, lagged>>

-----------------------------------------------------------------------------
(* The rebuild of one node's facts. *)

StartRebuild(n) ==
    /\ rebuild.status # "running" /\ mode = "billing"
    /\ Spend("rebuilds")
    /\ rebuild' = [NoRebuild EXCEPT !.status = "running", !.pc = "source", !.node = n]
    /\ UNCHANGED <<clock, samples, mode, rule, cursor, repairs, usage, facts, monthly, service, gate, lagged>>

\* ServerTrafficSource: the bounds of the retained samples, read once.
RebuildSource ==
    /\ rebuild.pc = "source"
    /\ LET floor == clock - Smaller(SourceRetention, TrafficRetention)
           D == {t \in DOMAIN samples[rebuild.node] : t >= floor - 1}
           start == IF D = {} THEN 0 ELSE Larger(Min(D), floor)
           end == IF D = {} THEN 0 ELSE Max(D)
       IN  rebuild' = IF end <= start THEN [rebuild EXCEPT !.status = "completed", !.pc = "none"]
                      ELSE [rebuild EXCEPT !.pc = "chunk", !.from = start, !.at = start, !.until = end]
    /\ UNCHANGED <<clock, samples, mode, rule, cursor, repairs, usage, facts, monthly, service, gate, left, lagged>>

\* Fault: a chunk refused because facts are disabled counts as rebuilt.
RebuildChunkSkips ==
    /\ rebuild.pc = "chunk" /\ gate = "free"
    /\ LET n == rebuild.node
           next == Smaller(rebuild.at + RebuildChunk, rebuild.until)
       IN  /\ facts' = IF mode = "billing" THEN [facts EXCEPT ![n] = ReplaceFacts(n, rebuild.at, next)] ELSE facts
           /\ monthly' = Restrict(monthly, {k \in DOMAIN monthly :
                                              k.node # n \/ k.end <= rebuild.at \/ k.start >= next})
           /\ rebuild' = [rebuild EXCEPT !.at = next, !.status = IF next = rebuild.until THEN "completed" ELSE @,
                                         !.pc = IF next = rebuild.until THEN "none" ELSE @]
    /\ UNCHANGED <<clock, samples, mode, rule, cursor, repairs, usage, service, gate, left, lagged>>

\* RebuildTraffic5mChunk replaces the facts of a chunk and drops the snapshots over it.
RebuildTraffic5mChunk ==
    /\ rebuild.pc = "chunk" /\ gate = "free" /\ mode = "billing"
    /\ LET n == rebuild.node
           next == Smaller(rebuild.at + RebuildChunk, rebuild.until)
       IN  /\ facts' = [facts EXCEPT ![n] = ReplaceFacts(n, rebuild.at, next)]
           /\ monthly' = Restrict(monthly, {k \in DOMAIN monthly :
                                              k.node # n \/ k.end <= rebuild.at \/ k.start >= next})
           /\ rebuild' = [rebuild EXCEPT !.at = next, !.status = IF next = rebuild.until THEN "completed" ELSE @,
                                         !.pc = IF next = rebuild.until THEN "none" ELSE @]
    /\ UNCHANGED <<clock, samples, mode, rule, cursor, repairs, usage, service, gate, left, lagged>>

\* ErrTrafficFactsDisabled, a chunk that cannot get the gate in time, or a database error
RebuildFails ==
    /\ rebuild.pc \in {"source", "chunk"}
    /\ IF rebuild.pc = "chunk" /\ gate = "free" /\ mode # "billing" THEN UNCHANGED left ELSE Spend("faults")
    /\ rebuild' = [rebuild EXCEPT !.status = "failed", !.pc = "none"]
    /\ UNCHANGED <<clock, samples, mode, rule, cursor, repairs, usage, facts, monthly, service, gate, lagged>>

\* Dash stops and starts again: what is under way is lost, what is committed stays.
Restart ==
    /\ service # Idle \/ rebuild # NoRebuild
    /\ Spend("faults")
    /\ service' = Idle
    /\ gate' = "free"
    /\ rebuild' = NoRebuild
    /\ UNCHANGED <<clock, samples, mode, rule, cursor, repairs, usage, facts, monthly, lagged>>

ServiceNext ==
    \/ Tick \/ UsageStep \/ UsageRepairStep \/ FactsStep
    \/ Snapshot \/ (\E k \in service.todo : SnapshotRead(k)) \/ SnapshotSave \/ SnapshotEnds

Next ==
    \/ Pass
    \/ \E n \in Nodes : Report(n) \/ StartRebuild(n) \/ \E r \in Rules : ChangeCycle(n, r)
    \/ \E m \in {"lite", "billing"} : PatchSettingsAt(m)
    \/ ServiceNext \/ StepFails
    \/ RebuildSource \/ RebuildTraffic5mChunk \/ RebuildFails
    \/ Restart

\* The Service's loop runs for as long as Dash does, its steps have deadlines, and
\* ticks are due twelve times as often as snapshots.
Fairness == WF_vars(ServiceNext) /\ SF_vars(Tick)

Spec == Init /\ [][Next]_vars
FairSpec == Spec /\ Fairness

-----------------------------------------------------------------------------
(* Properties. *)

UsageKeys == [node: Nodes, rule: Rules, start: Int, end: Int]

\* The types of the stored rows, and the processes' own state.
TypeOK ==
    /\ clock \in Nat /\ mode \in {"lite", "billing"} /\ rule \in [Nodes -> Rules]
    /\ \A n \in Nodes : DOMAIN samples[n] \subseteq 0 .. clock /\ DOMAIN facts[n] \subseteq 0 .. clock
    /\ cursor.usage <= clock /\ cursor.facts <= clock
    /\ DOMAIN repairs \subseteq Nodes
    /\ \A k \in DOMAIN usage \cup DOMAIN monthly : k \in UsageKeys /\ k.start < k.end
    /\ \A k \in DOMAIN usage : usage[k].from <= usage[k].until /\ usage[k].until <= clock
    /\ service.pc \in {"idle", "usage", "repair", "facts", "snapshot", "save"}
    /\ gate = "snapshot" <=> service.pc \in {"snapshot", "save"}
    /\ rebuild.status \in {"idle", "running", "completed", "failed"}
    /\ rebuild.status = "running" <=> rebuild.pc # "none"

\* The bytes of a node's samples between two times, as one computation gives them.
Expected(n, from, until) ==
    LET part(p) == BytesBetween(n, p, Larger(p.from, from), Smaller(p.to, until)) IN
    MapThenSumSet(part, {p \in Pairs(n) : Delta(n, p) > 0 /\ p.from < until /\ p.to > from})
NoSilence(n, longest) == \A p \in Pairs(n) : p.to - p.from <= longest

\* A node's samples leave the scan nothing to lose: they are never further apart than the
\* scan stays behind, or never further than the overlap while no window fell short of its target.
Steady(n) == NoSilence(n, Settle) \/ (NoSilence(n, Overlap) /\ ~lagged)

\* However its windows overlapped, however a catch-up, a repair, a cycle change and a
\* restart interleaved, a monthly total (traffic_usage.go, mergeTrafficUsagePair) never
\* counts a byte twice; and of what is still within the raw retention it counts all that it
\* says it covers, if the node reported steadily.
UsageCountsOnce ==
    \A k \in DOMAIN usage :
      LET r == usage[k] IN
      /\ r.bytes <= Expected(k.node, r.from, r.until)
      /\ Steady(k.node) => r.bytes >= Expected(k.node, Larger(r.from, clock - SourceRetention), r.until)

\* Once no repair of a node is pending, the current cycle's row reaches every closed pair the
\* live cursor has passed, and goes back to the first of them if the node reported steadily:
\* excluding the node during its repair (loadTrafficUsageRows) and handing it back at the live
\* head leaves no hole.
CurrentCycleCovered ==
    \A n \in Nodes \ DOMAIN repairs :
      LET c == At(rule[n], clock)
          k == Key(n, c)
          low == Larger(c.start, clock - SourceRetention)
      IN  \A p \in {p \in Pairs(n) : Delta(n, p) > 0 /\ p.to <= cursor.usage /\ p.to > low} :
            /\ k \in DOMAIN usage /\ usage[k].until >= p.to
            /\ Steady(n) => usage[k].from <= Larger(p.from, low)

\* The fact of a bucket is what the samples give.
Exact(n, b) ==
    /\ b \in DOMAIN facts[n] <=> b \in FactBuckets(n)
    /\ b \in DOMAIN facts[n] => facts[n][b] = FactRow(n, b)

\* A rebuild that reports completion has left the facts of its range exactly as the samples
\* give them, whatever the scanner wrote meanwhile and whichever mode switches came between
\* its chunks (rebuild.go, rebuild).
RebuildRestores ==
    rebuild.status = "completed" => \A b \in rebuild.from .. (rebuild.until - 1) : Exact(rebuild.node, b)

\* A sealed month is final: no catch-up, rebuild or mode switch that comes later makes the
\* facts disagree with the snapshot that is served (traffic.go, trafficMonthlySaveable).
SealedIsFinal ==
    \A k \in DOMAIN monthly :
      monthly[k].status = "sealed" => monthly[k].bytes = FactBytes(k.node, k)

\* Every repair ends: a node with a changed cycle comes back to the live scan.
RepairsFinish == DOMAIN repairs # {} ~> DOMAIN repairs = {}
-----------------------------------------------------------------------------
(* The inductive invariant behind RebuildRestores and SealedIsFinal. *)

LastSample(n) == Max(DOMAIN samples[n])

RowsTyped ==
    /\ clock \in Nat /\ rule \in [Nodes -> Rules]
    /\ DOMAIN samples = Nodes /\ DOMAIN facts = Nodes
    /\ \A n \in Nodes : /\ 0 \in DOMAIN samples[n] /\ DOMAIN samples[n] \subseteq 0 .. clock
                        /\ DOMAIN facts[n] \subseteq Nat
    /\ DOMAIN monthly \subseteq UsageKeys
ServiceTyped == DOMAIN service = DOMAIN Idle /\ service.todo \subseteq UsageKeys
RebuildTyped ==
    rebuild \in [status: {"idle", "running", "completed", "failed"}, pc: {"none", "source", "chunk"},
                 node: {NoRebuild.node} \cup Nodes, from: Int, until: Int, at: Int]

\* A fact without a gap or a reset lies before the node's last sample, and the samples
\* that come later do not change what it says.
FactsStay ==
    \A n \in Nodes : \A b \in DOMAIN facts[n] :
      facts[n][b].sample => b < LastSample(n) /\ facts[n][b] = FactRow(n, b)

\* A sealed month has such a fact for every bucket since samples began, at time 0.
Whole(k) ==
    \A b \in k.start .. (k.end - 1) : b >= 0 => b \in DOMAIN facts[k.node] /\ facts[k.node][b].sample
Final(k, row) == row.status = "sealed" => Whole(k) /\ row.bytes = FactBytes(k.node, k)
MonthsStay ==
    /\ \A k \in DOMAIN monthly : Final(k, monthly[k])
    /\ \A r \in service.row : r.key \in UsageKeys /\ Final(r.key, r.val)

\* What a rebuild has behind it is exact, and lies before the last sample.
RebuildKnows ==
    /\ rebuild.pc # "none" => rebuild.status = "running" /\ rebuild.node \in Nodes
    /\ rebuild.pc = "source" => rebuild.from = rebuild.until
    /\ rebuild.pc = "chunk" =>
         /\ rebuild.from <= rebuild.at /\ rebuild.at <= rebuild.until /\ rebuild.until <= LastSample(rebuild.node)
         /\ \A b \in rebuild.from .. (rebuild.at - 1) : Exact(rebuild.node, b)
    /\ rebuild.status = "completed" =>
         \/ rebuild.from = rebuild.until
         \/ /\ rebuild.node \in Nodes /\ rebuild.until <= LastSample(rebuild.node)
            /\ \A b \in rebuild.from .. (rebuild.until - 1) : Exact(rebuild.node, b)

FactsInv == RowsTyped /\ ServiceTyped /\ RebuildTyped /\ FactsStay /\ MonthsStay /\ RebuildKnows

-----------------------------------------------------------------------------
(* The inductive invariant behind CurrentCycleCovered, which is CoveredTo *)
(* of the nodes that the live scan has up to its cursor.                 *)

Current(n) == At(rule[n], clock)
CurrentKey(n) == Key(n, Current(n))
Low(n) == Larger(Current(n).start, clock - SourceRetention)
Recent(n) == {p \in Pairs(n) : Delta(n, p) > 0 /\ p.to > Low(n)}

\* What the current cycle's row says once a node's samples have been scanned up to a time: it
\* reaches them, and goes back to the first of them; and samples that are close together leave
\* no pair around that time that was not there when it was scanned.
CoveredTo(n, at) ==
    LET k == CurrentKey(n) IN
    \A p \in Recent(n) :
      /\ p.to <= at => k \in DOMAIN usage /\ usage[k].until >= p.to
      /\ NoSilence(n, Settle) /\ p.from < at /\ Low(n) < at => k \in DOMAIN usage
      /\ Steady(n) /\ k \in DOMAIN usage => usage[k].from <= Larger(p.from, Low(n))
ScannedTo(n) == IF n \in DOMAIN repairs THEN repairs[n] ELSE cursor.usage

TimesTyped ==
    /\ "time" \in DOMAIN left /\ left.time \in Nat
    /\ \A r \in Rules : \E b \in Boundaries[r] : b > clock + left.time
RowsReach ==
    \A k \in DOMAIN usage :
      /\ k.node \in Nodes /\ usage[k].from \in Int /\ usage[k].until \in Int /\ usage[k].last = usage[k].until
      /\ usage[k].from <= LastSample(k.node)

\* The live scan stays behind the reports, and the target of a tick is not behind the live scan.
ScanIsBehind ==
    /\ "usage" \in DOMAIN cursor /\ cursor.usage \in Int /\ cursor.usage <= Larger(0, clock - Settle)
    /\ service.pc \in {"usage", "repair"} =>
         /\ service.target \in Int /\ service.target <= clock - Settle
         /\ cursor.usage <= Larger(0, service.target)
\* Every set of repairs has one that is furthest behind.
HasLeast(f) == \A S \in SUBSET DOMAIN f : S # {} => \E m \in S : \A o \in S : f[m] <= f[o]
\* A repair begins before the current cycle; one that is further has been interrupted.
RepairsAreBehind ==
    /\ DOMAIN repairs \subseteq Nodes
    /\ \A n \in DOMAIN repairs :
         /\ repairs[n] \in Int
         /\ repairs[n] <= Current(n).start \/ (lagged /\ repairs[n] <= clock - Settle)
    /\ HasLeast(repairs)
UsageInv ==
    TimesTyped /\ RowsReach /\ ScanIsBehind /\ RepairsAreBehind /\ \A n \in Nodes : CoveredTo(n, ScannedTo(n))
=============================================================================
