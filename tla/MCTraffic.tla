------------------------------ MODULE MCTraffic ------------------------------
(* Traffic accounting in small scenarios, each bounding how far time goes and *)
(* how often each kind of event happens in a behaviour; and the computations  *)
(* behind the reports, one input in each initial state.                       *)
EXTENDS Traffic, TrafficReports

MCBoundaries == [r \in Rules |-> IF r = "a" THEN {-4, 3, 12} ELSE {-2, 2, 6, 14}]

Quiet == [mode |-> "lite", time |-> 6, resets |-> 0, modes |-> 0, cycles |-> 0, rebuilds |-> 0, snapshots |-> 0,
          faults |-> 0]
Billing == [Quiet EXCEPT !.mode = "billing", !.time = 5]
Repairing == [Quiet EXCEPT !.time = 4, !.cycles = 1, !.faults = 1]
MCScenarios == {Repairing,
                [Quiet EXCEPT !.cycles = 1, !.faults = 1],
                [Quiet EXCEPT !.resets = 1],
                [Quiet EXCEPT !.time = 5, !.modes = 1, !.resets = 1, !.snapshots = 2],
                [Billing EXCEPT !.modes = 2, !.rebuilds = 1],
                [Billing EXCEPT !.rebuilds = 1, !.snapshots = 1],
                [Billing EXCEPT !.time = 4, !.rebuilds = 1, !.snapshots = 1, !.faults = 1]}

-----------------------------------------------------------------------------
(* Inputs of the reports. *)

\* The days around which months end, of two years.
Refs == {x \in {Encode(m, d) : m \in 12 * 2024 .. 12 * 2026 - 1, d \in {1, 2, 3, 15, 28, 29, 30, 31}} :
           DayOf(x) <= DaysInMonth(MonthOf(x))}
Rule(m, day, anchor) == [mode |-> m, day |-> day, anchor |-> anchor]
Anchors == {Date(2023, 12, 30), Date(2024, 1, 31), Date(2024, 2, 29)}
CycleRules == {Rule("calendar_month", 1, NoAnchor)}
                \cup {Rule("clamp_to_month_end", d, NoAnchor) : d \in {15, 29, 30, 31}}
                \cup {Rule("whmcs_compatible", DayOf(a), a) : a \in Anchors}
CycleInputs ==
    {i \in [kind: {"cycle"}, rule: CycleRules, ref: Refs] :
       i.ref >= i.rule.anchor}
SettingsInputs ==
    {[kind |-> "settings", settings |-> s] :
       s \in [mode: Modes \cup {"default", "weekly"}, day: {0, 1, 15, 31, 32}, anchor: {NoAnchor, BadAnchor} \cup Anchors,
              zone: BOOLEAN]}
P95Inputs ==
    {[kind |-> "p95", values |-> [i \in 1 .. n |-> IF i <= high THEN 3 ELSE IF i <= high + 2 THEN 2 ELSE 1]] :
       n \in 19 .. 61, high \in 0 .. 4}
Fact(b) ==
    [in |-> 1 + (b % 3), out |-> 1, inRate |-> 1 + (b % 3), outRate |-> 1, samples |-> 1, gaps |-> 0, resets |-> 0]
DayInputs ==
    {[kind |-> "days", rows |-> [b \in B |-> Fact(b)], start |-> s, end |-> e] :
       B \in SUBSET (0 .. 6), s \in 0 .. 4, e \in 1 .. 7}
UsageInputs ==
    {[kind |-> "usage", row |-> r, end |-> e] : r \in [from: 0 .. 3, until: 1 .. 5, gaps: 0 .. 1, resets: {0}], e \in 1 .. 6}
DirectionInputs ==
    [kind: {"direction"}, global: Directions, own: Directions \cup {"default", "in"}, in: {0, 4, 9}, out: {0, 5, 9}]
Inputs == CycleInputs \cup SettingsInputs \cup P95Inputs \cup DayInputs \cup UsageInputs \cup DirectionInputs

-----------------------------------------------------------------------------
VARIABLES
    repairing,      \* whether this behaviour's scenario is the one liveness is checked in
    input           \* the input of this behaviour, when it has no scenario
mcvars == <<vars, repairing, input>>

Accounting == input = [kind |-> "none"]
MCInit ==
    /\ Init
    /\ repairing = (left = Repairing)
    /\ input \in {[kind |-> "none"]} \cup (IF repairing THEN Inputs ELSE {})
MCNext == Accounting /\ Next /\ UNCHANGED <<repairing, input>>
MCSpec ==
    /\ MCInit /\ [][MCNext]_mcvars
    /\ WF_mcvars(repairing /\ Accounting /\ ServiceNext /\ UNCHANGED <<repairing, input>>)
    /\ SF_mcvars(repairing /\ Accounting /\ Tick /\ UNCHANGED <<repairing, input>>)

\* Every repair of a changed billing cycle ends, failed steps and restarts included
\* (traffic_usage.go, MaterializeTrafficMonthUsageRepair).
ChangedCyclesAreRepaired == repairing => RepairsFinish

\* Billing cycles are a partition of time, from whichever day they are computed
\* (traffic_cycle.go; of a whmcs_compatible cycle, from its anchor on).
CyclesPartition ==
    input.kind = "cycle" => Partitions(input.rule, input.ref, AddMonths(input.ref, -3))

\* The 95th percentile is the one of the definition, the days of a report add up to its
\* whole, completeness never contradicts coverage, and cycle settings that one layer accepts
\* are accepted unchanged by all the others (traffic.go, daily.go, settings.go).
ReportsExact ==
    /\ input.kind = "settings" => SettingsStable(input.settings)
    /\ input.kind = "p95" => P95DiscardTop(input.values) = P95Reference(input.values)
    /\ input.kind = "days" => DaysAddUp(input.rows, input.start, input.end)
    /\ input.kind = "usage" => CompleteIsCovered(input.row, [start |-> 1, end |-> 4], input.end)
    /\ input.kind = "direction" => Billable(input.global, input.own, input.in, input.out)
==============================================================================
