---------------------------- MODULE TrafficReports ----------------------------
(***************************************************************************)
(* The computations of internal/store/traffic that have no state: billing  *)
(* cycles from a node's cycle settings, the settings' own normalisation,   *)
(* and the statistics a report is made of.                                 *)
(*                                                                         *)
(* A date stands for local midnight and a reference time is a date too;    *)
(* time zones are left out, and with them days of 23 and 25 hours.         *)
(* Statistics count time in five-minute buckets, and rates are in bytes    *)
(* per bucket.                                                             *)
(***************************************************************************)
EXTENDS Integers, FiniteSets, SequencesExt

CONSTANTS
    MaxInt64,           \* the largest byte count
    MinP95Samples,      \* trafficMinP95Samples
    DayBuckets          \* five-minute buckets of a day

-----------------------------------------------------------------------------
(* The calendar, as time.Date and AddDate compute it.  A date is a number, 32 *)
(* for each month and one for each day, so that dates compare as numbers do.  *)

Encode(month, d) == 32 * month + d          \* month counts the months since year 0
MonthOf(x) == x \div 32
YearOf(x) == x \div 384
DayOf(x) == x % 32
DaysInMonth(month) ==
    LET y == month \div 12 IN
    CASE (month % 12) + 1 \in {4, 6, 9, 11} -> 30
      [] (month % 12) + 1 = 2 -> IF y % 4 = 0 /\ (y % 100 # 0 \/ y % 400 = 0) THEN 29 ELSE 28
      [] OTHER -> 31

\* A day beyond the end of the month falls into the next one.
Normal(month, d) ==
    IF d > DaysInMonth(month) THEN Encode(month + 1, d - DaysInMonth(month)) ELSE Encode(month, d)
Date(y, m, d) == Normal(12 * y + m - 1, d)
AddMonths(x, k) == Normal(MonthOf(x) + k, DayOf(x))

-----------------------------------------------------------------------------
(* Billing cycles.  A rule has a mode, a day and an anchor date. *)

TrafficBoundaryInMonth(mode, day, month) ==
    Normal(month, CASE mode = "calendar_month" -> 1
                    [] mode = "clamp_to_month_end" -> Min({day, DaysInMonth(month)})
                    [] OTHER -> day)
TrafficBoundariesAround(mode, day, ref) ==
    {TrafficBoundaryInMonth(mode, day, m) : m \in 12 * (YearOf(ref) - 2) .. 12 * (YearOf(ref) + 3) - 1}

\* Every boundary is a month after the one before it, so that a day that has
\* overflowed once stays where it fell.
Monthly(from, count) ==
    LET walk[i \in 0 .. count] == IF i = 0 THEN from ELSE AddMonths(walk[i - 1], 1)
    IN  {walk[i] : i \in 0 .. count}
WhmcsBoundariesFromAnchor(anchor, ref) ==
    LET seen == {b \in Monthly(anchor, MonthOf(ref) - MonthOf(anchor) + 4) : b >= AddMonths(ref, -2)}
        past == {b \in seen : b > AddMonths(ref, 2)}
    IN  {b \in seen : past # {} => b <= Min(past)}

\* Fault: the boundaries restart every year, whatever the anchor.
WhmcsBoundariesByYear(rule, ref) == Monthly(Date(YearOf(ref) - 1, 12, rule.day), 29)
WhmcsBoundariesAround(rule, ref) ==
    IF rule.anchor > ref THEN Monthly(Date(YearOf(ref) - 1, 12, rule.day), 29)
    ELSE WhmcsBoundariesFromAnchor(rule.anchor, ref)
CycleBoundariesAround(rule, ref) ==
    IF rule.mode = "whmcs_compatible" THEN WhmcsBoundariesAround(rule, ref)
    ELSE TrafficBoundariesAround(rule.mode, rule.day, ref)

\* The cycle that holds ref, as a set: empty when the code returns an error.
CycleAt(rule, ref) ==
    LET B == CycleBoundariesAround(rule, ref)
        low == {b \in B : b <= ref}
        high == {b \in B : b > ref}
    IN  IF low = {} \/ high = {} THEN {} ELSE {[start |-> Max(low), end |-> Min(high)]}

\* The cycle before one, or nothing.
PreviousCycle(rule, c) ==
    LET B == CycleBoundariesAround(rule, c.start)
        low == {b \in B : b < c.start}
    IN  IF low = {} \/ low = B THEN {} ELSE {[start |-> Max(low), end |-> c.start]}

\* closed: the cycles that ended by ref and after since, latest first, at most 24;
\* nothing when one of the steps back fails.
ClosedCycles(rule, ref, since) ==
    LET back(list, i) ==
          UNION {IF Last(l).end > since THEN {l \o <<p>> : p \in PreviousCycle(rule, Last(l))} ELSE {l} : l \in list}
        first == {<<p>> : p \in UNION {PreviousCycle(rule, c) : c \in CycleAt(rule, ref)}}
    IN  {SelectSeq(l, LAMBDA c : c.end > since) : l \in FoldLeft(back, first, [i \in 1 .. 24 |-> i])}

\* TrafficMonthly: the cycles a monthly report goes through, latest first.  The step back is
\* taken after the last month too, so that it fails the report when there is no cycle to go to.
TrafficMonthly(rule, ref, period, months) ==
    LET back(list, i) == UNION {{l \o <<p>> : p \in PreviousCycle(rule, Last(l))} : l \in list}
        first == {<<c>> : c \in CycleAt(rule, ref)}
        chains == FoldLeft(back, first, [i \in 1 .. (IF period = "current" THEN months ELSE months + 1) |-> i])
    IN  {SubSeq(l, IF period = "current" THEN 1 ELSE 2, Len(l) - 1) : l \in chains}

-----------------------------------------------------------------------------
(* Cycle settings.  Results are sets: empty for an error. *)

Modes == {"calendar_month", "clamp_to_month_end", "whmcs_compatible"}
NoAnchor == 0       \* the empty string
BadAnchor == 1      \* a text that is no date
IsDate(a) == a > BadAnchor

\* NewCycleRule: which settings make a rule.
NewCycleRule(mode, day, anchor) ==
    /\ mode \in Modes /\ day \in 1 .. 31
    /\ mode = "calendar_month" => day = 1 /\ anchor = NoAnchor
    /\ mode = "clamp_to_month_end" => anchor = NoAnchor
    /\ mode = "whmcs_compatible" => IsDate(anchor) /\ DayOf(anchor) = day

\* NormalizeServerCycleSettings; zone tells whether the time zone exists.
NormalizeServerCycleSettings(s) ==
    IF \/ s.mode \notin Modes \cup {"default"} \/ ~s.zone
       \/ (s.mode = "whmcs_compatible" \/ s.anchor # NoAnchor) /\ ~IsDate(s.anchor)
       \/ s.mode \in {"clamp_to_month_end", "whmcs_compatible"} /\ s.day \notin 1 .. 31
    THEN {}
    ELSE {CASE s.mode \in {"default", "calendar_month"} -> [s EXCEPT !.mode = "calendar_month", !.day = 1, !.anchor = NoAnchor]
            [] s.mode = "whmcs_compatible" -> [s EXCEPT !.day = DayOf(s.anchor)]
            [] OTHER -> [s EXCEPT !.anchor = NoAnchor]}

\* NormalizeSettings, the cycle's part: it refuses a bad day in every mode and looks at the
\* anchor only where one is used.
NormalizeSettings(s) ==
    IF \/ s.mode \notin Modes \/ ~s.zone \/ s.day \notin 1 .. 31
       \/ s.mode = "whmcs_compatible" /\ ~IsDate(s.anchor)
    THEN {}
    ELSE {CASE s.mode = "calendar_month" -> [s EXCEPT !.day = 1, !.anchor = NoAnchor]
            [] s.mode = "whmcs_compatible" -> [s EXCEPT !.day = DayOf(s.anchor)]
            [] OTHER -> [s EXCEPT !.anchor = NoAnchor]}

\* SettingsWithServerCycle, as EffectiveServerSettings uses it, and normalizeTrafficQuery.
EffectiveCycle(s) == UNION {NormalizeSettings(n) : n \in NormalizeServerCycleSettings(s)}
NormalizeTrafficQuery(s) == NormalizeSettings(s)

\* SettingsWithServerDirection: what a node bills, its own direction before the default one.
Directions == {"out", "both", "max"}
EffectiveDirection(global, own) ==
    IF global \notin Directions \/ own \notin Directions \cup {"default"} THEN {}
    ELSE {IF own = "default" THEN global ELSE own}

-----------------------------------------------------------------------------
(* Statistics.  Rows are a function from buckets to five-minute facts. *)

NonNegative(v) == IF v < 0 THEN 0 ELSE v

\* addTrafficBytes over all rows: the sum, or nothing on a negative or too large one.
AddTrafficBytes(bytes) ==
    LET total == MapThenSumSet(LAMBDA b : bytes[b], DOMAIN bytes)
    IN  IF (\E b \in DOMAIN bytes : bytes[b] < 0) \/ total > MaxInt64 THEN {} ELSE {total}

\* Fault: the share to discard is rounded up.
P95DiscardTooMany(values) ==
    LET drop == (Len(values) + 19) \div 20
        at(i) == Cardinality({j \in DOMAIN values : values[j] > values[i]})
        upTo(i) == at(i) + Cardinality({j \in DOMAIN values : values[j] = values[i]})
    IN  IF values = <<>> THEN 0
        ELSE values[CHOOSE i \in DOMAIN values : at(i) <= drop /\ drop < upTo(i)]

\* p95DiscardTop: in falling order, the value after a twentieth of them, rounded down.
P95DiscardTop(values) ==
    LET drop == Len(values) \div 20
        at(i) == Cardinality({j \in DOMAIN values : values[j] > values[i]})
        upTo(i) == at(i) + Cardinality({j \in DOMAIN values : values[j] = values[i]})
    IN  IF values = <<>> THEN 0
        ELSE values[CHOOSE i \in DOMAIN values : at(i) <= drop /\ drop < upTo(i)]

TrafficComplete(count, expected, gaps, resets) ==
    expected <= 0 \/ (count >= expected /\ gaps = 0 /\ resets = 0)
\* coverageRatio as a pair: of the expected samples, those that count.
CoverageRatio(count, expected) ==
    IF expected <= 0 THEN <<1, 1>> ELSE <<IF count < expected THEN count ELSE expected, expected>>

ApplyP95Status(usage, enabled, available, samples) ==
    CASE usage = "lite" -> "lite_mode"
      [] ~enabled -> "disabled"
      [] available -> "available"
      [] samples < MinP95Samples -> "insufficient_samples"
      [] OTHER -> "snapshot_without_p95"

\* applyTrafficSelection: the bytes and the rate of the billed direction.
ApplyTrafficSelection(direction, in, out, p95) ==
    CASE direction = "out" -> {[bytes |-> out, p95 |-> p95.out]}
      [] direction = "both" -> IF in + out > MaxInt64 THEN {} ELSE {[bytes |-> in + out, p95 |-> p95.both]}
      [] direction = "max" -> {[bytes |-> IF in > out THEN in ELSE out,
                                p95 |-> IF p95.in > p95.out THEN p95.in ELSE p95.out]}

\* buildTrafficStat
BuildTrafficStat(rows, start, end, direction, p95Enabled) ==
    LET B == DOMAIN rows
        in == [b \in B |-> rows[b].in]
        out == [b \in B |-> rows[b].out]
        gap(b) == rows[b].gaps
        reset(b) == rows[b].resets
        sampled == {b \in B : rows[b].samples > 0}
        at(i) == CHOOSE b \in sampled : Cardinality({c \in sampled : c < b}) = i - 1
        values(f(_)) == [i \in 1 .. Cardinality(sampled) |-> f(at(i))]
        available == p95Enabled /\ Cardinality(sampled) >= MinP95Samples
        inRate(b) == NonNegative(rows[b].inRate)
        outRate(b) == NonNegative(rows[b].outRate)
        bothRate(b) == inRate(b) + outRate(b)
        p95 == IF available
               THEN [in |-> P95DiscardTop(values(inRate)), out |-> P95DiscardTop(values(outRate)),
                     both |-> P95DiscardTop(values(bothRate))]
               ELSE [in |-> 0, out |-> 0, both |-> 0]
        expected == NonNegative(end - start)
        count == Cardinality(sampled)
        gaps == MapThenSumSet(gap, B)
        resets == MapThenSumSet(reset, B)
    IN  {[in |-> i, out |-> o, samples |-> count, expected |-> expected, gaps |-> gaps, resets |-> resets,
          complete |-> TrafficComplete(count, expected, gaps, resets), coverage |-> CoverageRatio(count, expected),
          status |-> ApplyP95Status("billing", p95Enabled, available, count), selected |-> s] :
            i \in AddTrafficBytes(in), o \in AddTrafficBytes(out),
            s \in UNION {ApplyTrafficSelection(direction, x, z, p95) :
                           x \in AddTrafficBytes(in), z \in AddTrafficBytes(out)}}

\* trafficStatEnd: a report stops at the last whole bucket, or at the end of a closed cycle.
TrafficStatEnd(cycle, ref) ==
    IF ref >= cycle.end THEN cycle.end ELSE IF ref < cycle.start THEN cycle.start ELSE ref

TrafficDayStart(t) == t - (t % DayBuckets)

\* buildTrafficDaily: the days of the effective window, cut to it.
DailyWindows(start, end) ==
    IF end <= start THEN {}
    ELSE {[start |-> IF d < start THEN start ELSE d,
           end |-> IF d + DayBuckets < end THEN d + DayBuckets ELSE end] :
            d \in {t \in TrafficDayStart(start) .. (end - 1) : t % DayBuckets = 0}}
RowsIn(rows, w) == [b \in {b \in DOMAIN rows : w.start <= b /\ b < w.end} |-> rows[b]]
BuildTrafficDaily(rows, start, end, direction, p95Enabled) ==
    {[window |-> w, stat |-> BuildTrafficStat(RowsIn(rows, w), w.start, w.end, direction, p95Enabled)] :
       w \in DailyWindows(start, end)}

\* trafficUsageSummaryForCycle: completeness and coverage of a monthly total.
UsageSummary(row, cycle, ref) ==
    LET statEnd == TrafficStatEnd(cycle, ref)
        clean == row.gaps = 0 /\ row.resets = 0
        from == IF cycle.start < row.from THEN row.from ELSE cycle.start
        until == IF statEnd < row.until THEN statEnd ELSE row.until
        total == statEnd - cycle.start
    IN  [complete |-> clean /\ row.from <= cycle.start /\ (ref >= cycle.end => row.until >= cycle.end),
         coverage |-> IF ~clean THEN <<0, 1>> ELSE IF total <= 0 THEN <<1, 1>>
                      ELSE IF until <= from THEN <<0, 1>> ELSE <<until - from, total>>]

-----------------------------------------------------------------------------
(* What the computations promise, for one input each. *)

\* From every day of a cycle the same cycle is found, the next one begins where it ends, and
\* stepping back from the next one leads to it: a byte belongs to one cycle, whichever request
\* computes it (traffic_cycle.go).
Joined(rule, ref) ==
    \A c \in CycleAt(rule, ref) :
      /\ c.start <= ref /\ ref < c.end
      /\ CycleAt(rule, c.start) = {c}
      /\ CycleAt(rule, c.end) # {}
      /\ \A n \in CycleAt(rule, c.end) : n.start = c.end /\ PreviousCycle(rule, n) = {c}

\* And the cycles closed since a time join up to the current one.
Partitions(rule, ref, since) ==
    /\ Joined(rule, ref)
    /\ \A c \in CycleAt(rule, ref) :
         /\ \A l \in ClosedCycles(rule, ref, since) : \A i \in DOMAIN l :
              CycleAt(rule, l[i].start) = {l[i]} /\ l[i].end = IF i = 1 THEN c.start ELSE l[i - 1].start
         /\ \A l \in TrafficMonthly(rule, ref, "current", 3) :
              /\ Len(l) = 3 /\ l[1] = c
              /\ TrafficMonthly(rule, ref, "previous", 2) # {} => TrafficMonthly(rule, ref, "previous", 2) = {Tail(l)}

\* What one normalisation accepts, the next one and the rule that is made from it accept
\* unchanged: a node's stored cycle never makes a later report or scan fail.
SettingsStable(s) ==
    \A n \in NormalizeServerCycleSettings(s) :
      /\ NormalizeServerCycleSettings(n) = {n}
      /\ EffectiveCycle(s) = {n} /\ NormalizeTrafficQuery(n) = {n}
      /\ NewCycleRule(n.mode, n.day, n.anchor)

\* The rate below which all but a twentieth of the samples lie.
P95Reference(values) ==
    LET V == {values[i] : i \in DOMAIN values} IN
    Min({v \in V : 20 * Cardinality({i \in DOMAIN values : values[i] > v}) <= Len(values)})

\* A monthly total that calls a closed cycle complete also calls it covered entirely.
CompleteIsCovered(row, cycle, ref) ==
    LET s == UsageSummary(row, cycle, ref) IN
    s.complete /\ ref >= cycle.end => s.coverage[1] = s.coverage[2]

\* A node's effective direction is one that can be billed, and no choice of it bills less than
\* the outgoing bytes or more than all of them.
Billable(global, own, in, out) ==
    \A d \in EffectiveDirection(global, own) :
      LET chosen == ApplyTrafficSelection(d, in, out, [in |-> 0, out |-> 0, both |-> 0]) IN
      /\ chosen = {} => in + out > MaxInt64
      /\ \A c \in chosen : out <= c.bytes /\ c.bytes <= in + out

\* The days of a report cover its window once, and their totals add up to the window's own.
DaysAddUp(rows, start, end) ==
    LET D == BuildTrafficDaily(rows, start, end, "both", FALSE)
        W == {d.window : d \in D}
        whole == BuildTrafficStat(RowsIn(rows, [start |-> start, end |-> end]), start, end, "both", FALSE)
        size(w) == w.end - w.start
        in(d) == MapThenSumSet(LAMBDA s : s.in, d.stat)
        samples(d) == MapThenSumSet(LAMBDA s : s.samples, d.stat)
    IN  /\ \A b \in start .. (end - 1) : Cardinality({w \in W : w.start <= b /\ b < w.end}) = 1
        /\ MapThenSumSet(size, W) = NonNegative(end - start)
        /\ \A s \in whole : s.in = MapThenSumSet(in, D) /\ s.samples = MapThenSumSet(samples, D)
=============================================================================
