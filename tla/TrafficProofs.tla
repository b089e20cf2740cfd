---------------------------- MODULE TrafficProofs ----------------------------
(***************************************************************************)
(* Proofs about the five-minute facts, that a completed rebuild has        *)
(* restored them and that a sealed month agrees with them for good, and    *)
(* about the monthly rows: the one of a node's current cycle has whatever  *)
(* the live scan has passed; and about the computations behind a report.   *)
(***************************************************************************)
EXTENDS Traffic, TrafficReports, FiniteSetTheorems, WellFoundedInduction, TLAPS

\* A set of natural numbers has a least element.
LEMMA LeastNatural ==
    ASSUME NEW S \in SUBSET Nat, S # {}
    PROVE  \E m \in S : \A x \in S : m <= x
<1> DEFINE R == OpToRel(<, Nat)
<1>1. IsWellFoundedOn(R, Nat)
  BY NatLessThanWellFounded
<1>2. \A x, y \in Nat : x < y => <<x, y>> \in R
  BY DEF OpToRel
<1> HIDE DEF R
<1>3. S \subseteq Nat
  OBVIOUS
<1>4. \E m \in S : \A x \in S : ~(<<x, m>> \in R)
  BY <1>1, <1>3, WFMin
<1>5. PICK m \in S : \A x \in S : ~(<<x, m>> \in R)
  BY <1>4
<1>6. \A x \in S : ~(x < m)
  BY <1>2, <1>3, <1>5
<1> QED  BY <1>3, <1>6


\* A set of integers bounded below has a least element.
LEMMA MinIs ==
    ASSUME NEW S \in SUBSET Int, S # {}, NEW low \in Int, \A x \in S : low <= x
    PROVE  Min(S) \in S /\ \A x \in S : Min(S) <= x
<1> DEFINE N == {x - low : x \in S}
<1>1. N \in SUBSET Nat /\ N # {}
  <2>1. \A x \in S : x - low \in Nat
    OBVIOUS
  <2>2. N \subseteq Nat
    BY <2>1
  <2>3. PICK x \in S : TRUE
    OBVIOUS
  <2>4. x - low \in N
    OBVIOUS
  <2> QED  BY <2>2, <2>4
<1>2. PICK m \in N : \A x \in N : m <= x
  BY <1>1, LeastNatural
<1>3. \E m0 \in S : \A x \in S : m0 <= x
  <2>1. PICK m0 \in S : m = m0 - low
    OBVIOUS
  <2>2. \A x \in S : m0 - low <= x - low
    BY <1>2, <2>1
  <2> QED  BY <2>1, <2>2
<1> QED  BY <1>3 DEF Min

\* A set of integers bounded above has a greatest element.
LEMMA MaxIs ==
    ASSUME NEW S \in SUBSET Int, S # {}, NEW high \in Int, \A x \in S : x <= high
    PROVE  Max(S) \in S /\ \A x \in S : x <= Max(S)
<1> DEFINE N == {high - x : x \in S}
<1>1. N \in SUBSET Nat /\ N # {}
  <2>1. \A x \in S : high - x \in Nat
    OBVIOUS
  <2>2. N \subseteq Nat
    BY <2>1
  <2>3. PICK x \in S : TRUE
    OBVIOUS
  <2>4. high - x \in N
    OBVIOUS
  <2> QED  BY <2>2, <2>4
<1>2. PICK m \in N : \A x \in N : m <= x
  BY <1>1, LeastNatural
<1>3. \E m0 \in S : \A x \in S : m0 >= x
  <2>1. PICK m0 \in S : m = high - m0
    OBVIOUS
  <2>2. \A x \in S : high - m0 <= high - x
    BY <1>2, <2>1
  <2> QED  BY <2>1, <2>2
<1> QED  BY <1>3 DEF Max

\* A later number at the end of a set of numbers is the next of its greatest, and
\* changes nothing else about which number is the next of which.
LEMMA NextStays ==
    ASSUME NEW D \in SUBSET Nat, D # {}, NEW c \in Nat, \A x \in D : x < c
    PROVE  /\ Max(D) \in D /\ \A x \in D : x <= Max(D)
           /\ Max(D \cup {c}) = c
           /\ Following(D \cup {c}, Max(D)) = c
           /\ \A t \in D : t # Max(D) =>
                /\ Following(D, t) \in D /\ Following(D, t) > t
                /\ Following(D \cup {c}, t) = Following(D, t)
<1>1. D \in SUBSET Int /\ c \in Int /\ \A x \in D : x <= c
  OBVIOUS
<1>2. Max(D) \in D /\ \A x \in D : x <= Max(D)
  BY <1>1, MaxIs
<1>2a. Max(D) \in Nat /\ c > Max(D)
  BY <1>2
<1>3. Max(D \cup {c}) = c
  <2>1. D \cup {c} \in SUBSET Int /\ D \cup {c} # {} /\ \A x \in D \cup {c} : x <= c
    BY <1>1
  <2>2. Max(D \cup {c}) \in D \cup {c} /\ \A x \in D \cup {c} : x <= Max(D \cup {c})
    BY <1>1, <2>1, MaxIs
  <2>3. Max(D \cup {c}) \in Int
    BY <1>1, <2>2
  <2>4. c <= Max(D \cup {c}) /\ Max(D \cup {c}) <= c
    BY <2>1, <2>2
  <2> QED  BY <1>1, <2>3, <2>4
<1>4. Following(D \cup {c}, Max(D)) = c
  <2>1. {u \in D \cup {c} : u > Max(D)} = {c}
    <3>1. \A u \in D : ~(u > Max(D))
      BY <1>2, <1>2a
    <3> QED  BY <1>2a, <3>1
  <2>2. {c} \in SUBSET Int /\ {c} # {} /\ \A x \in {c} : c <= x
    OBVIOUS
  <2>3. Min({c}) \in {c}
    BY <2>2, MinIs
  <2> QED  BY <2>1, <2>3 DEF Following
<1>5. ASSUME NEW t \in D, t # Max(D)
      PROVE  /\ Following(D, t) \in D /\ Following(D, t) > t
             /\ Following(D \cup {c}, t) = Following(D, t)
  <2> DEFINE A == {u \in D : u > t}
             E == {u \in D \cup {c} : u > t}
  <2>1. Max(D) \in A /\ A \in SUBSET Int /\ (\A x \in A : t <= x) /\ t \in Int
    <3>1. Max(D) > t
      BY <1>2, <1>2a, <1>5
    <3>2. \A x \in A : x \in Int /\ t <= x
      OBVIOUS
    <3>3. Max(D) \in A
      BY <1>2, <3>1
    <3>4. t \in Int
      OBVIOUS
    <3> QED  BY <3>2, <3>3, <3>4
  <2>2. Min(A) \in A /\ \A x \in A : Min(A) <= x
    <3> HIDE DEF A
    <3> QED  BY <2>1, MinIs
  <2>3. E \in SUBSET Int /\ E # {} /\ (\A x \in E : t <= x)
    BY <1>1, <2>1
  <2>4. Min(E) \in E /\ \A x \in E : Min(E) <= x
    <3> HIDE DEF E
    <3> QED  BY <2>1, <2>3, MinIs
  <2>5. Min(A) \in E /\ (Min(E) = c \/ Min(E) \in A)
    BY <2>2, <2>4
  <2>6. Min(A) < c
    BY <2>2
  <2>7. Min(E) = Min(A)
    <3>1. Min(E) <= Min(A)
      BY <2>4, <2>5
    <3>2. Min(E) \in Int /\ Min(A) \in Int /\ c \in Int
      BY <2>1, <2>2, <2>3, <2>4
    <3>3. Min(E) \in A
      BY <2>5, <2>6, <3>1, <3>2
    <3> QED  BY <2>2, <3>1, <3>2, <3>3
  <2>8. Min(A) \in D /\ Min(A) > t
    BY <2>2
  <2> QED  BY <2>7, <2>8 DEF Following
<1> QED  BY <1>2, <1>3, <1>4, <1>5

-----------------------------------------------------------------------------
(* What later samples leave as it is. *)

\* A node always has samples, the first at time 0, and the last of them is not in the future.
LEMMA SamplesAre ==
    ASSUME RowsTyped, NEW n \in Nodes
    PROVE  /\ DOMAIN samples[n] \in SUBSET Nat /\ DOMAIN samples[n] # {}
           /\ LastSample(n) \in DOMAIN samples[n] /\ LastSample(n) \in Nat /\ LastSample(n) <= clock
           /\ \A x \in DOMAIN samples[n] : x <= LastSample(n)
<1>1. /\ DOMAIN samples[n] \in SUBSET Nat /\ DOMAIN samples[n] # {} /\ clock \in Nat
      /\ \A x \in DOMAIN samples[n] : x < clock + 1
  BY DEF RowsTyped
<1>2. LastSample(n) \in DOMAIN samples[n] /\ \A x \in DOMAIN samples[n] : x <= LastSample(n)
  <2>1. clock + 1 \in Nat
    BY <1>1
  <2> QED  BY <1>1, <2>1, NextStays DEF LastSample
<1> QED  BY <1>1, <1>2 DEF RowsTyped

\* The two ends of a pair are samples, in this order.
LEMMA PairsAre ==
    ASSUME RowsTyped, NEW n \in Nodes, NEW p \in Pairs(n)
    PROVE  /\ p.from \in DOMAIN samples[n] /\ p.to \in DOMAIN samples[n]
           /\ p.from < p.to /\ p.to <= LastSample(n)
<1>1. /\ DOMAIN samples[n] \in SUBSET Nat /\ DOMAIN samples[n] # {} /\ clock \in Nat
      /\ \A x \in DOMAIN samples[n] : x < clock + 1 /\ x <= LastSample(n)
  BY SamplesAre DEF RowsTyped
<1>2. PICK t \in DOMAIN samples[n] \ {Max(DOMAIN samples[n])} :
        p = [from |-> t, to |-> Following(DOMAIN samples[n], t)]
  BY DEF Pairs
<1>3. /\ Following(DOMAIN samples[n], t) \in DOMAIN samples[n]
      /\ Following(DOMAIN samples[n], t) > t
  <2>1. clock + 1 \in Nat
    BY <1>1
  <2> DEFINE D == DOMAIN samples[n]
             c == clock + 1
  <2>2. D \in SUBSET Nat /\ D # {} /\ c \in Nat /\ \A x \in D : x < c
    BY <1>1, <2>1
  <2> HIDE DEF D, c
  <2>3. \A s \in D : s # Max(D) => Following(D, s) \in D /\ Following(D, s) > s
    BY <2>2, NextStays
  <2> QED  BY <1>2, <2>3 DEF D
<1>4. p.from = t /\ p.to = Following(DOMAIN samples[n], t)
  BY <1>2
<1> QED  BY <1>1, <1>2, <1>3, <1>4

\* A report adds one pair, from the last sample to now.
LEMMA ReportAddsPair ==
    ASSUME RowsTyped, NEW n \in Nodes, Report(n)
    PROVE  /\ LastSample(n) < clock /\ LastSample(n)' = clock
           /\ DOMAIN samples' = Nodes /\ \A m \in Nodes : m # n => samples'[m] = samples[m]
           /\ DOMAIN samples'[n] = DOMAIN samples[n] \cup {clock}
           /\ \A t \in DOMAIN samples[n] : samples'[n][t] = samples[n][t]
           /\ Pairs(n)' = Pairs(n) \cup {[from |-> LastSample(n), to |-> clock]}
<1> DEFINE D == DOMAIN samples[n]
<1>1. /\ clock \in Nat /\ clock \notin D /\ DOMAIN samples = Nodes
      /\ \E v : samples' = [samples EXCEPT ![n] = Put(samples[n], clock, v)]
  BY DEF Report, RowsTyped
<1>2. PICK v : samples' = [samples EXCEPT ![n] = Put(samples[n], clock, v)]
  BY <1>1
<1>3. samples'[n] = Put(samples[n], clock, v) /\ DOMAIN samples' = Nodes
  BY <1>1, <1>2
<1>4. \A m \in Nodes : m # n => samples'[m] = samples[m]
  BY <1>1, <1>2
<1>5. DOMAIN samples'[n] = D \cup {clock} /\ \A t \in D : samples'[n][t] = samples[n][t]
  BY <1>1, <1>3 DEF Put
<1>6. D \in SUBSET Nat /\ D # {} /\ \A x \in D : x < clock
  <2>1. \A x \in D : x \in Nat /\ x <= clock
    BY SamplesAre DEF RowsTyped
  <2>2. D # {}
    BY SamplesAre
  <2> QED  BY <1>1, <2>1, <2>2
<1>7. /\ Max(D) \in D /\ Max(D \cup {clock}) = clock
      /\ Following(D \cup {clock}, Max(D)) = clock
      /\ \A t \in D : t # Max(D) => Following(D \cup {clock}, t) = Following(D, t)
  <2> HIDE DEF D
  <2> QED  BY <1>1, <1>6, NextStays
<1>8. Pairs(n)' = {[from |-> t, to |-> Following(D \cup {clock}, t)] : t \in (D \cup {clock}) \ {clock}}
  BY <1>5, <1>7 DEF Pairs
<1>9. (D \cup {clock}) \ {clock} = (D \ {Max(D)}) \cup {Max(D)}
  BY <1>1, <1>7
<1>10. Pairs(n)' = Pairs(n) \cup {[from |-> LastSample(n), to |-> clock]}
  <2>1. Pairs(n) = {[from |-> t, to |-> Following(D, t)] : t \in D \ {Max(D)}}
    BY DEF Pairs
  <2>2. LastSample(n) = Max(D)
    BY DEF LastSample
  <2> HIDE DEF D
  <2> QED  BY <1>7, <1>8, <1>9, <2>1, <2>2
<1>11. LastSample(n)' = clock
  BY <1>5, <1>7 DEF LastSample
<1>12. LastSample(n) < clock
  BY <1>6, SamplesAre
<1> QED  BY <1>3, <1>4, <1>5, <1>10, <1>11, <1>12

\* The samples a bucket is computed from are all there once a later sample is stored.
LEMMA ReportKeepsRows ==
    ASSUME RowsTyped, NEW n \in Nodes, Report(n), NEW b \in Int, b < LastSample(n)
    PROVE  /\ Covering(n, b)' = Covering(n, b) /\ Reset(n, b)' = Reset(n, b)
           /\ FactRow(n, b)' = FactRow(n, b)
<1>1. /\ LastSample(n) < clock /\ LastSample(n) \in Nat /\ clock \in Nat
      /\ \A t \in DOMAIN samples[n] : samples'[n][t] = samples[n][t]
      /\ Pairs(n)' = Pairs(n) \cup {[from |-> LastSample(n), to |-> clock]}
  BY ReportAddsPair, SamplesAre DEF RowsTyped
<1>2. \A p \in Pairs(n) : Delta(n, p)' = Delta(n, p)
  BY <1>1, PairsAre DEF Delta
<1> DEFINE q == [from |-> LastSample(n), to |-> clock]
<1>3. q.from > b /\ q.to # b
  BY <1>1
<1>4. Covering(n, b)' = Covering(n, b)
  <2>1. ~(q.from <= b)
    BY <1>1, <1>3
  <2>2. \A p : p \in Covering(n, b)' <=> p \in Pairs(n)' /\ p.from <= b /\ b < p.to /\ Delta(n, p)' >= 0
    BY DEF Covering
  <2>3. \A p : p \in Covering(n, b) <=> p \in Pairs(n) /\ p.from <= b /\ b < p.to /\ Delta(n, p) >= 0
    BY DEF Covering
  <2>4. \A p : p \in Pairs(n)' <=> p \in Pairs(n) \/ p = q
    BY <1>1
  <2> HIDE DEF q
  <2>5. \A p : p \in Covering(n, b)' <=> p \in Covering(n, b)
    BY <1>2, <2>1, <2>2, <2>3, <2>4
  <2> QED  BY <2>5
<1>5. Reset(n, b)' = Reset(n, b)
  <2>2. \A p : p \in Reset(n, b)' <=> p \in Pairs(n)' /\ p.to = b /\ Delta(n, p)' < 0
    BY DEF Reset
  <2>3. \A p : p \in Reset(n, b) <=> p \in Pairs(n) /\ p.to = b /\ Delta(n, p) < 0
    BY DEF Reset
  <2>4. \A p : p \in Pairs(n)' <=> p \in Pairs(n) \/ p = q
    BY <1>1
  <2> HIDE DEF q
  <2>5. \A p : p \in Reset(n, b)' <=> p \in Reset(n, b)
    BY <1>2, <1>3, <2>2, <2>3, <2>4
  <2> QED  BY <2>5
<1>6. \A p \in Covering(n, b) : BytesBetween(n, p, b, b + 1)' = BytesBetween(n, p, b, b + 1)
  <2>1. \A p \in Covering(n, b) : Delta(n, p)' = Delta(n, p)
    BY <1>2 DEF Covering
  <2> QED  BY <2>1 DEF BytesBetween
<1>7. FactRow(n, b)' = FactRow(n, b)
  BY <1>4, <1>5, <1>6 DEF FactRow
<1> QED  BY <1>4, <1>5, <1>7

\* Only time and the reports change what the facts are computed from.
LEMMA SourcesChange ==
    ASSUME Next
    PROVE  \/ Pass
           \/ \E n \in Nodes : Report(n)
           \/ clock' = clock /\ samples' = samples
<1>1. CASE Tick \/ UsageStep \/ UsageRepairStep \/ FactsStep
  BY <1>1 DEF Tick, UsageStep, UsageRepairStep, FactsStep
<1>2. CASE Snapshot \/ (\E k \in service.todo : SnapshotRead(k)) \/ SnapshotSave \/ SnapshotEnds
  BY <1>2 DEF Snapshot, SnapshotRead, SnapshotSave, SnapshotEnds
<1>3. CASE StepFails \/ RebuildSource \/ RebuildTraffic5mChunk \/ RebuildFails \/ Restart
  BY <1>3 DEF StepFails, RebuildSource, RebuildTraffic5mChunk, RebuildFails, Restart
<1>4. CASE \E n \in Nodes : StartRebuild(n) \/ \E r \in Rules : ChangeCycle(n, r)
  BY <1>4 DEF StartRebuild, ChangeCycle
<1>5. CASE \E m \in {"lite", "billing"} : PatchSettingsAt(m)
  BY <1>5 DEF PatchSettingsAt
<1> QED  BY <1>1, <1>2, <1>3, <1>4, <1>5 DEF Next, ServiceNext

\* A fact before the last sample stays what it is, whatever happens.
LEMMA RowsStay ==
    ASSUME RowsTyped, Next, NEW n \in Nodes
    PROVE  /\ LastSample(n) \in Nat /\ LastSample(n)' \in Nat /\ LastSample(n) <= LastSample(n)'
           /\ \A b \in Int : b < LastSample(n) =>
                FactRow(n, b)' = FactRow(n, b) /\ (b \in FactBuckets(n)' <=> b \in FactBuckets(n))
<1>1. LastSample(n) \in Nat /\ clock \in Nat /\ LastSample(n) <= clock
  BY SamplesAre DEF RowsTyped
<1>2. CASE samples'[n] = samples[n] /\ clock' \in {clock, clock + 1}
  <2>1. LastSample(n)' = LastSample(n) /\ Pairs(n)' = Pairs(n)
    BY <1>2 DEF LastSample, Pairs
  <2>2. \A p : Delta(n, p)' = Delta(n, p)
    BY <1>2 DEF Delta
  <2>3. ASSUME NEW b \in Int
        PROVE  Covering(n, b)' = Covering(n, b) /\ Reset(n, b)' = Reset(n, b)
    BY <2>1, <2>2 DEF Covering, Reset
  <2>4. ASSUME NEW b \in Int
        PROVE  FactRow(n, b)' = FactRow(n, b)
    <3>1. \A p : BytesBetween(n, p, b, b + 1)' = BytesBetween(n, p, b, b + 1)
      BY <2>2 DEF BytesBetween
    <3> QED  BY <2>3, <3>1 DEF FactRow
  <2>5. ASSUME NEW b \in Int, b < LastSample(n)
        PROVE  b \in FactBuckets(n)' <=> b \in FactBuckets(n)
    <3>1. b \in 0 .. clock' <=> b \in 0 .. clock
      BY <1>1, <1>2, <2>5
    <3>2. b \in FactBuckets(n)' <=> b \in 0 .. clock' /\ Covering(n, b)' \cup Reset(n, b)' # {}
      BY DEF FactBuckets
    <3>3. b \in FactBuckets(n) <=> b \in 0 .. clock /\ Covering(n, b) \cup Reset(n, b) # {}
      BY DEF FactBuckets
    <3> QED  BY <2>3, <3>1, <3>2, <3>3
  <2> QED  BY <1>1, <2>1, <2>4, <2>5
<1>3. CASE Report(n)
  <2>1. LastSample(n)' = clock /\ clock' = clock
    BY <1>3, ReportAddsPair DEF Report
  <2>2. ASSUME NEW b \in Int, b < LastSample(n)
        PROVE  FactRow(n, b)' = FactRow(n, b) /\ (b \in FactBuckets(n)' <=> b \in FactBuckets(n))
    <3>1. Covering(n, b)' = Covering(n, b) /\ Reset(n, b)' = Reset(n, b) /\ FactRow(n, b)' = FactRow(n, b)
      BY <1>3, <2>2, ReportKeepsRows
    <3>2. b \in FactBuckets(n)' <=> b \in 0 .. clock' /\ Covering(n, b)' \cup Reset(n, b)' # {}
      BY DEF FactBuckets
    <3>3. b \in FactBuckets(n) <=> b \in 0 .. clock /\ Covering(n, b) \cup Reset(n, b) # {}
      BY DEF FactBuckets
    <3> QED  BY <2>1, <3>1, <3>2, <3>3
  <2> QED  BY <1>1, <2>1, <2>2
<1>4. CASE Pass
  BY <1>2, <1>4 DEF Pass
<1>5. ASSUME NEW m \in Nodes, Report(m), m # n
      PROVE  samples'[n] = samples[n] /\ clock' = clock
  BY <1>5, ReportAddsPair DEF Report
<1>6. CASE clock' = clock /\ samples' = samples
  BY <1>2, <1>6
<1>7. CASE \E m \in Nodes : Report(m)
  BY <1>2, <1>3, <1>5, <1>7
<1> QED  BY <1>4, <1>6, <1>7, SourcesChange

\* A fact without a gap or a reset has a sample after it.
LEMMA SampleRowsArePast ==
    ASSUME RowsTyped, NEW n \in Nodes, NEW b \in Int, FactRow(n, b).sample
    PROVE  b < LastSample(n)
<1>1. PICK p \in Pairs(n) : b < p.to
  BY DEF FactRow, Covering
<1>2. p.to \in Nat /\ LastSample(n) \in Nat /\ p.to <= LastSample(n)
  BY <1>1, PairsAre, SamplesAre
<1> QED  BY <1>1, <1>2

-----------------------------------------------------------------------------
(* The parts of the invariant that say what the rows and the processes are. *)

\* Everything starts empty, with one sample for each node.
LEMMA InitTyped ==
    ASSUME Init
    PROVE  RowsTyped /\ ServiceTyped /\ RebuildTyped
<1>1. RowsTyped
  <2>1. (CHOOSE r \in Rules : TRUE) \in Rules
    BY TimesAssumption
  <2> QED  BY <2>1 DEF Init, RowsTyped
<1>2. ServiceTyped
  BY DEF Init, ServiceTyped, Idle
<1>3. RebuildTyped
  BY DEF Init, RebuildTyped, NoRebuild
<1> QED  BY <1>1, <1>2, <1>3

\* The bucket and month rows keep their types when a window of facts is written.
LEMMA FactsAreTyped ==
    ASSUME RowsTyped, NEW n \in Nodes, NEW start, NEW end
    PROVE  DOMAIN UpsertFacts(n, start, end) \subseteq Nat /\ DOMAIN ReplaceFacts(n, start, end) \subseteq Nat
<1>1. FactBuckets(n) \subseteq Nat /\ DOMAIN facts[n] \subseteq Nat
  BY DEF RowsTyped, FactBuckets
<1>2. DOMAIN UpsertFacts(n, start, end) \subseteq FactBuckets(n) \cup DOMAIN facts[n]
  BY DEF UpsertFacts
<1>3. DOMAIN ReplaceFacts(n, start, end) \subseteq FactBuckets(n) \cup DOMAIN facts[n]
  BY DEF ReplaceFacts
<1> QED  BY <1>1, <1>2, <1>3

\* Every step keeps samples, facts and months well formed.
LEMMA RowsStep ==
    ASSUME FactsInv, Next
    PROVE  RowsTyped'
<1>1. RowsTyped
  BY DEF FactsInv
<1>2. CASE UNCHANGED <<clock, samples, rule, facts, monthly>>
  BY <1>1, <1>2 DEF RowsTyped
<1>3. CASE Pass
  <2>1. clock' = clock + 1 /\ UNCHANGED <<samples, rule, facts, monthly>>
    BY <1>3 DEF Pass
  <2>2. \A n \in Nodes : DOMAIN samples[n] \subseteq 0 .. (clock + 1)
    BY <1>1 DEF RowsTyped
  <2> QED  BY <1>1, <2>1, <2>2 DEF RowsTyped
<1>4. ASSUME NEW n \in Nodes, Report(n)
      PROVE  RowsTyped'
  <2>1. UNCHANGED <<clock, rule, facts, monthly>>
    BY <1>4 DEF Report
  <2>2. /\ DOMAIN samples' = Nodes /\ \A m \in Nodes : m # n => samples'[m] = samples[m]
        /\ DOMAIN samples'[n] = DOMAIN samples[n] \cup {clock}
    BY <1>1, <1>4, ReportAddsPair
  <2>3. ASSUME NEW m \in Nodes
        PROVE  0 \in DOMAIN samples'[m] /\ DOMAIN samples'[m] \subseteq 0 .. clock
    BY <1>1, <2>2 DEF RowsTyped
  <2> QED  BY <1>1, <2>1, <2>2, <2>3 DEF RowsTyped
<1>5. ASSUME NEW n \in Nodes, NEW r \in Rules, ChangeCycle(n, r)
      PROVE  RowsTyped'
  <2>1. /\ UNCHANGED <<clock, samples, facts>> /\ rule' = [rule EXCEPT ![n] = r]
        /\ DOMAIN monthly' \subseteq DOMAIN monthly
    BY <1>5 DEF ChangeCycle, ResetCycleDerived, Restrict
  <2>2. rule' \in [Nodes -> Rules]
    BY <1>1, <2>1 DEF RowsTyped
  <2> QED  BY <1>1, <2>1, <2>2 DEF RowsTyped
<1>6. CASE FactsStep
  <2>1. UNCHANGED <<clock, samples, rule, monthly>> /\ MaterializeTraffic5m(service.target)
    BY <1>6 DEF FactsStep
  <2>2. \/ facts' = facts
        \/ \E start, end : facts' = [n \in Nodes |-> UpsertFacts(n, start, end)]
    BY <2>1 DEF MaterializeTraffic5m
  <2>3. DOMAIN facts' = Nodes /\ \A n \in Nodes : DOMAIN facts'[n] \subseteq Nat
    <3>1. CASE facts' = facts
      BY <1>1, <3>1 DEF RowsTyped
    <3>2. ASSUME NEW start, NEW end, facts' = [n \in Nodes |-> UpsertFacts(n, start, end)]
          PROVE  DOMAIN facts' = Nodes /\ \A n \in Nodes : DOMAIN facts'[n] \subseteq Nat
      BY <1>1, <3>2, FactsAreTyped
    <3> QED  BY <2>2, <3>1, <3>2
  <2> QED  BY <1>1, <2>1, <2>3 DEF RowsTyped
<1>7. CASE SnapshotSave
  <2>1. PICK row \in service.row : monthly' = Put(monthly, row.key, row.val)
    BY <1>7 DEF SnapshotSave
  <2>2. row.key \in UsageKeys
    BY <2>1 DEF FactsInv, MonthsStay
  <2>3. DOMAIN monthly' \subseteq UsageKeys
    BY <1>1, <2>1, <2>2 DEF Put, RowsTyped
  <2>4. UNCHANGED <<clock, samples, rule, facts>>
    BY <1>7 DEF SnapshotSave
  <2> QED  BY <1>1, <2>3, <2>4 DEF RowsTyped
<1>8. CASE RebuildTraffic5mChunk
  <2>1. /\ UNCHANGED <<clock, samples, rule>> /\ DOMAIN monthly' \subseteq DOMAIN monthly
        /\ \E end : facts' = [facts EXCEPT ![rebuild.node] = ReplaceFacts(rebuild.node, rebuild.at, end)]
    BY <1>8 DEF RebuildTraffic5mChunk, Restrict
  <2>2. PICK end : facts' = [facts EXCEPT ![rebuild.node] = ReplaceFacts(rebuild.node, rebuild.at, end)]
    BY <2>1
  <2>3. rebuild.node \in Nodes
    BY <1>8 DEF FactsInv, RebuildKnows, RebuildTraffic5mChunk
  <2>4. DOMAIN ReplaceFacts(rebuild.node, rebuild.at, end) \subseteq Nat
    BY <1>1, <2>3, FactsAreTyped
  <2>5. DOMAIN facts' = Nodes /\ \A n \in Nodes : DOMAIN facts'[n] \subseteq Nat
    BY <1>1, <2>2, <2>3, <2>4 DEF RowsTyped
  <2> QED  BY <1>1, <2>1, <2>5 DEF RowsTyped
<1>9. CASE Tick \/ UsageStep \/ UsageRepairStep \/ StepFails \/ Restart
  BY <1>2, <1>9 DEF Tick, UsageStep, UsageRepairStep, StepFails, Restart
<1>10. CASE Snapshot \/ (\E k \in service.todo : SnapshotRead(k)) \/ SnapshotEnds
  BY <1>2, <1>10 DEF Snapshot, SnapshotRead, SnapshotEnds
<1>11. CASE RebuildSource \/ RebuildFails \/ \E n \in Nodes : StartRebuild(n)
  BY <1>2, <1>11 DEF RebuildSource, RebuildFails, StartRebuild
<1>12. CASE \E m \in {"lite", "billing"} : PatchSettingsAt(m)
  BY <1>2, <1>12 DEF PatchSettingsAt
<1> QED
  BY <1>3, <1>4, <1>5, <1>6, <1>7, <1>8, <1>9, <1>10, <1>11, <1>12 DEF Next, ServiceNext

\* A cycle's boundaries are integers: a boundary that is not the last has one after it.
LEMMA CyclesAre ==
    ASSUME NEW r \in Rules, NEW c \in Cycles(r)
    PROVE  c.start \in Int /\ c.end \in Int
<1> DEFINE B == Boundaries[r]
<1>1. B \in SUBSET Int
  BY TimesAssumption
<1>2. PICK b \in B : (\E u \in B : u > b) /\ c = [start |-> b, end |-> Following(B, b)]
  BY DEF Cycles
<1> HIDE DEF B
<1>3. b \in Int
  BY <1>1, <1>2
<1> DEFINE L == {d \in B : d > b}
<1>4. L \in SUBSET Int /\ L # {} /\ \A x \in L : b <= x
  <2>1. \A x \in L : x \in Int /\ b <= x
    BY <1>1, <1>3
  <2> QED  BY <1>2, <2>1
<1>5. Min(L) \in L
  <2> HIDE DEF L
  <2> QED  BY <1>3, <1>4, MinIs
<1>6. Following(B, b) \in Int
  BY <1>4, <1>5 DEF Following
<1> QED  BY <1>2, <1>3, <1>6

\* What a step leaves of the months that the Service still has to look at and has read.
LEMMA ServiceChanges ==
    ASSUME ServiceTyped, Next
    PROVE  \/ Snapshot
           \/ \E k \in service.todo : SnapshotRead(k)
           \/ /\ DOMAIN service' = DOMAIN Idle
              /\ service'.todo \subseteq service.todo /\ service'.row \subseteq service.row
<1> DEFINE Less == /\ DOMAIN service' = DOMAIN Idle
                   /\ service'.todo \subseteq service.todo /\ service'.row \subseteq service.row
<1>1. DOMAIN service = {"pc", "mode", "target", "left", "todo", "row"} /\ DOMAIN service = DOMAIN Idle
  BY DEF ServiceTyped, Idle
<1>2. CASE service' = service
  BY <1>1, <1>2
<1>3. CASE service' = Idle
  BY <1>3 DEF Idle
<1>4. CASE service' = AfterPhase
  <2>1. ASSUME NEW p, NEW l, service' = [service EXCEPT !.pc = p, !.left = l]
        PROVE  Less
    BY <1>1, <2>1
  <2>2. \/ service' = [service EXCEPT !.pc = "repair", !.left = MaxRepairSteps]
        \/ service' = [service EXCEPT !.pc = "facts", !.left = MaxSteps]
        \/ service' = Idle
    BY <1>4 DEF AfterPhase
  <2> QED  BY <1>3, <2>1, <2>2
<1>5. CASE UsageStep \/ UsageRepairStep \/ FactsStep \/ StepFails
  <2>1. service' = [service EXCEPT !.left = service.left - 1] \/ service' = AfterPhase
    <3>1. CASE UsageStep
      BY <3>1 DEF UsageStep, Proceed
    <3>2. CASE UsageRepairStep
      BY <3>2 DEF UsageRepairStep, Proceed
    <3>3. CASE FactsStep
      BY <3>3 DEF FactsStep, Proceed
    <3>4. CASE StepFails
      BY <3>4 DEF StepFails
    <3> QED  BY <1>5, <3>1, <3>2, <3>3, <3>4
  <2> QED  BY <1>1, <1>4, <2>1
<1>6. CASE Tick
  <2>1. service' = [Idle EXCEPT !.pc = "usage", !.left = MaxSteps, !.mode = mode, !.target = clock - Settle]
    BY <1>6 DEF Tick
  <2> QED  BY <2>1 DEF Idle
<1>7. CASE SnapshotSave
  <2>1. PICK row : service' = [service EXCEPT !.pc = "snapshot", !.todo = @ \ {row.key}, !.row = {}]
    BY <1>7 DEF SnapshotSave
  <2> QED  BY <1>1, <2>1
<1>8. CASE SnapshotEnds \/ Restart
  BY <1>3, <1>8 DEF SnapshotEnds, Restart
<1>9. CASE Pass \/ RebuildSource \/ RebuildTraffic5mChunk \/ RebuildFails
  BY <1>2, <1>9 DEF Pass, RebuildSource, RebuildTraffic5mChunk, RebuildFails
<1>10. CASE \E n \in Nodes : Report(n) \/ StartRebuild(n) \/ \E r \in Rules : ChangeCycle(n, r)
  BY <1>2, <1>10 DEF Report, StartRebuild, ChangeCycle
<1>11. CASE \E m \in {"lite", "billing"} : PatchSettingsAt(m)
  BY <1>2, <1>11 DEF PatchSettingsAt
<1> QED
  BY <1>5, <1>6, <1>7, <1>8, <1>9, <1>10, <1>11 DEF Next, ServiceNext

\* The months that a snapshot still has to look at are months of the cycle rules.
LEMMA ServiceStep ==
    ASSUME FactsInv, Next
    PROVE  ServiceTyped'
<1>1. ServiceTyped /\ RowsTyped
  BY DEF FactsInv
<1>2. CASE Snapshot
  <2>1. service' = [Idle EXCEPT !.pc = "snapshot", !.target = clock,
                      !.todo = UNION {{Key(n, c) : c \in Closed(rule[n], clock, clock - TrafficRetention)} : n \in Nodes}]
    BY <1>2 DEF Snapshot
  <2>2. ASSUME NEW n \in Nodes, NEW c \in Closed(rule[n], clock, clock - TrafficRetention)
        PROVE  Key(n, c) \in UsageKeys
    <3>1. c \in Cycles(rule[n]) /\ rule[n] \in Rules
      BY <1>1 DEF Closed, RowsTyped
    <3>2. c.start \in Int /\ c.end \in Int
      BY <3>1, CyclesAre
    <3> QED  BY <3>1, <3>2 DEF Key, UsageKeys
  <2>3. /\ DOMAIN service' = DOMAIN Idle
        /\ service'.todo = UNION {{Key(n, c) : c \in Closed(rule[n], clock, clock - TrafficRetention)} : n \in Nodes}
    BY <2>1 DEF Idle
  <2>4. service'.todo \subseteq UsageKeys
    BY <2>2, <2>3
  <2> QED  BY <2>3, <2>4 DEF ServiceTyped, Idle
<1>3. ASSUME NEW k \in service.todo, SnapshotRead(k)
      PROVE  ServiceTyped'
  <2>1. PICK skip, r :
          service' = [service EXCEPT !.todo = IF skip THEN @ \ {k} ELSE @,
                                     !.pc = IF skip THEN "snapshot" ELSE "save", !.row = r]
    BY <1>3 DEF SnapshotRead
  <2>2. DOMAIN service' = DOMAIN service /\ service'.todo \subseteq service.todo
    BY <1>1, <2>1 DEF ServiceTyped, Idle
  <2> QED  BY <1>1, <2>2 DEF ServiceTyped, Idle
<1>4. CASE DOMAIN service' = DOMAIN Idle /\ service'.todo \subseteq service.todo
  BY <1>1, <1>4 DEF ServiceTyped, Idle
<1> QED  BY <1>1, <1>2, <1>3, <1>4, ServiceChanges

-----------------------------------------------------------------------------
(* The facts. *)

\* Only the scan and the rebuild write facts.
LEMMA FactsWriters ==
    ASSUME Next
    PROVE  FactsStep \/ RebuildTraffic5mChunk \/ facts' = facts
<1>1. CASE Pass \/ Tick \/ UsageStep \/ UsageRepairStep
  BY <1>1 DEF Pass, Tick, UsageStep, UsageRepairStep
<1>2. CASE Snapshot \/ (\E k \in service.todo : SnapshotRead(k)) \/ SnapshotSave \/ SnapshotEnds
  BY <1>2 DEF Snapshot, SnapshotRead, SnapshotSave, SnapshotEnds
<1>3. CASE StepFails \/ RebuildSource \/ RebuildFails \/ Restart
  BY <1>3 DEF StepFails, RebuildSource, RebuildFails, Restart
<1>4. CASE \E n \in Nodes : Report(n) \/ StartRebuild(n) \/ \E r \in Rules : ChangeCycle(n, r)
  BY <1>4 DEF Report, StartRebuild, ChangeCycle
<1>5. CASE \E m \in {"lite", "billing"} : PatchSettingsAt(m)
  BY <1>5 DEF PatchSettingsAt
<1> QED  BY <1>1, <1>2, <1>3, <1>4, <1>5 DEF Next, ServiceNext

\* Whoever writes the facts of a node, a bucket holds what it held or what the samples
\* give, and it is only dropped when they give nothing.
LEMMA FactsChange ==
    ASSUME FactsInv, Next, NEW n \in Nodes
    PROVE  \E W \in SUBSET FactBuckets(n), K \in SUBSET DOMAIN facts[n] :
             /\ DOMAIN facts'[n] = W \cup K
             /\ \A b \in W : facts'[n][b] = FactRow(n, b)
             /\ \A b \in K \ W : facts'[n][b] = facts[n][b]
             /\ \A b \in DOMAIN facts[n] \ K : b \in FactBuckets(n) => b \in W
<1>1. DOMAIN facts = Nodes
  BY DEF FactsInv, RowsTyped
<1> DEFINE Change(W, K) ==
             /\ DOMAIN facts'[n] = W \cup K
             /\ \A b \in W : facts'[n][b] = FactRow(n, b)
             /\ \A b \in K \ W : facts'[n][b] = facts[n][b]
             /\ \A b \in DOMAIN facts[n] \ K : b \in FactBuckets(n) => b \in W
<1>2. SUFFICES \E W \in SUBSET FactBuckets(n), K \in SUBSET DOMAIN facts[n] : Change(W, K)
  OBVIOUS
<1>3. CASE facts'[n] = facts[n]
  <2>1. Change({}, DOMAIN facts[n])
    BY <1>3
  <2> HIDE DEF Change
  <2> QED  BY <2>1
<1>4. ASSUME NEW start, NEW end, facts'[n] = UpsertFacts(n, start, end)
      PROVE  \E W \in SUBSET FactBuckets(n), K \in SUBSET DOMAIN facts[n] : Change(W, K)
  <2> DEFINE B == {b \in FactBuckets(n) : start <= b /\ b < end}
  <2>1. facts'[n] = [b \in B \cup DOMAIN facts[n] |-> IF b \in B THEN FactRow(n, b) ELSE facts[n][b]]
    BY <1>4 DEF UpsertFacts
  <2>2. B \in SUBSET FactBuckets(n)
    OBVIOUS
  <2> HIDE DEF B
  <2>3. Change(B, DOMAIN facts[n])
    BY <2>1
  <2> HIDE DEF Change
  <2> QED  BY <2>2, <2>3
<1>5. ASSUME NEW start, NEW end, facts'[n] = ReplaceFacts(n, start, end)
      PROVE  \E W \in SUBSET FactBuckets(n), K \in SUBSET DOMAIN facts[n] : Change(W, K)
  <2> DEFINE B == {b \in FactBuckets(n) : start <= b /\ b < end}
             kept == {b \in DOMAIN facts[n] : ~(start <= b /\ b < end)}
  <2>1. facts'[n] = [b \in B \cup kept |-> IF b \in B THEN FactRow(n, b) ELSE facts[n][b]]
    BY <1>5 DEF ReplaceFacts
  <2>2. B \in SUBSET FactBuckets(n) /\ kept \in SUBSET DOMAIN facts[n]
    OBVIOUS
  <2>3. \A b \in DOMAIN facts[n] \ kept : b \in FactBuckets(n) => b \in B
    OBVIOUS
  <2> HIDE DEF B, kept
  <2>4. Change(B, kept)
    BY <2>1, <2>3
  <2> HIDE DEF Change
  <2> QED  BY <2>2, <2>4
<1> HIDE DEF Change
<1>6. CASE FactsStep
  <2>1. facts' = facts \/ \E start, end : facts' = [m \in Nodes |-> UpsertFacts(m, start, end)]
    BY <1>6 DEF FactsStep, MaterializeTraffic5m
  <2>2. facts'[n] = facts[n] \/ \E start, end : facts'[n] = UpsertFacts(n, start, end)
    BY <2>1
  <2> QED  BY <1>3, <1>4, <2>2
<1>7. CASE RebuildTraffic5mChunk
  <2>1. \E end : facts' = [facts EXCEPT ![rebuild.node] = ReplaceFacts(rebuild.node, rebuild.at, end)]
    BY <1>7 DEF RebuildTraffic5mChunk
  <2>2. facts'[n] = facts[n] \/ \E end : facts'[n] = ReplaceFacts(n, rebuild.at, end)
    BY <1>1, <2>1
  <2> QED  BY <1>3, <1>5, <2>2
<1> QED  BY <1>3, <1>6, <1>7, FactsWriters

\* Every step keeps the facts that count as samples what the samples give.
LEMMA FactsStayStep ==
    ASSUME FactsInv, Next
    PROVE  FactsStay'
<1>1. SUFFICES ASSUME NEW n \in Nodes, NEW b \in DOMAIN facts'[n], facts'[n][b].sample
               PROVE  b < LastSample(n)' /\ facts'[n][b] = FactRow(n, b)'
  BY DEF FactsStay
<1>2. RowsTyped
  BY DEF FactsInv
<1>3. PICK W \in SUBSET FactBuckets(n), K \in SUBSET DOMAIN facts[n] :
         /\ DOMAIN facts'[n] = W \cup K
         /\ \A x \in W : facts'[n][x] = FactRow(n, x)
         /\ \A x \in K \ W : facts'[n][x] = facts[n][x]
  BY FactsChange
<1>4. b \in Int
  <2>1. FactBuckets(n) \subseteq Nat /\ DOMAIN facts[n] \subseteq Nat
    BY <1>2 DEF RowsTyped, FactBuckets
  <2> QED  BY <1>1, <1>3, <2>1
<1>5. b < LastSample(n) /\ facts'[n][b] = FactRow(n, b)
  <2>1. CASE b \in W
    <3>1. facts'[n][b] = FactRow(n, b)
      BY <1>3, <2>1
    <3> QED  BY <1>1, <1>2, <1>4, <3>1, SampleRowsArePast
  <2>2. CASE b \in K \ W
    <3>1. facts'[n][b] = facts[n][b] /\ b \in DOMAIN facts[n]
      BY <1>3, <2>2
    <3> QED  BY <1>1, <3>1 DEF FactsInv, FactsStay
  <2> QED  BY <1>1, <1>3, <2>1, <2>2
<1>6. /\ LastSample(n) \in Nat /\ LastSample(n)' \in Nat /\ LastSample(n) <= LastSample(n)'
      /\ FactRow(n, b)' = FactRow(n, b)
  BY <1>2, <1>4, <1>5, RowsStay
<1> QED  BY <1>4, <1>5, <1>6

\* A fact without a gap or a reset is never dropped or changed.
LEMMA SampleFactStays ==
    ASSUME FactsInv, Next, NEW n \in Nodes, NEW b \in DOMAIN facts[n], facts[n][b].sample
    PROVE  b \in DOMAIN facts'[n] /\ facts'[n][b] = facts[n][b]
<1>1. RowsTyped /\ b < LastSample(n) /\ facts[n][b] = FactRow(n, b)
  BY DEF FactsInv, FactsStay
<1>2. PICK W \in SUBSET FactBuckets(n), K \in SUBSET DOMAIN facts[n] :
         /\ DOMAIN facts'[n] = W \cup K
         /\ \A x \in W : facts'[n][x] = FactRow(n, x)
         /\ \A x \in K \ W : facts'[n][x] = facts[n][x]
         /\ \A x \in DOMAIN facts[n] \ K : x \in FactBuckets(n) => x \in W
  BY FactsChange
<1>3. b \in FactBuckets(n)
  <2>1. b \in Nat /\ clock \in Nat /\ LastSample(n) \in Nat /\ LastSample(n) <= clock
    BY <1>1, SamplesAre DEF RowsTyped
  <2>2. Covering(n, b) # {}
    <3>1. FactRow(n, b).sample
      BY <1>1
    <3> QED  BY <3>1 DEF FactRow
  <2>3. b \in 0 .. clock
    BY <1>1, <2>1
  <2> QED  BY <2>2, <2>3 DEF FactBuckets
<1> QED  BY <1>1, <1>2, <1>3

\* A bucket that says what the samples give, and lies before the last of them, keeps saying it.
LEMMA ExactStays ==
    ASSUME FactsInv, Next, NEW n \in Nodes, NEW b \in Int, b < LastSample(n), Exact(n, b)
    PROVE  Exact(n, b)'
<1>1. RowsTyped
  BY DEF FactsInv
<1>2. FactRow(n, b)' = FactRow(n, b) /\ (b \in FactBuckets(n)' <=> b \in FactBuckets(n))
  BY <1>1, RowsStay
<1>3. PICK W \in SUBSET FactBuckets(n), K \in SUBSET DOMAIN facts[n] :
         /\ DOMAIN facts'[n] = W \cup K
         /\ \A x \in W : facts'[n][x] = FactRow(n, x)
         /\ \A x \in K \ W : facts'[n][x] = facts[n][x]
         /\ \A x \in DOMAIN facts[n] \ K : x \in FactBuckets(n) => x \in W
  BY FactsChange
<1>4. /\ b \in DOMAIN facts[n] <=> b \in FactBuckets(n)
      /\ b \in DOMAIN facts[n] => facts[n][b] = FactRow(n, b)
  BY DEF Exact
<1>5. b \in DOMAIN facts'[n] <=> b \in FactBuckets(n)
  BY <1>3, <1>4
<1>6. b \in DOMAIN facts'[n] => facts'[n][b] = FactRow(n, b)
  BY <1>3, <1>4
<1> QED  BY <1>2, <1>5, <1>6 DEF Exact

-----------------------------------------------------------------------------
(* The months. *)

\* The parts of a month's key.
LEMMA KeysAre ==
    ASSUME NEW k \in UsageKeys
    PROVE  k.node \in Nodes /\ k.start \in Int /\ k.end \in Int
  BY DEF UsageKeys

\* A month found complete has a fact without a gap or a reset in each of its buckets: there
\* are as many as it has buckets since the node's first sample.
LEMMA CompleteIsWhole ==
    ASSUME RowsTyped, NEW k \in UsageKeys, TrafficDataComplete(k.node, k)
    PROVE  Whole(k)
<1> DEFINE n == k.node
           S == {b \in BucketsIn(n, k) : facts[n][b].sample}
           D == {t \in DOMAIN samples[n] : t < k.end}
           low == Larger(k.start, 0)
<1>1. n \in Nodes /\ k.start \in Int /\ k.end \in Int
  BY KeysAre
<1>2. DOMAIN facts[n] \subseteq Nat /\ 0 \in DOMAIN samples[n] /\ DOMAIN samples[n] \in SUBSET Nat
  BY <1>1, SamplesAre DEF RowsTyped
<1>3. Cardinality(S) >= k.end - EffectiveStart(n, k)
  BY DEF TrafficDataComplete
<1>4. low \in Int /\ low >= 0 /\ low >= k.start /\ (low = 0 \/ low = k.start)
  BY <1>1 DEF Larger
<1>5. CASE k.end <= low
  BY <1>1, <1>4, <1>5 DEF Whole
<1>6. CASE low < k.end
  <2>1. D \in SUBSET Int /\ 0 \in D /\ \A x \in D : 0 <= x
    <3>1. \A x \in D : x \in Int /\ 0 <= x
      BY <1>2
    <3>2. 0 \in D
      BY <1>1, <1>2, <1>4, <1>6
    <3> QED  BY <3>1, <3>2
  <2>2. Min(D) = 0
    <3>1. Min(D) \in D /\ \A x \in D : Min(D) <= x
      <4> HIDE DEF D
      <4> QED  BY <2>1, MinIs
    <3> QED  BY <2>1, <3>1
  <2>3. EffectiveStart(n, k) = low
    BY <2>1, <2>2 DEF EffectiveStart
  <2>4. S \subseteq low .. (k.end - 1)
    <3>1. \A b \in S : b \in Nat /\ k.start <= b /\ b < k.end
      BY <1>2 DEF BucketsIn
    <3> QED  BY <1>1, <1>4, <3>1
  <2>5. IsFiniteSet(low .. (k.end - 1)) /\ Cardinality(low .. (k.end - 1)) = k.end - low
    <3>1. k.end - 1 \in Int /\ ~(low > k.end - 1) /\ (k.end - 1) - low + 1 = k.end - low
      BY <1>1, <1>4, <1>6
    <3> HIDE DEF low
    <3> QED  BY <1>4, <3>1, FS_Interval
  <2>6. S = low .. (k.end - 1)
    <3> HIDE DEF S, low
    <3>1. Cardinality(S) <= Cardinality(low .. (k.end - 1)) /\ IsFiniteSet(S)
      BY <2>4, <2>5, FS_Subset
    <3>2. Cardinality(S) \in Nat
      BY <3>1, FS_CardinalityType
    <3>3. Cardinality(S) = Cardinality(low .. (k.end - 1))
      BY <1>1, <1>3, <1>4, <2>3, <2>5, <3>1, <3>2
    <3> QED  BY <2>4, <2>5, <3>3, FS_Subset
  <2>7. \A b \in k.start .. (k.end - 1) : b >= 0 => b \in low .. (k.end - 1)
    BY <1>1, <1>4
  <2>8. \A b \in S : b \in DOMAIN facts[n] /\ facts[n][b].sample
    BY DEF BucketsIn
  <2> QED  BY <2>6, <2>7, <2>8 DEF Whole
<1> QED  BY <1>1, <1>4, <1>5, <1>6

\* A month is only sealed when it was found complete (trafficMonthlySaveable).
LEMMA SummaryIsFinal ==
    ASSUME RowsTyped, NEW k \in UsageKeys, NEW ref, NEW row, row = TrafficSummary(k.node, k, ref)
    PROVE  Final(k, row)
<1>1. row.bytes = FactBytes(k.node, k)
  BY DEF TrafficSummary
<1>2. row.status = "sealed" => TrafficDataComplete(k.node, k)
  BY DEF TrafficSummary, Saveable
<1> QED  BY <1>1, <1>2, CompleteIsWhole DEF Final

\* A sealed month stays as it was sealed.
LEMMA FinalStays ==
    ASSUME FactsInv, RowsTyped', Next, NEW k \in UsageKeys, NEW row, Final(k, row)
    PROVE  Final(k, row)'
<1>1. SUFFICES ASSUME row.status = "sealed"
               PROVE  Whole(k)' /\ row.bytes = FactBytes(k.node, k)'
  BY DEF Final
<1>2. Whole(k) /\ row.bytes = FactBytes(k.node, k)
  BY <1>1 DEF Final
<1>3. PICK n \in Nodes : n = k.node
  BY KeysAre
<1>4. k.start \in Int /\ k.end \in Int
  BY KeysAre
<1> DEFINE M == {b \in k.start .. (k.end - 1) : b >= 0}
<1>5. \A b \in M : b \in DOMAIN facts[n] /\ facts[n][b].sample
  BY <1>2, <1>3 DEF Whole
<1>6. \A b \in M : b \in DOMAIN facts'[n] /\ facts'[n][b] = facts[n][b]
  BY <1>5, SampleFactStays
<1>7. Whole(k)'
  <2>1. \A b \in k.start .. (k.end - 1) : b >= 0 => b \in DOMAIN facts'[n] /\ facts'[n][b].sample
    BY <1>5, <1>6
  <2> QED  BY <1>3, <2>1 DEF Whole
<1>8. DOMAIN facts[n] \subseteq Nat /\ DOMAIN facts'[n] \subseteq Nat
  BY DEF FactsInv, RowsTyped
<1>9. BucketsIn(n, k) = M
  <2>1. \A b : b \in BucketsIn(n, k) <=> b \in DOMAIN facts[n] /\ k.start <= b /\ b < k.end
    BY DEF BucketsIn
  <2>2. \A b : b \in M <=> b \in DOMAIN facts[n] /\ k.start <= b /\ b < k.end
    BY <1>4, <1>5, <1>8
  <2> QED  BY <2>1, <2>2
<1>10. BucketsIn(n, k)' = M
  <2>1. \A b : b \in BucketsIn(n, k)' <=> b \in DOMAIN facts'[n] /\ k.start <= b /\ b < k.end
    BY DEF BucketsIn
  <2>2. \A b : b \in M <=> b \in DOMAIN facts'[n] /\ k.start <= b /\ b < k.end
    BY <1>4, <1>6, <1>8
  <2> QED  BY <2>1, <2>2
<1> HIDE DEF M
<1>11. FactBytes(n, k)' = FactBytes(n, k)
  <2>1. [b \in M |-> facts'[n][b].bytes] = [b \in M |-> facts[n][b].bytes]
    BY <1>6
  <2> QED  BY <1>9, <1>10, <2>1 DEF FactBytes
<1> QED  BY <1>2, <1>3, <1>7, <1>11

\* The stored months of a step are those there were, fewer of them, or one that was read.
LEMMA MonthsChange ==
    ASSUME Next
    PROVE  \/ \A k \in DOMAIN monthly' : k \in DOMAIN monthly /\ monthly'[k] = monthly[k]
           \/ \E row \in service.row : monthly' = Put(monthly, row.key, row.val)
<1>1. CASE monthly' = monthly
  BY <1>1
<1>2. CASE Pass \/ Tick \/ UsageStep \/ UsageRepairStep \/ FactsStep \/ StepFails \/ Restart
  BY <1>1, <1>2 DEF Pass, Tick, UsageStep, UsageRepairStep, FactsStep, StepFails, Restart
<1>3. CASE Snapshot \/ (\E k \in service.todo : SnapshotRead(k)) \/ SnapshotEnds
  BY <1>1, <1>3 DEF Snapshot, SnapshotRead, SnapshotEnds
<1>4. CASE SnapshotSave
  BY <1>4 DEF SnapshotSave
<1>5. CASE RebuildSource \/ RebuildFails
  BY <1>1, <1>5 DEF RebuildSource, RebuildFails
<1>6. CASE RebuildTraffic5mChunk
  <2>1. \E S \in SUBSET DOMAIN monthly : monthly' = [k \in S |-> monthly[k]]
    BY <1>6 DEF RebuildTraffic5mChunk, Restrict
  <2> QED  BY <2>1
<1>7. ASSUME NEW n \in Nodes, NEW r \in Rules, ChangeCycle(n, r)
      PROVE  \A k \in DOMAIN monthly' : k \in DOMAIN monthly /\ monthly'[k] = monthly[k]
  <2>1. \E S \in SUBSET DOMAIN monthly : monthly' = [k \in S |-> monthly[k]]
    BY <1>7 DEF ChangeCycle, ResetCycleDerived, Restrict
  <2> QED  BY <2>1
<1>8. CASE \E n \in Nodes : Report(n) \/ StartRebuild(n)
  BY <1>1, <1>8 DEF Report, StartRebuild
<1>9. CASE \E m \in {"lite", "billing"} : PatchSettingsAt(m)
  BY <1>1, <1>9 DEF PatchSettingsAt
<1> QED
  BY <1>2, <1>3, <1>4, <1>5, <1>6, <1>7, <1>8, <1>9 DEF Next, ServiceNext

\* Every step keeps the stored months, and the one just read, in agreement with the facts.
LEMMA MonthsStayStep ==
    ASSUME FactsInv, RowsTyped', Next
    PROVE  MonthsStay'
<1>1. /\ RowsTyped /\ ServiceTyped /\ DOMAIN monthly \subseteq UsageKeys
      /\ \A k \in DOMAIN monthly : Final(k, monthly[k])
      /\ \A r \in service.row : r.key \in UsageKeys /\ Final(r.key, r.val)
  BY DEF FactsInv, MonthsStay, RowsTyped
<1>2. ASSUME NEW k \in UsageKeys, NEW row, Final(k, row)
      PROVE  Final(k, row)'
  BY <1>2, FinalStays
<1>3. ASSUME NEW k \in DOMAIN monthly'
      PROVE  \E row : row = monthly'[k] /\ k \in UsageKeys /\ Final(k, row)
  <2>1. CASE k \in DOMAIN monthly /\ monthly'[k] = monthly[k]
    BY <1>1, <2>1
  <2>2. ASSUME NEW r \in service.row, monthly' = Put(monthly, r.key, r.val)
        PROVE  \E row : row = monthly'[k] /\ k \in UsageKeys /\ Final(k, row)
    <3>1. (k = r.key /\ monthly'[k] = r.val) \/ (k \in DOMAIN monthly /\ monthly'[k] = monthly[k])
      BY <1>3, <2>2 DEF Put
    <3> QED  BY <1>1, <2>1, <3>1
  <2> QED  BY <1>3, <2>1, <2>2, MonthsChange
<1>4. \A k \in DOMAIN monthly' : Final(k, monthly[k])'
  <2>1. SUFFICES ASSUME NEW k \in DOMAIN monthly'
                 PROVE  Final(k, monthly[k])'
    OBVIOUS
  <2>2. PICK row : row = monthly'[k] /\ k \in UsageKeys /\ Final(k, row)
    BY <1>3
  <2>3. Final(k, row)'
    BY <1>2, <2>2
  <2> QED  BY <2>2, <2>3 DEF Final
<1>5. ASSUME NEW r \in service'.row
      PROVE  r.key \in UsageKeys /\ Final(r.key, r.val)
  <2>1. CASE r \in service.row
    BY <1>1, <2>1
  <2>2. CASE Snapshot
    <3>1. service'.row = {}
      BY <2>2 DEF Snapshot, Idle
    <3> QED  BY <1>5, <3>1
  <2>3. ASSUME NEW k \in service.todo, SnapshotRead(k)
        PROVE  r.key \in UsageKeys /\ Final(r.key, r.val)
    <3>1. PICK skip, t, p :
            service' = [service EXCEPT !.todo = t, !.pc = p,
                          !.row = IF skip THEN {} ELSE {[key |-> k, val |-> TrafficSummary(k.node, k, service.target)]}]
      BY <2>3 DEF SnapshotRead
    <3>2. service'.row = IF skip THEN {} ELSE {[key |-> k, val |-> TrafficSummary(k.node, k, service.target)]}
      BY <1>1, <3>1 DEF ServiceTyped, Idle
    <3>3. r.key = k /\ r.val = TrafficSummary(k.node, k, service.target)
      BY <1>5, <3>2
    <3>4. k \in UsageKeys
      BY <1>1 DEF ServiceTyped
    <3>5. PICK row, ref : row = r.val /\ row = TrafficSummary(k.node, k, ref)
      BY <3>3
    <3>6. Final(k, row)
      BY <1>1, <3>4, <3>5, SummaryIsFinal
    <3> QED  BY <3>3, <3>4, <3>5, <3>6
  <2> QED  BY <1>1, <1>5, <2>1, <2>2, <2>3, ServiceChanges
<1>6. ASSUME NEW r \in service'.row
      PROVE  r.key \in UsageKeys /\ Final(r.key, r.val)'
  BY <1>2, <1>5, <1>6
<1> QED  BY <1>4, <1>6 DEF MonthsStay

-----------------------------------------------------------------------------
(* The rebuild. *)

\* The rebuild's own steps and a restart are all that changes its state.
LEMMA RebuildWriters ==
    ASSUME Next
    PROVE  \/ \E n \in Nodes : StartRebuild(n)
           \/ RebuildSource \/ RebuildTraffic5mChunk \/ RebuildFails \/ Restart
           \/ rebuild' = rebuild
<1>1. CASE Pass \/ Tick \/ UsageStep \/ UsageRepairStep \/ FactsStep \/ StepFails
  BY <1>1 DEF Pass, Tick, UsageStep, UsageRepairStep, FactsStep, StepFails
<1>2. CASE Snapshot \/ (\E k \in service.todo : SnapshotRead(k)) \/ SnapshotSave \/ SnapshotEnds
  BY <1>2 DEF Snapshot, SnapshotRead, SnapshotSave, SnapshotEnds
<1>3. CASE \E n \in Nodes : Report(n) \/ \E r \in Rules : ChangeCycle(n, r)
  BY <1>3 DEF Report, ChangeCycle
<1>4. CASE \E m \in {"lite", "billing"} : PatchSettingsAt(m)
  BY <1>4 DEF PatchSettingsAt
<1> QED  BY <1>1, <1>2, <1>3, <1>4 DEF Next, ServiceNext

\* The source of a rebuild ends at the last sample.
LEMMA SourceEndsAtLastSample ==
    ASSUME RowsTyped, NEW n \in Nodes, NEW floor \in Int,
           NEW D, D = {t \in DOMAIN samples[n] : t >= floor - 1}, D # {}
    PROVE  Min(D) \in Int /\ Max(D) \in Int /\ Max(D) <= LastSample(n)
<1>1. /\ DOMAIN samples[n] \in SUBSET Nat /\ LastSample(n) \in Nat
      /\ \A x \in DOMAIN samples[n] : x <= LastSample(n)
  BY SamplesAre
<1>2. D \in SUBSET Int /\ (\A x \in D : 0 <= x /\ x <= LastSample(n)) /\ LastSample(n) \in Int
  <2>1. \A x \in D : x \in DOMAIN samples[n]
    OBVIOUS
  <2>2. \A x \in D : x \in Int /\ 0 <= x /\ x <= LastSample(n)
    BY <1>1, <2>1
  <2>3. D \in SUBSET Int
    BY <2>2
  <2> QED  BY <1>1, <2>2, <2>3
<1>3. Min(D) \in D
  <2>1. D \in SUBSET Int /\ 0 \in Int /\ \A x \in D : 0 <= x
    BY <1>2
  <2> QED  BY <2>1, MinIs
<1>4. Max(D) \in D
  BY <1>2, MaxIs
<1> QED  BY <1>2, <1>3, <1>4

\* Every step keeps exact what a rebuild has behind it.
LEMMA RebuildStep ==
    ASSUME FactsInv, Next
    PROVE  RebuildTyped' /\ RebuildKnows'
<1>1. RowsTyped /\ RebuildTyped /\ RebuildKnows
  BY DEF FactsInv
<1>2. ASSUME NEW n \in Nodes, NEW b \in Int, b < LastSample(n), Exact(n, b)
      PROVE  Exact(n, b)'
  BY <1>2, ExactStays
<1>3. \A n \in Nodes : LastSample(n) \in Nat /\ LastSample(n)' \in Nat /\ LastSample(n) <= LastSample(n)'
  BY <1>1, RowsStay
<1>4. \A n \in Nodes, from, until \in Int :
        until <= LastSample(n) /\ (\A b \in from .. (until - 1) : Exact(n, b))
          => until <= LastSample(n)' /\ \A b \in from .. (until - 1) : Exact(n, b)'
  <2>1. SUFFICES ASSUME NEW n \in Nodes, NEW from \in Int, NEW until \in Int,
                        until <= LastSample(n), \A b \in from .. (until - 1) : Exact(n, b)
                 PROVE  until <= LastSample(n)' /\ \A b \in from .. (until - 1) : Exact(n, b)'
    OBVIOUS
  <2>2. \A b \in from .. (until - 1) : b \in Int /\ b < LastSample(n)
    BY <1>3, <2>1
  <2> QED  BY <1>2, <1>3, <2>1, <2>2
<1>5. PICK status, pc, node, from, until, at :
        rebuild = [status |-> status, pc |-> pc, node |-> node, from |-> from, until |-> until, at |-> at]
  BY <1>1 DEF RebuildTyped
<1>6. /\ status \in {"idle", "running", "completed", "failed"} /\ pc \in {"none", "source", "chunk"}
      /\ node \in {NoRebuild.node} \cup Nodes /\ from \in Int /\ until \in Int /\ at \in Int
  BY <1>1, <1>5 DEF RebuildTyped
<1>7. /\ pc # "none" => status = "running" /\ node \in Nodes
      /\ pc = "source" => from = until
      /\ pc = "chunk" => /\ from <= at /\ at <= until /\ until <= LastSample(node)
                         /\ \A b \in from .. (at - 1) : Exact(node, b)
      /\ status = "completed" =>
           \/ from = until
           \/ /\ node \in Nodes /\ until <= LastSample(node)
              /\ \A b \in from .. (until - 1) : Exact(node, b)
  BY <1>1, <1>5 DEF RebuildKnows
<1>8. CASE rebuild' = rebuild
  <2>1. RebuildTyped'
    BY <1>1, <1>8 DEF RebuildTyped, NoRebuild
  <2>2. pc = "chunk" => until <= LastSample(node)' /\ \A b \in from .. (at - 1) : Exact(node, b)'
    <3>1. SUFFICES ASSUME pc = "chunk"
                   PROVE  until <= LastSample(node)' /\ \A b \in from .. (at - 1) : Exact(node, b)'
      OBVIOUS
    <3>2. node \in Nodes /\ at <= until /\ until <= LastSample(node) /\ \A b \in from .. (at - 1) : Exact(node, b)
      BY <1>7, <3>1
    <3>3. at <= LastSample(node) /\ LastSample(node) \in Nat /\ LastSample(node)' \in Nat
          /\ LastSample(node) <= LastSample(node)'
      BY <1>3, <1>6, <3>2
    <3> QED  BY <1>4, <1>6, <3>2, <3>3
  <2>3. status = "completed" /\ from # until =>
          node \in Nodes /\ until <= LastSample(node)' /\ \A b \in from .. (until - 1) : Exact(node, b)'
    BY <1>4, <1>6, <1>7
  <2>4. rebuild' = [status |-> status, pc |-> pc, node |-> node, from |-> from, until |-> until, at |-> at]
    BY <1>5, <1>8
  <2>5. RebuildKnows'
    BY <1>7, <2>2, <2>3, <2>4 DEF RebuildKnows
  <2> QED  BY <2>1, <2>5
<1>9. ASSUME NEW n \in Nodes, StartRebuild(n)
      PROVE  RebuildTyped' /\ RebuildKnows'
  <2>1. rebuild' = [status |-> "running", pc |-> "source", node |-> n, from |-> 0, until |-> 0, at |-> 0]
    BY <1>9 DEF StartRebuild, NoRebuild
  <2>2. RebuildTyped'
    BY <2>1 DEF RebuildTyped
  <2>3. RebuildKnows'
    BY <2>1 DEF RebuildKnows
  <2> QED  BY <2>2, <2>3
<1>10. CASE Restart
  <2>1. rebuild' = NoRebuild
    BY <1>10 DEF Restart
  <2>2. RebuildTyped'
    BY <2>1 DEF RebuildTyped, NoRebuild
  <2>3. RebuildKnows'
    BY <2>1 DEF RebuildKnows, NoRebuild
  <2> QED  BY <2>2, <2>3
<1>11. CASE RebuildFails
  <2>1. rebuild' = [status |-> "failed", pc |-> "none", node |-> node, from |-> from, until |-> until, at |-> at]
    BY <1>5, <1>11 DEF RebuildFails
  <2>2. RebuildTyped'
    BY <1>6, <2>1 DEF RebuildTyped, NoRebuild
  <2>3. RebuildKnows'
    BY <2>1 DEF RebuildKnows
  <2> QED  BY <2>2, <2>3
<1>12. CASE RebuildSource
  <2>1. pc = "source" /\ status = "running" /\ node \in Nodes /\ from = until
    BY <1>5, <1>7, <1>12 DEF RebuildSource
  <2> DEFINE floor == clock - Smaller(SourceRetention, TrafficRetention)
             D == {t \in DOMAIN samples[node] : t >= floor - 1}
             start == IF D = {} THEN 0 ELSE Larger(Min(D), floor)
             end == IF D = {} THEN 0 ELSE Max(D)
  <2>2. rebuild' = IF end <= start THEN [rebuild EXCEPT !.status = "completed", !.pc = "none"]
                   ELSE [rebuild EXCEPT !.pc = "chunk", !.from = start, !.at = start, !.until = end]
    BY <1>5, <1>12 DEF RebuildSource
  <2>3. floor \in Int
    BY <1>1, TimesAssumption DEF RowsTyped, Smaller
  <2>4. start \in Int /\ end \in Int /\ (end > start => end <= LastSample(node))
    <3>1. CASE D = {}
      BY <3>1
    <3>2. CASE D # {}
      <4>1. Min(D) \in Int /\ Max(D) \in Int /\ Max(D) <= LastSample(node)
        <5>1. PICK f, E : f = floor /\ f \in Int /\ E = D
          BY <2>3
        <5>2. f \in Int /\ E = {t \in DOMAIN samples[node] : t >= f - 1} /\ E # {}
          BY <3>2, <5>1
        <5> HIDE DEF D, floor
        <5>3. Min(E) \in Int /\ Max(E) \in Int /\ Max(E) <= LastSample(node)
          BY <1>1, <2>1, <5>2, SourceEndsAtLastSample
        <5> QED  BY <5>1, <5>3
      <4> HIDE DEF D, floor
      <4> QED  BY <2>3, <3>2, <4>1 DEF Larger
    <3> QED  BY <3>1, <3>2
  <2>5. PICK s \in Int, e \in Int : s = start /\ e = end
    BY <2>4
  <2> HIDE DEF floor, D, start, end
  <2>6. CASE end <= start
    <3>1. rebuild' = [status |-> "completed", pc |-> "none", node |-> node, from |-> from, until |-> until, at |-> at]
      BY <1>5, <2>2, <2>6
    <3>2. RebuildTyped'
      BY <1>6, <3>1 DEF RebuildTyped, NoRebuild
    <3>3. RebuildKnows'
      BY <2>1, <3>1 DEF RebuildKnows
    <3> QED  BY <3>2, <3>3
  <2>7. CASE ~(end <= start)
    <3>1. rebuild' = [status |-> "running", pc |-> "chunk", node |-> node, from |-> s, until |-> e, at |-> s]
      BY <1>5, <2>1, <2>2, <2>5, <2>7
    <3>2. RebuildTyped'
      BY <1>6, <3>1 DEF RebuildTyped, NoRebuild
    <3>3. s <= e /\ e <= LastSample(node)' /\ s .. (s - 1) = {}
      <4>1. s < e /\ e <= LastSample(node)
        BY <2>4, <2>5, <2>7
      <4>2. LastSample(node) \in Nat /\ LastSample(node)' \in Nat /\ LastSample(node) <= LastSample(node)'
        BY <1>3, <2>1
      <4> QED  BY <4>1, <4>2
    <3>4. RebuildKnows'
      BY <2>1, <3>1, <3>3 DEF RebuildKnows
    <3> QED  BY <3>2, <3>4
  <2> QED  BY <2>6, <2>7
<1>13. CASE RebuildTraffic5mChunk
  <2>1. pc = "chunk" /\ status = "running" /\ node \in Nodes
    BY <1>5, <1>7, <1>13 DEF RebuildTraffic5mChunk
  <2>2. RebuildChunk \in Nat /\ RebuildChunk # 0
    BY TimesAssumption
  <2>3. PICK next \in Int : next = Smaller(at + RebuildChunk, until)
    BY <1>6, <2>2 DEF Smaller
  <2>4. at <= next /\ next <= until
    BY <1>6, <1>7, <2>1, <2>2, <2>3 DEF Smaller
  <2>5. rebuild' = [rebuild EXCEPT !.at = next, !.status = IF next = until THEN "completed" ELSE @,
                                   !.pc = IF next = until THEN "none" ELSE @]
    BY <1>5, <1>13, <2>3 DEF RebuildTraffic5mChunk
  <2>6. rebuild' = [status |-> IF next = until THEN "completed" ELSE "running",
                    pc |-> IF next = until THEN "none" ELSE "chunk",
                    node |-> node, from |-> from, until |-> until, at |-> next]
    BY <1>5, <2>1, <2>5
  <2>7. RebuildTyped'
    BY <1>6, <2>6 DEF RebuildTyped, NoRebuild
  <2>8. facts' = [facts EXCEPT ![node] = ReplaceFacts(node, at, next)] /\ UNCHANGED <<clock, samples>>
    BY <1>5, <1>13, <2>3 DEF RebuildTraffic5mChunk
  <2>9. facts'[node] = ReplaceFacts(node, at, next)
    BY <1>1, <2>1, <2>8 DEF RowsTyped
  <2>10. until <= LastSample(node) /\ LastSample(node) \in Nat /\ LastSample(node)' \in Nat
         /\ LastSample(node) <= LastSample(node)'
    BY <1>3, <1>7, <2>1
  <2>11. until <= LastSample(node)'
    BY <1>6, <2>10
  <2>12. ASSUME NEW b \in Int, b < LastSample(node), at <= b, b < next
         PROVE  Exact(node, b)'
    <3> DEFINE B == {x \in FactBuckets(node) : at <= x /\ x < next}
               kept == {x \in DOMAIN facts[node] : ~(at <= x /\ x < next)}
    <3>1. facts'[node] = [x \in B \cup kept |-> IF x \in B THEN FactRow(node, x) ELSE facts[node][x]]
      BY <2>9 DEF ReplaceFacts
    <3>2. b \notin kept /\ (b \in B <=> b \in FactBuckets(node))
      BY <2>12
    <3> HIDE DEF B, kept
    <3>3. b \in DOMAIN facts'[node] <=> b \in FactBuckets(node)
      BY <3>1, <3>2
    <3>4. b \in DOMAIN facts'[node] => facts'[node][b] = FactRow(node, b)
      BY <3>1, <3>2
    <3>5. FactRow(node, b)' = FactRow(node, b) /\ (b \in FactBuckets(node)' <=> b \in FactBuckets(node))
      BY <1>1, <2>1, <2>12, RowsStay
    <3> QED  BY <3>3, <3>4, <3>5 DEF Exact
  <2>13. \A b \in from .. (next - 1) : Exact(node, b)'
    <3>1. SUFFICES ASSUME NEW b \in from .. (next - 1)
                   PROVE  Exact(node, b)'
      OBVIOUS
    <3>2. b \in Int /\ b < LastSample(node) /\ from <= b /\ b < next
      BY <1>6, <2>4, <2>10
    <3>3. CASE b < at
      <4>1. b \in from .. (at - 1)
        BY <1>6, <3>2, <3>3
      <4> QED  BY <1>2, <1>7, <2>1, <3>2, <4>1
    <3>4. CASE at <= b
      BY <2>12, <3>2, <3>4
    <3> QED  BY <1>6, <3>2, <3>3, <3>4
  <2>14. from <= next
    BY <1>6, <1>7, <2>1, <2>4
  <2>15. RebuildKnows'
    <3>1. CASE next = until
      BY <2>1, <2>6, <2>11, <2>13, <3>1 DEF RebuildKnows
    <3>2. CASE next # until
      BY <2>1, <2>4, <2>6, <2>11, <2>13, <2>14, <3>2 DEF RebuildKnows
    <3> QED  BY <3>1, <3>2
  <2> QED  BY <2>7, <2>15
<1> QED
  BY <1>8, <1>9, <1>10, <1>11, <1>12, <1>13, RebuildWriters

-----------------------------------------------------------------------------
(* The cycle of a time. *)

LEMMA LargerSmaller ==
    \A a, b \in Int : /\ Larger(a, b) \in {a, b} /\ a <= Larger(a, b) /\ b <= Larger(a, b) /\ Larger(a, b) \in Int
                      /\ Smaller(a, b) \in {a, b} /\ Smaller(a, b) <= a /\ Smaller(a, b) <= b /\ Smaller(a, b) \in Int
  BY DEF Larger, Smaller

\* A time between two boundaries is in a cycle, which has the last one before it and the
\* first one after it.
LEMMA AtIs ==
    ASSUME NEW r \in Rules, NEW t \in Nat, \E b \in Boundaries[r] : b > t
    PROVE  /\ At(r, t) \in Cycles(r) /\ At(r, t) = [start |-> At(r, t).start, end |-> At(r, t).end]
           /\ At(r, t).start \in Int /\ At(r, t).end \in Int /\ At(r, t).start <= t /\ t < At(r, t).end
           /\ \A b \in Boundaries[r] : b <= t => b <= At(r, t).start
<1> DEFINE B == Boundaries[r]
           E == {b \in B : b <= t}
           L == {b \in B : b > t}
           s == Max(E)
<1>1. B \in SUBSET Int /\ (\E b \in B : b <= 0) /\ \E b \in B : b > t
  BY TimesAssumption, BoundariesAssumption
<1> HIDE DEF B
<1>2. E \in SUBSET Int /\ E # {} /\ \A x \in E : x <= t
  <2>1. PICK b \in B : b <= 0
    BY <1>1
  <2>2. b \in E
    BY <1>1, <2>1
  <2> QED  BY <1>1, <2>2
<1>3. L \in SUBSET Int /\ L # {} /\ \A x \in L : t <= x
  <2>1. \A x \in L : x \in Int /\ t <= x
    BY <1>1
  <2> QED  BY <1>1, <2>1
<1>4. s \in E /\ \A x \in E : x <= s
  <2>1. t \in Int
    OBVIOUS
  <2> HIDE DEF E
  <2>2. Max(E) \in E /\ \A x \in E : x <= Max(E)
    BY <1>2, <2>1, MaxIs
  <2> QED  BY <2>2
<1>5. Min(L) \in L
  <2> HIDE DEF L
  <2> QED  BY <1>3, MinIs
<1> HIDE DEF s
<1>6. {u \in B : u > s} = L
  <2>1. s \in B /\ s <= t /\ \A x \in B : x <= t => x <= s
    BY <1>4
  <2>2. \A u \in B : u > s <=> u > t
    BY <1>1, <2>1
  <2> QED  BY <2>2
<1>7. At(r, t) = [start |-> s, end |-> Min(L)] /\ Following(B, s) = Min(L)
  BY <1>6 DEF At, Following, B, s
<1>8. s \in B /\ (\E u \in B : u > s)
  BY <1>3, <1>4, <1>6
<1>9. At(r, t) \in Cycles(r)
  BY <1>7, <1>8 DEF Cycles, B
<1>10. s \in Int /\ Min(L) \in Int /\ s <= t /\ t < Min(L)
  BY <1>1, <1>4, <1>5
<1>11. \A b \in B : b <= t => b <= s
  BY <1>4
<1> QED  BY <1>7, <1>9, <1>10, <1>11 DEF B

\* With the next moment the cycle is the same, or begins.
LEMMA AtPasses ==
    ASSUME NEW r \in Rules, NEW t \in Nat, \E b \in Boundaries[r] : b > t + 1
    PROVE  At(r, t + 1) = At(r, t) \/ At(r, t + 1).start = t + 1
<1> DEFINE B == Boundaries[r]
<1>1. B \in SUBSET Int
  BY TimesAssumption
<1>2. CASE t + 1 \in B
  <2>1. t + 1 \in Nat
    OBVIOUS
  <2>2. At(r, t + 1).start \in Int /\ At(r, t + 1).start <= t + 1 /\ t + 1 <= At(r, t + 1).start
    BY <1>2, <2>1, AtIs
  <2> QED  BY <2>2
<1>3. CASE t + 1 \notin B
  <2> HIDE DEF B
  <2>1. {b \in B : b <= t + 1} = {b \in B : b <= t} /\ {b \in B : b > t + 1} = {b \in B : b > t}
    <3>1. ASSUME NEW b \in B PROVE (b <= t + 1 <=> b <= t) /\ (b > t + 1 <=> b > t)
      <4>1. b \in Int /\ b # t + 1
        BY <1>1, <1>3
      <4> QED  BY <4>1
    <3> QED  BY <3>1
  <2> QED  BY <2>1 DEF At, Following, B
<1> QED  BY <1>2, <1>3

LEMMA CurrentIs ==
    ASSUME RowsTyped, TimesTyped, NEW n \in Nodes
    PROVE  /\ rule[n] \in Rules /\ clock \in Nat /\ Current(n) \in Cycles(rule[n])
           /\ Current(n).start \in Int /\ Current(n).end \in Int /\ Current(n).start <= clock /\ clock < Current(n).end
           /\ Low(n) \in Int /\ Current(n).start <= Low(n) /\ clock - SourceRetention <= Low(n)
           /\ Low(n) \in {Current(n).start, clock - SourceRetention}
<1>1. rule[n] \in Rules /\ clock \in Nat /\ SourceRetention \in Nat
  BY TimesAssumption DEF RowsTyped
<1>2. \E b \in Boundaries[rule[n]] : b > clock
  <2>1. PICK b \in Boundaries[rule[n]] : b > clock + left.time
    BY <1>1 DEF TimesTyped
  <2>2. b \in Int /\ left.time \in Nat
    BY <1>1, TimesAssumption DEF TimesTyped
  <2> QED  BY <1>1, <2>1, <2>2
<1>3. /\ Current(n) \in Cycles(rule[n])
      /\ Current(n).start \in Int /\ Current(n).end \in Int /\ Current(n).start <= clock /\ clock < Current(n).end
  BY <1>1, <1>2, AtIs DEF Current
<1>4. clock - SourceRetention \in Int
  BY <1>1
<1> QED  BY <1>1, <1>3, <1>4, LargerSmaller DEF Low

-----------------------------------------------------------------------------
(* What a window adds to the rows. *)

LEMMA GreatestOfFour ==
    ASSUME NEW a \in Int, NEW b \in Int, NEW c \in Int, NEW d \in Int
    PROVE  /\ Max({a, b, c, d}) \in {a, b, c, d} /\ Max({a, b, c, d}) \in Int
           /\ a <= Max({a, b, c, d}) /\ b <= Max({a, b, c, d}) /\ c <= Max({a, b, c, d}) /\ d <= Max({a, b, c, d})
<1> DEFINE S == {a, b, c, d}
<1>1. \E h \in Int : \A x \in S : x <= h
  <2>1. Larger(Larger(a, b), Larger(c, d)) \in Int /\ \A x \in S : x <= Larger(Larger(a, b), Larger(c, d))
    BY DEF Larger
  <2> QED  BY <2>1
<1>2. PICK h \in Int : \A x \in S : x <= h
  BY <1>1
<1>3. S \in SUBSET Int /\ S # {}
  OBVIOUS
<1>4. Max(S) \in S /\ \A x \in S : x <= Max(S)
  <2> HIDE DEF S
  <2> QED  BY <1>2, <1>3, MaxIs
<1> QED  BY <1>4

LEMMA LeastOfThree ==
    ASSUME NEW a \in Int, NEW b \in Int, NEW c \in Int
    PROVE  /\ Min({a, b, c}) \in {a, b, c} /\ Min({a, b, c}) \in Int
           /\ Min({a, b, c}) <= a /\ Min({a, b, c}) <= b /\ Min({a, b, c}) <= c
<1> DEFINE S == {a, b, c}
<1>1. \E l \in Int : \A x \in S : l <= x
  <2>1. Smaller(Smaller(a, b), c) \in Int /\ \A x \in S : Smaller(Smaller(a, b), c) <= x
    BY DEF Smaller
  <2> QED  BY <2>1
<1>2. PICK l \in Int : \A x \in S : l <= x
  BY <1>1
<1>3. S \in SUBSET Int /\ S # {}
  OBVIOUS
<1>4. Min(S) \in S /\ \A x \in S : Min(S) <= x
  <2> HIDE DEF S
  <2> QED  BY <1>2, <1>3, MinIs
<1> QED  BY <1>4

LEMMA LastCollectedIs ==
    ASSUME RowsReach, NEW k
    PROVE  /\ LastCollected(k) \in Int
           /\ k \in DOMAIN usage => LastCollected(k) = usage[k].until
           /\ k \notin DOMAIN usage => LastCollected(k) = -1
  BY DEF RowsReach, LastCollected, Never

\* The part of a pair in a cycle: it begins with the last and ends with the first of its bounds.
LEMMA SegmentIs ==
    ASSUME RowsTyped, RowsReach, NEW n \in Nodes, NEW p \in Pairs(n), NEW c \in Cycles(rule[n]),
           NEW start \in Int, NEW end \in Int, NEW s, s = UsageSegment(n, p, c, start, end)
    PROVE  /\ s.key = Key(n, c) /\ s.from \in Int /\ s.to \in Int
           /\ s.from \in {p.from, start, c.start, LastCollected(Key(n, c))}
           /\ p.from <= s.from /\ start <= s.from /\ c.start <= s.from /\ LastCollected(Key(n, c)) <= s.from
           /\ s.to \in {p.to, c.end, end} /\ s.to <= p.to /\ s.to <= c.end /\ s.to <= end
<1>1. rule[n] \in Rules
  BY DEF RowsTyped
<1>2. c.start \in Int /\ c.end \in Int /\ LastCollected(Key(n, c)) \in Int
  BY <1>1, CyclesAre, LastCollectedIs
<1>3. p.from \in Int /\ p.to \in Int
  <2>1. DOMAIN samples[n] \in SUBSET Nat
    BY SamplesAre
  <2> QED  BY <2>1, PairsAre
<1>4. /\ s.key = Key(n, c) /\ s.from = Max({p.from, start, c.start, LastCollected(Key(n, c))})
      /\ s.to = Min({p.to, c.end, end})
  BY DEF UsageSegment
<1>5. PICK l \in Int : l = LastCollected(Key(n, c))
  BY <1>2
<1>6. s.from = Max({p.from, start, c.start, l})
  BY <1>4, <1>5
<1>7. /\ s.from \in Int /\ s.from \in {p.from, start, c.start, l}
      /\ p.from <= s.from /\ start <= s.from /\ c.start <= s.from /\ l <= s.from
  <2>1. PICK a \in Int, b \in Int : a = p.from /\ b = c.start
    BY <1>2, <1>3
  <2>2. s.from = Max({a, start, b, l})
    BY <1>6, <2>1
  <2>3. /\ Max({a, start, b, l}) \in {a, start, b, l} /\ Max({a, start, b, l}) \in Int
        /\ a <= Max({a, start, b, l}) /\ start <= Max({a, start, b, l}) /\ b <= Max({a, start, b, l})
        /\ l <= Max({a, start, b, l})
    BY GreatestOfFour
  <2> QED  BY <2>1, <2>2, <2>3
<1>8. s.to \in Int /\ s.to \in {p.to, c.end, end} /\ s.to <= p.to /\ s.to <= c.end /\ s.to <= end
  <2>1. PICK a \in Int, b \in Int : a = p.to /\ b = c.end
    BY <1>2, <1>3
  <2>2. s.to = Min({a, b, end})
    BY <1>4, <2>1
  <2>3. /\ Min({a, b, end}) \in {a, b, end} /\ Min({a, b, end}) \in Int
        /\ Min({a, b, end}) <= a /\ Min({a, b, end}) <= b /\ Min({a, b, end}) <= end
    BY LeastOfThree
  <2> QED  BY <2>1, <2>2, <2>3
<1> QED  BY <1>4, <1>5, <1>7, <1>8

LEMMA SegmentsAre ==
    ASSUME RowsTyped, RowsReach, NEW n \in Nodes, NEW start \in Int, NEW end \in Int, NEW s \in UsageSegments(n, start, end)
    PROVE  /\ s.key.node = n /\ s.from \in Int /\ s.to \in Int
           /\ start <= s.from /\ s.from < s.to /\ s.to <= end /\ s.from <= LastSample(n)
<1>1. PICK p \in Pairs(n), c \in Cycles(rule[n]) : s = UsageSegment(n, p, c, start, end) /\ s.to > s.from
  BY DEF UsageSegments, LoadTrafficRows
<1>2. /\ s.key = Key(n, c) /\ s.from \in Int /\ s.to \in Int /\ start <= s.from /\ s.to <= end /\ s.to <= p.to
  BY <1>1, SegmentIs
<1>3. p.to \in Int /\ p.to <= LastSample(n) /\ LastSample(n) \in Int
  <2>1. DOMAIN samples[n] \in SUBSET Nat /\ LastSample(n) \in Nat
    BY SamplesAre
  <2> QED  BY <2>1, PairsAre
<1> QED  BY <1>1, <1>2, <1>3 DEF Key

LEMMA ResetsAre ==
    ASSUME RowsTyped, NEW n \in Nodes, NEW start \in Int, NEW end \in Int, NEW t \in UsageResets(n, start, end)
    PROVE  t \in Int /\ start <= t /\ t < end /\ t <= LastSample(n)
<1>1. PICK p \in Pairs(n) : t = p.to
  BY DEF UsageResets, LoadTrafficRows
<1>2. start <= t /\ t < end
  <2>1. t >= start /\ t < end
    BY DEF UsageResets
  <2>2. DOMAIN samples[n] \in SUBSET Nat
    BY SamplesAre
  <2>3. t \in Int
    BY <1>1, <2>2, PairsAre
  <2> QED  BY <2>1, <2>3
<1>3. DOMAIN samples[n] \in SUBSET Nat /\ LastSample(n) \in Nat
  BY SamplesAre
<1> QED  BY <1>1, <1>2, <1>3, PairsAre

\* The keys whose rows a window of one node changes.
TouchedKeys(n, start, end) ==
    {s.key : s \in UsageSegments(n, start, end)} \cup {Key(n, At(rule[n], t)) : t \in UsageResets(n, start, end)}

\* A row takes in what it had and what the window adds, and nothing from beyond the window.
LEMMA RowIs ==
    ASSUME RowsTyped, RowsReach, NEW n \in Nodes, NEW start \in Int, NEW end \in Int, NEW k \in TouchedKeys(n, start, end),
           NEW row, row = UsageRow(n, k, UsageSegments(n, start, end), UsageResets(n, start, end))
    PROVE  /\ row.from \in Int /\ row.until \in Int /\ row.last = row.until /\ row.from <= LastSample(n)
           /\ \A s \in UsageSegments(n, start, end) : s.key = k => row.from <= s.from /\ s.to <= row.until
           /\ k \in DOMAIN usage => row.from <= usage[k].from /\ usage[k].until <= row.until
           /\ k \notin DOMAIN usage => row.from < end
<1> DEFINE S == {s \in UsageSegments(n, start, end) : s.key = k}
           R == {t \in UsageResets(n, start, end) : Key(n, At(rule[n], t)) = k}
           old == IF k \in DOMAIN usage THEN {usage[k]} ELSE {}
           F == {s.from : s \in S} \cup R \cup {r.from : r \in old}
           U == ({s.to : s \in S} \cup R) \cup {r.until : r \in old}
           L == ({s.to : s \in S} \cup R) \cup {r.last : r \in old}
<1>1. row.from = Min(F) /\ row.until = Max(U) /\ row.last = Max(L)
  BY DEF UsageRow
<1>2. \A s \in S : /\ s.from \in Int /\ s.to \in Int /\ start <= s.from /\ s.from < s.to /\ s.to <= end
                   /\ s.from <= LastSample(n) /\ s.key.node = n
  BY SegmentsAre
<1>3. \A t \in R : t \in Int /\ start <= t /\ t < end /\ t <= LastSample(n)
  BY ResetsAre
<1>4. \A r \in old : /\ r.from \in Int /\ r.until \in Int /\ r.last = r.until /\ r = usage[k] /\ k \in DOMAIN usage
                     /\ r.from <= LastSample(k.node)
  BY DEF RowsReach
<1>5. k.node = n
  <2>1. CASE \E s \in UsageSegments(n, start, end) : s.key = k
    BY <2>1, SegmentsAre
  <2>2. CASE \E t \in UsageResets(n, start, end) : Key(n, At(rule[n], t)) = k
    BY <2>2 DEF Key
  <2> QED  BY <2>1, <2>2 DEF TouchedKeys
<1>6. S # {} \/ R # {}
  BY DEF TouchedKeys
<1>7. LastSample(n) \in Int
  BY SamplesAre
<1>8. k \in DOMAIN usage => usage[k] \in old
  OBVIOUS
<1>9. k \notin DOMAIN usage => old = {}
  OBVIOUS
<1> HIDE DEF S, R, old
<1>10. L = U
  BY <1>4
<1>11. F \in SUBSET Int /\ F # {} /\ \A x \in F : x <= LastSample(n)
  <2>1. \A x \in F : x \in Int /\ x <= LastSample(n)
    BY <1>2, <1>3, <1>4, <1>5
  <2> QED  BY <1>6, <2>1
<1>12. U \in SUBSET Int /\ U # {}
  <2>1. \A x \in U : x \in Int
    BY <1>2, <1>3, <1>4
  <2> QED  BY <1>6, <2>1
<1>13. \E l \in Int : \A x \in F : l <= x
  <2>1. CASE k \in DOMAIN usage
    <3>1. PICK o : o = usage[k].from
      OBVIOUS
    <3>2. o \in Int /\ \A r \in old : r.from = o
      BY <1>4, <1>8, <2>1, <3>1
    <3>3. Smaller(start, o) \in Int /\ Smaller(start, o) <= start /\ Smaller(start, o) <= o
      BY <3>2, LargerSmaller
    <3>4. \A x \in F : Smaller(start, o) <= x
      BY <1>2, <1>3, <3>2, <3>3
    <3> QED  BY <3>3, <3>4
  <2>2. CASE k \notin DOMAIN usage
    BY <1>2, <1>3, <1>9, <2>2
  <2> QED  BY <2>1, <2>2
<1>14. \E h \in Int : \A x \in U : x <= h
  <2>1. CASE k \in DOMAIN usage
    <3>1. PICK o : o = usage[k].until
      OBVIOUS
    <3>2. o \in Int /\ \A r \in old : r.until = o
      BY <1>4, <1>8, <2>1, <3>1
    <3>3. Larger(end, o) \in Int /\ end <= Larger(end, o) /\ o <= Larger(end, o)
      BY <3>2, LargerSmaller
    <3>4. \A x \in U : x <= Larger(end, o)
      BY <1>2, <1>3, <3>2, <3>3
    <3> QED  BY <3>3, <3>4
  <2>2. CASE k \notin DOMAIN usage
    <3>1. \A x \in U : x <= end
      BY <1>2, <1>3, <1>9, <2>2
    <3> QED  BY <3>1
  <2> QED  BY <2>1, <2>2
<1>15. \A s \in S : s.from \in F /\ s.to \in U
  OBVIOUS
<1>16. k \in DOMAIN usage => usage[k].from \in F /\ usage[k].until \in U
  BY <1>8
<1>17. k \notin DOMAIN usage => \A x \in F : x < end
  BY <1>2, <1>3, <1>9
<1> HIDE DEF F, U, L
<1>18. Min(F) \in F /\ \A x \in F : Min(F) <= x
  <2>1. PICK l \in Int : \A x \in F : l <= x
    BY <1>13
  <2> QED  BY <1>11, <2>1, MinIs
<1>19. Max(U) \in U /\ \A x \in U : x <= Max(U)
  <2>1. PICK h \in Int : \A x \in U : x <= h
    BY <1>14
  <2> QED  BY <1>12, <2>1, MaxIs
<1>20. row.from \in Int /\ row.until \in Int /\ row.last = row.until /\ row.from <= LastSample(n)
  BY <1>1, <1>10, <1>11, <1>12, <1>18, <1>19
<1>21. \A s \in UsageSegments(n, start, end) : s.key = k => row.from <= s.from /\ s.to <= row.until
  BY <1>1, <1>15, <1>18, <1>19 DEF S
<1>22. k \in DOMAIN usage => row.from <= usage[k].from /\ usage[k].until <= row.until
  BY <1>1, <1>16, <1>18, <1>19
<1>23. k \notin DOMAIN usage => row.from < end
  BY <1>1, <1>17, <1>18
<1> QED  BY <1>20, <1>21, <1>22, <1>23

\* A window over some nodes keeps what the rows reach and adds its segments.
LEMMA ScanIs ==
    ASSUME RowsTyped, RowsReach, NEW scope \in SUBSET Nodes, NEW start \in Int, NEW end \in Int,
           MaterializeUsageRange(scope, start, end), UNCHANGED samples
    PROVE  /\ RowsReach'
           /\ \A k \in DOMAIN usage : k \in DOMAIN usage' /\ usage'[k].from <= usage[k].from /\ usage[k].until <= usage'[k].until
           /\ \A n \in scope : \A s \in UsageSegments(n, start, end) :
                s.key \in DOMAIN usage' /\ usage'[s.key].from <= s.from /\ s.to <= usage'[s.key].until
           /\ \A k \in DOMAIN usage' : k \notin DOMAIN usage => usage'[k].from < end
           /\ \A k : k.node \notin scope => /\ k \in DOMAIN usage' <=> k \in DOMAIN usage
                                            /\ k \in DOMAIN usage => usage'[k] = usage[k]
<1> DEFINE keys(n) == TouchedKeys(n, start, end)
           touched == UNION {keys(n) : n \in scope}
           Row(n, k) == UsageRow(n, k, UsageSegments(n, start, end), UsageResets(n, start, end))
<1>1. usage' = [k \in touched \cup DOMAIN usage |-> IF k \in touched THEN Row(k.node, k) ELSE usage[k]]
  BY DEF MaterializeUsageRange, TouchedKeys
<1>2. \A n \in scope : \A k \in keys(n) : k.node = n
  <2> SUFFICES ASSUME NEW n \in scope, NEW k \in keys(n) PROVE k.node = n
    OBVIOUS
  <2>1. CASE \E s \in UsageSegments(n, start, end) : s.key = k
    BY <2>1, SegmentsAre
  <2>2. CASE \E t \in UsageResets(n, start, end) : Key(n, At(rule[n], t)) = k
    BY <2>2 DEF Key
  <2> QED  BY <2>1, <2>2 DEF TouchedKeys
<1>3. \A k \in touched : k.node \in scope /\ k \in keys(k.node)
  BY <1>2
<1> HIDE DEF touched
<1>4. DOMAIN usage' = touched \cup DOMAIN usage
  BY <1>1
<1>5. \A k \in touched :
        /\ usage'[k].from \in Int /\ usage'[k].until \in Int /\ usage'[k].last = usage'[k].until /\ usage'[k].from <= LastSample(k.node)
        /\ \A s \in UsageSegments(k.node, start, end) : s.key = k => usage'[k].from <= s.from /\ s.to <= usage'[k].until
        /\ k \in DOMAIN usage => usage'[k].from <= usage[k].from /\ usage[k].until <= usage'[k].until
        /\ k \notin DOMAIN usage => usage'[k].from < end
  <2> SUFFICES ASSUME NEW k \in touched
               PROVE  /\ usage'[k].from \in Int /\ usage'[k].until \in Int /\ usage'[k].last = usage'[k].until
                      /\ usage'[k].from <= LastSample(k.node)
                      /\ \A s \in UsageSegments(k.node, start, end) : s.key = k => usage'[k].from <= s.from /\ s.to <= usage'[k].until
                      /\ k \in DOMAIN usage => usage'[k].from <= usage[k].from /\ usage[k].until <= usage'[k].until
                      /\ k \notin DOMAIN usage => usage'[k].from < end
    OBVIOUS
  <2>1. PICK n \in Nodes : n = k.node /\ k \in TouchedKeys(n, start, end)
    BY <1>3
  <2>2. PICK row : row = UsageRow(n, k, UsageSegments(n, start, end), UsageResets(n, start, end))
    OBVIOUS
  <2>3. usage'[k] = row
    BY <1>1, <2>1, <2>2
  <2>4. /\ row.from \in Int /\ row.until \in Int /\ row.last = row.until /\ row.from <= LastSample(n)
        /\ \A s \in UsageSegments(n, start, end) : s.key = k => row.from <= s.from /\ s.to <= row.until
        /\ k \in DOMAIN usage => row.from <= usage[k].from /\ usage[k].until <= row.until
        /\ k \notin DOMAIN usage => row.from < end
    <3>1. RowsTyped /\ RowsReach /\ n \in Nodes /\ start \in Int /\ end \in Int /\ k \in TouchedKeys(n, start, end)
      BY <2>1
    <3> HIDE DEF keys, Row
    <3> QED  BY ONLY <2>2, <3>1, RowIs
  <2> QED  BY <2>1, <2>3, <2>4
<1>6. \A k \in DOMAIN usage : k \notin touched => usage'[k] = usage[k]
  BY <1>1
<1>7. RowsReach'
  <2>1. \A n : LastSample(n)' = LastSample(n)
    BY DEF LastSample
  <2> SUFFICES ASSUME NEW k \in DOMAIN usage'
               PROVE  /\ k.node \in Nodes /\ usage'[k].from \in Int /\ usage'[k].until \in Int
                      /\ usage'[k].last = usage'[k].until /\ usage'[k].from <= LastSample(k.node)
    BY <2>1 DEF RowsReach
  <2>2. CASE k \in touched
    <3>1. k.node \in Nodes
      BY <1>3, <2>2
    <3> QED  BY <1>5, <2>2, <3>1
  <2>3. CASE k \notin touched
    BY <1>4, <1>6, <2>3 DEF RowsReach
  <2> QED  BY <2>2, <2>3
<1>8. \A k \in DOMAIN usage : k \in DOMAIN usage' /\ usage'[k].from <= usage[k].from /\ usage[k].until <= usage'[k].until
  <2> SUFFICES ASSUME NEW k \in DOMAIN usage
               PROVE  k \in DOMAIN usage' /\ usage'[k].from <= usage[k].from /\ usage[k].until <= usage'[k].until
    OBVIOUS
  <2>1. CASE k \in touched
    BY <1>4, <1>5, <2>1
  <2>2. CASE k \notin touched
    BY <1>4, <1>6, <2>2 DEF RowsReach
  <2> QED  BY <2>1, <2>2
<1>9. ASSUME NEW n \in scope, NEW s \in UsageSegments(n, start, end)
      PROVE  s.key \in DOMAIN usage' /\ usage'[s.key].from <= s.from /\ s.to <= usage'[s.key].until
  <2>1. s.key \in keys(n)
    BY DEF TouchedKeys
  <2>2. s.key \in touched /\ s.key.node = n
    BY <1>2, <2>1 DEF touched
  <2> QED  BY <1>4, <1>5, <2>2
<1>10. \A k \in DOMAIN usage' : k \notin DOMAIN usage => usage'[k].from < end
  BY <1>4, <1>5
<1>11. \A k : k.node \notin scope => /\ k \in DOMAIN usage' <=> k \in DOMAIN usage
                                     /\ k \in DOMAIN usage => usage'[k] = usage[k]
  BY <1>3, <1>4, <1>6
<1> QED  BY <1>7, <1>8, <1>9, <1>10, <1>11

\* A pair in the current cycle, scanned by a window that begins before it ends: its part up to
\* the window's end is in the row, from where the window and the cycle begin at the latest.
LEMMA PairIsScanned ==
    ASSUME RowsTyped, TimesTyped, RowsReach, NEW scope \in SUBSET Nodes, NEW n \in scope, NEW start \in Int, NEW end \in Int,
           MaterializeUsageRange(scope, start, end), UNCHANGED samples, start < end, end <= clock,
           NEW p \in Recent(n), start < p.to, p.from < end, Low(n) < end,
           NEW k, k = CurrentKey(n)
    PROVE  /\ k \in DOMAIN usage' /\ (p.to <= end => p.to <= usage'[k].until)
           /\ k \notin DOMAIN usage => \/ usage'[k].from <= p.from
                                       \/ usage'[k].from <= start
                                       \/ usage'[k].from <= Low(n)
<1> PICK c : c = Current(n)
  OBVIOUS
<1>1. /\ n \in Nodes /\ c \in Cycles(rule[n]) /\ c.start \in Int /\ c.end \in Int /\ clock < c.end /\ c.start <= Low(n)
      /\ Low(n) \in Int /\ clock \in Nat
  BY CurrentIs
<1>2. p \in Pairs(n) /\ Delta(n, p) > 0 /\ p.to > Low(n)
  BY DEF Recent
<1>3. p.from \in Nat /\ p.to \in Nat /\ p.from < p.to /\ p.to <= clock
  <2>1. DOMAIN samples[n] \in SUBSET Nat /\ LastSample(n) \in Nat /\ LastSample(n) <= clock
    BY <1>1, SamplesAre
  <2>2. p.from \in DOMAIN samples[n] /\ p.to \in DOMAIN samples[n] /\ p.from < p.to /\ p.to <= LastSample(n)
    BY <1>1, <1>2, PairsAre
  <2> QED  BY <1>1, <2>1, <2>2
<1>4. k = Key(n, c)
  BY DEF CurrentKey
<1>5. PICK s : s = UsageSegment(n, p, c, start, end)
  OBVIOUS
<1>6. /\ s.key = k /\ s.from \in Int /\ s.to \in Int
      /\ s.from \in {p.from, start, c.start, LastCollected(k)}
      /\ s.to \in {p.to, c.end, end} /\ s.to <= p.to
  <2>1. /\ s.key = Key(n, c) /\ s.from \in Int /\ s.to \in Int
        /\ s.from \in {p.from, start, c.start, LastCollected(Key(n, c))}
        /\ s.to \in {p.to, c.end, end} /\ s.to <= p.to
    BY <1>1, <1>2, <1>5, SegmentIs
  <2> QED  BY <1>4, <2>1
<1>8. p.from < s.to /\ start < s.to /\ c.start < s.to /\ (p.to <= end => s.to = p.to)
  <2>1. p.to < c.end /\ p.from < c.end /\ start < c.end /\ c.start < c.end /\ c.start < p.to /\ c.start < end
    BY <1>1, <1>2, <1>3
  <2> QED  BY <1>3, <1>6, <2>1
<1>9. CASE s.from < s.to
  <2>1. s \in UsageSegments(n, start, end)
    <3>1. p \in LoadTrafficRows(n, start, end)
      BY <1>2, <1>3 DEF LoadTrafficRows
    <3>2. s.to > s.from
      BY <1>6, <1>9
    <3>3. PICK pc : pc = <<p, c>>
      OBVIOUS
    <3>4. pc \in {q \in LoadTrafficRows(n, start, end) : Delta(n, q) > 0} \X Cycles(rule[n]) /\ pc[1] = p /\ pc[2] = c
      BY <1>1, <1>2, <3>1, <3>3
    <3> QED  BY <1>5, <3>2, <3>4 DEF UsageSegments
  <2>2. s.key \in DOMAIN usage' /\ usage'[s.key].from <= s.from /\ s.to <= usage'[s.key].until
    BY <2>1, ScanIs
  <2>9. k \in DOMAIN usage' /\ usage'[k].from <= s.from /\ s.to <= usage'[k].until
    BY <1>6, <2>2
  <2>3. p.to <= end => p.to <= usage'[k].until
    BY <1>8, <2>9
  <2>4. ASSUME k \notin DOMAIN usage
        PROVE  usage'[k].from <= p.from \/ usage'[k].from <= start \/ usage'[k].from <= Low(n)
    <3>1. LastCollected(k) = -1
      BY <2>4, LastCollectedIs
    <3>2. usage'[k].from \in Int
      <4>1. RowsReach'
        BY ScanIs
      <4> QED  BY <2>9, <4>1 DEF RowsReach
    <3>3. s.from = p.from \/ s.from = start \/ s.from = c.start \/ s.from = -1
      BY <1>6, <3>1
    <3> QED  BY <1>1, <1>3, <1>6, <2>9, <3>2, <3>3
  <2> QED  BY <2>9, <2>3, <2>4
<1>10. CASE ~(s.from < s.to)
  <2>1. s.from = LastCollected(k) /\ s.to <= s.from
    BY <1>1, <1>3, <1>6, <1>8, <1>10
  <2>2. LastCollected(k) \in Int /\ 0 <= LastCollected(k)
    BY <1>3, <1>6, <1>8, <2>1
  <2>3. k \in DOMAIN usage /\ LastCollected(k) = usage[k].until
    BY <2>2, LastCollectedIs
  <2>4. k \in DOMAIN usage' /\ usage[k].until <= usage'[k].until /\ usage'[k].until \in Int
    <3>1. RowsReach'
      BY ScanIs
    <3>2. k \in DOMAIN usage' /\ usage[k].until <= usage'[k].until
      BY <2>3, ScanIs
    <3> QED  BY <3>1, <3>2 DEF RowsReach
  <2>5. p.to <= end => p.to <= usage'[k].until
    BY <1>3, <1>8, <2>1, <2>2, <2>3, <2>4
  <2> QED  BY <2>3, <2>4, <2>5
<1> QED  BY <1>9, <1>10

-----------------------------------------------------------------------------
(* How far a node's row reaches. *)

LEMMA RecentPairs ==
    ASSUME RowsTyped, TimesTyped, NEW n \in Nodes, NEW p \in Recent(n)
    PROVE  /\ p \in Pairs(n) /\ p.from \in Nat /\ p.to \in Nat /\ p.from < p.to /\ p.to <= LastSample(n) /\ p.to <= clock
           /\ Low(n) \in Int /\ Low(n) < p.to /\ Larger(p.from, Low(n)) \in Int
           /\ p.from <= Larger(p.from, Low(n)) /\ Low(n) <= Larger(p.from, Low(n))
<1>1. p \in Pairs(n) /\ p.to > Low(n)
  BY DEF Recent
<1>2. Low(n) \in Int /\ clock \in Nat
  BY CurrentIs
<1>3. p.from \in Nat /\ p.to \in Nat /\ p.from < p.to /\ p.to <= LastSample(n) /\ p.to <= clock
  <2>1. DOMAIN samples[n] \in SUBSET Nat /\ LastSample(n) \in Nat /\ LastSample(n) <= clock
    BY SamplesAre
  <2>2. p.from \in DOMAIN samples[n] /\ p.to \in DOMAIN samples[n] /\ p.from < p.to /\ p.to <= LastSample(n)
    BY <1>1, PairsAre
  <2> QED  BY <1>2, <2>1, <2>2
<1>4. /\ Larger(p.from, Low(n)) \in Int
      /\ p.from <= Larger(p.from, Low(n)) /\ Low(n) <= Larger(p.from, Low(n))
  <2>1. p.from \in Int
    BY <1>3
  <2> QED  BY <1>2, <2>1, LargerSmaller
<1> QED  BY <1>1, <1>2, <1>3, <1>4

\* The cycle and the pairs of a node are functions of the clock, its samples and its rule.
LEMMA CurrentStays ==
    ASSUME NEW n, clock' = clock, samples'[n] = samples[n], rule'[n] = rule[n]
    PROVE  /\ Current(n)' = Current(n) /\ CurrentKey(n)' = CurrentKey(n) /\ Low(n)' = Low(n)
           /\ Pairs(n)' = Pairs(n) /\ Recent(n)' = Recent(n) /\ LastSample(n)' = LastSample(n)
           /\ \A l : NoSilence(n, l)' <=> NoSilence(n, l)
<1>1. Current(n)' = Current(n) /\ Pairs(n)' = Pairs(n) /\ LastSample(n)' = LastSample(n)
  BY DEF Current, Pairs, LastSample, At
<1>2. \A p : Delta(n, p)' = Delta(n, p)
  BY DEF Delta
<1>3. CurrentKey(n)' = CurrentKey(n) /\ Low(n)' = Low(n)
  BY <1>1 DEF CurrentKey, Key, Low
<1>4. Recent(n)' = Recent(n)
  BY <1>1, <1>2, <1>3 DEF Recent
<1>5. \A l : NoSilence(n, l)' <=> NoSilence(n, l)
  BY <1>1 DEF NoSilence
<1> QED  BY <1>1, <1>3, <1>4, <1>5

\* A step that leaves a node's row alone leaves it covered as far, and as far as every earlier time.
LEMMA CoveredStays ==
    ASSUME RowsTyped, TimesTyped, NEW n \in Nodes, clock' = clock, samples'[n] = samples[n], rule'[n] = rule[n],
           lagged => lagged', NEW k, k = CurrentKey(n), k \in DOMAIN usage' <=> k \in DOMAIN usage,
           k \in DOMAIN usage => usage'[k] = usage[k], NEW a \in Int, NEW b \in Int, b <= Larger(0, a), CoveredTo(n, a)
    PROVE  CoveredTo(n, b)'
<1>1. CurrentKey(n)' = k /\ Low(n)' = Low(n) /\ Recent(n)' = Recent(n) /\ \A l : NoSilence(n, l)' <=> NoSilence(n, l)
  BY CurrentStays
<1>2. Steady(n)' => Steady(n)
  BY <1>1 DEF Steady
<1>3. SUFFICES ASSUME NEW p \in Recent(n)
               PROVE  /\ p.to <= b => k \in DOMAIN usage' /\ usage'[k].until >= p.to
                      /\ NoSilence(n, Settle) /\ p.from < b /\ Low(n) < b => k \in DOMAIN usage'
                      /\ Steady(n)' /\ k \in DOMAIN usage' => usage'[k].from <= Larger(p.from, Low(n))
  BY <1>1 DEF CoveredTo, Larger
<1>4. p.from \in Nat /\ p.to \in Nat /\ p.from < p.to /\ Low(n) \in Int
  BY RecentPairs
<1>5. /\ p.to <= a => k \in DOMAIN usage /\ usage[k].until >= p.to
      /\ NoSilence(n, Settle) /\ p.from < a /\ Low(n) < a => k \in DOMAIN usage
      /\ Steady(n) /\ k \in DOMAIN usage => usage[k].from <= Larger(p.from, Low(n))
  BY DEF CoveredTo
<1>6. (p.to <= b => p.to <= a) /\ (p.from < b => b <= a)
  BY <1>4 DEF Larger
<1>7. p.from < b /\ Low(n) < b => p.from < a /\ Low(n) < a
  BY <1>4, <1>6
<1> QED  BY <1>2, <1>5, <1>6, <1>7

\* A window takes the row of a node up to its end, when it begins where the last one ended or
\* the row begins, and, for samples within the overlap, before the pairs that it is the first to see.
LEMMA ScanCovers ==
    ASSUME RowsTyped, TimesTyped, RowsReach, NEW scope \in SUBSET Nodes, NEW n \in scope, NEW start \in Int, NEW end \in Int,
           MaterializeUsageRange(scope, start, end), UNCHANGED <<clock, samples, rule>>, start < end, end <= clock,
           NEW x \in Int, CoveredTo(n, x), start <= Larger(x, Low(n)), lagged => lagged',
           NoSilence(n, Overlap) /\ ~lagged' => \A p \in Recent(n) : p.to > x => start <= Larger(p.from, Low(n)),
           NEW b \in Int, b <= Larger(0, end)
    PROVE  CoveredTo(n, b)'
<1>1. PICK k : k = CurrentKey(n)
  OBVIOUS
<1>2. CurrentKey(n)' = k /\ Low(n)' = Low(n) /\ Recent(n)' = Recent(n) /\ \A l : NoSilence(n, l)' <=> NoSilence(n, l)
  BY <1>1, CurrentStays
<1>3. SUFFICES ASSUME NEW p \in Recent(n)
               PROVE  /\ p.to <= b => k \in DOMAIN usage' /\ usage'[k].until >= p.to
                      /\ NoSilence(n, Settle) /\ p.from < b /\ Low(n) < b => k \in DOMAIN usage'
                      /\ Steady(n)' /\ k \in DOMAIN usage' => usage'[k].from <= Larger(p.from, Low(n))
  BY <1>2 DEF CoveredTo, Larger
<1>4. /\ n \in Nodes /\ p.from \in Nat /\ p.to \in Nat /\ p.from < p.to /\ Low(n) \in Int /\ Low(n) < p.to
      /\ Larger(p.from, Low(n)) \in Int /\ p.from <= Larger(p.from, Low(n)) /\ Low(n) <= Larger(p.from, Low(n))
  BY RecentPairs
<1>5. /\ p.to <= x => k \in DOMAIN usage /\ usage[k].until >= p.to
      /\ NoSilence(n, Settle) /\ p.from < x /\ Low(n) < x => k \in DOMAIN usage
      /\ Steady(n) /\ k \in DOMAIN usage => usage[k].from <= Larger(p.from, Low(n))
  BY <1>1 DEF CoveredTo
<1>6. /\ RowsReach'
      /\ k \in DOMAIN usage => k \in DOMAIN usage' /\ usage'[k].from <= usage[k].from /\ usage[k].until <= usage'[k].until
      /\ k \in DOMAIN usage' /\ k \notin DOMAIN usage => usage'[k].from < end
  BY ScanIs
<1>7. /\ k \in DOMAIN usage' => usage'[k].from \in Int /\ usage'[k].until \in Int
      /\ k \in DOMAIN usage => usage[k].from \in Int /\ usage[k].until \in Int
  BY <1>6 DEF RowsReach
<1>8. p.to > x => start < p.to
  BY <1>4 DEF Larger
<1>9. ASSUME p.to > x, p.from < end, Low(n) < end
      PROVE  /\ k \in DOMAIN usage' /\ (p.to <= end => p.to <= usage'[k].until)
             /\ k \notin DOMAIN usage => \/ usage'[k].from <= p.from
                                         \/ usage'[k].from <= start
                                         \/ usage'[k].from <= Low(n)
  BY <1>1, <1>8, <1>9, PairIsScanned
<1>10. p.to <= end => k \in DOMAIN usage' /\ usage'[k].until >= p.to
  BY <1>4, <1>5, <1>6, <1>7, <1>9
<1>11. p.from < end /\ Low(n) < end => k \in DOMAIN usage'
  BY <1>4, <1>5, <1>6, <1>9
<1>12. ASSUME Steady(n)', k \in DOMAIN usage'
       PROVE  usage'[k].from <= Larger(p.from, Low(n))
  <2>1. (NoSilence(n, Settle) \/ (NoSilence(n, Overlap) /\ ~lagged')) /\ Steady(n)
    BY <1>2, <1>12 DEF Steady
  <2>2. CASE k \in DOMAIN usage
    BY <1>4, <1>5, <1>6, <1>7, <2>1, <2>2
  <2>3. CASE k \notin DOMAIN usage
    <3>1. p.to > x
      BY <1>4, <1>5, <2>3
    <3>2. CASE p.from >= end \/ Low(n) >= end
      BY <1>4, <1>6, <1>7, <1>12, <2>3, <3>2
    <3>3. CASE p.from < end /\ Low(n) < end
      <4>1. usage'[k].from <= p.from \/ usage'[k].from <= start \/ usage'[k].from <= Low(n)
        BY <1>9, <2>3, <3>1, <3>3
      <4>2. start <= Larger(p.from, Low(n))
        <5>1. CASE NoSilence(n, Overlap) /\ ~lagged'
          BY <3>1, <5>1
        <5>2. CASE NoSilence(n, Settle)
          <6>1. ~(p.from < x /\ Low(n) < x)
            BY <1>5, <2>3, <5>2
          <6> QED  BY <1>4, <6>1 DEF Larger
        <5> QED  BY <2>1, <5>1, <5>2
      <4> QED  BY <1>4, <1>7, <1>12, <4>1, <4>2
    <3> QED  BY <1>4, <3>2, <3>3
  <2> QED  BY <2>2, <2>3
<1>13. (p.to <= b => p.to <= end) /\ (p.from < b /\ Low(n) < b => p.from < end /\ Low(n) < end)
  BY <1>4 DEF Larger
<1> QED  BY <1>10, <1>11, <1>12, <1>13

-----------------------------------------------------------------------------
(* Steps that do not scan. *)

LEMMA SpendKeepsTime ==
    ASSUME TimesTyped, NEW what, what # "time", Spend(what), clock' = clock
    PROVE  TimesTyped'
<1>1. "time" \in DOMAIN left' /\ left'.time = left.time
  BY DEF TimesTyped, Spend
<1> QED  BY <1>1 DEF TimesTyped

LEMMA ScannedIs ==
    ASSUME RowsTyped, TimesTyped, ScanIsBehind, RepairsAreBehind, NEW n \in Nodes
    PROVE  /\ ScannedTo(n) \in Int
           /\ ScannedTo(n) <= Larger(0, clock - Settle) \/ ScannedTo(n) <= Current(n).start
<1>1. clock \in Nat /\ Settle \in Nat /\ Current(n).start \in Int
  BY CurrentIs, TimesAssumption
<1>2. CASE n \in DOMAIN repairs
  <2>1. ScannedTo(n) = repairs[n] /\ repairs[n] \in Int /\ (repairs[n] <= Current(n).start \/ repairs[n] <= clock - Settle)
    BY <1>2 DEF ScannedTo, RepairsAreBehind
  <2> QED  BY <1>1, <2>1 DEF Larger
<1>3. CASE n \notin DOMAIN repairs
  BY <1>3 DEF ScannedTo, ScanIsBehind
<1> QED  BY <1>2, <1>3

\* Steps that neither scan nor report: the Service reads its target, fails, or does something else.
LEMMA OtherSteps ==
    ASSUME RowsTyped, UsageInv, UNCHANGED <<clock, samples, rule, repairs, usage, lagged>>, TimesTyped',
           "usage" \in DOMAIN cursor', cursor'.usage = cursor.usage,
           service'.pc \in {"usage", "repair"} =>
             \/ service'.target = clock - Settle
             \/ service.pc \in {"usage", "repair"} /\ service'.target = service.target
    PROVE  UsageInv'
<1>1. TimesTyped /\ RowsReach /\ ScanIsBehind /\ RepairsAreBehind /\ \A n \in Nodes : CoveredTo(n, ScannedTo(n))
  BY DEF UsageInv
<1>2. \A n \in Nodes : samples'[n] = samples[n] /\ rule'[n] = rule[n]
  OBVIOUS
<1>3. RowsReach'
  <2>1. \A n : LastSample(n)' = LastSample(n)
    BY DEF LastSample
  <2> QED  BY <1>1, <2>1 DEF RowsReach
<1>4. ScanIsBehind'
  <2>1. clock - Settle \in Int /\ cursor.usage \in Int /\ cursor.usage <= Larger(0, clock - Settle)
    BY <1>1, TimesAssumption DEF ScanIsBehind, RowsTyped
  <2>2. cursor'.usage \in Int /\ cursor'.usage <= Larger(0, clock' - Settle)
    BY <2>1 DEF Larger
  <2>3. ASSUME service'.pc \in {"usage", "repair"}
        PROVE  service'.target \in Int /\ service'.target <= clock' - Settle /\ cursor'.usage <= Larger(0, service'.target)
    <3>1. CASE service'.target = clock - Settle
      BY <2>1, <3>1 DEF Larger
    <3>2. CASE service.pc \in {"usage", "repair"} /\ service'.target = service.target
      BY <1>1, <3>2 DEF ScanIsBehind, Larger
    <3> QED  BY <2>3, <3>1, <3>2
  <2> QED  BY <2>2, <2>3 DEF ScanIsBehind, Larger
<1>5. RepairsAreBehind'
  <2>1. \A n \in Nodes : Current(n)' = Current(n)
    BY <1>2, CurrentStays
  <2>2. DOMAIN repairs \subseteq Nodes
    BY <1>1 DEF RepairsAreBehind
  <2> QED  BY <1>1, <2>1, <2>2 DEF RepairsAreBehind
<1>6. ASSUME NEW n \in Nodes
      PROVE  CoveredTo(n, ScannedTo(n))'
  <2>1. PICK a \in Int : a = ScannedTo(n)
    BY <1>1, ScannedIs
  <2>2. CoveredTo(n, a) /\ a <= Larger(0, a)
    BY <1>1, <2>1 DEF Larger
  <2>3. PICK k : k = CurrentKey(n)
    OBVIOUS
  <2>4. CoveredTo(n, a)'
    BY <1>1, <1>2, <2>2, <2>3, CoveredStays
  <2>5. ScannedTo(n)' = a
    BY <2>1 DEF ScannedTo
  <2> QED  BY <2>4, <2>5 DEF CoveredTo
<1> QED  BY <1>3, <1>4, <1>5, <1>6 DEF UsageInv

\* The phases after a step keep the tick's target.
LEMMA TargetStays ==
    ASSUME ServiceTyped, service.pc \in {"usage", "repair", "facts"}, service' = AfterPhase \/ \E more : Proceed(more)
    PROVE  service'.pc \in {"usage", "repair"} =>
             service.pc \in {"usage", "repair"} /\ service'.target = service.target
<1>1. DOMAIN service = {"pc", "mode", "target", "left", "todo", "row"}
  BY DEF ServiceTyped, Idle
<1>2. CASE service' = AfterPhase
  <2>1. CASE service.pc = "usage"
    BY <1>1, <1>2, <2>1 DEF AfterPhase
  <2>2. CASE service.pc = "repair"
    BY <1>1, <1>2, <2>2 DEF AfterPhase, Idle
  <2>3. CASE service.pc = "facts"
    BY <1>1, <1>2, <2>3 DEF AfterPhase, Idle
  <2> QED  BY <2>1, <2>2, <2>3
<1>3. CASE service' = [service EXCEPT !.left = @ - 1]
  BY <1>1, <1>3
<1> QED  BY <1>2, <1>3 DEF Proceed

\* Time passes: the cycle goes on, or one begins of which nothing has been reported.
LEMMA PassCovers ==
    ASSUME RowsTyped, UsageInv, Pass
    PROVE  UsageInv'
<1>1. TimesTyped /\ RowsReach /\ ScanIsBehind /\ RepairsAreBehind /\ \A n \in Nodes : CoveredTo(n, ScannedTo(n))
  BY DEF UsageInv
<1>2. clock' = clock + 1 /\ UNCHANGED <<samples, rule, cursor, repairs, usage, service, lagged>> /\ clock \in Nat
  BY DEF Pass, RowsTyped
<1>3. left.time \in Nat /\ left.time > 0 /\ "time" \in DOMAIN left' /\ left'.time = left.time - 1
  BY <1>1 DEF Pass, Spend, TimesTyped
<1>4. TimesTyped'
  <2>1. clock' + left'.time = clock + left.time /\ left'.time \in Nat
    BY <1>2, <1>3
  <2> QED  BY <1>1, <1>3, <2>1 DEF TimesTyped
<1>5. RowsReach'
  <2>1. \A n : LastSample(n)' = LastSample(n)
    BY <1>2 DEF LastSample
  <2> QED  BY <1>1, <1>2, <2>1 DEF RowsReach
<1>6. ScanIsBehind'
  BY <1>1, <1>2, TimesAssumption DEF ScanIsBehind, Larger
<1>7. ASSUME NEW n \in Nodes
      PROVE  Current(n)' = Current(n) \/ Current(n)'.start = clock + 1
  <2>1. rule[n] \in Rules /\ rule'[n] = rule[n]
    BY <1>2 DEF RowsTyped
  <2>2. \E b \in Boundaries[rule[n]] : b > clock + 1
    <3>1. PICK b \in Boundaries[rule[n]] : b > clock + left.time
      BY <1>1, <2>1 DEF TimesTyped
    <3>2. b \in Int
      BY <2>1, TimesAssumption
    <3>3. clock + 1 <= clock + left.time
      BY <1>2, <1>3
    <3>4. b > clock + 1
      BY <1>2, <1>3, <3>1, <3>2, <3>3
    <3> QED  BY <3>4
  <2>3. At(rule[n], clock + 1) = At(rule[n], clock) \/ At(rule[n], clock + 1).start = clock + 1
    BY <1>2, <2>1, <2>2, AtPasses
  <2>4. Current(n)' = At(rule[n], clock + 1)
    BY <1>2, <2>1 DEF Current, At
  <2> QED  BY <2>3, <2>4 DEF Current
<1>8. RepairsAreBehind'
  <2>1. ASSUME NEW n \in DOMAIN repairs
        PROVE  repairs[n] <= Current(n)'.start \/ (lagged /\ repairs[n] <= clock' - Settle)
    <3>1. /\ n \in Nodes /\ repairs[n] \in Int
          /\ repairs[n] <= Current(n).start \/ (lagged /\ repairs[n] <= clock - Settle)
      BY <1>1 DEF RepairsAreBehind
    <3>2. Current(n).start \in Int /\ Current(n).start <= clock /\ Settle \in Nat
      BY <1>1, <3>1, CurrentIs, TimesAssumption
    <3>3. CASE Current(n)' = Current(n)
      BY <1>2, <3>1, <3>2, <3>3
    <3>4. CASE Current(n)'.start = clock + 1
      BY <1>2, <3>1, <3>2, <3>4
    <3> QED  BY <1>7, <3>1, <3>3, <3>4
  <2> QED  BY <1>1, <1>2, <2>1 DEF RepairsAreBehind
<1>9. ASSUME NEW n \in Nodes
      PROVE  CoveredTo(n, ScannedTo(n))'
  <2>1. PICK a \in Int : a = ScannedTo(n)
    BY <1>1, ScannedIs
  <2>2. CoveredTo(n, a) /\ ScannedTo(n)' = a
    BY <1>1, <1>2, <2>1 DEF ScannedTo
  <2>3. Pairs(n)' = Pairs(n) /\ \A p : Delta(n, p)' = Delta(n, p)
    BY <1>2 DEF Pairs, Delta
  <2>4. clock \in Nat /\ SourceRetention \in Nat /\ Current(n).start \in Int
    BY <1>1, CurrentIs, TimesAssumption
  <2>5. CASE Current(n)' = Current(n)
    <3>1. PICK k : k = CurrentKey(n) /\ k = CurrentKey(n)'
      BY <1>2, <2>5 DEF CurrentKey, Key
    <3>2. Low(n) \in Int /\ Low(n)' \in Int /\ Low(n) <= Low(n)'
      BY <1>2, <2>4, <2>5 DEF Low, Larger
    <3>3. \A p \in Recent(n)' : p \in Recent(n)
      <4>1. SUFFICES ASSUME NEW p \in Pairs(n), Delta(n, p) > 0, p.to > Low(n)' PROVE p.to > Low(n)
        BY <2>3 DEF Recent
      <4>2. p.to \in Int
        <5>1. DOMAIN samples[n] \in SUBSET Nat
          BY SamplesAre
        <5> QED  BY <5>1, PairsAre
      <4> QED  BY <3>2, <4>1, <4>2
    <3>4. (NoSilence(n, Settle)' <=> NoSilence(n, Settle)) /\ (Steady(n)' <=> Steady(n))
      BY <1>2, <2>3 DEF NoSilence, Steady
    <3>5. ASSUME NEW p \in Recent(n)'
          PROVE  /\ p.to <= a => k \in DOMAIN usage /\ usage[k].until >= p.to
                 /\ NoSilence(n, Settle) /\ p.from < a /\ Low(n)' < a => k \in DOMAIN usage
                 /\ Steady(n) /\ k \in DOMAIN usage => usage[k].from <= Larger(p.from, Low(n)')
      <4>1. p \in Recent(n) /\ p.from \in Nat
        BY <1>1, <3>3, RecentPairs
      <4>2. /\ p.to <= a => k \in DOMAIN usage /\ usage[k].until >= p.to
            /\ NoSilence(n, Settle) /\ p.from < a /\ Low(n) < a => k \in DOMAIN usage
            /\ Steady(n) /\ k \in DOMAIN usage => usage[k].from <= Larger(p.from, Low(n))
        BY <2>2, <3>1, <4>1 DEF CoveredTo
      <4>3. k \in DOMAIN usage => usage[k].from \in Int
        BY <1>1 DEF RowsReach
      <4>4. Larger(p.from, Low(n)) <= Larger(p.from, Low(n)') /\ Larger(p.from, Low(n)) \in Int /\ Larger(p.from, Low(n)') \in Int
        BY <3>2, <4>1 DEF Larger
      <4>5. Low(n)' < a => Low(n) < a
        BY <3>2
      <4>6. Steady(n) /\ k \in DOMAIN usage => usage[k].from <= Larger(p.from, Low(n)')
        BY <4>2, <4>3, <4>4
      <4> QED  BY <4>2, <4>5, <4>6
    <3> QED  BY <1>2, <2>2, <3>1, <3>4, <3>5 DEF CoveredTo, Larger
  <2>6. CASE Current(n)'.start = clock + 1
    <3>1. Low(n)' \in Int /\ clock + 1 <= Low(n)'
      BY <1>2, <2>4, <2>6 DEF Low, Larger
    <3>2. Recent(n)' = {}
      <4>1. SUFFICES ASSUME NEW p \in Pairs(n), p.to > Low(n)' PROVE FALSE
        BY <2>3 DEF Recent
      <4>2. p.to \in Nat /\ p.to <= clock
        <5>1. DOMAIN samples[n] \in SUBSET Nat /\ LastSample(n) \in Nat /\ LastSample(n) <= clock
          BY SamplesAre
        <5>2. p.to \in DOMAIN samples[n] /\ p.to <= LastSample(n)
          BY PairsAre
        <5> QED  BY <2>4, <5>1, <5>2
      <4> QED  BY <2>4, <3>1, <4>1, <4>2
    <3> QED  BY <3>2 DEF CoveredTo
  <2> QED  BY <1>7, <2>5, <2>6
<1> QED  BY <1>4, <1>5, <1>6, <1>8, <1>9 DEF UsageInv

\* A report adds one pair, which ends now: after what the scan has passed, and after the row begins.
LEMMA ReportCovers ==
    ASSUME RowsTyped, UsageInv, NEW n \in Nodes, Report(n)
    PROVE  UsageInv'
<1>1. TimesTyped /\ RowsReach /\ ScanIsBehind /\ RepairsAreBehind /\ \A m \in Nodes : CoveredTo(m, ScannedTo(m))
  BY DEF UsageInv
<1>2. UNCHANGED <<clock, rule, cursor, repairs, usage, service, lagged>> /\ clock \in Nat
  BY DEF Report, RowsTyped
<1>3. /\ LastSample(n) < clock /\ LastSample(n)' = clock /\ LastSample(n) \in Nat
      /\ \A m \in Nodes : m # n => samples'[m] = samples[m]
      /\ \A t \in DOMAIN samples[n] : samples'[n][t] = samples[n][t]
      /\ Pairs(n)' = Pairs(n) \cup {[from |-> LastSample(n), to |-> clock]}
  BY ReportAddsPair, SamplesAre
<1>4. \A m \in Nodes : Current(m)' = Current(m) /\ CurrentKey(m)' = CurrentKey(m) /\ Low(m)' = Low(m)
  BY <1>2 DEF Current, CurrentKey, Key, Low, At
<1>5. TimesTyped'
  <2>1. CASE left' = left
    BY <1>1, <1>2, <2>1 DEF TimesTyped
  <2>2. CASE Spend("resets")
    BY <1>1, <1>2, <2>2, SpendKeepsTime
  <2> QED  BY <2>1, <2>2 DEF Report
<1>6. RowsReach'
  <2>1. SUFFICES ASSUME NEW k \in DOMAIN usage PROVE usage[k].from <= LastSample(k.node)'
    BY <1>1, <1>2 DEF RowsReach
  <2>2. k.node \in Nodes /\ usage[k].from \in Int /\ usage[k].from <= LastSample(k.node)
    BY <1>1 DEF RowsReach
  <2>3. CASE k.node = n
    BY <1>2, <1>3, <2>2, <2>3
  <2>4. CASE k.node # n
    BY <1>3, <2>2, <2>4 DEF LastSample
  <2> QED  BY <2>3, <2>4
<1>7. ScanIsBehind'
  BY <1>1, <1>2 DEF ScanIsBehind, Larger
<1>8. RepairsAreBehind'
  BY <1>1, <1>2, <1>4 DEF RepairsAreBehind
<1>9. ASSUME NEW m \in Nodes, m # n
      PROVE  CoveredTo(m, ScannedTo(m))'
  <2>1. PICK a \in Int : a = ScannedTo(m)
    BY <1>1, ScannedIs
  <2>2. CoveredTo(m, a) /\ a <= Larger(0, a) /\ ScannedTo(m)' = a
    BY <1>1, <1>2, <2>1 DEF Larger, ScannedTo
  <2>3. PICK k : k = CurrentKey(m)
    OBVIOUS
  <2>4. CoveredTo(m, a)'
    BY <1>1, <1>2, <1>3, <1>9, <2>2, <2>3, CoveredStays
  <2> QED  BY <2>2, <2>4 DEF CoveredTo
<1>10. CoveredTo(n, ScannedTo(n))'
  <2>1. PICK a \in Int : a = ScannedTo(n)
    BY <1>1, ScannedIs
  <2>2. CoveredTo(n, a) /\ ScannedTo(n)' = a
    BY <1>1, <1>2, <2>1 DEF ScannedTo
  <2>3. PICK k : k = CurrentKey(n) /\ k = CurrentKey(n)'
    BY <1>4
  <2>4. PICK q : q = [from |-> LastSample(n), to |-> clock]
    OBVIOUS
  <2>5. q.from = LastSample(n) /\ q.to = clock /\ Pairs(n)' = Pairs(n) \cup {q}
    BY <1>3, <2>4
  <2>6. \A l : NoSilence(n, l)' => NoSilence(n, l) /\ q.to - q.from <= l
    BY <2>5 DEF NoSilence
  <2>7. Steady(n)' => Steady(n)
    BY <1>2, <2>6 DEF Steady
  <2>8. \A p \in Pairs(n) : Delta(n, p)' = Delta(n, p)
    <3>1. SUFFICES ASSUME NEW p \in Pairs(n) PROVE Delta(n, p)' = Delta(n, p)
      OBVIOUS
    <3>2. p.from \in DOMAIN samples[n] /\ p.to \in DOMAIN samples[n]
      BY PairsAre
    <3> QED  BY <1>3, <3>2 DEF Delta
  <2>9. \A p \in Recent(n)' : p \in Recent(n) \/ (p = q /\ p.to > Low(n))
    BY <1>4, <2>5, <2>8 DEF Recent
  <2>10. ASSUME NEW p \in Recent(n)'
         PROVE  /\ p.to <= a => k \in DOMAIN usage /\ usage[k].until >= p.to
                /\ NoSilence(n, Settle)' /\ p.from < a /\ Low(n) < a => k \in DOMAIN usage
                /\ Steady(n)' /\ k \in DOMAIN usage => usage[k].from <= Larger(p.from, Low(n))
    <3>1. CASE p \in Recent(n)
      BY <2>2, <2>3, <2>6, <2>7, <3>1 DEF CoveredTo
    <3>2. CASE p = q /\ p.to > Low(n)
      <4>1. /\ Low(n) \in Int /\ Current(n).start \in Int /\ Current(n).start <= Low(n) /\ Settle \in Nat /\ Settle > 0
            /\ clock \in Nat
        BY <1>1, CurrentIs, TimesAssumption
      <4>2. a <= Larger(0, clock - Settle) \/ a <= Current(n).start
        BY <1>1, <2>1, ScannedIs
      <4>3. ~(p.to <= a)
        BY <1>3, <2>5, <3>2, <4>1, <4>2 DEF Larger
      <4>4. ~(NoSilence(n, Settle)' /\ p.from < a /\ Low(n) < a)
        <5>1. SUFFICES ASSUME q.to - q.from <= Settle, q.from < a, Low(n) < a PROVE FALSE
          BY <2>6, <3>2
        <5> QED  BY <1>3, <2>5, <4>1, <4>2, <5>1 DEF Larger
      <4>5. k \in DOMAIN usage => usage[k].from <= Larger(p.from, Low(n))
        <5>1. k.node = n
          BY <2>3 DEF CurrentKey, Key
        <5>2. k \in DOMAIN usage => usage[k].from \in Int /\ usage[k].from <= LastSample(n)
          BY <1>1, <5>1 DEF RowsReach
        <5> QED  BY <1>3, <2>5, <3>2, <4>1, <5>2 DEF Larger
      <4> QED  BY <4>3, <4>4, <4>5
    <3> QED  BY <2>9, <3>1, <3>2
  <2> QED  BY <1>2, <1>4, <2>2, <2>3, <2>10 DEF CoveredTo, Larger
<1> QED  BY <1>5, <1>6, <1>7, <1>8, <1>9, <1>10 DEF UsageInv

\* One repair more, or one further on, leaves one furthest behind in every set of repairs.
LEMMA FurthestBehind ==
    ASSUME NEW f, NEW g, NEW n, DOMAIN g \subseteq DOMAIN f \cup {n}, \A m \in DOMAIN g : g[m] \in Int,
           \A m \in DOMAIN g : m # n => g[m] = f[m],
           HasLeast(f)
    PROVE  HasLeast(g)
<1> SUFFICES ASSUME NEW S \in SUBSET DOMAIN g, S # {}
             PROVE  \E m \in S : \A o \in S : g[m] <= g[o]
  BY DEF HasLeast
<1> DEFINE T == S \ {n}
<1>1. CASE T = {}
  <2>1. n \in S /\ \A o \in S : o = n
    BY <1>1
  <2>2. g[n] \in Int
    BY <2>1
  <2> QED  BY <2>1, <2>2
<1>2. CASE T # {}
  <2>1. T \in SUBSET DOMAIN f
    OBVIOUS
  <2>2. PICK m \in T : \A o \in T : f[m] <= f[o]
    BY <1>2, <2>1 DEF HasLeast
  <2>3. \A o \in T : g[m] <= g[o]
    BY <2>2
  <2>4. m \in S /\ g[m] \in Int
    BY <2>2
  <2>5. CASE n \in S /\ g[n] < g[m]
    <3>1. g[n] \in Int /\ \A o \in T : g[o] \in Int
      BY <2>5
    <3>2. \A o \in S : g[n] <= g[o]
      BY <2>3, <2>4, <2>5, <3>1
    <3> QED  BY <2>5, <3>2
  <2>6. CASE ~(n \in S /\ g[n] < g[m])
    <3>1. n \in S => g[n] \in Int /\ g[m] <= g[n]
      BY <2>4, <2>6
    <3>2. \A o \in S : g[m] <= g[o]
      BY <2>3, <3>1
    <3> QED  BY <2>4, <3>2
  <2> QED  BY <2>5, <2>6
<1> QED  BY <1>1, <1>2

\* A changed cycle drops the rows that are not over before the old and the new one begin, and
\* the node's repair starts there: the new cycle has no row, and the scan is not in it.
LEMMA ChangeCovers ==
    ASSUME RowsTyped, UsageInv, NEW n \in Nodes, NEW r \in Rules, ChangeCycle(n, r)
    PROVE  UsageInv'
<1>1. TimesTyped /\ RowsReach /\ ScanIsBehind /\ RepairsAreBehind /\ \A m \in Nodes : CoveredTo(m, ScannedTo(m))
  BY DEF UsageInv
<1>2. UNCHANGED <<clock, samples, cursor, service, lagged>> /\ clock \in Nat
  BY DEF ChangeCycle, RowsTyped
<1>3. rule'[n] = r /\ \A m \in Nodes : m # n => rule'[m] = rule[m]
  BY DEF ChangeCycle, RowsTyped
<1>4. PICK from : from = Smaller(At(rule[n], clock).start, At(r, clock).start)
  OBVIOUS
<1>5. /\ usage' = Restrict(usage, {k \in DOMAIN usage : k.node # n \/ k.end <= from})
      /\ repairs' = [m \in DOMAIN repairs \cup {n} |->
                       IF m # n THEN repairs[m]
                       ELSE IF n \in DOMAIN repairs THEN Smaller(repairs[n], from) ELSE from]
  BY <1>4 DEF ChangeCycle, ResetCycleDerived
<1>6. /\ DOMAIN usage' = {k \in DOMAIN usage : k.node # n \/ k.end <= from}
      /\ \A k \in DOMAIN usage' : usage'[k] = usage[k]
  BY <1>5 DEF Restrict
<1>7. TimesTyped'
  <2>1. Spend("cycles")
    BY DEF ChangeCycle
  <2> QED  BY <1>1, <1>2, <2>1, SpendKeepsTime
<1>8. RowsReach'
  <2>1. \A m : LastSample(m)' = LastSample(m)
    BY <1>2 DEF LastSample
  <2> QED  BY <1>1, <1>6, <2>1 DEF RowsReach
<1>9. ScanIsBehind'
  BY <1>1, <1>2 DEF ScanIsBehind, Larger
<1>10. PICK c : c = At(r, clock)
  OBVIOUS
<1>11. Current(n)' = c /\ c.start \in Int /\ c.end \in Int /\ c.start <= clock /\ clock < c.end
  <2>1. \E b \in Boundaries[r] : b > clock
    <3>1. PICK b \in Boundaries[r] : b > clock + left.time
      BY <1>1 DEF TimesTyped
    <3>2. b \in Int /\ left.time \in Nat
      BY <1>1, TimesAssumption DEF TimesTyped
    <3> QED  BY <1>2, <3>1, <3>2
  <2>2. c.start \in Int /\ c.end \in Int /\ c.start <= clock /\ clock < c.end
    BY <1>2, <1>10, <2>1, AtIs
  <2> QED  BY <1>2, <1>3, <1>10, <2>2 DEF Current, At
<1>12. from \in Int /\ from <= c.start
  <2>1. PICK o \in Int : o = At(rule[n], clock).start
    BY <1>1, CurrentIs DEF Current
  <2> QED  BY <1>4, <1>10, <1>11, <2>1, LargerSmaller
<1>13. n \in DOMAIN repairs' /\ repairs'[n] \in Int /\ repairs'[n] <= c.start
  <2>1. n \in DOMAIN repairs => repairs[n] \in Int
    BY <1>1 DEF RepairsAreBehind
  <2>2. repairs'[n] = (IF n \in DOMAIN repairs THEN Smaller(repairs[n], from) ELSE from)
    BY <1>5
  <2> QED  BY <1>5, <1>11, <1>12, <2>1, <2>2 DEF Smaller
<1>14. \A m \in DOMAIN repairs' : m # n => m \in DOMAIN repairs /\ repairs'[m] = repairs[m]
  BY <1>5
<1>15. RepairsAreBehind'
  <2>1. DOMAIN repairs' \subseteq Nodes /\ DOMAIN repairs' \subseteq DOMAIN repairs \cup {n}
    BY <1>1, <1>5 DEF RepairsAreBehind
  <2>2. ASSUME NEW m \in DOMAIN repairs'
        PROVE  /\ repairs'[m] \in Int
               /\ repairs'[m] <= Current(m)'.start \/ (lagged /\ repairs'[m] <= clock - Settle)
    <3>1. CASE m = n
      BY <1>11, <1>13, <3>1
    <3>2. CASE m # n
      <4>1. m \in Nodes /\ m \in DOMAIN repairs /\ repairs'[m] = repairs[m]
        BY <1>14, <2>1, <3>2
      <4>2. Current(m)' = Current(m)
        BY <1>2, <1>3, <3>2, <4>1, CurrentStays
      <4> QED  BY <1>1, <4>1, <4>2 DEF RepairsAreBehind
    <3> QED  BY <3>1, <3>2
  <2>3. HasLeast(repairs)'
    <3>1. PICK f, g : f = repairs /\ g = repairs'
      OBVIOUS
    <3>2. /\ DOMAIN g \subseteq DOMAIN f \cup {n} /\ (\A m \in DOMAIN g : g[m] \in Int)
          /\ (\A m \in DOMAIN g : m # n => g[m] = f[m]) /\ HasLeast(f)
      BY <1>1, <1>14, <2>1, <2>2, <3>1 DEF RepairsAreBehind
    <3>3. HasLeast(g)
      BY ONLY <3>2, FurthestBehind
    <3> QED  BY <3>1, <3>3 DEF HasLeast
  <2> QED  BY <1>2, <2>1, <2>2, <2>3 DEF RepairsAreBehind
<1>16. ASSUME NEW m \in Nodes, m # n
       PROVE  CoveredTo(m, ScannedTo(m))'
  <2>1. PICK a \in Int : a = ScannedTo(m)
    BY <1>1, ScannedIs
  <2>2. CoveredTo(m, a) /\ a <= Larger(0, a) /\ ScannedTo(m)' = a
    BY <1>1, <1>2, <1>5, <1>14, <1>16, <2>1 DEF Larger, ScannedTo
  <2>3. PICK k : k = CurrentKey(m)
    OBVIOUS
  <2>4. k.node = m
    BY <2>3 DEF CurrentKey, Key
  <2>5. (k \in DOMAIN usage' <=> k \in DOMAIN usage) /\ (k \in DOMAIN usage => usage'[k] = usage[k])
    BY <1>6, <1>16, <2>4
  <2>6. clock' = clock /\ samples'[m] = samples[m] /\ rule'[m] = rule[m] /\ (lagged => lagged')
    BY <1>2, <1>3, <1>16
  <2>7. CoveredTo(m, a)'
    BY <1>1, <2>2, <2>3, <2>5, <2>6, CoveredStays
  <2> QED  BY <2>2, <2>7 DEF CoveredTo
<1>17. CoveredTo(n, ScannedTo(n))'
  <2>1. PICK a \in Int : a = ScannedTo(n)' /\ a <= c.start
    BY <1>13 DEF ScannedTo
  <2>2. PICK k : k = CurrentKey(n)'
    OBVIOUS
  <2>3. k \notin DOMAIN usage'
    <3>1. k.node = n /\ k.end = c.end
      BY <1>11, <2>2 DEF CurrentKey, Key
    <3>2. ~(k.end <= from)
      BY <1>2, <1>11, <1>12, <3>1
    <3> QED  BY <1>6, <3>1, <3>2
  <2>4. Low(n)' \in Int /\ a <= Low(n)'
    <3>1. clock - SourceRetention \in Int
      BY <1>2, TimesAssumption
    <3>2. Low(n)' = Larger(c.start, clock - SourceRetention)
      BY <1>2, <1>11 DEF Low, Larger
    <3> QED  BY <1>11, <2>1, <3>1, <3>2 DEF Larger
  <2>5. \A p \in Recent(n)' : ~(p.to <= a)
    <3>1. SUFFICES ASSUME NEW p \in Pairs(n), p.to > Low(n)' PROVE ~(p.to <= a)
      <4>1. Pairs(n)' = Pairs(n)
        BY <1>2 DEF Pairs
      <4> QED  BY <4>1 DEF Recent
    <3>2. p.to \in Int
      <4>1. DOMAIN samples[n] \in SUBSET Nat
        BY SamplesAre
      <4> QED  BY <4>1, PairsAre
    <3> QED  BY <2>4, <3>1, <3>2
  <2>6. ~(Low(n)' < a)
    BY <2>4
  <2> QED  BY <2>1, <2>2, <2>3, <2>5, <2>6 DEF CoveredTo
<1> QED  BY <1>7, <1>8, <1>9, <1>15, <1>16, <1>17 DEF UsageInv

-----------------------------------------------------------------------------
(* Steps that scan. *)

\* A window that advances begins no later than the cursor or the retention, ends no later than
\* its target, and if it reaches the target it begins the overlap earlier.
LEMMA WindowIs ==
    ASSUME NEW at \in Int, NEW target \in Int, NEW floor \in Int, floor < target,
           NEW w, w = Window(at, target, floor)
    PROVE  \/ ~w.advanced /\ w.end = at /\ target <= at
           \/ /\ w.advanced /\ w.start \in Int /\ w.end \in Int
              /\ w.start < w.end /\ w.end <= target /\ w.start <= Larger(at, floor)
              /\ ~HasMore(w, target) => w.start <= at - Overlap \/ w.start <= floor
<1>1. Chunk \in Nat /\ Chunk > 0 /\ Overlap \in Nat
  BY TimesAssumption
<1>2. PICK c \in Int : c = Larger(at, floor) /\ c \in {at, floor} /\ at <= c /\ floor <= c
  BY LargerSmaller
<1>3. CASE target <= c
  <2>1. w = [start |-> c, end |-> c, advanced |-> FALSE] /\ c = at
    BY <1>2, <1>3 DEF Window
  <2> QED  BY <1>3, <2>1
<1>4. CASE ~(target <= c)
  <2>1. PICK end \in Int : end = Smaller(c + Chunk, target) /\ c < end /\ end <= target
    BY <1>1, <1>2, <1>4 DEF Smaller
  <2>2. PICK start \in Int : start = Larger(IF end = target THEN c - Overlap ELSE c, floor)
    BY <1>1, <1>2, <2>1 DEF Larger
  <2>3. start <= c /\ (end = target => start <= at - Overlap \/ start <= floor)
    BY <1>1, <1>2, <2>1, <2>2 DEF Larger
  <2>4. w = [start |-> start, end |-> end, advanced |-> TRUE]
    BY <1>2, <1>4, <2>1, <2>2 DEF Window
  <2>5. w.start = start /\ w.end = end /\ w.advanced
    BY <2>4
  <2>6. ~HasMore(w, target) => end = target
    BY <2>1, <2>5 DEF HasMore
  <2> QED  BY <1>2, <2>1, <2>3, <2>5, <2>6
<1> QED  BY <1>3, <1>4

LEMMA UsageCovers ==
    ASSUME RowsTyped, ServiceTyped, UsageInv, UsageStep
    PROVE  UsageInv'
<1>1. TimesTyped /\ RowsReach /\ ScanIsBehind /\ RepairsAreBehind /\ \A n \in Nodes : CoveredTo(n, ScannedTo(n))
  BY DEF UsageInv
<1>2. UNCHANGED <<clock, samples, rule, repairs, left>> /\ clock \in Nat /\ service.pc = "usage"
  BY DEF UsageStep, RowsTyped
<1>3. PICK target \in Int, cu \in Int : target = service.target /\ cu = cursor.usage
  BY <1>1, <1>2 DEF ScanIsBehind
<1>4. target <= clock - Settle /\ cu <= Larger(0, target) /\ cu <= Larger(0, clock - Settle)
  BY <1>1, <1>2, <1>3 DEF ScanIsBehind
<1>5. Settle \in Nat /\ SourceRetention \in Nat /\ SourceRetention > 0 /\ Overlap \in Nat
  BY TimesAssumption
<1>6. PICK floor \in Int : floor = target - SourceRetention /\ floor < target
  BY <1>5
<1>7. PICK w : w = Window(cu, target, floor)
  OBVIOUS
<1>8. /\ IF w.advanced THEN MaterializeUsageRange(Nodes \ DOMAIN repairs, w.start, w.end) ELSE UNCHANGED usage
      /\ cursor' = [cursor EXCEPT !["usage"] = w.end]
      /\ Proceed(HasMore(w, target)) /\ lagged' = (lagged \/ HasMore(w, target))
  BY <1>3, <1>6, <1>7 DEF UsageStep, MaterializeTrafficMonthUsage, Mark
<1>9. "usage" \in DOMAIN cursor' /\ cursor'.usage = w.end
  BY <1>1, <1>8 DEF ScanIsBehind
<1>10. lagged => lagged'
  BY <1>8
<1>11. TimesTyped'
  BY <1>1, <1>2 DEF TimesTyped
<1>12. RepairsAreBehind'
  <2>1. DOMAIN repairs \subseteq Nodes
    BY <1>1 DEF RepairsAreBehind
  <2>2. \A n \in Nodes : Current(n)' = Current(n)
    BY <1>2, CurrentStays
  <2> QED  BY <1>1, <1>2, <1>10, <2>1, <2>2 DEF RepairsAreBehind
<1>13. service'.pc \in {"usage", "repair"} => service'.target = target
  <2>1. \E more : Proceed(more)
    BY <1>8
  <2> QED  BY <1>2, <1>3, <2>1, TargetStays
<1>14. ASSUME w.end \in Int, w.end <= Larger(0, target)
       PROVE  ScanIsBehind'
  <2>1. Larger(0, target) <= Larger(0, clock - Settle) /\ Larger(0, target) \in Int /\ Larger(0, clock - Settle) \in Int
    BY <1>2, <1>4, <1>5 DEF Larger
  <2>2. w.end <= Larger(0, clock - Settle)
    BY <1>14, <2>1
  <2>3. /\ "usage" \in DOMAIN cursor' /\ cursor'.usage \in Int /\ cursor'.usage <= Larger(0, clock' - Settle)
    BY <1>2, <1>9, <1>14, <2>2 DEF Larger
  <2>4. ASSUME service'.pc \in {"usage", "repair"}
        PROVE  service'.target \in Int /\ service'.target <= clock' - Settle /\ cursor'.usage <= Larger(0, service'.target)
    BY <1>2, <1>4, <1>9, <1>13, <1>14, <2>4
  <2> QED  BY <2>3, <2>4 DEF ScanIsBehind, Larger
<1>15. ASSUME NEW n \in Nodes, NEW k, k = CurrentKey(n), k \in DOMAIN usage' <=> k \in DOMAIN usage,
              k \in DOMAIN usage => usage'[k] = usage[k], ScannedTo(n)' = ScannedTo(n)
       PROVE  CoveredTo(n, ScannedTo(n))'
  <2>1. PICK a \in Int : a = ScannedTo(n)
    BY <1>1, ScannedIs
  <2>2. CoveredTo(n, a) /\ a <= Larger(0, a) /\ ScannedTo(n)' = a
    BY <1>1, <1>15, <2>1 DEF Larger
  <2>3. clock' = clock /\ samples'[n] = samples[n] /\ rule'[n] = rule[n]
    BY <1>2
  <2>4. CoveredTo(n, a)'
    BY <1>1, <1>10, <1>15, <2>2, <2>3, CoveredStays
  <2> QED  BY <2>2, <2>4 DEF CoveredTo
<1>16. CASE ~w.advanced /\ w.end = cu
  <2>1. usage' = usage
    BY <1>8, <1>16
  <2>2. RowsReach'
    <3>1. \A n : LastSample(n)' = LastSample(n)
      BY <1>2 DEF LastSample
    <3> QED  BY <1>1, <2>1, <3>1 DEF RowsReach
  <2>3. ScanIsBehind'
    BY <1>4, <1>14, <1>16
  <2>4. ASSUME NEW n \in Nodes PROVE CoveredTo(n, ScannedTo(n))'
    <3>1. ScannedTo(n)' = ScannedTo(n)
      BY <1>2, <1>3, <1>9, <1>16 DEF ScannedTo
    <3> QED  BY <1>15, <2>1, <3>1
  <2> QED  BY <1>11, <1>12, <2>2, <2>3, <2>4 DEF UsageInv
<1>17. CASE /\ w.advanced /\ w.start \in Int /\ w.end \in Int
            /\ w.start < w.end /\ w.end <= target /\ w.start <= Larger(cu, floor)
            /\ ~HasMore(w, target) => w.start <= cu - Overlap \/ w.start <= floor
  <2>1. PICK start \in Int, end \in Int : start = w.start /\ end = w.end
    BY <1>17
  <2>2. PICK scope \in SUBSET Nodes : scope = Nodes \ DOMAIN repairs
    OBVIOUS
  <2>3. MaterializeUsageRange(scope, start, end)
    BY <1>8, <1>17, <2>1, <2>2
  <2>4. start < end /\ end <= target /\ end <= clock /\ start <= Larger(cu, floor) /\ end <= Larger(0, target)
    BY <1>2, <1>4, <1>5, <1>17, <2>1 DEF Larger
  <2>5. RowsReach'
    BY <1>1, <1>2, <2>3, ScanIs
  <2>6. ScanIsBehind'
    BY <1>14, <2>1, <2>4
  <2>7. ASSUME NEW n \in Nodes, n \in DOMAIN repairs
        PROVE  CoveredTo(n, ScannedTo(n))'
    <3>1. PICK k : k = CurrentKey(n)
      OBVIOUS
    <3>2. k.node \notin scope
      <4>1. k.node = n
        BY <3>1 DEF CurrentKey, Key
      <4> QED  BY <2>2, <2>7, <4>1
    <3>3. (k \in DOMAIN usage' <=> k \in DOMAIN usage) /\ (k \in DOMAIN usage => usage'[k] = usage[k])
      BY <1>1, <1>2, <2>3, <3>2, ScanIs
    <3>4. ScannedTo(n)' = ScannedTo(n)
      BY <1>2, <2>7 DEF ScannedTo
    <3> QED  BY <1>15, <3>1, <3>3, <3>4
  <2>8. ASSUME NEW n \in Nodes, n \notin DOMAIN repairs
        PROVE  CoveredTo(n, ScannedTo(n))'
    <3>1. ScannedTo(n)' = end /\ ScannedTo(n) = cu
      BY <1>2, <1>3, <1>9, <2>1, <2>8 DEF ScannedTo
    <3>2. CoveredTo(n, cu) /\ n \in scope
      BY <1>1, <2>2, <2>8, <3>1
    <3>3. Low(n) \in Int /\ floor <= Low(n)
      <4>1. Low(n) \in Int /\ clock - SourceRetention <= Low(n)
        BY <1>1, CurrentIs
      <4> QED  BY <1>2, <1>4, <1>5, <1>6, <4>1
    <3>4. start <= Larger(cu, Low(n))
      BY <2>4, <3>3 DEF Larger
    <3>5. ASSUME NoSilence(n, Overlap), ~lagged', NEW p \in Recent(n), p.to > cu
          PROVE  start <= Larger(p.from, Low(n))
      <4>1. start <= cu - Overlap \/ start <= floor
        BY <1>8, <1>17, <2>1, <3>5
      <4>2. p \in Pairs(n) /\ p.from \in Nat /\ p.to \in Nat
        BY <1>1, RecentPairs
      <4>3. p.to - p.from <= Overlap
        BY <3>5, <4>2 DEF NoSilence
      <4> QED  BY <1>5, <3>3, <3>5, <4>1, <4>2, <4>3 DEF Larger
    <3>6. end <= Larger(0, end)
      BY DEF Larger
    <3>7. CoveredTo(n, end)'
      <4>1. NoSilence(n, Overlap) /\ ~lagged' => \A p \in Recent(n) : p.to > cu => start <= Larger(p.from, Low(n))
        BY <3>5
      <4>2. RowsTyped /\ TimesTyped /\ RowsReach /\ UNCHANGED <<clock, samples, rule>>
        BY <1>1, <1>2
      <4> QED  BY ONLY <1>10, <2>3, <2>4, <3>2, <3>4, <3>6, <4>1, <4>2, ScanCovers
    <3> QED  BY <3>1, <3>7 DEF CoveredTo
  <2> QED  BY <1>11, <1>12, <2>5, <2>6, <2>7, <2>8 DEF UsageInv
<1> QED  BY <1>6, <1>7, <1>16, <1>17, WindowIs

\* One chunk of a repair: the node's row follows, and when the repair is done it has caught up
\* with the live scan, whose cursor the tick's target has not fallen behind.
LEMMA RepairCovers ==
    ASSUME RowsTyped, ServiceTyped, UsageInv, UsageRepairStep
    PROVE  UsageInv'
<1>1. TimesTyped /\ RowsReach /\ ScanIsBehind /\ RepairsAreBehind /\ \A n \in Nodes : CoveredTo(n, ScannedTo(n))
  BY DEF UsageInv
<1>2. UNCHANGED <<clock, samples, rule, cursor, left>> /\ clock \in Nat /\ service.pc = "repair"
  BY DEF UsageRepairStep, RowsTyped
<1>3. PICK target \in Int, cu \in Int : target = service.target /\ cu = cursor.usage
  BY <1>1, <1>2 DEF ScanIsBehind
<1>4. target <= clock - Settle /\ cu <= Larger(0, target)
  BY <1>1, <1>2, <1>3 DEF ScanIsBehind
<1>5. Settle \in Nat /\ SourceRetention \in Nat /\ SourceRetention > 0 /\ RepairChunk \in Nat /\ RepairChunk > 0
  BY TimesAssumption
<1>6. lagged' = (lagged \/ DOMAIN repairs' # {}) /\ (lagged => lagged')
  BY DEF UsageRepairStep
<1>7. TimesTyped'
  BY <1>1, <1>2 DEF TimesTyped
<1>8. ScanIsBehind'
  <2>1. \E more : Proceed(more)
    BY DEF UsageRepairStep
  <2>2. service'.pc \in {"usage", "repair"} => service'.target = service.target
    BY <1>2, <2>1, TargetStays
  <2> QED  BY <1>1, <1>2, <2>2 DEF ScanIsBehind, Larger
<1>9. \A n \in Nodes : Current(n)' = Current(n)
  BY <1>2, CurrentStays
<1>10. ASSUME NEW n \in Nodes, NEW k, k = CurrentKey(n), k \in DOMAIN usage' <=> k \in DOMAIN usage,
              k \in DOMAIN usage => usage'[k] = usage[k], NEW b \in Int, b <= Larger(0, ScannedTo(n))
       PROVE  CoveredTo(n, b)'
  <2>1. PICK a \in Int : a = ScannedTo(n)
    BY <1>1, ScannedIs
  <2>2. CoveredTo(n, a) /\ b <= Larger(0, a)
    BY <1>1, <1>10, <2>1
  <2>3. clock' = clock /\ samples'[n] = samples[n] /\ rule'[n] = rule[n]
    BY <1>2
  <2> QED  BY <1>1, <1>6, <1>10, <2>2, <2>3, CoveredStays
<1>11. CASE DOMAIN repairs = {}
  <2>1. UNCHANGED <<usage, repairs>>
    BY <1>11 DEF UsageRepairStep
  <2>2. RowsReach'
    <3>1. \A n : LastSample(n)' = LastSample(n)
      BY <1>2 DEF LastSample
    <3> QED  BY <1>1, <2>1, <3>1 DEF RowsReach
  <2>3. RepairsAreBehind'
    BY <1>1, <1>11, <2>1 DEF RepairsAreBehind
  <2>4. ASSUME NEW n \in Nodes PROVE CoveredTo(n, ScannedTo(n))'
    <3>1. PICK b \in Int : b = ScannedTo(n) /\ b = ScannedTo(n)' /\ b <= Larger(0, ScannedTo(n))
      <4>1. ScannedTo(n) \in Int /\ ScannedTo(n)' = ScannedTo(n)
        BY <1>1, <1>2, <2>1, ScannedIs DEF ScannedTo
      <4> QED  BY <4>1 DEF Larger
    <3>2. CoveredTo(n, b)'
      BY <1>10, <2>1, <3>1
    <3> QED  BY <3>1, <3>2 DEF CoveredTo
  <2> QED  BY <1>7, <1>8, <2>2, <2>3, <2>4 DEF UsageInv
<1>12. CASE DOMAIN repairs # {}
  <2>1. PICK n \in DOMAIN repairs : n = NextRepair
    <3>1. \E m \in DOMAIN repairs : \A o \in DOMAIN repairs : repairs[m] <= repairs[o]
      BY <1>1, <1>12 DEF RepairsAreBehind, HasLeast
    <3>2. NextRepair \in DOMAIN repairs
      BY <3>1 DEF NextRepair
    <3> QED  BY <3>2
  <2>2. PICK x \in Int : x = repairs[n]
    BY <1>1 DEF RepairsAreBehind
  <2>3. n \in Nodes /\ ScannedTo(n) = x /\ CoveredTo(n, x) /\ (x <= Current(n).start \/ lagged)
    BY <1>1, <2>2 DEF RepairsAreBehind, ScannedTo
  <2>4. PICK floor \in Int : floor = target - SourceRetention /\ floor < target
    BY <1>5
  <2>5. PICK start \in Int : start = Larger(x, floor)
    BY LargerSmaller
  <2>6. PICK end \in Int : end = Smaller(start + RepairChunk, target) /\ end <= target /\ (start < target => start < end)
    BY <1>5 DEF Smaller
  <2>7. PICK done \in BOOLEAN : done <=> (target <= start \/ end = target)
    OBVIOUS
  <2>8. /\ IF target > start THEN MaterializeUsageRange({n}, start, end) ELSE UNCHANGED usage
        /\ repairs' = IF done THEN Restrict(repairs, DOMAIN repairs \ {n}) ELSE [repairs EXCEPT ![n] = end]
    BY <1>3, <1>12, <2>1, <2>2, <2>4, <2>5, <2>6, <2>7 DEF UsageRepairStep, Repair
  <2>9. /\ \A m \in DOMAIN repairs' : m # n => m \in DOMAIN repairs /\ repairs'[m] = repairs[m]
        /\ \A m \in DOMAIN repairs : m # n => m \in DOMAIN repairs'
        /\ done => n \notin DOMAIN repairs'
        /\ ~done => n \in DOMAIN repairs' /\ repairs'[n] = end
    BY <2>8 DEF Restrict
  <2>10. RepairsAreBehind'
    <3>1. DOMAIN repairs' \subseteq Nodes /\ DOMAIN repairs' \subseteq DOMAIN repairs \cup {n}
      BY <1>1, <2>9 DEF RepairsAreBehind
    <3>2. ASSUME NEW m \in DOMAIN repairs'
          PROVE  /\ repairs'[m] \in Int
                 /\ repairs'[m] <= Current(m)'.start \/ (lagged' /\ repairs'[m] <= clock - Settle)
      <4>1. CASE m = n
        <5>1. repairs'[m] = end /\ DOMAIN repairs' # {}
          BY <2>9, <4>1
        <5>2. end <= clock - Settle
          BY <1>2, <1>4, <1>5, <2>6
        <5> QED  BY <1>6, <5>1, <5>2
      <4>2. CASE m # n
        <5>1. m \in Nodes /\ m \in DOMAIN repairs /\ repairs'[m] = repairs[m]
          BY <2>9, <3>1, <4>2
        <5> QED  BY <1>1, <1>6, <1>9, <5>1 DEF RepairsAreBehind
      <4> QED  BY <4>1, <4>2
    <3>3. HasLeast(repairs)'
      <4>1. PICK f, g : f = repairs /\ g = repairs'
        OBVIOUS
      <4>2. /\ DOMAIN g \subseteq DOMAIN f \cup {n} /\ (\A m \in DOMAIN g : g[m] \in Int)
            /\ (\A m \in DOMAIN g : m # n => g[m] = f[m]) /\ HasLeast(f)
        BY <1>1, <2>9, <3>1, <3>2, <4>1 DEF RepairsAreBehind
      <4>3. HasLeast(g)
        BY ONLY <4>2, FurthestBehind
      <4> QED  BY <4>1, <4>3 DEF HasLeast
    <3> QED  BY <1>2, <3>1, <3>2, <3>3 DEF RepairsAreBehind
  <2>11. PICK b \in Int : b = ScannedTo(n)'
    BY <1>2, <1>3, <2>9 DEF ScannedTo
  <2>12. /\ done => b = cu /\ b <= Larger(0, target)
         /\ ~done => b = end
    BY <1>2, <1>3, <1>4, <2>9, <2>11 DEF ScannedTo
  <2>13. ASSUME NEW m \in Nodes, m # n, NEW k, k = CurrentKey(m), k \in DOMAIN usage' <=> k \in DOMAIN usage,
                k \in DOMAIN usage => usage'[k] = usage[k]
         PROVE  CoveredTo(m, ScannedTo(m))'
    <3>1. ScannedTo(m)' = ScannedTo(m) /\ ScannedTo(m) \in Int
      BY <1>1, <1>2, <2>9, <2>13, ScannedIs DEF ScannedTo
    <3>2. PICK a \in Int : a = ScannedTo(m) /\ a <= Larger(0, ScannedTo(m))
      BY <3>1 DEF Larger
    <3>3. CoveredTo(m, a)'
      BY <1>10, <2>13, <3>2
    <3> QED  BY <3>1, <3>2, <3>3 DEF CoveredTo
  <2>14. CASE ~(target > start)
    <3>1. usage' = usage /\ done
      BY <2>7, <2>8, <2>14
    <3>2. RowsReach'
      <4>1. \A m : LastSample(m)' = LastSample(m)
        BY <1>2 DEF LastSample
      <4> QED  BY <1>1, <3>1, <4>1 DEF RowsReach
    <3>3. CoveredTo(n, ScannedTo(n))'
      <4>1. target <= x
        BY <2>4, <2>5, <2>14 DEF Larger
      <4>2. b <= Larger(0, ScannedTo(n))
        BY <2>3, <2>12, <3>1, <4>1 DEF Larger
      <4>3. PICK k : k = CurrentKey(n)
        OBVIOUS
      <4>4. CoveredTo(n, b)'
        BY <1>10, <2>3, <3>1, <4>2, <4>3
      <4> QED  BY <2>11, <4>4 DEF CoveredTo
    <3>4. ASSUME NEW m \in Nodes, m # n PROVE CoveredTo(m, ScannedTo(m))'
      BY <2>13, <3>1, <3>4
    <3> QED  BY <1>7, <1>8, <2>10, <3>2, <3>3, <3>4 DEF UsageInv
  <2>15. CASE target > start
    <3>1. MaterializeUsageRange({n}, start, end) /\ start < end /\ end <= clock
      BY <1>2, <1>4, <1>5, <2>6, <2>8, <2>15
    <3>2. {n} \in SUBSET Nodes
      BY <2>3
    <3>3. PICK scope \in SUBSET Nodes : scope = {n}
      BY <3>2
    <3>4. MaterializeUsageRange(scope, start, end) /\ n \in scope
      BY <3>1, <3>3
    <3>5. RowsReach'
      BY <1>1, <1>2, <3>4, ScanIs
    <3>6. CoveredTo(n, ScannedTo(n))'
      <4>1. Low(n) \in Int /\ floor <= Low(n) /\ Current(n).start <= Low(n) /\ Current(n).start \in Int
        <5>1. /\ Low(n) \in Int /\ clock - SourceRetention <= Low(n) /\ Current(n).start <= Low(n)
              /\ Current(n).start \in Int
          BY <1>1, <2>3, CurrentIs
        <5> QED  BY <1>2, <1>4, <1>5, <2>4, <5>1
      <4>2. start <= Larger(x, Low(n))
        BY <2>5, <4>1 DEF Larger
      <4>3. ASSUME ~lagged', NEW p \in Recent(n) PROVE start <= Larger(p.from, Low(n))
        <5>1. x <= Current(n).start
          BY <1>6, <2>3, <4>3
        <5>2. Low(n) <= Larger(p.from, Low(n)) /\ Larger(p.from, Low(n)) \in Int
          BY <1>1, <2>3, RecentPairs
        <5>3. start <= Low(n)
          BY <2>5, <4>1, <5>1 DEF Larger
        <5> QED  BY <4>1, <5>2, <5>3
      <4>4. NoSilence(n, Overlap) /\ ~lagged' => \A p \in Recent(n) : p.to > x => start <= Larger(p.from, Low(n))
        BY <4>3
      <4>5. b <= Larger(0, end)
        BY <2>6, <2>7, <2>12, <2>15 DEF Larger
      <4>6. CoveredTo(n, b)'
        <5>1. RowsTyped /\ TimesTyped /\ RowsReach /\ UNCHANGED <<clock, samples, rule>>
          BY <1>1, <1>2
        <5> QED  BY ONLY <1>6, <2>3, <3>1, <3>4, <4>2, <4>4, <4>5, <5>1, ScanCovers
      <4> QED  BY <2>11, <4>6 DEF CoveredTo
    <3>7. ASSUME NEW m \in Nodes, m # n PROVE CoveredTo(m, ScannedTo(m))'
      <4>1. PICK k : k = CurrentKey(m)
        OBVIOUS
      <4>2. k.node \notin scope
        <5>1. k.node = m
          BY <4>1 DEF CurrentKey, Key
        <5> QED  BY <3>3, <3>7, <5>1
      <4>3. (k \in DOMAIN usage' <=> k \in DOMAIN usage) /\ (k \in DOMAIN usage => usage'[k] = usage[k])
        BY <1>1, <1>2, <3>4, <4>2, ScanIs
      <4> QED  BY <2>13, <3>7, <4>1, <4>3
    <3> QED  BY <1>7, <1>8, <2>10, <3>5, <3>6, <3>7 DEF UsageInv
  <2> QED  BY <2>14, <2>15
<1> QED  BY <1>11, <1>12

-----------------------------------------------------------------------------
(* The rows of the current cycle. *)

LEMMA UsageInit ==
    ASSUME Init
    PROVE  UsageInv
<1>1. RowsTyped
  BY InitTyped
<1>2. clock = 0 /\ left \in Scenarios /\ cursor = [usage |-> 0, facts |-> 0] /\ DOMAIN repairs = {} /\ DOMAIN usage = {}
  BY DEF Init
<1>3. TimesTyped
  <2>1. left.time \in Nat /\ "time" \in DOMAIN left
    BY <1>2, ScenariosAssumption
  <2>2. \A r \in Rules : \E b \in Boundaries[r] : b > left.time
    BY <1>2, BoundariesAssumption
  <2>3. clock + left.time = left.time
    BY <1>2, <2>1
  <2> QED  BY <2>1, <2>2, <2>3 DEF TimesTyped
<1>4. RowsReach
  BY <1>2 DEF RowsReach
<1>5. ScanIsBehind
  <2>1. service.pc = "idle"
    BY DEF Init, Idle
  <2>2. "usage" \in DOMAIN cursor /\ cursor.usage = 0
    BY <1>2
  <2>3. 0 <= Larger(0, clock - Settle)
    BY <1>2, TimesAssumption DEF Larger
  <2> QED  BY <2>1, <2>2, <2>3 DEF ScanIsBehind
<1>6. RepairsAreBehind
  BY <1>2 DEF RepairsAreBehind, HasLeast
<1>7. ASSUME NEW n \in Nodes PROVE CoveredTo(n, ScannedTo(n))
  <2>1. SUFFICES ASSUME NEW p \in Recent(n) PROVE FALSE
    BY DEF CoveredTo
  <2>2. p.from \in Nat /\ p.to \in Nat /\ p.from < p.to /\ p.to <= clock
    BY <1>1, <1>3, <2>1, RecentPairs
  <2> QED  BY <1>2, <2>2
<1> QED  BY <1>3, <1>4, <1>5, <1>6, <1>7 DEF UsageInv

LEMMA UsageStays ==
    ASSUME RowsTyped, ServiceTyped, UsageInv, Next
    PROVE  UsageInv'
<1> DEFINE Others == <<clock, samples, rule, repairs, usage, lagged>>
           SameTarget == service'.pc \in {"usage", "repair"} =>
                           \/ service'.target = clock - Settle
                           \/ service.pc \in {"usage", "repair"} /\ service'.target = service.target
<1>1. TimesTyped /\ "usage" \in DOMAIN cursor
  BY DEF UsageInv, ScanIsBehind
<1>2. DOMAIN service = {"pc", "mode", "target", "left", "todo", "row"}
  BY DEF ServiceTyped, Idle
<1>3. ASSUME UNCHANGED Others, left' = left \/ \E what : what # "time" /\ Spend(what),
             "usage" \in DOMAIN cursor', cursor'.usage = cursor.usage, SameTarget
      PROVE  UsageInv'
  <2>1. TimesTyped'
    <3>1. CASE left' = left
      BY <1>1, <1>3, <3>1 DEF TimesTyped
    <3>2. CASE \E what : what # "time" /\ Spend(what)
      BY <1>1, <1>3, <3>2, SpendKeepsTime
    <3> QED  BY <1>3, <3>1, <3>2
  <2> QED  BY <1>3, <2>1, OtherSteps
<1>4. CASE Pass \/ (\E n \in Nodes : Report(n) \/ \E r \in Rules : ChangeCycle(n, r)) \/ UsageStep \/ UsageRepairStep
  BY <1>4, PassCovers, ReportCovers, ChangeCovers, UsageCovers, RepairCovers
<1>5. CASE (\E n \in Nodes : StartRebuild(n)) \/ RebuildSource \/ RebuildTraffic5mChunk \/ RebuildFails
  <2>1. UNCHANGED <<Others, cursor, service>>
    BY <1>5 DEF StartRebuild, RebuildSource, RebuildTraffic5mChunk, RebuildFails
  <2>2. left' = left \/ \E what : what # "time" /\ Spend(what)
    <3>1. left' = left \/ Spend("rebuilds") \/ Spend("faults")
      BY <1>5 DEF StartRebuild, RebuildSource, RebuildTraffic5mChunk, RebuildFails
    <3> QED  BY <3>1
  <2> QED  BY <1>1, <1>3, <2>1, <2>2
<1>6. CASE \E m \in {"lite", "billing"} : PatchSettingsAt(m)
  <2>1. UNCHANGED <<Others, service>> /\ Spend("modes")
    BY <1>6 DEF PatchSettingsAt
  <2>2. "usage" \in DOMAIN cursor' /\ cursor'.usage = cursor.usage
    BY <1>1, <1>6 DEF PatchSettingsAt, Mark
  <2> QED  BY <1>3, <2>1, <2>2
<1>7. CASE Tick
  <2>1. UNCHANGED <<Others, cursor, left>> /\ service'.target = clock - Settle
    BY <1>7 DEF Tick, Idle
  <2> QED  BY <1>1, <1>3, <2>1
<1>8. CASE FactsStep
  <2>1. UNCHANGED <<Others, left>> /\ service.pc = "facts" /\ \E more : Proceed(more)
    BY <1>8 DEF FactsStep
  <2>2. "usage" \in DOMAIN cursor' /\ cursor'.usage = cursor.usage
    BY <1>1, <1>8 DEF FactsStep, MaterializeTraffic5m, Mark
  <2>3. SameTarget
    BY <2>1, TargetStays
  <2> QED  BY <1>3, <2>1, <2>2, <2>3
<1>9. CASE StepFails
  <2>1. UNCHANGED <<Others, cursor>> /\ service.pc \in {"usage", "repair", "facts"} /\ service' = AfterPhase /\ Spend("faults")
    BY <1>9 DEF StepFails
  <2>2. SameTarget
    BY <2>1, TargetStays
  <2> QED  BY <1>1, <1>3, <2>1, <2>2
<1>10. CASE Snapshot \/ SnapshotEnds \/ Restart
  <2>1. UNCHANGED <<Others, cursor>> /\ service'.pc \in {"snapshot", "idle"}
    <3>1. CASE Snapshot
      <4>1. PICK todo : service' = [Idle EXCEPT !.pc = "snapshot", !.target = clock, !.todo = todo]
        BY <3>1 DEF Snapshot
      <4>2. service'.pc = "snapshot"
        BY <4>1 DEF Idle
      <4> QED  BY <3>1, <4>2 DEF Snapshot
    <3>2. CASE SnapshotEnds \/ Restart
      BY <3>2 DEF SnapshotEnds, Restart, Idle
    <3> QED  BY <1>10, <3>1, <3>2
  <2>2. left' = left \/ \E what : what # "time" /\ Spend(what)
    <3>1. left' = left \/ Spend("snapshots") \/ Spend("faults")
      BY <1>10 DEF Snapshot, SnapshotEnds, Restart
    <3> QED  BY <3>1
  <2>3. SameTarget
    BY <2>1
  <2> QED  BY <1>1, <1>3, <2>1, <2>2, <2>3
<1>11. CASE (\E k \in service.todo : SnapshotRead(k)) \/ SnapshotSave
  <2>1. UNCHANGED <<Others, cursor, left>> /\ service'.pc \in {"snapshot", "save"}
    BY <1>2, <1>11 DEF SnapshotRead, SnapshotSave
  <2>2. SameTarget
    BY <2>1
  <2> QED  BY <1>1, <1>3, <2>1, <2>2
<1> QED
  BY <1>4, <1>5, <1>6, <1>7, <1>8, <1>9, <1>10, <1>11 DEF Next, ServiceNext

-----------------------------------------------------------------------------
(* Reports: what their computations promise, for every input. *)

\* What a billing cycle is computed from: the modes whose boundaries are found month by month.
MonthRules == [mode: {"calendar_month", "clamp_to_month_end"}, day: 1 .. 31, anchor: Int]
Boundary(r, month) == TrafficBoundaryInMonth(r.mode, r.day, month)

LEMMA DaysOfMonth ==
    ASSUME NEW m \in Int
    PROVE  DaysInMonth(m) \in 28 .. 31
<1>1. DaysInMonth(m) \in {28, 29, 30, 31}
  BY DEF DaysInMonth
<1> QED  BY <1>1

\* Each month has one boundary, on one of its days.
LEMMA BoundaryIs ==
    ASSUME NEW r \in MonthRules, NEW m \in Int
    PROVE  Boundary(r, m) \in Int /\ 32 * m + 1 <= Boundary(r, m) /\ Boundary(r, m) <= 32 * m + 31
<1>1. PICK n \in 28 .. 31 : n = DaysInMonth(m)
  BY DaysOfMonth
<1>2. PICK day \in 1 .. 31 : day = r.day
  BY DEF MonthRules
<1>3. PICK d : d = (CASE r.mode = "calendar_month" -> 1
                      [] r.mode = "clamp_to_month_end" -> Min({day, n})
                      [] OTHER -> day)
  OBVIOUS
<1>4. d \in 1 .. n
  <2>1. CASE r.mode = "calendar_month"
    BY <1>3, <2>1
  <2>2. CASE r.mode = "clamp_to_month_end"
    <3>1. d = Min({day, n})
      BY <1>3, <2>2
    <3>2. PICK S : S = {day, n}
      OBVIOUS
    <3>3. S \in SUBSET Int /\ S # {} /\ \A x \in S : 1 <= x
      BY <3>2
    <3>4. Min(S) \in S /\ \A x \in S : Min(S) <= x
      BY <3>3, MinIs
    <3> QED  BY <3>1, <3>2, <3>4
  <2> QED  BY <2>1, <2>2 DEF MonthRules
<1>5. Boundary(r, m) = Encode(m, d)
  <2>1. ~(d > DaysInMonth(m))
    BY <1>1, <1>4
  <2>2. Boundary(r, m) = Normal(m, d)
    BY <1>1, <1>2, <1>3 DEF Boundary, TrafficBoundaryInMonth
  <2> QED  BY <2>1, <2>2 DEF Normal
<1> QED  BY <1>4, <1>5 DEF Encode

\* The boundaries around a time include those on both sides of every cycle that holds it.
LEMMA BoundariesAre ==
    ASSUME NEW r \in MonthRules, NEW ref \in Int, NEW l \in Int,
           Boundary(r, l) <= ref, ref < Boundary(r, l + 1)
    PROVE  /\ CycleBoundariesAround(r, ref) \in SUBSET Int
           /\ \A b \in CycleBoundariesAround(r, ref) :
                b <= Boundary(r, l) \/ b = Boundary(r, l + 1) \/ b > Boundary(r, l + 1)
           /\ {Boundary(r, l - 1), Boundary(r, l), Boundary(r, l + 1)} \subseteq CycleBoundariesAround(r, ref)
<1> DEFINE W == 12 * (YearOf(ref) - 2) .. 12 * (YearOf(ref) + 3) - 1
<1>1. CycleBoundariesAround(r, ref) = {Boundary(r, m) : m \in W}
  <2>1. r.mode # "whmcs_compatible"
    BY DEF MonthRules
  <2> QED  BY <2>1 DEF CycleBoundariesAround, TrafficBoundariesAround, Boundary
<1>2. PICK y \in Int, d \in 0 .. 383 : ref = 384 * y + d /\ y = YearOf(ref)
  BY DEF YearOf
<1>3. 32 * l + 1 <= ref /\ ref < 32 * l + 63
  <2>1. l + 1 \in Int
    OBVIOUS
  <2> QED  BY <2>1, BoundaryIs
<1>4. l - 1 \in W /\ l \in W /\ l + 1 \in W
  BY <1>2, <1>3
<1>5. W \subseteq Int
  BY <1>2
<1> HIDE DEF W
<1>6. \A m \in W : m \in Int /\ Boundary(r, m) \in Int /\ 32 * m + 1 <= Boundary(r, m) /\ Boundary(r, m) <= 32 * m + 31
  BY <1>5, BoundaryIs
<1>7. ASSUME NEW m \in W
      PROVE  Boundary(r, m) <= Boundary(r, l) \/ Boundary(r, m) = Boundary(r, l + 1) \/ Boundary(r, m) > Boundary(r, l + 1)
  <2>1. CASE m = l \/ m = l + 1
    BY <1>4, <1>6, <2>1
  <2>2. CASE m < l
    BY <1>4, <1>6, <2>2
  <2>3. CASE m > l + 1
    BY <1>4, <1>6, <2>3
  <2> QED  BY <1>6, <2>1, <2>2, <2>3
<1> QED  BY <1>1, <1>4, <1>6, <1>7

\* A time between two boundaries is in their cycle, from whichever year it is computed, and the
\* one before it is found from its start.
LEMMA CycleAtIs ==
    ASSUME NEW r \in MonthRules, NEW ref \in Int, NEW l \in Int,
           Boundary(r, l) <= ref, ref < Boundary(r, l + 1)
    PROVE  CycleAt(r, ref) = {[start |-> Boundary(r, l), end |-> Boundary(r, l + 1)]}
<1> DEFINE B == CycleBoundariesAround(r, ref)
           low == {b \in B : b <= ref}
           high == {b \in B : b > ref}
<1>1. PICK s \in Int, e \in Int : s = Boundary(r, l) /\ e = Boundary(r, l + 1)
  <2>1. l + 1 \in Int
    OBVIOUS
  <2> QED  BY <2>1, BoundaryIs
<1>2. s <= ref /\ ref < e /\ B \in SUBSET Int /\ s \in B /\ e \in B /\ \A b \in B : b <= s \/ b = e \/ b > e
  BY <1>1, BoundariesAre
<1> HIDE DEF B
<1>3. low \in SUBSET Int /\ low # {} /\ s \in low /\ \A x \in low : x <= s
  <2>1. \A x \in low : x \in Int /\ x <= s
    BY <1>2
  <2> QED  BY <1>2, <2>1
<1>4. high \in SUBSET Int /\ high # {} /\ e \in high /\ \A x \in high : e <= x
  <2>1. \A x \in high : x \in Int /\ e <= x
    BY <1>2
  <2> QED  BY <1>2, <2>1
<1>5. CycleAt(r, ref) = IF low = {} \/ high = {} THEN {} ELSE {[start |-> Max(low), end |-> Min(high)]}
  BY DEF CycleAt, B
<1> HIDE DEF low, high
<1>6. Max(low) = s
  <2>1. Max(low) \in low /\ \A x \in low : x <= Max(low)
    BY <1>3, MaxIs
  <2>2. Max(low) \in Int
    BY <1>3, <2>1
  <2>3. Max(low) <= s /\ s <= Max(low)
    BY <1>3, <2>1
  <2> QED  BY <2>2, <2>3
<1>7. Min(high) = e
  <2>1. Min(high) \in high /\ \A x \in high : Min(high) <= x
    BY <1>4, MinIs
  <2>2. Min(high) \in Int
    BY <1>4, <2>1
  <2>3. Min(high) <= e /\ e <= Min(high)
    BY <1>4, <2>1
  <2> QED  BY <2>2, <2>3
<1>8. low # {} /\ high # {}
  BY <1>3, <1>4
<1> QED  BY <1>1, <1>5, <1>6, <1>7, <1>8

LEMMA PreviousCycleIs ==
    ASSUME NEW r \in MonthRules, NEW l \in Int, NEW c, c.start = Boundary(r, l)
    PROVE  PreviousCycle(r, c) = {[start |-> Boundary(r, l - 1), end |-> Boundary(r, l)]}
<1> DEFINE B == CycleBoundariesAround(r, c.start)
           low == {b \in B : b < c.start}
<1>1. l - 1 \in Int /\ l + 1 \in Int /\ (l - 1) + 1 = l
  OBVIOUS
<1>2. PICK q \in Int, s \in Int : q = Boundary(r, l - 1) /\ s = Boundary(r, l) /\ q < s /\ s < Boundary(r, l + 1)
  <2>1. /\ Boundary(r, l - 1) \in Int /\ Boundary(r, l - 1) <= 32 * (l - 1) + 31
        /\ Boundary(r, l) \in Int /\ 32 * l + 1 <= Boundary(r, l) /\ Boundary(r, l) <= 32 * l + 31
        /\ Boundary(r, l + 1) \in Int /\ 32 * (l + 1) + 1 <= Boundary(r, l + 1)
    BY <1>1, BoundaryIs
  <2> QED  BY <2>1
<1>3. B \in SUBSET Int /\ q \in B /\ s \in B
  <2>1. Boundary(r, l) <= s /\ s < Boundary(r, l + 1)
    BY <1>2
  <2>2. /\ CycleBoundariesAround(r, s) \in SUBSET Int
        /\ {Boundary(r, l - 1), Boundary(r, l), Boundary(r, l + 1)} \subseteq CycleBoundariesAround(r, s)
    BY <2>1, BoundariesAre
  <2> QED  BY <1>2, <2>2
<1>4. \A b \in B : b < s => b <= q
  <2>1. \A m \in Int : Boundary(r, m) \in Int /\ 32 * m + 1 <= Boundary(r, m) /\ Boundary(r, m) <= 32 * m + 31
    BY BoundaryIs
  <2>2. ASSUME NEW b \in B, b < s PROVE b <= q
    <3>1. PICK m \in Int : b = Boundary(r, m)
      <4>1. r.mode # "whmcs_compatible"
        BY DEF MonthRules
      <4>2. YearOf(s) \in Int
        BY DEF YearOf
      <4> QED  BY <1>2, <4>1, <4>2 DEF CycleBoundariesAround, TrafficBoundariesAround, Boundary
    <3>2. m < l
      <4>1. b \in Int /\ 32 * m + 1 <= b /\ s <= 32 * l + 31 /\ b < s
        BY <1>2, <2>1, <2>2, <3>1
      <4>2. m # l
        BY <1>2, <3>1, <4>1
      <4> QED  BY <4>1, <4>2
    <3>3. CASE m = l - 1
      BY <1>2, <3>1, <3>3
    <3>4. CASE m < l - 1
      BY <1>1, <1>2, <2>1, <3>1, <3>4
    <3> QED  BY <3>2, <3>3, <3>4
  <2> QED  BY <2>2
<1> HIDE DEF B
<1>5. low \in SUBSET Int /\ low # {} /\ q \in low /\ (\A x \in low : x <= q) /\ low # B
  <2>1. \A x \in low : x \in Int /\ x <= q
    BY <1>2, <1>3, <1>4
  <2>2. s \in B /\ s \notin low
    BY <1>2, <1>3
  <2> QED  BY <1>2, <1>3, <2>1, <2>2
<1>6. PreviousCycle(r, c) = IF low = {} \/ low = B THEN {} ELSE {[start |-> Max(low), end |-> c.start]}
  BY DEF PreviousCycle, B
<1> HIDE DEF low
<1>7. Max(low) = q
  <2>1. Max(low) \in low /\ \A x \in low : x <= Max(low)
    BY <1>5, MaxIs
  <2>2. Max(low) \in Int
    BY <1>5, <2>1
  <2>3. Max(low) <= q /\ q <= Max(low)
    BY <1>5, <2>1
  <2> QED  BY <2>2, <2>3
<1>8. low # {}
  BY <1>5
<1> QED  BY <1>2, <1>5, <1>6, <1>7, <1>8

-----------------------------------------------------------------------------
(* The theorems. *)


\* In every state a fact without a gap or a reset is what the samples give, a sealed month
\* is made of such facts, and a rebuild has left exact what it has behind it: the scan's
\* upsert and the rebuild's delete and insert (upsertTraffic5mRows, RebuildTraffic5mChunk)
\* write nothing else.
THEOREM FactsInvariant == Spec => []FactsInv
<1>1. Init => FactsInv
  <2>1. SUFFICES ASSUME Init  PROVE FactsInv
    OBVIOUS
  <2>2. RowsTyped /\ ServiceTyped /\ RebuildTyped
    BY <2>1, InitTyped
  <2>3. FactsStay
    BY <2>1 DEF Init, FactsStay
  <2>4. MonthsStay
    BY <2>1 DEF Init, MonthsStay, Idle
  <2>5. RebuildKnows
    BY <2>1 DEF Init, RebuildKnows, NoRebuild
  <2> QED  BY <2>2, <2>3, <2>4, <2>5 DEF FactsInv
<1>2. FactsInv /\ [Next]_vars => FactsInv'
  <2>1. SUFFICES ASSUME FactsInv, [Next]_vars  PROVE FactsInv'
    OBVIOUS
  <2>2. CASE Next
    <3>1. RowsTyped'
      BY <2>1, <2>2, RowsStep
    <3>2. ServiceTyped' /\ FactsStay' /\ MonthsStay'
      BY <2>1, <2>2, <3>1, ServiceStep, FactsStayStep, MonthsStayStep
    <3>3. RebuildTyped' /\ RebuildKnows'
      BY <2>1, <2>2, RebuildStep
    <3> QED  BY <3>1, <3>2, <3>3 DEF FactsInv
  <2>3. CASE UNCHANGED vars
    <3>1. UNCHANGED <<clock, samples, rule, facts, monthly, service, rebuild>>
      BY <2>3 DEF vars
    <3>2. RowsTyped' /\ ServiceTyped' /\ RebuildTyped'
      BY <2>1, <3>1 DEF FactsInv, RowsTyped, ServiceTyped, RebuildTyped, Idle, NoRebuild
    <3>3. \A n : LastSample(n)' = LastSample(n) /\ Pairs(n)' = Pairs(n) /\ FactBuckets(n)' = FactBuckets(n)
      BY <3>1 DEF LastSample, Pairs, FactBuckets, Covering, Reset, Delta
    <3>4. \A n, b : FactRow(n, b)' = FactRow(n, b)
      BY <3>1 DEF FactRow, Covering, Reset, BytesBetween, Delta, Pairs
    <3>5. \A n, b : Exact(n, b)' <=> Exact(n, b)
      BY <3>1, <3>3, <3>4 DEF Exact
    <3>6. FactsStay'
      BY <2>1, <3>1, <3>3, <3>4 DEF FactsInv, FactsStay
    <3>7. \A k, row : Final(k, row)' <=> Final(k, row)
      BY <3>1 DEF Final, Whole, FactBytes, BucketsIn
    <3>8. MonthsStay'
      BY <2>1, <3>1, <3>7 DEF FactsInv, MonthsStay
    <3>9. RebuildKnows'
      BY <2>1, <3>1, <3>3, <3>5 DEF FactsInv, RebuildKnows
    <3> QED  BY <3>2, <3>6, <3>8, <3>9 DEF FactsInv
  <2> QED  BY <2>1, <2>2, <2>3
<1> QED  BY <1>1, <1>2, PTL DEF Spec


\* A rebuild that reports completion has left the facts of its range as the samples give
\* them (rebuild.go, rebuild), whatever the scan, reports and mode switches did meanwhile.
THEOREM RebuildRestored == Spec => []RebuildRestores
<1>1. FactsInv => RebuildRestores
  <2>1. SUFFICES ASSUME FactsInv, rebuild.status = "completed", NEW b \in rebuild.from .. (rebuild.until - 1)
                 PROVE  Exact(rebuild.node, b)
    BY DEF RebuildRestores
  <2>2. rebuild.from \in Int /\ rebuild.until \in Int
    BY <2>1 DEF FactsInv, RebuildTyped
  <2>3. rebuild.from # rebuild.until
    BY <2>1, <2>2
  <2> QED  BY <2>1, <2>3 DEF FactsInv, RebuildKnows
<1> QED  BY <1>1, FactsInvariant, PTL


\* The bytes of a sealed month are those of its facts for good (traffic.go,
\* trafficMonthlySaveable): no catch-up, rebuild or mode switch makes them disagree.
THEOREM SealedStaysFinal == Spec => []SealedIsFinal
<1>1. FactsInv => SealedIsFinal
  BY DEF FactsInv, MonthsStay, Final, SealedIsFinal
<1> QED  BY <1>1, FactsInvariant, PTL


\* The live scan stays behind the reports by the settle time, a repair ends at the live
\* cursor, and the row of every node's current cycle reaches what has been scanned of it
\* (MaterializeTrafficMonthUsage, MaterializeTrafficMonthUsageRepair and
\* PrepareServerCycleChange), whatever failed and however the cycles changed meanwhile.
THEOREM UsageInvariant == Spec => []UsageInv
<1>1. Init => UsageInv
  BY UsageInit
<1>2. FactsInv /\ UsageInv /\ [Next]_vars => UsageInv'
  <2>1. SUFFICES ASSUME FactsInv, UsageInv, [Next]_vars  PROVE UsageInv'
    OBVIOUS
  <2>2. RowsTyped /\ ServiceTyped
    BY <2>1 DEF FactsInv
  <2>3. CASE Next
    BY <2>1, <2>2, <2>3, UsageStays
  <2>4. CASE UNCHANGED vars
    <3>1. UNCHANGED <<clock, samples, rule, repairs, usage, lagged, cursor, service, left>>
      BY <2>4 DEF vars
    <3>2. TimesTyped' /\ "usage" \in DOMAIN cursor'
      BY <2>1, <3>1 DEF UsageInv, TimesTyped, ScanIsBehind
    <3> QED  BY <2>1, <2>2, <3>1, <3>2, OtherSteps
  <2> QED  BY <2>1, <2>3, <2>4
<1> QED  BY <1>1, <1>2, FactsInvariant, PTL DEF Spec

\* A node without a pending repair has in its current cycle's row every closed pair that the
\* live cursor has passed (traffic_usage.go, loadTrafficUsageRows): excluding it during its
\* repair and handing it back leaves no hole, whatever the windows, the overlap, the
\* retention and the cycles are.
THEOREM CurrentCyclesAreCovered == Spec => []CurrentCycleCovered
<1>1. FactsInv /\ UsageInv => CurrentCycleCovered
  <2>1. SUFFICES ASSUME FactsInv, UsageInv, NEW n \in Nodes \ DOMAIN repairs,
                        NEW p \in Pairs(n), Delta(n, p) > 0, p.to <= cursor.usage, p.to > Low(n),
                        NEW k, k = CurrentKey(n)
                 PROVE  /\ k \in DOMAIN usage /\ usage[k].until >= p.to
                        /\ Steady(n) => usage[k].from <= Larger(p.from, Low(n))
    BY DEF CurrentCycleCovered, CurrentKey, Current, Low
  <2>2. p \in Recent(n)
    BY <2>1 DEF Recent
  <2>3. CoveredTo(n, cursor.usage)
    BY <2>1 DEF UsageInv, ScannedTo
  <2> QED  BY <2>1, <2>2, <2>3 DEF CoveredTo
<1> QED  BY <1>1, FactsInvariant, UsageInvariant, PTL

\* Every time is in one cycle of a calendar_month or clamp_to_month_end rule, and the cycles
\* join (traffic_cycle.go, trafficBoundariesAround): whichever year they are computed from, the
\* same cycle is found from each of its days, the next one begins where it ends, and the step
\* back from the next one leads to it; whatever the day, and in leap years too.
THEOREM MonthCyclesJoin ==
    \A r \in MonthRules : \A ref \in Int : CycleAt(r, ref) # {} /\ Joined(r, ref)
<1> SUFFICES ASSUME NEW r \in MonthRules, NEW ref \in Int PROVE CycleAt(r, ref) # {} /\ Joined(r, ref)
  OBVIOUS
<1>1. PICK m \in Int : 32 * m <= ref /\ ref < 32 * m + 32
  <2>1. ref \div 32 \in Int /\ 32 * (ref \div 32) <= ref /\ ref < 32 * (ref \div 32) + 32
    OBVIOUS
  <2> QED  BY <2>1
<1>2. \A x \in Int : Boundary(r, x) \in Int /\ 32 * x + 1 <= Boundary(r, x) /\ Boundary(r, x) <= 32 * x + 31
  BY BoundaryIs
<1>3. PICK l \in Int : Boundary(r, l) <= ref /\ ref < Boundary(r, l + 1)
  <2>1. CASE Boundary(r, m) <= ref
    <3>1. m + 1 \in Int /\ 32 * (m + 1) + 1 <= Boundary(r, m + 1) /\ Boundary(r, m + 1) \in Int
      BY <1>2
    <3>2. ref < Boundary(r, m + 1)
      BY <1>1, <3>1
    <3> QED  BY <2>1, <3>2
  <2>2. CASE ~(Boundary(r, m) <= ref)
    <3>1. /\ m - 1 \in Int /\ (m - 1) + 1 = m /\ Boundary(r, m - 1) \in Int /\ Boundary(r, m) \in Int
          /\ Boundary(r, m - 1) <= 32 * (m - 1) + 31
      BY <1>2
    <3>2. Boundary(r, m - 1) <= ref /\ ref < Boundary(r, (m - 1) + 1)
      BY <1>1, <2>2, <3>1
    <3> QED  BY <3>1, <3>2
  <2> QED  BY <2>1, <2>2
<1>4. PICK s \in Int, e \in Int, f \in Int : s = Boundary(r, l) /\ e = Boundary(r, l + 1) /\ f = Boundary(r, l + 2) /\ s < e /\ e < f
  <2>1. l + 1 \in Int /\ l + 2 \in Int
    OBVIOUS
  <2>2. /\ Boundary(r, l) \in Int /\ Boundary(r, l) <= 32 * l + 31
        /\ Boundary(r, l + 1) \in Int /\ 32 * (l + 1) + 1 <= Boundary(r, l + 1) /\ Boundary(r, l + 1) <= 32 * (l + 1) + 31
        /\ Boundary(r, l + 2) \in Int /\ 32 * (l + 2) + 1 <= Boundary(r, l + 2)
    BY <1>2, <2>1
  <2> QED  BY <2>2
<1>5. PICK c, n : c = [start |-> s, end |-> e] /\ n = [start |-> e, end |-> f]
  OBVIOUS
<1>6. CycleAt(r, ref) = {c} /\ CycleAt(r, s) = {c}
  <2>1. Boundary(r, l) <= s /\ s < Boundary(r, l + 1)
    BY <1>4
  <2>2. CycleAt(r, ref) = {[start |-> Boundary(r, l), end |-> Boundary(r, l + 1)]}
    BY <1>3, CycleAtIs
  <2>3. CycleAt(r, s) = {[start |-> Boundary(r, l), end |-> Boundary(r, l + 1)]}
    BY <2>1, CycleAtIs
  <2> QED  BY <1>4, <1>5, <2>2, <2>3
<1>7. CycleAt(r, e) = {n} /\ PreviousCycle(r, n) = {c}
  <2>1. PICK o \in Int : o = l + 1 /\ o + 1 = l + 2 /\ o - 1 = l
    OBVIOUS
  <2>2. Boundary(r, o) = e /\ Boundary(r, o + 1) = f /\ Boundary(r, o - 1) = s
    BY <1>4, <2>1
  <2>3. Boundary(r, o) <= e /\ e < Boundary(r, o + 1) /\ n.start = Boundary(r, o)
    BY <1>4, <1>5, <2>2
  <2>4. CycleAt(r, e) = {[start |-> Boundary(r, o), end |-> Boundary(r, o + 1)]}
    BY <2>3, CycleAtIs
  <2>5. PreviousCycle(r, n) = {[start |-> Boundary(r, o - 1), end |-> Boundary(r, o)]}
    BY <2>3, PreviousCycleIs
  <2> QED  BY <1>5, <2>2, <2>4, <2>5
<1>8. c.start = s /\ c.end = e /\ n.start = e
  BY <1>5
<1> QED  BY <1>3, <1>4, <1>6, <1>7, <1>8 DEF Joined

\* Cycle settings that one layer accepts pass the others unchanged and make a rule, whatever was
\* entered (settings.go, NormalizeServerCycleSettings and NormalizeSettings, and NewCycleRule):
\* a node's stored cycle never makes a later report or scan fail.
THEOREM SettingsStay ==
    \A s \in [mode: STRING, day: Int, zone: BOOLEAN,
             anchor: {NoAnchor, BadAnchor} \cup {a \in Nat : IsDate(a) /\ DayOf(a) \in 1 .. 31}] :
      SettingsStable(s)
<1> SUFFICES ASSUME NEW s \in [mode: STRING, day: Int, zone: BOOLEAN,
                              anchor: {NoAnchor, BadAnchor} \cup {a \in Nat : IsDate(a) /\ DayOf(a) \in 1 .. 31}],
                    NEW n \in NormalizeServerCycleSettings(s)
             PROVE  /\ NormalizeServerCycleSettings(n) = {n}
                    /\ EffectiveCycle(s) = {n} /\ NormalizeTrafficQuery(n) = {n}
                    /\ NewCycleRule(n.mode, n.day, n.anchor)
  BY DEF SettingsStable
<1>1. NormalizeServerCycleSettings(s) = {n}
  BY DEF NormalizeServerCycleSettings
<1>2. PICK from, day, anchor : /\ s = [mode |-> from, day |-> day, zone |-> s.zone, anchor |-> anchor]
                               /\ day \in Int /\ anchor \in {0, 1} \cup {a \in Nat : a > 1 /\ DayOf(a) \in 1 .. 31}
  BY DEF IsDate, BadAnchor, NoAnchor
<1>3. /\ from \in Modes \cup {"default"} /\ s.zone
      /\ ~((from = "whmcs_compatible" \/ anchor # NoAnchor) /\ ~IsDate(anchor))
      /\ ~(from \in {"clamp_to_month_end", "whmcs_compatible"} /\ day \notin 1 .. 31)
      /\ n = CASE from \in {"default", "calendar_month"} -> [s EXCEPT !.mode = "calendar_month", !.day = 1, !.anchor = NoAnchor]
               [] from = "whmcs_compatible" -> [s EXCEPT !.day = DayOf(anchor)]
               [] OTHER -> [s EXCEPT !.anchor = NoAnchor]
  <2>1. s.mode = from /\ s.day = day /\ s.anchor = anchor
    BY <1>2
  <2> QED  BY <2>1 DEF NormalizeServerCycleSettings
<1>4. PICK m, d, x : /\ n = [mode |-> m, day |-> d, zone |-> TRUE, anchor |-> x]
                     /\ \/ m = "calendar_month" /\ d = 1 /\ x = 0
                        \/ m = "clamp_to_month_end" /\ d \in 1 .. 31 /\ x = 0
                        \/ m = "whmcs_compatible" /\ d \in 1 .. 31 /\ x \in Nat /\ x > 1 /\ d = DayOf(x)
  <2>1. s = [mode |-> from, day |-> day, zone |-> TRUE, anchor |-> anchor]
    BY <1>2, <1>3
  <2>2. CASE from \in {"default", "calendar_month"}
    <3>1. n = [mode |-> "calendar_month", day |-> 1, zone |-> TRUE, anchor |-> 0]
      BY <1>3, <2>1, <2>2 DEF NoAnchor
    <3> QED  BY <3>1
  <2>3. CASE from = "whmcs_compatible"
    <3>1. n = [mode |-> from, day |-> DayOf(anchor), zone |-> TRUE, anchor |-> anchor]
      BY <1>3, <2>1, <2>3
    <3>2. anchor \in Nat /\ anchor > 1 /\ DayOf(anchor) \in 1 .. 31
      BY <1>2, <1>3, <2>3 DEF IsDate, BadAnchor
    <3> QED  BY <2>3, <3>1, <3>2
  <2>4. CASE from = "clamp_to_month_end"
    <3>1. n = [mode |-> from, day |-> day, zone |-> TRUE, anchor |-> 0]
      BY <1>3, <2>1, <2>4 DEF NoAnchor
    <3> QED  BY <1>3, <2>4, <3>1
  <2> QED  BY <1>3, <2>2, <2>3, <2>4 DEF Modes
<1>5. n.mode = m /\ n.day = d /\ n.anchor = x /\ n.zone
  BY <1>4
<1>6. NormalizeServerCycleSettings(n) = {n} /\ NormalizeSettings(n) = {n} /\ NewCycleRule(n.mode, n.day, n.anchor)
  <2>1. CASE m = "calendar_month" /\ d = 1 /\ x = 0
    <3>1. [n EXCEPT !.mode = "calendar_month", !.day = 1, !.anchor = NoAnchor] = n /\ [n EXCEPT !.day = 1, !.anchor = NoAnchor] = n
      <4>1. n = [mode |-> "calendar_month", day |-> 1, zone |-> TRUE, anchor |-> 0]
        BY <1>4, <2>1
      <4>2. PICK v, w : v = [n EXCEPT !.mode = "calendar_month", !.day = 1, !.anchor = 0] /\ w = [n EXCEPT !.day = 1, !.anchor = 0]
        OBVIOUS
      <4>3. v = [mode |-> "calendar_month", day |-> 1, zone |-> TRUE, anchor |-> 0]
        BY <4>1, <4>2
      <4>4. w = [mode |-> "calendar_month", day |-> 1, zone |-> TRUE, anchor |-> 0]
        BY <4>1, <4>2
      <4> QED  BY <4>1, <4>2, <4>3, <4>4 DEF NoAnchor
    <3> QED  BY <1>5, <2>1, <3>1 DEF NormalizeServerCycleSettings, NormalizeSettings, NewCycleRule, Modes, NoAnchor
  <2>2. CASE m = "clamp_to_month_end" /\ d \in 1 .. 31 /\ x = 0
    <3>1. [n EXCEPT !.anchor = NoAnchor] = n
      <4>1. n = [mode |-> m, day |-> d, zone |-> TRUE, anchor |-> 0]
        BY <1>4, <2>2
      <4>2. PICK v : v = [n EXCEPT !.anchor = 0]
        OBVIOUS
      <4>3. v = [mode |-> m, day |-> d, zone |-> TRUE, anchor |-> 0]
        BY <4>1, <4>2
      <4> QED  BY <4>1, <4>2, <4>3 DEF NoAnchor
    <3> QED  BY <1>5, <2>2, <3>1 DEF NormalizeServerCycleSettings, NormalizeSettings, NewCycleRule, Modes, NoAnchor
  <2>3. CASE m = "whmcs_compatible" /\ d \in 1 .. 31 /\ x \in Nat /\ x > 1 /\ d = DayOf(x)
    <3>1. [n EXCEPT !.day = DayOf(n.anchor)] = n
      BY <1>4, <1>5, <2>3
    <3>2. IsDate(n.anchor)
      BY <1>5, <2>3 DEF IsDate, BadAnchor
    <3> QED  BY <1>5, <2>3, <3>1, <3>2 DEF NormalizeServerCycleSettings, NormalizeSettings, NewCycleRule, Modes
  <2> QED  BY <1>4, <2>1, <2>2, <2>3
<1>7. EffectiveCycle(s) = {n}
  BY <1>1, <1>6 DEF EffectiveCycle
<1> QED  BY <1>6, <1>7 DEF NormalizeTrafficQuery

\* A monthly total that calls a closed cycle complete also calls it covered entirely
\* (traffic_usage.go, trafficUsageSummaryForCycle), wherever its row begins and ends; and a
\* node's direction never bills less than the outgoing bytes or more than all of them
\* (traffic.go, applyTrafficSelection).
THEOREM TotalsAreConsistent ==
    /\ \A row \in [from: Int, until: Int, gaps: Nat, resets: Nat], cycle \in [start: Int, end: Int], ref \in Int :
         CompleteIsCovered(row, cycle, ref)
    /\ \A global, own : \A in, out \in Nat : Billable(global, own, in, out)
<1>1. ASSUME NEW row \in [from: Int, until: Int, gaps: Nat, resets: Nat], NEW cycle \in [start: Int, end: Int], NEW ref \in Int
      PROVE  CompleteIsCovered(row, cycle, ref)
  <2>1. PICK sum : sum = UsageSummary(row, cycle, ref)
    OBVIOUS
  <2>2. SUFFICES ASSUME sum.complete, ref >= cycle.end PROVE sum.coverage[1] = sum.coverage[2]
    BY <2>1 DEF CompleteIsCovered
  <2>3. PICK start \in Int, end \in Int, from \in Int, until \in Int :
          start = cycle.start /\ end = cycle.end /\ from = row.from /\ until = row.until
    OBVIOUS
  <2>4. TrafficStatEnd(cycle, ref) = end
    BY <2>2, <2>3 DEF TrafficStatEnd
  <2>5. row.gaps = 0 /\ row.resets = 0 /\ from <= start /\ until >= end
    BY <2>1, <2>2, <2>3 DEF UsageSummary
  <2>6. (IF start < from THEN from ELSE start) = start /\ (IF end < until THEN end ELSE until) = end
    BY <2>5
  <2>7. sum.coverage = IF end - start <= 0 THEN <<1, 1>> ELSE IF end <= start THEN <<0, 1>> ELSE <<end - start, end - start>>
    BY <2>1, <2>3, <2>4, <2>5, <2>6 DEF UsageSummary
  <2> QED  BY <2>7
<1>2. ASSUME NEW global, NEW own, NEW in \in Nat, NEW out \in Nat
      PROVE  Billable(global, own, in, out)
  <2>1. PICK p95 : p95 = [in |-> 0, out |-> 0, both |-> 0]
    OBVIOUS
  <2>2. SUFFICES ASSUME NEW d \in EffectiveDirection(global, own)
                 PROVE  /\ ApplyTrafficSelection(d, in, out, p95) = {} => in + out > MaxInt64
                        /\ \A c \in ApplyTrafficSelection(d, in, out, p95) : out <= c.bytes /\ c.bytes <= in + out
    BY <2>1 DEF Billable
  <2>3. d \in {"out", "both", "max"}
    BY <2>2 DEF EffectiveDirection, Directions
  <2>4. ASSUME NEW v, v.bytes \in Nat, out <= v.bytes, v.bytes <= in + out,
               ApplyTrafficSelection(d, in, out, p95) = {v}
        PROVE  /\ ApplyTrafficSelection(d, in, out, p95) # {}
               /\ \A c \in ApplyTrafficSelection(d, in, out, p95) : out <= c.bytes /\ c.bytes <= in + out
    BY <2>4
  <2>5. CASE d = "out"
    <3>1. PICK v : v = [bytes |-> out, p95 |-> p95.out]
      OBVIOUS
    <3>2. ApplyTrafficSelection(d, in, out, p95) = {v}
      BY <2>5, <3>1 DEF ApplyTrafficSelection
    <3>3. v.bytes = out
      BY <3>1
    <3> QED  BY <2>4, <3>2, <3>3
  <2>6. CASE d = "both"
    <3>1. PICK v : v = [bytes |-> in + out, p95 |-> p95.both]
      OBVIOUS
    <3>2. ApplyTrafficSelection(d, in, out, p95) = IF in + out > MaxInt64 THEN {} ELSE {v}
      BY <2>6, <3>1 DEF ApplyTrafficSelection
    <3>3. v.bytes = in + out
      BY <3>1
    <3> QED  BY <2>4, <3>2, <3>3
  <2>7. CASE d = "max"
    <3>1. PICK v : v = [bytes |-> IF in > out THEN in ELSE out, p95 |-> IF p95.in > p95.out THEN p95.in ELSE p95.out]
      OBVIOUS
    <3>2. ApplyTrafficSelection(d, in, out, p95) = {v}
      BY <2>7, <3>1 DEF ApplyTrafficSelection
    <3>3. v.bytes = IF in > out THEN in ELSE out
      BY <3>1
    <3> QED  BY <2>4, <3>2, <3>3
  <2> QED  BY <2>3, <2>5, <2>6, <2>7
<1> QED  BY <1>1, <1>2
=============================================================================
