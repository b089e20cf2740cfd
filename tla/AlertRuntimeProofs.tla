------------------------- MODULE AlertRuntimeProofs -------------------------
(***************************************************************************)
(* Proof that an open event is closed only for a reason, for any rules,    *)
(* reports, administrator changes and faults.                              *)
(***************************************************************************)
EXTENDS AlertRuntime, TLAPS

\* Keys name a rule and a generation.
LEMMA KeyFields ==
    /\ MaxGeneration \in Nat \ {0}
    /\ \A k \in Keys : k.rule \in AllRules /\ k.generation \in 1 .. MaxGeneration
    /\ \A r, k : k \in KeysOf(r) => k \in Keys /\ k.rule = r
    /\ Invalid \subseteq Keys
<1>1. MaxGeneration \in Nat \ {0}
  BY BoundsAssumption
<1>2. \A k \in Keys : k.rule \in AllRules /\ k.generation \in 1 .. MaxGeneration
  BY <1>1 DEF Keys, AllRules
<1> QED  BY <1>1, <1>2 DEF KeysOf, Invalid

\* The values states are reset to.
LEMMA Resets ==
    /\ NoSnapshot \in Snapshots /\ NoSnapshot.seq = 0
    /\ NoStates \in [Keys -> States] /\ None \in States /\ Pending \in States /\ Cooldown \in States
    /\ \A n \in Nat : Firing(n) \in States
    /\ FullTask \in Tasks
    /\ None.event = 0
  BY DEF NoSnapshot, Snapshots, NoStates, None, Pending, Cooldown, Firing, States, FullTask, Tasks

\* A task of a rule is not the full one.
LEMMA TaskKinds ==
    /\ \A r, old : RuleTask(r, old) # FullTask /\ RuleTask(r, old).old = old /\ RuleTask(r, old).rule = r
    /\ \A r \in Rules : \A old \in 0 .. MaxGeneration : RuleTask(r, old) \in Tasks
    /\ \A t \in Tasks : t # FullTask => t.rule \in Rules /\ t.old \in 0 .. MaxGeneration
<1>1. \A r, old : RuleTask(r, old).type = "rule" /\ FullTask.type = "full"
  BY DEF RuleTask, FullTask
<1> QED  BY <1>1 DEF RuleTask, FullTask, Tasks

\* A published event gets a number that neither the worker nor the control loop refers to.
LEMMA FreshNumberIs ==
    ASSUME TypeOK, NEW k \in Keys, \A i, j \in ctodo : i.key = j.key => i = j
    PROVE  FreshNumber(k) \in 1 .. 5 /\ FreshNumber(k) \notin Referenced(k)
<1> DEFINE L == {id.number : id \in {i \in ctodo : i.key = k}}
           R == Referenced(k)
<1>1. PICK d \in Nat : L \subseteq {d}
  <2>1. CASE L = {}
    BY <2>1
  <2>2. CASE L # {}
    <3>1. PICK i \in ctodo : i.key = k
      BY <2>2
    <3>2. i.number \in Nat
      BY DEF TypeOK, EventIds
    <3>3. L \subseteq {i.number}
      BY <3>1
    <3> QED  BY <3>2, <3>3
  <2> QED  BY <2>1, <2>2
<1>2. PICK a \in Nat, b \in Nat, c \in Nat : R \subseteq {a, b, c, d}
  <2>1. runtime[k].event \in Nat /\ ecur[k].event \in Nat /\ enext[k].event \in Nat
    BY DEF TypeOK, States
  <2>2. R \subseteq {runtime[k].event, ecur[k].event, enext[k].event, d}
    BY <1>1 DEF Referenced
  <2> HIDE DEF R
  <2> QED  BY <2>1, <2>2
<1> HIDE DEF R, L
<1>3. \E n \in 1 .. 5 : n \notin R /\ 1 .. (n - 1) \subseteq R
  <2>1. \E n \in {1, 2, 3, 4, 5} : n \notin R
    BY <1>2
  <2>2. CASE 1 \notin R
    BY <2>2
  <2>3. CASE 1 \in R /\ 2 \notin R
    BY <2>3
  <2>4. CASE 1 \in R /\ 2 \in R /\ 3 \notin R
    BY <2>4
  <2>5. CASE 1 \in R /\ 2 \in R /\ 3 \in R /\ 4 \notin R
    BY <2>5
  <2>6. CASE 1 \in R /\ 2 \in R /\ 3 \in R /\ 4 \in R /\ 5 \notin R
    BY <2>6
  <2> QED  BY <2>1, <2>2, <2>3, <2>4, <2>5, <2>6
<1>4. FreshNumber(k) = CHOOSE n \in 1 .. 5 : n \notin R /\ 1 .. (n - 1) \subseteq R
  BY DEF FreshNumber, R
<1> QED  BY <1>3, <1>4 DEF R

\* Administrators, ingest and the clock keep the types.
LEMMA OutsideTypes ==
    ASSUME TypeOK, Admin \/ Ingest \/ GoStale \/ PeriodOver
    PROVE  TypeOK'
<1> USE DEF TypeOK, adminVars, clockVars, procVars, queueVars, evalVars, ctlVars
<1>1. Upset => upsets' \in 0 .. MaxUpsets
  BY BoundsAssumption DEF Upset
<1>2. ASSUME NEW r \in Rules, CreateRule(r) PROVE TypeOK'
  <2>1. tasks' \subseteq Tasks
    BY <1>2, TaskKinds, KeyFields DEF CreateRule
  <2>2. rule' \in [Rules -> [generation : 0 .. MaxGeneration, enabled : BOOLEAN, deleted : BOOLEAN]]
    <3>1. 1 \in 0 .. MaxGeneration
      BY KeyFields
    <3> QED  BY <1>2, <3>1 DEF CreateRule
  <2> QED  BY <1>1, <1>2, <2>1, <2>2 DEF CreateRule
<1>3. ASSUME NEW r \in Rules, PatchRule(r) \/ DeleteRule(r) PROVE TypeOK'
  <2>1. /\ rule[r].generation \in 0 .. MaxGeneration /\ rule[r].generation + 1 \in 0 .. MaxGeneration
        /\ rule[r].enabled \in BOOLEAN
    BY <1>3, KeyFields DEF PatchRule, DeleteRule
  <2>2. tasks' \subseteq Tasks
    BY <1>3, <2>1, TaskKinds DEF PatchRule, DeleteRule
  <2>3. rule' \in [Rules -> [generation : 0 .. MaxGeneration, enabled : BOOLEAN, deleted : BOOLEAN]]
    <3>1. PICK e \in BOOLEAN, d \in BOOLEAN : rule' = [rule EXCEPT ![r] = [generation |-> rule[r].generation + 1, enabled |-> e, deleted |-> d]]
      <4>1. CASE PatchRule(r)
        BY <4>1 DEF PatchRule
      <4>2. CASE DeleteRule(r)
        BY <2>1, <4>2 DEF DeleteRule
      <4> QED  BY <1>3, <4>1, <4>2
    <3> QED  BY <2>1, <3>1
  <2>4. excused' \subseteq Keys
    BY <1>3, KeyFields DEF PatchRule, DeleteRule
  <2> QED  BY <1>1, <1>3, <2>2, <2>3, <2>4 DEF PatchRule, DeleteRule
<1>4. ASSUME NEW r \in AllRules, NEW on \in BOOLEAN, SetRuleMounts(r, on) PROVE TypeOK'
  BY <1>1, <1>4, KeyFields DEF SetRuleMounts
<1>5. CASE DeleteNode
  BY <1>1, <1>5 DEF DeleteNode
<1>6. ASSUME NEW obs \in Observations, SaveMetrics(obs) PROVE TypeOK'
  <2>1. row' \in Snapshots
    BY <1>6 DEF SaveMetrics, Snapshots, Observations
  <2> QED  BY <1>6, <2>1 DEF SaveMetrics
<1>7. CASE MarkServerMetrics
  BY <1>7 DEF MarkServerMetrics
<1>10. CASE MarkLost
  BY <1>1, <1>10 DEF MarkLost
<1>8. CASE GoStale
  BY <1>8 DEF GoStale, Snapshots
<1>9. CASE PeriodOver
  <2>1. CASE GraceOver
    BY <2>1 DEF GraceOver
  <2>2. ASSUME NEW k \in Keys, Elapse(k) PROVE TypeOK'
    BY <2>2 DEF Elapse
  <2> QED  BY <1>9, <2>1, <2>2 DEF PeriodOver
<1> QED  BY <1>2, <1>3, <1>4, <1>5, <1>6, <1>7, <1>8, <1>9, <1>10 DEF Admin, Ingest

\* The worker's decisions are about keys.
LEMMA NextStateTypes ==
    ASSUME TypeOK, NEW k \in Keys
    PROVE  NextState(k) \in States
  BY Resets DEF TypeOK, NextState

\* The worker keeps the types.
LEMMA WorkerTypes ==
    ASSUME TypeOK, \A i, j \in ctodo : i.key = j.key => i = j, EvalStep \/ EvalFault
    PROVE  TypeOK'
<1> USE DEF TypeOK, adminVars, clockVars, procVars, queueVars, evalVars, ctlVars
<1>1. Upset => upsets' \in 0 .. MaxUpsets
  BY BoundsAssumption DEF Upset
<1>2. CASE Take \/ Refresh \/ Load \/ Fetch
  <2>1. CASE Take
    BY <2>1 DEF Take
  <2>2. CASE Refresh
    BY <2>2 DEF Refresh, Compilable
  <2>3. CASE Load
    BY <2>3 DEF Load
  <2>4. CASE Fetch
    BY <2>4, Resets DEF Fetch
  <2> QED  BY <1>2, <2>1, <2>2, <2>3, <2>4
<1>3. CASE Evaluate
  <2>1. enext' \in [Keys -> States]
    BY <1>3, NextStateTypes DEF Evaluate
  <2>2. eobs' \subseteq Keys /\ eclose' \subseteq Keys /\ eopen' \subseteq Keys
    BY <1>3 DEF Evaluate, Closing, Opening
  <2> QED  BY <1>3, <2>1, <2>2 DEF Evaluate
<1>4. ASSUME NEW k \in Keys, Close(k) \/ CloseFails(k) PROVE TypeOK'
  <2>1. event' \in [Keys -> Nat]
    BY <1>4 DEF Close, CloseFails, CloseEvent
  <2>2. enext' \in [Keys -> States]
    BY <1>4, Resets DEF Close, CloseFails
  <2> QED  BY <1>1, <1>4, <2>1, <2>2 DEF Close, CloseFails
<1>5. ASSUME NEW k \in Keys, Insert(k) \/ OpenSkipped(k) PROVE TypeOK'
  <2>1. enext' \in [Keys -> States] /\ einsert' \subseteq Keys
    BY <1>5, Resets DEF Insert, OpenSkipped
  <2> QED  BY <1>1, <1>5, <2>1 DEF Insert, OpenSkipped
<1>6. ASSUME NEW k \in Keys, Commit(k) \/ CommitFails(k) PROVE TypeOK'
  <2>1. FreshNumber(k) \in Nat
    BY FreshNumberIs
  <2>2. event' \in [Keys -> Nat] /\ excused' \subseteq Keys
    BY <1>6, <2>1 DEF Commit, CommitFails, Publish
  <2>3. enext' \in [Keys -> States]
    BY <1>6, <2>2, Resets DEF Commit, CommitFails
  <2> QED  BY <1>1, <1>6, <2>2, <2>3 DEF Commit, CommitFails
<1>7. EvalReset => /\ epc' = "idle" /\ esnap' \in Snapshots /\ erules' = {} /\ ecur' \in [Keys -> States] /\ enext' \in [Keys -> States]
                   /\ eobs' = {} /\ eclose' = {} /\ eopen' = {} /\ einsert' = {}
  BY Resets DEF EvalReset
<1>8. CASE EvalError
  BY <1>1, <1>7, <1>8 DEF EvalError
<1>9. CASE Finish
  <2>1. runtime' \in [Keys -> States]
    <3>1. PICK touched : SaveRuntimeState([k \in Keys |-> IF k \in touched /\ ~IsOpen(k, enext[k].event) THEN None ELSE enext[k]])
      BY <1>9 DEF Finish
    <3> QED  BY <3>1, Resets DEF SaveRuntimeState
  <2>2. elapsed' \subseteq Keys /\ snap' \in Snapshots /\ upsets' \in 0 .. MaxUpsets
    BY <1>1, <1>9, Resets DEF Finish
  <2>3. EvalReset /\ UNCHANGED <<adminVars, tasks, row, event, staleTo, grace, up, cache, owed, marking, ctlVars, excused>>
    BY <1>9 DEF Finish
  <2> QED  BY <1>7, <2>1, <2>2, <2>3
<1> QED  BY <1>2, <1>3, <1>4, <1>5, <1>6, <1>8, <1>9 DEF EvalStep, EvalFault

\* What the control loop lists, and where it goes next.
LEMMA ListTypes ==
    ASSUME TypeOK, cpc \in {"generation", "invalid", "deleted", "restore"}
    PROVE  /\ Listed \subseteq EventIds /\ {id.key : id \in Listed} \subseteq Keys
           /\ NextPart \in {"invalid", "deleted", "restore", "enqueue"}
<1>1. \A ks : OpenIds(ks) \subseteq EventIds
  BY DEF OpenIds, EventIds, Open, TypeOK
<1>2. Listed \subseteq EventIds
  BY <1>1 DEF Listed
<1> QED  BY <1>2 DEF NextPart, EventIds

\* The control loop and the process keep the types.
LEMMA ControlTypes ==
    ASSUME TypeOK, ControlStep \/ ControlFails \/ Tick \/ Crash \/ Start
    PROVE  TypeOK'
<1> USE DEF TypeOK, adminVars, clockVars, procVars, queueVars, evalVars, ctlVars
<1>1. Upset => upsets' \in 0 .. MaxUpsets
  BY BoundsAssumption DEF Upset
<1>2. ASSUME NEW t \in tasks, TakeTask(t) PROVE TypeOK'
  BY <1>2, KeyFields DEF TakeTask, Compilable
<1>3. CASE ListEvents
  BY <1>3, ListTypes DEF ListEvents
<1>4. ASSUME NEW id \in ctodo, CloseListed(id) PROVE TypeOK'
  <2>1. event' \in [Keys -> Nat]
    BY <1>4 DEF CloseListed, CloseEvent
  <2> QED  BY <1>4, <2>1 DEF CloseListed
<1>5. CASE ClosingDone
  <2>1. runtime' \in [Keys -> States] /\ cpc' \in {"invalid", "deleted", "restore", "enqueue"}
    BY <1>5, Resets, ListTypes DEF ClosingDone
  <2> QED  BY <1>5, <2>1 DEF ClosingDone
<1>6. \A ids : ids \subseteq EventIds => \A states \in [Keys -> States] : Restored(ids, states) \in [Keys -> States]
  <2> SUFFICES ASSUME NEW ids, ids \subseteq EventIds, NEW states \in [Keys -> States], NEW k \in Keys, \E id \in ids : id.key = k
               PROVE  (CHOOSE id \in ids : id.key = k).number \in Nat
    BY Resets DEF Restored
  <2> QED  BY DEF EventIds
<1>7. CASE Merge
  <2>1. runtime' \in [Keys -> States]
    BY <1>6, <1>7 DEF Merge
  <2> QED  BY <1>7, <2>1 DEF Merge
<1>8. CtlReset => /\ cpc' = "idle" /\ clisted' = FALSE /\ ctask' \in Tasks /\ cinvalid' = {}
                  /\ ctodo' = {} /\ cdrops' = {} /\ caffected' = FALSE
  BY Resets DEF CtlReset
<1>9. CASE Enqueue
  BY <1>1, <1>8, <1>9 DEF Enqueue, Targeted
<1>10. CASE ControlFails
  <2>1. event' \in [Keys -> Nat]
    BY <1>10 DEF ControlFails, CloseEvent
  <2> QED  BY <1>1, <1>8, <1>10, <2>1 DEF ControlFails
<1>11. CASE Tick
  BY <1>11, Resets DEF Tick
<1>12. CASE Crash
  <2>1. EvalReset => /\ epc' = "idle" /\ esnap' \in Snapshots /\ erules' = {} /\ ecur' \in [Keys -> States] /\ enext' \in [Keys -> States]
                     /\ eobs' = {} /\ eclose' = {} /\ eopen' = {} /\ einsert' = {}
    BY Resets DEF EvalReset
  <2> QED  BY <1>1, <1>8, <1>12, <2>1, Resets DEF Crash
<1>13. CASE Start
  <2>1. OpenIds(Keys) \subseteq EventIds
    BY DEF OpenIds, EventIds, Open
  <2>2. runtime' \in [Keys -> States] /\ event' \in [Keys -> Nat]
    BY <1>6, <1>13, <2>1, Resets DEF Start
  <2> QED  BY <1>13, <2>2, Resets DEF Start, Compilable
<1> QED  BY <1>2, <1>3, <1>4, <1>5, <1>7, <1>9, <1>10, <1>11, <1>12, <1>13 DEF ControlStep

\* Every step keeps the types.
LEMMA TypesKept ==
    ASSUME AlertInv, [Next]_vars
    PROVE  TypeOK'
<1> USE DEF AlertInv, ControlKnows
<1>1. CASE Next
  BY <1>1, OutsideTypes, WorkerTypes, ControlTypes DEF Next
<1>2. CASE UNCHANGED vars
  BY <1>2 DEF vars, TypeOK, adminVars, clockVars, procVars, queueVars, evalVars, ctlVars
<1> QED  BY <1>1, <1>2

\* Steps that publish no event: events go, reasons come, rules and reports age.
Moves ==
    /\ \A k \in Keys : event'[k] = event[k] \/ event'[k] = 0
    /\ excused \subseteq excused'
    /\ staleTo' >= staleTo
    /\ \A r \in Rules : rule'[r].generation >= rule[r].generation
    /\ \A k \in Keys : Current(k) => Current(k)' \/ Past(k)'

\* A key is not both in force and past.
LEMMA PastIsNotCurrent ==
    ASSUME TypeOK, NEW k \in Keys, Past(k)
    PROVE  ~Current(k)
<1>1. k.rule \in Rules /\ rule[k.rule].generation \in Nat /\ k.generation \in Nat /\ k.rule \notin Builtins
  BY KeyFields, RulesAssumption DEF Past, TypeOK
<1> QED  BY <1>1 DEF Past, Current

\* What such a step keeps.
LEMMA MovesKeep ==
    ASSUME TypeOK, TypeOK', Moves
    PROVE  /\ Open' \subseteq Open
           /\ \A k \in Keys : \A n : IsOpen(k, n)' => IsOpen(k, n)
           /\ \A k \in Keys : Past(k) => Past(k)'
           /\ \A k \in Keys : \A s \in Snapshots : Reading(k.rule, s)' = "below" => Reading(k.rule, s) = "below"
<1>1. Open' \subseteq Open
  BY DEF Moves, Open
<1>2. ASSUME NEW k \in Keys, NEW n, IsOpen(k, n)' PROVE IsOpen(k, n)
  BY <1>2 DEF Moves, Open, IsOpen
<1>3. ASSUME NEW k \in Keys, Past(k) PROVE Past(k)'
  <2>1. k.rule \in Rules /\ rule[k.rule].generation \in Nat /\ rule'[k.rule].generation \in Nat /\ k.generation \in Nat
    BY <1>3, KeyFields DEF Past, TypeOK
  <2>2. rule'[k.rule].generation >= rule[k.rule].generation /\ rule[k.rule].generation > k.generation
    BY <1>3, <2>1 DEF Past, Moves
  <2> QED  BY <2>1, <2>2 DEF Past
<1>4. ASSUME NEW k \in Keys, NEW s \in Snapshots, Reading(k.rule, s)' = "below" PROVE Reading(k.rule, s) = "below"
  <2>1. s.seq \in Nat /\ staleTo \in Nat /\ staleTo' \in Nat /\ staleTo' >= staleTo
    BY DEF Snapshots, TypeOK, Moves
  <2>2. s.seq > staleTo' => s.seq > staleTo
    BY <2>1
  <2> QED  BY <1>4, <2>2 DEF Reading
<1> QED  BY <1>1, <1>2, <1>3, <1>4

\* What is said against open events stays said.
LEMMA StandingKept ==
    ASSUME AlertInv, TypeOK', Moves,
           gone' => gone \/ excused' = Keys,
           \A k \in Keys : Current(k) /\ ~Current(k)' => k \in excused',
           \A k \in Keys : k.rule \in mounted /\ k.rule \notin mounted' => k \in excused',
           row' = row \/ \A k \in Keys : Reading(k.rule, row') = "below" => k \in excused',
           snap' = snap \/ snap' = row \/ snap' = NoSnapshot
    PROVE  Standing'
<1> USE DEF AlertInv
<1>1. excused \subseteq excused' /\ excused' \subseteq Keys /\ Open \subseteq Keys /\ Open' \subseteq Open
  BY MovesKeep DEF Moves, TypeOK, Open
<1>2. (gone => excused = Keys)'
  BY <1>1 DEF Standing
<1>3. Invalid \subseteq excused'
  BY <1>1 DEF Standing
<1>4. \A k \in Open' : ~Current(k)' \/ k.rule \notin mounted' => k \in excused'
  BY <1>1 DEF Standing
<1>5. ASSUME NEW s \in Snapshots, \A k \in Open : Reading(k.rule, s) = "below" => k \in excused
      PROVE  \A k \in Open' : Reading(k.rule, s)' = "below" => k \in excused'
  BY <1>1, <1>5, MovesKeep
<1>6. row \in Snapshots /\ snap \in Snapshots /\ NoSnapshot \in Snapshots
  BY Resets DEF TypeOK
<1>7. /\ \A k \in Open : Reading(k.rule, row) = "below" => k \in excused
      /\ \A k \in Open : Reading(k.rule, snap) = "below" => k \in excused
  BY DEF Standing, ClearsExcused
<1>8. \A k \in Keys : Reading(k.rule, NoSnapshot) # "below"
  BY Resets DEF Reading, TypeOK
<1>9. (\A k \in Open : Reading(k.rule, row) = "below" => k \in excused)'
  <2>1. CASE row' = row
    BY <1>5, <1>6, <1>7, <2>1 DEF Reading
  <2>2. CASE \A k \in Keys : Reading(k.rule, row') = "below" => k \in excused'
    <3>1. row' \in Snapshots
      BY DEF TypeOK
    <3>2. \A k \in Keys : Reading(k.rule, row') = "below" \/ ~(Reading(k.rule, row) = "below")'
      BY <3>1, MovesKeep DEF Reading
    <3> QED  BY <1>1, <2>2, <3>2
  <2> QED  BY <2>1, <2>2
<1>10. (\A k \in Open : Reading(k.rule, snap) = "below" => k \in excused)'
  <2>1. CASE snap' = snap
    BY <1>5, <1>6, <1>7, <2>1 DEF Reading
  <2>2. CASE snap' = row
    BY <1>5, <1>6, <1>7, <2>2 DEF Reading
  <2>3. CASE snap' = NoSnapshot
    <3>1. \A k \in Open : Reading(k.rule, NoSnapshot) = "below" => k \in excused
      BY <1>1, <1>8
    <3> QED  BY <1>5, <1>6, <2>3, <3>1 DEF Reading
  <2> QED  BY <2>1, <2>2, <2>3
<1> QED  BY <1>2, <1>3, <1>4, <1>9, <1>10 DEF Standing, ClearsExcused

\* The cache, while it is kept, refreshed or dropped with the process.
LEMMA CacheKept ==
    ASSUME AlertInv, TypeOK', Moves,
           \/ cache' = cache /\ (up' => up)
           \/ cache' = Compilable /\ rule' = rule
           \/ cache' = {} /\ erules' = {} /\ ~up',
           erules' = erules \/ erules' = {} \/ erules' = cache'
    PROVE  CacheKnows'
<1> USE DEF AlertInv
<1>1. excused \subseteq excused' /\ Open \subseteq Keys /\ Open' \subseteq Open /\ cache \subseteq Keys /\ erules \subseteq Keys
  BY MovesKeep DEF Moves, TypeOK, Open
<1>2. up' => Open' \subseteq cache' \cup excused'
  <2>1. CASE cache' = cache /\ (up' => up)
    BY <1>1, <2>1 DEF CacheKnows
  <2>2. CASE cache' = Compilable
    BY <1>1, <2>2 DEF Standing, Compilable
  <2> QED  BY <2>1, <2>2
<1>3. \A k \in Keys : Current(k) \/ Past(k) => Current(k)' \/ Past(k)'
  BY MovesKeep DEF Moves
<1>4. \A k \in cache' : Current(k)' \/ Past(k)'
  <2>1. CASE cache' = Compilable /\ rule' = rule
    BY <1>3, <2>1 DEF Compilable
  <2> QED  BY <1>1, <1>3, <2>1 DEF CacheKnows
<1>5. \A k \in erules' : k \in cache' \/ Past(k)'
  <2>1. \A k \in erules : k \in cache \/ Past(k)
    BY DEF CacheKnows
  <2>2. \A k \in erules : Past(k) => Past(k)'
    BY <1>1, MovesKeep
  <2>3. CASE cache' = cache
    BY <2>1, <2>2, <2>3
  <2>4. CASE cache' = Compilable
    <3>1. \A k \in cache : k \in Compilable \/ Past(k)
      BY <1>1 DEF CacheKnows, Compilable
    <3> QED  BY <2>1, <2>2, <2>4, <3>1
  <2> QED  BY <2>3, <2>4
<1> QED  BY <1>2, <1>4, <1>5 DEF CacheKnows

\* The worker, while others move.
LEMMA WorkerKept ==
    ASSUME AlertInv, TypeOK', Moves, up => up', UNCHANGED evalVars,
           cache' = cache \/ (cache' = Compilable /\ rule' = rule)
    PROVE  WorkerKnows'
<1> USE DEF AlertInv
<1>1. /\ excused \subseteq excused' /\ Open \subseteq Keys /\ Open' \subseteq Open
      /\ eclose \subseteq Keys /\ eopen \subseteq Keys /\ einsert \subseteq Keys
  BY MovesKeep DEF Moves, TypeOK, Open
<1>2. UNCHANGED <<epc, esnap, erules, ecur, eclose, eopen, einsert>>
  BY DEF evalVars
<1>3. (epc # "idle" => up)'
  BY <1>2 DEF WorkerKnows
<1>4. (epc \notin {"idle", "write"} => ClearsExcused(esnap))'
  <2>1. esnap \in Snapshots /\ \A k \in Keys : Reading(k.rule, esnap)' = "below" => Reading(k.rule, esnap) = "below"
    BY <1>2, MovesKeep DEF Reading, TypeOK
  <2>2. epc \notin {"idle", "write"} => \A k \in Open : Reading(k.rule, esnap) = "below" => k \in excused
    BY DEF WorkerKnows, ClearsExcused
  <2>3. epc \notin {"idle", "write"} => \A k \in Open' : Reading(k.rule, esnap)' = "below" => k \in excused'
    BY <1>1, <2>1, <2>2
  <2> QED  BY <1>2, <2>3 DEF ClearsExcused
<1>5. (epc \in {"load", "fetch", "evaluate"} => Open \subseteq erules \cup excused)'
  BY <1>1, <1>2 DEF WorkerKnows
<1>6. (epc # "write" => eclose = {} /\ eopen = {} /\ einsert = {})'
  BY <1>2 DEF WorkerKnows
<1>7. (\A k \in eclose : IsOpen(k, ecur[k].event) => k \in excused)'
  <2>1. \A k \in eclose : IsOpen(k, ecur[k].event)' => IsOpen(k, ecur[k].event)
    BY <1>1, <1>2, MovesKeep DEF IsOpen
  <2> QED  BY <1>1, <1>2, <2>1 DEF WorkerKnows
<1>8. (\A k \in eopen \cup einsert : k \notin Invalid /\ (k \in cache \/ Past(k)))'
  <2>1. \A k \in eopen \cup einsert : k \notin Invalid /\ (k \in cache \/ Past(k))
    BY DEF WorkerKnows
  <2>2. \A k \in eopen \cup einsert : k \in cache' \/ Past(k)'
    <3>1. CASE cache' = cache
      BY <1>1, <2>1, <3>1, MovesKeep
    <3>2. CASE cache' = Compilable /\ rule' = rule
      BY <1>1, <2>1, <3>2, MovesKeep DEF Compilable, CacheKnows
    <3> QED  BY <3>1, <3>2
  <2> QED  BY <1>2, <2>1, <2>2
<1>9. (einsert \cap Open = {})'
  BY <1>1, <1>2 DEF WorkerKnows
<1> QED  BY <1>3, <1>4, <1>5, <1>6, <1>7, <1>8, <1>9 DEF WorkerKnows

\* The control loop, while others move.
LEMMA ControlKept ==
    ASSUME AlertInv, TypeOK', Moves, UNCHANGED ctlVars,
           \A t \in tasks' : t \in tasks \/ t = FullTask \/ (t.old > 0 => rule'[t.rule].generation > t.old)
    PROVE  ControlKnows'
<1> USE DEF AlertInv
<1>1. excused \subseteq excused' /\ Open' \subseteq Open /\ tasks \subseteq Tasks /\ ctask \in Tasks
  BY MovesKeep DEF Moves, TypeOK
<1>2. UNCHANGED <<cpc, clisted, ctask, cinvalid, ctodo>>
  BY DEF ctlVars
<1>3. (\A t \in tasks \cup {ctask} : t # FullTask /\ t.old > 0 => rule[t.rule].generation > t.old)'
  <2>1. ASSUME NEW t \in tasks \cup {ctask}, t # FullTask, t.old > 0 PROVE rule'[t.rule].generation > t.old
    <3>1. t.rule \in Rules /\ t.old \in Nat
      BY <1>1, <2>1, TaskKinds
    <3>2. rule[t.rule].generation > t.old /\ rule'[t.rule].generation >= rule[t.rule].generation
      BY <2>1, <3>1 DEF ControlKnows, Moves
    <3>3. rule[t.rule].generation \in Nat /\ rule'[t.rule].generation \in Nat
      BY <3>1 DEF TypeOK
    <3> QED  BY <3>1, <3>2, <3>3
  <2> QED  BY <1>2, <2>1
<1>4. (/\ cpc = "generation" => ctask # FullTask /\ ctask.old > 0
       /\ cinvalid \subseteq Invalid
       /\ cpc \in {"idle", "enqueue"} \/ ~clisted => ctodo = {}
       /\ \A i, j \in ctodo : i.key = j.key => i = j)'
  BY <1>2 DEF ControlKnows
<1>5. (cpc # "restore" => \A id \in ctodo : IsOpen(id.key, id.number) => id.key \in excused)'
  <2>1. \A id \in ctodo : id.key \in Keys
    BY DEF TypeOK, EventIds
  <2>2. \A id \in ctodo : IsOpen(id.key, id.number)' => IsOpen(id.key, id.number)
    BY <2>1, MovesKeep
  <2> QED  BY <1>1, <1>2, <2>2 DEF ControlKnows
<1> QED  BY <1>3, <1>4, <1>5 DEF ControlKnows

\* Who is neither the worker nor the control loop has only these things to respect.
LEMMA OutsideKept ==
    ASSUME AlertInv, TypeOK', Moves, UNCHANGED <<evalVars, ctlVars, cache, up>>,
           gone' => gone \/ excused' = Keys,
           \A k \in Keys : Current(k) /\ ~Current(k)' => k \in excused',
           \A k \in Keys : k.rule \in mounted /\ k.rule \notin mounted' => k \in excused',
           row' = row \/ \A k \in Keys : Reading(k.rule, row') = "below" => k \in excused',
           snap' = snap \/ snap' = row,
           \A t \in tasks' : t \in tasks \/ t = FullTask \/ (t.old > 0 => rule'[t.rule].generation > t.old)
    PROVE  AlertInv'
<1>1. Standing'
  BY StandingKept
<1>2. CacheKnows'
  <2>1. erules' = erules
    BY DEF evalVars
  <2> QED  BY <2>1, CacheKept
<1>3. WorkerKnows'
  BY WorkerKept
<1>4. ControlKnows'
  BY ControlKept
<1> QED  BY <1>1, <1>2, <1>3, <1>4 DEF AlertInv

\* Steps that change no rule leave all rules in force.
LEMMA SameRules ==
    ASSUME rule' = rule
    PROVE  \A k \in Keys : Current(k)' = Current(k)
  BY DEF Current

\* Administrators, ingest and the clock keep the invariant.
LEMMA OutsideKeeps ==
    ASSUME AlertInv, TypeOK', Admin \/ Ingest \/ GoStale \/ PeriodOver
    PROVE  AlertInv'
<1> USE DEF AlertInv
<1> DEFINE Frame == UNCHANGED <<evalVars, ctlVars, cache, up, event>>
<1>0. staleTo \in Nat /\ staleTo >= staleTo
  BY DEF TypeOK
<1>1. ASSUME NEW r \in Rules, CreateRule(r) PROVE AlertInv'
  <2>1. Frame /\ UNCHANGED <<mounted, gone, row, snap, excused, staleTo>>
    BY <1>1 DEF CreateRule, procVars, queueVars, clockVars
  <2>2. /\ rule[r].generation = 0 /\ rule'[r].generation = 1 /\ \A q \in Rules : q # r => rule'[q] = rule[q]
        /\ \A t \in tasks' : t \in tasks \/ t = RuleTask(r, 0)
    BY <1>1 DEF CreateRule, TypeOK
  <2>3. \A q \in Rules : rule'[q].generation >= rule[q].generation
    BY <2>2 DEF TypeOK
  <2>4. \A k \in Keys : Current(k) => Current(k)'
    <3>1. \A k \in Keys : k.rule = r => k.rule \notin Builtins /\ rule[r].generation # k.generation
      BY <2>2, KeyFields, RulesAssumption
    <3> QED  BY <2>2, <3>1 DEF Current
  <2>5. Moves
    BY <1>0, <2>1, <2>3, <2>4 DEF Moves
  <2> QED  BY <2>1, <2>2, <2>4, <2>5, OutsideKept, TaskKinds
<1>2. ASSUME NEW r \in Rules, PatchRule(r) \/ DeleteRule(r) PROVE AlertInv'
  <2>1. Frame /\ UNCHANGED <<gone, row, snap, staleTo>> /\ excused' = excused \cup KeysOf(r)
        /\ \A q : q # r => (q \in mounted' <=> q \in mounted)
    BY <1>2 DEF PatchRule, DeleteRule, procVars, queueVars, clockVars
  <2>2. /\ rule[r].generation \in Nat /\ rule'[r].generation = rule[r].generation + 1
        /\ \A q \in Rules : q # r => rule'[q] = rule[q]
        /\ \A t \in tasks' : t \in tasks \/ t = RuleTask(r, rule[r].generation)
    BY <1>2 DEF PatchRule, DeleteRule, TypeOK
  <2>3. \A q \in Rules : rule'[q].generation >= rule[q].generation
    BY <2>2 DEF TypeOK
  <2>4. \A k \in Keys : k.rule = r => k \in excused'
    BY <2>1 DEF KeysOf
  <2>5. \A k \in Keys : k.rule # r => (Current(k) => Current(k)')
    BY <2>2 DEF Current
  <2>6. \A k \in Keys : k.rule = r /\ Current(k) => Past(k)'
    <3>1. \A k \in Keys : k.rule = r /\ Current(k) => rule[r].generation = k.generation
      BY RulesAssumption DEF Current
    <3> QED  BY <2>2, <3>1 DEF Past
  <2>7. Moves
    BY <1>0, <2>1, <2>3, <2>5, <2>6 DEF Moves
  <2>8. \A t \in tasks' : t \in tasks \/ t = FullTask \/ (t.old > 0 => rule'[t.rule].generation > t.old)
    BY <2>2, TaskKinds
  <2> QED  BY <2>1, <2>4, <2>5, <2>7, <2>8, OutsideKept
<1>3. ASSUME NEW r \in AllRules, NEW on \in BOOLEAN, SetRuleMounts(r, on) PROVE AlertInv'
  <2>1. Frame /\ UNCHANGED <<rule, gone, tasks, row, snap, staleTo>>
    BY <1>3 DEF SetRuleMounts, procVars, clockVars
  <2>2. excused \subseteq excused' /\ \A k \in Keys : k.rule \in mounted /\ k.rule \notin mounted' => k \in excused'
    BY <1>3 DEF SetRuleMounts, KeysOf
  <2>3. Moves
    BY <1>0, <2>1, <2>2, SameRules DEF Moves, TypeOK
  <2> QED  BY <2>1, <2>2, <2>3, SameRules, OutsideKept
<1>4. CASE DeleteNode
  <2>1. Frame /\ UNCHANGED <<rule, mounted, tasks, row, snap, staleTo>> /\ excused' = Keys
    BY <1>4 DEF DeleteNode, procVars, queueVars, clockVars
  <2>2. Moves
    BY <1>0, <2>1, SameRules DEF Moves, TypeOK
  <2> QED  BY <2>1, <2>2, SameRules, OutsideKept
<1>5. ASSUME NEW obs \in Observations, SaveMetrics(obs) PROVE AlertInv'
  <2>1. Frame /\ UNCHANGED <<rule, mounted, gone, tasks, snap, staleTo>>
    BY <1>5 DEF SaveMetrics, adminVars, procVars, queueVars, clockVars
  <2>2. excused' = excused \cup {k \in Keys : k.rule \in OfflineRules \/ obs[k.rule] = "below"}
    BY <1>5 DEF SaveMetrics
  <2>3. row' = row \/ row'.obs = obs
    BY <1>5 DEF SaveMetrics
  <2>4. Moves
    BY <1>0, <2>1, <2>2, SameRules DEF Moves, TypeOK
  <2>5. row' = row \/ \A k \in Keys : Reading(k.rule, row') = "below" => k \in excused'
    BY <2>2, <2>3 DEF Reading
  <2> QED  BY <2>1, <2>2, <2>4, <2>5, SameRules, OutsideKept
<1>6. CASE MarkServerMetrics \/ MarkLost \/ GoStale \/ PeriodOver
  <2>1. Frame /\ UNCHANGED <<rule, mounted, gone, tasks, row, excused>> /\ (snap' = snap \/ snap' = row)
    BY <1>6 DEF MarkServerMetrics, MarkLost, GoStale, PeriodOver, GraceOver, Elapse, adminVars, procVars, queueVars, clockVars
  <2>2. staleTo' = staleTo \/ (row.seq > staleTo /\ staleTo' = row.seq)
    BY <1>6 DEF MarkServerMetrics, MarkLost, GoStale, PeriodOver, GraceOver, Elapse, clockVars
  <2>3. staleTo' >= staleTo
    BY <1>0, <2>2 DEF TypeOK, Snapshots
  <2>4. Moves
    BY <2>1, <2>3, SameRules DEF Moves, TypeOK
  <2> QED  BY <2>1, <2>4, SameRules, OutsideKept
<1> QED  BY <1>1, <1>2, <1>3, <1>4, <1>5, <1>6 DEF Admin, Ingest

\* A close takes away at most the event it names.
LEMMA CloseShrinks ==
    ASSUME TypeOK, NEW k \in Keys, NEW n, CloseEvent(k, n)
    PROVE  /\ \A q \in Keys : event'[q] = event[q] \/ event'[q] = 0
           /\ \A q \in Keys : event'[q] # event[q] => q = k /\ IsOpen(k, n)
  BY DEF CloseEvent, TypeOK

\* What the control loop does leaves database, cache and worker as they should be.
LEMMA ControlMoves ==
    ASSUME AlertInv, TypeOK', UNCHANGED <<adminVars, row, staleTo, snap, excused, up, evalVars>>,
           \A k \in Keys : event'[k] = event[k] \/ event'[k] = 0,
           cache' = cache \/ cache' = Compilable
    PROVE  Moves /\ Standing' /\ CacheKnows' /\ WorkerKnows'
<1> USE DEF AlertInv
<1>1. UNCHANGED <<rule, mounted, gone, erules>>
  BY DEF adminVars, evalVars
<1>2. Moves
  BY <1>1, SameRules DEF Moves, TypeOK
<1>3. Standing'
  BY <1>1, <1>2, SameRules, StandingKept
<1>4. CacheKnows'
  BY <1>1, <1>2, CacheKept
<1>5. WorkerKnows'
  BY <1>1, <1>2, WorkerKept
<1> QED  BY <1>2, <1>3, <1>4, <1>5

\* What is listed to be closed may be closed.
LEMMA ListedIsExcused ==
    ASSUME AlertInv, cpc \in {"generation", "invalid", "deleted", "restore"}
    PROVE  /\ \A i, j \in Listed : i.key = j.key => i = j
           /\ cpc # "restore" => \A id \in Listed : id.key \in excused
<1> USE DEF AlertInv
<1>1. \A ks : \A i, j \in OpenIds(ks) : i.key \in ks \cap Open /\ (i.key = j.key => i = j)
  BY DEF OpenIds
<1>2. \A i, j \in Listed : i.key = j.key => i = j
  BY <1>1 DEF Listed
<1>3. ASSUME cpc = "generation", NEW id \in Listed PROVE id.key \in excused
  <2>1. id.key \in Open /\ id.key \in Keys /\ id.key.rule = ctask.rule /\ id.key.generation = ctask.old
    BY <1>1, <1>3, KeyFields DEF Listed
  <2>2. ctask # FullTask /\ ctask.old > 0 /\ rule[ctask.rule].generation > ctask.old /\ ctask.rule \in Rules
    BY <1>3, TaskKinds DEF ControlKnows, TypeOK
  <2>3. ~Current(id.key)
    BY <2>1, <2>2, PastIsNotCurrent DEF Past
  <2> QED  BY <2>1, <2>3 DEF Standing
<1>4. ASSUME cpc = "invalid", NEW id \in Listed PROVE id.key \in excused
  BY <1>1, <1>4 DEF Listed, ControlKnows, Standing
<1>5. ASSUME cpc = "deleted", NEW id \in Listed PROVE id.key \in excused
  <2>1. gone /\ id.key \in Open
    BY <1>1, <1>5 DEF Listed
  <2> QED  BY <2>1 DEF Standing, Open
<1> QED  BY <1>2, <1>3, <1>4, <1>5

\* The control loop keeps the invariant.
LEMMA ControlKeeps ==
    ASSUME AlertInv, TypeOK', ControlStep \/ ControlFails \/ Tick
    PROVE  AlertInv'
<1> USE DEF AlertInv
<1> DEFINE Frame == UNCHANGED <<adminVars, row, staleTo, snap, excused, up, evalVars>>
           Kept == Standing' /\ CacheKnows' /\ WorkerKnows'
<1>1. ASSUME NEW t \in tasks, TakeTask(t) PROVE AlertInv'
  <2>1. Frame /\ UNCHANGED <<rule, event, tasks, ctodo, clisted>> /\ cache' = Compilable
    BY <1>1 DEF TakeTask, clockVars, queueVars, adminVars
  <2>2. Kept
    BY <2>1, ControlMoves
  <2>3. ctask' = t /\ cinvalid' \subseteq Invalid /\ cpc = "idle"
    BY <1>1 DEF TakeTask
  <2>4. cpc' = IF t # FullTask /\ t.old > 0 THEN "generation" ELSE "invalid"
    BY <1>1 DEF TakeTask
  <2>5. ctodo = {}
    BY <2>3 DEF ControlKnows
  <2>6. ControlKnows'
    BY <2>1, <2>3, <2>4, <2>5 DEF ControlKnows
  <2> QED  BY <2>2, <2>6
<1>2. CASE ListEvents
  <2>1. Frame /\ UNCHANGED <<rule, event, cache, tasks, ctask, cinvalid>>
    BY <1>2 DEF ListEvents, clockVars, queueVars, adminVars, procVars
  <2>2. Kept
    BY <2>1, ControlMoves
  <2>3. /\ cpc \in {"generation", "invalid", "deleted", "restore"}
        /\ ctodo' = Listed /\ clisted' = (Listed # {}) /\ cpc' = IF Listed = {} THEN NextPart ELSE cpc
    BY <1>2 DEF ListEvents
  <2>4. NextPart # "generation"
    BY <2>3, ListTypes
  <2>5. \A i, j \in ctodo' : i.key = j.key => i = j
    BY <2>3, ListedIsExcused
  <2>6. cpc' # "restore" => \A id \in ctodo' : id.key \in excused'
    BY <2>1, <2>3, ListedIsExcused
  <2>7. (/\ \A t \in tasks \cup {ctask} : t # FullTask /\ t.old > 0 => rule[t.rule].generation > t.old
         /\ cpc = "generation" => ctask # FullTask /\ ctask.old > 0
         /\ cinvalid \subseteq Invalid)'
    BY <2>1, <2>3, <2>4 DEF ControlKnows
  <2>8. (cpc \in {"idle", "enqueue"} \/ ~clisted => ctodo = {})'
    BY <2>3
  <2>9. ControlKnows'
    BY <2>5, <2>6, <2>7, <2>8 DEF ControlKnows
  <2> QED  BY <2>2, <2>9
<1>3. ASSUME NEW id \in ctodo, CloseListed(id) PROVE AlertInv'
  <2>1. Frame /\ UNCHANGED <<rule, cache, tasks, ctask, cinvalid, cpc, clisted>> /\ ctodo' = ctodo \ {id}
    BY <1>3 DEF CloseListed, clockVars, queueVars, adminVars, procVars
  <2>2. id.key \in Keys /\ CloseEvent(id.key, id.number)
    BY <1>3 DEF CloseListed, TypeOK, EventIds
  <2>3. Moves /\ Kept
    BY <2>1, <2>2, CloseShrinks, ControlMoves
  <2>4. \A i \in ctodo : IsOpen(i.key, i.number)' => IsOpen(i.key, i.number)
    BY <2>3, MovesKeep DEF TypeOK, EventIds
  <2>5. (cpc # "restore" => \A i \in ctodo : IsOpen(i.key, i.number) => i.key \in excused)'
    BY <2>1, <2>4 DEF ControlKnows
  <2>6. ControlKnows'
    BY <2>1, <2>5 DEF ControlKnows
  <2> QED  BY <2>3, <2>6
<1>4. CASE ClosingDone
  <2>1. Frame /\ UNCHANGED <<rule, cache, event, tasks, ctask, cinvalid, ctodo>>
    BY <1>4 DEF ClosingDone, queueVars, adminVars
  <2>2. cpc \in {"generation", "invalid", "deleted"} /\ ctodo = {} /\ cpc' = NextPart
    BY <1>4 DEF ClosingDone
  <2>3. Kept
    BY <2>1, ControlMoves
  <2>4. cpc' # "generation" /\ ctodo' = {}
    BY <2>1, <2>2, ListTypes
  <2>5. ControlKnows'
    BY <2>1, <2>4 DEF ControlKnows
  <2> QED  BY <2>3, <2>5
<1>5. CASE Merge
  <2>1. Frame /\ UNCHANGED <<rule, cache, event, tasks, ctask, cinvalid>> /\ ctodo' = {} /\ cpc' = "enqueue"
    BY <1>5 DEF Merge, queueVars, adminVars
  <2>2. Kept
    BY <2>1, ControlMoves
  <2>3. ControlKnows'
    BY <2>1 DEF ControlKnows
  <2> QED  BY <2>2, <2>3
<1>6. CASE Enqueue \/ ControlFails
  <2>1. Frame /\ UNCHANGED <<rule, cache>> /\ tasks' \subseteq tasks /\ CtlReset
    BY <1>6 DEF Enqueue, ControlFails, clockVars, queueVars, adminVars, procVars
  <2>2. \A k \in Keys : event'[k] = event[k] \/ event'[k] = 0
    BY <1>6, CloseShrinks DEF Enqueue, ControlFails, TypeOK, EventIds
  <2>3. Kept
    BY <2>1, <2>2, ControlMoves
  <2>4. ControlKnows'
    BY <2>1 DEF ControlKnows, CtlReset
  <2> QED  BY <2>3, <2>4
<1>7. CASE Tick
  <2>1. Frame /\ UNCHANGED <<rule, cache, event, ctlVars>> /\ tasks' = tasks \cup {FullTask}
    BY <1>7 DEF Tick, clockVars, queueVars, adminVars, procVars
  <2>2. Moves /\ Kept
    BY <2>1, ControlMoves
  <2>3. ControlKnows'
    BY <2>1, <2>2, ControlKept
  <2> QED  BY <2>2, <2>3
<1> QED  BY <1>1, <1>2, <1>3, <1>4, <1>5, <1>6, <1>7 DEF ControlStep

\* A crash and a start keep the invariant.
LEMMA ProcessKeeps ==
    ASSUME AlertInv, TypeOK', Crash \/ Start
    PROVE  AlertInv'
<1> USE DEF AlertInv
<1>1. CASE Crash
  <2>1. UNCHANGED <<rule, mounted, gone, row, staleTo, event, excused, tasks>> /\ snap' = NoSnapshot
    BY <1>1 DEF Crash, adminVars
  <2>2. up' = FALSE /\ cache' = {} /\ EvalReset /\ CtlReset
    BY <1>1 DEF Crash
  <2>3. Moves
    BY <2>1, SameRules DEF Moves, TypeOK
  <2>4. Standing'
    BY <2>1, <2>3, SameRules, StandingKept
  <2>5. CacheKnows'
    BY <2>2, <2>3, CacheKept DEF EvalReset
  <2>6. WorkerKnows'
    BY <2>2 DEF WorkerKnows, EvalReset
  <2>7. ControlKnows'
    BY <2>1, <2>2 DEF ControlKnows, CtlReset
  <2> QED  BY <2>4, <2>5, <2>6, <2>7
<1>2. CASE Start
  <2>1. UNCHANGED <<rule, mounted, gone, row, staleTo, snap, excused, evalVars, ctlVars, erules>>
    BY <1>2 DEF Start, adminVars, queueVars, evalVars
  <2>2. up' = TRUE /\ cache' = Compilable /\ tasks' = tasks \cup {FullTask}
    BY <1>2 DEF Start
  <2>3. \A k \in Keys : event'[k] = event[k] \/ event'[k] = 0
    BY <1>2 DEF Start
  <2>4. Moves
    BY <2>1, <2>3, SameRules DEF Moves, TypeOK
  <2>5. Standing'
    BY <2>1, <2>4, SameRules, StandingKept
  <2>6. CacheKnows'
    BY <2>1, <2>2, <2>4, CacheKept
  <2>7. WorkerKnows'
    BY <2>1, <2>2, <2>4, WorkerKept
  <2>8. ControlKnows'
    BY <2>1, <2>2, <2>4, ControlKept
  <2> QED  BY <2>5, <2>6, <2>7, <2>8
<1> QED  BY <1>1, <1>2

\* What the worker does, short of publishing an event, leaves the rest as it should be.
LEMMA WorkerMoves ==
    ASSUME AlertInv, TypeOK', UNCHANGED <<adminVars, tasks, row, staleTo, excused, up, ctlVars>>,
           \A k \in Keys : event'[k] = event[k] \/ event'[k] = 0,
           snap' = snap \/ snap' = NoSnapshot,
           cache' = cache \/ cache' = Compilable,
           erules' = erules \/ erules' = {} \/ erules' = cache'
    PROVE  Moves /\ Standing' /\ CacheKnows' /\ ControlKnows'
<1> USE DEF AlertInv
<1>1. UNCHANGED <<rule, mounted, gone>>
  BY DEF adminVars
<1>2. Moves
  BY <1>1, SameRules DEF Moves, TypeOK
<1>3. Standing'
  BY <1>1, <1>2, SameRules, StandingKept
<1>4. CacheKnows'
  BY <1>1, <1>2, CacheKept
<1>5. ControlKnows'
  BY <1>1, <1>2, ControlKept
<1> QED  BY <1>2, <1>3, <1>4, <1>5

\* What an evaluation decides to close may be closed, and what it decides to open is in force.
LEMMA EvaluateIsRight ==
    ASSUME AlertInv, epc = "evaluate"
    PROVE  /\ \A k \in Closing : k \in Open => k \in excused
           /\ \A prompt : \A k \in Opening(prompt) : k \notin Invalid /\ k \in erules
<1> USE DEF AlertInv
<1>1. ClearsExcused(esnap) /\ Open \subseteq erules \cup excused
  BY DEF WorkerKnows
<1>2. ASSUME NEW k \in Closing, k \in Open PROVE k \in excused
  <2>1. CASE Reads(k, "below")
    BY <1>1, <1>2, <2>1 DEF Reads, ClearsExcused
  <2>2. CASE k \notin Seen
    BY <1>1, <1>2, <2>2 DEF Seen, Standing
  <2> QED  BY <1>2, <2>1, <2>2 DEF Closing
<1>3. ASSUME NEW prompt, NEW k \in Opening(prompt) PROVE k \notin Invalid /\ k \in erules
  <2>1. NextState(k) = Pending
    BY <1>3 DEF Opening
  <2>2. Pending.phase = "pending" /\ None.phase = "none" /\ Cooldown.phase = "cooldown"
    BY DEF Pending, None, Cooldown
  <2>3. Reads(k, "above")
    BY <2>1, <2>2 DEF NextState, IsFiring, CooldownActive
  <2> QED  BY <2>3 DEF Reads, Seen
<1> QED  BY <1>2, <1>3

\* The steps of the worker up to its decision keep the invariant.
LEMMA ReadingKeeps ==
    ASSUME AlertInv, TypeOK', Take \/ Refresh \/ Load \/ Fetch \/ Evaluate
    PROVE  AlertInv'
<1> USE DEF AlertInv
<1> DEFINE Frame == UNCHANGED <<adminVars, tasks, row, staleTo, excused, up, ctlVars, event, snap>>
           Kept == Standing' /\ CacheKnows' /\ ControlKnows'
<1>0. ASSUME Frame PROVE UNCHANGED <<rule, mounted, gone, Open, excused, up>> /\ \A k : Past(k)' = Past(k)
  BY <1>0 DEF adminVars, Open, Past
<1>1. CASE Take
  <2>1. Frame /\ UNCHANGED <<cache, erules, ecur, eclose, eopen, einsert>> /\ esnap' = snap /\ epc' = "refresh"
    BY <1>1 DEF Take, clockVars, procVars
  <2>2. Kept
    BY <2>1, WorkerMoves
  <2>3. epc = "idle" /\ up
    BY <1>1 DEF Take
  <2>4. ClearsExcused(esnap)'
    BY <2>1 DEF Standing, ClearsExcused, Reading, Open
  <2>5. WorkerKnows'
    BY <1>0, <2>1, <2>3, <2>4 DEF WorkerKnows
  <2> QED  BY <2>2, <2>5
<1>2. CASE Refresh
  <2>1. /\ Frame /\ UNCHANGED <<esnap, ecur, eclose, eopen, einsert>> /\ erules' = cache' /\ epc' = "load" /\ epc = "refresh"
        /\ (cache' = cache \/ cache' = Compilable)
    BY <1>2 DEF Refresh, clockVars, queueVars
  <2>2. Kept
    BY <2>1, WorkerMoves
  <2>3. ClearsExcused(esnap)'
    BY <2>1 DEF WorkerKnows, ClearsExcused, Reading, Open
  <2>4. up /\ up' /\ eclose' = {} /\ eopen' = {} /\ einsert' = {}
    BY <2>1 DEF WorkerKnows
  <2>5. Open' \subseteq erules' \cup excused'
    BY <2>1, <2>2, <2>4 DEF CacheKnows
  <2>6. WorkerKnows'
    BY <2>1, <2>3, <2>4, <2>5 DEF WorkerKnows
  <2> QED  BY <2>2, <2>6
<1>3. CASE Load
  <2>1. Frame /\ UNCHANGED <<cache, erules, esnap, eclose, eopen, einsert>> /\ epc' \in {"fetch", "evaluate"} /\ epc = "load"
    BY <1>3 DEF Load, clockVars, procVars, queueVars
  <2>2. Kept
    BY <2>1, WorkerMoves
  <2>3. ClearsExcused(esnap)'
    BY <2>1 DEF WorkerKnows, ClearsExcused, Reading, Open
  <2>4. up /\ eclose' = {} /\ eopen' = {} /\ einsert' = {} /\ Open \subseteq erules \cup excused
    BY <2>1 DEF WorkerKnows
  <2>5. WorkerKnows'
    BY <1>0, <2>1, <2>3, <2>4 DEF WorkerKnows
  <2> QED  BY <2>2, <2>5
<1>4. CASE Fetch
  <2>1. /\ Frame /\ UNCHANGED <<cache, erules, ecur, eclose, eopen, einsert>> /\ epc' = "evaluate" /\ epc = "fetch"
        /\ (esnap' = NoSnapshot \/ esnap' = row)
    BY <1>4 DEF Fetch, clockVars, procVars, queueVars
  <2>2. Kept
    BY <2>1, WorkerMoves
  <2>3. ClearsExcused(esnap)'
    <3>1. CASE esnap' = row
      BY <2>1, <3>1 DEF Standing, ClearsExcused, Reading, Open
    <3>2. CASE esnap' = NoSnapshot
      BY <2>1, <3>2, Resets DEF ClearsExcused, Reading, TypeOK
    <3> QED  BY <2>1, <3>1, <3>2
  <2>4. up /\ eclose' = {} /\ eopen' = {} /\ einsert' = {} /\ Open \subseteq erules \cup excused
    BY <2>1 DEF WorkerKnows
  <2>5. WorkerKnows'
    BY <1>0, <2>1, <2>3, <2>4 DEF WorkerKnows
  <2> QED  BY <2>2, <2>5
<1>5. CASE Evaluate
  <2>1. Frame /\ UNCHANGED <<cache, ecur, einsert>> /\ erules' = {} /\ epc' = "write" /\ epc = "evaluate" /\ eclose' = Closing
    BY <1>5 DEF Evaluate, clockVars, procVars, queueVars
  <2>2. Kept
    BY <2>1, WorkerMoves
  <2>3. up /\ einsert' = {}
    BY <2>1 DEF WorkerKnows
  <2>4. \A k \in eclose' : k \in Open => k \in excused
    BY <2>1, EvaluateIsRight
  <2>5. \A k \in eopen' : k \notin Invalid /\ (k \in cache' \/ Past(k)')
    <3>1. PICK prompt : eopen' \subseteq Opening(prompt)
      BY <1>5 DEF Evaluate
    <3>2. \A k \in eopen' : k \notin Invalid /\ k \in erules
      BY <2>1, <3>1, EvaluateIsRight
    <3>3. \A k \in eopen' : k \in cache \/ Past(k)
      BY <3>2 DEF CacheKnows
    <3> QED  BY <1>0, <2>1, <3>2, <3>3
  <2>6. WorkerKnows'
    BY <1>0, <2>1, <2>3, <2>4, <2>5 DEF WorkerKnows, IsOpen
  <2> QED  BY <2>2, <2>6
<1> QED  BY <1>1, <1>2, <1>3, <1>4, <1>5

\* The writes of the worker, short of publishing an event, keep the invariant.
LEMMA WritingKeeps ==
    ASSUME AlertInv, TypeOK',
           \/ \E k \in Keys : Close(k) \/ CloseFails(k) \/ Insert(k) \/ OpenSkipped(k)
           \/ EvalError \/ Finish
    PROVE  AlertInv'
<1> USE DEF AlertInv
<1> DEFINE Frame == UNCHANGED <<adminVars, tasks, row, staleTo, excused, up, ctlVars, cache>>
           Kept == Standing' /\ CacheKnows' /\ ControlKnows'
<1>0. ASSUME Frame PROVE \A k : Past(k)' = Past(k)
  BY <1>0 DEF adminVars, Past
<1>1. ASSUME NEW k \in Keys, Close(k) \/ CloseFails(k) PROVE AlertInv'
  <2>1. /\ Frame /\ UNCHANGED <<epc, snap, erules, ecur, eopen, einsert>> /\ epc = "write" /\ k \in eclose /\ eclose' = eclose \ {k}
    BY <1>1 DEF Close, CloseFails, clockVars, procVars, queueVars
  <2>2. \A q \in Keys : event'[q] = event[q] \/ event'[q] = 0
    BY <1>1, CloseShrinks DEF Close, CloseFails
  <2>3. Moves /\ Kept
    BY <2>1, <2>2, WorkerMoves
  <2>4. Open' \subseteq Open /\ \A q \in eclose : IsOpen(q, ecur[q].event)' => IsOpen(q, ecur[q].event)
    <3>1. Open' \subseteq Open /\ \A q \in Keys : \A n : IsOpen(q, n)' => IsOpen(q, n)
      BY <2>3, MovesKeep
    <3> QED  BY <2>1, <3>1 DEF TypeOK, IsOpen
  <2>5. WorkerKnows'
    BY <1>0, <2>1, <2>4 DEF WorkerKnows
  <2> QED  BY <2>3, <2>5
<1>2. ASSUME NEW k \in Keys, Insert(k) \/ OpenSkipped(k) PROVE AlertInv'
  <2>1. /\ Frame /\ UNCHANGED <<epc, snap, event, erules, ecur, eclose>> /\ epc = "write" /\ k \in eopen /\ eopen' = eopen \ {k}
        /\ einsert' \subseteq {k} \ Open
    BY <1>2 DEF Insert, OpenSkipped, clockVars, procVars, queueVars
  <2>2. Moves /\ Kept
    BY <2>1, WorkerMoves
  <2>3. Open' = Open /\ \A q, n : IsOpen(q, n)' = IsOpen(q, n)
    BY <2>1 DEF Open, IsOpen
  <2>4. WorkerKnows'
    <3>1. (\A q \in eclose : IsOpen(q, ecur[q].event) => q \in excused)'
      BY <2>1 DEF WorkerKnows, IsOpen, Open
    <3> QED  BY <1>0, <2>1, <2>3, <3>1 DEF WorkerKnows
  <2> QED  BY <2>2, <2>4
<1>3. CASE EvalError \/ Finish
  <2>1. /\ Frame /\ UNCHANGED event /\ EvalReset /\ (snap' = snap \/ snap' = NoSnapshot)
    BY <1>3 DEF EvalError, Finish, clockVars, procVars, queueVars
  <2>2. erules' = {}
    BY <2>1 DEF EvalReset
  <2>3. Kept
    BY <2>1, <2>2, WorkerMoves
  <2>4. WorkerKnows'
    BY <2>1 DEF WorkerKnows, EvalReset
  <2> QED  BY <2>3, <2>4
<1> QED  BY <1>1, <1>2, <1>3

\* The one step that takes a reason away: an event that becomes visible starts with none,
\* and nobody has yet decided to close it.
LEMMA PublishKeeps ==
    ASSUME AlertInv, TypeOK', NEW k \in Keys, Commit(k) \/ CommitFails(k)
    PROVE  AlertInv'
<1> USE DEF AlertInv
<1>1. /\ UNCHANGED <<rule, mounted, gone, tasks, row, staleTo, up, cache, snap, epc, esnap, erules, ecur, eclose, eopen, ctlVars>>
      /\ k \in einsert /\ einsert' = {}
  BY DEF Commit, CommitFails, adminVars, clockVars, procVars, queueVars
<1>2. UNCHANGED <<cpc, clisted, ctask, cinvalid, ctodo>>
  BY <1>1 DEF ctlVars
<1>3. epc = "write" /\ k \notin Open /\ k \notin Invalid /\ (k \in cache \/ Past(k)) /\ up
  BY <1>1 DEF WorkerKnows
<1>4. \A q : Past(q)' = Past(q) /\ Current(q)' = Current(q) /\ \A s : Reading(q.rule, s)' = Reading(q.rule, s)
  BY <1>1 DEF Past, Current, Reading
<1>5. CASE UNCHANGED <<event, excused>>
  <2>1. Open' = Open /\ \A q, n : IsOpen(q, n)' = IsOpen(q, n)
    BY <1>5 DEF Open, IsOpen
  <2>2. Standing'
    BY <1>1, <1>4, <1>5, <2>1 DEF Standing, ClearsExcused, Reading
  <2>3. CacheKnows'
    BY <1>1, <1>4, <1>5, <2>1 DEF CacheKnows
  <2>4. WorkerKnows'
    <3>1. (\A q \in eclose : IsOpen(q, ecur[q].event) => q \in excused)'
      BY <1>1, <1>5 DEF WorkerKnows, IsOpen, Open
    <3> QED  BY <1>1, <1>3, <1>4, <1>5, <2>1, <3>1 DEF WorkerKnows
  <2>5. ControlKnows'
    <3>1. (cpc # "restore" => \A id \in ctodo : IsOpen(id.key, id.number) => id.key \in excused)'
      BY <1>2, <1>5, <2>1 DEF ControlKnows
    <3> QED  BY <1>1, <1>2, <3>1 DEF ControlKnows
  <2> QED  BY <2>2, <2>3, <2>4, <2>5
<1>6. CASE Publish(k)
  <2> DEFINE n == FreshNumber(k)
  <2>1. n \in 1 .. 5 /\ n \notin Referenced(k)
    BY FreshNumberIs DEF ControlKnows
  <2>2. n # ecur[k].event /\ \A id \in ctodo : id.key = k => id.number # n
    BY <2>1 DEF Referenced
  <2>3. event'[k] = n /\ \A q \in Keys : q # k => event'[q] = event[q]
    BY <1>6 DEF Publish, TypeOK
  <2> HIDE DEF n
  <2>4. Open' = Open \cup {k}
    BY <2>1, <2>3 DEF Open
  <2>5. \A q \in Keys : \A m : IsOpen(q, m)' <=> IF q = k THEN m = n ELSE IsOpen(q, m)
    BY <2>3, <2>4 DEF IsOpen
  <2>6. \A q : q # k => (q \in excused' <=> q \in excused)
    BY <1>6 DEF Publish
  <2>7. /\ ~Current(k) \/ k.rule \notin mounted \/ gone \/ Reading(k.rule, row) = "below" => k \in excused'
        /\ snap # NoSnapshot /\ Reading(k.rule, snap) = "below" => k \in excused'
    BY <1>6 DEF Publish
  <2>8. Reading(k.rule, NoSnapshot) # "below"
    BY Resets DEF Reading, TypeOK
  <2>9. Standing'
    <3>1. gone' => excused' = Keys
      BY <1>1, <2>6, <2>7 DEF Standing, TypeOK
    <3>2. Invalid \subseteq excused'
      BY <1>3, <2>6 DEF Standing
    <3>3. \A q \in Open' : ~Current(q)' \/ q.rule \notin mounted' => q \in excused'
      BY <1>1, <1>4, <2>4, <2>6, <2>7 DEF Standing
    <3>4. \A q \in Open' : Reading(q.rule, row) = "below" \/ Reading(q.rule, snap) = "below" => q \in excused'
      BY <2>4, <2>6, <2>7, <2>8 DEF Standing, ClearsExcused
    <3>5. ClearsExcused(row)' /\ ClearsExcused(snap)'
      BY <1>1, <3>4 DEF ClearsExcused, Reading
    <3> QED  BY <3>1, <3>2, <3>3, <3>5 DEF Standing
  <2>10. CacheKnows'
    <3>1. Open' \subseteq cache \cup excused'
      BY <1>3, <2>4, <2>6, <2>7, PastIsNotCurrent DEF CacheKnows
    <3> QED  BY <1>1, <1>4, <3>1 DEF CacheKnows
  <2>11. WorkerKnows'
    <3>1. \A q \in eclose : IsOpen(q, ecur[q].event)' => q \in excused'
      BY <1>1, <2>2, <2>3, <2>4, <2>6 DEF WorkerKnows, IsOpen, TypeOK
    <3> QED  BY <1>1, <1>3, <1>4, <3>1 DEF WorkerKnows
  <2>12. ControlKnows'
    <3>1. \A id \in ctodo : id.key \in Keys
      BY DEF TypeOK, EventIds
    <3>2. cpc # "restore" => \A id \in ctodo : IsOpen(id.key, id.number)' => id.key \in excused'
      BY <2>2, <2>5, <2>6, <3>1 DEF ControlKnows
    <3>3. (cpc # "restore" => \A id \in ctodo : IsOpen(id.key, id.number) => id.key \in excused)'
      BY <1>2, <3>2
    <3> QED  BY <1>1, <1>2, <3>3 DEF ControlKnows
  <2> QED  BY <2>9, <2>10, <2>11, <2>12
<1> QED  BY <1>5, <1>6 DEF Commit, CommitFails

\* Every step keeps the invariant.
LEMMA StepKeeps ==
    ASSUME AlertInv, [Next]_vars
    PROVE  AlertInv'
<1>1. TypeOK'
  BY TypesKept
<1>2. CASE Next
  <2>1. CASE Admin \/ Ingest \/ GoStale \/ PeriodOver
    BY <1>1, <2>1, OutsideKeeps
  <2>2. CASE EvalStep \/ EvalFault
    BY <1>1, <2>2, ReadingKeeps, WritingKeeps, PublishKeeps DEF EvalStep, EvalFault
  <2>3. CASE ControlStep \/ ControlFails \/ Tick
    BY <1>1, <2>3, ControlKeeps
  <2>4. CASE Crash \/ Start
    BY <1>1, <2>4, ProcessKeeps
  <2> QED  BY <1>2, <2>1, <2>2, <2>3, <2>4 DEF Next
<1>3. CASE UNCHANGED vars
  BY <1>3 DEF vars, adminVars, clockVars, procVars, queueVars, evalVars, ctlVars, AlertInv, TypeOK, Standing, CacheKnows,
     WorkerKnows, ControlKnows, ClearsExcused, Reading, Open, IsOpen, Past, Current
<1> QED  BY <1>2, <1>3

\* The invariant holds before the first start.
LEMMA InitHolds == Init => AlertInv
<1> SUFFICES ASSUME Init PROVE AlertInv
  OBVIOUS
<1>1. TypeOK
  <2>1. rule \in [Rules -> [generation : 0 .. MaxGeneration, enabled : BOOLEAN, deleted : BOOLEAN]]
    BY KeyFields DEF Init
  <2>2. event \in [Keys -> Nat] /\ excused \subseteq Keys /\ mounted \subseteq AllRules
    BY KeyFields, RulesAssumption DEF Init, AllRules
  <2>3. upsets \in 0 .. MaxUpsets
    BY BoundsAssumption DEF Init
  <2> QED  BY <2>1, <2>2, <2>3, Resets DEF Init, TypeOK
<1>2. Open \subseteq excused /\ excused = Invalid
  BY DEF Init, Open
<1>3. Standing
  BY <1>2 DEF Init, Standing, ClearsExcused
<1>4. CacheKnows /\ WorkerKnows /\ ControlKnows
  BY DEF Init, CacheKnows, WorkerKnows, ControlKnows
<1> QED  BY <1>1, <1>3, <1>4 DEF AlertInv

\* The inductive invariant of alert evaluation.
THEOREM AlertInvariant == Spec => []AlertInv
<1>1. Init => AlertInv
  BY InitHolds
<1>2. AlertInv /\ [Next]_vars => AlertInv'
  BY StepKeeps
<1> QED  BY <1>1, <1>2, PTL DEF Spec

\* Every variable of alert evaluation keeps its type.
THEOREM TypeCorrect == Spec => []TypeOK
<1>1. AlertInv => TypeOK
  BY DEF AlertInv
<1> QED  BY <1>1, AlertInvariant, PTL

\* Who closes an event has a reason, whoever it is.
LEMMA ClosesAreJustified ==
    ASSUME AlertInv, Next, NEW k \in Open, event'[k] = 0
    PROVE  k \in excused
<1> USE DEF AlertInv
<1>1. k \in Keys /\ event[k] # 0
  BY DEF Open
<1>2. event' # event
  BY <1>1
<1>3. ASSUME NEW q \in Keys, Close(q) \/ CloseFails(q) PROVE k \in excused
  <2>1. CloseEvent(q, ecur[q].event) /\ q \in eclose
    BY <1>2, <1>3 DEF Close, CloseFails
  <2>2. q = k /\ IsOpen(q, ecur[q].event)
    BY <1>1, <2>1, CloseShrinks
  <2> QED  BY <2>1, <2>2 DEF WorkerKnows
<1>4. ASSUME NEW q \in Keys, Commit(q) \/ CommitFails(q) PROVE FALSE
  <2>1. Publish(q)
    BY <1>2, <1>4 DEF Commit, CommitFails
  <2>2. FreshNumber(q) # 0
    BY FreshNumberIs DEF ControlKnows
  <2> QED  BY <1>1, <2>1, <2>2 DEF Publish, TypeOK
<1>5. ASSUME NEW id \in ctodo, cpc # "restore", CloseEvent(id.key, id.number) PROVE k \in excused
  <2>1. id.key \in Keys
    BY DEF TypeOK, EventIds
  <2>2. id.key = k /\ IsOpen(id.key, id.number)
    BY <1>1, <1>5, <2>1, CloseShrinks
  <2> QED  BY <1>5, <2>2 DEF ControlKnows
<1>6. CASE ControlStep \/ ControlFails \/ Tick
  <2>1. \E id \in ctodo : cpc # "restore" /\ CloseEvent(id.key, id.number)
    BY <1>2, <1>6 DEF ControlStep, ControlFails, Tick, TakeTask, ListEvents, ClosingDone, Merge, Enqueue, CloseListed
  <2> QED  BY <1>5, <2>1
<1>7. CASE EvalStep \/ EvalFault
  <2>1. ~(Take \/ Refresh \/ Load \/ Fetch \/ Evaluate \/ Finish \/ EvalError)
    BY <1>2 DEF Take, Refresh, Load, Fetch, Evaluate, Finish, EvalError
  <2>2. \A q \in Keys : ~(Insert(q) \/ OpenSkipped(q))
    BY <1>2 DEF Insert, OpenSkipped
  <2> QED  BY <1>3, <1>4, <1>7, <2>1, <2>2 DEF EvalStep, EvalFault
<1>8. CASE Start
  BY <1>1, <1>2, <1>8 DEF Start, Standing
<1>9. CASE Admin \/ Ingest \/ GoStale \/ PeriodOver \/ Crash
  BY <1>2, <1>9 DEF Admin, Ingest, GoStale, PeriodOver, GraceOver, Elapse, Crash, CreateRule, PatchRule, DeleteRule, SetRuleMounts,
     DeleteNode, SaveMetrics, MarkServerMetrics, MarkLost
<1> QED  BY <1>6, <1>7, <1>8, <1>9 DEF Next

\* For any rules, reports, changes and faults, an open event is closed only for a reason: its rule was
\* changed, deleted or unmounted, its server deleted, or a report cleared its condition.
THEOREM EventsCloseForAReason == Spec => CloseIsJustified
<1>1. AlertInv /\ [Next]_vars => [\A k \in Open : event'[k] = 0 => k \in excused]_vars
  BY ClosesAreJustified
<1> QED  BY <1>1, AlertInvariant, PTL DEF Spec, CloseIsJustified
=============================================================================
