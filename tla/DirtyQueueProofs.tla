-------------------------- MODULE DirtyQueueProofs --------------------------
(***************************************************************************)
(* Safety of the dirty queue for any servers and workers, and the step     *)
(* simulation that shows it implements DirtyWork.                          *)
(***************************************************************************)
EXTENDS DirtyQueue, SequenceTheorems, TLAPS

\* Appending an id that the slice does not hold keeps it a faithful listing.
LEMMA ListsAppend ==
    ASSUME NEW seq \in Seq(Servers), NEW set, NEW s \in Servers,
           Lists(seq, set), s \notin set
    PROVE  Lists(Append(seq, s), set \cup {s})
<1> DEFINE app == Append(seq, s)
<1>1. /\ Len(seq) \in Nat
      /\ Len(app) = Len(seq) + 1
      /\ \A i \in 1..Len(seq) : app[i] = seq[i]
      /\ app[Len(seq) + 1] = s
      /\ \A i \in 1..Len(seq) : seq[i] \in Servers
  BY AppendProperties, LenProperties, ElementOfSeq
<1>2. \A i \in 1..Len(seq) : seq[i] # s
  BY DEF Lists
<1> HIDE DEF app
<1>3. \A r \in Servers : r \in set \cup {s} <=> \E i \in 1..Len(app) : app[i] = r
  <2> TAKE r \in Servers
  <2>1. CASE r = s
    BY <1>1, <2>1
  <2>2. CASE r # s
    BY <1>1, <2>2 DEF Lists
  <2> QED BY <2>1, <2>2
<1>4. \A i, j \in 1..Len(app) : app[i] = app[j] => i = j
  BY <1>1, <1>2 DEF Lists
<1> QED BY <1>3, <1>4 DEF Lists, app

\* Taking the first entry leaves a faithful listing of the others.
LEMMA ListsTake ==
    ASSUME NEW seq \in Seq(Servers), NEW set, Lists(seq, set), Len(seq) > 0
    PROVE  /\ Lists(SubSeq(seq, 2, Len(seq)), set \ {seq[1]})
           /\ SubSeq(seq, 2, Len(seq)) \in Seq(Servers)
           /\ SubSeq(seq, 2, Len(seq)) # <<>> => 1 < Len(seq)
<1> DEFINE sub == SubSeq(seq, 2, Len(seq))
<1>1. Len(seq) \in Nat /\ \A i \in 1..Len(seq) : seq[i] \in Servers
  BY LenProperties, ElementOfSeq
<1>2. /\ sub \in Seq(Servers)
      /\ Len(sub) = Len(seq) - 1
      /\ \A i \in 1..Len(seq) - 1 : sub[i] = seq[i + 1]
  <2>1. seq # <<>>
    BY EmptySeq
  <2>2. sub = Tail(seq)
    BY <2>1, TailIsSubSeq
  <2> HIDE DEF sub
  <2> QED BY <1>1, <2>1, <2>2, HeadTailProperties
<1>3. sub # <<>> => 1 < Len(seq)
  BY <1>1, <1>2, EmptySeq
<1> HIDE DEF sub
<1>4. ASSUME NEW r \in Servers
      PROVE  r \in set \ {seq[1]} <=> \E i \in 1..Len(sub) : sub[i] = r
  <2>1. ASSUME r \in set \ {seq[1]} PROVE \E i \in 1..Len(sub) : sub[i] = r
    <3>1. PICK k \in 1..Len(seq) : seq[k] = r
      BY <2>1 DEF Lists
    <3>2. k # 1
      BY <2>1, <3>1
    <3>3. k - 1 \in 1..Len(sub) /\ sub[k - 1] = r
      BY <1>1, <1>2, <3>1, <3>2
    <3> QED BY <3>3
  <2>2. ASSUME NEW i \in 1..Len(sub), sub[i] = r PROVE r \in set \ {seq[1]}
    <3>1. i + 1 \in 1..Len(seq) /\ seq[i + 1] = r /\ i + 1 # 1 /\ 1 \in 1..Len(seq)
      BY <1>1, <1>2, <2>2
    <3> QED BY <3>1 DEF Lists
  <2> QED BY <2>1, <2>2
<1>5. \A i, j \in 1..Len(sub) : sub[i] = sub[j] => i = j
  <2> TAKE i, j \in 1..Len(sub)
  <2> HAVE sub[i] = sub[j]
  <2>1. i + 1 \in 1..Len(seq) /\ j + 1 \in 1..Len(seq) /\ seq[i + 1] = seq[j + 1]
    BY <1>1, <1>2
  <2>2. i + 1 = j + 1
    BY <2>1 DEF Lists
  <2> QED BY <1>1, <1>2, <2>2
<1> QED BY <1>2, <1>3, <1>4, <1>5 DEF Lists, sub

\* Under the invariant no entry of ready is stale: next always takes the first.
LEMMA TakesFirst ==
    ASSUME Inv, NEW i \in LiveEntries, \A j \in LiveEntries : i <= j
    PROVE  i = 1 /\ Len(ready) > 0 /\ ready[1] \in Servers /\ ready[1] \in queued
<1>1. ready \in Seq(Servers) /\ Len(ready) \in Nat
  BY LenProperties DEF Inv, TypeOK
<1>2. \A k \in 1..Len(ready) : ready[k] \in Servers /\ ready[k] \in queued
  BY <1>1, ElementOfSeq DEF Inv, ReadyMatchesQueued, Lists
<1>3. i \in 1..Len(ready) /\ 1 \in LiveEntries
  BY <1>1, <1>2 DEF LiveEntries
<1> QED BY <1>1, <1>2, <1>3

-----------------------------------------------------------------------------
\* The initial queue is empty and every worker scans (newDirtyQueue).
LEMMA InvInit == Init => Inv
<1> SUFFICES ASSUME Init PROVE Inv
  OBVIOUS
<1>1. TypeOK
  BY EmptySeq DEF Init, TypeOK, WorkerState, NoReport
<1>2. EntryShape /\ OneWorkerPerServer /\ NoLostWakeup
  BY DEF Init, EntryShape, OneWorkerPerServer, NoLostWakeup, Busy
<1>3. ReadyMatchesQueued
  BY EmptySeq DEF Init, ReadyMatchesQueued, Lists
<1> QED BY <1>1, <1>2, <1>3 DEF Inv

\* The part of mark common to both callers, whatever happens to snapshot and
\* reported, keeps the entries, the slice and the wakeup in step.
LEMMA EnterKeeps ==
    ASSUME Inv, NEW s \in Servers, Enter(s), UNCHANGED workerVars
    PROVE  /\ present' \subseteq Servers /\ queued' \subseteq Servers
           /\ running' = running /\ dirtyAgain' \subseteq running
           /\ queued' \cap running' = {} /\ present' = queued' \cup running'
           /\ ready' \in Seq(Servers) /\ wakeup' \in BOOLEAN
           /\ ReadyMatchesQueued'
           /\ NoLostWakeup'
<1> USE DEF workerVars
<1>1. CASE EnterNew(s)
  <2>1. s \notin queued
    BY <1>1 DEF Inv, EntryShape, EnterNew
  <2>2. ready' \in Seq(Servers) /\ ReadyMatchesQueued'
    BY <1>1, <2>1, ListsAppend, AppendProperties DEF Inv, TypeOK, EnterNew, ReadyMatchesQueued
  <2> QED BY <1>1, <2>2 DEF Inv, TypeOK, EntryShape, EnterNew, NoLostWakeup
<1>2. CASE EnterKnown(s)
  BY <1>2 DEF Inv, TypeOK, EntryShape, EnterKnown, NoLostWakeup, ReadyMatchesQueued
<1> QED BY <1>1, <1>2 DEF Enter

\* Marking a server, with or without a report, preserves the invariant.
LEMMA MarkInv ==
    ASSUME Inv, NEW s \in Servers, MarkServerDirty(s) \/ MarkServerMetrics(s)
    PROVE  Inv'
<1> USE DEF workerVars, Busy
<1>1. Enter(s) /\ UNCHANGED workerVars /\ ctxDone' = ctxDone
  BY DEF MarkServerDirty, MarkServerMetrics
<1>2. /\ snapshot' \in [Servers -> Nat] /\ reported' \in [Servers -> Nat]
      /\ \A r \in Servers : snapshot'[r] \in {NoReport, reported'[r]}
  <2>1. CASE MarkServerDirty(s)
    BY <2>1 DEF Inv, TypeOK, EntryShape, MarkServerDirty
  <2>2. CASE MarkServerMetrics(s)
    BY <2>2 DEF Inv, TypeOK, EntryShape, MarkServerMetrics, StoreSnapshot
  <2> QED BY <2>1, <2>2
<1>3. TypeOK'
  BY <1>1, <1>2, EnterKeeps DEF Inv, TypeOK
<1>4. EntryShape'
  BY <1>1, <1>2, EnterKeeps DEF Inv, EntryShape
<1>5. OneWorkerPerServer'
  BY <1>1, EnterKeeps DEF Inv, OneWorkerPerServer
<1> QED BY <1>1, <1>3, <1>4, <1>5, EnterKeeps DEF Inv

\* Taking the next server preserves the invariant.
LEMMA TakeInv ==
    ASSUME Inv, NEW w \in Workers, Take(w)
    PROVE  Inv'
<1> USE DEF Busy
<1>1. PICK i \in LiveEntries : Take(w)!2!(i)
  BY DEF Take
<1> DEFINE s == ready[i]
<1>2. i = 1 /\ Len(ready) > 0 /\ s \in Servers /\ s \in queued
  BY <1>1, TakesFirst
<1>3. ready \in Seq(Servers) /\ Lists(ready, queued)
  BY DEF Inv, TypeOK, ReadyMatchesQueued
<1>4. /\ queued' = queued \ {s} /\ running' = running \cup {s}
      /\ dirtyAgain' = dirtyAgain \ {s}
      /\ ready' = SubSeq(ready, 2, Len(ready))
      /\ wakeup' = IF 1 < Len(ready) THEN TRUE ELSE wakeup
      /\ pc' = [pc EXCEPT ![w] = "work"] /\ job' = [job EXCEPT ![w] = s]
      /\ given' = [given EXCEPT ![w] = snapshot[s]]
      /\ UNCHANGED <<present, snapshot, ctxDone, reported>>
      /\ pc[w] = "scan"
  <2>1. UNCHANGED <<present, snapshot, ctxDone, reported>> /\ pc[w] = "scan"
    BY DEF Take
  <2> QED BY <1>1, <1>2, <2>1 DEF PassOn
<1>5. /\ ready' \in Seq(Servers)
      /\ ready' # <<>> => 1 < Len(ready)
      /\ ReadyMatchesQueued'
  BY <1>2, <1>3, <1>4, ListsTake DEF ReadyMatchesQueued
<1> HIDE DEF s
<1>6. TypeOK'
  BY <1>2, <1>4, <1>5 DEF Inv, TypeOK, WorkerState
<1>7. EntryShape'
  BY <1>2, <1>4 DEF Inv, TypeOK, EntryShape
<1>8. OneWorkerPerServer'
  <2>1. s \notin running
    BY <1>2 DEF Inv, EntryShape
  <2>2. \A v \in Workers : Busy(v) => job[v] # s
    BY <1>2, <2>1 DEF Inv, OneWorkerPerServer
  <2> QED BY <1>2, <1>4, <2>1, <2>2 DEF Inv, TypeOK, OneWorkerPerServer
<1>9. NoLostWakeup'
  BY <1>4, <1>5 DEF NoLostWakeup
<1> QED BY <1>5, <1>6, <1>7, <1>8, <1>9 DEF Inv

\* finish of the server a busy worker holds, by that worker, whether or not
\* the worker goes on.
LEMMA FinishInv ==
    ASSUME Inv, NEW w \in Workers, Busy(w), NEW retry \in BOOLEAN,
           FinishDirtyServer(job[w], retry),
           Drop(w), NEW to \in {"scan", "exited"}, pc' = [pc EXCEPT ![w] = to],
           to = "exited" => retry,
           UNCHANGED <<ctxDone, reported>>
    PROVE  Inv'
<1> DEFINE s == job[w]
<1>1. s \in Servers /\ s \in running /\ s \in present /\ s \notin queued
  BY DEF Inv, EntryShape, OneWorkerPerServer
<1>2. /\ running' = running \ {s}
      /\ IF Again(s, retry) THEN Requeue(s) ELSE Forget(s)
  BY <1>1 DEF FinishDirtyServer
<1> HIDE DEF s
<1>3. /\ TypeOK' /\ EntryShape' /\ ReadyMatchesQueued' /\ NoLostWakeup'
  <2>1. CASE Again(s, retry)
    <3>1. Requeue(s)
      BY <1>2, <2>1
    <3>2. ready' \in Seq(Servers) /\ ReadyMatchesQueued'
      BY <1>1, <3>1, ListsAppend, AppendProperties DEF Inv, TypeOK, Requeue, ReadyMatchesQueued
    <3>3. TypeOK'
      BY <1>1, <1>2, <3>1, <3>2 DEF Inv, TypeOK, Requeue, Drop, WorkerState, NoReport
    <3>4. EntryShape'
      BY <1>1, <1>2, <3>1 DEF Inv, TypeOK, EntryShape, Requeue, Drop, Busy
    <3> QED BY <3>1, <3>2, <3>3, <3>4 DEF NoLostWakeup, Requeue
  <2>2. CASE ~Again(s, retry)
    <3>1. Forget(s) /\ s \notin dirtyAgain /\ to = "scan"
      BY <1>2, <2>2 DEF Again
    <3>2. TypeOK'
      BY <1>1, <1>2, <3>1 DEF Inv, TypeOK, Forget, Drop, WorkerState, NoReport
    <3>3. EntryShape'
      BY <1>1, <1>2, <3>1 DEF Inv, TypeOK, EntryShape, Forget, Drop, Busy, NoReport
    <3>4. ReadyMatchesQueued'
      BY <3>1 DEF Inv, ReadyMatchesQueued, Forget
    <3>5. pc'[w] = "scan"
      BY <3>1 DEF Inv, TypeOK
    <3> QED BY <3>2, <3>3, <3>4, <3>5 DEF NoLostWakeup
  <2> QED BY <2>1, <2>2
<1>4. OneWorkerPerServer'
  <2>1. \A v \in Workers \ {w} : pc'[v] = pc[v] /\ job'[v] = job[v]
    BY DEF Inv, TypeOK, Drop
  <2>2. pc'[w] \notin {"work", "backoff"}
    BY DEF Inv, TypeOK
  <2>3. \A v \in Workers \ {w} : Busy(v) => job[v] # s
    BY DEF Inv, OneWorkerPerServer, s
  <2> QED BY <1>1, <1>2, <2>1, <2>2, <2>3 DEF Inv, OneWorkerPerServer, Busy, s
<1> QED BY <1>3, <1>4 DEF Inv

\* The steps of a worker that only move its program counter.
LEMMA MoveInv ==
    ASSUME Inv, NEW w \in Workers,
           Block(w) \/ Wake(w) \/ ExitIdle(w) \/ EvalFailed(w)
    PROVE  Inv'
<1> USE DEF entryVars, Busy
<1>1. CASE Block(w)
  <2>1. ready = <<>>
    <3>1. Len(ready) \in Nat /\ \A k \in 1..Len(ready) : ready[k] \in Servers
      BY LenProperties, ElementOfSeq DEF Inv, TypeOK
    <3>2. \A k \in 1..Len(ready) : k \in LiveEntries
      BY <3>1 DEF LiveEntries, Inv, ReadyMatchesQueued, Lists
    <3>3. Len(ready) = 0
      BY <1>1, <3>1, <3>2 DEF Block
    <3> QED BY <3>3, EmptySeq DEF Inv, TypeOK
  <2> QED BY <1>1, <2>1 DEF Block, Inv, TypeOK, EntryShape, ReadyMatchesQueued,
             OneWorkerPerServer, NoLostWakeup, WorkerState
<1>2. CASE Wake(w)
  BY <1>2 DEF Wake, Inv, TypeOK, EntryShape, ReadyMatchesQueued,
     OneWorkerPerServer, NoLostWakeup, WorkerState
<1>3. CASE ExitIdle(w)
  BY <1>3 DEF ExitIdle, Inv, TypeOK, EntryShape, ReadyMatchesQueued,
     OneWorkerPerServer, NoLostWakeup, WorkerState
<1>4. CASE EvalFailed(w)
  BY <1>4 DEF EvalFailed, Inv, TypeOK, EntryShape, ReadyMatchesQueued,
     OneWorkerPerServer, NoLostWakeup, WorkerState
<1> QED BY <1>1, <1>2, <1>3, <1>4

\* Every step of the queue and its workers preserves the invariant.
LEMMA InvNext == Inv /\ [Next]_vars => Inv'
<1> SUFFICES ASSUME Inv, [Next]_vars PROVE Inv'
  OBVIOUS
<1>1. ASSUME NEW s \in Servers, MarkServerDirty(s) \/ MarkServerMetrics(s)
      PROVE  Inv'
  BY <1>1, MarkInv
<1>2. ASSUME NEW w \in Workers, WorkerStep(w) PROVE Inv'
  <2>1. CASE Take(w)
    BY <2>1, TakeInv
  <2>2. CASE Block(w) \/ Wake(w) \/ ExitIdle(w) \/ EvalFailed(w)
    BY <2>2, MoveInv
  <2>3. CASE EvalDone(w)
    BY <2>3, FinishInv DEF EvalDone, Busy
  <2>4. CASE RetryAfterDelay(w)
    BY <2>4, FinishInv DEF RetryAfterDelay, Busy
  <2> QED BY <1>2, <2>1, <2>2, <2>3, <2>4 DEF WorkerStep
<1>3. CASE Cancel
  BY <1>3 DEF Cancel, entryVars, workerVars, Inv, TypeOK, EntryShape, ReadyMatchesQueued,
     OneWorkerPerServer, NoLostWakeup, Busy
<1>4. CASE UNCHANGED vars
  BY <1>4 DEF vars, Inv, TypeOK, EntryShape, ReadyMatchesQueued,
     OneWorkerPerServer, NoLostWakeup, Busy
<1> QED BY <1>1, <1>2, <1>3, <1>4 DEF Next

-----------------------------------------------------------------------------
\* Type correctness of the queue and of its workers.
THEOREM TypeCorrect == Spec => []TypeOK
<1>1. Inv => TypeOK
  BY DEF Inv
<1> QED BY <1>1, InvInit, InvNext, PTL DEF Spec

\* However many servers and workers there are: the slice lists exactly the
\* queued servers, a server is held by at most one worker, and no ready server
\* is left to sleeping workers (mark, next, finish and the capacity-one channel).
THEOREM QueueSafety == Spec => [](ReadyMatchesQueued /\ OneWorkerPerServer /\ NoLostWakeup)
<1>1. Inv => ReadyMatchesQueued /\ OneWorkerPerServer /\ NoLostWakeup
  BY DEF Inv
<1> QED BY <1>1, InvInit, InvNext, PTL DEF Spec

\* next never hands out a report older than the last one marked.
THEOREM LatestSnapshot == Spec => LatestSnapshotHandedOut
<1>1. ASSUME Inv, [Next]_vars,
             NEW w \in Workers, pc[w] = "scan", pc'[w] = "work"
      PROVE  given'[w] \in {NoReport, reported[job'[w]]}
  <2>1. Take(w)
    <3> USE <1>1 DEF Inv, TypeOK
    <3>1. ~UNCHANGED pc
      OBVIOUS
    <3>2. ~UNCHANGED vars /\ ~Cancel
      BY <3>1 DEF vars, Cancel, workerVars
    <3>3. \A s \in Servers : ~MarkServerDirty(s) /\ ~MarkServerMetrics(s)
      BY <3>1 DEF MarkServerDirty, MarkServerMetrics, workerVars
    <3>4. PICK v \in Workers : WorkerStep(v)
      BY <3>2, <3>3 DEF Next
    <3>5. \A u \in Workers : Block(u) \/ Wake(u) \/ ExitIdle(u) \/ EvalDone(u)
                               \/ EvalFailed(u) \/ RetryAfterDelay(u)
                               => pc'[w] # "work" \/ pc[w] # "scan"
      BY DEF Block, Wake, ExitIdle, EvalDone, EvalFailed, RetryAfterDelay
    <3>6. Take(v) /\ v = w
      BY <3>4, <3>5 DEF WorkerStep, Take
    <3> QED BY <3>6
  <2>2. PICK i \in LiveEntries : Take(w)!2!(i)
    BY <2>1 DEF Take
  <2>3. ready[i] \in Servers
    BY <1>1, <2>2, TakesFirst
  <2>4. given'[w] = snapshot[ready[i]] /\ job'[w] = ready[i]
    BY <1>1, <2>2 DEF Inv, TypeOK
  <2> QED BY <1>1, <2>3, <2>4 DEF Inv, EntryShape
<1>2. Inv /\ [Next]_vars =>
        [\A w \in Workers : pc[w] = "scan" /\ pc'[w] = "work"
            => given'[w] \in {NoReport, reported[job'[w]]}]_vars
  BY <1>1
<1> QED BY <1>2, InvInit, InvNext, PTL DEF Spec, LatestSnapshotHandedOut

\* Every step of the queue is a step of DirtyWork or changes nothing it sees.
LEMMA StepSimulation == Inv /\ [Next]_vars => [Abstract!WorkNext]_(Abstract!workVars)
<1> SUFFICES ASSUME Inv, [Next]_vars PROVE [Abstract!WorkNext]_(Abstract!workVars)
  OBVIOUS
<1> USE DEF Abstract!WorkNext, Abstract!workVars, Abstract!Mark, Abstract!Start, Abstract!Finish
<1>1. ASSUME NEW s \in Servers, MarkServerDirty(s) \/ MarkServerMetrics(s)
      PROVE  [Abstract!WorkNext]_(Abstract!workVars)
  <2>1. Enter(s)
    BY <1>1 DEF MarkServerDirty, MarkServerMetrics
  <2>2. CASE EnterNew(s)
    BY <2>2 DEF EnterNew
  <2>3. CASE EnterKnown(s)
    <3>1. CASE s \in running
      BY <2>3, <3>1 DEF EnterKnown
    <3>2. CASE s \notin running
      BY <2>3, <3>2 DEF EnterKnown
    <3> QED BY <3>1, <3>2
  <2> QED BY <2>1, <2>2, <2>3 DEF Enter
<1>2. ASSUME NEW w \in Workers, Take(w)
      PROVE  [Abstract!WorkNext]_(Abstract!workVars)
  <2>1. PICK i \in LiveEntries : Take(w)!2!(i)
    BY <1>2 DEF Take
  <2>2. ready[i] \in Servers /\ ready[i] \in queued
    BY <2>1, TakesFirst
  <2> QED BY <2>1, <2>2 DEF Inv, EntryShape
<1>3. ASSUME NEW w \in Workers, Busy(w), NEW retry \in BOOLEAN,
             FinishDirtyServer(job[w], retry)
      PROVE  [Abstract!WorkNext]_(Abstract!workVars)
  <2>1. job[w] \in Servers /\ job[w] \in running /\ job[w] \in present
    BY <1>3 DEF Inv, EntryShape, OneWorkerPerServer
  <2>2. CASE Again(job[w], retry)
    <3>1. Requeue(job[w]) /\ running' = running \ {job[w]}
      BY <1>3, <2>1, <2>2 DEF FinishDirtyServer
    <3>2. CASE retry
      BY <2>1, <3>1, <3>2 DEF Requeue
    <3>3. CASE ~retry
      <4>1. job[w] \in dirtyAgain
        BY <2>2, <3>3 DEF Again
      <4> QED BY <2>1, <3>1, <4>1 DEF Requeue
    <3> QED BY <3>2, <3>3
  <2>3. CASE ~Again(job[w], retry)
    <3>1. Forget(job[w]) /\ running' = running \ {job[w]}
      BY <1>3, <2>1, <2>3 DEF FinishDirtyServer
    <3>2. ~retry /\ dirtyAgain \ {job[w]} = dirtyAgain
      BY <2>3 DEF Again
    <3> QED BY <2>1, <3>1, <3>2 DEF Forget
  <2> QED BY <2>2, <2>3
<1>4. ASSUME NEW w \in Workers, WorkerStep(w)
      PROVE  [Abstract!WorkNext]_(Abstract!workVars)
  <2>1. CASE Block(w) \/ Wake(w) \/ ExitIdle(w) \/ EvalFailed(w)
    BY <2>1 DEF Block, Wake, ExitIdle, EvalFailed, entryVars
  <2>2. CASE EvalDone(w)
    BY <2>2, <1>3 DEF EvalDone, Busy
  <2>3. CASE RetryAfterDelay(w)
    BY <2>3, <1>3 DEF RetryAfterDelay, Busy
  <2> QED BY <1>2, <1>4, <2>1, <2>2, <2>3 DEF WorkerStep
<1>5. CASE Cancel
  BY <1>5 DEF Cancel, entryVars
<1>6. CASE UNCHANGED vars
  BY <1>6 DEF vars
<1> QED BY <1>1, <1>4, <1>5, <1>6 DEF Next

\* The queue implements its abstract promise, fairness aside: a mark is owed
\* until an evaluation starts after it, and evaluations of one server never
\* overlap.
THEOREM RefinesDirtyWork == Spec => ImplementsDirtyWork
<1>1. Init => Abstract!WorkInit
  BY DEF Init, Abstract!WorkInit
<1> QED BY <1>1, StepSimulation, InvInit, InvNext, PTL
        DEF Spec, ImplementsDirtyWork, Abstract!WorkSpec
=============================================================================
