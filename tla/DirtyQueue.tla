----------------------------- MODULE DirtyQueue -----------------------------
(***************************************************************************)
(* The in-memory queue of servers whose alert state must be re-evaluated   *)
(* (internal/store/alert/dirty_queue.go) and the pool of workers that      *)
(* drains it (runEvalWorker in internal/alert/service_eval.go).            *)
(*                                                                         *)
(* `ready` is the part of the Go slice from `head` on, so compaction has   *)
(* no counterpart here. A dirtyServerState is split over the sets present  *)
(* (has an entry in q.states), queued, running and dirtyAgain. A snapshot  *)
(* is the number of the metrics report it carries, 0 for none.             *)
(***************************************************************************)
EXTENDS Naturals, Sequences

CONSTANTS Servers,    \* ids the callers mark; the code ignores ids <= 0
          Workers,    \* evaluation workers
          NoServer,   \* what an idle worker holds
          MaxReport   \* bound on the reports of one server

ASSUME BoundAssumption == MaxReport \in Nat
ASSUME NoServerAssumption == NoServer \notin Servers

VARIABLES present, queued, running, dirtyAgain, snapshot, \* q.states
          ready,     \* FIFO of server ids
          wakeup,    \* the channel of capacity one holds a token
          ctxDone,   \* the service context is cancelled
          pc,        \* where each worker is
          job,       \* the server a busy worker holds
          given,     \* the snapshot it was handed
          reported   \* the latest report of each server that was marked

entryVars  == <<present, queued, running, dirtyAgain, snapshot>>
workerVars == <<pc, job, given>>
vars == <<present, queued, running, dirtyAgain, snapshot, ready, wakeup,
          ctxDone, pc, job, given, reported>>

NoReport == 0

\* "scan": about to lock the queue in next; "wait": in its select;
\* "work": in processServer; "backoff": in waitEvalRetry.
WorkerState == {"scan", "wait", "work", "backoff", "exited"}

TypeOK ==
    /\ present \subseteq Servers
    /\ queued \subseteq Servers
    /\ running \subseteq Servers
    /\ dirtyAgain \subseteq Servers
    /\ snapshot \in [Servers -> Nat]
    /\ ready \in Seq(Servers)
    /\ wakeup \in BOOLEAN
    /\ ctxDone \in BOOLEAN
    /\ pc \in [Workers -> WorkerState]
    /\ job \in [Workers -> Servers \cup {NoServer}]
    /\ given \in [Workers -> Nat]
    /\ reported \in [Servers -> Nat]

Init ==
    /\ present = {} /\ queued = {} /\ running = {} /\ dirtyAgain = {}
    /\ snapshot = [s \in Servers |-> NoReport]
    /\ ready = <<>>
    /\ wakeup = FALSE
    /\ ctxDone = FALSE
    /\ pc = [w \in Workers |-> "scan"]
    /\ job = [w \in Workers |-> NoServer]
    /\ given = [w \in Workers |-> NoReport]
    /\ reported = [s \in Servers |-> NoReport]

-----------------------------------------------------------------------------
\* Fault: mark queues a new server without signalling a sleeping worker.
EnterNewSilent(s) ==
    /\ s \notin present
    /\ present' = present \cup {s}
    /\ queued' = queued \cup {s}
    /\ ready' = Append(ready, s)
    /\ UNCHANGED <<running, dirtyAgain, wakeup>>

\* The tail of mark, after the snapshot has been stored. A server without an
\* entry is queued and signalled ...
EnterNew(s) ==
    /\ s \notin present
    /\ present' = present \cup {s}
    /\ queued' = queued \cup {s}
    /\ ready' = Append(ready, s)
    /\ wakeup' = TRUE
    /\ UNCHANGED <<running, dirtyAgain>>

\* ... a running one is flagged, a queued one is already where it has to be.
EnterKnown(s) ==
    /\ s \in present
    /\ dirtyAgain' = IF s \in running THEN dirtyAgain \cup {s} ELSE dirtyAgain
    /\ UNCHANGED <<present, queued, running, ready, wakeup>>

Enter(s) == EnterNew(s) \/ EnterKnown(s)

\* MarkServerDirty: no snapshot, so one stored earlier stays.
MarkServerDirty(s) ==
    /\ Enter(s)
    /\ UNCHANGED <<snapshot, reported, ctxDone, workerVars>>

\* Fault: mark keeps the snapshot of an entry that exists.
StoreFirstSnapshot(s) ==
    snapshot' = [snapshot EXCEPT ![s] = IF s \in present THEN @ ELSE reported[s] + 1]

\* mark overwrites the snapshot of an entry, whatever state it is in.
StoreSnapshot(s) == snapshot' = [snapshot EXCEPT ![s] = reported[s] + 1]

\* MarkServerMetrics: a metrics report of the server.
MarkServerMetrics(s) ==
    /\ reported[s] < MaxReport
    /\ reported' = [reported EXCEPT ![s] = @ + 1]
    /\ StoreSnapshot(s)
    /\ Enter(s)
    /\ UNCHANGED <<ctxDone, workerVars>>

-----------------------------------------------------------------------------
\* Entries of ready that next does not skip.
LiveEntries == {i \in 1..Len(ready) : ready[i] \in queued}

\* Fault: next does not wake another worker for what it leaves behind.
PassNothingOn(i) == wakeup

\* The channel after next took entry i: signalled again if entries remain.
PassOn(i) == IF i < Len(ready) THEN TRUE ELSE wakeup

\* next finds a queued server: it takes the first one, and passes the wakeup
\* on when it leaves others behind.
Take(w) ==
    /\ pc[w] = "scan"
    /\ \E i \in LiveEntries :
        LET s == ready[i] IN
        /\ \A j \in LiveEntries : i <= j
        /\ queued' = queued \ {s}
        /\ running' = running \cup {s}
        /\ dirtyAgain' = dirtyAgain \ {s}
        /\ ready' = SubSeq(ready, i + 1, Len(ready))
        /\ wakeup' = PassOn(i)
        /\ pc' = [pc EXCEPT ![w] = "work"]
        /\ job' = [job EXCEPT ![w] = s]
        /\ given' = [given EXCEPT ![w] = snapshot[s]]
    /\ UNCHANGED <<present, snapshot, ctxDone, reported>>

\* next finds nothing: it resets the slice and blocks in the select.
Block(w) ==
    /\ pc[w] = "scan"
    /\ LiveEntries = {}
    /\ ready' = <<>>
    /\ pc' = [pc EXCEPT ![w] = "wait"]
    /\ UNCHANGED <<entryVars, wakeup, ctxDone, job, given, reported>>

\* The select of next: a token sends the worker back to the queue ...
Wake(w) ==
    /\ pc[w] = "wait"
    /\ wakeup
    /\ wakeup' = FALSE
    /\ pc' = [pc EXCEPT ![w] = "scan"]
    /\ UNCHANGED <<entryVars, ready, ctxDone, job, given, reported>>

\* ... and a cancelled context ends it; with both ready either may win.
ExitIdle(w) ==
    /\ pc[w] = "wait"
    /\ ctxDone
    /\ pc' = [pc EXCEPT ![w] = "exited"]
    /\ UNCHANGED <<entryVars, ready, wakeup, ctxDone, job, given, reported>>

-----------------------------------------------------------------------------
\* Fault: finish forgets a mark made during the evaluation.
AgainOnlyOnRetry(s, retry) == retry

\* finish: a server to retry, or marked while it ran, is queued again, any
\* other loses its entry.
Requeue(s) ==
    /\ queued' = queued \cup {s}
    /\ dirtyAgain' = dirtyAgain \ {s}
    /\ ready' = Append(ready, s)
    /\ wakeup' = TRUE
    /\ UNCHANGED <<present, snapshot>>

Forget(s) ==
    /\ present' = present \ {s}
    /\ dirtyAgain' = dirtyAgain \ {s}
    /\ snapshot' = [snapshot EXCEPT ![s] = NoReport]
    /\ UNCHANGED <<queued, ready, wakeup>>

Again(s, retry) == retry \/ s \in dirtyAgain

FinishDirtyServer(s, retry) ==
    IF s \in present \cap running
    THEN /\ running' = running \ {s}
         /\ IF Again(s, retry) THEN Requeue(s) ELSE Forget(s)
    ELSE UNCHANGED <<entryVars, ready, wakeup>>

\* The worker's variables for this iteration of its loop go out of scope.
Drop(w) ==
    /\ job' = [job EXCEPT ![w] = NoServer]
    /\ given' = [given EXCEPT ![w] = NoReport]

\* processServer returned nil.
EvalDone(w) ==
    /\ pc[w] = "work"
    /\ FinishDirtyServer(job[w], FALSE)
    /\ pc' = [pc EXCEPT ![w] = "scan"]
    /\ Drop(w)
    /\ UNCHANGED <<ctxDone, reported>>

\* processServer returned an error: the worker waits before it releases.
EvalFailed(w) ==
    /\ pc[w] = "work"
    /\ pc' = [pc EXCEPT ![w] = "backoff"]
    /\ UNCHANGED <<entryVars, ready, wakeup, ctxDone, job, given, reported>>

\* The retry delay is over, or the context was cancelled while it ran.
RetryAfterDelay(w) ==
    /\ pc[w] = "backoff"
    /\ FinishDirtyServer(job[w], TRUE)
    /\ \/ pc' = [pc EXCEPT ![w] = "scan"]
       \/ ctxDone /\ pc' = [pc EXCEPT ![w] = "exited"]
    /\ Drop(w)
    /\ UNCHANGED <<ctxDone, reported>>

Cancel ==
    /\ ~ctxDone
    /\ ctxDone' = TRUE
    /\ UNCHANGED <<entryVars, ready, wakeup, workerVars, reported>>

WorkerStep(w) ==
    \/ Take(w) \/ Block(w) \/ Wake(w) \/ ExitIdle(w)
    \/ EvalDone(w) \/ EvalFailed(w) \/ RetryAfterDelay(w)

Next ==
    \/ \E s \in Servers : MarkServerDirty(s) \/ MarkServerMetrics(s)
    \/ \E w \in Workers : WorkerStep(w)
    \/ Cancel

Spec == Init /\ [][Next]_vars

\* Workers are goroutines: one that can move does, and an evaluation ends,
\* with an error or without. Nothing is assumed of the callers of mark, and
\* nothing makes an evaluation succeed.
FairSpec == Spec /\ \A w \in Workers : WF_vars(WorkerStep(w))

-----------------------------------------------------------------------------
(* Properties *)

\* The sequence lists exactly the members of the set, each once.
Lists(seq, set) ==
    /\ \A s \in Servers : s \in set <=> \E i \in 1..Len(seq) : seq[i] = s
    /\ \A i, j \in 1..Len(seq) : seq[i] = seq[j] => i = j

\* The slice and the flags agree (mark, next, finish): an id is in ready
\* exactly when its server is queued, and never twice, so a server is never
\* handed out twice for one mark and never forgotten.
ReadyMatchesQueued == Lists(ready, queued)

Busy(w) == pc[w] \in {"work", "backoff"}

\* processServer reads, computes and writes back a server's runtime state
\* without a lock held throughout: two workers never hold one server, and the
\* running flag of a server always belongs to a worker that will clear it.
OneWorkerPerServer ==
    /\ \A v, w \in Workers : Busy(v) /\ Busy(w) /\ job[v] = job[w] => v = w
    /\ \A s \in Servers : s \in running <=> \E w \in Workers : Busy(w) /\ job[w] = s

\* No lost wakeup (signal, next): signal drops a token when one is already
\* there, and still a ready server is never left to sleeping workers; as long
\* as workers have not exited, a token is pending or a worker is scanning.
NoLostWakeup ==
    ready # <<>> => wakeup \/ \E w \in Workers : pc[w] = "scan"

\* The flags of an entry: queued and running exclude each other, an entry has
\* one of them, and dirtyAgain is only ever set on a running entry. Together
\* with the parts above it is what makes the invariant inductive.
EntryShape ==
    /\ queued \cap running = {}
    /\ present = queued \cup running
    /\ dirtyAgain \subseteq running
    /\ \A w \in Workers : Busy(w) => job[w] \in Servers
    /\ \A s \in Servers : snapshot[s] \in {NoReport, reported[s]}

Inv ==
    /\ TypeOK
    /\ EntryShape
    /\ ReadyMatchesQueued
    /\ OneWorkerPerServer
    /\ NoLostWakeup

\* A worker that starts on a server never sees a report older than the last
\* one marked (next hands out state.snapshot, mark overwrites it even while
\* the server is queued or running). NoReport means it fetches the current one.
LatestSnapshotHandedOut ==
    [][\A w \in Workers : pc[w] = "scan" /\ pc'[w] = "work"
          => given'[w] \in {NoReport, reported[job'[w]]}]_vars

\* The queue implements DirtyWork: what it owes is what is queued or was
\* marked again while it ran.
Abstract == INSTANCE DirtyWork WITH owed <- queued \cup dirtyAgain,
                                    evaluating <- running

ImplementsDirtyWork == Abstract!WorkSpec

\* Every server marked before shutdown is eventually handed to a worker that
\* starts after the mark, even when it was marked during an evaluation and
\* when evaluations keep failing and being retried (only next clears a mark).
MarkedIsEvaluated ==
    \A s \in Servers :
        s \in queued \cup dirtyAgain ~> s \notin queued \cup dirtyAgain \/ ctxDone
=============================================================================
