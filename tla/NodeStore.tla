------------------------------ MODULE NodeStore ------------------------------
(***************************************************************************)
(* The node store's memory (internal/store/node): the index of secrets     *)
(* that authenticates nodes, the requested agent updates, the snapshots of *)
(* virtual machines, and the locks under which administrators' changes and *)
(* node reports follow each other.                                         *)
(*                                                                         *)
(* PostgreSQL is external: a commit succeeds, fails, or reports an error   *)
(* for what it has done.  Of a node's metadata only id and secret are kept.*)
(* Projection and frontend invalidation are in FrontCache; here they may   *)
(* fail and end the change.                                                *)
(***************************************************************************)
EXTENDS Integers, FiniteSets

CONSTANTS
    Nodes, Secrets, Workers,
    Initially,      \* the secrets of the nodes there are at first
    Attempts,       \* metricsIdentityAttempts (3)
    None

ASSUME WorkersAssumption == IsFiniteSet(Workers)
ASSUME EntryNamesAssumption == None \notin Nodes \cup Secrets
ASSUME InitiallyAssumption ==
    /\ DOMAIN Initially \subseteq Nodes /\ Initially \in [DOMAIN Initially -> Secrets]
    /\ \A m, n \in DOMAIN Initially : Initially[m] = Initially[n] => m = n

VARIABLES
    row,            \* the servers table: each node's state and secret
    byID, bySecret, \* authByID and authBySecret
    updates, virt,  \* the requested update and the snapshot of each node
    left,           \* nodes whose snapshot and update were left when they were deleted
    lock, mutex,    \* nodeMutations.locks, and the lock objects: references and holder
    op              \* per worker, the call in progress
storeVars == <<row, byID, bySecret, updates, virt, left, lock, mutex, op>>

IdleOp == [kind |-> "idle", pc |-> "idle"]
NoEntry == [id |-> None, secret |-> None]
Entry(n, x) == [id |-> n, secret |-> x]
Objects == 1 .. Cardinality(Workers)

StoreInit ==
    /\ row = [n \in Nodes |-> IF n \in DOMAIN Initially THEN [state |-> "live", secret |-> Initially[n]]
                              ELSE [state |-> "absent", secret |-> None]]
    /\ byID = [n \in Nodes |-> IF n \in DOMAIN Initially THEN Entry(n, Initially[n]) ELSE NoEntry]
    /\ bySecret = [x \in Secrets |-> IF \E n \in DOMAIN Initially : Initially[n] = x
                                     THEN Entry(CHOOSE n \in DOMAIN Initially : Initially[n] = x, x) ELSE NoEntry]
    /\ updates = [n \in Nodes |-> FALSE] /\ virt = [n \in Nodes |-> FALSE] /\ left = {}
    /\ lock = [n \in Nodes |-> 0] /\ mutex = [i \in Objects |-> [refs |-> 0, held |-> FALSE]]
    /\ op = [w \in Workers |-> IdleOp]

data == <<row, byID, bySecret, updates, virt, left>>
index == <<byID, bySecret>>
locks == <<lock, mutex>>

-----------------------------------------------------------------------------
(* The index. *)

\* syncServerCache of the nodes S: their entries, in place of the ones under former secrets.
SyncServerCache(S, old) ==
    LET owner(x) == {n \in S : row[n].secret = x} IN
    /\ byID' = [n \in Nodes |-> IF n \in S THEN Entry(n, row[n].secret) ELSE byID[n]]
    /\ bySecret' = [x \in Secrets |-> IF owner(x) # {} THEN Entry(CHOOSE n \in owner(x) : TRUE, x)
                                      ELSE IF x = old \/ \E n \in S : byID[n].secret = x THEN NoEntry ELSE bySecret[x]]
\* SyncServerCache of a report: the entry it was authenticated by.
SyncReported(n, x) ==
    /\ byID' = [byID EXCEPT ![n] = Entry(n, x)]
    /\ bySecret' = [y \in Secrets |-> IF y = x THEN Entry(n, x)
                                      ELSE IF y = byID[n].secret THEN NoEntry ELSE bySecret[y]]
\* deleteServerMeta: by the former secret, or by the one the index has.
DeleteServerMeta(n, old) ==
    /\ byID' = [byID EXCEPT ![n] = NoEntry]
    /\ bySecret' = [x \in Secrets |-> IF x = (IF old = None THEN byID[n].secret ELSE old) THEN NoEntry ELSE bySecret[x]]

-----------------------------------------------------------------------------
(* Calls and their locks. *)

Global == {"create", "order"}
Projected == {"patch", "static", "delete"}
Reports == {"metrics", "virt"}
At(w, pc) == op[w].pc = pc
Goes(w, pc) == op' = [op EXCEPT ![w].pc = pc]
Inside(w) == op[w].pc \notin {"idle", "start"}
StructuralFree(kind) ==
    \A v \in Workers : Inside(v) => /\ kind \in Global => op[v].kind \notin Global \cup Projected
                                    /\ kind \in Projected => op[v].kind \notin Global

\* An administrator's change, with a new secret or without.
Change(w) ==
    /\ At(w, "idle")
    /\ \E kind \in Global \cup {"patch", "delete"}, n \in Nodes, x \in Secrets \cup {None} :
         /\ kind = "create" => x # None
         /\ kind \in {"order", "delete"} => x = None
         /\ op' = [op EXCEPT ![w] = [kind |-> kind, pc |-> "start", node |-> n, secret |-> x, old |-> None, lock |-> 0,
                                     next |-> None, attempt |-> 1]]
    /\ UNCHANGED <<data, locks>>

\* A report of a node: the handlers authenticate before they take the lock.
Report(w) ==
    /\ At(w, "idle")
    /\ \E kind \in Reports \cup {"static"}, x \in Secrets :
         /\ bySecret[x] # NoEntry
         /\ op' = [op EXCEPT ![w] = [kind |-> kind, pc |-> "start", node |-> bySecret[x].id, secret |-> x, old |-> None,
                                     lock |-> 0, next |-> None, attempt |-> 1]]
    /\ UNCHANGED <<data, locks>>

\* The structural lock, and retain: the node's lock is made for its first user.
Retain(w) ==
    /\ At(w, "start") /\ StructuralFree(op[w].kind)
    /\ IF op[w].kind \in Global THEN Goes(w, "body") /\ UNCHANGED locks
       ELSE LET n == op[w].node
                fresh == CHOOSE i \in Objects : mutex[i].refs = 0
                i == IF lock[n] = 0 THEN fresh ELSE lock[n]
            IN  /\ lock' = [lock EXCEPT ![n] = i]
                /\ mutex' = [mutex EXCEPT ![i].refs = @ + 1]
                /\ op' = [op EXCEPT ![w].pc = "acquire", ![w].lock = i]
    /\ UNCHANGED data
Acquire(w) ==
    /\ At(w, "acquire") /\ ~mutex[op[w].lock].held
    /\ mutex' = [mutex EXCEPT ![op[w].lock].held = TRUE]
    /\ Goes(w, "body") /\ UNCHANGED <<data, lock>>

\* Fault: whoever lets go of the lock removes it from the map.
ReleaseForgets(w) ==
    /\ mutex' = [mutex EXCEPT ![op[w].lock].refs = @ - 1]
    /\ lock' = [lock EXCEPT ![op[w].node] = 0]
\* release: the last user removes the lock from the map.
Release(w) ==
    /\ mutex' = [mutex EXCEPT ![op[w].lock].refs = @ - 1]
    /\ lock' = [lock EXCEPT ![op[w].node] = IF mutex[op[w].lock].refs = 1 THEN 0 ELSE @]

\* The context ends while the call waits for the lock.
GivesUp(w) == At(w, "acquire") /\ Release(w) /\ op' = [op EXCEPT ![w] = IdleOp] /\ UNCHANGED data
Leave(w) ==
    /\ At(w, "leave")
    /\ IF op[w].kind \in Global THEN UNCHANGED mutex ELSE mutex' = [mutex EXCEPT ![op[w].lock].held = FALSE]
    /\ Goes(w, "release") /\ UNCHANGED <<data, lock>>
Returns(w) ==
    /\ At(w, "release")
    /\ IF op[w].kind \in Global THEN UNCHANGED locks ELSE Release(w)
    /\ op' = [op EXCEPT ![w] = IF op[w].next = None THEN IdleOp
                               ELSE [op[w] EXCEPT !.pc = "start", !.node = op[w].next, !.next = None, !.attempt = @ + 1]]
    /\ UNCHANGED data

-----------------------------------------------------------------------------
(* Changes. *)

Used(x) == \E n \in Nodes : row[n].secret = x
\* What a change finds: rows that are not deleted, secrets that no other row has or had last.
Accepted(w) ==
    LET n == op[w].node IN
    CASE op[w].kind = "create" -> row[n].state = "absent" /\ ~Used(op[w].secret)
      [] op[w].kind = "patch" -> row[n].state = "live" /\ (op[w].secret \in {None, row[n].secret} \/ ~Used(op[w].secret))
      [] op[w].kind = "static" -> row[n].state = "live" /\ row[n].secret = op[w].secret
      [] op[w].kind = "delete" -> row[n].state = "live"
      [] OTHER -> TRUE
Written(w) ==
    LET n == op[w].node IN
    CASE op[w].kind = "delete" -> [row EXCEPT ![n].state = "deleted"]
      [] op[w].kind \in {"create", "patch"} /\ op[w].secret # None -> [row EXCEPT ![n] = [state |-> "live", secret |-> op[w].secret]]
      [] OTHER -> row
Sensitive(w) == op[w].kind = "delete" \/ (op[w].kind = "patch" /\ op[w].secret # None)

\* The transaction: refused or failed, committed, or with an unknown outcome.
Commit(w) ==
    LET ends(pc) == op' = [op EXCEPT ![w].pc = pc, ![w].old = row[op[w].node].secret] IN
    /\ At(w, "body") /\ op[w].kind \notin Reports
    /\ \/ ends("leave") /\ UNCHANGED row
       \/ Accepted(w) /\ row' = Written(w) /\ ends("sync")
       \/ Accepted(w) /\ row' \in {row, Written(w)} /\ ends(IF Sensitive(w) THEN "revoke" ELSE "reconcile")
    /\ UNCHANGED <<index, updates, virt, left, locks>>

Live == {n \in Nodes : row[n].state = "live"}
Subject(w) == IF op[w].kind = "order" THEN Live ELSE {op[w].node}

\* After the commit the index follows the rows; the order of display reads every live one.
Sync(w) ==
    /\ At(w, "sync")
    /\ IF op[w].kind = "delete" THEN DeleteServerMeta(op[w].node, op[w].old) /\ Goes(w, "purge")
       ELSE SyncServerCache(Subject(w), IF op[w].kind \in Global THEN None ELSE op[w].old) /\ Goes(w, "leave")
    /\ UNCHANGED <<row, updates, virt, left, locks>>

\* An unknown outcome revokes the secret first.
Revoke(w) ==
    /\ At(w, "revoke")
    /\ DeleteServerMeta(op[w].node, op[w].old)
    /\ Goes(w, "reconcile") /\ UNCHANGED <<row, updates, virt, left, locks>>
\* reconcileCommit: the rows as they are read back, or nothing.
Reconcile(w) ==
    LET n == op[w].node IN
    /\ At(w, "reconcile")
    /\ \/ /\ UNCHANGED index /\ Goes(w, "leave")
          /\ left' = IF row[n].state = "deleted" THEN left \cup {n} ELSE left
       \/ /\ IF Subject(w) \subseteq Live THEN SyncServerCache(Subject(w), None) /\ Goes(w, "leave")
             ELSE DeleteServerMeta(n, row[n].secret) /\ Goes(w, "purge")
          /\ UNCHANGED left
    /\ UNCHANGED <<row, updates, virt, locks>>
\* removeServerState, the rest of it; Redis may keep the snapshot until it expires.
Purge(w) ==
    LET n == op[w].node IN
    /\ At(w, "purge")
    /\ updates' = [updates EXCEPT ![n] = FALSE]
    /\ \/ virt' = [virt EXCEPT ![n] = FALSE] /\ UNCHANGED left
       \/ UNCHANGED virt /\ left' = left \cup {n}
    /\ Goes(w, "leave") /\ UNCHANGED <<row, index, locks>>

-----------------------------------------------------------------------------
(* Reports. *)

\* Under the lock the secret is looked up again; metrics follow it to another node.
Reauthenticate(w) ==
    LET e == bySecret[op[w].secret] IN
    /\ At(w, "body") /\ op[w].kind \in Reports
    /\ IF e # NoEntry /\ e.id = op[w].node THEN Goes(w, "save")
       ELSE IF e # NoEntry /\ op[w].kind = "metrics" /\ op[w].attempt < Attempts
       THEN op' = [op EXCEPT ![w].pc = "leave", ![w].next = e.id]
       ELSE Goes(w, "leave")
    /\ UNCHANGED <<data, locks>>
\* persistMetrics: a new address of the node is saved and goes into the index; or it fails.
PersistMetrics(w) ==
    /\ At(w, "save") /\ op[w].kind = "metrics"
    /\ SyncReported(op[w].node, op[w].secret) \/ UNCHANGED index
    /\ Goes(w, "leave") /\ UNCHANGED <<row, updates, virt, left, locks>>
SaveVirt(w) ==
    /\ At(w, "save") /\ op[w].kind = "virt"
    /\ virt' = [virt EXCEPT ![op[w].node] = TRUE] \/ UNCHANGED virt
    /\ Goes(w, "leave") /\ UNCHANGED <<row, index, updates, left, locks>>

\* ResolveAgentUpdate, after a report: a request the node has caught up with is forgotten.
ResolveAgentUpdate(n) == updates[n] /\ updates' = [updates EXCEPT ![n] = FALSE] /\ UNCHANGED <<row, index, virt, left, locks, op>>
\* Fault: whether the node is still there is not looked up.
RequestAgentUpdateOf(n) ==
    /\ ~updates[n] /\ row[n].state # "absent"
    /\ updates' = [updates EXCEPT ![n] = TRUE] /\ UNCHANGED <<row, index, virt, left, locks, op>>
\* RequestAgentUpdate, for a node the index has.
RequestAgentUpdate(n) ==
    /\ ~updates[n] /\ byID[n] # NoEntry
    /\ updates' = [updates EXCEPT ![n] = TRUE] /\ UNCHANGED <<row, index, virt, left, locks, op>>
\* Ten minutes after its receipt a snapshot is gone.
SnapshotExpires(n) == virt[n] /\ virt' = [virt EXCEPT ![n] = FALSE] /\ UNCHANGED <<row, index, updates, left, locks, op>>

\* RebuildServerCache, when Dash starts again: memory is lost, Redis keeps its snapshots.
Restart ==
    /\ \E w \in Workers : ~At(w, "idle")
    /\ byID' = [n \in Nodes |-> IF n \in Live THEN Entry(n, row[n].secret) ELSE NoEntry]
    /\ bySecret' = [x \in Secrets |-> LET owner == {n \in Live : row[n].secret = x} IN
                                      IF owner = {} THEN NoEntry ELSE Entry(CHOOSE n \in owner : TRUE, x)]
    /\ updates' = [n \in Nodes |-> FALSE]
    /\ left' = left \cup {n \in Nodes : row[n].state = "deleted" /\ virt[n]}
    /\ lock' = [n \in Nodes |-> 0] /\ mutex' = [i \in Objects |-> [refs |-> 0, held |-> FALSE]]
    /\ op' = [w \in Workers |-> IdleOp]
    /\ UNCHANGED <<row, virt>>

WorkerNext(w) ==
    \/ Change(w) \/ Report(w) \/ Retain(w) \/ Acquire(w) \/ GivesUp(w) \/ Leave(w) \/ Returns(w)
    \/ Commit(w) \/ Sync(w) \/ Revoke(w) \/ Reconcile(w) \/ Purge(w)
    \/ Reauthenticate(w) \/ PersistMetrics(w) \/ SaveVirt(w)
StoreNext ==
    \/ \E w \in Workers : WorkerNext(w)
    \/ \E n \in Nodes : ResolveAgentUpdate(n) \/ RequestAgentUpdate(n) \/ SnapshotExpires(n)
    \/ Restart
StoreSpec == StoreInit /\ [][StoreNext]_storeVars

-----------------------------------------------------------------------------
(* Properties. *)

\* A secret authenticates a node only while it is the secret of that node's row, or until the
\* change that is just committed has reached the index; whatever calls gave up, failed or
\* overlapped (concurrency.go, retain and release; server_meta_cache.go, syncServerCache).
RevokedSecretsRefused ==
    \A x \in Secrets :
      bySecret[x] # NoEntry =>
        \/ row[bySecret[x].id] = [state |-> "live", secret |-> x]
        \/ \E w \in Workers : op[w].pc \in {"sync", "revoke"} /\ op[w].node = bySecret[x].id

\* A deleted node leaves no entry, no requested update and no snapshot, however requests and
\* reports overlap with the deletion; what an unreachable PostgreSQL or Redis left is not
\* reached through the index (server_meta_cache.go, removeServerState).
DeletedLeavesNothing ==
    \A n \in Nodes :
      row[n].state = "deleted" /\ ~(\E w \in Workers : op[w].pc \in {"sync", "revoke", "reconcile", "purge"} /\ op[w].node = n) =>
        byID[n] = NoEntry /\ (n \notin left => ~updates[n] /\ ~virt[n])

-----------------------------------------------------------------------------
(* The inductive invariant. *)

Calls == [kind : Global \cup Projected \cup Reports,
          pc : {"start", "acquire", "body", "sync", "revoke", "reconcile", "purge", "save", "leave", "release"},
          node : Nodes, secret : Secrets \cup {None}, old : Secrets \cup {None}, lock : Objects \cup {0},
          next : Nodes \cup {None}, attempt : Nat]

StoreTypeOK ==
    /\ row \in [Nodes -> [state : {"absent", "live", "deleted"}, secret : Secrets \cup {None}]]
    /\ byID \in [Nodes -> {NoEntry} \cup [id : Nodes, secret : Secrets]]
    /\ bySecret \in [Secrets -> {NoEntry} \cup [id : Nodes, secret : Secrets]]
    /\ updates \in [Nodes -> BOOLEAN] /\ virt \in [Nodes -> BOOLEAN] /\ left \subseteq Nodes
    /\ lock \in [Nodes -> Objects \cup {0}]
    /\ mutex \in [Objects -> [refs : Nat, held : BOOLEAN]]
    /\ op \in [Workers -> {IdleOp} \cup Calls]

\* Who has a reference to a lock object, and who holds the lock.
Refers(w) == op[w].pc \notin {"idle", "start"} /\ op[w].kind \notin Global
Holds(w) == Refers(w) /\ op[w].pc \notin {"acquire", "release"}
Users(i) == {w \in Workers : Refers(w) /\ op[w].lock = i}

\* References are counted, a node in use has one lock, and one call at a time holds it.
LocksCount == \A i \in Objects : mutex[i].refs = Cardinality(Users(i))
LocksAgree ==
    /\ \A w \in Workers : Refers(w) => op[w].lock \in Objects /\ lock[op[w].node] = op[w].lock
    /\ \A n \in Nodes : lock[n] # 0 => mutex[lock[n]].refs > 0
    /\ \A m, n \in Nodes : lock[m] = lock[n] /\ lock[m] # 0 => m = n
LocksExclude ==
    /\ \A w \in Workers : Holds(w) => mutex[op[w].lock].held
    /\ \A v, w \in Workers : Holds(v) /\ Holds(w) /\ op[v].node = op[w].node => v = w
\* A change of all nodes excludes the changes of any.
StructuralExcludes ==
    \A v, w \in Workers : v # w /\ Inside(v) /\ Inside(w) /\ op[v].kind \in Global => op[w].kind \notin Global \cup Projected

\* Secrets of rows are unique, and each step of a call knows of the node's row what was found or written.
RowsAreDistinct ==
    /\ \A n \in Nodes : row[n].secret = None <=> row[n].state = "absent"
    /\ \A m, n \in Nodes : row[m].secret = row[n].secret /\ row[m].secret # None => m = n
KnowsRow(w) ==
    LET n == op[w].node IN
    /\ op[w].pc = "acquire" => op[w].kind \notin Global
    /\ op[w].kind \in {"create", "metrics", "virt"} => op[w].secret # None
    /\ op[w].pc \in {"sync", "revoke", "reconcile", "purge"} => op[w].kind \notin Reports
    /\ op[w].pc = "sync" /\ op[w].kind \in {"create", "patch", "static"} => row[n].state = "live"
    /\ op[w].pc = "sync" /\ op[w].kind = "delete" => row[n].state = "deleted"
    /\ op[w].pc = "revoke" => op[w].kind \in {"patch", "delete"} /\ (op[w].kind = "patch" => row[n].state = "live")
    /\ op[w].pc \in {"sync", "revoke"} /\ op[w].kind \in {"patch", "delete"} => op[w].old # None
    /\ op[w].pc = "purge" => row[n].state # "live"
    /\ op[w].pc = "save" => op[w].kind \in Reports /\ row[n] = [state |-> "live", secret |-> op[w].secret]
CallsKnowRows == \A w \in Workers : KnowsRow(w)

\* An entry is that of its row, or of the secret before a change that will remove it.
Removes(w, n) == op[w].kind \in {"patch", "delete"} /\ op[w].pc \in {"sync", "revoke"} /\ op[w].node = n
EntriesFollowRows ==
    /\ \A x \in Secrets : bySecret[x] # NoEntry =>
         /\ bySecret[x].secret = x
         /\ \/ row[bySecret[x].id] = [state |-> "live", secret |-> x]
            \/ \E w \in Workers : Removes(w, bySecret[x].id) /\ op[w].old = x
    /\ \A n \in Nodes : byID[n] # NoEntry /\ row[n].state = "deleted" => \E w \in Workers : Removes(w, n)

\* What a deletion has not purged yet, or had to leave.
Deletes(w, n) == op[w].kind = "delete" /\ op[w].pc \in {"sync", "revoke", "reconcile", "purge"} /\ op[w].node = n
DeletedIsPurged ==
    \A n \in Nodes : row[n].state = "deleted" /\ n \notin left /\ (updates[n] \/ virt[n]) => \E w \in Workers : Deletes(w, n)

StoreInv ==
    /\ StoreTypeOK /\ LocksCount /\ LocksAgree /\ LocksExclude /\ StructuralExcludes
    /\ RowsAreDistinct /\ CallsKnowRows /\ EntriesFollowRows /\ DeletedIsPurged
=============================================================================
