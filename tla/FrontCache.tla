----------------------------- MODULE FrontCache -----------------------------
(***************************************************************************)
(* The frontend serving index kept in Redis or in process memory           *)
(* (internal/store/frontcache), the node lifecycle operations that         *)
(* invalidate it (internal/store/node), metrics ingest writing to it, and  *)
(* the generation gate between invalidation and publication                *)
(* (internal/store/frontprojection/gate.go).                               *)
(*                                                                         *)
(* Metadata is abstracted to rev[n], the number of committed changes to    *)
(* the servers row of n, and a runtime sample to its number. SMART and     *)
(* thermal values live and die with the runtime sample and are left out.   *)
(* The counters active and builds of the gate are the sets of those        *)
(* inside. A read of the memory backend, done under one lock, is the       *)
(* interleaving of the Redis commands below in which nothing intervenes.   *)
(***************************************************************************)
EXTENDS Integers, FiniteSets

CONSTANTS Nodes,       \* server ids, never reused
          NoNode,      \* the node of an operation on all of them
          Mutators,    \* concurrent admin requests and static updates
          Callers,     \* concurrent requests for the node list
          Backend,     \* "redis" or "memory"
          Requested,   \* which derived views are requested
          Kinds,       \* which lifecycle operations are issued
          Patches,     \* which cached parts a node patch can touch
          MaxRev, MaxSample, MaxVersion   \* bounds

ASSUME BackendAssumption == Backend \in {"redis", "memory"}
ASSUME KindsAssumption == Kinds \subseteq {"create", "patch", "static", "delete", "reorder"}
ASSUME PatchesAssumption == Patches \subseteq SUBSET {"meta", "guest"}
ASSUME RequestedAssumption == Requested \subseteq {"nodes", "guests"}
ASSUME NodesAssumption == IsFiniteSet(Nodes)
ASSUME BoundsAssumption == MaxRev \in Nat /\ MaxSample \in Nat /\ MaxVersion \in Nat
ASSUME NamesAssumption ==
    /\ Nodes \cap Mutators = {}
    /\ NoNode \notin Nodes
    /\ "flight" \notin Callers

\* singleflight keys of the two derived views
Views == {"nodes", "guests"}
\* The rebuild itself reads the cache back after it has published.
Readers == Callers \cup {"flight"}
projectionBuildAttempts == 3
NoCatalog == -1

VARIABLES
    live, rev, visible, row,                 \* PostgreSQL
    catalog, ids, meta, runtime,             \* node view of the cache
    guestCatalog, guestIds,                  \* guest view of the cache
    unknown,                                 \* s.unknownRuntime
    version, active, builds,                 \* the gate
    op,                                      \* lifecycle operations
    ipc,                                     \* metrics ingest, one per node
    flight,                                  \* rebuilds
    reader                                   \* requests for the node list

dbVars     == <<live, rev, visible, row>>
nodeCache  == <<catalog, ids, meta, runtime>>
guestCache == <<guestCatalog, guestIds>>
gateVars   == <<version, active, builds>>
vars == <<dbVars, nodeCache, guestCache, unknown, gateVars, op, ipc, flight, reader>>

Zero == [n \in Nodes |-> 0]

\* Local state of the goroutines: where they are and what they hold.
Ops == [pc : {"idle", "locked", "entered", "invalidated", "cleanup", "leave"},
        kind : {"create", "patch", "static", "delete", "reorder"},
        node : Nodes \cup {NoNode},
        clears : SUBSET {"meta", "guest", "catalog"}]
Flights == [pc : {"idle", "version", "rows", "servers", "publish", "write", "reread"},
            ver : Nat, tries : 0..(projectionBuildAttempts - 1),
            rows : [Nodes -> Nat], meta : [Nodes -> Nat], guest : SUBSET Nodes]
Reads == [pc : {"idle", "catalog", "ids", "runtime", "meta", "corrupt", "missed", "joined"},
          count : Int, listed : SUBSET Nodes, since : [Nodes -> Nat]]
IngestState == {"idle", "saved", "put", "gate", "invalidate", "leave",
                "leaveFailed", "forget", "failed"}

\* A goroutine that has moved on to pc.
At(g, pc) == [g EXCEPT !.pc = pc]

NoOp == [pc |-> "idle", kind |-> "patch", node |-> NoNode, clears |-> {}]
NoFlight == [pc |-> "idle", ver |-> 0, tries |-> 0, rows |-> Zero, meta |-> Zero, guest |-> {}]
NoRead == [pc |-> "idle", count |-> 0, listed |-> {}, since |-> Zero]

TypeOK ==
    /\ live \subseteq Nodes /\ visible \subseteq Nodes
    /\ rev \in [Nodes -> Nat] /\ row \in [Nodes -> Nat]
    /\ catalog \in Int /\ ids \subseteq Nodes
    /\ meta \in [Nodes -> Nat] /\ runtime \in [Nodes -> Nat]
    /\ guestCatalog \in Int /\ guestIds \subseteq Nodes
    /\ unknown \subseteq Nodes
    /\ version \in Nat /\ active \subseteq Mutators \cup Nodes /\ builds \subseteq Views
    /\ op \in [Mutators -> Ops]
    /\ ipc \in [Nodes -> IngestState]
    /\ flight \in [Views -> Flights]
    /\ reader \in [Readers -> Reads]

\* A process starts over whatever nodes PostgreSQL holds, with a cold cache.
Init ==
    /\ live \in SUBSET Nodes /\ visible = {}
    /\ rev = [n \in Nodes |-> IF n \in live THEN 1 ELSE 0]
    /\ \E S \in SUBSET live : row = [n \in Nodes |-> IF n \in S THEN 1 ELSE 0]
    /\ catalog = NoCatalog /\ ids = {} /\ meta = Zero /\ runtime = Zero
    /\ guestCatalog = NoCatalog /\ guestIds = {}
    /\ unknown = {}
    /\ version = 0 /\ active = {} /\ builds = {}
    /\ op = [m \in Mutators |-> NoOp]
    /\ ipc = [n \in Nodes |-> "idle"]
    /\ flight = [v \in Views |-> NoFlight]
    /\ reader = [r \in Readers |-> NoRead]

-----------------------------------------------------------------------------
(* The gate *)

\* Mutate up to fn: wait until nothing is being published.
EnterGate(p) ==
    /\ builds = {}
    /\ active' = active \cup {p}
    /\ UNCHANGED <<version, builds>>

\* The deferred end of Mutate, whether fn succeeded or not.
LeaveGate(p) ==
    /\ active' = active \ {p}
    /\ version' = version + 1
    /\ UNCHANGED builds

\* Fault: Publish does not compare the generation.
CurrentIfQuiet(ver) == active = {}

\* What Publish requires of the generation a rebuild started from.
Current(ver) == active = {} /\ version = ver

-----------------------------------------------------------------------------
(* Node lifecycle operations: nodes.go, server_static.go, concurrency.go *)

Global(kind) == kind \in {"create", "reorder"}

\* global takes the structural lock exclusively; projected shares it and takes
\* the node's lock, which metrics ingest of that node takes as well.
LocksFree(kind, n) ==
    \A m \in Mutators : op[m].pc # "idle" =>
        /\ ~Global(kind)
        /\ ~Global(op[m].kind)
        /\ op[m].node # n

\* Fault: a delete leaves the guest catalog to its later cleanup.
ClearsNoGuest(kind, patch) ==
    CASE kind = "patch"  -> patch
      [] kind = "static" -> {"meta"}
      [] OTHER           -> {"catalog"}

\* Fault: reordering invalidates nothing.
ClearsNoOrder(kind, patch) ==
    CASE kind = "patch"   -> patch
      [] kind = "static"  -> {"meta"}
      [] kind = "delete"  -> {"catalog", "guest"}
      [] kind = "reorder" -> {}
      [] OTHER            -> {"catalog"}

\* What the operation invalidates before it commits.
Clears(kind, patch) ==
    CASE kind = "patch"  -> patch
      [] kind = "static" -> {"meta"}
      [] kind = "delete" -> {"catalog", "guest"}
      [] OTHER           -> {"catalog"}

\* CreateNode, PatchNode, UpdateStatic, DeleteNode, UpdateDisplayOrder up to
\* the gate.
Begin(m, kind, n, patch) ==
    /\ op[m].pc = "idle"
    /\ version < MaxVersion /\ \A x \in Nodes : rev[x] < MaxRev
    /\ LocksFree(kind, n)
    /\ kind \in {"patch", "static", "delete"} => n \in Nodes /\ ipc[n] = "idle" /\ rev[n] > 0
    /\ kind = "create" => n \in Nodes /\ rev[n] = 0
    /\ kind = "reorder" => n = NoNode
    /\ op' = [op EXCEPT ![m] = [pc |-> "locked", kind |-> kind, node |-> n,
                                clears |-> Clears(kind, patch)]]
    /\ UNCHANGED <<dbVars, nodeCache, guestCache, unknown, gateVars, ipc,
                   flight, reader>>

Enter(m) ==
    /\ op[m].pc = "locked"
    /\ EnterGate(m)
    /\ op' = [op EXCEPT ![m].pc = "entered"]
    /\ UNCHANGED <<dbVars, nodeCache, guestCache, unknown, ipc, flight, reader>>

\* The Redis commands of an invalidation, those in `done` having taken effect.
Invalidate(n, done) ==
    /\ catalog' = IF "catalog" \in done THEN NoCatalog ELSE catalog
    /\ guestCatalog' = IF "guest" \in done THEN NoCatalog ELSE guestCatalog
    /\ meta' = IF "meta" \in done THEN [meta EXCEPT ![n] = 0] ELSE meta
    /\ UNCHANGED <<ids, runtime, guestIds>>

\* The transaction up to Commit. Not found or any error rolls back; a failed
\* invalidation may have taken effect in part.
Prepare(m) ==
    /\ op[m].pc = "entered"
    /\ \E done \in SUBSET op[m].clears : \E pc \in {"invalidated", "leave"} :
        /\ pc = "invalidated" => done = op[m].clears
        /\ op[m].kind \in {"patch", "static", "delete"} /\ op[m].node \notin live
              => pc = "leave" /\ done = {}
        /\ Invalidate(op[m].node, done)
        /\ op' = [op EXCEPT ![m].pc = pc]
    /\ UNCHANGED <<dbVars, unknown, gateVars, ipc, flight, reader>>

\* The row changes of each operation. A new node is hidden from guests.
createNode(n) ==
    /\ live' = live \cup {n}
    /\ visible' = visible \ {n}
    /\ rev' = [rev EXCEPT ![n] = @ + 1]

patchNode(n, parts) ==
    /\ rev' = IF "meta" \in parts THEN [rev EXCEPT ![n] = @ + 1] ELSE rev
    /\ visible' \in IF "guest" \in parts THEN {visible \cup {n}, visible \ {n}} ELSE {visible}
    /\ UNCHANGED live

updateStatic(n) ==
    /\ rev' = [rev EXCEPT ![n] = @ + 1]
    /\ UNCHANGED <<live, visible>>

deleteNode(n) ==
    /\ live' = live \ {n}
    /\ rev' = [rev EXCEPT ![n] = @ + 1]
    /\ UNCHANGED visible

updateDisplayOrder ==
    /\ rev' = [n \in Nodes |-> IF n \in live THEN rev[n] + 1 ELSE rev[n]]
    /\ UNCHANGED <<live, visible>>

Apply(o) ==
    /\ \/ o.kind = "create"  /\ createNode(o.node)
       \/ o.kind = "patch"   /\ patchNode(o.node, o.clears)
       \/ o.kind = "static"  /\ updateStatic(o.node)
       \/ o.kind = "delete"  /\ deleteNode(o.node)
       \/ o.kind = "reorder" /\ updateDisplayOrder
    /\ UNCHANGED row

\* Commit. An error leaves it open whether the transaction took effect; only a
\* delete known to have committed goes on to remove the node's cache keys.
Commit(m) ==
    /\ op[m].pc = "invalidated"
    /\ \/ /\ Apply(op[m])
          /\ \/ op' = [op EXCEPT ![m].pc = IF op[m].kind = "delete" THEN "cleanup" ELSE "leave"]
             \/ op' = [op EXCEPT ![m].pc = "leave"]
       \/ /\ UNCHANGED dbVars
          /\ op' = [op EXCEPT ![m].pc = "leave"]
    /\ UNCHANGED <<nodeCache, guestCache, unknown, gateVars, ipc, flight, reader>>

\* removeNodeSnapshot, one transaction; its error is ignored.
Cleanup(m) ==
    LET n == op[m].node IN
    /\ op[m].pc = "cleanup"
    /\ \/ /\ catalog' = NoCatalog /\ guestCatalog' = NoCatalog
          /\ ids' = ids \ {n} /\ guestIds' = guestIds \ {n}
          /\ meta' = [meta EXCEPT ![n] = 0] /\ runtime' = [runtime EXCEPT ![n] = 0]
       \/ UNCHANGED <<nodeCache, guestCache>>
    /\ op' = [op EXCEPT ![m].pc = "leave"]
    /\ UNCHANGED <<dbVars, unknown, gateVars, ipc, flight, reader>>

Leave(m) ==
    /\ op[m].pc = "leave"
    /\ LeaveGate(m)
    /\ op' = [op EXCEPT ![m] = NoOp]
    /\ UNCHANGED <<dbVars, nodeCache, guestCache, unknown, ipc, flight, reader>>

-----------------------------------------------------------------------------
(* Metrics ingest: nodeingest/metrics.go and putNodeRuntime *)

\* The sample of a live node is committed as its current row, under the node's
\* lock; what follows runs under that lock too. An error of the commit, or of
\* SyncServerCache after it, ends the ingest with the row committed.
Save(n) ==
    /\ ipc[n] = "idle" /\ n \in live /\ row[n] < MaxSample
    /\ \A m \in Mutators : op[m].pc # "idle" => op[m].node # n
    /\ row' = [row EXCEPT ![n] = @ + 1]
    /\ \/ ipc' = [ipc EXCEPT ![n] = "saved"]
       \/ UNCHANGED ipc
    /\ UNCHANGED <<live, rev, visible, nodeCache, guestCache, unknown, gateVars,
                   op, flight, reader>>

\* hasNodeRuntime, then forgetUnknownRuntime or rememberUnknownRuntime. Only
\* the first sample of an id outside the catalog goes through the gate.
Classify(n) ==
    /\ ipc[n] = "saved"
    /\ \/ /\ n \in ids
          /\ unknown' = unknown \ {n}
          /\ ipc' = [ipc EXCEPT ![n] = "put"]
       \/ /\ n \notin ids /\ n \in unknown
          /\ ipc' = [ipc EXCEPT ![n] = "put"]
          /\ UNCHANGED unknown
       \/ /\ n \notin ids /\ n \notin unknown
          /\ version < MaxVersion
          /\ unknown' = unknown \cup {n}
          /\ ipc' = [ipc EXCEPT ![n] = "gate"]
       \/ /\ ipc' = [ipc EXCEPT ![n] = "failed"]
          /\ UNCHANGED unknown
    /\ UNCHANGED <<dbVars, nodeCache, guestCache, gateVars, op, flight, reader>>

\* putNodeRuntime of the backend without invalidation.
Put(n) ==
    /\ ipc[n] = "put"
    /\ \/ /\ runtime' = [runtime EXCEPT ![n] = row[n]]
          /\ ipc' \in {[ipc EXCEPT ![n] = "idle"], [ipc EXCEPT ![n] = "failed"]}
       \/ /\ UNCHANGED runtime
          /\ ipc' = [ipc EXCEPT ![n] = "failed"]
    /\ UNCHANGED <<dbVars, catalog, ids, meta, guestCache, unknown, gateVars,
                   op, flight, reader>>

EnterUnknown(n) ==
    /\ ipc[n] = "gate"
    /\ EnterGate(n)
    /\ ipc' = [ipc EXCEPT ![n] = "invalidate"]
    /\ UNCHANGED <<dbVars, nodeCache, guestCache, unknown, op, flight, reader>>

\* putNodeRuntime of the backend with invalidation: one transaction.
PutInvalidate(n) ==
    /\ ipc[n] = "invalidate"
    /\ \/ /\ runtime' = [runtime EXCEPT ![n] = row[n]]
          /\ catalog' = NoCatalog
          /\ ipc' \in {[ipc EXCEPT ![n] = "leave"], [ipc EXCEPT ![n] = "leaveFailed"]}
       \/ /\ UNCHANGED <<runtime, catalog>>
          /\ ipc' = [ipc EXCEPT ![n] = "leaveFailed"]
    /\ UNCHANGED <<dbVars, ids, meta, guestCache, unknown, gateVars, op,
                   flight, reader>>

LeaveUnknown(n) ==
    /\ \/ ipc[n] = "leave" /\ ipc' = [ipc EXCEPT ![n] = "idle"]
       \/ ipc[n] = "leaveFailed" /\ ipc' = [ipc EXCEPT ![n] = "forget"]
    /\ LeaveGate(n)
    /\ UNCHANGED <<dbVars, nodeCache, guestCache, unknown, op, flight, reader>>

\* Fault: a failed put leaves its id remembered.
KeepUnknown(n) == unknown' = unknown

\* forgetUnknownRuntime, so that the next sample invalidates again.
forgetUnknownRuntime(n) == unknown' = unknown \ {n}

ForgetUnknown(n) ==
    /\ ipc[n] = "forget"
    /\ forgetUnknownRuntime(n)
    /\ ipc' = [ipc EXCEPT ![n] = "failed"]
    /\ UNCHANGED <<dbVars, nodeCache, guestCache, gateVars, op, flight, reader>>

\* clearFrontMeta after a failed refresh, outside the gate; it may fail too.
ClearAfterFailure(n) ==
    /\ ipc[n] = "failed"
    /\ catalog' \in {catalog, NoCatalog}
    /\ ipc' = [ipc EXCEPT ![n] = "idle"]
    /\ UNCHANGED <<dbVars, ids, meta, runtime, guestCache, unknown, gateVars,
                   op, flight, reader>>

-----------------------------------------------------------------------------
(* Rebuilds: rebuildSnapshot and rebuildGuestVisibility, one of each at a   *)
(* time. A database or cache error ends them.                               *)

FlightTo(v, pc) == flight' = [flight EXCEPT ![v] = At(flight[v], pc)]
FlightEnds(v) == flight' = [flight EXCEPT ![v] = NoFlight]

\* currentProjectionVersion waits for the mutations inside the gate.
ReadVersion(v) ==
    /\ flight[v].pc = "version"
    /\ active = {}
    /\ flight' = [flight EXCEPT ![v] = [At(flight[v], "rows") EXCEPT !.ver = version]]
    /\ UNCHANGED <<dbVars, nodeCache, guestCache, unknown, gateVars, op, ipc, reader>>

\* fetchFrontProjections, first query, and fetchGuestVisibleIDs.
FetchRows(v) ==
    /\ flight[v].pc = "rows"
    /\ \/ /\ v = "nodes"
          /\ flight' = [flight EXCEPT ![v] = [At(flight[v], "servers") EXCEPT
                           !.rows = [n \in Nodes |-> IF n \in live THEN row[n] ELSE 0]]]
       \/ /\ v = "guests"
          /\ flight' = [flight EXCEPT ![v] = [At(flight[v], "publish") EXCEPT
                           !.guest = live \cap visible]]
    /\ UNCHANGED <<dbVars, nodeCache, guestCache, unknown, gateVars, op, ipc, reader>>

\* fetchFrontProjections, the servers of those rows: a row whose server is
\* gone by now is dropped.
FetchServers(v) ==
    /\ flight[v].pc = "servers"
    /\ flight' = [flight EXCEPT ![v] = [At(flight[v], "publish") EXCEPT
                     !.meta = [n \in Nodes |->
                        IF n \in live /\ flight[v].rows[n] > 0 THEN rev[n] ELSE 0]]]
    /\ UNCHANGED <<dbVars, nodeCache, guestCache, unknown, gateVars, op, ipc, reader>>

\* The attempt that just failed was not the last one.
RetryLeft(v) == flight[v].tries + 1 < projectionBuildAttempts

\* Publish: conditional on the generation, with a bounded number of attempts.
Publish(v) ==
    /\ flight[v].pc = "publish"
    /\ \/ /\ Current(flight[v].ver)
          /\ builds' = builds \cup {v}
          /\ FlightTo(v, "write")
       \/ /\ ~Current(flight[v].ver) /\ RetryLeft(v)
          /\ flight' = [flight EXCEPT ![v] = [At(NoFlight, "version") EXCEPT
                                                  !.tries = flight[v].tries + 1]]
          /\ UNCHANGED builds
       \/ /\ ~Current(flight[v].ver) /\ ~RetryLeft(v)
          /\ FlightEnds(v)
          /\ UNCHANGED builds
    /\ UNCHANGED <<dbVars, nodeCache, guestCache, unknown, version, active, op, ipc, reader>>

\* Fault: a rebuild overwrites the runtime samples it finds.
OverwriteRuntime(f, n) == IF f.meta[n] > 0 THEN f.rows[n] ELSE runtime[n]

\* Redis forgets the ids that leave the catalog, memory all those not in it.
Forgotten(f, n) == f.meta[n] = 0 /\ (Backend = "memory" \/ n \in ids)

\* A rebuild keeps a runtime sample that is there.
RebuiltRuntime(f, n) ==
    CASE Forgotten(f, n) -> 0
      [] f.meta[n] > 0 /\ runtime[n] = 0 -> f.rows[n]
      [] OTHER -> runtime[n]

\* replaceSnapshot: metadata, ids and catalog are replaced in one transaction.
\* The ids it read just before cannot change meanwhile: only a rebuild of this
\* view and the cleanup of a delete write them, and the gate excludes both.
replaceSnapshot(f) ==
    /\ ids' = {n \in Nodes : f.meta[n] > 0}
    /\ catalog' = Cardinality({n \in Nodes : f.meta[n] > 0})
    /\ meta' = [n \in Nodes |-> IF Forgotten(f, n) THEN 0
                                ELSE IF f.meta[n] > 0 THEN f.meta[n] ELSE meta[n]]
    /\ runtime' = [n \in Nodes |-> RebuiltRuntime(f, n)]
    /\ UNCHANGED guestCache

replaceGuestVisibleIDs(f) ==
    /\ guestCatalog' = Cardinality(f.guest)
    /\ guestIds' = f.guest
    /\ UNCHANGED nodeCache

\* fn of Publish and its deferred end. After an error the write may or may not
\* have taken effect and the rebuild ends; otherwise a rebuild of the nodes
\* reads the cache back.
Write(v) ==
    /\ flight[v].pc = "write"
    /\ builds' = builds \ {v}
    /\ \/ /\ IF v = "nodes" THEN replaceSnapshot(flight[v])
                          ELSE replaceGuestVisibleIDs(flight[v])
          /\ \/ FlightEnds(v) /\ UNCHANGED reader
             \/ /\ v = "nodes"
                /\ FlightTo(v, "reread")
                /\ reader' = [reader EXCEPT !["flight"] = At(reader["flight"], "catalog")]
       \/ FlightEnds(v) /\ UNCHANGED <<nodeCache, guestCache, reader>>
    /\ UNCHANGED <<dbVars, unknown, version, active, op, ipc>>

FetchFails(v) ==
    /\ flight[v].pc \in {"rows", "servers"}
    /\ FlightEnds(v)
    /\ UNCHANGED <<dbVars, nodeCache, guestCache, unknown, gateVars, op, ipc, reader>>

-----------------------------------------------------------------------------
(* Reads: EnsureSnapshot and fetchSnapshotCache. The Redis backend reads    *)
(* the catalog, the ids, the runtime and the metadata one command at a time *)

\* A request starts; `since` remembers the revisions committed by then.
Request(r) ==
    /\ "nodes" \in Requested
    /\ reader[r].pc = "idle"
    /\ reader' = [reader EXCEPT ![r] = [pc |-> "catalog", count |-> 0, listed |-> {},
                                         since |-> rev]]
    /\ UNCHANGED <<dbVars, nodeCache, guestCache, unknown, gateVars, op, ipc, flight>>

\* The read of r is over, with a result or an error.
Over(r) ==
    /\ reader' = [reader EXCEPT ![r] = NoRead]
    /\ IF r = "flight" THEN FlightEnds("nodes") ELSE UNCHANGED flight

\* No snapshot: a request goes on to rebuild it, the rebuild itself returns
\* what it has.
Missed(r) ==
    IF r = "flight" THEN Over(r)
    ELSE /\ reader' = [reader EXCEPT ![r] = At(NoRead, "missed")]
         /\ UNCHANGED flight

Goto(r, pc) == reader' = [reader EXCEPT ![r] = At(reader[r], pc)] /\ UNCHANGED flight

ReadCatalog(r) ==
    /\ reader[r].pc = "catalog"
    /\ \/ catalog = NoCatalog /\ Missed(r)
       \/ /\ catalog # NoCatalog
          /\ reader' = [reader EXCEPT ![r] = [At(reader[r], "ids") EXCEPT !.count = catalog]]
          /\ UNCHANGED flight

ReadIds(r) ==
    /\ reader[r].pc = "ids"
    /\ LET pc == IF Cardinality(ids) = reader[r].count THEN "runtime" ELSE "corrupt" IN
       reader' = [reader EXCEPT ![r] = [At(reader[r], pc) EXCEPT !.listed = ids]]
    /\ UNCHANGED flight

ReadRuntime(r) ==
    /\ reader[r].pc = "runtime"
    /\ Goto(r, IF \A n \in reader[r].listed : runtime[n] > 0 THEN "meta" ELSE "corrupt")

\* The last command: with every key there the snapshot is served.
Complete(r) == \A n \in reader[r].listed : meta[n] > 0

ReadMeta(r) ==
    /\ reader[r].pc = "meta"
    /\ IF Complete(r) THEN Over(r) ELSE Goto(r, "corrupt")

\* A Redis error ends the read.
ReadFails(r) == reader[r].pc \in {"catalog", "ids", "runtime", "meta", "corrupt"} /\ Over(r)

\* ClearFrontMeta of a corrupt snapshot, outside the gate.
ClearCorrupt(r) ==
    /\ reader[r].pc = "corrupt"
    /\ catalog' = NoCatalog
    /\ Missed(r)

\* singleflightDetached: start the rebuild or wait for the one that runs. A
\* waiter leaves when it has ended, or earlier when its request is cancelled.
Join(r) ==
    /\ reader[r].pc = "missed"
    /\ reader' = [reader EXCEPT ![r] = At(reader[r], "joined")]
    /\ IF flight["nodes"].pc = "idle" THEN FlightTo("nodes", "version") ELSE UNCHANGED flight

Return(r) == reader[r].pc = "joined" /\ Over(r)

Read(r) ==
    /\ \/ /\ ReadCatalog(r) \/ ReadIds(r) \/ ReadRuntime(r) \/ ReadMeta(r)
             \/ ReadFails(r) \/ Join(r) \/ Return(r)
          /\ UNCHANGED catalog
       \/ ClearCorrupt(r)
    /\ UNCHANGED <<dbVars, ids, meta, runtime, guestCache, unknown, gateVars, op, ipc>>

\* EnsureGuestVisibleIDs found no guest catalog, now or some time ago.
RequestGuests ==
    /\ "guests" \in Requested
    /\ flight["guests"].pc = "idle"
    /\ FlightTo("guests", "version")
    /\ UNCHANGED <<dbVars, nodeCache, guestCache, unknown, gateVars, op, ipc, reader>>

\* The process dies and starts again. Redis and PostgreSQL keep what they have,
\* an open transaction is rolled back.
Crash ==
    /\ IF Backend = "redis" THEN UNCHANGED <<nodeCache, guestCache>>
       ELSE /\ catalog' = NoCatalog /\ ids' = {} /\ meta' = Zero /\ runtime' = Zero
            /\ guestCatalog' = NoCatalog /\ guestIds' = {}
    /\ unknown' = {}
    /\ version' = 0 /\ active' = {} /\ builds' = {}
    /\ op' = [m \in Mutators |-> NoOp]
    /\ ipc' = [n \in Nodes |-> "idle"]
    /\ flight' = [v \in Views |-> NoFlight]
    /\ reader' = [r \in Readers |-> NoRead]
    /\ UNCHANGED dbVars

Mutation(m) ==
    \/ \E kind \in Kinds, n \in Nodes \cup {NoNode}, patch \in Patches : Begin(m, kind, n, patch)
    \/ Enter(m) \/ Prepare(m) \/ Commit(m) \/ Cleanup(m) \/ Leave(m)

Ingest(n) ==
    \/ Save(n) \/ Classify(n) \/ Put(n)
    \/ EnterUnknown(n) \/ PutInvalidate(n) \/ LeaveUnknown(n) \/ ForgetUnknown(n)
    \/ ClearAfterFailure(n)

Rebuild(v) ==
    \/ ReadVersion(v) \/ FetchRows(v) \/ FetchServers(v) \/ FetchFails(v)
    \/ Publish(v) \/ Write(v)

Next ==
    \/ \E m \in Mutators : Mutation(m)
    \/ \E n \in Nodes : Ingest(n)
    \/ \E v \in Views : Rebuild(v)
    \/ \E r \in Callers : Request(r)
    \/ \E r \in Readers : Read(r)
    \/ RequestGuests
    \/ Crash

Spec == Init /\ [][Next]_vars

-----------------------------------------------------------------------------
(* Properties *)

\* Gate: a mutation and a publication never overlap, although the gate's mutex
\* is not held while either does its I/O.
PublishExcludesMutation == active = {} \/ builds = {}

\* A valid catalog lists nodes that exist, with the metadata PostgreSQL holds:
\* at every moment, also while an operation is between its invalidation and
\* its commit, or has failed half-way, or the process died there. A node whose
\* metadata is missing makes the snapshot a miss.
CatalogIsCurrent ==
    catalog # NoCatalog =>
        \A n \in ids : meta[n] > 0 => n \in live /\ row[n] > 0 /\ meta[n] = rev[n]

\* A valid guest catalog holds exactly the visible nodes.
GuestCatalogIsCurrent ==
    guestCatalog # NoCatalog => guestIds = live \cap visible

\* A runtime sample of a node that stays live is only ever replaced by a newer
\* one, whatever a rebuild read from PostgreSQL before.
RuntimeNeverRegresses ==
    [][(Backend = "memory" /\ Crash)
          \/ \A n \in live \cap live' : runtime'[n] >= runtime[n]]_vars

\* A node list served from the cache holds nothing that had already been
\* replaced or deleted when the request came in, though the four Redis reads
\* may straddle mutations and rebuilds.
ServedIsFresh ==
    [][\A r \in Callers :
         reader[r].pc = "meta" /\ Complete(r) /\ reader'[r].pc = "idle"
            => \A n \in reader[r].listed : meta[n] >= reader[r].since[n]]_vars

\* A reporting node missing from a valid catalog will get in: its next sample
\* invalidates the catalog again, unless one is doing that now.
MissingNodeHeals ==
    \A n \in live : catalog # NoCatalog /\ row[n] > 0 /\ n \notin ids /\ n \in unknown
        => ipc[n] \in {"gate", "invalidate", "leaveFailed", "forget"}

-----------------------------------------------------------------------------
(* The inductive invariant behind the safety properties *)

InGate(m) == op[m].pc \in {"entered", "invalidated", "cleanup", "leave"}

\* The gate's sets are those of the goroutines inside, and the two exclude
\* each other.
GateShape ==
    /\ \A m \in Mutators : m \in active <=> InGate(m)
    /\ \A n \in Nodes : n \in active <=> ipc[n] \in {"invalidate", "leave", "leaveFailed"}
    /\ \A v \in Views : v \in builds <=> flight[v].pc = "write"
    /\ PublishExcludesMutation

\* An operation clears what it changes, and a create excludes all others.
OpShape ==
    \A m \in Mutators : op[m].pc # "idle" =>
        /\ op[m].kind \notin {"patch", "static"} => "catalog" \in op[m].clears
        /\ op[m].kind = "delete" => "guest" \in op[m].clears
        /\ op[m].kind = "static" => "meta" \in op[m].clears
        /\ op[m].kind # "reorder" => op[m].node \in Nodes
        /\ "meta" \in op[m].clears => op[m].node \in Nodes
        /\ op[m].kind = "create" =>
              /\ op[m].pc \in {"locked", "entered", "invalidated"} => rev[op[m].node] = 0
              /\ \A x \in Mutators : op[x].pc # "idle" => x = m
\* An operation about to commit has invalidated, and it stays so.
Prepared ==
    \A m \in Mutators : op[m].pc = "invalidated" =>
        /\ "catalog" \in op[m].clears => catalog = NoCatalog
        /\ "guest" \in op[m].clears => guestCatalog = NoCatalog
        /\ "meta" \in op[m].clears => meta[op[m].node] = 0

\* No operation in the gate may have committed.
Quiet == \A m \in Mutators : op[m].pc \notin {"cleanup", "leave"}

\* What a rebuild has read is current as long as the generation is and no
\* operation has committed.
FlightOK(v, f) ==
    /\ f.ver <= version
    /\ f.pc = "write" => f.ver = version
    /\ v = "guests" => f.pc # "servers"
    /\ f.pc \in {"idle", "version", "rows", "servers"} => f.meta = Zero
    /\ \A n \in Nodes : f.rows[n] <= row[n] /\ (f.meta[n] > 0 => f.rows[n] > 0)
    /\ f.pc \in {"publish", "write"} /\ f.ver = version /\ Quiet =>
          /\ v = "nodes" => \A n \in Nodes :
                f.meta[n] > 0 => n \in live /\ f.meta[n] = rev[n]
          /\ v = "guests" => f.guest = live \cap visible

FlightCurrent == \A v \in Views : FlightOK(v, flight[v])

\* The rebuild reads the cache back only after its publication.
ReaderShape ==
    reader["flight"].pc # "idle" =>
        /\ flight["nodes"].pc = "reread"
        /\ reader["flight"].pc \notin {"missed", "joined"}

\* What a request may still be served is not older than the request.
ReaderFresh ==
    \A r \in Callers :
        /\ \A n \in Nodes : reader[r].since[n] <= rev[n]
        /\ reader[r].pc = "catalog" => reader[r].listed = {}
        /\ reader[r].pc \in {"ids", "runtime", "meta"} =>
              \A n \in ids \cup reader[r].listed :
                  meta[n] > 0 => meta[n] >= reader[r].since[n]

LiveHasRev == \A n \in live : rev[n] > 0

Inv ==
    /\ TypeOK /\ GateShape /\ OpShape /\ Prepared /\ FlightCurrent
    /\ LiveHasRev /\ CatalogIsCurrent /\ GuestCatalogIsCurrent
    /\ ReaderShape /\ ReaderFresh
-----------------------------------------------------------------------------
(* What the samples add to it *)

\* Whatever is known of a node's samples, there is a row, and it is as new.
SamplesHaveRows ==
    \A n \in Nodes :
        /\ runtime[n] <= row[n] /\ (rev[n] = 0 => row[n] = 0)
        /\ n \in ids \cup unknown => row[n] > 0
        /\ ipc[n] \notin {"idle", "failed"} => row[n] > 0

\* The rows a rebuild of the nodes has read include every live node that has a sample in
\* the cache, or may still be given one without passing through the gate.
Sampled(n) == n \notin active /\ (runtime[n] > 0 \/ ipc[n] = "put" \/ n \in ids \/ (n \in unknown /\ ipc[n] # "gate"))
RowsIncludeSamples ==
    LET f == flight["nodes"] IN
    f.pc \in {"servers", "publish", "write"} /\ f.ver = version =>
        \A n \in live : Sampled(n) => f.rows[n] > 0

\* And no live node of those rows lacks its metadata.
ServersIncludeRows ==
    LET f == flight["nodes"] IN
    f.pc \in {"publish", "write"} /\ f.ver = version /\ Quiet =>
        \A n \in live : f.rows[n] > 0 => f.meta[n] > 0

\* A sample that went through the gate leaves it with the catalog invalid, and only a
\* deleted node is cleaned up.
IngestCleared == \A n \in Nodes : ipc[n] = "leave" => catalog = NoCatalog
CleanupOfDeleted == \A m \in Mutators : op[m].pc = "cleanup" => op[m].kind = "delete" /\ op[m].node \notin live

SampleInv ==
    /\ SamplesHaveRows /\ RowsIncludeSamples /\ ServersIncludeRows /\ IngestCleared /\ CleanupOfDeleted
    /\ MissingNodeHeals
=============================================================================
