-------------------------- MODULE FrontCacheProofs --------------------------
(***************************************************************************)
(* Safety of the frontend cache for any number of nodes, operations and    *)
(* requests.                                                               *)
(***************************************************************************)
EXTENDS FrontCache, FiniteSetTheorems, TLAPS

USE NamesAssumption DEF createNode, patchNode, updateStatic, deleteNode, updateDisplayOrder
USE DEF dbVars, nodeCache, guestCache, gateVars, Views, Readers, FlightOK

LEMMA InvInit == Init => Inv
<1> SUFFICES ASSUME Init PROVE Inv
  OBVIOUS
<1>1. TypeOK
  BY DEF Init, TypeOK, Zero, NoOp, NoFlight, NoRead, Ops, Flights, Reads, IngestState,
         NoCatalog, projectionBuildAttempts
<1>2. GateShape /\ OpShape /\ Prepared /\ ReaderShape
  BY DEF Init, GateShape, OpShape, Prepared, ReaderShape, InGate,
         PublishExcludesMutation, NoOp, NoFlight, NoRead
<1>3. FlightCurrent
  BY <1>1 DEF Init, TypeOK, FlightCurrent, NoFlight, Zero
<1>4. ReaderFresh /\ LiveHasRev /\ CatalogIsCurrent /\ GuestCatalogIsCurrent
  BY DEF Init, ReaderFresh, LiveHasRev, CatalogIsCurrent, GuestCatalogIsCurrent, NoRead, Zero
<1> QED  BY <1>1, <1>2, <1>3, <1>4 DEF Inv

LEMMA NoFlightType == NoFlight \in Flights /\ NoRead \in Reads
  BY DEF NoFlight, NoRead, Flights, Reads, Zero, projectionBuildAttempts

\* A goroutine that only moves on keeps what it holds.
LEMMA OpMoves ==
  ASSUME TypeOK, NEW m \in Mutators,
         NEW pc \in {"idle", "locked", "entered", "invalidated", "cleanup", "leave"}
  PROVE [op EXCEPT ![m].pc = pc] \in [Mutators -> Ops]
  BY DEF TypeOK, Ops

LEMMA FlightAt ==
  ASSUME NEW f \in Flights,
         NEW pc \in {"idle", "version", "rows", "servers", "publish", "write", "reread"}
  PROVE /\ At(f, pc) \in Flights
        /\ At(f, pc).pc = pc /\ At(f, pc).ver = f.ver /\ At(f, pc).tries = f.tries
        /\ At(f, pc).rows = f.rows /\ At(f, pc).meta = f.meta /\ At(f, pc).guest = f.guest
  BY DEF At, Flights

LEMMA ReaderAt ==
  ASSUME NEW g \in Reads,
         NEW pc \in {"idle", "catalog", "ids", "runtime", "meta", "corrupt", "missed", "joined"}
  PROVE /\ At(g, pc) \in Reads
        /\ At(g, pc).pc = pc /\ At(g, pc).count = g.count
        /\ At(g, pc).listed = g.listed /\ At(g, pc).since = g.since
  BY DEF At, Reads

LEMMA MutationType ==
  ASSUME TypeOK, OpShape, NEW m \in Mutators, Mutation(m)
  PROVE TypeOK'
<1>1. CASE \E kind \in Kinds, n \in Nodes \cup {NoNode}, patch \in Patches : Begin(m, kind, n, patch)
  <2> PICK kind \in Kinds, n \in Nodes \cup {NoNode}, patch \in Patches : Begin(m, kind, n, patch)
    BY <1>1
  <2>1. Clears(kind, patch) \in SUBSET {"meta", "guest", "catalog"}
    BY PatchesAssumption DEF Clears
  <2>2. kind \in {"create", "patch", "static", "delete", "reorder"}
    BY KindsAssumption
  <2> QED  BY <2>1, <2>2 DEF Begin, TypeOK, Ops
<1>2. CASE Enter(m)
  BY <1>2 DEF Enter, EnterGate, TypeOK, Ops
<1>3. CASE Prepare(m)
  <2> PICK done \in SUBSET op[m].clears, pc \in {"invalidated", "leave"} :
          Invalidate(op[m].node, done) /\ op' = [op EXCEPT ![m].pc = pc]
    BY <1>3 DEF Prepare
  <2>1. op' \in [Mutators -> Ops]
    BY OpMoves
  <2>2. catalog' \in Int /\ guestCatalog' \in Int
    BY DEF Invalidate, TypeOK, NoCatalog
  <2>3. meta' \in [Nodes -> Nat]
    <3>1. CASE "meta" \in done
      BY <3>1 DEF Invalidate, TypeOK
    <3>2. CASE "meta" \notin done
      BY <3>2 DEF Invalidate, TypeOK
    <3> QED  BY <3>1, <3>2
  <2> QED  BY <1>3, <2>1, <2>2, <2>3 DEF Prepare, Invalidate, TypeOK
<1>4. CASE Commit(m)
  <2>1. op' \in [Mutators -> Ops]
    BY <1>4, OpMoves DEF Commit
  <2>2. CASE UNCHANGED dbVars
    BY <1>4, <2>1, <2>2 DEF Commit, TypeOK
  <2>3. CASE Apply(op[m])
    <3>1. rev' \in [Nodes -> Nat]
      BY <2>3 DEF Apply, TypeOK
    <3>2. op[m].kind # "reorder" => op[m].node \in Nodes
      BY <1>4 DEF OpShape, Commit
    <3>3. live' \subseteq Nodes
      BY <2>3, <3>2 DEF Apply, TypeOK
    <3>4. visible' \subseteq Nodes
      BY <2>3, <3>2 DEF Apply, TypeOK
    <3> QED  BY <1>4, <2>1, <2>3, <3>1, <3>3, <3>4 DEF Commit, TypeOK, Apply
  <2> QED  BY <1>4, <2>2, <2>3 DEF Commit
<1>5. CASE Cleanup(m)
  BY <1>5 DEF Cleanup, TypeOK, Ops, NoCatalog
<1>6. CASE Leave(m)
  BY <1>6 DEF Leave, LeaveGate, TypeOK, Ops, NoOp
<1> QED  BY <1>1, <1>2, <1>3, <1>4, <1>5, <1>6 DEF Mutation

LEMMA IngestType ==
  ASSUME TypeOK, NEW n \in Nodes, Ingest(n)
  PROVE TypeOK'
<1> USE DEF TypeOK, IngestState, NoCatalog
<1>1. CASE Save(n)
  BY <1>1 DEF Save
<1>2. CASE Classify(n)
  BY <1>2 DEF Classify
<1>3. CASE Put(n)
  BY <1>3 DEF Put
<1>4. CASE EnterUnknown(n)
  BY <1>4 DEF EnterUnknown, EnterGate
<1>5. CASE PutInvalidate(n)
  BY <1>5 DEF PutInvalidate
<1>6. CASE LeaveUnknown(n)
  BY <1>6 DEF LeaveUnknown, LeaveGate
<1>7. CASE ForgetUnknown(n)
  BY <1>7 DEF ForgetUnknown, forgetUnknownRuntime
<1>8. CASE ClearAfterFailure(n)
  BY <1>8 DEF ClearAfterFailure
<1> QED
  BY <1>1, <1>2, <1>3, <1>4, <1>5, <1>6, <1>7, <1>8 DEF Ingest

LEMMA RebuildType ==
  ASSUME TypeOK, NEW v \in Views, Rebuild(v)
  PROVE TypeOK'
<1> USE DEF TypeOK
<1>1. CASE ReadVersion(v)
  BY <1>1, FlightAt DEF ReadVersion, Flights
<1>2. CASE FetchRows(v)
  <2>1. CASE v = "nodes"
    <3>1. [n \in Nodes |-> IF n \in live THEN row[n] ELSE 0] \in [Nodes -> Nat]
      OBVIOUS
    <3> DEFINE rows == [n \in Nodes |-> IF n \in live THEN row[n] ELSE 0]
    <3>2. [At(flight[v], "servers") EXCEPT !.rows = rows] \in Flights
      <4> HIDE DEF rows
      <4> QED  BY <3>1, FlightAt DEF Flights, rows
    <3> QED  BY <1>2, <2>1, <3>2 DEF FetchRows
  <2>2. CASE v # "nodes"
    BY <1>2, <2>2, FlightAt DEF FetchRows, Flights
  <2> QED  BY <2>1, <2>2
<1>3. CASE FetchServers(v)
  <2> DEFINE revs == [n \in Nodes |-> IF n \in live /\ flight[v].rows[n] > 0 THEN rev[n] ELSE 0]
  <2>1. revs \in [Nodes -> Nat]
    OBVIOUS
  <2>2. [At(flight[v], "publish") EXCEPT !.meta = revs] \in Flights
    <3> HIDE DEF revs
    <3> QED  BY <2>1, FlightAt DEF Flights
  <2> QED  BY <1>3, <2>2 DEF FetchServers
<1>4. CASE FetchFails(v)
  BY <1>4, NoFlightType DEF FetchFails, FlightEnds
<1>5. CASE Publish(v)
  <2>1. CASE Current(flight[v].ver)
    BY <1>5, <2>1, FlightAt DEF Publish, FlightTo
  <2>2. CASE ~Current(flight[v].ver) /\ RetryLeft(v)
    <3>1. [At(NoFlight, "version") EXCEPT !.tries = flight[v].tries + 1] \in Flights
      <4>1. flight[v].tries + 1 \in 0..(projectionBuildAttempts - 1)
        BY <2>2 DEF RetryLeft, Flights, projectionBuildAttempts
      <4> QED  BY <4>1, NoFlightType, FlightAt DEF Flights
    <3> QED  BY <1>5, <2>2, <3>1 DEF Publish
  <2>3. CASE ~Current(flight[v].ver) /\ ~RetryLeft(v)
    BY <1>5, <2>3, NoFlightType DEF Publish, FlightEnds
  <2> QED  BY <2>1, <2>2, <2>3
<1>6. CASE Write(v)
  <2>1. flight' \in [Views -> Flights] /\ reader' \in [Readers -> Reads]
    <3>1. CASE FlightEnds(v) /\ UNCHANGED reader
      BY <3>1, NoFlightType DEF FlightEnds
    <3>2. CASE /\ FlightTo(v, "reread")
               /\ reader' = [reader EXCEPT !["flight"] = At(reader["flight"], "catalog")]
      BY <3>2, FlightAt, ReaderAt DEF FlightTo
    <3> QED  BY <1>6, <3>1, <3>2 DEF Write
  <2>2. \A S \in SUBSET Nodes : Cardinality(S) \in Int
    BY NodesAssumption, FS_Subset, FS_CardinalityType
  <2>3. CASE UNCHANGED <<nodeCache, guestCache>>
    BY <1>6, <2>1, <2>3 DEF Write
  <2>4. CASE v = "nodes" /\ replaceSnapshot(flight[v])
    BY <1>6, <2>1, <2>2, <2>4 DEF Write, replaceSnapshot, RebuiltRuntime, Forgotten, Flights
  <2>5. CASE v # "nodes" /\ replaceGuestVisibleIDs(flight[v])
    BY <1>6, <2>1, <2>2, <2>5 DEF Write, replaceGuestVisibleIDs, Flights
  <2> QED  BY <1>6, <2>3, <2>4, <2>5 DEF Write
<1> QED  BY <1>1, <1>2, <1>3, <1>4, <1>5, <1>6 DEF Rebuild

LEMMA ReadType ==
  ASSUME TypeOK, NEW r \in Readers, Read(r)
  PROVE TypeOK'
<1>1. /\ flight' \in [Views -> Flights]
      /\ reader' \in [Readers -> Reads]
  <2>1. ASSUME Over(r) PROVE <1>1!1 /\ <1>1!2
    BY <2>1, NoFlightType DEF Over, FlightEnds, TypeOK
  <2>2. ASSUME Missed(r) PROVE <1>1!1 /\ <1>1!2
    <3>1. At(NoRead, "missed") \in Reads
      BY NoFlightType, ReaderAt
    <3> QED  BY <2>1, <2>2, <3>1 DEF Missed, TypeOK
  <2>3. ASSUME NEW pc \in {"ids", "runtime", "meta", "corrupt"}, Goto(r, pc)
        PROVE <1>1!1 /\ <1>1!2
    BY <2>3, ReaderAt DEF Goto, TypeOK
  <2>4. CASE ReadCatalog(r)
    <3>1. [At(reader[r], "ids") EXCEPT !.count = catalog] \in Reads
      BY ReaderAt DEF TypeOK, Reads
    <3> QED  BY <2>2, <2>4, <3>1 DEF ReadCatalog, TypeOK
  <2>5. CASE ReadIds(r)
    <3>1. ASSUME NEW pc \in {"runtime", "corrupt"}
          PROVE [At(reader[r], pc) EXCEPT !.listed = ids] \in Reads
      BY ReaderAt DEF TypeOK, Reads
    <3> QED  BY <2>5, <3>1 DEF ReadIds, TypeOK
  <2>6. CASE ReadRuntime(r) \/ ReadMeta(r) \/ ReadFails(r) \/ Return(r)
    BY <2>1, <2>3, <2>6 DEF ReadRuntime, ReadMeta, ReadFails, Return
  <2>7. CASE ClearCorrupt(r)
    BY <2>2, <2>7 DEF ClearCorrupt
  <2>8. CASE Join(r)
    BY <2>8, FlightAt, ReaderAt DEF Join, FlightTo, TypeOK
  <2> QED  BY <2>4, <2>5, <2>6, <2>7, <2>8 DEF Read
<1>2. catalog' \in Int
  BY DEF Read, ClearCorrupt, TypeOK, NoCatalog
<1> QED  BY <1>1, <1>2 DEF Read, TypeOK

LEMMA TypeNext == ASSUME TypeOK, OpShape, [Next]_vars PROVE TypeOK'
<1>1. CASE \E r \in Callers : Request(r)
  <2> PICK r \in Callers : Request(r)
    BY <1>1
  <2>1. /\ r \in Readers /\ rev \in [Nodes -> Nat]
        /\ [pc |-> "catalog", count |-> 0, listed |-> {}, since |-> rev] \in Reads
    BY DEF TypeOK, Reads
  <2> QED  BY <2>1 DEF Request, TypeOK
<1>2. CASE RequestGuests
  BY <1>2, FlightAt DEF RequestGuests, FlightTo, TypeOK
<1>3. CASE Crash
  <2>1. NoOp \in Ops /\ Zero \in [Nodes -> Nat]
    BY DEF NoOp, Ops, Zero
  <2> QED  BY <1>3, <2>1, NoFlightType DEF Crash, TypeOK, IngestState, NoCatalog
<1>4. CASE UNCHANGED vars
  BY <1>4 DEF vars, TypeOK
<1> QED
  BY <1>1, <1>2, <1>3, <1>4, MutationType, IngestType, RebuildType, ReadType DEF Next

-----------------------------------------------------------------------------
(* Lifecycle operations *)

LEMMA BeginInv ==
  ASSUME Inv, NEW m \in Mutators,
         NEW kind \in Kinds, NEW n \in Nodes \cup {NoNode}, NEW patch \in Patches,
         Begin(m, kind, n, patch)
  PROVE GateShape' /\ OpShape' /\ Prepared' /\ FlightCurrent'
<1> USE DEF Inv, Begin, TypeOK
<1>1. GateShape'
  BY DEF GateShape, InGate, PublishExcludesMutation
<1>2. OpShape'
  <2>1. /\ op'[m].kind \notin {"patch", "static"} => "catalog" \in op'[m].clears
        /\ op'[m].kind = "delete" => "guest" \in op'[m].clears
        /\ op'[m].kind = "static" => "meta" \in op'[m].clears
        /\ op'[m].kind # "reorder" => op'[m].node \in Nodes
        /\ "meta" \in op'[m].clears => op'[m].node \in Nodes
    BY KindsAssumption DEF Clears
  <2>2. \A x \in Mutators \ {m} : op'[x] = op[x]
    OBVIOUS
  <2>3. op'[m].kind = "create" => rev'[op'[m].node] = 0
    OBVIOUS
  <2>4. op'[m].kind = "create" => \A x \in Mutators : op'[x].pc # "idle" => x = m
    BY <2>2 DEF LocksFree, Global
  <2>5. \A x \in Mutators \ {m} : op[x].pc # "idle" => op[x].kind # "create"
    BY DEF LocksFree, Global
  <2> QED  BY <2>1, <2>2, <2>3, <2>4, <2>5 DEF OpShape
<1>3. Prepared'
  BY DEF Prepared
<1>4. FlightCurrent'
  BY DEF FlightCurrent, Quiet
<1> QED  BY <1>1, <1>2, <1>3, <1>4

LEMMA EnterInv ==
  ASSUME Inv, NEW m \in Mutators, Enter(m)
  PROVE GateShape' /\ OpShape' /\ Prepared' /\ FlightCurrent'
<1> USE DEF Inv, Enter, EnterGate, TypeOK
<1>1. GateShape'
  BY DEF GateShape, InGate, PublishExcludesMutation
<1>2. OpShape'
  BY DEF OpShape
<1>3. Prepared'
  BY DEF Prepared
<1>4. FlightCurrent'
  BY DEF FlightCurrent, Quiet
<1> QED  BY <1>1, <1>2, <1>3, <1>4

\* The caches of an operation in the gate are not written by a rebuild.
LEMMA PrepareInv ==
  ASSUME Inv, NEW m \in Mutators, Prepare(m)
  PROVE /\ GateShape' /\ OpShape' /\ Prepared' /\ FlightCurrent'
        /\ CatalogIsCurrent' /\ GuestCatalogIsCurrent' /\ ReaderFresh'
<1> PICK done \in SUBSET op[m].clears, pc \in {"invalidated", "leave"} :
        /\ pc = "invalidated" => done = op[m].clears
        /\ Invalidate(op[m].node, done)
        /\ op' = [op EXCEPT ![m].pc = pc]
  BY DEF Prepare
<1> USE DEF Inv, TypeOK
<1>0. op[m].pc = "entered" /\ op' \in [Mutators -> Ops]
  BY OpMoves DEF Prepare
<1>1. GateShape'
  BY <1>0 DEF Prepare, GateShape, InGate, PublishExcludesMutation
<1>2. OpShape'
  BY <1>0 DEF Prepare, OpShape
<1>3. /\ catalog' \in {catalog, NoCatalog} /\ guestCatalog' \in {guestCatalog, NoCatalog}
      /\ \A n \in Nodes : meta'[n] \in {meta[n], 0}
  BY DEF Invalidate
<1>4. Prepared'
  <2>1. \A x \in Mutators \ {m} : op'[x] = op[x]
    BY <1>0
  <2>2. op'[m].node = op[m].node /\ op'[m].clears = op[m].clears /\ op'[m].pc = pc
    BY <1>0 DEF Ops
  <2>3. pc = "invalidated" =>
          /\ "catalog" \in op[m].clears => catalog' = NoCatalog
          /\ "guest" \in op[m].clears => guestCatalog' = NoCatalog
    BY DEF Invalidate
  <2>4. pc = "invalidated" /\ "meta" \in op[m].clears => meta'[op[m].node] = 0
    BY <1>0 DEF Invalidate, OpShape
  <2>5. \A x \in Mutators : op[x].pc # "idle" /\ "meta" \in op[x].clears => op[x].node \in Nodes
    BY DEF OpShape
  <2> QED  BY <1>3, <2>1, <2>2, <2>3, <2>4, <2>5 DEF Prepared
<1>5. FlightCurrent'
  <2>1. Quiet' => Quiet
    BY <1>0 DEF Quiet
  <2> QED  BY <1>0, <2>1 DEF Prepare, FlightCurrent
<1>6. CatalogIsCurrent'
  BY <1>3 DEF Prepare, Invalidate, CatalogIsCurrent
<1>7. GuestCatalogIsCurrent'
  BY <1>3 DEF Prepare, Invalidate, GuestCatalogIsCurrent
<1>8. ReaderFresh'
  BY <1>3 DEF Prepare, Invalidate, ReaderFresh, Reads
<1> QED  BY <1>1, <1>2, <1>4, <1>5, <1>6, <1>7, <1>8

\* Whatever an operation changes was invalidated before, so a commit cannot
\* leave a valid catalog behind the database, whatever it reports.
LEMMA CommitInv ==
  ASSUME Inv, NEW m \in Mutators, Commit(m)
  PROVE /\ GateShape' /\ OpShape' /\ Prepared' /\ FlightCurrent'
        /\ LiveHasRev' /\ CatalogIsCurrent' /\ GuestCatalogIsCurrent' /\ ReaderFresh'
<1> USE DEF Inv, TypeOK
<1>0. /\ op[m].pc = "invalidated" /\ op' \in [Mutators -> Ops]
      /\ op'[m].pc \in {"cleanup", "leave"}
      /\ op'[m].node = op[m].node /\ op'[m].clears = op[m].clears /\ op'[m].kind = op[m].kind
      /\ \A x \in Mutators \ {m} : op'[x] = op[x]
  <2> PICK pc \in {"cleanup", "leave"} : op' = [op EXCEPT ![m].pc = pc]
    BY DEF Commit
  <2>1. op' \in [Mutators -> Ops]
    BY OpMoves
  <2> QED  BY <2>1 DEF Commit, Ops
<1>1. GateShape'
  BY <1>0 DEF Commit, GateShape, InGate, PublishExcludesMutation
<1>2. /\ \A n \in Nodes : rev'[n] >= rev[n]
      /\ UNCHANGED row
  BY DEF Commit, Apply
<1>3. OpShape'
  <2>1. ASSUME NEW x \in Mutators, op'[x].pc # "idle", op'[x].kind = "create"
        PROVE /\ x = m
              /\ \A y \in Mutators : op'[y].pc # "idle" => y = x
    BY <2>1, <1>0 DEF OpShape
  <2> QED  BY <1>0, <2>1 DEF OpShape
<1>4. Prepared'
  BY <1>0 DEF Commit, Prepared
<1>5. FlightCurrent'
  <2>1. ~Quiet'
    BY <1>0 DEF Quiet
  <2> QED  BY <1>2, <2>1 DEF Commit, FlightCurrent
<1>6. /\ "catalog" \in op[m].clears => catalog = NoCatalog
      /\ "guest" \in op[m].clears => guestCatalog = NoCatalog
      /\ "meta" \in op[m].clears => meta[op[m].node] = 0
      /\ op[m].kind \notin {"patch", "static"} => "catalog" \in op[m].clears
      /\ op[m].kind = "delete" => "guest" \in op[m].clears
      /\ op[m].kind = "static" => "meta" \in op[m].clears
      /\ op[m].kind # "reorder" => op[m].node \in Nodes
      /\ op[m].kind = "create" => rev[op[m].node] = 0
  BY <1>0 DEF Prepared, OpShape
<1>7. LiveHasRev'
  BY <1>0, <1>2, <1>6 DEF Commit, Apply, LiveHasRev
<1>8. CatalogIsCurrent'
  <2>1. CASE UNCHANGED dbVars
    BY <2>1 DEF Commit, CatalogIsCurrent
  <2>2. CASE Apply(op[m]) /\ op[m].kind \in {"patch", "static"}
    BY <1>6, <2>2 DEF Commit, Apply, CatalogIsCurrent
  <2>3. CASE op[m].kind \notin {"patch", "static"}
    BY <1>6, <2>3 DEF Commit, CatalogIsCurrent
  <2> QED  BY <2>1, <2>2, <2>3 DEF Commit
<1>9. GuestCatalogIsCurrent'
  <2>1. CASE UNCHANGED dbVars
    BY <2>1 DEF Commit, GuestCatalogIsCurrent
  <2>2. CASE "guest" \in op[m].clears
    BY <1>6, <2>2 DEF Commit, GuestCatalogIsCurrent
  <2>3. CASE Apply(op[m]) /\ "guest" \notin op[m].clears
    <3>1. op[m].kind = "create" => op[m].node \notin live
      BY <1>6 DEF LiveHasRev
    <3>2. live' \cap visible' = live \cap visible
      BY <1>6, <2>3, <3>1 DEF Apply
    <3> QED  BY <3>2 DEF Commit, GuestCatalogIsCurrent
  <2> QED  BY <2>1, <2>2, <2>3 DEF Commit
<1>10. ReaderFresh'
  <2>1. rev' \in [Nodes -> Nat]
    BY DEF Commit, Apply
  <2>2. \A r \in Callers, n \in Nodes : reader[r].since[n] \in Nat
    BY DEF Reads
  <2>3. \A r \in Callers, n \in Nodes : reader[r].since[n] <= rev'[n]
    BY <1>2, <2>1, <2>2 DEF ReaderFresh
  <2> QED  BY <2>3 DEF Commit, ReaderFresh
<1> QED  BY <1>1, <1>3, <1>4, <1>5, <1>7, <1>8, <1>9, <1>10

LEMMA CleanupInv ==
  ASSUME Inv, NEW m \in Mutators, Cleanup(m)
  PROVE /\ GateShape' /\ OpShape' /\ Prepared' /\ FlightCurrent'
        /\ CatalogIsCurrent' /\ GuestCatalogIsCurrent' /\ ReaderFresh'
<1> USE DEF Inv, TypeOK
<1>0. /\ op[m].pc = "cleanup" /\ op' \in [Mutators -> Ops] /\ op'[m].pc = "leave"
      /\ op'[m].node = op[m].node /\ op'[m].clears = op[m].clears /\ op'[m].kind = op[m].kind
      /\ \A x \in Mutators \ {m} : op'[x] = op[x]
  <2>1. op' \in [Mutators -> Ops]
    BY OpMoves DEF Cleanup
  <2> QED  BY <2>1 DEF Cleanup, Ops
<1>1. GateShape'
  BY <1>0 DEF Cleanup, GateShape, InGate, PublishExcludesMutation
<1>2. OpShape'
  BY <1>0 DEF Cleanup, OpShape
<1>3. /\ catalog' \in {catalog, NoCatalog} /\ guestCatalog' \in {guestCatalog, NoCatalog}
      /\ \A n \in Nodes : meta'[n] \in {meta[n], 0}
      /\ ids' \subseteq ids
      /\ guestCatalog' # NoCatalog => guestIds' = guestIds
  BY DEF Cleanup
<1>4. Prepared'
  BY <1>0, <1>3 DEF Prepared, OpShape
<1>5. FlightCurrent'
  <2>1. ~Quiet'
    BY <1>0 DEF Quiet
  <2> QED  BY <2>1 DEF Cleanup, FlightCurrent
<1>6. CatalogIsCurrent' /\ GuestCatalogIsCurrent'
  BY <1>3 DEF Cleanup, CatalogIsCurrent, GuestCatalogIsCurrent
<1>7. ReaderFresh'
  BY <1>3 DEF Cleanup, ReaderFresh, Reads
<1> QED  BY <1>1, <1>2, <1>4, <1>5, <1>6, <1>7

LEMMA LeaveInv ==
  ASSUME Inv, NEW m \in Mutators, Leave(m)
  PROVE GateShape' /\ OpShape' /\ Prepared' /\ FlightCurrent'
<1> USE DEF Inv, Leave, LeaveGate, TypeOK, NoOp
<1>1. GateShape'
  BY DEF GateShape, InGate, PublishExcludesMutation
<1>2. OpShape'
  BY DEF OpShape
<1>3. Prepared'
  BY DEF Prepared
<1>4. FlightCurrent'
  <2>1. \A v \in Views : flight[v].pc # "write"
    BY DEF GateShape, InGate, PublishExcludesMutation
  <2>2. \A v \in Views : flight[v].ver < version'
    BY DEF FlightCurrent, Flights
  <2> QED  BY <2>1, <2>2 DEF FlightCurrent, Flights
<1> QED  BY <1>1, <1>2, <1>3, <1>4

\* Clearing the catalog, in the gate or outside it, disturbs nothing.
LEMMA CatalogCleared ==
  ASSUME Inv, catalog' \in {catalog, NoCatalog}, op' = op,
         UNCHANGED <<live, rev, row, ids, meta, guestCatalog>>
  PROVE CatalogIsCurrent' /\ Prepared'
  BY DEF Inv, CatalogIsCurrent, Prepared

LEMMA IngestInv ==
  ASSUME Inv, NEW n \in Nodes, Ingest(n)
  PROVE /\ GateShape' /\ OpShape' /\ Prepared' /\ FlightCurrent'
        /\ LiveHasRev' /\ CatalogIsCurrent' /\ GuestCatalogIsCurrent'
        /\ ReaderShape' /\ ReaderFresh'
<1>0. UNCHANGED <<live, rev, visible, ids, meta, guestCache, op, flight, reader>>
  BY DEF Ingest, Save, Classify, Put, EnterUnknown, PutInvalidate, LeaveUnknown,
         ForgetUnknown, ClearAfterFailure
<1>1. OpShape' /\ LiveHasRev' /\ GuestCatalogIsCurrent' /\ ReaderShape' /\ ReaderFresh'
  BY <1>0 DEF Inv, OpShape, LiveHasRev, GuestCatalogIsCurrent, ReaderShape, ReaderFresh
<1> USE DEF Inv, TypeOK
<1>2. CASE Save(n)
  <2>1. \A k \in Nodes : row'[k] >= row[k] /\ row'[k] \in Nat
    BY <1>2 DEF Save
  <2>2. GateShape'
    BY <1>2 DEF Save, GateShape, InGate, PublishExcludesMutation
  <2>3. Prepared' /\ CatalogIsCurrent'
    BY <1>2, <2>1 DEF Save, Prepared, CatalogIsCurrent
  <2>4. FlightCurrent'
    BY <1>2, <2>1 DEF Save, FlightCurrent, Quiet, Flights
  <2> QED  BY <1>1, <2>2, <2>3, <2>4
<1>3. CASE Classify(n) \/ Put(n) \/ ForgetUnknown(n)
  <2>1. UNCHANGED <<dbVars, catalog, ids, meta, guestCache, gateVars, op, flight>>
    BY <1>3 DEF Classify, Put, ForgetUnknown
  <2>2. /\ ipc' = [ipc EXCEPT ![n] = ipc'[n]]
        /\ ipc[n] \in {"saved", "put", "forget"} /\ ipc'[n] \in {"put", "gate", "idle", "failed"}
    BY <1>3 DEF Classify, Put, ForgetUnknown
  <2>3. GateShape'
    BY <2>1, <2>2 DEF GateShape, InGate, PublishExcludesMutation
  <2>4. Prepared' /\ CatalogIsCurrent' /\ FlightCurrent'
    BY <2>1 DEF Prepared, CatalogIsCurrent, FlightCurrent, Quiet
  <2> QED  BY <1>1, <2>3, <2>4
<1>4. CASE EnterUnknown(n)
  <2>1. GateShape'
    BY <1>4 DEF EnterUnknown, EnterGate, GateShape, InGate, PublishExcludesMutation
  <2>2. Prepared' /\ CatalogIsCurrent' /\ FlightCurrent'
    BY <1>4 DEF EnterUnknown, EnterGate, Prepared, CatalogIsCurrent, FlightCurrent, Quiet
  <2> QED  BY <1>1, <2>1, <2>2
<1>5. CASE PutInvalidate(n) \/ ClearAfterFailure(n)
  <2>1. catalog' \in {catalog, NoCatalog} /\ UNCHANGED <<dbVars, gateVars>>
    BY <1>5 DEF PutInvalidate, ClearAfterFailure
  <2>2. \/ ipc[n] = "invalidate" /\ ipc' \in {[ipc EXCEPT ![n] = "leave"],
                                              [ipc EXCEPT ![n] = "leaveFailed"]}
        \/ ipc[n] = "failed" /\ ipc' = [ipc EXCEPT ![n] = "idle"]
    BY <1>5 DEF PutInvalidate, ClearAfterFailure
  <2>3. GateShape'
    BY <1>0, <2>1, <2>2 DEF GateShape, InGate, PublishExcludesMutation
  <2>4. FlightCurrent'
    BY <1>0, <2>1 DEF FlightCurrent, Quiet
  <2> QED  BY <1>0, <1>1, <2>1, <2>3, <2>4, CatalogCleared
<1>6. CASE LeaveUnknown(n)
  <2>1. GateShape'
    BY <1>6 DEF LeaveUnknown, LeaveGate, GateShape, InGate, PublishExcludesMutation
  <2>2. Prepared' /\ CatalogIsCurrent'
    BY <1>6 DEF LeaveUnknown, Prepared, CatalogIsCurrent
  <2>3. FlightCurrent'
    <3>1. \A v \in Views : flight[v].pc # "write"
      BY <1>6 DEF LeaveUnknown, GateShape, PublishExcludesMutation
    <3>2. \A v \in Views : flight[v].ver < version' /\ flight[v].ver <= version'
      BY <1>6 DEF LeaveUnknown, LeaveGate, FlightCurrent, Flights
    <3> QED  BY <1>6, <3>1, <3>2 DEF LeaveUnknown, FlightCurrent, Flights
  <2> QED  BY <1>1, <2>1, <2>2, <2>3
<1> QED  BY <1>2, <1>3, <1>4, <1>5, <1>6 DEF Ingest

-----------------------------------------------------------------------------
(* Rebuilds *)

LEMMA FetchInv ==
  ASSUME Inv, NEW v \in Views, ReadVersion(v) \/ FetchRows(v) \/ FetchServers(v) \/ FetchFails(v)
  PROVE GateShape' /\ FlightCurrent' /\ ReaderShape'
<1> USE DEF Inv, TypeOK
<1>1. CASE ReadVersion(v)
  <2>1. /\ flight'[v].pc = "rows" /\ flight'[v].ver = version
        /\ flight'[v].rows = flight[v].rows /\ flight'[v].meta = flight[v].meta
        /\ \A w \in Views \ {v} : flight'[w] = flight[w]
    BY <1>1, FlightAt DEF ReadVersion, Flights
  <2>2. FlightOK(v, flight[v])'
    BY <1>1, <2>1 DEF ReadVersion, FlightCurrent, Quiet, Flights
  <2>3. FlightCurrent'
    BY <1>1, <2>1, <2>2 DEF ReadVersion, FlightCurrent, Quiet
  <2> QED
    BY <1>1, <2>1, <2>3 DEF ReadVersion, GateShape, InGate, PublishExcludesMutation, ReaderShape
<1>2. CASE FetchRows(v)
  <2>1. /\ flight'[v].ver = flight[v].ver /\ flight'[v].meta = flight[v].meta
        /\ v = "nodes" =>
             /\ flight'[v].pc = "servers"
             /\ flight'[v].rows = [n \in Nodes |-> IF n \in live THEN row[n] ELSE 0]
        /\ v = "guests" =>
             /\ flight'[v].pc = "publish" /\ flight'[v].rows = flight[v].rows
             /\ flight'[v].guest = live \cap visible
        /\ \A w \in Views \ {v} : flight'[w] = flight[w]
    BY <1>2, FlightAt DEF FetchRows, Flights
  <2>2. FlightOK(v, flight[v])'
    <3>1. flight[v].pc = "rows" /\ flight[v].meta = Zero
      BY <1>2 DEF FetchRows, FlightCurrent
    <3> QED  BY <1>2, <2>1, <3>1 DEF FetchRows, FlightCurrent, Quiet, Flights, Zero
  <2>3. FlightCurrent'
    BY <1>2, <2>1, <2>2 DEF FetchRows, FlightCurrent, Quiet
  <2> QED
    BY <1>2, <2>1, <2>3 DEF FetchRows, GateShape, InGate, PublishExcludesMutation, ReaderShape
<1>3. CASE FetchServers(v)
  <2>1. /\ flight'[v].pc = "publish" /\ flight'[v].ver = flight[v].ver
        /\ flight'[v].rows = flight[v].rows
        /\ flight'[v].meta = [n \in Nodes |->
               IF n \in live /\ flight[v].rows[n] > 0 THEN rev[n] ELSE 0]
        /\ \A w \in Views \ {v} : flight'[w] = flight[w]
    BY <1>3, FlightAt DEF FetchServers, Flights
  <2>2. FlightOK(v, flight[v])'
    BY <1>3, <2>1 DEF FetchServers, FlightCurrent, Quiet, Flights
  <2>3. FlightCurrent'
    BY <1>3, <2>1, <2>2 DEF FetchServers, FlightCurrent, Quiet
  <2> QED
    BY <1>3, <2>1, <2>3 DEF FetchServers, GateShape, InGate, PublishExcludesMutation, ReaderShape
<1>4. CASE FetchFails(v)
  <2>1. flight' = [flight EXCEPT ![v] = NoFlight] /\ flight[v].pc \in {"rows", "servers"}
    BY <1>4 DEF FetchFails, FlightEnds
  <2>2. FlightCurrent'
    BY <1>4, <2>1 DEF FetchFails, NoFlight, FlightCurrent, Quiet, Zero
  <2> QED
    BY <1>4, <2>1, <2>2 DEF FetchFails, NoFlight, GateShape, InGate, PublishExcludesMutation,
                            ReaderShape
<1> QED  BY <1>1, <1>2, <1>3, <1>4

LEMMA PublishInv ==
  ASSUME Inv, NEW v \in Views, Publish(v)
  PROVE GateShape' /\ FlightCurrent' /\ ReaderShape'
<1> USE DEF Inv, TypeOK
<1>0. flight[v].pc = "publish" /\ UNCHANGED <<dbVars, version, active, op, ipc, reader>>
  BY DEF Publish
<1>1. CASE /\ Current(flight[v].ver) /\ builds' = builds \cup {v} /\ FlightTo(v, "write")
  <2>1. /\ flight'[v].pc = "write" /\ flight'[v].ver = flight[v].ver
        /\ flight'[v].rows = flight[v].rows /\ flight'[v].meta = flight[v].meta
        /\ flight'[v].guest = flight[v].guest
        /\ \A w \in Views \ {v} : flight'[w] = flight[w]
    BY <1>1, FlightAt DEF FlightTo
  <2>2. FlightOK(v, flight[v])'
    BY <1>0, <1>1, <2>1 DEF FlightCurrent, Quiet, Current
  <2>3. FlightCurrent'
    BY <1>0, <2>1, <2>2 DEF FlightCurrent, Quiet
  <2> QED
    BY <1>0, <1>1, <2>1, <2>3 DEF GateShape, InGate, PublishExcludesMutation, ReaderShape, Current
<1>2. CASE /\ builds' = builds
           /\ \/ flight' = [flight EXCEPT ![v] = [At(NoFlight, "version") EXCEPT
                                                    !.tries = flight[v].tries + 1]]
              \/ FlightEnds(v)
  <2>1. /\ flight'[v].pc \in {"version", "idle"} /\ flight'[v].ver = 0
        /\ flight'[v].rows = Zero /\ flight'[v].meta = Zero
        /\ \A w \in Views \ {v} : flight'[w] = flight[w]
    <3>1. NoFlight.pc = "idle" /\ NoFlight.ver = 0 /\ NoFlight.rows = Zero /\ NoFlight.meta = Zero
      BY DEF NoFlight
    <3>2. CASE FlightEnds(v)
      BY <3>1, <3>2 DEF FlightEnds
    <3>3. CASE flight' = [flight EXCEPT ![v] = [At(NoFlight, "version") EXCEPT
                                                   !.tries = flight[v].tries + 1]]
      BY <3>1, <3>3, NoFlightType, FlightAt DEF Flights
    <3> QED  BY <1>2, <3>2, <3>3
  <2>2. FlightCurrent'
    BY <1>0, <2>1 DEF FlightCurrent, Quiet, Zero
  <2> QED
    BY <1>0, <1>2, <2>1, <2>2 DEF GateShape, InGate, PublishExcludesMutation, ReaderShape
<1> QED  BY <1>1, <1>2 DEF Publish

\* What a rebuild writes is what PostgreSQL holds: nothing is in the gate, so
\* nothing has committed since its generation.
LEMMA WriteInv ==
  ASSUME Inv, NEW v \in Views, Write(v)
  PROVE /\ GateShape' /\ Prepared' /\ FlightCurrent'
        /\ CatalogIsCurrent' /\ GuestCatalogIsCurrent' /\ ReaderShape' /\ ReaderFresh'
<1> USE DEF Inv, TypeOK
<1>0. /\ flight[v].pc = "write" /\ builds' = builds \ {v}
      /\ UNCHANGED <<dbVars, version, active, op, ipc>>
      /\ \A w \in Views \ {v} : flight'[w] = flight[w]
  BY DEF Write, FlightEnds, FlightTo
<1>1. active = {} /\ Quiet /\ \A m \in Mutators : op[m].pc # "invalidated"
  BY <1>0 DEF GateShape, InGate, PublishExcludesMutation, Quiet
<1>2. Prepared'
  BY <1>0, <1>1 DEF Prepared
<1>3. /\ flight'[v].pc \in {"idle", "reread"} /\ flight'[v].ver <= version
      /\ flight'[v].pc = "idle" => flight'[v].meta = Zero
      /\ \A n \in Nodes : /\ flight'[v].rows[n] <= row[n]
                          /\ flight'[v].meta[n] > 0 => flight'[v].rows[n] > 0
      /\ \/ reader' = reader
         \/ /\ v = "nodes" /\ flight'[v].pc = "reread"
            /\ reader' = [reader EXCEPT !["flight"] = At(reader["flight"], "catalog")]
  <2>1. CASE FlightEnds(v) /\ UNCHANGED reader
    BY <2>1 DEF FlightEnds, NoFlight, Zero
  <2>2. CASE /\ v = "nodes" /\ FlightTo(v, "reread")
             /\ reader' = [reader EXCEPT !["flight"] = At(reader["flight"], "catalog")]
    BY <2>2, FlightAt DEF FlightTo, FlightCurrent
  <2> QED  BY <2>1, <2>2 DEF Write
<1>4. GateShape'
  BY <1>0, <1>3 DEF GateShape, InGate, PublishExcludesMutation
<1>5. FlightCurrent'
  BY <1>0, <1>3 DEF FlightCurrent, Quiet
<1>6. ReaderShape'
  <2>1. reader["flight"] \in Reads
    OBVIOUS
  <2> QED  BY <1>0, <1>3, <2>1, ReaderAt DEF ReaderShape
<1>7. \A r \in Callers : reader'[r] = reader[r]
  BY <1>3
<1>8. CASE UNCHANGED <<nodeCache, guestCache>>
  BY <1>0, <1>2, <1>4, <1>5, <1>6, <1>7, <1>8
     DEF CatalogIsCurrent, GuestCatalogIsCurrent, ReaderFresh
<1>9. CASE v = "nodes" /\ replaceSnapshot(flight[v])
  <2>1. \A n \in Nodes : flight[v].meta[n] > 0 =>
           n \in live /\ flight[v].meta[n] = rev[n] /\ row[n] > 0
    BY <1>0, <1>1, <1>9 DEF FlightCurrent, Flights
  <2>2. \A n \in Nodes :
          /\ n \in ids' <=> flight[v].meta[n] > 0
          /\ n \in ids' => meta'[n] = flight[v].meta[n]
          /\ n \in ids \ ids' => meta'[n] = 0
          /\ n \notin ids' => meta'[n] \in {0, meta[n]}
    BY <1>9 DEF replaceSnapshot, Forgotten, Flights
  <2>3. CatalogIsCurrent' /\ GuestCatalogIsCurrent'
    BY <1>0, <1>9, <2>1, <2>2 DEF replaceSnapshot, CatalogIsCurrent, GuestCatalogIsCurrent
  <2>4. ReaderFresh'
    <3>1. ids' \subseteq Nodes /\ \A r \in Callers : reader[r].listed \subseteq Nodes
      BY <1>9 DEF replaceSnapshot, Reads
    <3>2. \A r \in Callers, n \in Nodes : reader[r].since[n] <= rev[n]
      BY DEF ReaderFresh
    <3> QED  BY <1>0, <1>7, <2>1, <2>2, <3>1, <3>2 DEF ReaderFresh
  <2> QED  BY <1>2, <1>4, <1>5, <1>6, <2>3, <2>4
<1>10. CASE v = "guests" /\ replaceGuestVisibleIDs(flight[v])
  <2>1. flight[v].guest = live \cap visible
    BY <1>0, <1>1, <1>10 DEF FlightCurrent
  <2>2. CatalogIsCurrent' /\ GuestCatalogIsCurrent' /\ ReaderFresh'
    BY <1>0, <1>7, <1>10, <2>1
       DEF replaceGuestVisibleIDs, CatalogIsCurrent, GuestCatalogIsCurrent, ReaderFresh
  <2> QED  BY <1>2, <1>4, <1>5, <1>6, <2>2
<1> QED  BY <1>8, <1>9, <1>10 DEF Write

-----------------------------------------------------------------------------
(* Requests *)

LEMMA ReadInv ==
  ASSUME Inv, NEW r \in Readers, Read(r)
  PROVE /\ GateShape' /\ OpShape' /\ Prepared' /\ FlightCurrent'
        /\ LiveHasRev' /\ CatalogIsCurrent' /\ GuestCatalogIsCurrent'
        /\ ReaderShape' /\ ReaderFresh'
<1> USE DEF Inv, TypeOK
<1>0. /\ UNCHANGED <<dbVars, ids, meta, runtime, guestCache, gateVars, op, ipc>>
      /\ catalog' \in {catalog, NoCatalog}
  BY DEF Read, ClearCorrupt
<1>1. OpShape' /\ LiveHasRev' /\ GuestCatalogIsCurrent'
  BY <1>0 DEF OpShape, LiveHasRev, GuestCatalogIsCurrent
<1>2. CatalogIsCurrent' /\ Prepared'
  BY <1>0, CatalogCleared
<1> DEFINE Goal == GateShape' /\ FlightCurrent' /\ ReaderShape' /\ ReaderFresh'
<1>3. reader[r] \in Reads /\ NoRead \in Reads /\ flight["nodes"] \in Flights
  BY NoFlightType
<1>4. ASSUME reader[r].pc # "idle", Over(r) PROVE Goal
  <2>1. r = "flight" => flight["nodes"].pc = "reread"
    BY <1>4 DEF ReaderShape
  <2>2. \A w \in Views : flight'[w] # flight[w] =>
           w = "nodes" /\ flight[w].pc = "reread" /\ flight'[w] = NoFlight
    BY <1>4, <2>1 DEF Over, FlightEnds
  <2>3. GateShape'
    BY <1>0, <2>2 DEF GateShape, InGate, PublishExcludesMutation, NoFlight
  <2>4. FlightCurrent'
    BY <1>0, <2>2 DEF FlightCurrent, Quiet, NoFlight, Zero
  <2>5. ReaderShape'
    BY <1>4, <2>2 DEF Over, ReaderShape, NoRead
  <2>6. ReaderFresh'
    BY <1>0, <1>4 DEF Over, ReaderFresh, NoRead, Zero
  <2> QED  BY <2>3, <2>4, <2>5, <2>6
<1>5. ASSUME UNCHANGED flight, r \in Callers \/ reader'[r].pc \notin {"missed", "joined"},
             reader[r].pc # "idle", reader'[r] \in Reads,
             \A s \in Readers \ {r} : reader'[s] = reader[s],
             r \in Callers =>
                /\ \A n \in Nodes : reader'[r].since[n] <= rev[n]
                /\ reader'[r].pc # "catalog"
                /\ reader'[r].pc \in {"ids", "runtime", "meta"} =>
                     \A n \in ids \cup reader'[r].listed :
                         meta[n] > 0 => meta[n] >= reader'[r].since[n]
      PROVE Goal
  <2>1. GateShape' /\ FlightCurrent'
    BY <1>0, <1>5 DEF GateShape, InGate, PublishExcludesMutation, FlightCurrent, Quiet
  <2>2. ReaderShape'
    BY <1>5 DEF ReaderShape
  <2>3. ReaderFresh'
    BY <1>0, <1>5 DEF ReaderFresh
  <2> QED  BY <2>1, <2>2, <2>3
<1>6. ASSUME reader[r].pc # "idle", Missed(r) PROVE Goal
  <2>1. CASE r = "flight"
    BY <1>4, <1>6, <2>1 DEF Missed
  <2>2. CASE r # "flight"
    <3>1. /\ reader'[r] = At(NoRead, "missed") /\ UNCHANGED flight
          /\ \A s \in Readers \ {r} : reader'[s] = reader[s]
      BY <1>6, <2>2 DEF Missed
    <3>2. At(NoRead, "missed") \in Reads /\ At(NoRead, "missed").pc = "missed"
          /\ At(NoRead, "missed").since = Zero
      BY <1>3, ReaderAt DEF NoRead
    <3> QED  BY <1>5, <1>6, <2>2, <3>1, <3>2 DEF Zero
  <2> QED  BY <2>1, <2>2
<1>7. ASSUME NEW pc \in {"runtime", "meta", "corrupt"}, Goto(r, pc),
             reader[r].pc \in {"runtime", "meta"}
      PROVE Goal
  <2>1. /\ reader'[r] = At(reader[r], pc) /\ UNCHANGED flight
        /\ \A s \in Readers \ {r} : reader'[s] = reader[s]
    BY <1>7 DEF Goto
  <2>2. /\ reader'[r] \in Reads /\ reader'[r].pc = pc
        /\ reader'[r].since = reader[r].since /\ reader'[r].listed = reader[r].listed
    BY <1>3, <2>1, ReaderAt
  <2>3. r \in Callers =>
          /\ \A n \in Nodes : reader[r].since[n] <= rev[n]
          /\ \A n \in ids \cup reader[r].listed : meta[n] > 0 => meta[n] >= reader[r].since[n]
    BY <1>7 DEF ReaderFresh
  <2> QED  BY <1>5, <1>7, <2>1, <2>2, <2>3
<1>8. CASE ReadCatalog(r)
  <2>1. CASE catalog = NoCatalog
    BY <1>6, <1>8, <2>1, <1>1, <1>2 DEF ReadCatalog
  <2>2. CASE catalog # NoCatalog
    <3>1. /\ reader'[r] = [At(reader[r], "ids") EXCEPT !.count = catalog] /\ UNCHANGED flight
          /\ \A s \in Readers \ {r} : reader'[s] = reader[s]
      BY <1>8, <2>2 DEF ReadCatalog
    <3>2. /\ reader'[r] \in Reads /\ reader'[r].pc = "ids"
          /\ reader'[r].since = reader[r].since /\ reader'[r].listed = reader[r].listed
      BY <1>3, <3>1, ReaderAt DEF Reads
    <3>3. r \in Callers =>
            /\ \A n \in Nodes : reader[r].since[n] <= rev[n]
            /\ reader[r].listed = {}
      BY <1>8 DEF ReaderFresh, ReadCatalog
    <3>4. r \in Callers => \A n \in ids : meta[n] > 0 => meta[n] >= reader[r].since[n]
      BY <2>2, <3>3, <1>3 DEF CatalogIsCurrent, Reads
    <3>5. reader[r].pc # "idle"
      BY <1>8 DEF ReadCatalog
    <3>6. Goal
      <4> HIDE DEF Goal
      <4> QED  BY <1>5, <3>1, <3>2, <3>3, <3>4, <3>5
    <3> QED  BY <1>1, <1>2, <3>6
  <2> QED  BY <2>1, <2>2
<1>9. CASE ReadIds(r)
  <2> PICK pc \in {"runtime", "corrupt"} :
         reader' = [reader EXCEPT ![r] = [At(reader[r], pc) EXCEPT !.listed = ids]]
    BY <1>9 DEF ReadIds
  <2>1. reader[r].pc = "ids" /\ UNCHANGED flight
    BY <1>9 DEF ReadIds
  <2>2. /\ reader'[r] \in Reads /\ reader'[r].pc = pc
        /\ reader'[r].since = reader[r].since /\ reader'[r].listed = ids
        /\ \A s \in Readers \ {r} : reader'[s] = reader[s]
    BY <1>3, ReaderAt DEF Reads
  <2>3. r \in Callers =>
          /\ \A n \in Nodes : reader[r].since[n] <= rev[n]
          /\ \A n \in ids : meta[n] > 0 => meta[n] >= reader[r].since[n]
    BY <2>1 DEF ReaderFresh
  <2> QED  BY <1>1, <1>2, <1>5, <2>1, <2>2, <2>3
<1>10. CASE Join(r)
  <2>1. /\ reader'[r] = At(reader[r], "joined") /\ reader[r].pc = "missed"
        /\ \A s \in Readers \ {r} : reader'[s] = reader[s]
        /\ r \in Callers
    BY <1>10 DEF Join, ReaderShape
  <2>2. /\ reader'[r] \in Reads /\ reader'[r].pc = "joined" /\ reader'[r].since = reader[r].since
    BY <1>3, <2>1, ReaderAt
  <2>3. CASE UNCHANGED flight
    BY <1>1, <1>2, <1>5, <2>1, <2>2, <2>3 DEF ReaderFresh
  <2>4. CASE flight["nodes"].pc = "idle" /\ FlightTo("nodes", "version")
    <3>1. /\ flight'["nodes"].pc = "version" /\ flight'["nodes"].ver = flight["nodes"].ver
          /\ flight'["nodes"].rows = flight["nodes"].rows
          /\ flight'["nodes"].meta = flight["nodes"].meta
          /\ flight'["guests"] = flight["guests"]
      BY <1>3, <2>4, FlightAt DEF FlightTo
    <3>2. FlightCurrent'
      <4>1. flight["nodes"].meta = Zero
        BY <2>4 DEF FlightCurrent
      <4>2. FlightOK("nodes", flight["nodes"])'
        BY <1>0, <3>1, <4>1 DEF FlightCurrent
      <4>3. FlightOK("guests", flight["guests"])'
        BY <1>0, <3>1 DEF FlightCurrent, Quiet
      <4> QED  BY <4>2, <4>3 DEF FlightCurrent
    <3>3. GateShape'
      BY <1>0, <2>4, <3>1 DEF GateShape, InGate, PublishExcludesMutation
    <3>4. ReaderShape'
      BY <2>1, <2>4 DEF ReaderShape
    <3>5. ReaderFresh'
      BY <1>0, <2>1, <2>2 DEF ReaderFresh
    <3> QED  BY <1>1, <1>2, <3>2, <3>3, <3>4, <3>5
  <2> QED  BY <1>10, <2>3, <2>4 DEF Join
<1>11. CASE ReadRuntime(r)
  <2>1. reader[r].pc = "runtime" /\ \E pc \in {"meta", "corrupt"} : Goto(r, pc)
    BY <1>11 DEF ReadRuntime
  <2>2. Goal
    <3> HIDE DEF Goal
    <3> QED  BY <1>7, <2>1
  <2> QED  BY <1>1, <1>2, <2>2
<1>12. CASE ReadMeta(r)
  <2>1. reader[r].pc = "meta" /\ (Over(r) \/ Goto(r, "corrupt"))
    BY <1>12 DEF ReadMeta
  <2>2. Goal
    <3> HIDE DEF Goal
    <3> QED  BY <1>4, <1>7, <2>1
  <2> QED  BY <1>1, <1>2, <2>2
<1>13. CASE ReadFails(r) \/ Return(r)
  <2>1. reader[r].pc # "idle" /\ Over(r)
    BY <1>13 DEF ReadFails, Return
  <2>2. Goal
    <3> HIDE DEF Goal
    <3> QED  BY <1>4, <2>1
  <2> QED  BY <1>1, <1>2, <2>2
<1>14. CASE ClearCorrupt(r)
  <2>1. reader[r].pc # "idle" /\ Missed(r)
    BY <1>14 DEF ClearCorrupt
  <2>2. Goal
    <3> HIDE DEF Goal
    <3> QED  BY <1>6, <2>1
  <2> QED  BY <1>1, <1>2, <2>2
<1> QED
  BY <1>8, <1>9, <1>10, <1>11, <1>12, <1>13, <1>14 DEF Read

LEMMA RequestInv ==
  ASSUME Inv, NEW r \in Callers, Request(r)
  PROVE /\ GateShape' /\ OpShape' /\ Prepared' /\ FlightCurrent'
        /\ LiveHasRev' /\ CatalogIsCurrent' /\ GuestCatalogIsCurrent'
        /\ ReaderShape' /\ ReaderFresh'
<1> USE DEF Inv, TypeOK
<1>0. /\ UNCHANGED <<dbVars, nodeCache, guestCache, unknown, gateVars, op, ipc, flight>>
      /\ \A s \in Readers \ {r} : reader'[s] = reader[s]
      /\ reader'[r].pc = "catalog" /\ reader'[r].listed = {} /\ reader'[r].since = rev
  BY DEF Request
<1>1. GateShape' /\ OpShape' /\ Prepared' /\ FlightCurrent'
  BY <1>0 DEF GateShape, InGate, PublishExcludesMutation, OpShape, Prepared, FlightCurrent, Quiet
<1>2. LiveHasRev' /\ CatalogIsCurrent' /\ GuestCatalogIsCurrent'
  BY <1>0 DEF LiveHasRev, CatalogIsCurrent, GuestCatalogIsCurrent
<1>3. ReaderShape'
  BY <1>0 DEF ReaderShape
<1>4. ReaderFresh'
  BY <1>0 DEF ReaderFresh
<1> QED  BY <1>1, <1>2, <1>3, <1>4

LEMMA RequestGuestsInv ==
  ASSUME Inv, RequestGuests
  PROVE GateShape' /\ FlightCurrent' /\ ReaderShape'
<1> USE DEF Inv, TypeOK
<1>0. /\ UNCHANGED <<dbVars, nodeCache, guestCache, unknown, gateVars, op, ipc, reader>>
      /\ flight["guests"].pc = "idle" /\ flight["guests"] \in Flights
      /\ flight'["nodes"] = flight["nodes"]
      /\ flight'["guests"] = At(flight["guests"], "version")
  BY DEF RequestGuests, FlightTo
<1>1. /\ flight'["guests"].pc = "version" /\ flight'["guests"].ver = flight["guests"].ver
      /\ flight'["guests"].rows = flight["guests"].rows
      /\ flight'["guests"].meta = flight["guests"].meta
  BY <1>0, FlightAt
<1>2. GateShape' /\ ReaderShape'
  BY <1>0, <1>1 DEF GateShape, InGate, PublishExcludesMutation, ReaderShape
<1>3. flight["guests"].meta = Zero
  BY <1>0 DEF FlightCurrent
<1>4. FlightOK("guests", flight["guests"])'
  BY <1>0, <1>1, <1>3 DEF FlightCurrent
<1>5. FlightOK("nodes", flight["nodes"])'
  BY <1>0 DEF FlightCurrent, Quiet
<1> QED  BY <1>2, <1>4, <1>5 DEF FlightCurrent

\* The cache survives a crash of the process only where Redis keeps it, and
\* there it was current.
LEMMA CrashInv ==
  ASSUME Inv, Crash
  PROVE /\ GateShape' /\ OpShape' /\ Prepared' /\ FlightCurrent'
        /\ LiveHasRev' /\ CatalogIsCurrent' /\ GuestCatalogIsCurrent'
        /\ ReaderShape' /\ ReaderFresh'
<1> USE DEF Inv, TypeOK
<1>1. GateShape' /\ OpShape' /\ Prepared' /\ ReaderShape'
  BY DEF Crash, GateShape, InGate, PublishExcludesMutation, OpShape, Prepared, ReaderShape,
         NoOp, NoFlight, NoRead
<1>2. LiveHasRev' /\ CatalogIsCurrent' /\ GuestCatalogIsCurrent'
  BY DEF Crash, LiveHasRev, CatalogIsCurrent, GuestCatalogIsCurrent
<1>3. FlightCurrent'
  BY DEF Crash, FlightCurrent, NoFlight, Zero
<1>4. ReaderFresh'
  BY DEF Crash, ReaderFresh, NoRead, Zero
<1> QED  BY <1>1, <1>2, <1>3, <1>4

-----------------------------------------------------------------------------

LEMMA InvNext == ASSUME Inv, [Next]_vars PROVE Inv'
<1> USE DEF Inv
<1>0. TypeOK'
  BY TypeNext
<1> DEFINE Database == LiveHasRev' /\ CatalogIsCurrent' /\ GuestCatalogIsCurrent'
           Requests == ReaderShape' /\ ReaderFresh'
<1>1. ASSUME UNCHANGED <<dbVars, nodeCache, guestCache>> PROVE Database
  BY <1>1 DEF LiveHasRev, CatalogIsCurrent, GuestCatalogIsCurrent
<1>2. ASSUME UNCHANGED <<flight, reader>> PROVE ReaderShape'
  BY <1>2 DEF ReaderShape
<1>3. ASSUME UNCHANGED <<dbVars, nodeCache, reader>> PROVE ReaderFresh'
  BY <1>3 DEF ReaderFresh
<1>4. ASSUME UNCHANGED <<dbVars, op>> PROVE OpShape'
  BY <1>4 DEF OpShape
<1>5. ASSUME UNCHANGED <<nodeCache, guestCache, op>> PROVE Prepared'
  BY <1>5 DEF Prepared
<1>6. ASSUME NEW m \in Mutators, Mutation(m) PROVE Inv'
  <2>1. CASE \E kind \in Kinds, n \in Nodes \cup {NoNode}, patch \in Patches :
               Begin(m, kind, n, patch)
    <3> PICK kind \in Kinds, n \in Nodes \cup {NoNode}, patch \in Patches :
               Begin(m, kind, n, patch)
      BY <2>1
    <3>1. UNCHANGED <<dbVars, nodeCache, guestCache, flight, reader>>
      BY DEF Begin
    <3> QED  BY <1>0, <1>1, <1>2, <1>3, <3>1, BeginInv
  <2>2. CASE Enter(m)
    <3>1. UNCHANGED <<dbVars, nodeCache, guestCache, flight, reader>>
      BY <2>2 DEF Enter
    <3> QED  BY <1>0, <1>1, <1>2, <1>3, <2>2, <3>1, EnterInv
  <2>3. CASE Prepare(m)
    <3>1. UNCHANGED <<dbVars, flight, reader>>
      BY <2>3 DEF Prepare
    <3>2. LiveHasRev'
      BY <3>1 DEF LiveHasRev
    <3> QED  BY <1>0, <1>2, <2>3, <3>1, <3>2, PrepareInv
  <2>4. CASE Commit(m)
    <3>1. UNCHANGED <<flight, reader>>
      BY <2>4 DEF Commit
    <3> QED  BY <1>0, <1>2, <2>4, <3>1, CommitInv
  <2>5. CASE Cleanup(m)
    <3>1. UNCHANGED <<dbVars, flight, reader>>
      BY <2>5 DEF Cleanup
    <3>2. LiveHasRev'
      BY <3>1 DEF LiveHasRev
    <3> QED  BY <1>0, <1>2, <2>5, <3>1, <3>2, CleanupInv
  <2>6. CASE Leave(m)
    <3>1. UNCHANGED <<dbVars, nodeCache, guestCache, flight, reader>>
      BY <2>6 DEF Leave
    <3> QED  BY <1>0, <1>1, <1>2, <1>3, <2>6, <3>1, LeaveInv
  <2> QED  BY <1>6, <2>1, <2>2, <2>3, <2>4, <2>5, <2>6 DEF Mutation
<1>7. ASSUME NEW n \in Nodes, Ingest(n) PROVE Inv'
  BY <1>0, <1>7, IngestInv
<1>8. ASSUME NEW v \in Views, Rebuild(v) PROVE Inv'
  <2>1. CASE ReadVersion(v) \/ FetchRows(v) \/ FetchServers(v) \/ FetchFails(v)
    <3>1. UNCHANGED <<dbVars, nodeCache, guestCache, op, reader>>
      BY <2>1 DEF ReadVersion, FetchRows, FetchServers, FetchFails
    <3> QED  BY <1>0, <1>1, <1>3, <1>4, <1>5, <2>1, <3>1, FetchInv
  <2>2. CASE Publish(v)
    <3>1. UNCHANGED <<dbVars, nodeCache, guestCache, op, reader>>
      BY <2>2 DEF Publish
    <3> QED  BY <1>0, <1>1, <1>3, <1>4, <1>5, <2>2, <3>1, PublishInv
  <2>3. CASE Write(v)
    <3>1. UNCHANGED <<dbVars, op>>
      BY <2>3 DEF Write
    <3>2. LiveHasRev'
      BY <3>1 DEF LiveHasRev
    <3> QED  BY <1>0, <1>4, <2>3, <3>1, <3>2, WriteInv
  <2> QED  BY <1>8, <2>1, <2>2, <2>3 DEF Rebuild
<1>9. ASSUME NEW r \in Readers, Read(r) PROVE Inv'
  BY <1>0, <1>9, ReadInv
<1>10. ASSUME NEW r \in Callers, Request(r) PROVE Inv'
  BY <1>0, <1>10, RequestInv
<1>11. CASE RequestGuests
  <2>1. UNCHANGED <<dbVars, nodeCache, guestCache, op, reader>>
    BY <1>11 DEF RequestGuests
  <2> QED  BY <1>0, <1>1, <1>3, <1>4, <1>5, <1>11, <2>1, RequestGuestsInv
<1>12. CASE Crash
  BY <1>0, <1>12, CrashInv
<1>13. CASE UNCHANGED vars
  BY <1>0, <1>1, <1>2, <1>3, <1>4, <1>5, <1>13
     DEF vars, GateShape, InGate, PublishExcludesMutation, FlightCurrent, Quiet
<1> QED
  BY <1>6, <1>7, <1>8, <1>9, <1>10, <1>11, <1>12, <1>13 DEF Next

LEMMA Invariant == Spec => []Inv
  BY InvInit, InvNext, PTL DEF Spec

\* The state of the cache, the gate and every goroutine keeps its type; in
\* particular a rebuild never makes more than its three attempts.
THEOREM TypeCorrect == Spec => []TypeOK
<1>1. Inv => TypeOK
  BY DEF Inv
<1> QED  BY Invariant, <1>1, PTL

\* However operations, ingest, rebuilds, failures and crashes interleave, no
\* publication overlaps a mutation and a valid catalog says what PostgreSQL does.
THEOREM CacheSafety ==
  Spec => [](PublishExcludesMutation /\ CatalogIsCurrent /\ GuestCatalogIsCurrent)
<1>1. Inv => PublishExcludesMutation /\ CatalogIsCurrent /\ GuestCatalogIsCurrent
  BY DEF Inv, GateShape
<1> QED  BY Invariant, <1>1, PTL

\* The four separate Redis reads of a request never yield a node list older
\* than the request.
THEOREM ServedFresh == Spec => ServedIsFresh
<1> DEFINE Fresh == \A r \in Callers :
             reader[r].pc = "meta" /\ Complete(r) /\ reader'[r].pc = "idle"
                => \A n \in reader[r].listed : meta[n] >= reader[r].since[n]
<1>1. Inv => Fresh
  BY DEF Inv, ReaderFresh, Complete
<1>2. Inv /\ [Next]_vars => [Fresh]_vars
  BY <1>1
<1> QED  BY Invariant, <1>2, PTL DEF ServedIsFresh, Spec

-----------------------------------------------------------------------------
(* Samples *)

LEMMA SampleInit == Init => SampleInv
<1> SUFFICES ASSUME Init PROVE SampleInv
  OBVIOUS
<1>1. PICK S \in SUBSET live : row = [n \in Nodes |-> IF n \in S THEN 1 ELSE 0]
  BY DEF Init
<1>2. SamplesHaveRows
  BY <1>1 DEF Init, SamplesHaveRows, Zero
<1>3. RowsIncludeSamples /\ ServersIncludeRows /\ IngestCleared /\ CleanupOfDeleted /\ MissingNodeHeals
  BY DEF Init, RowsIncludeSamples, ServersIncludeRows, IngestCleared, CleanupOfDeleted, MissingNodeHeals, NoFlight, NoOp
<1> QED  BY <1>2, <1>3 DEF SampleInv

\* Operations on nodes.
LEMMA MutationSamples ==
  ASSUME Inv, SampleInv, NEW m \in Mutators, Mutation(m)
  PROVE SampleInv'
<1> USE DEF Inv, TypeOK, SampleInv
<1>1. CASE \E kind \in Kinds, n \in Nodes \cup {NoNode}, patch \in Patches : Begin(m, kind, n, patch)
  <2> PICK kind \in Kinds, n \in Nodes \cup {NoNode}, patch \in Patches : Begin(m, kind, n, patch)
    BY <1>1
  <2>1. SamplesHaveRows' /\ RowsIncludeSamples' /\ IngestCleared' /\ MissingNodeHeals'
    BY DEF Begin, SamplesHaveRows, RowsIncludeSamples, Sampled, IngestCleared, MissingNodeHeals
  <2>2. ServersIncludeRows' /\ CleanupOfDeleted'
    BY DEF Begin, ServersIncludeRows, CleanupOfDeleted, Quiet
  <2> QED  BY <2>1, <2>2
<1>2. CASE Enter(m)
  <2>1. SamplesHaveRows' /\ RowsIncludeSamples' /\ IngestCleared' /\ MissingNodeHeals'
    BY <1>2 DEF Enter, EnterGate, SamplesHaveRows, RowsIncludeSamples, Sampled, IngestCleared, MissingNodeHeals
  <2>2. ServersIncludeRows' /\ CleanupOfDeleted'
    BY <1>2 DEF Enter, EnterGate, ServersIncludeRows, CleanupOfDeleted, Quiet
  <2> QED  BY <2>1, <2>2
<1>3. CASE Prepare(m)
  <2>1. /\ UNCHANGED <<dbVars, ids, runtime, unknown, gateVars, ipc, flight>>
        /\ catalog' \in {catalog, NoCatalog}
        /\ op'[m].pc \in {"invalidated", "leave"} /\ \A x \in Mutators \ {m} : op'[x] = op[x]
    BY <1>3 DEF Prepare, Invalidate
  <2>2. SamplesHaveRows' /\ RowsIncludeSamples' /\ IngestCleared' /\ MissingNodeHeals'
    BY <2>1 DEF SamplesHaveRows, RowsIncludeSamples, Sampled, IngestCleared, MissingNodeHeals
  <2>3. CleanupOfDeleted'
    BY <2>1 DEF CleanupOfDeleted
  <2>4. Quiet' => Quiet
    BY <1>3, <2>1 DEF Prepare, Quiet
  <2>5. ServersIncludeRows'
    BY <2>1, <2>4 DEF ServersIncludeRows
  <2> QED  BY <2>2, <2>3, <2>5
<1>4. CASE Commit(m)
  <2>1. /\ UNCHANGED <<row, nodeCache, unknown, gateVars, ipc, flight>>
        /\ op'[m].pc \in {"cleanup", "leave"} /\ \A x \in Mutators \ {m} : op'[x] = op[x]
        /\ op'[m].kind = op[m].kind /\ op'[m].node = op[m].node
    BY <1>4 DEF Commit, Apply, Ops
  <2>2. /\ \A n \in live' : n \notin live => op[m].kind = "create" /\ n = op[m].node /\ rev[n] = 0 /\ n \in Nodes
        /\ \A n \in Nodes : rev'[n] = 0 => rev[n] = 0
        /\ op[m].kind = "create" => op'[m].pc = "leave"
        /\ op'[m].pc = "cleanup" => op[m].kind = "delete" /\ op[m].node \notin live'
    BY <1>4 DEF Commit, Apply, OpShape, Ops
  <2>3. SamplesHaveRows'
    BY <2>1, <2>2 DEF SamplesHaveRows
  <2>4. \A n \in live' : n \notin live => runtime[n] = 0 /\ ipc[n] \in {"idle", "failed"} /\ n \notin ids \cup unknown
    BY <2>2 DEF SamplesHaveRows
  <2>5. RowsIncludeSamples' /\ IngestCleared' /\ MissingNodeHeals'
    BY <2>1, <2>4 DEF RowsIncludeSamples, Sampled, IngestCleared, MissingNodeHeals
  <2>6. ServersIncludeRows'
    BY <2>1 DEF ServersIncludeRows, Quiet
  <2>7. CleanupOfDeleted'
    <3>1. op[m].kind = "create" => \A x \in Mutators \ {m} : op[x].pc = "idle"
      BY <1>4 DEF Commit, OpShape
    <3>2. ASSUME NEW x \in Mutators \ {m}, op[x].pc = "cleanup" PROVE op[x].kind = "delete" /\ op[x].node \notin live'
      BY <2>2, <3>1, <3>2 DEF CleanupOfDeleted
    <3> QED  BY <2>1, <2>2, <3>2 DEF CleanupOfDeleted
  <2> QED  BY <2>3, <2>5, <2>6, <2>7
<1>5. CASE Cleanup(m)
  <2>0. op[m].node \in Nodes
    BY <1>5 DEF Cleanup, OpShape, CleanupOfDeleted
  <2>1. /\ UNCHANGED <<dbVars, unknown, gateVars, ipc, flight>> /\ ids' \subseteq ids
        /\ \A n \in Nodes : runtime'[n] \in {0, runtime[n]}
        /\ catalog' = NoCatalog \/ UNCHANGED <<catalog, ids>>
    BY <1>5, <2>0 DEF Cleanup
  <2>2. SamplesHaveRows' /\ RowsIncludeSamples' /\ IngestCleared' /\ MissingNodeHeals'
    BY <2>1 DEF SamplesHaveRows, RowsIncludeSamples, Sampled, IngestCleared, MissingNodeHeals
  <2>3. ServersIncludeRows' /\ CleanupOfDeleted'
    BY <1>5 DEF Cleanup, ServersIncludeRows, CleanupOfDeleted, Quiet
  <2> QED  BY <2>2, <2>3
<1>6. CASE Leave(m)
  <2>1. version' = version + 1 /\ flight' = flight /\ flight["nodes"].ver <= version /\ flight["nodes"].ver \in Nat
    BY <1>6 DEF Leave, LeaveGate, FlightCurrent, Flights
  <2>2. RowsIncludeSamples' /\ ServersIncludeRows'
    BY <2>1 DEF RowsIncludeSamples, ServersIncludeRows
  <2>3. SamplesHaveRows' /\ IngestCleared' /\ CleanupOfDeleted' /\ MissingNodeHeals'
    BY <1>6 DEF Leave, SamplesHaveRows, IngestCleared, CleanupOfDeleted, MissingNodeHeals, NoOp
  <2> QED  BY <2>2, <2>3
<1> QED  BY <1>1, <1>2, <1>3, <1>4, <1>5, <1>6 DEF Mutation

\* Ingest.
LEMMA IngestSamples ==
  ASSUME Inv, SampleInv, NEW k \in Nodes, Ingest(k)
  PROVE SampleInv'
<1> USE DEF Inv, TypeOK, SampleInv
<1>0. /\ UNCHANGED <<live, rev, visible, ids, meta, guestCache, op, flight, reader>>
      /\ CleanupOfDeleted'
  BY DEF Ingest, Save, Classify, Put, EnterUnknown, PutInvalidate, LeaveUnknown,
         ForgetUnknown, ClearAfterFailure, CleanupOfDeleted
<1>1. CASE Save(k)
  <2>1. UNCHANGED <<catalog, runtime, unknown, version, active>>
    BY <1>1 DEF Save
  <2>2. /\ row' = [row EXCEPT ![k] = @ + 1]
        /\ ipc' \in {ipc, [ipc EXCEPT ![k] = "saved"]} /\ ipc[k] = "idle" /\ k \in live
    BY <1>1 DEF Save
  <2>3. SamplesHaveRows'
    BY <1>0, <2>1, <2>2 DEF SamplesHaveRows, LiveHasRev
  <2>4. RowsIncludeSamples' /\ ServersIncludeRows' /\ IngestCleared'
    BY <1>0, <2>1, <2>2 DEF RowsIncludeSamples, ServersIncludeRows, IngestCleared, Sampled, Quiet
  <2>5. MissingNodeHeals'
    BY <1>0, <2>1, <2>2 DEF MissingNodeHeals, SamplesHaveRows
  <2> QED  BY <1>0, <2>3, <2>4, <2>5
<1>2. CASE Classify(k)
  <2>1. UNCHANGED <<row, catalog, runtime, version, active>> /\ ipc[k] = "saved"
    BY <1>2 DEF Classify
  <2>2. \/ k \in ids /\ unknown' = unknown \ {k} /\ ipc' = [ipc EXCEPT ![k] = "put"]
        \/ k \notin ids /\ k \in unknown /\ ipc' = [ipc EXCEPT ![k] = "put"] /\ unknown' = unknown
        \/ unknown' = unknown \cup {k} /\ ipc' = [ipc EXCEPT ![k] = "gate"] /\ k \notin ids /\ k \notin unknown
        \/ ipc' = [ipc EXCEPT ![k] = "failed"] /\ unknown' = unknown
    BY <1>2 DEF Classify
  <2>3. SamplesHaveRows' /\ IngestCleared' /\ MissingNodeHeals'
    BY <1>0, <2>1, <2>2 DEF SamplesHaveRows, IngestCleared, MissingNodeHeals
  <2>4. \A n \in Nodes : Sampled(n)' => Sampled(n)
    BY <1>0, <2>1, <2>2 DEF Sampled
  <2>5. RowsIncludeSamples' /\ ServersIncludeRows'
    BY <1>0, <2>1, <2>4 DEF RowsIncludeSamples, ServersIncludeRows, Quiet
  <2> QED  BY <1>0, <2>3, <2>5
<1>3. CASE Put(k)
  <2>1. UNCHANGED <<row, catalog, unknown, version, active>> /\ ipc[k] = "put"
    BY <1>3 DEF Put
  <2>2. runtime' \in {runtime, [runtime EXCEPT ![k] = row[k]]} /\ ipc' \in {[ipc EXCEPT ![k] = "idle"], [ipc EXCEPT ![k] = "failed"]}
    BY <1>3 DEF Put
  <2>3. SamplesHaveRows' /\ IngestCleared' /\ MissingNodeHeals'
    BY <1>0, <2>1, <2>2 DEF SamplesHaveRows, IngestCleared, MissingNodeHeals
  <2>4. \A n \in Nodes : Sampled(n)' => Sampled(n)
    BY <1>0, <2>1, <2>2 DEF Sampled
  <2>5. RowsIncludeSamples' /\ ServersIncludeRows'
    BY <1>0, <2>1, <2>4 DEF RowsIncludeSamples, ServersIncludeRows, Quiet
  <2> QED  BY <1>0, <2>3, <2>5
<1>4. CASE EnterUnknown(k)
  <2>1. /\ UNCHANGED <<row, catalog, runtime, unknown, version>> /\ active' = active \cup {k}
        /\ ipc[k] = "gate" /\ ipc' = [ipc EXCEPT ![k] = "invalidate"]
    BY <1>4 DEF EnterUnknown, EnterGate
  <2>2. SamplesHaveRows' /\ IngestCleared' /\ MissingNodeHeals'
    BY <1>0, <2>1 DEF SamplesHaveRows, IngestCleared, MissingNodeHeals
  <2>3. \A n \in Nodes : Sampled(n)' => Sampled(n)
    BY <1>0, <2>1 DEF Sampled
  <2>4. RowsIncludeSamples' /\ ServersIncludeRows'
    BY <1>0, <2>1, <2>3 DEF RowsIncludeSamples, ServersIncludeRows, Quiet
  <2> QED  BY <1>0, <2>2, <2>4
<1>5. CASE PutInvalidate(k)
  <2>1. /\ UNCHANGED <<row, unknown, version, active>> /\ ipc[k] = "invalidate" /\ k \in active
        /\ \/ catalog' = NoCatalog /\ ipc' = [ipc EXCEPT ![k] = "leave"]
           \/ catalog' \in {catalog, NoCatalog} /\ ipc' = [ipc EXCEPT ![k] = "leaveFailed"]
        /\ runtime' \in {runtime, [runtime EXCEPT ![k] = row[k]]}
    BY <1>5 DEF PutInvalidate, GateShape
  <2>2. SamplesHaveRows' /\ IngestCleared' /\ MissingNodeHeals'
    BY <1>0, <2>1 DEF SamplesHaveRows, IngestCleared, MissingNodeHeals
  <2>3. \A n \in Nodes : Sampled(n)' => Sampled(n)
    BY <1>0, <2>1 DEF Sampled
  <2>4. RowsIncludeSamples' /\ ServersIncludeRows'
    BY <1>0, <2>1, <2>3 DEF RowsIncludeSamples, ServersIncludeRows, Quiet
  <2> QED  BY <1>0, <2>2, <2>4
<1>6. CASE LeaveUnknown(k)
  <2>1. version' = version + 1 /\ flight' = flight /\ flight["nodes"].ver <= version /\ flight["nodes"].ver \in Nat
    BY <1>6 DEF LeaveUnknown, LeaveGate, FlightCurrent, Flights
  <2>2. RowsIncludeSamples' /\ ServersIncludeRows'
    BY <2>1 DEF RowsIncludeSamples, ServersIncludeRows
  <2>3. SamplesHaveRows' /\ IngestCleared' /\ MissingNodeHeals'
    BY <1>6 DEF LeaveUnknown, SamplesHaveRows, IngestCleared, MissingNodeHeals
  <2> QED  BY <1>0, <2>2, <2>3
<1>7. CASE ForgetUnknown(k) \/ ClearAfterFailure(k)
  <2>1. /\ UNCHANGED <<row, runtime, version, active>> /\ catalog' \in {catalog, NoCatalog}
        /\ \/ ipc[k] = "forget" /\ ipc' = [ipc EXCEPT ![k] = "failed"] /\ unknown' = unknown \ {k}
           \/ ipc[k] = "failed" /\ ipc' = [ipc EXCEPT ![k] = "idle"] /\ unknown' = unknown
    BY <1>7 DEF ForgetUnknown, forgetUnknownRuntime, ClearAfterFailure
  <2>2. SamplesHaveRows' /\ IngestCleared' /\ MissingNodeHeals'
    BY <1>0, <2>1 DEF SamplesHaveRows, IngestCleared, MissingNodeHeals
  <2>3. \A n \in Nodes : Sampled(n)' => Sampled(n)
    BY <1>0, <2>1 DEF Sampled
  <2>4. RowsIncludeSamples' /\ ServersIncludeRows'
    BY <1>0, <2>1, <2>3 DEF RowsIncludeSamples, ServersIncludeRows, Quiet
  <2> QED  BY <1>0, <2>2, <2>4
<1> QED  BY <1>1, <1>2, <1>3, <1>4, <1>5, <1>6, <1>7 DEF Ingest


\* What a rebuild of the nodes holds after a step before its write.
LEMMA RebuildReads ==
  ASSUME TypeOK, Rebuild("nodes"), ~Write("nodes")
  PROVE LET f == flight["nodes"]
            g == flight'["nodes"]
        IN  \/ g.pc \in {"idle", "version", "rows"}
            \/ g.pc = "servers" /\ \A n \in live : g.rows[n] = row[n]
            \/ /\ f.pc = "servers" /\ g.pc = "publish" /\ g.rows = f.rows /\ g.ver = f.ver
               /\ \A n \in live : f.rows[n] > 0 => g.meta[n] = rev[n]
            \/ f.pc = "publish" /\ g.pc = "write" /\ g.rows = f.rows /\ g.ver = f.ver /\ g.meta = f.meta
<1> USE DEF TypeOK
<1> DEFINE f == flight["nodes"]
           rows == [n \in Nodes |-> IF n \in live THEN row[n] ELSE 0]
           revs == [n \in Nodes |-> IF n \in live /\ f.rows[n] > 0 THEN rev[n] ELSE 0]
<1>0. f \in Flights
  OBVIOUS
<1>1. CASE ReadVersion("nodes")
  BY <1>0, <1>1, FlightAt DEF ReadVersion, Flights
<1>2. CASE FetchRows("nodes")
  <2>1. flight'["nodes"] = [At(f, "servers") EXCEPT !.rows = rows]
    BY <1>2 DEF FetchRows
  <2>2. \A n \in live : rows[n] = row[n]
    OBVIOUS
  <2>3. rows \in [Nodes -> Nat]
    OBVIOUS
  <2> HIDE DEF rows
  <2>4. flight'["nodes"].pc = "servers" /\ flight'["nodes"].rows = rows
    BY <1>0, <2>1, <2>3, FlightAt DEF Flights
  <2> QED  BY <2>2, <2>4
<1>3. CASE FetchServers("nodes")
  <2>1. f.pc = "servers" /\ flight'["nodes"] = [At(f, "publish") EXCEPT !.meta = revs]
    BY <1>3 DEF FetchServers
  <2>2. \A n \in live : f.rows[n] > 0 => revs[n] = rev[n]
    OBVIOUS
  <2>3. revs \in [Nodes -> Nat]
    OBVIOUS
  <2> HIDE DEF revs
  <2>4. LET g == flight'["nodes"] IN g.pc = "publish" /\ g.meta = revs /\ g.rows = f.rows /\ g.ver = f.ver
    BY <1>0, <2>1, <2>3, FlightAt DEF Flights
  <2> QED  BY <2>1, <2>2, <2>4
<1>4. CASE FetchFails("nodes")
  BY <1>4 DEF FetchFails, FlightEnds, NoFlight
<1>5. CASE Publish("nodes")
  <2>1. CASE FlightTo("nodes", "write")
    BY <1>0, <1>5, <2>1, FlightAt DEF Publish, FlightTo
  <2>2. CASE FlightEnds("nodes")
    BY <2>2 DEF FlightEnds, NoFlight
  <2>3. CASE flight' = [flight EXCEPT !["nodes"] = [At(NoFlight, "version") EXCEPT !.tries = f.tries + 1]]
    BY <2>3, FlightAt, NoFlightType DEF Flights
  <2> QED  BY <1>5, <2>1, <2>2, <2>3 DEF Publish
<1> QED  BY <1>1, <1>2, <1>3, <1>4, <1>5 DEF Rebuild

\* Rebuilds.
LEMMA RebuildSamples ==
  ASSUME Inv, SampleInv, NEW v \in Views, Rebuild(v)
  PROVE SampleInv'
<1> USE DEF Inv, TypeOK, SampleInv
<1> DEFINE f == flight["nodes"]
<1>0. /\ UNCHANGED <<dbVars, unknown, version, active, op, ipc>> /\ CleanupOfDeleted' /\ (Quiet' <=> Quiet)
      /\ f \in Flights
  BY DEF Rebuild, ReadVersion, FetchRows, FetchServers, FetchFails, Publish, Write, CleanupOfDeleted, Quiet
<1>1. CASE v = "guests"
  <2>1. flight'["nodes"] = f /\ UNCHANGED nodeCache
    BY <1>1 DEF Rebuild, ReadVersion, FetchRows, FetchServers, FetchFails, Publish, Write, FlightTo, FlightEnds,
                replaceGuestVisibleIDs
  <2>2. SamplesHaveRows' /\ IngestCleared' /\ MissingNodeHeals'
    BY <1>0, <2>1 DEF SamplesHaveRows, IngestCleared, MissingNodeHeals
  <2>3. RowsIncludeSamples' /\ ServersIncludeRows'
    BY <1>0, <2>1 DEF RowsIncludeSamples, Sampled, ServersIncludeRows
  <2> QED  BY <1>0, <2>2, <2>3
<1>2. CASE v = "nodes" /\ ~Write(v)
  <2>1. UNCHANGED nodeCache
    BY <1>2 DEF Rebuild, ReadVersion, FetchRows, FetchServers, FetchFails, Publish
  <2>2. SamplesHaveRows' /\ IngestCleared' /\ MissingNodeHeals'
    BY <1>0, <2>1 DEF SamplesHaveRows, IngestCleared, MissingNodeHeals
  <2>3. \A n \in Nodes : Sampled(n)' <=> Sampled(n)
    BY <1>0, <2>1 DEF Sampled
  <2>4. \A n \in Nodes : Sampled(n) => row[n] > 0
    BY DEF Sampled, SamplesHaveRows
  <2>5. RowsIncludeSamples' /\ ServersIncludeRows'
    BY <1>0, <1>2, <2>3, <2>4, RebuildReads DEF RowsIncludeSamples, ServersIncludeRows, LiveHasRev
  <2> QED  BY <1>0, <2>2, <2>5
<1>3. CASE v = "nodes" /\ Write(v)
  <2>1. /\ f.pc = "write" /\ f.ver = version /\ active = {} /\ Quiet
        /\ \A n \in Nodes : f.rows[n] <= row[n] /\ (f.meta[n] > 0 => f.rows[n] > 0)
    BY <1>3 DEF Write, FlightCurrent, GateShape, InGate, PublishExcludesMutation, Quiet
  <2>2. \A n \in live : Sampled(n) => f.meta[n] > 0
    BY <2>1 DEF RowsIncludeSamples, ServersIncludeRows
  <2>3. \A n \in Nodes : ipc[n] \notin {"invalidate", "leave", "leaveFailed"}
    BY <2>1 DEF GateShape
  <2>4. flight'["nodes"].pc \in {"idle", "reread"}
    BY <1>3, FlightAt, NoFlightType DEF Write, FlightTo, FlightEnds, NoFlight
  <2>5. RowsIncludeSamples' /\ ServersIncludeRows'
    BY <2>4 DEF RowsIncludeSamples, ServersIncludeRows
  <2>6. CASE UNCHANGED nodeCache
    BY <1>0, <2>5, <2>6 DEF SamplesHaveRows, IngestCleared, MissingNodeHeals
  <2>7. CASE replaceSnapshot(f)
    <3>1. SamplesHaveRows'
      BY <1>0, <2>1, <2>7 DEF SamplesHaveRows, replaceSnapshot, RebuiltRuntime, Forgotten, Flights
    <3>2. IngestCleared'
      BY <1>0, <2>3 DEF IngestCleared
    <3>3. \A n \in live : n \in unknown /\ ipc[n] # "gate" => n \in ids'
      BY <2>1, <2>2, <2>7 DEF Sampled, replaceSnapshot
    <3> QED  BY <1>0, <2>5, <3>1, <3>2, <3>3 DEF MissingNodeHeals
  <2> QED  BY <1>3, <2>6, <2>7 DEF Write
<1> QED  BY <1>1, <1>2, <1>3

\* Requests and crashes.
LEMMA RestSamples ==
  ASSUME Inv, SampleInv,
         \/ \E r \in Callers : Request(r)
         \/ \E r \in Readers : Read(r)
         \/ RequestGuests \/ Crash \/ UNCHANGED vars
  PROVE SampleInv'
<1> USE DEF Inv, TypeOK, SampleInv
<1>1. CASE Crash
  <2>1. SamplesHaveRows' /\ IngestCleared' /\ MissingNodeHeals' /\ CleanupOfDeleted'
    BY <1>1 DEF Crash, SamplesHaveRows, IngestCleared, MissingNodeHeals, CleanupOfDeleted, NoOp, Zero
  <2>2. RowsIncludeSamples' /\ ServersIncludeRows'
    BY <1>1 DEF Crash, RowsIncludeSamples, ServersIncludeRows, NoFlight
  <2> QED  BY <2>1, <2>2
<1>2. CASE ~Crash
  <2>1. UNCHANGED <<dbVars, ids, runtime, unknown, version, active, op, ipc>> /\ catalog' \in {catalog, NoCatalog}
    BY <1>2 DEF Request, Read, ReadCatalog, ReadIds, ReadRuntime, ReadMeta, ReadFails, Join, Return, ClearCorrupt,
                RequestGuests, vars
  <2>2. SamplesHaveRows' /\ IngestCleared' /\ MissingNodeHeals' /\ CleanupOfDeleted'
    BY <2>1 DEF SamplesHaveRows, IngestCleared, MissingNodeHeals, CleanupOfDeleted
  <2>3. flight'["nodes"] = flight["nodes"] \/ flight'["nodes"].pc \in {"idle", "version"}
    BY <1>2, FlightAt, NoFlightType
       DEF Request, Read, ReadCatalog, ReadIds, ReadRuntime, ReadMeta, ReadFails, Join, Return, ClearCorrupt, Missed, Goto,
           Over, FlightEnds, FlightTo, RequestGuests, vars, NoFlight
  <2>4. RowsIncludeSamples' /\ ServersIncludeRows'
    BY <2>1, <2>3 DEF RowsIncludeSamples, ServersIncludeRows, Sampled, Quiet
  <2> QED  BY <2>2, <2>4
<1> QED  BY <1>1, <1>2

LEMMA SampleInvariant == Spec => []SampleInv
<1>1. Inv /\ SampleInv /\ [Next]_vars => SampleInv'
  BY MutationSamples, IngestSamples, RebuildSamples, RestSamples DEF Next
<1> QED  BY SampleInit, Invariant, <1>1, PTL DEF Spec

\* A valid guest catalog is exact at every moment, although it is rebuilt from a query made before the
\* publication and invalidated by other operations than the node catalog.
THEOREM GuestCatalogCurrent == Spec => []GuestCatalogIsCurrent
<1>1. Inv => GuestCatalogIsCurrent
  BY DEF Inv
<1> QED  BY Invariant, <1>1, PTL

\* No id stays remembered as handled while a valid catalog lacks its node, whichever puts, cleanups
\* and rebuilds failed: the next sample gets the node in.
THEOREM MissingNodesHeal == Spec => []MissingNodeHeals
<1>1. SampleInv => MissingNodeHeals
  BY DEF SampleInv
<1> QED  BY SampleInvariant, <1>1, PTL

\* A step takes a sample only from a node that is not live.
LEMMA RuntimeGrows ==
  ASSUME Inv, SampleInv, Next, ~(Backend = "memory" /\ Crash), NEW n \in live, n \in live'
  PROVE runtime'[n] >= runtime[n]
<1> USE DEF Inv, TypeOK, SampleInv
<1>0. n \in Nodes /\ runtime[n] \in Nat /\ row[n] \in Nat /\ runtime[n] <= row[n]
  BY DEF SamplesHaveRows
<1>1. ASSUME NEW m \in Mutators, Mutation(m) PROVE runtime'[n] >= runtime[n]
  <2>1. CASE Cleanup(m)
    BY <1>0, <2>1 DEF Cleanup, CleanupOfDeleted
  <2>2. CASE ~Cleanup(m)
    BY <1>0, <1>1, <2>2 DEF Mutation, Begin, Enter, Prepare, Invalidate, Commit, Leave
  <2> QED  BY <2>1, <2>2
<1>2. ASSUME NEW k \in Nodes, Ingest(k) PROVE runtime'[n] >= runtime[n]
  BY <1>0, <1>2 DEF Ingest, Save, Classify, Put, EnterUnknown, PutInvalidate, LeaveUnknown, ForgetUnknown, ClearAfterFailure
<1>3. ASSUME NEW v \in Views, Rebuild(v) PROVE runtime'[n] >= runtime[n]
  <2>1. CASE v = "nodes" /\ Write(v) /\ replaceSnapshot(flight["nodes"])
    <3>1. /\ flight["nodes"].pc = "write" /\ flight["nodes"].ver = version /\ active = {} /\ Quiet
      BY <2>1 DEF Write, FlightCurrent, GateShape, InGate, PublishExcludesMutation, Quiet
    <3>2. runtime[n] > 0 => flight["nodes"].meta[n] > 0
      BY <1>0, <3>1 DEF RowsIncludeSamples, ServersIncludeRows, Sampled
    <3>3. flight["nodes"].rows[n] \in Nat /\ flight["nodes"].meta[n] \in Nat
      BY <1>0 DEF Flights
    <3> QED  BY <1>0, <2>1, <3>2, <3>3 DEF replaceSnapshot, RebuiltRuntime, Forgotten
  <2>2. CASE UNCHANGED runtime
    BY <1>0, <2>2
  <2> QED  BY <1>3, <2>1, <2>2
           DEF Rebuild, ReadVersion, FetchRows, FetchServers, FetchFails, Publish, Write, replaceGuestVisibleIDs
<1>4. ASSUME \/ \E r \in Callers : Request(r)
             \/ \E r \in Readers : Read(r)
             \/ RequestGuests \/ Crash
      PROVE runtime'[n] >= runtime[n]
  <2>1. UNCHANGED runtime
    BY <1>4, BackendAssumption DEF Request, Read, RequestGuests, Crash
  <2> QED  BY <1>0, <2>1
<1> QED  BY <1>1, <1>2, <1>3, <1>4 DEF Next

\* A runtime sample of a live node is only ever replaced by a newer one: no rebuild forgets or overwrites
\* a sample that was put while it held rows read before.
THEOREM SamplesOnlyGrow == Spec => RuntimeNeverRegresses
<1>1. Inv /\ SampleInv /\ [Next]_vars =>
        [(Backend = "memory" /\ Crash) \/ \A n \in live \cap live' : runtime'[n] >= runtime[n]]_vars
  BY RuntimeGrows
<1> QED  BY Invariant, SampleInvariant, <1>1, PTL DEF Spec, RuntimeNeverRegresses

=============================================================================
