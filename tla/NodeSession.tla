----------------------------- MODULE NodeSession -----------------------------
(***************************************************************************)
(* The reverse queries of one node: internal/nodesession (the hub, its     *)
(* sessions and History) and internal/noderpc (a Connect stream, its       *)
(* reader and writer tasks, and the request that joins them).              *)
(*                                                                         *)
(* gRPC is external: a stream it has closed fails every later Recv and     *)
(* Send, and it may let go of the HTTP request before the handler returns. *)
(* The node answers the commands it was sent, late or never.  Deadlines,   *)
(* the capabilities timer and the 60 s of silence may come at any time;    *)
(* heartbeats carry nothing and are left out.                              *)
(***************************************************************************)
EXTENDS Integers, Sequences, FiniteSets

CONSTANTS
    Streams,        \* the Connect streams the node opens
    Queries,        \* the calls of History
    MaxPending,     \* queries a session serves at a time (32)
    QueueSize,      \* capacity of a session's command queue (64)
    FailureRoom,    \* capacity of a stream's failures channel (2)
    MaxSecret,      \* bound: how often the node's secret changes, plus one
    NoStream

ASSUME NoStreamAssumption == NoStream \notin Streams

VARIABLES
    secret,         \* the node's secret, a version number; only the latest one authenticates
    hub,            \* the hub: its session of the node, whether it is closed, its request counter
    st,             \* per stream: the request, the Connect handler, its tasks and its session
    qs              \* per query: the call of History
sessionVars == <<secret, hub, st, qs>>

NoMessage == [kind |-> "none"]
IdleStream ==
    [phase |-> "idle", secret |-> 0, gone |-> FALSE, closed |-> FALSE, tasks |-> 0, cancelled |-> FALSE,
     reader |-> "none", held |-> NoMessage, writer |-> "none", sending |-> NoMessage, failures |-> 0,
     history |-> FALSE, incoming |-> NoMessage, wire |-> <<>>, told |-> {}, queue |-> <<>>, pending |-> <<>>]
NewQuery == [pc |-> "new", on |-> NoStream, id |-> 0, slot |-> NoMessage, outcome |-> NoMessage, expired |-> FALSE,
             secret |-> 0]

SessionInit ==
    /\ secret = 1
    /\ hub = [current |-> NoStream, closed |-> FALSE, next |-> 0]
    /\ st = [s \in Streams |-> IdleStream]
    /\ qs = [q \in Queries |-> NewQuery]

-----------------------------------------------------------------------------
(* The hub. *)

\* The context of a session ends with its stream's.
Done(s) == st[s].cancelled \/ st[s].gone
Cancelled(f, S) == [x \in Streams |-> IF x \in S THEN [f[x] EXCEPT !.cancelled = TRUE] ELSE f[x]]

\* Fault: Remove forgets the node's session whoever asks.
RemoveAny(s) == [hub EXCEPT !.current = NoStream]
\* Remove, the map's part: only the session that is still the node's own.
Remove(s) == [hub EXCEPT !.current = IF @ = s THEN NoStream ELSE @]

\* Complete: the answer goes to whoever waits for the id, if anybody does.
Complete(s, id, result) ==
    IF id \in DOMAIN st[s].pending /\ qs[st[s].pending[id]].slot = NoMessage
    THEN [qs EXCEPT ![st[s].pending[id]].slot = result]
    ELSE qs

\* Server.Close: the hub first, then gRPC.
Close ==
    /\ ~hub.closed
    /\ hub' = [hub EXCEPT !.closed = TRUE, !.current = NoStream]
    /\ st' = Cancelled(st, {hub.current} \ {NoStream})
    /\ UNCHANGED <<secret, qs>>
Stop ==
    /\ hub.closed /\ \E s \in Streams : st[s].phase # "idle" /\ ~st[s].gone
    /\ st' = [s \in Streams |-> IF st[s].phase = "idle" THEN st[s] ELSE [st[s] EXCEPT !.gone = TRUE]]
    /\ UNCHANGED <<secret, hub, qs>>

-----------------------------------------------------------------------------
(* A Connect stream. *)

\* ServeHTTP authenticates the request and hands it to gRPC.
ServeHTTP(s) ==
    /\ st[s].phase = "idle" /\ ~hub.closed
    /\ st' = [st EXCEPT ![s].phase = "admitted", ![s].secret = secret]
    /\ UNCHANGED <<secret, hub, qs>>

\* Connect enters the stream and starts its reader, unless the request is already over.
Enter(s) ==
    /\ st[s].phase = "admitted"
    /\ st' = IF st[s].closed THEN [st EXCEPT ![s].phase = "returned"]
             ELSE [st EXCEPT ![s].phase = "await", ![s].tasks = @ + 2, ![s].reader = "recv"]
    /\ UNCHANGED <<secret, hub, qs>>

\* The node's messages, and its leaving.
NodeSends(s, m) ==
    /\ st[s].phase \in {"await", "open"} /\ ~st[s].gone
    /\ st' = [st EXCEPT ![s].wire = Append(@, m)]
    /\ UNCHANGED <<secret, hub, qs>>
NodeOffers(s) == st[s].phase = "await" /\ st[s].wire = <<>> /\ st[s].reader = "recv" /\ st[s].incoming = NoMessage
                   /\ \E h \in BOOLEAN : NodeSends(s, [kind |-> "capabilities", history |-> h])
NodeAnswers(s) ==
    \E c \in st[s].told :
      /\ c.kind = "history" /\ ~st[s].gone /\ Len(st[s].wire) < Cardinality(Queries)
      /\ st' = [st EXCEPT ![s].told = @ \ {c},
                          ![s].wire = Append(@, [kind |-> "result", id |-> c.id, of |-> c.of])]
      /\ UNCHANGED <<secret, hub, qs>>
StreamEnds(s) ==
    /\ st[s].phase # "idle" /\ ~st[s].gone
    /\ st' = [st EXCEPT ![s].gone = TRUE]
    /\ UNCHANGED <<secret, hub, qs>>

\* The reader: Recv, then the incoming channel or the handler's end.
ReaderReceives(s) ==
    /\ st[s].reader = "recv" /\ st[s].wire # <<>>
    /\ st' = [st EXCEPT ![s].reader = "put", ![s].held = Head(st[s].wire), ![s].wire = Tail(@)]
    /\ UNCHANGED <<secret, hub, qs>>
ReaderPuts(s) ==
    /\ st[s].reader = "put" /\ st[s].incoming = NoMessage
    /\ st' = [st EXCEPT ![s].reader = "recv", ![s].incoming = st[s].held, ![s].held = NoMessage]
    /\ UNCHANGED <<secret, hub, qs>>
ReaderGivesUp(s) ==
    /\ st[s].reader = "put" /\ st[s].phase = "returned"
    /\ st' = [st EXCEPT ![s].reader = "ended", ![s].held = NoMessage, ![s].tasks = @ - 1]
    /\ UNCHANGED <<secret, hub, qs>>
\* Fault: the channel holds a single failure.
ReaderFailsAlone(s) ==
    /\ st[s].reader = "recv" /\ st[s].gone /\ st[s].wire = <<>>
    /\ st[s].failures = 0
    /\ st' = [st EXCEPT ![s].reader = "ended", ![s].failures = @ + 1, ![s].tasks = @ - 1]
    /\ UNCHANGED <<secret, hub, qs>>
ReaderFails(s) ==
    /\ st[s].reader = "recv" /\ st[s].gone /\ st[s].wire = <<>>
    /\ st[s].failures < FailureRoom
    /\ st' = [st EXCEPT ![s].reader = "ended", ![s].failures = @ + 1, ![s].tasks = @ - 1]
    /\ UNCHANGED <<secret, hub, qs>>

\* Open: the newest session of a node replaces the one before it.
Open(s) ==
    /\ st[s].phase = "await" /\ st[s].incoming.kind = "capabilities"
    /\ LET open == [st EXCEPT ![s].phase = "open", ![s].incoming = NoMessage, ![s].writer = "select", ![s].tasks = @ + 1,
                               ![s].history = st[s].incoming.history]
       IN  st' = Cancelled(open, IF hub.closed THEN {s} ELSE {hub.current} \ {NoStream})
    /\ hub' = IF hub.closed THEN hub ELSE [hub EXCEPT !.current = s]
    /\ UNCHANGED <<secret, qs>>

\* Connect returns: the session is removed, done is closed and the handler's reference given back.
Return(s, taken) ==
    /\ st' = [st EXCEPT ![s].phase = "returned", ![s].cancelled = TRUE, ![s].tasks = @ - 1, ![s].failures = @ - taken]
    /\ hub' = IF st[s].phase = "open" THEN Remove(s) ELSE hub
    /\ UNCHANGED <<secret, qs>>

\* No valid capabilities, in time or at all.
GivesUpWaiting(s) == st[s].phase = "await" /\ \E taken \in 0 .. 1 : taken <= st[s].failures /\ Return(s, taken)

\* The handler's loop: a result, or a reason to end.
Receives(s) ==
    /\ st[s].phase = "open" /\ st[s].incoming # NoMessage
    /\ st' = [st EXCEPT ![s].incoming = NoMessage]
    /\ qs' = IF st[s].incoming.kind = "result" THEN Complete(s, st[s].incoming.id, st[s].incoming) ELSE qs
    /\ UNCHANGED <<secret, hub>>
SessionCloses(s) ==
    /\ st[s].phase = "open"
    /\ \/ (Done(s) \/ st[s].secret # secret) /\ Return(s, 0)
       \/ st[s].failures > 0 /\ Return(s, 1)
\* Sixty seconds of silence, a result that is too large, or credentials that could not be checked.
HeartbeatTimeout(s) == st[s].phase = "open" /\ Return(s, 0)

\* The writer: a command whose deadline has passed is answered instead of sent.
WriterTakes(s) ==
    /\ st[s].writer = "select" /\ st[s].queue # <<>>
    /\ LET c == Head(st[s].queue)
           late == c.kind = "history" /\ qs[c.of].expired
       IN  /\ st' = [st EXCEPT ![s].queue = Tail(@), ![s].writer = IF late THEN @ ELSE "sending",
                               ![s].sending = IF late THEN @ ELSE c]
           /\ qs' = IF late THEN Complete(s, c.id, [kind |-> "deadline"]) ELSE qs
    /\ UNCHANGED <<secret, hub>>
WriterSends(s) ==
    /\ st[s].writer = "sending" /\ ~st[s].gone
    /\ st' = [st EXCEPT ![s].writer = "select", ![s].sending = NoMessage,
                        ![s].told = {c \in @ : c.id # st[s].sending.id} \cup {st[s].sending}]
    /\ UNCHANGED <<secret, hub, qs>>
\* A failed write, the write deadline of a stalled peer included.
WriterFails(s) ==
    /\ st[s].writer = "sending" /\ st[s].failures < FailureRoom
    /\ st' = [st EXCEPT ![s].writer = "ended", ![s].sending = NoMessage, ![s].failures = @ + 1, ![s].tasks = @ - 1]
    /\ UNCHANGED <<secret, hub, qs>>
WriterEnds(s) ==
    /\ st[s].writer = "select" /\ st[s].phase = "returned"
    /\ st' = [st EXCEPT ![s].writer = "ended", ![s].tasks = @ - 1]
    /\ UNCHANGED <<secret, hub, qs>>

\* gRPC lets go of the request; queryStream.close then waits for the tasks.
RequestReturns(s) ==
    /\ st[s].phase # "idle" /\ ~st[s].closed /\ (st[s].gone \/ st[s].phase = "returned")
    /\ st' = [st EXCEPT ![s].closed = TRUE, ![s].gone = TRUE]
    /\ UNCHANGED <<secret, hub, qs>>
Joined(s) ==
    /\ st[s].closed /\ st[s].tasks = 0 /\ st[s].phase = "returned"
    /\ st' = [st EXCEPT ![s].phase = "ended", ![s].wire = <<>>, ![s].told = {}, ![s].incoming = NoMessage]
    /\ UNCHANGED <<secret, hub, qs>>

-----------------------------------------------------------------------------
(* A call of History. *)

QueryEnds(q, outcome) == [qs EXCEPT ![q].pc = "ended", ![q].outcome = outcome, ![q].slot = NoMessage]
Forget(s, id) == [st EXCEPT ![s].pending = [i \in DOMAIN @ \ {id} |-> @[i]]]
Offline == [kind |-> "offline"]
Unsupported == [kind |-> "unsupported"]
Busy == [kind |-> "busy"]
Late == [kind |-> "deadline"]

\* current, up to the call that checks the credentials.
Begin(q) ==
    /\ qs[q].pc = "new"
    /\ qs' = IF hub.current = NoStream \/ Done(hub.current) THEN QueryEnds(q, Offline)
             ELSE [qs EXCEPT ![q].pc = "current", ![q].on = hub.current, ![q].secret = secret]
    /\ UNCHANGED <<secret, hub, st>>

\* Fault: the session's credentials are not checked again.
AuthenticateOnce(q) ==
    /\ qs[q].pc = "current"
    /\ qs' = [qs EXCEPT ![q].pc = "register"]
    /\ UNCHANGED <<secret, hub, st>>

\* current: a session whose secret no longer authenticates is removed.
Authenticate(q) ==
    LET s == qs[q].on IN
    /\ qs[q].pc = "current"
    /\ \/ /\ st[s].secret = secret /\ ~qs[q].expired
          /\ qs' = IF st[s].history THEN [qs EXCEPT ![q].pc = "register"] ELSE QueryEnds(q, Unsupported)
          /\ UNCHANGED <<hub, st>>
       \/ /\ st[s].secret # secret \/ qs[q].expired
          /\ qs' = QueryEnds(q, Offline)
          /\ hub' = Remove(s)
          /\ st' = Cancelled(st, {s})
    /\ UNCHANGED secret

\* Request ids are the hub's, and never used twice.
RequestID(s) == hub.next + 1

\* The query takes a place among the session's pending ones.
Register(q) ==
    LET s == qs[q].on
        id == RequestID(s)
    IN  /\ qs[q].pc = "register"
        /\ hub' = [hub EXCEPT !.next = @ + 1]
        /\ IF Cardinality(DOMAIN st[s].pending) >= MaxPending
           THEN qs' = QueryEnds(q, Busy) /\ UNCHANGED st
           ELSE /\ qs' = [qs EXCEPT ![q].pc = "enqueue", ![q].id = id]
                /\ st' = [st EXCEPT ![s].pending = [i \in DOMAIN @ \cup {id} |-> IF i = id THEN q ELSE @[i]]]
        /\ UNCHANGED secret

\* The command is queued without waiting, or the query ends.
Enqueue(q) ==
    LET s == qs[q].on
        room == Len(st[s].queue) < QueueSize
        gives(outcome) == qs' = QueryEnds(q, outcome) /\ st' = Forget(s, qs[q].id)
    IN  /\ qs[q].pc = "enqueue"
        /\ \/ /\ room
              /\ qs' = [qs EXCEPT ![q].pc = "wait"]
              /\ st' = [st EXCEPT ![s].queue = Append(@, [kind |-> "history", id |-> qs[q].id, of |-> q])]
           \/ Done(s) /\ gives(Offline)
           \/ qs[q].expired /\ gives(Late)
           \/ ~room /\ ~Done(s) /\ ~qs[q].expired /\ gives(Busy)
        /\ UNCHANGED <<secret, hub>>

\* The answer, or the end of the session.
Answered(q) ==
    /\ qs[q].pc = "wait" /\ qs[q].slot # NoMessage
    /\ qs' = QueryEnds(q, qs[q].slot)
    /\ st' = Forget(qs[q].on, qs[q].id)
    /\ UNCHANGED <<secret, hub>>
SessionLost(q) ==
    /\ qs[q].pc = "wait" /\ Done(qs[q].on)
    /\ qs' = QueryEnds(q, Offline)
    /\ st' = Forget(qs[q].on, qs[q].id)
    /\ UNCHANGED <<secret, hub>>

\* Fault: a cancellation that finds the queue full is dropped.
AbandonQuietly(q) ==
    LET s == qs[q].on IN
    /\ qs[q].pc = "wait" /\ qs[q].expired
    /\ st' = IF Len(st[s].queue) < QueueSize
             THEN [Forget(s, qs[q].id) EXCEPT ![s].queue = Append(@, [kind |-> "cancel", id |-> qs[q].id, of |-> q])]
             ELSE Forget(s, qs[q].id)
    /\ qs' = QueryEnds(q, Late)
    /\ UNCHANGED <<secret, hub>>

\* The deadline: the node is told, or the whole session ends when its queue is full.
Abandon(q) ==
    LET s == qs[q].on IN
    /\ qs[q].pc = "wait" /\ qs[q].expired
    /\ st' = IF Len(st[s].queue) < QueueSize
             THEN [Forget(s, qs[q].id) EXCEPT ![s].queue = Append(@, [kind |-> "cancel", id |-> qs[q].id, of |-> q])]
             ELSE Cancelled(Forget(s, qs[q].id), {s})
    /\ qs' = QueryEnds(q, Late)
    /\ UNCHANGED <<secret, hub>>

\* Ten seconds pass, or the caller goes away.
QueryExpires(q) ==
    /\ qs[q].pc \notin {"new", "ended"} /\ ~qs[q].expired
    /\ qs' = [qs EXCEPT ![q].expired = TRUE]
    /\ UNCHANGED <<secret, hub, st>>

\* The administrator changes the node's secret.
Rotate ==
    /\ secret < MaxSecret
    /\ secret' = secret + 1
    /\ UNCHANGED <<hub, st, qs>>

-----------------------------------------------------------------------------
StreamNext(s) ==
    \/ Enter(s) \/ Open(s) \/ GivesUpWaiting(s) \/ Receives(s) \/ SessionCloses(s)
    \/ RequestReturns(s) \/ Joined(s)
ReaderNext(s) == ReaderReceives(s) \/ ReaderPuts(s) \/ ReaderGivesUp(s) \/ ReaderFails(s)
WriterNext(s) == WriterTakes(s) \/ WriterSends(s) \/ WriterFails(s) \/ WriterEnds(s)
QueryNext(q) ==
    \/ Begin(q) \/ Authenticate(q) \/ Register(q) \/ Enqueue(q)
    \/ Answered(q) \/ SessionLost(q) \/ Abandon(q) \/ QueryExpires(q)
NodeNext(s) == NodeOffers(s) \/ NodeAnswers(s) \/ StreamEnds(s)

SessionNext ==
    \/ \E s \in Streams : ServeHTTP(s) \/ NodeNext(s) \/ HeartbeatTimeout(s)
                            \/ StreamNext(s) \/ ReaderNext(s) \/ WriterNext(s)
    \/ \E q \in Queries : QueryNext(q)
    \/ Close \/ Stop \/ Rotate

\* Goroutines that can go on do; the timers of the code bound every wait of a stream.
SessionFairness ==
    \A s \in Streams : /\ WF_sessionVars(StreamNext(s))
                       /\ WF_sessionVars(ReaderNext(s))
                       /\ WF_sessionVars(WriterNext(s))
SessionSpec == SessionInit /\ [][SessionNext]_sessionVars /\ SessionFairness

-----------------------------------------------------------------------------
(* Properties. *)

\* A connected session that nobody ended is the one the hub gives to queries, however the
\* sessions before it are removed (hub.go, Open and Remove).
NewestSessionServes ==
    \A s \in Streams : st[s].phase = "open" /\ ~Done(s) => hub.current = s

\* An answer is the one to the query's own command, on a session whose secret still
\* authenticated when the query began (hub.go, current, History and Complete).
AnswersAreOwn ==
    \A q \in Queries :
      qs[q].outcome.kind = "result" =>
        /\ qs[q].outcome.of = q
        /\ st[qs[q].on].secret >= qs[q].secret

\* The node is told of a query that was given up: the cancellation follows its command, or
\* the session is over (hub.go, the end of History).
AbandonedIsCancelled ==
    \A q \in Queries :
      LET s == qs[q].on
          knows(c) == c.kind = "history" /\ c.of = q
          cancels(c) == c.kind = "cancel" /\ c.of = q
      IN  qs[q].pc = "ended" /\ s # NoStream /\ (\E c \in st[s].told : knows(c)) =>
            \/ Done(s) \/ st[s].phase \in {"returned", "ended"} \/ st[s].failures > 0 \/ cancels(st[s].sending)
            \/ \E i \in DOMAIN st[s].queue : cancels(st[s].queue[i])

\* A stream that gRPC has closed, or whose secret was changed, ends with all its tasks: no
\* task keeps the request open (session.go, Connect; stream.go, close).
StreamsAreJoined ==
    \A s \in Streams :
      (st[s].phase # "idle" /\ (st[s].gone \/ st[s].secret # secret)) ~> st[s].phase = "ended"

-----------------------------------------------------------------------------
(* The inductive invariant. *)

Commands == [kind : {"history", "cancel"}, id : Nat, of : Queries]
Results == [kind : {"result"}, id : Nat, of : Queries]
Offers == [kind : {"capabilities"}, history : BOOLEAN]
Ends == Results \cup [kind : {"none", "deadline", "offline", "unsupported", "busy"}]
StreamWith(p) ==
    [phase : {"idle", "admitted", "await", "open", "returned", "ended"}, secret : Nat, gone : BOOLEAN, closed : BOOLEAN,
     tasks : Int, cancelled : BOOLEAN, reader : {"none", "recv", "put", "ended"}, held : Results \cup Offers \cup {NoMessage},
     writer : {"none", "select", "sending", "ended"}, sending : Commands \cup {NoMessage}, failures : Nat, history : BOOLEAN,
     incoming : Results \cup Offers \cup {NoMessage}, wire : Seq(Results \cup Offers), told : SUBSET Commands,
     queue : Seq(Commands), pending : {p}]
\* The writer holds a command exactly while it sends it, and is not there before the session is.
Writes(r) ==
    /\ r.sending # NoMessage <=> r.writer = "sending"
    /\ r.phase \in {"idle", "admitted", "await"} => r.writer = "none"
SessionTypeOK ==
    /\ secret \in Nat /\ hub \in [current : Streams \cup {NoStream}, closed : BOOLEAN, next : Nat]
    /\ DOMAIN st = Streams /\ \A s \in Streams : st[s] \in StreamWith(st[s].pending) /\ Writes(st[s])
    /\ qs \in [Queries -> [pc : {"new", "current", "register", "enqueue", "wait", "ended"}, on : Streams \cup {NoStream},
                           id : Nat, slot : Ends, outcome : Ends, expired : BOOLEAN, secret : Nat]]

\* The hub's session is connected, and nobody else's is alive.
HubServes == hub.current # NoStream => st[hub.current].phase = "open"

\* What each step of a query knows: its session was connected and its secret was checked.
QueryKnows(q) ==
    /\ qs[q].pc \in {"current", "register", "enqueue", "wait"} \/ qs[q].outcome.kind = "result" => qs[q].on # NoStream
    /\ qs[q].on # NoStream => st[qs[q].on].phase # "idle"
    /\ qs[q].pc = "current" => qs[q].secret <= secret
    /\ qs[q].pc \in {"register", "enqueue", "wait"} \/ qs[q].outcome.kind = "result" => st[qs[q].on].secret >= qs[q].secret
    /\ qs[q].pc \in {"new", "current", "register"} => qs[q].id = 0
    /\ qs[q].pc \in {"enqueue", "wait"} => qs[q].id # 0
    /\ qs[q].id <= hub.next
    /\ qs[q].pc # "ended" => qs[q].outcome = NoMessage
    /\ qs[q].slot # NoMessage => qs[q].pc \in {"wait", "ended"}
    /\ qs[q].slot.kind = "result" => qs[q].slot.of = q
    /\ qs[q].outcome.kind = "result" => qs[q].outcome.of = q
IdsAreOwn == \A p, q \in Queries : qs[p].id = qs[q].id /\ qs[p].id # 0 => p = q

\* Whatever names a query on a stream, in a queue or on the wire, has its id.
NamesQuery(m, s) == m.kind \in {"history", "cancel", "result"} => m.id # 0 /\ qs[m.of].id = m.id /\ qs[m.of].on = s
Received(r) == {r.held, r.incoming} \cup {r.wire[i] : i \in DOMAIN r.wire}
Carried(r) == Received(r) \cup r.told \cup {r.sending} \cup {r.queue[i] : i \in DOMAIN r.queue}
StreamNames(s) ==
    /\ \A m \in Carried(st[s]) : NamesQuery(m, s)
    /\ \A i \in DOMAIN st[s].pending : LET q == st[s].pending[i] IN
         q \in Queries /\ i # 0 /\ qs[q].id = i /\ qs[q].on = s /\ qs[q].pc \in {"enqueue", "wait"}

\* Where the command of a query is, once, and its answer.
AsksFor(m, q) == m.kind = "history" /\ m.of = q
CancelsOf(m, q) == m.kind = "cancel" /\ m.of = q
Queued(s, q) == \E i \in DOMAIN st[s].queue : AsksFor(st[s].queue[i], q)
ToldOf(s, q) == \E c \in st[s].told : AsksFor(c, q)
CancelQueued(s, q) == \E i \in DOMAIN st[s].queue : CancelsOf(st[s].queue[i], q)
Answering(s, q) == \E m \in Received(st[s]) : m.kind = "result" /\ m.of = q
AskedOnce(s, q) ==
    /\ \A i, j \in DOMAIN st[s].queue : AsksFor(st[s].queue[i], q) /\ AsksFor(st[s].queue[j], q) => i = j
    /\ Queued(s, q) => ~AsksFor(st[s].sending, q) /\ ~ToldOf(s, q)
    /\ AsksFor(st[s].sending, q) => ~ToldOf(s, q)
    /\ Queued(s, q) \/ AsksFor(st[s].sending, q) \/ ToldOf(s, q) => qs[q].slot = NoMessage /\ ~Answering(s, q)
    /\ Queued(s, q) \/ AsksFor(st[s].sending, q) \/ ToldOf(s, q) \/ Answering(s, q) => qs[q].pc \in {"wait", "ended"}

\* A cancellation comes after the command it cancels.
Over(s) == Done(s) \/ st[s].phase \in {"returned", "ended"} \/ st[s].failures > 0
CancelFollows(s, q) ==
    qs[q].pc = "ended" /\ ~Over(s) =>
      /\ ToldOf(s, q) => CancelsOf(st[s].sending, q) \/ CancelQueued(s, q)
      /\ AsksFor(st[s].sending, q) => CancelQueued(s, q)
      /\ \A i \in DOMAIN st[s].queue : AsksFor(st[s].queue[i], q) =>
           \E j \in DOMAIN st[s].queue : i < j /\ CancelsOf(st[s].queue[j], q)

SessionInv ==
    /\ SessionTypeOK /\ HubServes /\ NewestSessionServes
    /\ \A q \in Queries : QueryKnows(q)
    /\ IdsAreOwn
    /\ \A s \in Streams : StreamNames(s)
    /\ \A s \in Streams, q \in Queries : AskedOnce(s, q) /\ CancelFollows(s, q)

=============================================================================
