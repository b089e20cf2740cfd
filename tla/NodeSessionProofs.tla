-------------------------- MODULE NodeSessionProofs --------------------------
(***************************************************************************)
(* The reverse queries of a node, for any number of streams and queries,   *)
(* any room in the queues and any number of secret changes: the newest     *)
(* session serves, an answer reaches its own query, and a query that was   *)
(* given up is cancelled at the node.                                      *)
(***************************************************************************)
EXTENDS NodeSession, SequenceTheorems, TLAPS

USE NoStreamAssumption DEF NoMessage

\* Where the elements of a queue are once one is added at its end, or taken from its head.
LEMMA AppendedAt ==
  ASSUME NEW S, NEW seq \in Seq(S), NEW e \in S
  PROVE  /\ Append(seq, e) \in Seq(S) /\ DOMAIN seq \subseteq DOMAIN Append(seq, e)
         /\ Len(seq) + 1 \in DOMAIN Append(seq, e) /\ Append(seq, e)[Len(seq) + 1] = e
         /\ \A i \in DOMAIN seq : i < Len(seq) + 1 /\ Append(seq, e)[i] = seq[i]
         /\ \A i \in DOMAIN Append(seq, e) : i \in DOMAIN seq \/ i = Len(seq) + 1
<1>1. Append(seq, e) \in Seq(S) /\ Len(Append(seq, e)) = Len(seq) + 1 /\ Append(seq, e)[Len(seq) + 1] = e
      /\ \A i \in 1 .. Len(seq) : Append(seq, e)[i] = seq[i]
  BY AppendProperties
<1>2. Len(seq) \in Nat /\ DOMAIN seq = 1 .. Len(seq)
  OBVIOUS
<1>3. DOMAIN Append(seq, e) = 1 .. Len(seq) + 1
  BY <1>1
<1> QED  BY <1>1, <1>2, <1>3

LEMMA TakenAt ==
  ASSUME NEW S, NEW seq \in Seq(S), seq # <<>>
  PROVE  /\ Tail(seq) \in Seq(S) /\ Head(seq) = seq[1] /\ 1 \in DOMAIN seq /\ Head(seq) \in S
         /\ \A i \in DOMAIN Tail(seq) : i \in Int /\ i + 1 \in DOMAIN seq /\ Tail(seq)[i] = seq[i + 1] /\ i + 1 # 1
         /\ \A i \in DOMAIN seq : i \in Int /\ (i = 1 \/ (i - 1 \in DOMAIN Tail(seq) /\ Tail(seq)[i - 1] = seq[i]))
<1>1. Tail(seq) \in Seq(S) /\ Head(seq) = seq[1] /\ 1 \in DOMAIN seq /\ Head(seq) \in S
  OBVIOUS
<1>2. Len(seq) \in Nat /\ DOMAIN seq = 1 .. Len(seq) /\ Len(seq) > 0
  OBVIOUS
<1>3. DOMAIN Tail(seq) = 1 .. Len(seq) - 1 /\ \A i \in 1 .. Len(seq) - 1 : Tail(seq)[i] = seq[i + 1]
  OBVIOUS
<1>4. ASSUME NEW i \in DOMAIN seq, i # 1 PROVE i - 1 \in DOMAIN Tail(seq) /\ Tail(seq)[i - 1] = seq[i]
  <2>1. i - 1 \in 1 .. Len(seq) - 1 /\ (i - 1) + 1 = i
    BY <1>2, <1>4
  <2> QED  BY <1>3, <2>1
<1>5. \A i \in DOMAIN seq : i \in Int
  BY <1>2
<1>6. ASSUME NEW i \in DOMAIN Tail(seq)
      PROVE i \in Int /\ i + 1 \in DOMAIN seq /\ Tail(seq)[i] = seq[i + 1] /\ i + 1 # 1
  <2>1. i \in 1 .. Len(seq) - 1
    BY <1>3
  <2>2. i \in Int /\ i + 1 \in 1 .. Len(seq) /\ i + 1 # 1
    BY <1>2, <2>1
  <2> QED  BY <1>2, <1>3, <2>1, <2>2
<1>7. \A i \in DOMAIN seq : i \in Int /\ (i = 1 \/ (i - 1 \in DOMAIN Tail(seq) /\ Tail(seq)[i - 1] = seq[i]))
  BY <1>4, <1>5
<1>8. \A i \in DOMAIN Tail(seq) : i \in Int /\ i + 1 \in DOMAIN seq /\ Tail(seq)[i] = seq[i + 1] /\ i + 1 # 1
  BY <1>6, Zenon
<1> QED  BY <1>1, <1>7, <1>8, Zenon

LEMMA SessionInitInv == SessionInit => SessionInv
<1> SUFFICES ASSUME SessionInit PROVE SessionInv
  OBVIOUS
<1>1. \A s \in Streams : st[s] = IdleStream
  BY DEF SessionInit
<1>2. \A q \in Queries : qs[q] = NewQuery
  BY DEF SessionInit
<1>3. SessionTypeOK
  <2>1. IdleStream \in StreamWith(IdleStream.pending) /\ Writes(IdleStream)
    BY DEF IdleStream, StreamWith, Writes
  <2>2. NewQuery \in [pc : {"new", "current", "register", "enqueue", "wait", "ended"}, on : Streams \cup {NoStream},
                      id : Nat, slot : Ends, outcome : Ends, expired : BOOLEAN, secret : Nat]
    BY DEF NewQuery, Ends
  <2> QED  BY <1>1, <2>1, <2>2 DEF SessionInit, SessionTypeOK
<1>4. HubServes /\ NewestSessionServes
  BY <1>1 DEF SessionInit, HubServes, NewestSessionServes, IdleStream
<1>5. \A q \in Queries : QueryKnows(q)
  BY <1>2 DEF SessionInit, QueryKnows, NewQuery
<1>6. IdsAreOwn
  BY <1>2 DEF IdsAreOwn, NewQuery
<1>7. \A s \in Streams : /\ st[s].sending = NoMessage /\ st[s].told = {} /\ st[s].queue = <<>> /\ st[s].pending = <<>>
                         /\ Received(st[s]) = {NoMessage}
  BY <1>1 DEF IdleStream, Received
<1>8. \A s \in Streams : StreamNames(s)
  BY <1>7 DEF StreamNames, NamesQuery, Carried
<1>9. \A s \in Streams, q \in Queries : AskedOnce(s, q) /\ CancelFollows(s, q)
  BY <1>7 DEF AskedOnce, CancelFollows, Queued, ToldOf, AsksFor, Answering
<1> QED  BY <1>3, <1>4, <1>5, <1>6, <1>8, <1>9 DEF SessionInv

-----------------------------------------------------------------------------
(* What a step leaves alone. *)

QueryTypes == [pc : {"new", "current", "register", "enqueue", "wait", "ended"}, on : Streams \cup {NoStream},
               id : Nat, slot : Ends, outcome : Ends, expired : BOOLEAN, secret : Nat]
HubTypes == [current : Streams \cup {NoStream}, closed : BOOLEAN, next : Nat]
Naming == {"history", "cancel", "result"}

\* A query whose call does not go on: at most its slot is filled, or its deadline passes.
LEMMA QueryStays ==
  ASSUME NEW q \in Queries, SessionTypeOK, SessionTypeOK', QueryKnows(q), secret' >= secret, hub'.next >= hub.next,
         qs'[q].pc = qs[q].pc, qs'[q].on = qs[q].on, qs'[q].id = qs[q].id, qs'[q].outcome = qs[q].outcome,
         qs'[q].secret = qs[q].secret, qs'[q].slot = qs[q].slot \/ (qs[q].pc \in {"wait", "ended"} /\ (qs'[q].slot.kind = "result" => qs'[q].slot.of = q)),
         qs[q].on # NoStream => st'[qs[q].on].phase # "idle" /\ st'[qs[q].on].secret = st[qs[q].on].secret
  PROVE QueryKnows(q)'
<1>1. qs[q].id \in Nat /\ qs[q].secret \in Nat /\ secret \in Nat /\ secret' \in Nat /\ hub.next \in Nat /\ hub'.next \in Nat
  BY DEF SessionTypeOK
<1>2. qs'[q].pc = "current" => qs'[q].secret <= secret'
  BY <1>1 DEF QueryKnows
<1>3. qs'[q].id <= hub'.next
  BY <1>1 DEF QueryKnows
<1>4. qs[q].pc \in {"register", "enqueue", "wait"} \/ qs[q].outcome.kind = "result" => qs[q].on # NoStream
  BY DEF QueryKnows
<1>5. qs'[q].pc \in {"register", "enqueue", "wait"} \/ qs'[q].outcome.kind = "result" => st'[qs'[q].on].secret >= qs'[q].secret
  BY <1>4 DEF QueryKnows
<1> QED  BY <1>2, <1>3, <1>4, <1>5 DEF QueryKnows

\* Messages that move along a stream go on naming their queries.
LEMMA NamesStay ==
  ASSUME NEW s \in Streams, StreamNames(s),
         \A m \in Carried(st'[s]) : m.kind \in Naming =>
            \/ \E c \in Carried(st[s]) : c.kind \in Naming /\ c.id = m.id /\ c.of = m.of
            \/ m.id # 0 /\ qs'[m.of].id = m.id /\ qs'[m.of].on = s,
         \A m \in Carried(st'[s]) : m.kind \in Naming => m.of \in Queries,
         \A p \in Queries : qs[p].id # 0 => qs'[p].id = qs[p].id /\ qs'[p].on = qs[p].on,
         \A i \in DOMAIN st'[s].pending :
            /\ i \in DOMAIN st[s].pending /\ st'[s].pending[i] = st[s].pending[i]
            /\ qs'[st[s].pending[i]].pc \in {"enqueue", "wait"}
  PROVE StreamNames(s)'
<1>1. ASSUME NEW m \in Carried(st'[s]), m.kind \in Naming
      PROVE m.id # 0 /\ qs'[m.of].id = m.id /\ qs'[m.of].on = s
  <2> SUFFICES ASSUME \E c \in Carried(st[s]) : c.kind \in Naming /\ c.id = m.id /\ c.of = m.of
               PROVE  m.id # 0 /\ qs'[m.of].id = m.id /\ qs'[m.of].on = s
    BY <1>1
  <2>1. PICK c \in Carried(st[s]) : c.kind \in Naming /\ c.id = m.id /\ c.of = m.of
    OBVIOUS
  <2>2. c.id # 0 /\ qs[c.of].id = c.id /\ qs[c.of].on = s
    BY <2>1 DEF StreamNames, NamesQuery, Naming
  <2> QED  BY <1>1, <2>1, <2>2
<1>2. \A m \in Carried(st[s])' : NamesQuery(m, s)'
  BY <1>1 DEF NamesQuery, Naming
<1>3. ASSUME NEW i \in DOMAIN st'[s].pending
      PROVE /\ st'[s].pending[i] \in Queries /\ i # 0 /\ qs'[st'[s].pending[i]].id = i /\ qs'[st'[s].pending[i]].on = s
            /\ qs'[st'[s].pending[i]].pc \in {"enqueue", "wait"}
  BY <1>3 DEF StreamNames
<1> QED  BY <1>2, <1>3 DEF StreamNames

\* A stream that neither takes, sends nor is given a command, nor receives an answer.
Still(r, t) ==
    /\ t \in StreamWith(t.pending) /\ Writes(t)
    /\ t.queue = r.queue /\ t.sending = r.sending /\ t.told \subseteq r.told
    /\ \A m \in Received(t) : m.kind # "result" \/ m \in Received(r)
    /\ r.cancelled \/ r.gone => t.cancelled \/ t.gone
    /\ r.phase \in {"returned", "ended"} => t.phase \in {"returned", "ended"}
    /\ r.failures > 0 => t.failures > 0 \/ t.phase \in {"returned", "ended"}
    /\ r.phase # "idle" => t.phase # "idle" /\ t.secret = r.secret
Quiet(r, t) == Still(r, t) /\ DOMAIN t.pending \subseteq DOMAIN r.pending /\ \A i \in DOMAIN t.pending : t.pending[i] = r.pending[i]

LEMMA StillCarries ==
  ASSUME NEW s \in Streams, SessionTypeOK, Still(st[s], st'[s])
  PROVE  /\ \A m \in Carried(st'[s]) : m.kind \in Naming => m \in Carried(st[s])
         /\ \A m \in Carried(st'[s]) : m.kind \in Naming => m.of \in Queries
<1>1. st'[s] \in StreamWith(st'[s].pending) /\ st[s] \in StreamWith(st[s].pending)
  BY DEF SessionTypeOK, Still
<1>2. \A m \in Received(st'[s]) : m \in Results \cup Offers \cup {NoMessage}
  <2>1. st'[s].held \in Results \cup Offers \cup {NoMessage} /\ st'[s].incoming \in Results \cup Offers \cup {NoMessage}
    BY <1>1 DEF StreamWith
  <2>2. st'[s].wire \in Seq(Results \cup Offers)
    BY <1>1 DEF StreamWith
  <2>3. \A i \in DOMAIN st'[s].wire : st'[s].wire[i] \in Results \cup Offers
    BY <2>2
  <2> QED  BY <2>1, <2>3 DEF Received
<1>3. ASSUME NEW m \in Received(st'[s]), m.kind \in Naming PROVE m \in Received(st[s]) /\ m.of \in Queries
  <2>1. m \in Results
    BY <1>2, <1>3 DEF Offers, Naming
  <2>2. m.kind = "result" /\ m.of \in Queries
    BY <2>1 DEF Results
  <2> QED  BY <2>2 DEF Still
<1>4. st'[s].told \subseteq Commands /\ st'[s].sending \in Commands \cup {NoMessage} /\ st'[s].queue \in Seq(Commands)
  BY <1>1 DEF StreamWith
<1>5. \A i \in DOMAIN st'[s].queue : st'[s].queue[i] \in Commands
  BY <1>4
<1>6. \A m \in st'[s].told \cup {st'[s].sending} \cup {st'[s].queue[i] : i \in DOMAIN st'[s].queue} : m.kind \in Naming => m.of \in Queries
  BY <1>4, <1>5 DEF Commands, Naming
<1>7. \A m \in st'[s].told \cup {st'[s].sending} \cup {st'[s].queue[i] : i \in DOMAIN st'[s].queue} : m \in Carried(st[s])
  BY DEF Still, Carried
<1> QED  BY <1>3, <1>6, <1>7 DEF Carried

Asked(s, q) == Queued(s, q) \/ AsksFor(st[s].sending, q) \/ ToldOf(s, q)

\* Where the command of a query is, and whether its cancellation follows, stays on a quiet
\* stream as long as the call of the query does not go on.
LEMMA PairStays ==
  ASSUME NEW s \in Streams, NEW q \in Queries, AskedOnce(s, q), CancelFollows(s, q), Still(st[s], st'[s]),
         qs'[q].pc = qs[q].pc,
         qs'[q].slot = qs[q].slot \/ ~Asked(s, q)
  PROVE  AskedOnce(s, q)' /\ CancelFollows(s, q)'
<1>2. st'[s].queue = st[s].queue /\ st'[s].sending = st[s].sending /\ (ToldOf(s, q)' => ToldOf(s, q))
  BY DEF Still, ToldOf, AsksFor
<1>3. Answering(s, q)' => Answering(s, q)
  BY DEF Answering, Still
<1>4. Over(s) => Over(s)'
  BY DEF Over, Done, Still
<1>5. (Queued(s, q)' <=> Queued(s, q)) /\ (CancelQueued(s, q)' <=> CancelQueued(s, q))
  BY <1>2 DEF Queued, CancelQueued, AsksFor, CancelsOf
<1>6. AskedOnce(s, q)'
  BY <1>2, <1>3, <1>5 DEF AskedOnce, AsksFor, Asked
<1>7. CancelFollows(s, q)'
  BY <1>2, <1>4, <1>5 DEF CancelFollows, AsksFor, CancelsOf
<1> QED  BY <1>6, <1>7

LEMMA QuietSame == ASSUME NEW s \in Streams, SessionTypeOK PROVE Quiet(st[s], st[s])
BY DEF SessionTypeOK, Quiet, Still

\* A step in which every stream is quiet and no query goes on.
LEMMA QuietStep ==
  ASSUME SessionInv, DOMAIN st' = Streams, \A s \in Streams : Quiet(st[s], st'[s]),
         qs' \in [Queries -> QueryTypes],
         \A q \in Queries : /\ qs'[q].pc = qs[q].pc /\ qs'[q].on = qs[q].on /\ qs'[q].id = qs[q].id
                            /\ qs'[q].outcome = qs[q].outcome /\ qs'[q].secret = qs[q].secret
                            /\ \/ qs'[q].slot = qs[q].slot
                               \/ /\ qs[q].pc \in {"wait", "ended"} /\ (qs'[q].slot.kind = "result" => qs'[q].slot.of = q)
                                  /\ \A s \in Streams : ~Asked(s, q),
         secret' \in Nat, secret' >= secret, hub' \in HubTypes, hub'.next >= hub.next, HubServes', NewestSessionServes'
  PROVE SessionInv'
<1>0. SessionTypeOK
  BY DEF SessionInv
<1>2. SessionTypeOK'
  BY <1>0 DEF SessionTypeOK, Quiet, Still, QueryTypes, HubTypes
<1>3. ASSUME NEW q \in Queries PROVE QueryKnows(q)'
  <2>1. QueryKnows(q) /\ qs[q].on \in Streams \cup {NoStream}
    BY <1>0 DEF SessionInv, SessionTypeOK
  <2>2. qs[q].on # NoStream => st'[qs[q].on].phase # "idle" /\ st'[qs[q].on].secret = st[qs[q].on].secret
    BY <2>1 DEF QueryKnows, Quiet, Still
  <2> QED  BY <1>0, <1>2, <2>1, <2>2, QueryStays
<1>4. IdsAreOwn'
  BY DEF SessionInv, IdsAreOwn
<1>5. ASSUME NEW s \in Streams PROVE StreamNames(s)'
  <2>1. StreamNames(s) /\ Quiet(st[s], st'[s])
    BY DEF SessionInv
  <2>2. /\ \A m \in Carried(st'[s]) : m.kind \in Naming => m \in Carried(st[s])
        /\ \A m \in Carried(st'[s]) : m.kind \in Naming => m.of \in Queries
    BY <1>0, <2>1, StillCarries DEF Quiet
  <2>3. \A i \in DOMAIN st'[s].pending : /\ i \in DOMAIN st[s].pending /\ st'[s].pending[i] = st[s].pending[i]
                                         /\ qs'[st[s].pending[i]].pc \in {"enqueue", "wait"}
    BY <2>1 DEF Quiet, Still, StreamNames
  <2> QED  BY <2>1, <2>2, <2>3, NamesStay
<1>6. ASSUME NEW s \in Streams, NEW q \in Queries PROVE AskedOnce(s, q)' /\ CancelFollows(s, q)'
  BY PairStays DEF SessionInv, Quiet
<1> QED  BY <1>2, <1>3, <1>4, <1>5, <1>6 DEF SessionInv

\* The hub's session, while no session begins or ends.
LEMMA HubStays ==
  ASSUME SessionTypeOK, HubServes, NewestSessionServes, hub'.current = hub.current,
         \A s \in Streams : (st'[s].phase = "open" <=> st[s].phase = "open") /\ (Done(s) => Done(s)')
  PROVE  HubServes' /\ NewestSessionServes'
BY DEF SessionTypeOK, HubServes, NewestSessionServes

\* A quiet step of one stream that does not change whether it is connected.
LEMMA QuietOfOne ==
  ASSUME SessionInv, NEW s \in Streams, NEW t, Quiet(st[s], t), st' = [st EXCEPT ![s] = t],
         t.phase = "open" <=> st[s].phase = "open", UNCHANGED <<secret, hub, qs>>
  PROVE  SessionInv'
<1>0. SessionTypeOK /\ HubServes /\ NewestSessionServes
  BY DEF SessionInv
<1>1. DOMAIN st' = Streams /\ st'[s] = t /\ \A x \in Streams \ {s} : st'[x] = st[x]
  BY <1>0 DEF SessionTypeOK
<1>2. \A x \in Streams : Quiet(st[x], st'[x])
  BY <1>0, <1>1, QuietSame
<1>3. \A x \in Streams : (st'[x].phase = "open" <=> st[x].phase = "open") /\ (Done(x) => Done(x)')
  BY <1>1 DEF Done, Quiet, Still
<1>4. HubServes' /\ NewestSessionServes'
  BY <1>0, <1>3, HubStays
<1>5. secret \in Nat /\ hub \in HubTypes /\ hub.next \in Nat /\ qs \in [Queries -> QueryTypes]
  BY <1>0 DEF SessionTypeOK, HubTypes, QueryTypes
<1> QED  BY <1>1, <1>2, <1>4, <1>5, QuietStep

-----------------------------------------------------------------------------
(* The steps of a stream that carry no command and no answer to a query. *)

LEMMA ServeHTTPInv == ASSUME SessionInv, NEW s \in Streams, ServeHTTP(s) PROVE SessionInv'
<1>1. SessionTypeOK /\ st[s] \in StreamWith(st[s].pending) /\ Writes(st[s])
  BY DEF SessionInv, SessionTypeOK
<1>2. PICK t : t = [st[s] EXCEPT !.phase = "admitted", !.secret = secret]
  OBVIOUS
<1>3. st' = [st EXCEPT ![s] = t]
  BY <1>1, <1>2 DEF ServeHTTP, SessionTypeOK
<1>4. t \in StreamWith(t.pending) /\ Received(t) = Received(st[s])
  <2>1. st[s].tasks \in Int /\ st[s].failures \in Nat /\ secret \in Nat
    BY <1>1 DEF StreamWith, SessionTypeOK
  <2>2. t \in StreamWith(t.pending)
    BY <1>1, <1>2, <2>1 DEF StreamWith
  <2>3. t.held = st[s].held /\ t.incoming = st[s].incoming /\ t.wire = st[s].wire
    BY <1>1, <1>2 DEF StreamWith
  <2> QED  BY <2>2, <2>3 DEF Received
<1>5. Quiet(st[s], t)
  BY <1>1, <1>2, <1>4 DEF Quiet, Still, StreamWith, Writes, ServeHTTP
<1> QED  BY <1>1, <1>2, <1>3, <1>5, QuietOfOne DEF ServeHTTP, StreamWith

LEMMA EnterInv == ASSUME SessionInv, NEW s \in Streams, Enter(s) PROVE SessionInv'
<1>1. SessionTypeOK /\ st[s] \in StreamWith(st[s].pending) /\ Writes(st[s])
  BY DEF SessionInv, SessionTypeOK
<1> PICK n \in Int : n = st[s].tasks + 2
  BY <1>1 DEF StreamWith
<1>2. PICK t : t = IF st[s].closed THEN [st[s] EXCEPT !.phase = "returned"]
                   ELSE [st[s] EXCEPT !.phase = "await", !.tasks = n, !.reader = "recv"]
  OBVIOUS
<1>3. st' = [st EXCEPT ![s] = t]
  BY <1>1, <1>2 DEF Enter, SessionTypeOK, StreamWith
<1>4. t \in StreamWith(t.pending) /\ Received(t) = Received(st[s])
  <2>1. st[s].tasks \in Int /\ st[s].failures \in Nat /\ secret \in Nat
    BY <1>1 DEF StreamWith, SessionTypeOK
  <2>2. t \in StreamWith(t.pending)
    BY <1>1, <1>2, <2>1 DEF StreamWith
  <2>3. t.held = st[s].held /\ t.incoming = st[s].incoming /\ t.wire = st[s].wire
    BY <1>1, <1>2 DEF StreamWith
  <2> QED  BY <2>2, <2>3 DEF Received
<1>5. Quiet(st[s], t)
  <2>1. CASE st[s].closed
    BY <1>1, <1>2, <1>4, <2>1 DEF Quiet, Still, StreamWith, Writes, Enter
  <2>2. CASE ~st[s].closed
    BY <1>1, <1>2, <1>4, <2>2 DEF Quiet, Still, StreamWith, Writes, Enter
  <2> QED  BY <2>1, <2>2
<1> QED  BY <1>1, <1>2, <1>3, <1>5, QuietOfOne DEF Enter, StreamWith

LEMMA NodeOffersInv == ASSUME SessionInv, NEW s \in Streams, NodeOffers(s) PROVE SessionInv'
<1>1. SessionTypeOK /\ st[s] \in StreamWith(st[s].pending) /\ Writes(st[s])
  BY DEF SessionInv, SessionTypeOK
<1>2. PICK h \in BOOLEAN : NodeSends(s, [kind |-> "capabilities", history |-> h])
  BY DEF NodeOffers
<1>3. PICK m : m = [kind |-> "capabilities", history |-> h]
  OBVIOUS
<1>4. m \in Offers /\ m.kind = "capabilities"
  BY <1>3 DEF Offers
<1>5. PICK t : t = [st[s] EXCEPT !.wire = Append(@, m)]
  OBVIOUS
<1>6. st' = [st EXCEPT ![s] = t] /\ UNCHANGED <<secret, hub, qs>>
  BY <1>1, <1>2, <1>3, <1>5 DEF NodeSends, SessionTypeOK
<1>7. st[s].wire \in Seq(Results \cup Offers) /\ t.wire = Append(st[s].wire, m)
  BY <1>1, <1>5 DEF StreamWith
<1>8. t.wire \in Seq(Results \cup Offers) /\ \A i \in DOMAIN t.wire : t.wire[i] = m \/ (i \in DOMAIN st[s].wire /\ t.wire[i] = st[s].wire[i])
  <2>1. m \in Results \cup Offers
    BY <1>4
  <2>2. PICK w : w = st[s].wire /\ w \in Seq(Results \cup Offers)
    BY <1>7
  <2>3. /\ Append(w, m) \in Seq(Results \cup Offers) /\ Append(w, m)[Len(w) + 1] = m
        /\ \A i \in DOMAIN w : Append(w, m)[i] = w[i]
        /\ \A i \in DOMAIN Append(w, m) : i \in DOMAIN w \/ i = Len(w) + 1
    BY <2>1, <2>2, AppendedAt
  <2>4. t.wire = Append(w, m)
    BY <1>7, <2>2
  <2> QED  BY <2>2, <2>3, <2>4, Zenon
<1>9. t \in StreamWith(t.pending)
  BY <1>1, <1>5, <1>8 DEF StreamWith
<1>10. \A x \in Received(t) : x.kind # "result" \/ x \in Received(st[s])
  BY <1>1, <1>4, <1>5, <1>8 DEF Received, StreamWith
<1>11. Quiet(st[s], t)
  BY <1>1, <1>5, <1>9, <1>10 DEF Quiet, Still, StreamWith, Writes, NodeOffers
<1> QED  BY <1>1, <1>5, <1>6, <1>11, QuietOfOne DEF StreamWith

LEMMA StreamEndsInv == ASSUME SessionInv, NEW s \in Streams, StreamEnds(s) PROVE SessionInv'
<1>1. SessionTypeOK /\ st[s] \in StreamWith(st[s].pending) /\ Writes(st[s])
  BY DEF SessionInv, SessionTypeOK
<1>2. PICK t : t = [st[s] EXCEPT !.gone = TRUE]
  OBVIOUS
<1>3. st' = [st EXCEPT ![s] = t]
  BY <1>1, <1>2 DEF StreamEnds, SessionTypeOK
<1>4. t \in StreamWith(t.pending) /\ Received(t) = Received(st[s])
  <2>1. st[s].tasks \in Int /\ st[s].failures \in Nat /\ secret \in Nat
    BY <1>1 DEF StreamWith, SessionTypeOK
  <2>2. t \in StreamWith(t.pending)
    BY <1>1, <1>2, <2>1 DEF StreamWith
  <2>3. t.held = st[s].held /\ t.incoming = st[s].incoming /\ t.wire = st[s].wire
    BY <1>1, <1>2 DEF StreamWith
  <2> QED  BY <2>2, <2>3 DEF Received
<1>5. Quiet(st[s], t)
  BY <1>1, <1>2, <1>4 DEF Quiet, Still, StreamWith, Writes, StreamEnds
<1> QED  BY <1>1, <1>2, <1>3, <1>5, QuietOfOne DEF StreamEnds, StreamWith

LEMMA ReaderReceivesInv == ASSUME SessionInv, NEW s \in Streams, ReaderReceives(s) PROVE SessionInv'
<1>1. SessionTypeOK /\ st[s] \in StreamWith(st[s].pending) /\ Writes(st[s])
  BY DEF SessionInv, SessionTypeOK
<1>2. PICK t : t = [st[s] EXCEPT !.reader = "put", !.held = Head(st[s].wire), !.wire = Tail(@)]
  OBVIOUS
<1>3. st' = [st EXCEPT ![s] = t]
  BY <1>1, <1>2 DEF ReaderReceives, SessionTypeOK
<1>4. st[s].wire \in Seq(Results \cup Offers) /\ st[s].wire # <<>> /\ t.held = Head(st[s].wire) /\ t.wire = Tail(st[s].wire)
  BY <1>1, <1>2 DEF StreamWith, ReaderReceives
<1>5. /\ 1 \in DOMAIN st[s].wire /\ t.held = st[s].wire[1] /\ t.held \in Results \cup Offers
      /\ t.wire \in Seq(Results \cup Offers) /\ \A i \in DOMAIN t.wire : i + 1 \in DOMAIN st[s].wire /\ t.wire[i] = st[s].wire[i + 1]
  BY <1>4
<1>6. t \in StreamWith(t.pending)
  BY <1>1, <1>2, <1>5 DEF StreamWith
<1>7. \A x \in Received(t) : x \in Received(st[s])
  BY <1>1, <1>2, <1>5 DEF Received, StreamWith
<1>8. Quiet(st[s], t)
  BY <1>1, <1>2, <1>6, <1>7 DEF Quiet, Still, StreamWith, Writes, ReaderReceives
<1> QED  BY <1>1, <1>2, <1>3, <1>8, QuietOfOne DEF ReaderReceives, StreamWith

LEMMA ReaderPutsInv == ASSUME SessionInv, NEW s \in Streams, ReaderPuts(s) PROVE SessionInv'
<1>1. SessionTypeOK /\ st[s] \in StreamWith(st[s].pending) /\ Writes(st[s])
  BY DEF SessionInv, SessionTypeOK
<1>2. PICK t : t = [st[s] EXCEPT !.reader = "recv", !.incoming = st[s].held, !.held = NoMessage]
  OBVIOUS
<1>3. st' = [st EXCEPT ![s] = t]
  BY <1>1, <1>2 DEF ReaderPuts, SessionTypeOK
<1>4. t \in StreamWith(t.pending)
  BY <1>1, <1>2 DEF StreamWith
<1>5. \A x \in Received(t) : x.kind # "result" \/ x \in Received(st[s])
  BY <1>1, <1>2 DEF Received, StreamWith
<1>6. Quiet(st[s], t)
  BY <1>1, <1>2, <1>4, <1>5 DEF Quiet, Still, StreamWith, Writes, ReaderPuts
<1> QED  BY <1>1, <1>2, <1>3, <1>6, QuietOfOne DEF ReaderPuts, StreamWith

LEMMA ReaderGivesUpInv == ASSUME SessionInv, NEW s \in Streams, ReaderGivesUp(s) PROVE SessionInv'
<1>1. SessionTypeOK /\ st[s] \in StreamWith(st[s].pending) /\ Writes(st[s])
  BY DEF SessionInv, SessionTypeOK
<1> PICK n \in Int : n = st[s].tasks - 1
  BY <1>1 DEF StreamWith
<1>2. PICK t : t = [st[s] EXCEPT !.reader = "ended", !.held = NoMessage, !.tasks = n]
  OBVIOUS
<1>3. st' = [st EXCEPT ![s] = t]
  BY <1>1, <1>2 DEF ReaderGivesUp, SessionTypeOK
<1>4. t \in StreamWith(t.pending)
  BY <1>1, <1>2 DEF StreamWith
<1>5. \A x \in Received(t) : x.kind # "result" \/ x \in Received(st[s])
  BY <1>1, <1>2 DEF Received, StreamWith
<1>6. Quiet(st[s], t)
  BY <1>1, <1>2, <1>4, <1>5 DEF Quiet, Still, StreamWith, Writes, ReaderGivesUp
<1> QED  BY <1>1, <1>2, <1>3, <1>6, QuietOfOne DEF ReaderGivesUp, StreamWith

LEMMA ReaderFailsInv == ASSUME SessionInv, NEW s \in Streams, ReaderFails(s) PROVE SessionInv'
<1>1. SessionTypeOK /\ st[s] \in StreamWith(st[s].pending) /\ Writes(st[s])
  BY DEF SessionInv, SessionTypeOK
<1> PICK k \in Nat : k = st[s].failures + 1
  BY <1>1 DEF StreamWith
<1> PICK n \in Int : n = st[s].tasks - 1
  BY <1>1 DEF StreamWith
<1>2. PICK t : t = [st[s] EXCEPT !.reader = "ended", !.failures = k, !.tasks = n]
  OBVIOUS
<1>3. st' = [st EXCEPT ![s] = t]
  BY <1>1, <1>2 DEF ReaderFails, SessionTypeOK
<1>4. t \in StreamWith(t.pending) /\ Received(t) = Received(st[s])
  <2>1. st[s].tasks \in Int /\ st[s].failures \in Nat /\ secret \in Nat
    BY <1>1 DEF StreamWith, SessionTypeOK
  <2>2. t \in StreamWith(t.pending)
    BY <1>1, <1>2, <2>1 DEF StreamWith
  <2>3. t.held = st[s].held /\ t.incoming = st[s].incoming /\ t.wire = st[s].wire
    BY <1>1, <1>2 DEF StreamWith
  <2> QED  BY <2>2, <2>3 DEF Received
<1>5. Quiet(st[s], t)
  BY <1>1, <1>2, <1>4 DEF Quiet, Still, StreamWith, Writes, ReaderFails
<1> QED  BY <1>1, <1>2, <1>3, <1>5, QuietOfOne DEF ReaderFails, StreamWith

LEMMA WriterEndsInv == ASSUME SessionInv, NEW s \in Streams, WriterEnds(s) PROVE SessionInv'
<1>1. SessionTypeOK /\ st[s] \in StreamWith(st[s].pending) /\ Writes(st[s])
  BY DEF SessionInv, SessionTypeOK
<1> PICK n \in Int : n = st[s].tasks - 1
  BY <1>1 DEF StreamWith
<1>2. PICK t : t = [st[s] EXCEPT !.writer = "ended", !.tasks = n]
  OBVIOUS
<1>3. st' = [st EXCEPT ![s] = t]
  BY <1>1, <1>2 DEF WriterEnds, SessionTypeOK
<1>4. t \in StreamWith(t.pending) /\ Received(t) = Received(st[s])
  <2>1. st[s].tasks \in Int /\ st[s].failures \in Nat /\ secret \in Nat
    BY <1>1 DEF StreamWith, SessionTypeOK
  <2>2. t \in StreamWith(t.pending)
    BY <1>1, <1>2, <2>1 DEF StreamWith
  <2>3. t.held = st[s].held /\ t.incoming = st[s].incoming /\ t.wire = st[s].wire
    BY <1>1, <1>2 DEF StreamWith
  <2> QED  BY <2>2, <2>3 DEF Received
<1>5. Quiet(st[s], t)
  BY <1>1, <1>2, <1>4 DEF Quiet, Still, StreamWith, Writes, WriterEnds
<1> QED  BY <1>1, <1>2, <1>3, <1>5, QuietOfOne DEF WriterEnds, StreamWith

LEMMA RequestReturnsInv == ASSUME SessionInv, NEW s \in Streams, RequestReturns(s) PROVE SessionInv'
<1>1. SessionTypeOK /\ st[s] \in StreamWith(st[s].pending) /\ Writes(st[s])
  BY DEF SessionInv, SessionTypeOK
<1>2. PICK t : t = [st[s] EXCEPT !.closed = TRUE, !.gone = TRUE]
  OBVIOUS
<1>3. st' = [st EXCEPT ![s] = t]
  BY <1>1, <1>2 DEF RequestReturns, SessionTypeOK
<1>4. t \in StreamWith(t.pending) /\ Received(t) = Received(st[s])
  <2>1. st[s].tasks \in Int /\ st[s].failures \in Nat /\ secret \in Nat
    BY <1>1 DEF StreamWith, SessionTypeOK
  <2>2. t \in StreamWith(t.pending)
    BY <1>1, <1>2, <2>1 DEF StreamWith
  <2>3. t.held = st[s].held /\ t.incoming = st[s].incoming /\ t.wire = st[s].wire
    BY <1>1, <1>2 DEF StreamWith
  <2> QED  BY <2>2, <2>3 DEF Received
<1>5. Quiet(st[s], t)
  BY <1>1, <1>2, <1>4 DEF Quiet, Still, StreamWith, Writes, RequestReturns
<1> QED  BY <1>1, <1>2, <1>3, <1>5, QuietOfOne DEF RequestReturns, StreamWith

LEMMA JoinedInv == ASSUME SessionInv, NEW s \in Streams, Joined(s) PROVE SessionInv'
<1>1. SessionTypeOK /\ st[s] \in StreamWith(st[s].pending) /\ Writes(st[s])
  BY DEF SessionInv, SessionTypeOK
<1>2. PICK t : t = [st[s] EXCEPT !.phase = "ended", !.wire = <<>>, !.told = {}, !.incoming = NoMessage]
  OBVIOUS
<1>3. st' = [st EXCEPT ![s] = t]
  BY <1>1, <1>2 DEF Joined, SessionTypeOK
<1>4. t \in StreamWith(t.pending)
  <2>1. t.wire = <<>> /\ t.wire \in Seq(Results \cup Offers)
    BY <1>1, <1>2 DEF StreamWith
  <2> QED  BY <1>1, <1>2, <2>1 DEF StreamWith
<1>5. \A x \in Received(t) : x.kind # "result" \/ x \in Received(st[s])
  BY <1>1, <1>2 DEF Received, StreamWith
<1>6. Quiet(st[s], t)
  BY <1>1, <1>2, <1>4, <1>5 DEF Quiet, Still, StreamWith, Writes, Joined
<1> QED  BY <1>1, <1>2, <1>3, <1>6, QuietOfOne DEF Joined, StreamWith

-----------------------------------------------------------------------------
(* The steps that begin and end a session. *)

\* Ending a session leaves all else of its stream alone.
LEMMA CancelIsQuiet ==
  ASSUME NEW r, NEW t, NEW u, Quiet(r, t), u = [t EXCEPT !.cancelled = TRUE]
  PROVE  Quiet(r, u) /\ u.cancelled /\ u.phase = t.phase
<1>1. t \in StreamWith(t.pending)
  BY DEF Quiet, Still
<1>2. u \in StreamWith(u.pending) /\ u.cancelled
  BY <1>1 DEF StreamWith
<1>3. /\ u.phase = t.phase /\ u.secret = t.secret /\ u.gone = t.gone /\ u.failures = t.failures /\ u.pending = t.pending
      /\ u.queue = t.queue /\ u.sending = t.sending /\ u.told = t.told /\ u.writer = t.writer
      /\ u.held = t.held /\ u.incoming = t.incoming /\ u.wire = t.wire
  BY <1>1 DEF StreamWith
<1>4. Received(u) = Received(t)
  BY <1>3 DEF Received
<1> QED  BY <1>2, <1>3, <1>4 DEF Quiet, Still, Writes

LEMMA CancelledAt ==
  ASSUME NEW f, NEW S, NEW s \in Streams
  PROVE  Cancelled(f, S)[s] = (IF s \in S THEN [f[s] EXCEPT !.cancelled = TRUE] ELSE f[s]) /\ DOMAIN Cancelled(f, S) = Streams
BY DEF Cancelled

LEMMA OpenInv == ASSUME SessionInv, NEW s \in Streams, Open(s) PROVE SessionInv'
<1>1. SessionTypeOK /\ st[s] \in StreamWith(st[s].pending) /\ Writes(st[s]) /\ hub \in HubTypes
  BY DEF SessionInv, SessionTypeOK, HubTypes
<1> PICK n \in Int : n = st[s].tasks + 1
  BY <1>1 DEF StreamWith
<1>2. PICK t : t = [st[s] EXCEPT !.phase = "open", !.incoming = NoMessage, !.writer = "select", !.tasks = n,
                                 !.history = st[s].incoming.history]
  OBVIOUS
<1>3. st[s].incoming.history \in BOOLEAN
  <2>1. st[s].incoming \in Results \cup Offers \cup {NoMessage} /\ st[s].incoming.kind = "capabilities"
    BY <1>1 DEF StreamWith, Open
  <2> QED  BY <2>1 DEF Results, Offers
<1>4. Quiet(st[s], t) /\ t.phase = "open"
  <2>1. t \in StreamWith(t.pending)
    BY <1>1, <1>2, <1>3 DEF StreamWith
  <2>2. \A x \in Received(t) : x.kind # "result" \/ x \in Received(st[s])
    BY <1>1, <1>2 DEF Received, StreamWith
  <2> QED  BY <1>1, <1>2, <2>1, <2>2 DEF Quiet, Still, StreamWith, Writes, Open
<1>5. PICK f : f = [st EXCEPT ![s] = t]
  OBVIOUS
<1>6. PICK C : C = IF hub.closed THEN {s} ELSE {hub.current} \ {NoStream}
  OBVIOUS
<1>7. st' = Cancelled(f, C)
  BY <1>1, <1>2, <1>5, <1>6 DEF Open, SessionTypeOK
<1>8. f[s] = t /\ \A x \in Streams \ {s} : f[x] = st[x]
  BY <1>1, <1>5 DEF SessionTypeOK
<1>9. \A x \in Streams : Quiet(st[x], f[x])
  BY <1>1, <1>4, <1>8, QuietSame
<1>10. \A x \in Streams : Quiet(st[x], st'[x]) /\ st'[x].phase = f[x].phase /\ (x \in C => st'[x].cancelled) /\ (x \notin C => st'[x] = f[x])
  <2> SUFFICES ASSUME NEW x \in Streams
               PROVE Quiet(st[x], st'[x]) /\ st'[x].phase = f[x].phase /\ (x \in C => st'[x].cancelled) /\ (x \notin C => st'[x] = f[x])
    OBVIOUS
  <2>1. st'[x] = IF x \in C THEN [f[x] EXCEPT !.cancelled = TRUE] ELSE f[x]
    BY <1>7, CancelledAt
  <2> QED  BY <1>9, <2>1, CancelIsQuiet
<1>11. DOMAIN st' = Streams
  BY <1>7, CancelledAt
<1>12. HubServes' /\ NewestSessionServes'
  <2>1. HubServes /\ NewestSessionServes /\ st[s].phase = "await"
    BY DEF SessionInv, Open
  <2>2. \A x \in Streams : st'[x].phase = "open" <=> x = s \/ st[x].phase = "open"
    BY <1>4, <1>8, <1>10
  <2>3. \A x \in Streams : Done(x)' \/ x = s \/ ~Done(x)
    BY <1>8, <1>10 DEF Done, Quiet, Still
  <2>4. CASE hub.closed
    BY <1>1, <1>6, <1>10, <2>1, <2>2, <2>3, <2>4 DEF Open, HubServes, NewestSessionServes, Done, HubTypes
  <2>5. CASE ~hub.closed
    <3>1. hub'.current = s
      BY <1>1, <2>5 DEF Open, HubTypes
    <3>2. HubServes'
      BY <2>2, <3>1 DEF HubServes
    <3>3. ASSUME NEW x \in Streams, st'[x].phase = "open", ~Done(x)', x # s PROVE FALSE
      <4>1. hub.current = x
        BY <2>1, <2>2, <2>3, <3>3 DEF NewestSessionServes
      <4>2. x \in C
        BY <1>6, <2>5, <4>1
      <4> QED  BY <1>10, <3>3, <4>2 DEF Done
    <3> QED  BY <3>1, <3>2, <3>3 DEF NewestSessionServes
  <2> QED  BY <2>4, <2>5
<1>13. secret \in Nat /\ secret' = secret /\ qs' = qs /\ qs \in [Queries -> QueryTypes]
  BY <1>1 DEF SessionTypeOK, QueryTypes, Open
<1>14. hub' \in HubTypes /\ hub'.next = hub.next /\ hub.next \in Nat
  BY <1>1 DEF HubTypes, Open
<1> QED  BY <1>10, <1>11, <1>12, <1>13, <1>14, QuietStep

LEMMA ReturnInv ==
  ASSUME SessionInv, NEW s \in Streams, NEW taken \in 0 .. 1, st[s].phase \in {"await", "open"}, taken <= st[s].failures,
         Return(s, taken)
  PROVE  SessionInv'
<1>1. SessionTypeOK /\ st[s] \in StreamWith(st[s].pending) /\ Writes(st[s]) /\ hub \in HubTypes
  BY DEF SessionInv, SessionTypeOK, HubTypes
<1> PICK n \in Int : n = st[s].tasks - 1
  BY <1>1 DEF StreamWith
<1> PICK k \in Nat : k = st[s].failures - taken
  BY <1>1 DEF StreamWith
<1>2. PICK t : t = [st[s] EXCEPT !.phase = "returned", !.cancelled = TRUE, !.tasks = n, !.failures = k]
  OBVIOUS
<1>3. st' = [st EXCEPT ![s] = t]
  BY <1>1, <1>2 DEF Return, SessionTypeOK
<1>4. t \in StreamWith(t.pending) /\ Received(t) = Received(st[s])
  <2>1. t \in StreamWith(t.pending)
    BY <1>1, <1>2 DEF StreamWith
  <2>2. t.held = st[s].held /\ t.incoming = st[s].incoming /\ t.wire = st[s].wire
    BY <1>1, <1>2 DEF StreamWith
  <2> QED  BY <2>1, <2>2 DEF Received
<1>5. Quiet(st[s], t) /\ t.phase = "returned"
  BY <1>1, <1>2, <1>4 DEF Quiet, Still, StreamWith, Writes
<1>6. DOMAIN st' = Streams /\ st'[s] = t /\ \A x \in Streams \ {s} : st'[x] = st[x]
  BY <1>1, <1>3 DEF SessionTypeOK
<1>7. \A x \in Streams : Quiet(st[x], st'[x])
  BY <1>1, <1>5, <1>6, QuietSame
<1>8. hub' \in HubTypes /\ hub'.next = hub.next /\ hub.next \in Nat
      /\ (hub'.current = hub.current \/ hub.current = s) /\ hub'.current # s
  BY <1>1 DEF HubTypes, Return, Remove, SessionInv, HubServes
<1>9. hub'.current = hub.current \/ hub'.current = NoStream
  BY <1>1 DEF HubTypes, Return, Remove
<1>10. HubServes' /\ NewestSessionServes'
  <2>1. HubServes /\ NewestSessionServes
    BY DEF SessionInv
  <2>2. \A x \in Streams : st'[x].phase = "open" => x # s /\ st[x].phase = "open" /\ (Done(x)' <=> Done(x))
    BY <1>5, <1>6 DEF Done
  <2>3. HubServes'
    BY <1>1, <1>6, <1>8, <1>9, <2>1 DEF HubServes, HubTypes
  <2>4. NewestSessionServes'
    BY <1>8, <2>1, <2>2 DEF NewestSessionServes
  <2> QED  BY <2>3, <2>4
<1>11. secret \in Nat /\ secret' = secret /\ qs' = qs /\ qs \in [Queries -> QueryTypes]
  BY <1>1 DEF SessionTypeOK, QueryTypes, Return
<1> QED  BY <1>6, <1>7, <1>8, <1>10, <1>11, QuietStep

LEMMA CloseInv == ASSUME SessionInv, Close PROVE SessionInv'
<1>1. SessionTypeOK /\ hub \in HubTypes /\ HubServes /\ NewestSessionServes
  BY DEF SessionInv, SessionTypeOK, HubTypes
<1>2. PICK C : C = {hub.current} \ {NoStream}
  OBVIOUS
<1>3. \A x \in Streams : Quiet(st[x], st'[x]) /\ st'[x].phase = st[x].phase /\ (x \in C => st'[x].cancelled) /\ (x \notin C => st'[x] = st[x])
  <2> SUFFICES ASSUME NEW x \in Streams
               PROVE Quiet(st[x], st'[x]) /\ st'[x].phase = st[x].phase /\ (x \in C => st'[x].cancelled) /\ (x \notin C => st'[x] = st[x])
    OBVIOUS
  <2>1. st'[x] = IF x \in C THEN [st[x] EXCEPT !.cancelled = TRUE] ELSE st[x]
    BY <1>2, CancelledAt DEF Close
  <2>2. Quiet(st[x], st[x])
    BY <1>1, QuietSame
  <2> QED  BY <2>1, <2>2, CancelIsQuiet
<1>4. DOMAIN st' = Streams
  BY DEF Close, Cancelled
<1>5. hub' \in HubTypes /\ hub'.next = hub.next /\ hub.next \in Nat /\ hub'.current = NoStream
  BY <1>1 DEF HubTypes, Close
<1>6. HubServes' /\ NewestSessionServes'
  <2>1. ASSUME NEW x \in Streams, st'[x].phase = "open", ~Done(x)' PROVE FALSE
    <3>1. ~Done(x) /\ st[x].phase = "open"
      BY <1>3, <2>1 DEF Done, Quiet, Still
    <3>2. x \in C
      BY <1>1, <1>2, <3>1 DEF NewestSessionServes
    <3> QED  BY <1>3, <2>1, <3>2 DEF Done
  <2> QED  BY <1>5, <2>1 DEF HubServes, NewestSessionServes
<1>7. secret \in Nat /\ secret' = secret /\ qs' = qs /\ qs \in [Queries -> QueryTypes]
  BY <1>1 DEF SessionTypeOK, QueryTypes, Close
<1> QED  BY <1>3, <1>4, <1>5, <1>6, <1>7, QuietStep

LEMMA StopInv == ASSUME SessionInv, Stop PROVE SessionInv'
<1>1. SessionTypeOK /\ hub \in HubTypes /\ HubServes /\ NewestSessionServes
  BY DEF SessionInv, SessionTypeOK, HubTypes
<1>2. ASSUME NEW x \in Streams PROVE Quiet(st[x], st'[x]) /\ st'[x].phase = st[x].phase
  <2>1. CASE st'[x] = st[x]
    BY <1>1, <2>1, QuietSame
  <2>2. CASE st'[x] = [st[x] EXCEPT !.gone = TRUE]
    <3>1. PICK t : t = [st[x] EXCEPT !.gone = TRUE]
      OBVIOUS
    <3>2. st[x] \in StreamWith(st[x].pending) /\ Writes(st[x])
      BY <1>1 DEF SessionTypeOK
    <3>3. t \in StreamWith(t.pending) /\ t.held = st[x].held /\ t.incoming = st[x].incoming /\ t.wire = st[x].wire
      BY <3>1, <3>2 DEF StreamWith
    <3>4. Received(t) = Received(st[x])
      BY <3>3 DEF Received
    <3>5. Quiet(st[x], t) /\ t.phase = st[x].phase
      BY <3>1, <3>2, <3>3, <3>4 DEF Quiet, Still, StreamWith, Writes
    <3> QED  BY <2>2, <3>1, <3>5
  <2> QED  BY <2>1, <2>2 DEF Stop
<1>3. DOMAIN st' = Streams
  BY DEF Stop
<1>4. HubServes' /\ NewestSessionServes'
  BY <1>1, <1>2, HubStays DEF Stop, Done, Quiet, Still
<1>5. secret \in Nat /\ hub.next \in Nat /\ UNCHANGED <<secret, hub, qs>> /\ qs \in [Queries -> QueryTypes]
  BY <1>1 DEF SessionTypeOK, QueryTypes, HubTypes, Stop
<1> QED  BY <1>1, <1>2, <1>3, <1>4, <1>5, QuietStep

LEMMA RotateInv == ASSUME SessionInv, Rotate PROVE SessionInv'
<1>1. SessionTypeOK /\ hub \in HubTypes /\ HubServes /\ NewestSessionServes
  BY DEF SessionInv, SessionTypeOK, HubTypes
<1>2. \A x \in Streams : Quiet(st[x], st'[x])
  BY <1>1, QuietSame DEF Rotate
<1>3. HubServes' /\ NewestSessionServes'
  BY <1>1 DEF Rotate, HubServes, NewestSessionServes, Done
<1>4. secret \in Nat /\ secret' \in Nat /\ secret' >= secret /\ hub.next \in Nat /\ UNCHANGED <<hub, st, qs>>
      /\ qs \in [Queries -> QueryTypes] /\ DOMAIN st = Streams
  BY <1>1 DEF SessionTypeOK, QueryTypes, HubTypes, Rotate
<1> QED  BY <1>1, <1>2, <1>3, <1>4, QuietStep

LEMMA QueryExpiresInv == ASSUME SessionInv, NEW q \in Queries, QueryExpires(q) PROVE SessionInv'
<1>1. SessionTypeOK /\ hub \in HubTypes /\ HubServes /\ NewestSessionServes
  BY DEF SessionInv, SessionTypeOK, HubTypes
<1>2. \A x \in Streams : Quiet(st[x], st'[x])
  BY <1>1, QuietSame DEF QueryExpires
<1>3. HubServes' /\ NewestSessionServes'
  BY <1>1 DEF QueryExpires, HubServes, NewestSessionServes, Done
<1>4. secret \in Nat /\ hub.next \in Nat /\ UNCHANGED <<secret, hub, st>> /\ DOMAIN st = Streams /\ qs \in [Queries -> QueryTypes]
  BY <1>1 DEF SessionTypeOK, QueryTypes, HubTypes, QueryExpires
<1>5. /\ qs' \in [Queries -> QueryTypes]
      /\ \A p \in Queries : /\ qs'[p].pc = qs[p].pc /\ qs'[p].on = qs[p].on /\ qs'[p].id = qs[p].id /\ qs'[p].slot = qs[p].slot
                            /\ qs'[p].outcome = qs[p].outcome /\ qs'[p].secret = qs[p].secret
  BY <1>4 DEF QueryExpires, QueryTypes
<1> QED  BY <1>1, <1>2, <1>3, <1>4, <1>5, QuietStep

-----------------------------------------------------------------------------
(* The steps of a stream that move a command or an answer. *)

\* A step of one stream s in which queries are at most answered: what must be shown is that
\* messages only move along the stream, and where on s the commands of each query then are.
LEMMA StepOfOne ==
  ASSUME SessionInv, NEW s \in Streams, NEW t, st' = [st EXCEPT ![s] = t], UNCHANGED <<secret, hub>>,
         t \in StreamWith(st[s].pending), Writes(t), t.phase = st[s].phase, t.secret = st[s].secret,
         t.cancelled = st[s].cancelled, t.gone = st[s].gone,
         \A m \in Carried(t) : m.kind \in Naming =>
            m.of \in Queries /\ \E c \in Carried(st[s]) : c.kind \in Naming /\ c.id = m.id /\ c.of = m.of,
         qs' \in [Queries -> QueryTypes],
         \A q \in Queries : /\ qs'[q].pc = qs[q].pc /\ qs'[q].on = qs[q].on /\ qs'[q].id = qs[q].id
                            /\ qs'[q].outcome = qs[q].outcome /\ qs'[q].secret = qs[q].secret
                            /\ \/ qs'[q].slot = qs[q].slot
                               \/ /\ qs[q].pc \in {"wait", "ended"} /\ (qs'[q].slot.kind = "result" => qs'[q].slot.of = q)
                                  /\ \A x \in Streams \ {s} : ~Asked(x, q),
         \A q \in Queries : AskedOnce(s, q)' /\ CancelFollows(s, q)'
  PROVE  SessionInv'
<1>0. SessionTypeOK /\ HubServes /\ NewestSessionServes
  BY DEF SessionInv
<1>1. DOMAIN st' = Streams /\ st'[s] = t /\ \A x \in Streams \ {s} : st'[x] = st[x]
  BY <1>0 DEF SessionTypeOK
<1>2. t.pending = st[s].pending
  BY DEF StreamWith
<1>3. SessionTypeOK'
  BY <1>0, <1>1, <1>2 DEF SessionTypeOK, QueryTypes
<1>4. HubServes' /\ NewestSessionServes'
  <2>1. \A x \in Streams : (st'[x].phase = "open" <=> st[x].phase = "open") /\ (Done(x) => Done(x)')
    BY <1>1 DEF Done
  <2> QED  BY <1>0, <2>1, HubStays
<1>5. ASSUME NEW q \in Queries PROVE QueryKnows(q)'
  <2>1. QueryKnows(q) /\ qs[q].on \in Streams \cup {NoStream} /\ secret \in Nat /\ hub.next \in Nat
    BY <1>0 DEF SessionInv, SessionTypeOK
  <2>2. qs[q].on # NoStream => st'[qs[q].on].phase # "idle" /\ st'[qs[q].on].secret = st[qs[q].on].secret
    BY <1>1, <2>1 DEF QueryKnows
  <2> QED  BY <1>0, <1>3, <2>1, <2>2, QueryStays
<1>6. IdsAreOwn'
  BY DEF SessionInv, IdsAreOwn
<1>7. ASSUME NEW x \in Streams PROVE StreamNames(x)'
  <2>1. StreamNames(x)
    BY DEF SessionInv
  <2>2. CASE x = s
    <3>1. \A i \in DOMAIN st'[s].pending : /\ i \in DOMAIN st[s].pending /\ st'[s].pending[i] = st[s].pending[i]
                                           /\ qs'[st[s].pending[i]].pc \in {"enqueue", "wait"}
      BY <1>1, <1>2, <2>1, <2>2 DEF StreamNames
    <3> QED  BY <1>1, <2>1, <2>2, <3>1, NamesStay
  <2>3. CASE x # s
    <3>1. Quiet(st[x], st'[x])
      BY <1>0, <1>1, <2>3, QuietSame
    <3>2. /\ \A m \in Carried(st'[x]) : m.kind \in Naming => m \in Carried(st[x])
          /\ \A m \in Carried(st'[x]) : m.kind \in Naming => m.of \in Queries
      BY <1>0, <3>1, StillCarries DEF Quiet
    <3>3. \A i \in DOMAIN st'[x].pending : /\ i \in DOMAIN st[x].pending /\ st'[x].pending[i] = st[x].pending[i]
                                           /\ qs'[st[x].pending[i]].pc \in {"enqueue", "wait"}
      BY <1>1, <2>1, <2>3 DEF StreamNames
    <3> QED  BY <2>1, <3>2, <3>3, NamesStay
  <2> QED  BY <2>2, <2>3
<1>8. ASSUME NEW x \in Streams, NEW q \in Queries, x # s PROVE AskedOnce(x, q)' /\ CancelFollows(x, q)'
  <2>1. Quiet(st[x], st'[x])
    BY <1>0, <1>1, <1>8, QuietSame
  <2>2. AskedOnce(x, q) /\ CancelFollows(x, q)
    BY DEF SessionInv
  <2>3. qs'[q].slot = qs[q].slot \/ ~Asked(x, q)
    BY <1>8
  <2> QED  BY <2>1, <2>2, <2>3, PairStays DEF Quiet
<1>9. \A x \in Streams, q \in Queries : AskedOnce(x, q)' /\ CancelFollows(x, q)'
  BY <1>8
<1> QED  BY <1>3, <1>4, <1>5, <1>6, <1>7, <1>9 DEF SessionInv

\* A command of a query is only on the session the query began on.
LEMMA AskedOnItsSession ==
  ASSUME SessionInv, NEW s \in Streams, NEW q \in Queries, Asked(s, q) \/ Answering(s, q)
  PROVE  qs[q].on = s /\ qs[q].id # 0
<1>1. PICK m \in Carried(st[s]) : m.kind \in Naming /\ m.of = q
  BY DEF Asked, Queued, ToldOf, Answering, Carried, AsksFor, Naming
<1>2. NamesQuery(m, s)
  BY <1>1 DEF SessionInv, StreamNames
<1> QED  BY <1>1, <1>2 DEF NamesQuery, Naming

\* The query that waits for an id on a session is the one every message with the id names.
LEMMA PendingIsNamed ==
  ASSUME SessionInv, NEW s \in Streams, NEW m \in Carried(st[s]), m.kind \in Naming, m.of \in Queries,
         m.id \in DOMAIN st[s].pending
  PROVE  st[s].pending[m.id] = m.of
<1>1. NamesQuery(m, s) /\ StreamNames(s) /\ IdsAreOwn
  BY DEF SessionInv, StreamNames
<1>2. st[s].pending[m.id] \in Queries /\ m.id # 0 /\ qs[st[s].pending[m.id]].id = m.id /\ qs[m.of].id = m.id
  BY <1>1 DEF StreamNames, NamesQuery, Naming
<1> QED  BY <1>1, <1>2 DEF IdsAreOwn

\* Complete fills the slot of the query the answer names, if any.
LEMMA CompleteFills ==
  ASSUME SessionInv, NEW s \in Streams, NEW m \in Carried(st[s]), m.kind \in Naming, m.of \in Queries,
         NEW result \in Ends, qs' = Complete(s, m.id, result)
  PROVE  /\ qs' \in [Queries -> QueryTypes]
         /\ \A q \in Queries : /\ qs'[q].pc = qs[q].pc /\ qs'[q].on = qs[q].on /\ qs'[q].id = qs[q].id
                               /\ qs'[q].outcome = qs[q].outcome /\ qs'[q].secret = qs[q].secret
                               /\ qs'[q].slot = qs[q].slot \/ (q = m.of /\ qs'[q].slot = result)
<1>1. qs \in [Queries -> QueryTypes]
  BY DEF SessionInv, SessionTypeOK, QueryTypes
<1>2. CASE m.id \in DOMAIN st[s].pending
  <2>1. st[s].pending[m.id] = m.of
    BY <1>2, PendingIsNamed
  <2>2. qs' = qs \/ qs' = [qs EXCEPT ![m.of].slot = result]
    BY <1>2, <2>1 DEF Complete
  <2>3. CASE qs' = qs
    BY <1>1, <2>3
  <2>4. CASE qs' = [qs EXCEPT ![m.of].slot = result]
    <3>1. PICK y : y = [qs[m.of] EXCEPT !.slot = result]
      OBVIOUS
    <3>2. qs' = [qs EXCEPT ![m.of] = y]
      BY <1>1, <2>4, <3>1
    <3>3. y \in QueryTypes /\ y.pc = qs[m.of].pc /\ y.on = qs[m.of].on /\ y.id = qs[m.of].id /\ y.slot = result
          /\ y.outcome = qs[m.of].outcome /\ y.secret = qs[m.of].secret
      BY <1>1, <3>1 DEF QueryTypes
    <3> QED  BY <1>1, <3>2, <3>3
  <2> QED  BY <2>2, <2>3, <2>4
<1>3. CASE m.id \notin DOMAIN st[s].pending
  BY <1>1, <1>3 DEF Complete
<1> QED  BY <1>2, <1>3

LEMMA ReceivesInv == ASSUME SessionInv, NEW s \in Streams, Receives(s) PROVE SessionInv'
<1>1. SessionTypeOK /\ st[s] \in StreamWith(st[s].pending) /\ Writes(st[s])
  BY DEF SessionInv, SessionTypeOK
<1>2. PICK t : t = [st[s] EXCEPT !.incoming = NoMessage]
  OBVIOUS
<1>3. st' = [st EXCEPT ![s] = t]
  BY <1>1, <1>2 DEF Receives, SessionTypeOK
<1>4. t \in StreamWith(t.pending)
  BY <1>1, <1>2 DEF StreamWith
<1>5. \A x \in Received(t) : x.kind # "result" \/ x \in Received(st[s])
  BY <1>1, <1>2 DEF Received, StreamWith
<1>6. Quiet(st[s], t) /\ t.phase = st[s].phase
  <2>1. /\ t.phase = st[s].phase /\ t.secret = st[s].secret /\ t.cancelled = st[s].cancelled /\ t.gone = st[s].gone
        /\ t.failures = st[s].failures /\ t.queue = st[s].queue /\ t.sending = st[s].sending /\ t.writer = st[s].writer
        /\ t.told = st[s].told /\ t.pending = st[s].pending
    BY <1>1, <1>2 DEF StreamWith
  <2> QED  BY <1>1, <1>4, <1>5, <2>1 DEF Quiet, Still, Writes
<1>7. DOMAIN st' = Streams /\ st'[s] = t /\ \A x \in Streams \ {s} : st'[x] = st[x]
  BY <1>1, <1>3 DEF SessionTypeOK
<1>8. \A x \in Streams : Quiet(st[x], st'[x])
  BY <1>1, <1>6, <1>7, QuietSame
<1>9. HubServes' /\ NewestSessionServes'
  <2>1. \A x \in Streams : (st'[x].phase = "open" <=> st[x].phase = "open") /\ (Done(x) => Done(x)')
    BY <1>6, <1>7 DEF Done, Quiet, Still
  <2> QED  BY <1>1, <2>1, HubStays DEF SessionInv, Receives
<1>10. secret \in Nat /\ hub \in HubTypes /\ hub.next \in Nat /\ UNCHANGED <<secret, hub>> /\ qs \in [Queries -> QueryTypes]
  BY <1>1 DEF SessionTypeOK, HubTypes, QueryTypes, Receives
<1>11. CASE st[s].incoming.kind = "result"
  <2>1. PICK m : m = st[s].incoming
    OBVIOUS
  <2>2. m \in Received(st[s]) /\ m \in Carried(st[s])
    BY <2>1 DEF Carried, Received
  <2>3. m \in Results /\ m.kind = "result" /\ m.of \in Queries
    BY <1>1, <1>11, <2>1 DEF StreamWith, Results, Offers
  <2>4. m.kind \in Naming /\ m \in Ends /\ qs' = Complete(s, m.id, m)
    BY <1>11, <2>1, <2>3 DEF Naming, Ends, Receives
  <2>5. /\ qs' \in [Queries -> QueryTypes]
        /\ \A q \in Queries : /\ qs'[q].pc = qs[q].pc /\ qs'[q].on = qs[q].on /\ qs'[q].id = qs[q].id
                              /\ qs'[q].outcome = qs[q].outcome /\ qs'[q].secret = qs[q].secret
                              /\ qs'[q].slot = qs[q].slot \/ (q = m.of /\ qs'[q].slot = m)
    BY <2>2, <2>3, <2>4, CompleteFills
  <2>6. qs[m.of].on = s
    BY <2>2, <2>3, <2>4 DEF SessionInv, StreamNames, NamesQuery
  <2>7. ~Asked(s, m.of)
    <3>1. AskedOnce(s, m.of)
      BY <2>3 DEF SessionInv
    <3>2. Answering(s, m.of)
      BY <2>2, <2>3 DEF Answering
    <3> QED  BY <3>1, <3>2 DEF AskedOnce, Asked
  <2>8. \A x \in Streams : ~Asked(x, m.of)
    BY <2>3, <2>6, <2>7, AskedOnItsSession
  <2>10. qs[m.of].pc \in {"wait", "ended"}
    BY <2>2, <2>3 DEF SessionInv, AskedOnce, Answering
  <2>9. \A q \in Queries : qs'[q].slot = qs[q].slot \/ (qs[q].pc \in {"wait", "ended"} /\ (qs'[q].slot.kind = "result" => qs'[q].slot.of = q) /\ \A x \in Streams : ~Asked(x, q))
    BY <2>5, <2>8, <2>10
  <2> QED  BY <1>7, <1>8, <1>9, <1>10, <2>5, <2>9, QuietStep
<1>12. CASE st[s].incoming.kind # "result"
  <2>1. qs' = qs
    BY <1>12 DEF Receives
  <2> QED  BY <1>7, <1>8, <1>9, <1>10, <2>1, QuietStep
<1> QED  BY <1>11, <1>12

\* A step of one stream s in which no query goes on or is answered.
LEMMA MoveOfOne ==
  ASSUME SessionInv, NEW s \in Streams, NEW t, st' = [st EXCEPT ![s] = t], UNCHANGED <<secret, hub, qs>>,
         t \in StreamWith(st[s].pending), Writes(t), t.phase = st[s].phase, t.secret = st[s].secret,
         t.cancelled = st[s].cancelled, t.gone = st[s].gone,
         \A m \in Carried(t) : m.kind \in Naming =>
            m.of \in Queries /\ \E c \in Carried(st[s]) : c.kind \in Naming /\ c.id = m.id /\ c.of = m.of,
         \A q \in Queries : AskedOnce(s, q)' /\ CancelFollows(s, q)'
  PROVE  SessionInv'
<1>1. qs' \in [Queries -> QueryTypes]
  BY DEF SessionInv, SessionTypeOK, QueryTypes
<1> QED  BY <1>1, StepOfOne

LEMMA CarriedTypes ==
  ASSUME NEW r, r \in StreamWith(r.pending), NEW m \in Carried(r)
  PROVE  m \in Commands \cup Results \cup Offers \cup {NoMessage} /\ (m.kind \in Naming => m.of \in Queries)
<1>1. r.wire \in Seq(Results \cup Offers) /\ r.queue \in Seq(Commands) /\ r.told \subseteq Commands
      /\ r.held \in Results \cup Offers \cup {NoMessage} /\ r.incoming \in Results \cup Offers \cup {NoMessage}
      /\ r.sending \in Commands \cup {NoMessage}
  BY DEF StreamWith
<1>2. (\A i \in DOMAIN r.wire : r.wire[i] \in Results \cup Offers) /\ (\A i \in DOMAIN r.queue : r.queue[i] \in Commands)
  BY <1>1
<1>3. m \in Commands \cup Results \cup Offers \cup {NoMessage}
  BY <1>1, <1>2 DEF Carried, Received
<1> QED  BY <1>3 DEF Commands, Results, Offers, Naming

LEMMA NodeAnswersInv == ASSUME SessionInv, NEW s \in Streams, NodeAnswers(s) PROVE SessionInv'
<1>1. SessionTypeOK /\ st[s] \in StreamWith(st[s].pending) /\ Writes(st[s])
  BY DEF SessionInv, SessionTypeOK
<1>2. PICK c \in st[s].told :
        /\ c.kind = "history"
        /\ st' = [st EXCEPT ![s].told = @ \ {c}, ![s].wire = Append(@, [kind |-> "result", id |-> c.id, of |-> c.of])]
        /\ UNCHANGED <<secret, hub, qs>>
  BY DEF NodeAnswers
<1>3. c \in Commands
  BY <1>1 DEF StreamWith
<1>4. PICK m : m = [kind |-> "result", id |-> c.id, of |-> c.of]
  OBVIOUS
<1>5. m \in Results /\ m.kind = "result" /\ m.id = c.id /\ m.of = c.of /\ c.of \in Queries
  BY <1>3, <1>4 DEF Commands, Results
<1>6. PICK w : w = Append(st[s].wire, m)
  OBVIOUS
<1>7. PICK t : t = [st[s] EXCEPT !.told = @ \ {c}, !.wire = w]
  OBVIOUS
<1>8. st' = [st EXCEPT ![s] = t]
  BY <1>1, <1>2, <1>4, <1>6, <1>7 DEF SessionTypeOK
<1>9. w \in Seq(Results \cup Offers) /\ \A i \in DOMAIN w : w[i] = m \/ (i \in DOMAIN st[s].wire /\ w[i] = st[s].wire[i])
  <2>1. PICK v : v = st[s].wire /\ v \in Seq(Results \cup Offers)
    BY <1>1 DEF StreamWith
  <2>2. /\ Append(v, m) \in Seq(Results \cup Offers) /\ Append(v, m)[Len(v) + 1] = m
        /\ \A i \in DOMAIN v : Append(v, m)[i] = v[i]
        /\ \A i \in DOMAIN Append(v, m) : i \in DOMAIN v \/ i = Len(v) + 1
    BY <1>5, <2>1, AppendedAt
  <2>3. w = Append(v, m)
    BY <1>6, <2>1
  <2> QED  BY <2>1, <2>2, <2>3, Zenon
<1>10. t \in StreamWith(st[s].pending) /\ t.pending = st[s].pending
  BY <1>1, <1>7, <1>9 DEF StreamWith
<1>11. /\ t.phase = st[s].phase /\ t.secret = st[s].secret /\ t.cancelled = st[s].cancelled /\ t.gone = st[s].gone
       /\ t.failures = st[s].failures /\ t.queue = st[s].queue /\ t.sending = st[s].sending /\ t.writer = st[s].writer
       /\ t.held = st[s].held /\ t.incoming = st[s].incoming /\ t.wire = w /\ t.told = st[s].told \ {c}
  BY <1>1, <1>7 DEF StreamWith
<1>12. Writes(t)
  BY <1>1, <1>11 DEF Writes
<1>13. \A x \in Received(t) : x = m \/ x \in Received(st[s])
  BY <1>9, <1>11 DEF Received
<1>14. \A x \in Carried(t) : x = m \/ x \in Carried(st[s])
  BY <1>11, <1>13 DEF Carried
<1>15. c \in Carried(st[s]) /\ c.kind \in Naming
  BY <1>2 DEF Carried, Naming
<1>16. ASSUME NEW x \in Carried(t), x.kind \in Naming
       PROVE x.of \in Queries /\ \E y \in Carried(st[s]) : y.kind \in Naming /\ y.id = x.id /\ y.of = x.of
  <2>1. x.of \in Queries
    BY <1>10, <1>16, CarriedTypes
  <2> QED  BY <1>5, <1>14, <1>15, <1>16, <2>1
<1>17. st'[s] = t
  BY <1>1, <1>8 DEF SessionTypeOK
<1>18. ASSUME NEW q \in Queries PROVE AskedOnce(s, q)' /\ CancelFollows(s, q)'
  <2>1. AskedOnce(s, q) /\ CancelFollows(s, q)
    BY DEF SessionInv
  <2>2. st'[s].queue = st[s].queue /\ st'[s].sending = st[s].sending /\ qs' = qs /\ (ToldOf(s, q)' => ToldOf(s, q))
    BY <1>2, <1>11, <1>17 DEF ToldOf, AsksFor
  <2>3. (Queued(s, q)' <=> Queued(s, q)) /\ (CancelQueued(s, q)' <=> CancelQueued(s, q)) /\ (Over(s)' <=> Over(s))
    BY <1>11, <1>17, <2>2 DEF Queued, CancelQueued, AsksFor, CancelsOf, Over, Done
  <2>4. CancelFollows(s, q)'
    BY <2>1, <2>2, <2>3 DEF CancelFollows, AsksFor, CancelsOf
  <2>5. CASE q # c.of
    <3>1. Answering(s, q)' => Answering(s, q)
      BY <1>5, <1>13, <1>17, <2>5 DEF Answering
    <3>2. AskedOnce(s, q)'
      BY <2>1, <2>2, <2>3, <3>1 DEF AskedOnce, AsksFor
    <3> QED  BY <2>4, <3>2
  <2>6. CASE q = c.of
    <3>1. ToldOf(s, q)
      BY <1>2, <2>6 DEF ToldOf, AsksFor
    <3>2. ~Queued(s, q) /\ ~AsksFor(st[s].sending, q)
      BY <2>1, <3>1 DEF AskedOnce
    <3>3. ~ToldOf(s, q)'
      <4>1. ASSUME NEW d \in st[s].told, AsksFor(d, q) PROVE d = c
        <5>1. d \in Commands /\ d.kind = "history" /\ d.of = c.of
          BY <1>1, <2>6, <4>1 DEF StreamWith, AsksFor
        <5>2. NamesQuery(d, s) /\ NamesQuery(c, s)
          BY <1>15, <4>1 DEF SessionInv, StreamNames, Carried
        <5>3. d.id = c.id
          BY <1>2, <5>1, <5>2 DEF NamesQuery
        <5> QED  BY <1>2, <1>3, <5>1, <5>3 DEF Commands
      <4> QED  BY <1>11, <1>17, <4>1 DEF ToldOf, AsksFor
    <3>4. AskedOnce(s, q)'
      <4>2. qs[q].pc \in {"wait", "ended"}
        BY <2>1, <3>1 DEF AskedOnce
      <4>1. \A i, j \in DOMAIN st'[s].queue : AsksFor(st'[s].queue[i], q) /\ AsksFor(st'[s].queue[j], q) => i = j
        BY <2>1, <2>2 DEF AskedOnce
      <4> QED  BY <2>2, <2>3, <3>2, <3>3, <4>1, <4>2 DEF AskedOnce, AsksFor
    <3> QED  BY <2>4, <3>4
  <2> QED  BY <2>5, <2>6
<1> QED  BY <1>2, <1>8, <1>10, <1>11, <1>12, <1>16, <1>18, MoveOfOne

LEMMA WriterFailsInv == ASSUME SessionInv, NEW s \in Streams, WriterFails(s) PROVE SessionInv'
<1>1. SessionTypeOK /\ st[s] \in StreamWith(st[s].pending) /\ Writes(st[s])
  BY DEF SessionInv, SessionTypeOK
<1> PICK k \in Nat : k = st[s].failures + 1
  BY <1>1 DEF StreamWith
<1> PICK n \in Int : n = st[s].tasks - 1
  BY <1>1 DEF StreamWith
<1>2. PICK t : t = [st[s] EXCEPT !.writer = "ended", !.sending = NoMessage, !.failures = k, !.tasks = n]
  OBVIOUS
<1>3. st' = [st EXCEPT ![s] = t]
  BY <1>1, <1>2 DEF WriterFails, SessionTypeOK
<1>4. t \in StreamWith(st[s].pending) /\ t.pending = st[s].pending
  BY <1>1, <1>2 DEF StreamWith
<1>5. /\ t.phase = st[s].phase /\ t.secret = st[s].secret /\ t.cancelled = st[s].cancelled /\ t.gone = st[s].gone
      /\ t.failures = k /\ t.queue = st[s].queue /\ t.sending = NoMessage /\ t.writer = "ended"
      /\ t.held = st[s].held /\ t.incoming = st[s].incoming /\ t.wire = st[s].wire /\ t.told = st[s].told
  BY <1>1, <1>2 DEF StreamWith
<1>6. Writes(t)
  BY <1>1, <1>5 DEF Writes, WriterFails
<1>7. Received(t) = Received(st[s])
  BY <1>5 DEF Received
<1>8. \A x \in Carried(t) : x = NoMessage \/ x \in Carried(st[s])
  BY <1>5, <1>7 DEF Carried
<1>9. ASSUME NEW x \in Carried(t), x.kind \in Naming
      PROVE x.of \in Queries /\ \E y \in Carried(st[s]) : y.kind \in Naming /\ y.id = x.id /\ y.of = x.of
  <2>1. x.of \in Queries
    BY <1>4, <1>9, CarriedTypes
  <2>2. x # NoMessage
    BY <1>9 DEF Naming
  <2> QED  BY <1>8, <1>9, <2>1, <2>2
<1>10. st'[s] = t
  BY <1>1, <1>3 DEF SessionTypeOK
<1>11. ASSUME NEW q \in Queries PROVE AskedOnce(s, q)' /\ CancelFollows(s, q)'
  <2>1. AskedOnce(s, q) /\ CancelFollows(s, q)
    BY DEF SessionInv
  <2>2. st'[s].queue = st[s].queue /\ ~AsksFor(st'[s].sending, q) /\ qs' = qs
    BY <1>5, <1>10 DEF AsksFor, WriterFails
  <2>3. (ToldOf(s, q)' <=> ToldOf(s, q)) /\ (Queued(s, q)' <=> Queued(s, q)) /\ (Answering(s, q)' <=> Answering(s, q))
    BY <1>5, <1>7, <1>10, <2>2 DEF Queued, ToldOf, Answering, AsksFor
  <2>4. AskedOnce(s, q)'
    BY <2>1, <2>2, <2>3 DEF AskedOnce, AsksFor
  <2>5. k > 0
    BY <1>1 DEF StreamWith
  <2>6. Over(s)'
    BY <1>5, <1>10, <2>5 DEF Over
  <2> QED  BY <2>4, <2>6 DEF CancelFollows
<1> QED  BY <1>3, <1>4, <1>5, <1>6, <1>9, <1>11, MoveOfOne DEF WriterFails

LEMMA WriterSendsInv == ASSUME SessionInv, NEW s \in Streams, WriterSends(s) PROVE SessionInv'
<1>1. SessionTypeOK /\ st[s] \in StreamWith(st[s].pending) /\ Writes(st[s])
  BY DEF SessionInv, SessionTypeOK
<1>2. PICK c : c = st[s].sending
  OBVIOUS
<1>3. c \in Commands
  BY <1>1, <1>2 DEF StreamWith, Writes, WriterSends
<1>4. PICK T : T = {d \in st[s].told : d.id # c.id} \cup {c}
  OBVIOUS
<1>5. T \subseteq Commands
  BY <1>1, <1>3, <1>4 DEF StreamWith
<1>6. PICK t : t = [st[s] EXCEPT !.writer = "select", !.sending = NoMessage, !.told = T]
  OBVIOUS
<1>7. st' = [st EXCEPT ![s] = t]
  BY <1>1, <1>2, <1>4, <1>6 DEF WriterSends, SessionTypeOK
<1>8. t \in StreamWith(st[s].pending) /\ t.pending = st[s].pending
  BY <1>1, <1>5, <1>6 DEF StreamWith
<1>9. /\ t.phase = st[s].phase /\ t.secret = st[s].secret /\ t.cancelled = st[s].cancelled /\ t.gone = st[s].gone
      /\ t.failures = st[s].failures /\ t.queue = st[s].queue /\ t.sending = NoMessage /\ t.writer = "select"
      /\ t.held = st[s].held /\ t.incoming = st[s].incoming /\ t.wire = st[s].wire /\ t.told = T
  BY <1>1, <1>6 DEF StreamWith
<1>10. Writes(t)
  BY <1>1, <1>9 DEF Writes, WriterSends
<1>11. Received(t) = Received(st[s])
  BY <1>9 DEF Received
<1>12. \A x \in Carried(t) : x = NoMessage \/ x \in Carried(st[s])
  BY <1>2, <1>4, <1>9, <1>11 DEF Carried
<1>13. ASSUME NEW x \in Carried(t), x.kind \in Naming
       PROVE x.of \in Queries /\ \E y \in Carried(st[s]) : y.kind \in Naming /\ y.id = x.id /\ y.of = x.of
  <2>1. x.of \in Queries
    BY <1>8, <1>13, CarriedTypes
  <2>2. x # NoMessage
    BY <1>13 DEF Naming
  <2> QED  BY <1>12, <1>13, <2>1, <2>2
<1>14. st'[s] = t
  BY <1>1, <1>7 DEF SessionTypeOK
<1>15. ASSUME NEW q \in Queries PROVE AskedOnce(s, q)' /\ CancelFollows(s, q)'
  <2>1. AskedOnce(s, q) /\ CancelFollows(s, q)
    BY DEF SessionInv
  <2>2. st'[s].queue = st[s].queue /\ ~AsksFor(st'[s].sending, q) /\ ~CancelsOf(st'[s].sending, q) /\ qs' = qs
    BY <1>9, <1>14 DEF AsksFor, CancelsOf, WriterSends
  <2>3. (Queued(s, q)' <=> Queued(s, q)) /\ (CancelQueued(s, q)' <=> CancelQueued(s, q)) /\ (Over(s)' <=> Over(s))
        /\ (Answering(s, q)' <=> Answering(s, q))
    BY <1>9, <1>11, <1>14, <2>2 DEF Queued, CancelQueued, AsksFor, CancelsOf, Over, Done, Answering
  <2>4. ToldOf(s, q)' => ToldOf(s, q) \/ AsksFor(c, q)
    BY <1>4, <1>9, <1>14 DEF ToldOf, AsksFor
  <2>5. AskedOnce(s, q)'
    BY <1>2, <2>1, <2>2, <2>3, <2>4 DEF AskedOnce, AsksFor
  <2>6. CancelsOf(c, q) => ~ToldOf(s, q)'
    <3> SUFFICES ASSUME CancelsOf(c, q), NEW d \in T, AsksFor(d, q) PROVE FALSE
      BY <1>9, <1>14 DEF ToldOf, AsksFor
    <3>1. d \in st[s].told /\ d.id # c.id
      BY <1>4 DEF CancelsOf, AsksFor
    <3>2. NamesQuery(d, s) /\ NamesQuery(c, s)
      BY <1>2, <3>1 DEF SessionInv, StreamNames, Carried
    <3> QED  BY <3>1, <3>2 DEF NamesQuery, CancelsOf, AsksFor
  <2>7. CancelFollows(s, q)'
    <3> SUFFICES ASSUME qs[q].pc = "ended", ~Over(s)
                 PROVE  /\ ToldOf(s, q)' => CancelQueued(s, q)
                        /\ \A i \in DOMAIN st[s].queue : AsksFor(st[s].queue[i], q) =>
                             \E j \in DOMAIN st[s].queue : i < j /\ CancelsOf(st[s].queue[j], q)
      BY <2>2, <2>3 DEF CancelFollows, AsksFor, CancelsOf
    <3>1. ToldOf(s, q)' => CancelQueued(s, q)
      BY <1>2, <2>1, <2>4, <2>6 DEF CancelFollows
    <3> QED  BY <2>1, <3>1 DEF CancelFollows
  <2> QED  BY <2>5, <2>7
<1> QED  BY <1>7, <1>8, <1>9, <1>10, <1>13, <1>15, MoveOfOne DEF WriterSends

LEMMA WriterTakesInv == ASSUME SessionInv, NEW s \in Streams, WriterTakes(s) PROVE SessionInv'
<1>1. SessionTypeOK /\ st[s] \in StreamWith(st[s].pending) /\ Writes(st[s])
  BY DEF SessionInv, SessionTypeOK
<1>2. PICK h : h = Head(st[s].queue)
  OBVIOUS
<1>3. PICK Q : Q = Tail(st[s].queue)
  OBVIOUS
<1>4. /\ Q \in Seq(Commands) /\ h = st[s].queue[1] /\ 1 \in DOMAIN st[s].queue /\ h \in Commands
      /\ \A i \in DOMAIN Q : i \in Int /\ i + 1 \in DOMAIN st[s].queue /\ Q[i] = st[s].queue[i + 1] /\ i + 1 # 1
      /\ \A i \in DOMAIN st[s].queue : i \in Int /\ (i = 1 \/ (i - 1 \in DOMAIN Q /\ Q[i - 1] = st[s].queue[i]))
  <2>1. PICK v : v = st[s].queue /\ v \in Seq(Commands) /\ v # <<>>
    BY <1>1 DEF StreamWith, WriterTakes
  <2>2. /\ Tail(v) \in Seq(Commands) /\ Head(v) = v[1] /\ 1 \in DOMAIN v /\ Head(v) \in Commands
        /\ \A i \in DOMAIN Tail(v) : i \in Int /\ i + 1 \in DOMAIN v /\ Tail(v)[i] = v[i + 1] /\ i + 1 # 1
        /\ \A i \in DOMAIN v : i \in Int /\ (i = 1 \/ (i - 1 \in DOMAIN Tail(v) /\ Tail(v)[i - 1] = v[i]))
    BY <2>1, TakenAt
  <2>3. Q = Tail(v) /\ h = Head(v)
    BY <1>2, <1>3, <2>1
  <2> QED  BY <2>1, <2>2, <2>3, Zenon
<1>5. h.kind \in Naming /\ h.of \in Queries /\ h \in Carried(st[s]) /\ h # NoMessage
  BY <1>4 DEF Commands, Naming, Carried
<1>6. PICK late : late = (h.kind = "history" /\ qs[h.of].expired)
  OBVIOUS
<1>7. /\ st' = [st EXCEPT ![s].queue = Q, ![s].writer = IF late THEN @ ELSE "sending", ![s].sending = IF late THEN @ ELSE h]
      /\ qs' = IF late THEN Complete(s, h.id, [kind |-> "deadline"]) ELSE qs
      /\ UNCHANGED <<secret, hub>> /\ st[s].writer = "select" /\ st[s].sending = NoMessage
  BY <1>1, <1>2, <1>3, <1>6 DEF WriterTakes, Writes
<1>8. PICK t : t = IF late THEN [st[s] EXCEPT !.queue = Q] ELSE [st[s] EXCEPT !.queue = Q, !.writer = "sending", !.sending = h]
  OBVIOUS
<1>9. st' = [st EXCEPT ![s] = t]
  BY <1>1, <1>7, <1>8 DEF StreamWith, SessionTypeOK
<1>10. t \in StreamWith(st[s].pending) /\ t.pending = st[s].pending
  BY <1>1, <1>4, <1>8 DEF StreamWith
<1>11. /\ t.phase = st[s].phase /\ t.secret = st[s].secret /\ t.cancelled = st[s].cancelled /\ t.gone = st[s].gone
       /\ t.failures = st[s].failures /\ t.queue = Q /\ t.sending = (IF late THEN NoMessage ELSE h)
       /\ t.writer = (IF late THEN "select" ELSE "sending")
       /\ t.held = st[s].held /\ t.incoming = st[s].incoming /\ t.wire = st[s].wire /\ t.told = st[s].told
  BY <1>1, <1>7, <1>8 DEF StreamWith
<1>12. Writes(t)
  BY <1>1, <1>5, <1>7, <1>11 DEF Writes
<1>13. Received(t) = Received(st[s])
  BY <1>11 DEF Received
<1>14. \A x \in Carried(t) : x = NoMessage \/ x \in Carried(st[s])
  BY <1>4, <1>5, <1>11, <1>13 DEF Carried
<1>15. ASSUME NEW x \in Carried(t), x.kind \in Naming
       PROVE x.of \in Queries /\ \E y \in Carried(st[s]) : y.kind \in Naming /\ y.id = x.id /\ y.of = x.of
  <2>1. x.of \in Queries
    BY <1>10, <1>15, CarriedTypes
  <2>2. x # NoMessage
    BY <1>15 DEF Naming
  <2> QED  BY <1>14, <1>15, <2>1, <2>2
<1>16. st'[s] = t
  BY <1>1, <1>9 DEF SessionTypeOK
<1>17. /\ qs' \in [Queries -> QueryTypes]
       /\ \A q \in Queries : /\ qs'[q].pc = qs[q].pc /\ qs'[q].on = qs[q].on /\ qs'[q].id = qs[q].id
                             /\ qs'[q].outcome = qs[q].outcome /\ qs'[q].secret = qs[q].secret
                             /\ qs'[q].slot = qs[q].slot \/ (q = h.of /\ late /\ qs'[q].slot = [kind |-> "deadline"])
  <2>1. CASE late
    <3>1. PICK r \in Ends : r = [kind |-> "deadline"]
      BY DEF Ends
    <3>2. qs' = Complete(s, h.id, r)
      BY <1>7, <2>1, <3>1
    <3>3. /\ qs' \in [Queries -> QueryTypes]
          /\ \A q \in Queries : /\ qs'[q].pc = qs[q].pc /\ qs'[q].on = qs[q].on /\ qs'[q].id = qs[q].id
                                /\ qs'[q].outcome = qs[q].outcome /\ qs'[q].secret = qs[q].secret
                                /\ qs'[q].slot = qs[q].slot \/ (q = h.of /\ qs'[q].slot = r)
      BY <1>5, <3>2, CompleteFills
    <3> QED  BY <2>1, <3>1, <3>3
  <2>2. CASE ~late
    BY <1>1, <1>7, <2>2 DEF SessionTypeOK, QueryTypes
  <2> QED  BY <1>6, <2>1, <2>2
<1>18. (Asked(s, h.of) /\ qs[h.of].pc \in {"wait", "ended"}) \/ ~late
  <2>1. Queued(s, h.of) \/ ~late
    BY <1>4, <1>6 DEF Queued, AsksFor
  <2> QED  BY <1>5, <2>1 DEF SessionInv, AskedOnce, Asked
<1>19. \A q \in Queries : /\ qs'[q].pc = qs[q].pc /\ qs'[q].on = qs[q].on /\ qs'[q].id = qs[q].id
                          /\ qs'[q].outcome = qs[q].outcome /\ qs'[q].secret = qs[q].secret
                          /\ \/ qs'[q].slot = qs[q].slot
                             \/ /\ qs[q].pc \in {"wait", "ended"} /\ (qs'[q].slot.kind = "result" => qs'[q].slot.of = q)
                                /\ \A x \in Streams \ {s} : ~Asked(x, q)
  BY <1>5, <1>17, <1>18, AskedOnItsSession
<1>20. ASSUME NEW q \in Queries PROVE AskedOnce(s, q)' /\ CancelFollows(s, q)'
  <2>1. AskedOnce(s, q) /\ CancelFollows(s, q)
    BY DEF SessionInv
  <2>2. /\ (Over(s)' <=> Over(s)) /\ (Answering(s, q)' <=> Answering(s, q)) /\ (ToldOf(s, q)' <=> ToldOf(s, q))
        /\ st'[s].queue = Q /\ st'[s].sending = (IF late THEN NoMessage ELSE h)
    BY <1>11, <1>13, <1>16 DEF AsksFor, Over, Done, Answering, ToldOf
  <2>3. Queued(s, q)' => Queued(s, q) /\ ~AsksFor(h, q)
    <3> SUFFICES ASSUME NEW i \in DOMAIN Q, AsksFor(Q[i], q) PROVE Queued(s, q) /\ ~AsksFor(h, q)
      BY <2>2 DEF Queued, AsksFor
    <3>1. i + 1 \in DOMAIN st[s].queue /\ AsksFor(st[s].queue[i + 1], q) /\ i + 1 # 1
      BY <1>4
    <3>2. Queued(s, q)
      BY <3>1 DEF Queued
    <3>3. ~AsksFor(st[s].queue[1], q)
      BY <1>4, <2>1, <3>1 DEF AskedOnce
    <3> QED  BY <1>4, <3>2, <3>3
  <2>4. AsksFor(h, q) => Queued(s, q)
    BY <1>4 DEF Queued
  <2>5. AsksFor(st'[s].sending, q) => AsksFor(h, q) /\ ~late
    BY <1>6, <2>2 DEF AsksFor
  <2>6. ASSUME NEW i \in DOMAIN Q, NEW j \in DOMAIN Q, AsksFor(Q[i], q), AsksFor(Q[j], q) PROVE i = j
    <3>1. i + 1 = j + 1 /\ i \in Int /\ j \in Int
      BY <1>4, <2>1, <2>6 DEF AskedOnce
    <3> QED  BY <3>1
  <2>7. AskedOnce(s, q)'
    <3>1. \A i, j \in DOMAIN st'[s].queue : AsksFor(st'[s].queue[i], q) /\ AsksFor(st'[s].queue[j], q) => i = j
      BY <2>2, <2>6
    <3>2. Queued(s, q)' => ~AsksFor(st'[s].sending, q) /\ ~ToldOf(s, q)'
      BY <2>1, <2>2, <2>3, <2>5 DEF AskedOnce
    <3>3. AsksFor(st'[s].sending, q) => ~ToldOf(s, q)'
      BY <2>1, <2>2, <2>4, <2>5 DEF AskedOnce
    <3>4. Queued(s, q)' \/ AsksFor(st'[s].sending, q) \/ ToldOf(s, q)' => qs'[q].slot = qs[q].slot
      <4>1. SUFFICES ASSUME late, q = h.of PROVE ~Queued(s, q)' /\ ~AsksFor(st'[s].sending, q) /\ ~ToldOf(s, q)'
        BY <1>17
      <4>2. AsksFor(h, q)
        BY <1>6, <4>1 DEF AsksFor
      <4> QED  BY <2>1, <2>2, <2>3, <2>4, <2>5, <4>1, <4>2 DEF AskedOnce
    <3>5. /\ Queued(s, q)' \/ AsksFor(st'[s].sending, q) \/ ToldOf(s, q)' => qs'[q].slot = NoMessage /\ ~Answering(s, q)'
          /\ Queued(s, q)' \/ AsksFor(st'[s].sending, q) \/ ToldOf(s, q)' \/ Answering(s, q)' => qs'[q].pc \in {"wait", "ended"}
      BY <1>17, <2>1, <2>2, <2>3, <2>4, <2>5, <3>4 DEF AskedOnce
    <3> QED  BY <3>1, <3>2, <3>3, <3>5 DEF AskedOnce, AsksFor
  <2>8. CancelFollows(s, q)'
    <3> SUFFICES ASSUME qs[q].pc = "ended", ~Over(s)
                 PROVE  /\ ToldOf(s, q) => CancelsOf(st'[s].sending, q) \/ CancelQueued(s, q)'
                        /\ AsksFor(st'[s].sending, q) => CancelQueued(s, q)'
                        /\ \A i \in DOMAIN Q : AsksFor(Q[i], q) => \E j \in DOMAIN Q : i < j /\ CancelsOf(Q[j], q)
      BY <1>17, <2>2 DEF CancelFollows, AsksFor, CancelsOf
    <3>1. CancelQueued(s, q) => CancelQueued(s, q)' \/ CancelsOf(st'[s].sending, q)
      <4> SUFFICES ASSUME NEW i \in DOMAIN st[s].queue, CancelsOf(st[s].queue[i], q)
                   PROVE CancelQueued(s, q)' \/ CancelsOf(st'[s].sending, q)
        BY DEF CancelQueued
      <4>1. CASE i = 1
        <5>1. CancelsOf(h, q) /\ ~late
          BY <1>4, <1>6, <4>1 DEF CancelsOf
        <5> QED  BY <2>2, <5>1
      <4>2. CASE i # 1
        <5>1. i - 1 \in DOMAIN Q /\ CancelsOf(Q[i - 1], q)
          BY <1>4, <4>2
        <5> QED  BY <2>2, <5>1 DEF CancelQueued, CancelsOf
      <4> QED  BY <4>1, <4>2
    <3>2. ASSUME ToldOf(s, q) PROVE CancelsOf(st'[s].sending, q) \/ CancelQueued(s, q)'
      <4>1. CancelQueued(s, q)
        BY <1>7, <2>1, <3>2 DEF CancelFollows, CancelsOf
      <4> QED  BY <3>1, <4>1
    <3>3. ASSUME NEW i \in DOMAIN st[s].queue, AsksFor(st[s].queue[i], q)
          PROVE  \E j \in DOMAIN Q : i - 1 < j /\ CancelsOf(Q[j], q)
      <4>1. PICK j \in DOMAIN st[s].queue : i < j /\ CancelsOf(st[s].queue[j], q)
        BY <2>1, <3>3 DEF CancelFollows
      <4>2. i \in Int /\ j \in Int /\ i >= 1
        <5>1. i = 1 \/ i - 1 \in DOMAIN Q
          BY <1>4
        <5>2. DOMAIN Q = 1 .. Len(Q) /\ Len(Q) \in Nat
          BY <1>4
        <5> QED  BY <1>4, <5>1, <5>2
      <4>3. j # 1 /\ i - 1 < j - 1
        BY <4>1, <4>2
      <4>4. j - 1 \in DOMAIN Q /\ CancelsOf(Q[j - 1], q)
        BY <1>4, <4>1, <4>3
      <4> QED  BY <4>3, <4>4
    <3>4. ASSUME AsksFor(st'[s].sending, q) PROVE CancelQueued(s, q)'
      <4>1. AsksFor(st[s].queue[1], q)
        BY <1>4, <2>5, <3>4
      <4>2. \E j \in DOMAIN Q : CancelsOf(Q[j], q)
        BY <1>4, <3>3, <4>1
      <4> QED  BY <2>2, <4>2 DEF CancelQueued, CancelsOf
    <3>5. ASSUME NEW i \in DOMAIN Q, AsksFor(Q[i], q) PROVE \E j \in DOMAIN Q : i < j /\ CancelsOf(Q[j], q)
      <4>1. i \in Int /\ i + 1 \in DOMAIN st[s].queue /\ AsksFor(st[s].queue[i + 1], q)
        BY <1>4, <3>5
      <4>2. PICK j \in DOMAIN Q : (i + 1) - 1 < j /\ CancelsOf(Q[j], q)
        BY <3>3, <4>1
      <4>3. (i + 1) - 1 = i
        BY <4>1
      <4> QED  BY <4>2, <4>3
    <3> QED  BY <3>2, <3>4, <3>5
  <2> QED  BY <2>7, <2>8
<1> QED  BY <1>7, <1>9, <1>10, <1>11, <1>12, <1>15, <1>17, <1>19, <1>20, StepOfOne

-----------------------------------------------------------------------------
(* The steps of a query. *)

\* A query that has no id yet is named nowhere.
LEMMA YoungIsUnnamed ==
  ASSUME SessionInv, NEW q \in Queries, qs[q].id = 0, NEW s \in Streams
  PROVE  /\ ~Asked(s, q) /\ ~Answering(s, q) /\ \A i \in DOMAIN st[s].pending : st[s].pending[i] # q
         /\ \A m \in Carried(st[s]) : m.kind \in Naming => m.of # q
<1>1. ~Asked(s, q) /\ ~Answering(s, q)
  BY AskedOnItsSession
<1>2. \A i \in DOMAIN st[s].pending : st[s].pending[i] # q
  BY DEF SessionInv, StreamNames
<1>3. \A m \in Carried(st[s]) : m.kind \in Naming => m.of # q
  BY DEF SessionInv, StreamNames, NamesQuery, Naming
<1> QED  BY <1>1, <1>2, <1>3

\* Nothing is to be shown of a query on a stream that has no command of it.
LEMMA UnaskedPair ==
  ASSUME NEW s \in Streams, NEW q \in Queries, ~Asked(s, q), Still(st[s], st'[s]),
         ~Answering(s, q) \/ qs'[q].pc \in {"wait", "ended"}
  PROVE  AskedOnce(s, q)' /\ CancelFollows(s, q)'
<1>1. st'[s].queue = st[s].queue /\ st'[s].sending = st[s].sending /\ (ToldOf(s, q)' => ToldOf(s, q))
  BY DEF Still, ToldOf, AsksFor
<1>2. ~Queued(s, q)' /\ ~AsksFor(st'[s].sending, q) /\ ~ToldOf(s, q)'
  BY <1>1 DEF Asked, Queued, AsksFor
<1>3. \A i \in DOMAIN st'[s].queue : ~AsksFor(st'[s].queue[i], q)
  BY <1>2 DEF Queued, AsksFor
<1>4. Answering(s, q)' => Answering(s, q)
  BY DEF Answering, Still
<1>5. AskedOnce(s, q)'
  BY <1>2, <1>3, <1>4 DEF AskedOnce, AsksFor
<1>6. CancelFollows(s, q)'
  BY <1>2, <1>3 DEF CancelFollows, AsksFor
<1> QED  BY <1>5, <1>6

\* A query that ends has its outcome from its slot, if it has an answer at all.
LEMMA EndKnows ==
  ASSUME NEW q \in Queries, SessionTypeOK, QueryKnows(q), hub'.next \in Nat, hub'.next >= hub.next,
         NEW y, qs'[q] = y, y.pc = "ended", y.on = qs[q].on, y.id = qs[q].id, y.secret = qs[q].secret, y.slot = NoMessage,
         y.outcome.kind = "result" => y.outcome = qs[q].slot /\ qs[q].pc = "wait",
         qs[q].on # NoStream => st'[qs[q].on].phase # "idle" /\ st'[qs[q].on].secret = st[qs[q].on].secret
  PROVE  QueryKnows(q)'
<1>1. qs[q].id \in Nat /\ hub.next \in Nat
  BY DEF SessionTypeOK
<1>2. y.id <= hub'.next
  BY <1>1 DEF QueryKnows
<1>3. y.on # NoStream => st'[y.on].phase # "idle"
  OBVIOUS
<1>4. y.outcome.kind = "result" => y.on # NoStream /\ st'[y.on].secret >= y.secret /\ y.outcome.of = q
  BY DEF QueryKnows
<1> QED  BY <1>2, <1>3, <1>4 DEF QueryKnows

\* A step of a query before it has an id: its session may end, nothing else of a stream changes.
LEMMA YoungStep ==
  ASSUME SessionInv, NEW q \in Queries, qs[q].id = 0, qs' \in [Queries -> QueryTypes], qs'[q].id = 0, QueryKnows(q)',
         \A p \in Queries \ {q} : qs'[p] = qs[p], DOMAIN st' = Streams, \A s \in Streams : Quiet(st[s], st'[s]),
         UNCHANGED secret, hub' \in HubTypes, hub'.next >= hub.next, HubServes', NewestSessionServes'
  PROVE  SessionInv'
<1>0. SessionTypeOK /\ qs \in [Queries -> QueryTypes]
  BY DEF SessionInv, SessionTypeOK, QueryTypes
<1>2. SessionTypeOK'
  BY <1>0 DEF SessionTypeOK, Quiet, Still, QueryTypes, HubTypes
<1>3. ASSUME NEW p \in Queries, p # q PROVE QueryKnows(p)'
  <2>1. QueryKnows(p) /\ qs[p].on \in Streams \cup {NoStream} /\ qs'[p] = qs[p] /\ secret \in Nat
    BY <1>0, <1>3 DEF SessionInv, SessionTypeOK
  <2>2. qs[p].on # NoStream => st'[qs[p].on].phase # "idle" /\ st'[qs[p].on].secret = st[qs[p].on].secret
    BY <2>1 DEF QueryKnows, Quiet, Still
  <2> QED  BY <1>0, <1>2, <2>1, <2>2, QueryStays
<1>4. IdsAreOwn'
  BY DEF SessionInv, IdsAreOwn
<1>5. ASSUME NEW s \in Streams PROVE StreamNames(s)'
  <2>1. StreamNames(s) /\ Quiet(st[s], st'[s])
    BY DEF SessionInv
  <2>2. /\ \A m \in Carried(st'[s]) : m.kind \in Naming => m \in Carried(st[s])
        /\ \A m \in Carried(st'[s]) : m.kind \in Naming => m.of \in Queries
    BY <1>0, <2>1, StillCarries DEF Quiet
  <2>3. \A i \in DOMAIN st[s].pending : st[s].pending[i] \in Queries \ {q}
    BY <2>1, YoungIsUnnamed DEF StreamNames
  <2>4. \A i \in DOMAIN st'[s].pending : /\ i \in DOMAIN st[s].pending /\ st'[s].pending[i] = st[s].pending[i]
                                         /\ qs'[st[s].pending[i]].pc \in {"enqueue", "wait"}
    BY <2>1, <2>3 DEF Quiet, StreamNames
  <2>5. \A p \in Queries : qs[p].id # 0 => qs'[p].id = qs[p].id /\ qs'[p].on = qs[p].on
    OBVIOUS
  <2> QED  BY <2>1, <2>2, <2>4, <2>5, NamesStay
<1>6. ASSUME NEW s \in Streams, NEW p \in Queries PROVE AskedOnce(s, p)' /\ CancelFollows(s, p)'
  <2>1. Still(st[s], st'[s])
    BY DEF Quiet
  <2>2. CASE p = q
    BY <2>1, <2>2, YoungIsUnnamed, UnaskedPair
  <2>3. CASE p # q
    BY <2>1, <2>3, PairStays DEF SessionInv
  <2> QED  BY <2>2, <2>3
<1> QED  BY <1>2, <1>3, <1>4, <1>5, <1>6 DEF SessionInv

LEMMA BeginInv == ASSUME SessionInv, NEW q \in Queries, Begin(q) PROVE SessionInv'
<1>1. SessionTypeOK /\ hub \in HubTypes /\ HubServes /\ NewestSessionServes /\ qs \in [Queries -> QueryTypes] /\ secret \in Nat
      /\ hub.next \in Nat /\ hub.current \in Streams \cup {NoStream} /\ DOMAIN st = Streams
  BY DEF SessionInv, SessionTypeOK, HubTypes, QueryTypes
<1>2. QueryKnows(q) /\ qs[q].pc = "new" /\ qs[q] \in QueryTypes
  BY <1>1 DEF SessionInv, Begin
<1>3. qs[q].id = 0 /\ qs[q].outcome = NoMessage
  BY <1>2 DEF QueryKnows
<1>4. \A s \in Streams : Quiet(st[s], st'[s])
  BY <1>1, QuietSame DEF Begin
<1>5. HubServes' /\ NewestSessionServes' /\ UNCHANGED <<secret, hub, st>>
  BY <1>1 DEF Begin, HubServes, NewestSessionServes, Done
<1>6. CASE qs' = QueryEnds(q, Offline)
  <2>1. PICK y : y = [qs[q] EXCEPT !.pc = "ended", !.outcome = Offline, !.slot = NoMessage]
    OBVIOUS
  <2>2. qs' = [qs EXCEPT ![q] = y]
    BY <1>1, <1>6, <2>1 DEF QueryEnds
  <2>3. y \in QueryTypes /\ y.id = 0 /\ y.on = qs[q].on /\ y.pc = "ended" /\ y.outcome = Offline /\ y.slot = NoMessage
        /\ y.secret = qs[q].secret /\ y.outcome.kind # "result"
    BY <1>2, <1>3, <2>1 DEF QueryTypes, Ends, Offline
  <2>4. qs' \in [Queries -> QueryTypes] /\ qs'[q] = y /\ \A p \in Queries \ {q} : qs'[p] = qs[p]
    BY <1>1, <2>2, <2>3
  <2>5. QueryKnows(q)'
    <3>1. qs[q].on # NoStream => st'[qs[q].on].phase # "idle" /\ st'[qs[q].on].secret = st[qs[q].on].secret
      BY <1>2, <1>5 DEF QueryKnows
    <3> QED  BY <1>1, <1>2, <1>3, <1>5, <2>3, <2>4, <3>1, EndKnows
  <2> QED  BY <1>1, <1>3, <1>4, <1>5, <2>3, <2>4, <2>5, YoungStep
<1>7. CASE hub.current # NoStream /\ qs' = [qs EXCEPT ![q].pc = "current", ![q].on = hub.current, ![q].secret = secret]
  <2>1. PICK y : y = [qs[q] EXCEPT !.pc = "current", !.on = hub.current, !.secret = secret]
    OBVIOUS
  <2>2. qs' = [qs EXCEPT ![q] = y]
    BY <1>1, <1>7, <2>1
  <2>3. y \in QueryTypes /\ y.id = 0 /\ y.on = hub.current /\ y.pc = "current" /\ y.outcome = NoMessage /\ y.slot = qs[q].slot
        /\ y.secret = secret
    BY <1>1, <1>2, <1>3, <2>1 DEF QueryTypes
  <2>4. qs' \in [Queries -> QueryTypes] /\ qs'[q] = y /\ \A p \in Queries \ {q} : qs'[p] = qs[p]
    BY <1>1, <2>2, <2>3
  <2>5. st[hub.current].phase = "open"
    BY <1>1, <1>7 DEF HubServes
  <2>6. QueryKnows(q)'
    BY <1>1, <1>2, <1>5, <1>7, <2>3, <2>4, <2>5 DEF QueryKnows
  <2> QED  BY <1>1, <1>3, <1>4, <1>5, <2>3, <2>4, <2>6, YoungStep
<1> QED  BY <1>6, <1>7 DEF Begin

LEMMA AuthenticateInv == ASSUME SessionInv, NEW q \in Queries, Authenticate(q) PROVE SessionInv'
<1>1. SessionTypeOK /\ hub \in HubTypes /\ HubServes /\ NewestSessionServes /\ qs \in [Queries -> QueryTypes] /\ secret \in Nat
      /\ hub.next \in Nat /\ DOMAIN st = Streams
  BY DEF SessionInv, SessionTypeOK, HubTypes, QueryTypes
<1>2. QueryKnows(q) /\ qs[q].pc = "current" /\ qs[q] \in QueryTypes
  BY <1>1 DEF SessionInv, Authenticate
<1>3. qs[q].id = 0 /\ qs[q].outcome = NoMessage /\ qs[q].on # NoStream
  BY <1>2 DEF QueryKnows
<1>4. PICK s \in Streams : s = qs[q].on
  BY <1>2, <1>3 DEF QueryTypes
<1>5. CASE st[s].secret = secret /\ qs' = [qs EXCEPT ![q].pc = "register"] /\ UNCHANGED <<hub, st, secret>>
  <2>1. PICK y : y = [qs[q] EXCEPT !.pc = "register"]
    OBVIOUS
  <2>2. qs' = [qs EXCEPT ![q] = y]
    BY <1>1, <1>5, <2>1
  <2>3. y \in QueryTypes /\ y.id = 0 /\ y.on = s /\ y.pc = "register" /\ y.outcome = NoMessage /\ y.slot = qs[q].slot
        /\ y.secret = qs[q].secret
    BY <1>2, <1>3, <1>4, <2>1 DEF QueryTypes
  <2>4. qs' \in [Queries -> QueryTypes] /\ qs'[q] = y /\ \A p \in Queries \ {q} : qs'[p] = qs[p]
    BY <1>1, <2>2, <2>3
  <2>5. QueryKnows(q)'
    BY <1>1, <1>2, <1>4, <1>5, <2>3, <2>4 DEF QueryKnows
  <2>6. (\A x \in Streams : Quiet(st[x], st'[x])) /\ HubServes' /\ NewestSessionServes'
    BY <1>1, <1>5, QuietSame DEF HubServes, NewestSessionServes, Done
  <2> QED  BY <1>1, <1>3, <1>5, <2>3, <2>4, <2>5, <2>6, YoungStep
<1>6. CASE \E outcome \in {Unsupported, Offline} : qs' = QueryEnds(q, outcome) /\ UNCHANGED secret
           /\ ((hub' = hub /\ st' = st) \/ (hub' = Remove(s) /\ st' = Cancelled(st, {s})))
  <2>0. PICK outcome \in {Unsupported, Offline} : qs' = QueryEnds(q, outcome) /\ UNCHANGED secret
           /\ ((hub' = hub /\ st' = st) \/ (hub' = Remove(s) /\ st' = Cancelled(st, {s})))
    BY <1>6
  <2>1. PICK y : y = [qs[q] EXCEPT !.pc = "ended", !.outcome = outcome, !.slot = NoMessage]
    OBVIOUS
  <2>2. qs' = [qs EXCEPT ![q] = y]
    BY <1>1, <2>0, <2>1 DEF QueryEnds
  <2>3. y \in QueryTypes /\ y.id = 0 /\ y.on = s /\ y.pc = "ended" /\ y.outcome = outcome /\ outcome.kind # "result"
        /\ y.slot = NoMessage /\ y.secret = qs[q].secret
    <3>1. outcome \in Ends /\ NoMessage \in Ends /\ outcome.kind # "result"
      BY DEF Ends, Offline, Unsupported
    <3> QED  BY <1>2, <1>3, <1>4, <2>1, <3>1 DEF QueryTypes
  <2>4. qs' \in [Queries -> QueryTypes] /\ qs'[q] = y /\ \A p \in Queries \ {q} : qs'[p] = qs[p]
    BY <1>1, <2>2, <2>3
  <2>5. DOMAIN st' = Streams /\ \A x \in Streams : /\ Quiet(st[x], st'[x]) /\ st'[x].phase = st[x].phase
                                                   /\ x # s => st'[x] = st[x]
                                                   /\ hub' # hub => st'[s].cancelled
    <3>1. CASE st' = st /\ hub' = hub
      BY <1>1, <3>1, QuietSame
    <3>2. CASE st' = Cancelled(st, {s})
      <4>1. DOMAIN st' = Streams
        BY <3>2 DEF Cancelled
      <4>2. ASSUME NEW x \in Streams PROVE Quiet(st[x], st'[x]) /\ st'[x].phase = st[x].phase /\ (x # s => st'[x] = st[x]) /\ (x = s => st'[x].cancelled)
        <5>1. st'[x] = IF x = s THEN [st[x] EXCEPT !.cancelled = TRUE] ELSE st[x]
          BY <3>2 DEF Cancelled
        <5>2. Quiet(st[x], st[x])
          BY <1>1, QuietSame
        <5> QED  BY <5>1, <5>2, CancelIsQuiet
      <4> QED  BY <4>1, <4>2
    <3> QED  BY <2>0, <3>1, <3>2
  <2>6. hub' \in HubTypes /\ hub'.next = hub.next /\ (hub'.current = hub.current \/ (hub'.current = NoStream /\ hub.current = s /\ hub' # hub))
    BY <1>1, <1>4, <2>0 DEF Remove, HubTypes
  <2>7. HubServes' /\ NewestSessionServes'
    <3>1. HubServes'
      BY <1>1, <2>5, <2>6 DEF HubServes, HubTypes
    <3>2. \A x \in Streams : Done(x) => Done(x)'
      BY <2>5 DEF Done, Quiet, Still
    <3>3. ASSUME NEW x \in Streams, st'[x].phase = "open", ~Done(x)' PROVE hub'.current = x
      <4>1. hub.current = x
        BY <1>1, <2>5, <3>2, <3>3 DEF NewestSessionServes
      <4>2. hub'.current = hub.current
        BY <2>5, <2>6, <3>3, <4>1 DEF Done
      <4> QED  BY <4>1, <4>2
    <3> QED  BY <3>1, <3>3 DEF NewestSessionServes
  <2>8. QueryKnows(q)'
    <3>1. st'[s].phase # "idle" /\ st'[s].secret = st[s].secret
      BY <1>2, <1>3, <1>4, <2>5 DEF QueryKnows, Quiet, Still
    <3> QED  BY <1>1, <1>2, <1>3, <1>4, <2>3, <2>4, <2>6, <3>1, EndKnows
  <2> QED  BY <1>1, <1>3, <2>0, <2>3, <2>4, <2>5, <2>6, <2>7, <2>8, YoungStep
<1> QED  BY <1>4, <1>5, <1>6 DEF Authenticate

\* A step of a query that has its id, on its session s: what must be shown is what it then
\* knows, that it leaves the pending ones when it ends, and where the commands on s then are.
LEMMA QueryStep ==
  ASSUME SessionInv, NEW q \in Queries, NEW s \in Streams, qs[q].on = s, qs[q].id # 0,
         qs' \in [Queries -> QueryTypes], qs'[q].on = s, qs'[q].id = qs[q].id, QueryKnows(q)',
         \A p \in Queries \ {q} : qs'[p] = qs[p], UNCHANGED <<secret, hub>>,
         DOMAIN st' = Streams, \A x \in Streams \ {s} : st'[x] = st[x],
         st'[s] \in StreamWith(st'[s].pending), Writes(st'[s]), st'[s].phase = st[s].phase, st'[s].secret = st[s].secret,
         Done(s) => Done(s)',
         \A i \in DOMAIN st'[s].pending : /\ i \in DOMAIN st[s].pending /\ st'[s].pending[i] = st[s].pending[i]
                                          /\ st[s].pending[i] = q => qs'[q].pc \in {"enqueue", "wait"},
         \A m \in Carried(st'[s]) : m \in Carried(st[s]) \/ (m.kind \in Naming => m.of = q /\ m.id = qs[q].id),
         \A p \in Queries : AskedOnce(s, p)' /\ CancelFollows(s, p)'
  PROVE  SessionInv'
<1>0. SessionTypeOK /\ HubServes /\ NewestSessionServes /\ secret \in Nat /\ hub.next \in Nat
  BY DEF SessionInv, SessionTypeOK
<1>1. SessionTypeOK'
  BY <1>0 DEF SessionTypeOK, QueryTypes
<1>2. HubServes' /\ NewestSessionServes'
  <2>1. \A x \in Streams : (st'[x].phase = "open" <=> st[x].phase = "open") /\ (Done(x) => Done(x)')
    BY DEF Done
  <2> QED  BY <1>0, <2>1, HubStays
<1>3. ASSUME NEW p \in Queries, p # q PROVE QueryKnows(p)'
  <2>1. QueryKnows(p) /\ qs[p].on \in Streams \cup {NoStream} /\ qs'[p] = qs[p]
    BY <1>0, <1>3 DEF SessionInv, SessionTypeOK
  <2>2. qs[p].on # NoStream => st'[qs[p].on].phase # "idle" /\ st'[qs[p].on].secret = st[qs[p].on].secret
    BY <2>1 DEF QueryKnows
  <2> QED  BY <1>0, <1>1, <2>1, <2>2, QueryStays
<1>4. \A p \in Queries : qs'[p].id = qs[p].id /\ qs'[p].on = qs[p].on
  OBVIOUS
<1>5. IdsAreOwn'
  BY <1>4 DEF SessionInv, IdsAreOwn
<1>6. ASSUME NEW x \in Streams, x # s PROVE StreamNames(x)'
  <2>1. StreamNames(x) /\ st'[x] = st[x] /\ Still(st[x], st'[x])
    BY <1>0, <1>6, QuietSame DEF SessionInv, Quiet
  <2>2. /\ \A m \in Carried(st'[x]) : m.kind \in Naming => m \in Carried(st[x])
        /\ \A m \in Carried(st'[x]) : m.kind \in Naming => m.of \in Queries
    BY <1>0, <2>1, StillCarries
  <2>3. \A i \in DOMAIN st[x].pending : st[x].pending[i] \in Queries \ {q}
    BY <1>6, <2>1 DEF StreamNames
  <2>4. \A i \in DOMAIN st'[x].pending : /\ i \in DOMAIN st[x].pending /\ st'[x].pending[i] = st[x].pending[i]
                                         /\ qs'[st[x].pending[i]].pc \in {"enqueue", "wait"}
    BY <2>1, <2>3 DEF StreamNames
  <2> QED  BY <1>4, <2>1, <2>2, <2>4, NamesStay
<1>7. StreamNames(s)'
  <2>1. StreamNames(s)
    BY DEF SessionInv
  <2>2. \A m \in Carried(st'[s]) : m.kind \in Naming => m.of \in Queries
    BY CarriedTypes
  <2>3. ASSUME NEW m \in Carried(st'[s]), m.kind \in Naming
        PROVE \/ \E c \in Carried(st[s]) : c.kind \in Naming /\ c.id = m.id /\ c.of = m.of
              \/ m.id # 0 /\ qs'[m.of].id = m.id /\ qs'[m.of].on = s
    BY <2>3
  <2>4. \A i \in DOMAIN st'[s].pending : /\ i \in DOMAIN st[s].pending /\ st'[s].pending[i] = st[s].pending[i]
                                         /\ qs'[st[s].pending[i]].pc \in {"enqueue", "wait"}
    BY <2>1 DEF StreamNames
  <2> QED  BY <1>4, <2>1, <2>2, <2>3, <2>4, NamesStay
<1>8. ASSUME NEW x \in Streams, NEW p \in Queries, x # s PROVE AskedOnce(x, p)' /\ CancelFollows(x, p)'
  <2>1. Still(st[x], st'[x])
    BY <1>0, <1>8, QuietSame DEF Quiet
  <2>2. CASE p = q
    BY <1>8, <2>1, <2>2, AskedOnItsSession, UnaskedPair
  <2>3. CASE p # q
    <3>1. AskedOnce(x, p) /\ CancelFollows(x, p) /\ qs'[p] = qs[p]
      BY <2>3 DEF SessionInv
    <3> QED  BY <2>1, <3>1, PairStays
  <2> QED  BY <2>2, <2>3
<1>9. (\A p \in Queries : QueryKnows(p)') /\ (\A x \in Streams : StreamNames(x)')
      /\ \A x \in Streams, p \in Queries : AskedOnce(x, p)' /\ CancelFollows(x, p)'
  BY <1>3, <1>6, <1>7, <1>8
<1> QED  BY <1>1, <1>2, <1>5, <1>9 DEF SessionInv

\* A query that has its id and is not waiting for an answer, or has it, ends: nobody waits for
\* the id any longer, and nothing else of its session changes.
LEMMA EndStep ==
  ASSUME SessionInv, NEW q \in Queries, NEW s \in Streams, qs[q].on = s, NEW outcome \in Ends,
         qs[q].pc \in {"enqueue", "wait"}, qs' = QueryEnds(q, outcome), st' = Forget(s, qs[q].id), UNCHANGED <<secret, hub>>,
         outcome.kind = "result" => outcome = qs[q].slot /\ qs[q].pc = "wait",
         Asked(s, q) => Over(s)
  PROVE  SessionInv'
<1>1. SessionTypeOK /\ qs \in [Queries -> QueryTypes] /\ hub.next \in Nat /\ DOMAIN st = Streams
      /\ st[s] \in StreamWith(st[s].pending) /\ Writes(st[s])
  BY DEF SessionInv, SessionTypeOK, QueryTypes
<1>2. QueryKnows(q) /\ qs[q] \in QueryTypes /\ StreamNames(s)
  BY <1>1 DEF SessionInv
<1>3. qs[q].id # 0
  BY <1>2 DEF QueryKnows
<1>4. PICK y : y = [qs[q] EXCEPT !.pc = "ended", !.outcome = outcome, !.slot = NoMessage]
  OBVIOUS
<1>5. qs' = [qs EXCEPT ![q] = y]
  BY <1>1, <1>4 DEF QueryEnds
<1>6. y \in QueryTypes /\ y.id = qs[q].id /\ y.on = s /\ y.pc = "ended" /\ y.outcome = outcome /\ y.slot = NoMessage
      /\ y.secret = qs[q].secret
  <2>1. NoMessage \in Ends
    BY DEF Ends
  <2> QED  BY <1>2, <1>4, <2>1 DEF QueryTypes
<1>7. qs' \in [Queries -> QueryTypes] /\ qs'[q] = y /\ \A p \in Queries \ {q} : qs'[p] = qs[p]
  BY <1>1, <1>5, <1>6
<1>8. PICK P : P = [i \in DOMAIN st[s].pending \ {qs[q].id} |-> st[s].pending[i]]
  OBVIOUS
<1>9. PICK t : t = [st[s] EXCEPT !.pending = P]
  OBVIOUS
<1>10. st' = [st EXCEPT ![s] = t]
  BY <1>1, <1>8, <1>9 DEF Forget
<1>11. DOMAIN st' = Streams /\ st'[s] = t /\ \A x \in Streams \ {s} : st'[x] = st[x]
  BY <1>1, <1>10
<1>12. t \in StreamWith(t.pending) /\ t.pending = P
  BY <1>1, <1>9 DEF StreamWith
<1>13. /\ t.phase = st[s].phase /\ t.secret = st[s].secret /\ t.cancelled = st[s].cancelled /\ t.gone = st[s].gone
       /\ t.failures = st[s].failures /\ t.queue = st[s].queue /\ t.sending = st[s].sending /\ t.writer = st[s].writer
       /\ t.held = st[s].held /\ t.incoming = st[s].incoming /\ t.wire = st[s].wire /\ t.told = st[s].told
  BY <1>1, <1>9 DEF StreamWith
<1>14. Writes(t) /\ Received(t) = Received(st[s]) /\ Carried(t) = Carried(st[s])
  BY <1>1, <1>13 DEF Writes, Received, Carried
<1>15. ASSUME NEW i \in DOMAIN P PROVE i \in DOMAIN st[s].pending /\ P[i] = st[s].pending[i] /\ st[s].pending[i] # q
  BY <1>2, <1>8 DEF StreamNames
<1>16. QueryKnows(q)'
  <2>1. qs[q].on # NoStream => st'[qs[q].on].phase # "idle" /\ st'[qs[q].on].secret = st[qs[q].on].secret
    BY <1>2, <1>11, <1>13 DEF QueryKnows
  <2> QED  BY <1>1, <1>2, <1>6, <1>7, <2>1, EndKnows
<1>17. Still(st[s], st'[s]) /\ (Done(s) => Done(s)') /\ (Over(s) => Over(s)')
  BY <1>11, <1>12, <1>13, <1>14 DEF Still, Done, Over
<1>18. ASSUME NEW p \in Queries PROVE AskedOnce(s, p)' /\ CancelFollows(s, p)'
  <2>1. AskedOnce(s, p) /\ CancelFollows(s, p)
    BY DEF SessionInv
  <2>2. CASE p # q
    BY <1>7, <1>17, <2>1, <2>2, PairStays
  <2>3. CASE p = q /\ ~Asked(s, q)
    BY <1>6, <1>7, <1>17, <2>3, UnaskedPair
  <2>4. CASE p = q /\ Asked(s, q)
    <3>1. CancelFollows(s, p)'
      BY <1>17, <2>4 DEF CancelFollows
    <3>2. (Queued(s, p)' <=> Queued(s, p)) /\ (ToldOf(s, p)' <=> ToldOf(s, p)) /\ (Answering(s, p)' <=> Answering(s, p))
          /\ st'[s].queue = st[s].queue /\ st'[s].sending = st[s].sending
      BY <1>11, <1>13, <1>14 DEF Queued, ToldOf, Answering, AsksFor
    <3>3. AskedOnce(s, p)'
      BY <1>6, <1>7, <2>1, <2>4, <3>2 DEF AskedOnce, AsksFor
    <3> QED  BY <3>1, <3>3
  <2> QED  BY <2>2, <2>3, <2>4
<1> QED  BY <1>3, <1>6, <1>7, <1>11, <1>12, <1>13, <1>14, <1>15, <1>16, <1>17, <1>18, QueryStep

LEMMA AnsweredInv == ASSUME SessionInv, NEW q \in Queries, Answered(q) PROVE SessionInv'
<1>1. qs[q].on \in Streams \cup {NoStream} /\ qs[q].slot \in Ends /\ QueryKnows(q)
  BY DEF SessionInv, SessionTypeOK
<1>2. qs[q].on \in Streams
  BY <1>1 DEF QueryKnows, Answered
<1>3. ~Asked(qs[q].on, q)
  BY <1>2 DEF SessionInv, AskedOnce, Asked, Answered
<1> QED  BY <1>1, <1>2, <1>3, EndStep DEF Answered

LEMMA SessionLostInv == ASSUME SessionInv, NEW q \in Queries, SessionLost(q) PROVE SessionInv'
<1>1. qs[q].on \in Streams \cup {NoStream} /\ QueryKnows(q)
  BY DEF SessionInv, SessionTypeOK
<1>2. qs[q].on \in Streams /\ Over(qs[q].on)
  BY <1>1 DEF QueryKnows, SessionLost, Over
<1>3. Offline \in Ends /\ Offline.kind # "result"
  BY DEF Offline, Ends
<1> QED  BY <1>2, <1>3, EndStep DEF SessionLost

LEMMA EnqueueInv == ASSUME SessionInv, NEW q \in Queries, Enqueue(q) PROVE SessionInv'
<1>1. SessionTypeOK /\ qs \in [Queries -> QueryTypes] /\ hub.next \in Nat /\ DOMAIN st = Streams
      /\ qs[q].on \in Streams \cup {NoStream} /\ QueryKnows(q) /\ qs[q].pc = "enqueue" /\ qs[q] \in QueryTypes
  BY DEF SessionInv, SessionTypeOK, QueryTypes, Enqueue
<1>2. PICK s \in Streams : s = qs[q].on
  BY <1>1 DEF QueryKnows
<1>3. ~Asked(s, q) /\ ~Answering(s, q) /\ qs[q].slot = NoMessage /\ qs[q].id # 0
  BY <1>1 DEF SessionInv, AskedOnce, Asked, QueryKnows
<1>4. CASE \E outcome \in {Offline, Late, Busy} : qs' = QueryEnds(q, outcome) /\ st' = Forget(s, qs[q].id)
  <2>1. PICK outcome \in {Offline, Late, Busy} : qs' = QueryEnds(q, outcome) /\ st' = Forget(s, qs[q].id)
    BY <1>4
  <2>2. outcome \in Ends /\ outcome.kind # "result"
    BY DEF Offline, Late, Busy, Ends
  <2> QED  BY <1>1, <1>2, <1>3, <2>1, <2>2, EndStep DEF Enqueue
<1>5. CASE /\ qs' = [qs EXCEPT ![q].pc = "wait"]
           /\ st' = [st EXCEPT ![s].queue = Append(@, [kind |-> "history", id |-> qs[q].id, of |-> q])]
  <2>1. st[s] \in StreamWith(st[s].pending) /\ Writes(st[s]) /\ StreamNames(s)
    BY <1>1 DEF SessionInv, SessionTypeOK
  <2>2. PICK c : c = [kind |-> "history", id |-> qs[q].id, of |-> q]
    OBVIOUS
  <2>3. c \in Commands /\ c.kind = "history" /\ c.id = qs[q].id /\ c.of = q
    BY <1>1, <2>2 DEF Commands, QueryTypes
  <2>4. PICK v : v = st[s].queue /\ v \in Seq(Commands)
    BY <2>1 DEF StreamWith
  <2>5. PICK Q : Q = Append(v, c)
    OBVIOUS
  <2>6. /\ Q \in Seq(Commands) /\ DOMAIN v \subseteq DOMAIN Q
        /\ Len(v) + 1 \in DOMAIN Q /\ Q[Len(v) + 1] = c
        /\ \A i \in DOMAIN v : i < Len(v) + 1 /\ Q[i] = v[i]
        /\ \A i \in DOMAIN Q : i \in DOMAIN v \/ i = Len(v) + 1
    BY <2>3, <2>4, <2>5, AppendedAt
  <2>7. PICK t : t = [st[s] EXCEPT !.queue = Q]
    OBVIOUS
  <2>8. st' = [st EXCEPT ![s] = t]
    BY <1>1, <1>5, <2>2, <2>4, <2>5, <2>7
  <2>9. DOMAIN st' = Streams /\ st'[s] = t /\ \A x \in Streams \ {s} : st'[x] = st[x]
    BY <1>1, <2>8
  <2>10. t \in StreamWith(t.pending)
    BY <2>1, <2>6, <2>7 DEF StreamWith
  <2>11. /\ t.phase = st[s].phase /\ t.secret = st[s].secret /\ t.cancelled = st[s].cancelled /\ t.gone = st[s].gone
         /\ t.failures = st[s].failures /\ t.queue = Q /\ t.sending = st[s].sending /\ t.writer = st[s].writer
         /\ t.held = st[s].held /\ t.incoming = st[s].incoming /\ t.wire = st[s].wire /\ t.told = st[s].told
         /\ t.pending = st[s].pending
    BY <2>1, <2>7 DEF StreamWith
  <2>12. Writes(t) /\ Received(t) = Received(st[s])
    BY <2>1, <2>11 DEF Writes, Received
  <2>13. \A m \in Carried(t) : m \in Carried(st[s]) \/ m = c
    BY <2>4, <2>6, <2>11, <2>12 DEF Carried
  <2>14. PICK y : y = [qs[q] EXCEPT !.pc = "wait"]
    OBVIOUS
  <2>15. y \in QueryTypes /\ y.pc = "wait" /\ y.on = s /\ y.id = qs[q].id /\ y.slot = qs[q].slot /\ y.outcome = qs[q].outcome
         /\ y.secret = qs[q].secret
    BY <1>1, <1>2, <2>14 DEF QueryTypes
  <2>16. qs' \in [Queries -> QueryTypes] /\ qs'[q] = y /\ \A p \in Queries \ {q} : qs'[p] = qs[p]
    BY <1>1, <1>5, <2>14, <2>15
  <2>17. UNCHANGED <<secret, hub>>
    BY DEF Enqueue
  <2>18. QueryKnows(q)'
    BY <1>1, <1>2, <1>3, <2>9, <2>11, <2>15, <2>16, <2>17 DEF QueryKnows
  <2>19. ASSUME NEW p \in Queries PROVE AskedOnce(s, p)' /\ CancelFollows(s, p)'
    <3>1. AskedOnce(s, p) /\ CancelFollows(s, p)
      BY DEF SessionInv
    <3>2. /\ (Over(s)' <=> Over(s)) /\ (Answering(s, p)' <=> Answering(s, p)) /\ (ToldOf(s, p)' <=> ToldOf(s, p))
          /\ st'[s].queue = Q /\ st'[s].sending = st[s].sending
      BY <2>9, <2>11, <2>12 DEF AsksFor, Over, Done, Answering, ToldOf
    <3>3. CASE p = q
      <4>1. \A i \in DOMAIN v : ~AsksFor(Q[i], q)
        BY <1>3, <2>4, <2>6 DEF Asked, Queued
      <4>2. \A i \in DOMAIN Q : AsksFor(Q[i], q) => i = Len(v) + 1
        BY <2>6, <4>1
      <4>3. ~AsksFor(st[s].sending, q) /\ ~ToldOf(s, q)
        BY <1>3 DEF Asked
      <4>4. AskedOnce(s, p)'
        BY <1>3, <2>15, <2>16, <3>2, <3>3, <4>2, <4>3 DEF AskedOnce, AsksFor
      <4>5. CancelFollows(s, p)'
        BY <2>15, <2>16, <3>3 DEF CancelFollows
      <4> QED  BY <4>4, <4>5
    <3>4. CASE p # q
      <4>1. ~AsksFor(c, p) /\ qs'[p] = qs[p]
        BY <2>3, <2>16, <3>4 DEF AsksFor
      <4>2. \A i \in DOMAIN Q : AsksFor(Q[i], p) => i \in DOMAIN v /\ AsksFor(v[i], p)
        BY <2>6, <4>1
      <4>3. (Queued(s, p)' => Queued(s, p)) /\ (CancelQueued(s, p) => CancelQueued(s, p)')
        BY <2>4, <2>6, <3>2, <4>2 DEF Queued, CancelQueued, AsksFor, CancelsOf
      <4>4. AskedOnce(s, p)'
        BY <2>4, <3>1, <3>2, <4>1, <4>2, <4>3 DEF AskedOnce, AsksFor
      <4>5. \A i \in DOMAIN v : CancelsOf(v[i], p) => i \in DOMAIN Q /\ CancelsOf(Q[i], p)
        BY <2>6
      <4>6. CancelFollows(s, p)'
        BY <2>4, <3>1, <3>2, <4>1, <4>2, <4>3, <4>5 DEF CancelFollows, AsksFor, CancelsOf
      <4> QED  BY <4>4, <4>6
    <3> QED  BY <3>3, <3>4
  <2>20. (Done(s) => Done(s)') /\ qs'[q].on = s /\ qs'[q].id = qs[q].id
    BY <2>9, <2>11, <2>15, <2>16 DEF Done
  <2>21. \A i \in DOMAIN st'[s].pending : /\ i \in DOMAIN st[s].pending /\ st'[s].pending[i] = st[s].pending[i]
                                          /\ st[s].pending[i] = q => qs'[q].pc \in {"enqueue", "wait"}
    BY <2>9, <2>11, <2>15, <2>16
  <2>22. \A m \in Carried(st'[s]) : m \in Carried(st[s]) \/ (m.kind \in Naming => m.of = q /\ m.id = qs[q].id)
    BY <2>3, <2>9, <2>13
  <2>23. st'[s] \in StreamWith(st'[s].pending) /\ Writes(st'[s]) /\ st'[s].phase = st[s].phase /\ st'[s].secret = st[s].secret
    BY <2>9, <2>10, <2>11, <2>12
  <2> QED  BY <1>2, <1>3, <2>9, <2>16, <2>17, <2>18, <2>19, <2>20, <2>21, <2>22, <2>23, QueryStep
<1> QED  BY <1>2, <1>4, <1>5 DEF Enqueue

LEMMA AbandonInv == ASSUME SessionInv, NEW q \in Queries, Abandon(q) PROVE SessionInv'
<1>1. SessionTypeOK /\ qs \in [Queries -> QueryTypes] /\ hub.next \in Nat /\ DOMAIN st = Streams
      /\ qs[q].on \in Streams \cup {NoStream} /\ QueryKnows(q) /\ qs[q].pc = "wait" /\ qs[q] \in QueryTypes
  BY DEF SessionInv, SessionTypeOK, QueryTypes, Abandon
<1>2. PICK s \in Streams : s = qs[q].on
  BY <1>1 DEF QueryKnows
<1>3. st[s] \in StreamWith(st[s].pending) /\ Writes(st[s]) /\ StreamNames(s) /\ qs[q].id # 0
  BY <1>1 DEF SessionInv, SessionTypeOK, QueryKnows
<1>4. PICK y : y = [qs[q] EXCEPT !.pc = "ended", !.outcome = Late, !.slot = NoMessage]
  OBVIOUS
<1>5. y \in QueryTypes /\ y.id = qs[q].id /\ y.on = s /\ y.pc = "ended" /\ y.outcome.kind # "result" /\ y.slot = NoMessage
      /\ y.secret = qs[q].secret
  <2>1. NoMessage \in Ends /\ Late \in Ends /\ Late.kind # "result"
    BY DEF Ends, Late
  <2> QED  BY <1>1, <1>2, <1>4, <2>1 DEF QueryTypes
<1>6. qs' = [qs EXCEPT ![q] = y]
  BY <1>1, <1>4 DEF QueryEnds, Abandon
<1>7. qs' \in [Queries -> QueryTypes] /\ qs'[q] = y /\ \A p \in Queries \ {q} : qs'[p] = qs[p]
  BY <1>1, <1>5, <1>6
<1>8. PICK P : P = [i \in DOMAIN st[s].pending \ {qs[q].id} |-> st[s].pending[i]]
  OBVIOUS
<1>9. ASSUME NEW i \in DOMAIN P PROVE i \in DOMAIN st[s].pending /\ P[i] = st[s].pending[i] /\ st[s].pending[i] # q
  BY <1>3, <1>8 DEF StreamNames
<1>10. UNCHANGED <<secret, hub>>
  BY DEF Abandon
<1>11. CASE st' = [Forget(s, qs[q].id) EXCEPT ![s].queue = Append(@, [kind |-> "cancel", id |-> qs[q].id, of |-> q])]
  <2>2. PICK c : c = [kind |-> "cancel", id |-> qs[q].id, of |-> q]
    OBVIOUS
  <2>3. c \in Commands /\ c.kind = "cancel" /\ c.id = qs[q].id /\ c.of = q
    BY <1>1, <2>2 DEF Commands, QueryTypes
  <2>4. PICK v : v = st[s].queue /\ v \in Seq(Commands)
    BY <1>3 DEF StreamWith
  <2>5. PICK Q : Q = Append(v, c)
    OBVIOUS
  <2>6. /\ Q \in Seq(Commands) /\ DOMAIN v \subseteq DOMAIN Q
        /\ Len(v) + 1 \in DOMAIN Q /\ Q[Len(v) + 1] = c
        /\ \A i \in DOMAIN v : i < Len(v) + 1 /\ Q[i] = v[i]
        /\ \A i \in DOMAIN Q : i \in DOMAIN v \/ i = Len(v) + 1
    BY <2>3, <2>4, <2>5, AppendedAt
  <2>7. PICK t : t = [st[s] EXCEPT !.pending = P, !.queue = Q]
    OBVIOUS
  <2>8. st' = [st EXCEPT ![s] = t]
    <3>1. Forget(s, qs[q].id) = [st EXCEPT ![s] = [st[s] EXCEPT !.pending = P]]
      BY <1>1, <1>8 DEF Forget
    <3>2. PICK f : f = [st[s] EXCEPT !.pending = P]
      OBVIOUS
    <3>3. f.queue = v /\ t = [f EXCEPT !.queue = Q]
      BY <1>3, <2>4, <2>7, <3>2 DEF StreamWith
    <3> QED  BY <1>1, <1>11, <2>2, <2>5, <3>1, <3>2, <3>3
  <2>9. DOMAIN st' = Streams /\ st'[s] = t /\ \A x \in Streams \ {s} : st'[x] = st[x]
    BY <1>1, <2>8
  <2>10. t \in StreamWith(t.pending) /\ t.pending = P
    BY <1>3, <2>6, <2>7 DEF StreamWith
  <2>11. /\ t.phase = st[s].phase /\ t.secret = st[s].secret /\ t.cancelled = st[s].cancelled /\ t.gone = st[s].gone
         /\ t.failures = st[s].failures /\ t.queue = Q /\ t.sending = st[s].sending /\ t.writer = st[s].writer
         /\ t.held = st[s].held /\ t.incoming = st[s].incoming /\ t.wire = st[s].wire /\ t.told = st[s].told
    BY <1>3, <2>7 DEF StreamWith
  <2>12. Writes(t) /\ Received(t) = Received(st[s])
    BY <1>3, <2>11 DEF Writes, Received
  <2>13. \A m \in Carried(t) : m \in Carried(st[s]) \/ m = c
    BY <2>4, <2>6, <2>11, <2>12 DEF Carried
  <2>14. QueryKnows(q)'
    <3>1. st'[s].phase # "idle" /\ st'[s].secret = st[s].secret
      BY <1>1, <1>2, <2>9, <2>11 DEF QueryKnows
    <3> QED  BY <1>1, <1>2, <1>5, <1>7, <1>10, <3>1, EndKnows
  <2>15. ASSUME NEW p \in Queries PROVE AskedOnce(s, p)' /\ CancelFollows(s, p)'
    <3>1. AskedOnce(s, p) /\ CancelFollows(s, p)
      BY DEF SessionInv
    <3>2. /\ (Over(s)' <=> Over(s)) /\ (Answering(s, p)' <=> Answering(s, p)) /\ (ToldOf(s, p)' <=> ToldOf(s, p))
          /\ st'[s].queue = Q /\ st'[s].sending = st[s].sending
      BY <2>9, <2>11, <2>12 DEF AsksFor, Over, Done, Answering, ToldOf
    <3>3. ~AsksFor(c, p)
      BY <2>3 DEF AsksFor
    <3>4. \A i \in DOMAIN Q : AsksFor(Q[i], p) => i \in DOMAIN v /\ AsksFor(v[i], p)
      BY <2>6, <3>3
    <3>5. (Queued(s, p)' => Queued(s, p)) /\ (CancelQueued(s, p) => CancelQueued(s, p)')
      BY <2>4, <2>6, <3>2, <3>4 DEF Queued, CancelQueued, AsksFor, CancelsOf
    <3>6. qs'[p].pc = qs[p].pc \/ qs'[p].pc = "ended"
      BY <1>5, <1>7
    <3>7. Queued(s, p) \/ AsksFor(st[s].sending, p) \/ ToldOf(s, p) => qs'[p].slot = NoMessage
      BY <1>5, <1>7, <3>1 DEF AskedOnce
    <3>8. AskedOnce(s, p)'
      BY <2>4, <3>1, <3>2, <3>4, <3>5, <3>6, <3>7 DEF AskedOnce, AsksFor
    <3>9. CASE p = q
      <4>1. CancelsOf(Q[Len(v) + 1], p)
        BY <2>3, <2>6, <3>9 DEF CancelsOf
      <4>2. CancelQueued(s, p)'
        BY <2>6, <3>2, <4>1 DEF CancelQueued, CancelsOf
      <4>3. \A i \in DOMAIN Q : AsksFor(Q[i], p) => i < Len(v) + 1
        BY <2>6, <3>4
      <4>4. CancelFollows(s, p)'
        BY <2>6, <3>2, <4>1, <4>2, <4>3 DEF CancelFollows, AsksFor, CancelsOf
      <4> QED  BY <3>8, <4>4
    <3>10. CASE p # q
      <4>1. qs'[p] = qs[p]
        BY <1>7, <3>10
      <4>2. \A i \in DOMAIN v : CancelsOf(v[i], p) => i \in DOMAIN Q /\ CancelsOf(Q[i], p)
        BY <2>6
      <4>3. CancelFollows(s, p)'
        BY <2>4, <3>1, <3>2, <3>4, <3>5, <4>1, <4>2 DEF CancelFollows, AsksFor, CancelsOf
      <4> QED  BY <3>8, <4>3
    <3> QED  BY <3>9, <3>10
  <2>16. (Done(s) => Done(s)') /\ qs'[q].on = s /\ qs'[q].id = qs[q].id
    BY <1>5, <1>7, <2>9, <2>11 DEF Done
  <2>17. \A i \in DOMAIN st'[s].pending : /\ i \in DOMAIN st[s].pending /\ st'[s].pending[i] = st[s].pending[i]
                                          /\ st[s].pending[i] = q => qs'[q].pc \in {"enqueue", "wait"}
    BY <1>9, <2>9, <2>10
  <2>18. \A m \in Carried(st'[s]) : m \in Carried(st[s]) \/ (m.kind \in Naming => m.of = q /\ m.id = qs[q].id)
    BY <2>3, <2>9, <2>13
  <2>19. st'[s] \in StreamWith(st'[s].pending) /\ Writes(st'[s]) /\ st'[s].phase = st[s].phase /\ st'[s].secret = st[s].secret
    BY <2>9, <2>10, <2>11, <2>12
  <2> QED  BY <1>2, <1>3, <1>7, <1>10, <2>9, <2>14, <2>15, <2>16, <2>17, <2>18, <2>19, QueryStep
<1>12. CASE st' = Cancelled(Forget(s, qs[q].id), {s})
  <2>1. PICK t : t = [st[s] EXCEPT !.pending = P, !.cancelled = TRUE]
    OBVIOUS
  <2>2. DOMAIN st' = Streams /\ st'[s] = t /\ \A x \in Streams \ {s} : st'[x] = st[x]
    <3>1. Forget(s, qs[q].id) = [st EXCEPT ![s] = [st[s] EXCEPT !.pending = P]]
      BY <1>1, <1>8 DEF Forget
    <3>2. PICK f : f = [st[s] EXCEPT !.pending = P]
      OBVIOUS
    <3>3. t = [f EXCEPT !.cancelled = TRUE]
      BY <1>3, <2>1, <3>2 DEF StreamWith
    <3> QED  BY <1>1, <1>12, <3>1, <3>2, <3>3 DEF Cancelled
  <2>3. t \in StreamWith(t.pending) /\ t.pending = P
    BY <1>3, <2>1 DEF StreamWith
  <2>4. /\ t.phase = st[s].phase /\ t.secret = st[s].secret /\ t.cancelled /\ t.gone = st[s].gone
        /\ t.failures = st[s].failures /\ t.queue = st[s].queue /\ t.sending = st[s].sending /\ t.writer = st[s].writer
        /\ t.held = st[s].held /\ t.incoming = st[s].incoming /\ t.wire = st[s].wire /\ t.told = st[s].told
    BY <1>3, <2>1 DEF StreamWith
  <2>5. Writes(t) /\ Received(t) = Received(st[s]) /\ Carried(t) = Carried(st[s])
    BY <1>3, <2>4 DEF Writes, Received, Carried
  <2>6. QueryKnows(q)'
    <3>1. st'[s].phase # "idle" /\ st'[s].secret = st[s].secret
      BY <1>1, <1>2, <2>2, <2>4 DEF QueryKnows
    <3> QED  BY <1>1, <1>2, <1>5, <1>7, <1>10, <3>1, EndKnows
  <2>7. Over(s)' /\ Done(s)'
    BY <2>2, <2>4 DEF Over, Done
  <2>8. ASSUME NEW p \in Queries PROVE AskedOnce(s, p)' /\ CancelFollows(s, p)'
    <3>1. AskedOnce(s, p)
      BY DEF SessionInv
    <3>2. /\ (Queued(s, p)' <=> Queued(s, p)) /\ (Answering(s, p)' <=> Answering(s, p)) /\ (ToldOf(s, p)' <=> ToldOf(s, p))
          /\ st'[s].queue = st[s].queue /\ st'[s].sending = st[s].sending
      BY <2>2, <2>4, <2>5 DEF AsksFor, Answering, ToldOf, Queued
    <3>3. qs'[p].pc = qs[p].pc \/ qs'[p].pc = "ended"
      BY <1>5, <1>7
    <3>4. Queued(s, p) \/ AsksFor(st[s].sending, p) \/ ToldOf(s, p) => qs'[p].slot = NoMessage
      BY <1>5, <1>7, <3>1 DEF AskedOnce
    <3>5. AskedOnce(s, p)'
      BY <3>1, <3>2, <3>3, <3>4 DEF AskedOnce, AsksFor
    <3> QED  BY <2>7, <3>5 DEF CancelFollows
  <2>9. qs'[q].on = s /\ qs'[q].id = qs[q].id
    BY <1>5, <1>7
  <2>10. \A i \in DOMAIN st'[s].pending : /\ i \in DOMAIN st[s].pending /\ st'[s].pending[i] = st[s].pending[i]
                                          /\ st[s].pending[i] = q => qs'[q].pc \in {"enqueue", "wait"}
    BY <1>9, <2>2, <2>3
  <2>11. \A m \in Carried(st'[s]) : m \in Carried(st[s])
    BY <2>2, <2>5
  <2>12. st'[s] \in StreamWith(st'[s].pending) /\ Writes(st'[s]) /\ st'[s].phase = st[s].phase /\ st'[s].secret = st[s].secret
    BY <2>2, <2>3, <2>4, <2>5
  <2> QED  BY <1>2, <1>3, <1>7, <1>10, <2>2, <2>6, <2>7, <2>8, <2>9, <2>10, <2>11, <2>12, QueryStep
<1> QED  BY <1>2, <1>11, <1>12 DEF Abandon

LEMMA RegisterInv == ASSUME SessionInv, NEW q \in Queries, Register(q) PROVE SessionInv'
<1>1. SessionTypeOK /\ qs \in [Queries -> QueryTypes] /\ hub.next \in Nat /\ DOMAIN st = Streams /\ hub \in HubTypes /\ secret \in Nat
      /\ qs[q].on \in Streams \cup {NoStream} /\ QueryKnows(q) /\ qs[q].pc = "register" /\ qs[q] \in QueryTypes
  BY DEF SessionInv, SessionTypeOK, QueryTypes, HubTypes, Register
<1>2. PICK s \in Streams : s = qs[q].on
  BY <1>1 DEF QueryKnows
<1>3. qs[q].id = 0 /\ qs[q].slot = NoMessage
  BY <1>1 DEF QueryKnows
<1>4. PICK n \in Nat : n = hub.next + 1
  BY <1>1
<1>5. hub' = [hub EXCEPT !.next = n] /\ UNCHANGED secret
  BY <1>1, <1>4 DEF Register, HubTypes
<1>6. hub' \in HubTypes /\ hub'.next = n /\ hub'.current = hub.current /\ n > hub.next
  BY <1>1, <1>4, <1>5 DEF HubTypes
<1>7. CASE qs' = QueryEnds(q, Busy) /\ UNCHANGED st
  <2>1. PICK y : y = [qs[q] EXCEPT !.pc = "ended", !.outcome = Busy, !.slot = NoMessage]
    OBVIOUS
  <2>2. qs' = [qs EXCEPT ![q] = y]
    BY <1>1, <1>7, <2>1 DEF QueryEnds
  <2>3. y \in QueryTypes /\ y.id = 0 /\ y.on = qs[q].on /\ y.pc = "ended" /\ y.outcome.kind # "result" /\ y.slot = NoMessage
        /\ y.secret = qs[q].secret
    <3>1. NoMessage \in Ends /\ Busy \in Ends /\ Busy.kind # "result"
      BY DEF Ends, Busy
    <3> QED  BY <1>1, <1>3, <2>1, <3>1 DEF QueryTypes
  <2>4. qs' \in [Queries -> QueryTypes] /\ qs'[q] = y /\ \A p \in Queries \ {q} : qs'[p] = qs[p]
    BY <1>1, <2>2, <2>3
  <2>5. QueryKnows(q)'
    <3>1. qs[q].on # NoStream => st'[qs[q].on].phase # "idle" /\ st'[qs[q].on].secret = st[qs[q].on].secret
      BY <1>1, <1>7 DEF QueryKnows
    <3> QED  BY <1>1, <1>3, <1>6, <2>3, <2>4, <3>1, EndKnows
  <2>6. \A x \in Streams : Quiet(st[x], st'[x])
    BY <1>1, <1>7, QuietSame
  <2>7. HubServes' /\ NewestSessionServes'
    BY <1>6, <1>7 DEF SessionInv, HubServes, NewestSessionServes, Done
  <2> QED  BY <1>1, <1>3, <1>5, <1>6, <1>7, <2>3, <2>4, <2>5, <2>6, <2>7, YoungStep
<1>8. CASE /\ qs' = [qs EXCEPT ![q].pc = "enqueue", ![q].id = n]
           /\ st' = [st EXCEPT ![s].pending = [i \in DOMAIN @ \cup {n} |-> IF i = n THEN q ELSE @[i]]]
  <2>1. st[s] \in StreamWith(st[s].pending) /\ Writes(st[s])
    BY <1>1 DEF SessionTypeOK
  <2>2. PICK P : P = [i \in DOMAIN st[s].pending \cup {n} |-> IF i = n THEN q ELSE st[s].pending[i]]
    OBVIOUS
  <2>3. PICK t : t = [st[s] EXCEPT !.pending = P]
    OBVIOUS
  <2>4. st' = [st EXCEPT ![s] = t]
    BY <1>1, <1>8, <2>2, <2>3
  <2>5. DOMAIN st' = Streams /\ st'[s] = t /\ \A x \in Streams \ {s} : st'[x] = st[x]
    BY <1>1, <2>4
  <2>6. t \in StreamWith(t.pending) /\ t.pending = P
    BY <2>1, <2>3 DEF StreamWith
  <2>7. /\ t.phase = st[s].phase /\ t.secret = st[s].secret /\ t.cancelled = st[s].cancelled /\ t.gone = st[s].gone
        /\ t.failures = st[s].failures /\ t.queue = st[s].queue /\ t.sending = st[s].sending /\ t.writer = st[s].writer
        /\ t.held = st[s].held /\ t.incoming = st[s].incoming /\ t.wire = st[s].wire /\ t.told = st[s].told
    BY <2>1, <2>3 DEF StreamWith
  <2>8. Writes(t) /\ Received(t) = Received(st[s]) /\ Carried(t) = Carried(st[s])
    BY <2>1, <2>7 DEF Writes, Received, Carried
  <2>9. PICK y : y = [qs[q] EXCEPT !.pc = "enqueue", !.id = n]
    OBVIOUS
  <2>10. y \in QueryTypes /\ y.pc = "enqueue" /\ y.on = s /\ y.id = n /\ y.slot = qs[q].slot /\ y.outcome = qs[q].outcome
         /\ y.secret = qs[q].secret
    BY <1>1, <1>2, <2>9 DEF QueryTypes
  <2>11. qs' \in [Queries -> QueryTypes] /\ qs'[q] = y /\ \A p \in Queries \ {q} : qs'[p] = qs[p]
    BY <1>1, <1>8, <2>9, <2>10
  <2>12. SessionTypeOK'
    BY <1>1, <1>5, <1>6, <2>5, <2>6, <2>8, <2>11 DEF SessionTypeOK, QueryTypes, HubTypes
  <2>13. HubServes' /\ NewestSessionServes'
    <3>1. \A x \in Streams : (st'[x].phase = "open" <=> st[x].phase = "open") /\ (Done(x) => Done(x)')
      BY <2>5, <2>7 DEF Done
    <3> QED  BY <1>1, <1>6, <3>1, HubStays DEF SessionInv
  <2>14. \A x \in Streams : st'[x].phase = st[x].phase /\ st'[x].secret = st[x].secret
    BY <2>5, <2>7
  <2>15. ASSUME NEW p \in Queries PROVE QueryKnows(p)'
    <3>1. CASE p = q
      <4>1. st[s].phase # "idle" /\ st[s].secret >= qs[q].secret /\ s # NoStream /\ qs[q].outcome = NoMessage
        BY <1>1, <1>2 DEF QueryKnows
      <4> QED  BY <1>1, <1>3, <1>4, <1>6, <2>10, <2>11, <2>14, <3>1, <4>1 DEF QueryKnows
    <3>2. CASE p # q
      <4>1. QueryKnows(p) /\ qs[p].on \in Streams \cup {NoStream} /\ qs'[p] = qs[p]
        BY <1>1, <2>11, <3>2 DEF SessionInv, SessionTypeOK
      <4>2. qs[p].on # NoStream => st'[qs[p].on].phase # "idle" /\ st'[qs[p].on].secret = st[qs[p].on].secret
        BY <2>14, <4>1 DEF QueryKnows
      <4>3. secret' >= secret /\ hub'.next >= hub.next
        BY <1>1, <1>5, <1>6
      <4> QED  BY <1>1, <2>12, <4>1, <4>2, <4>3, QueryStays
    <3> QED  BY <3>1, <3>2
  <2>16. IdsAreOwn'
    <3>1. \A p \in Queries : qs[p].id \in Nat /\ qs[p].id <= hub.next
      BY <1>1 DEF SessionInv, QueryKnows, SessionTypeOK
    <3>2. \A p \in Queries \ {q} : qs'[p].id = qs[p].id /\ qs'[p].id # n
      BY <1>1, <1>6, <2>11, <3>1
    <3> QED  BY <2>10, <2>11, <3>2 DEF SessionInv, IdsAreOwn
  <2>17. ASSUME NEW x \in Streams PROVE StreamNames(x)'
    <3>1. StreamNames(x)
      BY DEF SessionInv
    <3>2. Carried(st'[x]) = Carried(st[x])
      BY <2>5, <2>8
    <3>3. ASSUME NEW m \in Carried(st'[x]), m.kind \in Naming PROVE m.id # 0 /\ qs'[m.of].id = m.id /\ qs'[m.of].on = x
      <4>1. m.id # 0 /\ qs[m.of].id = m.id /\ qs[m.of].on = x
        BY <3>1, <3>2, <3>3 DEF StreamNames, NamesQuery, Naming
      <4>2. m.of \in Queries
        <5>1. st'[x] \in StreamWith(st'[x].pending)
          BY <2>12 DEF SessionTypeOK
        <5> QED  BY <3>3, <5>1, CarriedTypes
      <4> QED  BY <1>3, <2>11, <4>1, <4>2
    <3>4. \A m \in Carried(st[x])' : NamesQuery(m, x)'
      BY <3>3 DEF NamesQuery, Naming
    <3>5. \A i \in DOMAIN st[x].pending : /\ st[x].pending[i] \in Queries \ {q} /\ i # 0 /\ qs[st[x].pending[i]].id = i
                                          /\ qs[st[x].pending[i]].on = x /\ qs[st[x].pending[i]].pc \in {"enqueue", "wait"}
      BY <1>3, <3>1 DEF StreamNames
    <3>6. ASSUME NEW i \in DOMAIN st'[x].pending
          PROVE /\ st'[x].pending[i] \in Queries /\ i # 0 /\ qs'[st'[x].pending[i]].id = i /\ qs'[st'[x].pending[i]].on = x
                /\ qs'[st'[x].pending[i]].pc \in {"enqueue", "wait"}
      <4>1. CASE i \in DOMAIN st[x].pending /\ st'[x].pending[i] = st[x].pending[i]
        BY <2>11, <3>5, <4>1
      <4>2. CASE x = s /\ i = n
        <5>1. st'[x].pending[i] = q /\ n # 0
          BY <1>1, <1>4, <2>2, <2>5, <2>6, <4>2
        <5> QED  BY <2>10, <2>11, <4>2, <5>1
      <4> QED  BY <2>2, <2>5, <2>6, <4>1, <4>2
    <3> QED  BY <3>4, <3>6 DEF StreamNames
  <2>18. ASSUME NEW x \in Streams, NEW p \in Queries PROVE AskedOnce(x, p)' /\ CancelFollows(x, p)'
    <3>1. Still(st[x], st'[x])
      <4>1. Still(st[s], t)
        BY <2>6, <2>7, <2>8 DEF Still
      <4>2. Still(st[x], st[x])
        BY <1>1, QuietSame DEF Quiet
      <4> QED  BY <2>5, <4>1, <4>2
    <3>2. CASE p = q
      BY <1>3, <3>1, <3>2, YoungIsUnnamed, UnaskedPair
    <3>3. CASE p # q
      <4>1. AskedOnce(x, p) /\ CancelFollows(x, p) /\ qs'[p] = qs[p]
        BY <2>11, <3>3 DEF SessionInv
      <4> QED  BY <3>1, <4>1, PairStays
    <3> QED  BY <3>2, <3>3
  <2> QED  BY <2>12, <2>13, <2>15, <2>16, <2>17, <2>18 DEF SessionInv
<1> QED  BY <1>2, <1>4, <1>7, <1>8 DEF Register, RequestID

-----------------------------------------------------------------------------
LEMMA StutterInv == ASSUME SessionInv, UNCHANGED sessionVars PROVE SessionInv'
<1>1. SessionTypeOK /\ hub \in HubTypes /\ HubServes /\ NewestSessionServes
  BY DEF SessionInv, SessionTypeOK, HubTypes
<1>2. UNCHANGED <<secret, hub, st, qs>>
  BY DEF sessionVars
<1>3. \A x \in Streams : Quiet(st[x], st'[x])
  BY <1>1, <1>2, QuietSame
<1>4. HubServes' /\ NewestSessionServes'
  BY <1>1, <1>2 DEF HubServes, NewestSessionServes, Done
<1>5. secret \in Nat /\ hub.next \in Nat /\ qs \in [Queries -> QueryTypes] /\ DOMAIN st = Streams
  BY <1>1 DEF SessionTypeOK, QueryTypes, HubTypes
<1> QED  BY <1>1, <1>2, <1>3, <1>4, <1>5, QuietStep

LEMMA SessionNextInv == ASSUME SessionInv, [SessionNext]_sessionVars PROVE SessionInv'
<1>1. ASSUME NEW s \in Streams, NodeNext(s) PROVE SessionInv'
  BY <1>1, NodeOffersInv, NodeAnswersInv, StreamEndsInv DEF NodeNext
<1>2. ASSUME NEW s \in Streams, HeartbeatTimeout(s) PROVE SessionInv'
  <2>1. st[s].failures \in Nat
    BY DEF SessionInv, SessionTypeOK, StreamWith
  <2>2. 0 \in 0 .. 1 /\ 0 <= st[s].failures /\ st[s].phase \in {"await", "open"} /\ Return(s, 0)
    BY <1>2, <2>1 DEF HeartbeatTimeout
  <2> QED  BY <2>2, ReturnInv
<1>3. ASSUME NEW s \in Streams, GivesUpWaiting(s) PROVE SessionInv'
  BY <1>3, ReturnInv DEF GivesUpWaiting
<1>4. ASSUME NEW s \in Streams, SessionCloses(s) PROVE SessionInv'
  <2>1. st[s].failures \in Nat /\ st[s].phase \in {"await", "open"}
    BY <1>4 DEF SessionInv, SessionTypeOK, StreamWith, SessionCloses
  <2>2. CASE Return(s, 0)
    <3>1. 0 \in 0 .. 1 /\ 0 <= st[s].failures
      BY <2>1
    <3> QED  BY <2>1, <2>2, <3>1, ReturnInv
  <2>3. CASE st[s].failures > 0 /\ Return(s, 1)
    <3>1. 1 \in 0 .. 1 /\ 1 <= st[s].failures
      BY <2>1, <2>3
    <3> QED  BY <2>1, <2>3, <3>1, ReturnInv
  <2> QED  BY <1>4, <2>2, <2>3 DEF SessionCloses
<1>5. ASSUME NEW s \in Streams, StreamNext(s) PROVE SessionInv'
  BY <1>3, <1>4, <1>5, EnterInv, OpenInv, ReceivesInv, RequestReturnsInv, JoinedInv DEF StreamNext
<1>6. ASSUME NEW s \in Streams, ReaderNext(s) PROVE SessionInv'
  BY <1>6, ReaderReceivesInv, ReaderPutsInv, ReaderGivesUpInv, ReaderFailsInv DEF ReaderNext
<1>7. ASSUME NEW s \in Streams, WriterNext(s) PROVE SessionInv'
  BY <1>7, WriterTakesInv, WriterSendsInv, WriterFailsInv, WriterEndsInv DEF WriterNext
<1>8. ASSUME NEW q \in Queries, QueryNext(q) PROVE SessionInv'
  BY <1>8, BeginInv, AuthenticateInv, RegisterInv, EnqueueInv, AnsweredInv, SessionLostInv, AbandonInv, QueryExpiresInv DEF QueryNext
<1> QED  BY <1>1, <1>2, <1>5, <1>6, <1>7, <1>8, ServeHTTPInv, CloseInv, StopInv, RotateInv, StutterInv DEF SessionNext

\* The inductive invariant: the hub's session is the connected one, every message on a
\* stream names the query with its id, each query's command is in one place and its
\* cancellation behind it (hub.go and session.go).
THEOREM SessionInvariant == SessionSpec => []SessionInv
<1>1. SessionInit => SessionInv
  BY SessionInitInv
<1>2. SessionInv /\ [SessionNext]_sessionVars => SessionInv'
  BY SessionNextInv
<1> QED  BY <1>1, <1>2, PTL DEF SessionSpec

\* A connected session that nobody ended is the one the hub gives to queries, whatever
\* sessions were opened, replaced and removed before (hub.go, Open and Remove).
THEOREM NewestServes == SessionSpec => []NewestSessionServes
<1>1. SessionInv => NewestSessionServes
  BY DEF SessionInv
<1> QED  BY <1>1, SessionInvariant, PTL

\* A query is answered by the reply to its own command, on a session whose secret still
\* authenticated when the query began (hub.go, current, History and Complete).
THEOREM AnswersReachTheirQuery == SessionSpec => []AnswersAreOwn
<1>1. SessionInv => AnswersAreOwn
  BY DEF SessionInv, QueryKnows, AnswersAreOwn
<1> QED  BY <1>1, SessionInvariant, PTL

\* The node is told of a query that was given up, behind its command, or the session is over
\* (hub.go, the end of History).
THEOREM AbandonedAreCancelled == SessionSpec => []AbandonedIsCancelled
<1>1. SessionInv => AbandonedIsCancelled
  <2> SUFFICES ASSUME SessionInv PROVE AbandonedIsCancelled
    OBVIOUS
  <2> SUFFICES ASSUME NEW q \in Queries, NEW s, s = qs[q].on, qs[q].pc = "ended", s # NoStream,
                      \E c \in st[s].told : c.kind = "history" /\ c.of = q
               PROVE  \/ Done(s) \/ st[s].phase \in {"returned", "ended"} \/ st[s].failures > 0
                      \/ st[s].sending.kind = "cancel" /\ st[s].sending.of = q
                      \/ \E i \in DOMAIN st[s].queue : st[s].queue[i].kind = "cancel" /\ st[s].queue[i].of = q
    BY DEF AbandonedIsCancelled
  <2>1. s \in Streams
    BY DEF SessionInv, SessionTypeOK
  <2>2. CancelFollows(s, q) /\ ToldOf(s, q)
    BY <2>1 DEF SessionInv, ToldOf, AsksFor
  <2> QED  BY <2>2 DEF CancelFollows, Over, CancelsOf, CancelQueued
<1> QED  BY <1>1, SessionInvariant, PTL

=============================================================================
