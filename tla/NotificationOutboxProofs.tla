---------------------- MODULE NotificationOutboxProofs ----------------------
(***************************************************************************)
(* Safety of the notification outbox for any number of events, channels,   *)
(* notifications, retries, channel changes and failures.                   *)
(***************************************************************************)
EXTENDS NotificationOutbox, TLAPS

USE RowsAssumption, CorruptAssumption, TestedAssumption, LimitAssumption
USE DEF rowVars

LEMMA RowFields ==
  ASSUME NEW r \in Rows
  PROVE r.event \in Events /\ r.channel \in Channels /\ r.transition \in Transitions
  OBVIOUS

LEMMA CountedType ==
  ASSUME TypeOK, NEW r \in Rows
  PROVE Counted(r) \in 0..RetryLimit
  BY DEF TypeOK, Counted

LEMMA HoldingType ==
  ASSUME NEW c \in Channels, NEW items \in SUBSET Rows
  PROVE /\ Holding(c, items) \in WorkerStates
        /\ Holding(c, items).items = items /\ Holding(c, items).channel = c
        /\ Holding(c, items).verdict = "none" /\ Holding(c, items).revision = 0
  BY DEF Holding, WorkerStates, Verdicts

LEMMA WorkerFields ==
  ASSUME TypeOK
  PROVE /\ worker.items \in SUBSET Rows /\ worker.channel \in Channels
        /\ worker.verdict \in Verdicts /\ worker.revision \in Nat /\ worker.config \in Nat
        /\ \A c \in Channels : /\ chan[c].revision \in Nat /\ chan[c].config \in Nat
                               /\ chan[c].type \in Types /\ chan[c].deleted \in BOOLEAN
                               /\ chan[c].enabled \in BOOLEAN
        /\ \A c \in Channels : /\ tester[c].revision \in Nat /\ tester[c].config \in Nat
                               /\ tester[c].busy \in BOOLEAN
  BY DEF TypeOK, WorkerStates, Chans, Testers

-----------------------------------------------------------------------------
(* Types *)

LEMMA InsertType ==
  ASSUME TypeOK, NEW e \in Events, NEW t \in Transitions, insertNotifications(e, t)
  PROVE /\ status' \in [Rows -> Status] /\ due' \in [Rows -> BOOLEAN]
        /\ attempts' \in [Rows -> 0..RetryLimit] /\ isProbe' \in [Rows -> BOOLEAN]
        /\ rtype' \in [Rows -> Types]
<1> DEFINE new == {r \in Rows : r.event = e /\ r.transition = t /\ status[r] = "none"
                                /\ targets.type[r.channel] # "none"}
           backlog(r) == RowsOf(r.channel, {"blocked"})
<1>1. status' = [r \in Rows |-> IF r \notin new THEN status[r]
                                ELSE IF backlog(r) # {} THEN "blocked" ELSE "pending"]
  BY DEF insertNotifications
<1>2. due' = [r \in Rows |-> IF r \in new THEN backlog(r) = {} \/ \E q \in backlog(r) : due[q]
                             ELSE due[r]]
  BY DEF insertNotifications
<1>3. rtype' = [r \in Rows |-> IF r \in new THEN targets.type[r.channel] ELSE rtype[r]]
  BY DEF insertNotifications
<1>4. status' \in [Rows -> Status]
  BY <1>1 DEF TypeOK, Status, Active
<1>5. \A r \in new : targets.type[r.channel] \in Types
  BY DEF TypeOK
<1>6. rtype' \in [Rows -> Types]
  BY <1>3, <1>5 DEF TypeOK
<1>7. due' \in [Rows -> BOOLEAN]
  <2> HIDE DEF new, backlog
  <2> QED  BY <1>2 DEF TypeOK
<1> QED  BY <1>4, <1>6, <1>7 DEF insertNotifications, TypeOK

LEMMA EnqueueType == ASSUME TypeOK, Enqueue PROVE TypeOK'
<1>1. CASE RefreshTargets
  <2> PICK selected \in SUBSET Channels :
        targets' = [ready |-> TRUE,
                    type |-> [c \in Channels |->
                        IF c \in selected /\ chan[c].enabled /\ ~chan[c].deleted
                        THEN chan[c].type ELSE "none"]]
    BY <1>1 DEF RefreshTargets
  <2>1. \A c \in Channels : chan[c].type \in Types
    BY DEF TypeOK, Chans
  <2> QED  BY <1>1, <2>1 DEF RefreshTargets, TypeOK
<1>2. ASSUME NEW e \in Events, OpenEvent(e) PROVE TypeOK'
  BY <1>2, InsertType DEF OpenEvent, TypeOK, Transitions
<1>3. ASSUME NEW e \in Events, CloseEvent(e) PROVE TypeOK'
  <2>1. CASE insertNotifications(e, "closed")
    BY <1>3, <2>1, InsertType DEF CloseEvent, TypeOK, Transitions
  <2>2. CASE UNCHANGED rowVars
    BY <1>3, <2>2 DEF CloseEvent, TypeOK
  <2> QED  BY <1>3, <2>1, <2>2 DEF CloseEvent
<1>4. ASSUME NEW e \in Events, EnqueueNotifications(e) PROVE TypeOK'
  BY <1>4, InsertType DEF EnqueueNotifications, TypeOK, Transitions
<1> QED  BY <1>1, <1>2, <1>3, <1>4 DEF Enqueue

\* What TakeNotificationBatch claims: rows that are alike and may be claimed.
LEMMA Taken ==
  ASSUME TypeOK, TakeNotificationBatch
  PROVE \E first \in Rows, items \in SUBSET Rows :
          /\ first \in items /\ Claimable(first)
          /\ status[first] # "sending" => \A q \in Rows : status[q] = "sending" => ~Claimable(q)
          /\ items \subseteq {first} \cup Companions(first)
          /\ status' = [r \in Rows |-> IF r \in items THEN "sending" ELSE status[r]]
          /\ due' = [r \in Rows |-> IF r \in items THEN TRUE ELSE due[r]]
          /\ isProbe' = [isProbe EXCEPT ![first] = Probe(first)]
          /\ worker' = Holding(first.channel, items)
<1> PICK first \in Rows : \E rest \in SUBSET Companions(first) :
      /\ Claimable(first)
      /\ status[first] # "sending" => \A q \in Rows : status[q] = "sending" => ~Claimable(q)
      /\ LET items == {first} \cup rest IN
         /\ status' = [r \in Rows |-> IF r \in items THEN "sending" ELSE status[r]]
         /\ due' = [r \in Rows |-> IF r \in items THEN TRUE ELSE due[r]]
         /\ isProbe' = [isProbe EXCEPT ![first] = Probe(first)]
         /\ worker' = Holding(first.channel, items)
  BY DEF TakeNotificationBatch
<1> PICK rest \in SUBSET Companions(first) :
      /\ Claimable(first)
      /\ status[first] # "sending" => \A q \in Rows : status[q] = "sending" => ~Claimable(q)
      /\ LET items == {first} \cup rest IN
         /\ status' = [r \in Rows |-> IF r \in items THEN "sending" ELSE status[r]]
         /\ due' = [r \in Rows |-> IF r \in items THEN TRUE ELSE due[r]]
         /\ isProbe' = [isProbe EXCEPT ![first] = Probe(first)]
         /\ worker' = Holding(first.channel, items)
  OBVIOUS
<1> DEFINE items == {first} \cup rest
<1>1. items \in SUBSET Rows /\ first \in items /\ items \subseteq {first} \cup Companions(first)
  BY DEF Companions
<1> HIDE DEF items
<1> QED  BY <1>1 DEF items

LEMMA TakeType == ASSUME TypeOK, TakeNotificationBatch PROVE TypeOK'
<1> PICK first \in Rows, items \in SUBSET Rows :
      /\ status' = [r \in Rows |-> IF r \in items THEN "sending" ELSE status[r]]
      /\ due' = [r \in Rows |-> IF r \in items THEN TRUE ELSE due[r]]
      /\ isProbe' = [isProbe EXCEPT ![first] = Probe(first)]
      /\ worker' = Holding(first.channel, items)
  BY Taken
<1>2. worker' \in WorkerStates
  BY HoldingType, RowFields
<1>3. isProbe' \in [Rows -> BOOLEAN]
  BY DEF TypeOK, Probe
<1>4. status' \in [Rows -> Status]
  BY DEF TypeOK, Status, Active
<1>5. due' \in [Rows -> BOOLEAN]
  BY DEF TypeOK
<1> QED  BY <1>2, <1>3, <1>4, <1>5 DEF TakeNotificationBatch, TypeOK

LEMMA ResultType ==
  ASSUME TypeOK, NEW v \in Verdicts, NEW t \in BOOLEAN, NEW n \in Nat, Result(v, t, n)
  PROVE /\ worker' \in WorkerStates /\ worker'.verdict = v /\ worker'.revision = n
        /\ worker'.items = worker.items /\ worker'.channel = worker.channel
        /\ worker'.config = chan[worker.channel].config
  BY DEF TypeOK, Result, WorkerStates, Chans

\* What SendNotification finds out.
LEMMA SendResult ==
  ASSUME TypeOK, SendNotification
  PROVE LET ch == chan[worker.channel] IN
        /\ worker' \in WorkerStates /\ faults' \in Nat /\ worker'.verdict # "none"
        /\ worker'.items = worker.items /\ worker'.channel = worker.channel
        /\ worker'.config = ch.config /\ worker'.revision \in {0, ch.revision}
        /\ worker'.verdict \in {"complete", "retry", "block"} =>
              worker'.revision = ch.revision /\ ~ch.deleted
        /\ worker'.verdict = "discard" =>
              \/ worker'.revision = 0 /\ (worker.items \cap Corrupt # {} \/ ch.deleted)
              \/ /\ worker'.revision = ch.revision /\ ~ch.deleted
                 /\ \E r \in worker.items : rtype[r] # ch.type
        /\ worker'.verdict = "complete" => accepted' = accepted \cup worker.items
        /\ worker'.verdict # "complete" => accepted' = accepted
<1> DEFINE ch == chan[worker.channel]
<1>1. ch.revision \in Nat /\ 0 \in Nat /\ ch.deleted \in BOOLEAN /\ ch.enabled \in BOOLEAN
  BY WorkerFields
<1>2. \A v \in {"complete", "retry", "block", "pause", "discard", "requeue"} : v \in Verdicts
  BY DEF Verdicts
<1>3. faults' \in Nat
  <2>1. faults' = faults + 1 \/ faults' = faults
    BY Zenon DEF SendNotification, Fail
  <2> QED  BY <2>1 DEF TypeOK
<1> DEFINE Noted(v, n) == \E t \in BOOLEAN : Result(v, t, n)
<1>4. ASSUME NEW v \in Verdicts, NEW n \in Nat, Noted(v, n)
      PROVE /\ worker' \in WorkerStates /\ worker'.verdict = v /\ worker'.revision = n
            /\ worker'.items = worker.items /\ worker'.channel = worker.channel
            /\ worker'.config = ch.config
  BY <1>4, ResultType
<1>5. \/ worker.items \cap Corrupt # {} /\ Noted("discard", 0) /\ accepted' = accepted
      \/ Noted("requeue", 0) /\ accepted' = accepted
      \/ ch.deleted /\ Noted("discard", 0) /\ accepted' = accepted
      \/ ~ch.deleted /\ Noted("pause", ch.revision) /\ accepted' = accepted
      \/ /\ ~ch.deleted /\ (\E r \in worker.items : rtype[r] # ch.type)
         /\ Noted("discard", ch.revision) /\ accepted' = accepted
      \/ /\ ~ch.deleted /\ Noted("complete", ch.revision)
         /\ accepted' = accepted \cup worker.items
      \/ ~ch.deleted /\ Noted("block", ch.revision) /\ accepted' = accepted
      \/ ~ch.deleted /\ Noted("retry", ch.revision) /\ accepted' = accepted
  BY Zenon DEF SendNotification
<1> HIDE DEF ch, Noted
<1> SUFFICES
        /\ worker' \in WorkerStates /\ worker'.verdict # "none"
        /\ worker'.items = worker.items /\ worker'.channel = worker.channel
        /\ worker'.config = ch.config /\ worker'.revision \in {0, ch.revision}
        /\ worker'.verdict \in {"complete", "retry", "block"} =>
              worker'.revision = ch.revision /\ ~ch.deleted
        /\ worker'.verdict = "discard" =>
              \/ worker'.revision = 0 /\ (worker.items \cap Corrupt # {} \/ ch.deleted)
              \/ /\ worker'.revision = ch.revision /\ ~ch.deleted
                 /\ \E r \in worker.items : rtype[r] # ch.type
        /\ worker'.verdict = "complete" => accepted' = accepted \cup worker.items
        /\ worker'.verdict # "complete" => accepted' = accepted
  BY <1>3 DEF ch
<1> QED  BY <1>1, <1>2, <1>4, <1>5

LEMMA SendType == ASSUME TypeOK, SendNotification PROVE TypeOK'
<1>1. worker' \in WorkerStates /\ faults' \in Nat
  BY SendResult
<1>2. accepted' \subseteq Rows
  BY SendResult, WorkerFields DEF TypeOK
<1> QED  BY <1>1, <1>2 DEF SendNotification, TypeOK

LEMMA ReleaseType ==
  ASSUME TypeOK, NEW to \in Status, NEW d \in BOOLEAN, NEW n \in BOOLEAN, Release(to, d, n)
  PROVE /\ status' \in [Rows -> Status] /\ due' \in [Rows -> BOOLEAN]
        /\ attempts' \in [Rows -> 0..RetryLimit] /\ isProbe' \in [Rows -> BOOLEAN]
        /\ rtype' \in [Rows -> Types]
  BY CountedType DEF Release, TypeOK

LEMMA ObserveType ==
  ASSUME TypeOK, NEW c \in Channels, NEW s \in {"none", "ok", "failing"}, NEW n \in Nat,
         Observe(c, s, n)
  PROVE health' \in [Channels -> Healths]
  BY DEF Observe, TypeOK, Healths

LEMMA CompleteType ==
  ASSUME TypeOK, NEW c \in Channels, NEW ch, CompleteNotification(c, ch)
  PROVE /\ status' \in [Rows -> Status] /\ due' \in [Rows -> BOOLEAN]
        /\ attempts' \in [Rows -> 0..RetryLimit] /\ isProbe' \in [Rows -> BOOLEAN]
        /\ rtype' \in [Rows -> Types] /\ health' \in [Channels -> Healths]
<1> DEFINE current == ~ch.deleted /\ ~channelVersionChanged(ch, worker.revision)
           woken == IF current THEN RowsOf(c, {"blocked"}) ELSE {}
<1> HIDE DEF current, woken
<1>1. /\ status' = [r \in Rows |-> IF r \in worker.items THEN "sent"
                                    ELSE IF r \in woken THEN "retry" ELSE status[r]]
      /\ due' = [r \in Rows |-> IF r \in woken THEN TRUE ELSE due[r]]
      /\ attempts' = [r \in Rows |-> IF r \in woken THEN 0
                                      ELSE IF r \in worker.items THEN Counted(r)
                                      ELSE attempts[r]]
      /\ isProbe' = [r \in Rows |-> IF r \in worker.items \cup woken THEN FALSE
                                     ELSE isProbe[r]]
      /\ rtype' = rtype
      /\ IF current THEN Observe(c, "ok", worker.config) ELSE health' = health
  BY DEF CompleteNotification, current, woken
<1>2. status' \in [Rows -> Status]
  BY <1>1 DEF TypeOK, Status, Active
<1>3. due' \in [Rows -> BOOLEAN] /\ isProbe' \in [Rows -> BOOLEAN]
  BY <1>1 DEF TypeOK
<1>4. attempts' \in [Rows -> 0..RetryLimit]
  BY <1>1, CountedType DEF TypeOK
<1>5. health' \in [Channels -> Healths]
  <2>1. CASE current
    BY <1>1, <2>1, ObserveType, WorkerFields
  <2>2. CASE ~current
    BY <1>1, <2>2 DEF TypeOK
  <2> QED  BY <2>1, <2>2
<1> QED  BY <1>1, <1>2, <1>3, <1>4, <1>5 DEF TypeOK

LEMMA FailedAsType ==
  ASSUME NEW ch, NEW n
  PROVE /\ FailedAs(ch, n, "failed") \in {"discarded", "paused", "retry", "failed"}
        /\ PausedAs(ch) \in {"discarded", "paused", "retry"}
        /\ DiscardedAs(ch, n) \in {"discarded", "retry"}
        /\ {"discarded", "paused", "retry", "blocked"} \subseteq Status
  BY DEF FailedAs, PausedAs, DiscardedAs, Status, Active

LEMMA BlockType ==
  ASSUME TypeOK, NEW c \in Channels, NEW ch, BlockNotification(c, ch)
  PROVE /\ status' \in [Rows -> Status] /\ due' \in [Rows -> BOOLEAN]
        /\ attempts' \in [Rows -> 0..RetryLimit] /\ isProbe' \in [Rows -> BOOLEAN]
        /\ rtype' \in [Rows -> Types] /\ health' \in [Channels -> Healths]
<1> DEFINE to == FailedAs(ch, worker.revision, "failed")
           backlog == worker.items \cup RowsOf(c, {"pending", "retry", "blocked"})
<1>1. CASE to # "failed"
  <2>1. Release(to, TRUE, FALSE) /\ health' = health /\ to \in Status
    BY <1>1, FailedAsType DEF BlockNotification
  <2> HIDE DEF to
  <2> QED  BY <2>1, ReleaseType DEF TypeOK
<1>2. CASE to = "failed"
  <2> HIDE DEF backlog
  <2>1. /\ status' = [r \in Rows |-> IF r \in backlog THEN "blocked" ELSE status[r]]
        /\ due' = [r \in Rows |-> IF r \in backlog THEN FALSE ELSE due[r]]
        /\ attempts' = [r \in Rows |-> IF r \in worker.items THEN Counted(r) ELSE attempts[r]]
        /\ isProbe' = [r \in Rows |-> IF r \in backlog THEN FALSE ELSE isProbe[r]]
        /\ rtype' = rtype
        /\ Observe(c, "failing", worker.config)
    BY <1>2 DEF BlockNotification, backlog
  <2>2. status' \in [Rows -> Status]
    BY <2>1 DEF TypeOK, Status, Active
  <2>3. due' \in [Rows -> BOOLEAN] /\ isProbe' \in [Rows -> BOOLEAN]
    BY <2>1 DEF TypeOK
  <2>4. attempts' \in [Rows -> 0..RetryLimit]
    BY <2>1, CountedType DEF TypeOK
  <2>5. health' \in [Channels -> Healths]
    BY <2>1, ObserveType, WorkerFields
  <2> QED  BY <2>1, <2>2, <2>3, <2>4, <2>5 DEF TypeOK
<1> QED  BY <1>1, <1>2

LEMMA RecordType == ASSUME TypeOK, RecordResult PROVE TypeOK'
<1> DEFINE c == worker.channel
           ch == chan[c]
           Rest == /\ status' \in [Rows -> Status] /\ due' \in [Rows -> BOOLEAN]
                   /\ attempts' \in [Rows -> 0..RetryLimit] /\ isProbe' \in [Rows -> BOOLEAN]
                   /\ rtype' \in [Rows -> Types] /\ health' \in [Channels -> Healths]
<1>1. c \in Channels
  BY WorkerFields
<1>2. worker' \in WorkerStates
  BY <1>1, HoldingType DEF RecordResult, Idle
<1>3. health \in [Channels -> Healths]
  BY DEF TypeOK
<1> SUFFICES Rest
  BY <1>2 DEF RecordResult, TypeOK
<1>4. CASE CompleteNotification(c, ch)
  BY <1>1, <1>4, CompleteType
<1>5. CASE RetryNotification(c, ch)
  <2> DEFINE to == FailedAs(ch, worker.revision, "failed")
  <2>1. CASE to # "failed"
    <3>1. Release(to, TRUE, FALSE) /\ health' = health /\ to \in Status
      BY <1>5, <2>1, FailedAsType DEF RetryNotification
    <3> HIDE DEF to
    <3> QED  BY <1>3, <3>1, ReleaseType
  <2>2. CASE to = "failed"
    <3>1. Release("retry", FALSE, TRUE) /\ Observe(c, "failing", worker.config)
      BY <1>5, <2>2 DEF RetryNotification
    <3>2. health' \in [Channels -> Healths]
      BY <1>1, <3>1, ObserveType, WorkerFields
    <3>3. "retry" \in Status
      BY DEF Status, Active
    <3> HIDE DEF c, ch, to
    <3> QED  BY <3>1, <3>2, <3>3, ReleaseType
  <2> QED  BY <2>1, <2>2
<1>6. CASE BlockNotification(c, ch)
  BY <1>1, <1>6, BlockType
<1>7. CASE PauseNotification(ch)
  <2> DEFINE to == PausedAs(ch)
  <2>1. Release(to, TRUE, FALSE) /\ health' = health /\ to \in Status
    BY <1>7, FailedAsType DEF PauseNotification
  <2> HIDE DEF to
  <2> QED  BY <1>3, <2>1, ReleaseType
<1>8. CASE DiscardNotification(ch)
  <2> DEFINE to == DiscardedAs(ch, worker.revision)
  <2>1. Release(to, TRUE, FALSE) /\ health' = health /\ to \in Status
    BY <1>8, FailedAsType DEF DiscardNotification
  <2> HIDE DEF to
  <2> QED  BY <1>3, <2>1, ReleaseType
<1>9. CASE RequeueNotification
  <2>1. /\ Release("blocked", FALSE, FALSE) \/ Release("retry", FALSE, FALSE)
        /\ health' = health /\ "blocked" \in Status /\ "retry" \in Status
    BY <1>9 DEF RequeueNotification, Status, Active
  <2> QED  BY <1>3, <2>1, ReleaseType
<1> QED  BY <1>4, <1>5, <1>6, <1>7, <1>8, <1>9 DEF RecordResult

LEMMA WakeType ==
  ASSUME TypeOK, NEW c \in Channels, NEW S,
         WakeRows(c, S) \/ PauseRows(c) \/ DiscardRows(c) \/ UNCHANGED rowVars
  PROVE /\ status' \in [Rows -> Status] /\ due' \in [Rows -> BOOLEAN]
        /\ attempts' \in [Rows -> 0..RetryLimit] /\ isProbe' \in [Rows -> BOOLEAN]
        /\ rtype' \in [Rows -> Types]
<1>1. CASE WakeRows(c, S)
  <2> DEFINE rows == RowsOf(c, S)
  <2> HIDE DEF rows
  <2>1. /\ status' = [r \in Rows |-> IF r \in rows THEN "retry" ELSE status[r]]
        /\ due' = [r \in Rows |-> IF r \in rows THEN TRUE ELSE due[r]]
        /\ attempts' = [r \in Rows |-> IF r \in rows THEN 0 ELSE attempts[r]]
        /\ isProbe' = [r \in Rows |-> IF r \in rows THEN FALSE ELSE isProbe[r]]
        /\ rtype' = rtype
    BY <1>1 DEF WakeRows, rows
  <2>2. status' \in [Rows -> Status]
    BY <2>1 DEF TypeOK, Status, Active
  <2>3. attempts' \in [Rows -> 0..RetryLimit]
    BY <2>1 DEF TypeOK
  <2>4. due' \in [Rows -> BOOLEAN] /\ isProbe' \in [Rows -> BOOLEAN]
    BY <2>1 DEF TypeOK
  <2> QED  BY <2>1, <2>2, <2>3, <2>4 DEF TypeOK
<1>2. CASE PauseRows(c)
  BY <1>2 DEF PauseRows, TypeOK, Status, Active
<1>3. CASE DiscardRows(c)
  BY <1>3 DEF DiscardRows, TypeOK, Status, Active
<1>4. CASE UNCHANGED rowVars
  BY <1>4 DEF TypeOK
<1> QED  BY <1>1, <1>2, <1>3, <1>4

\* What an administrator may do to the rows of a channel.
Rearrange(c) ==
    \/ DiscardRows(c) \/ PauseRows(c) \/ WakeRows(c, {"blocked"})
    \/ WakeRows(c, {"retry", "blocked", "paused"})
    \/ WakeRows(c, {"pending", "retry", "blocked", "paused"})
    \/ UNCHANGED rowVars

LEMMA RearrangeType ==
  ASSUME TypeOK, NEW c \in Channels, Rearrange(c)
  PROVE /\ status' \in [Rows -> Status] /\ due' \in [Rows -> BOOLEAN]
        /\ attempts' \in [Rows -> 0..RetryLimit] /\ isProbe' \in [Rows -> BOOLEAN]
        /\ rtype' \in [Rows -> Types]
  BY WakeType DEF Rearrange

LEMMA ChannelType ==
  ASSUME TypeOK, NEW c \in Channels, NEW enabled \in BOOLEAN, NEW deleted \in BOOLEAN,
         NEW type \in Types, NEW revision \in Nat, NEW config \in Nat,
         chan' = [chan EXCEPT ![c] = [enabled |-> enabled, deleted |-> deleted, type |-> type,
                                      revision |-> revision, config |-> config]]
  PROVE /\ chan' \in [Channels -> Chans]
        /\ chan'[c].enabled = enabled /\ chan'[c].deleted = deleted /\ chan'[c].type = type
        /\ chan'[c].revision = revision /\ chan'[c].config = config
        /\ \A d \in Channels \ {c} : chan'[d] = chan[d]
  BY DEF TypeOK, Chans

LEMMA AdministerType == ASSUME TypeOK, NEW c \in Channels, Administer(c) PROVE TypeOK'
<1> USE DEF Chans
<1>0. /\ chan[c].revision \in Nat /\ chan[c].config \in Nat /\ chan[c].type \in Types
      /\ chan[c].enabled \in BOOLEAN /\ chan[c].revision + 1 \in Nat /\ chan[c].config + 1 \in Nat
  BY WorkerFields
<1>n. Unobserved(c) => health' \in [Channels -> Healths]
  BY DEF Unobserved, TypeOK, Healths
<1>1. ASSUME NEW type \in Types, NEW enabled \in BOOLEAN, CreateChannel(c, type, enabled)
      PROVE TypeOK'
  BY <1>1, ChannelType DEF CreateChannel, TypeOK
<1>2. ASSUME NEW type \in Types, NEW enabled \in BOOLEAN, ReplaceChannel(c, type, enabled)
      PROVE TypeOK'
  <2>1. chan' \in [Channels -> Chans]
    BY <1>0, <1>2, ChannelType DEF ReplaceChannel
  <2>2. Rearrange(c)
    BY <1>2 DEF ReplaceChannel, Rearrange
  <2> QED  BY <1>2, <1>n, <2>1, <2>2, RearrangeType DEF ReplaceChannel, TypeOK
<1>3. CASE UpdateChannelConfig(c)
  <2>1. chan' \in [Channels -> Chans]
    BY <1>0, <1>3, ChannelType DEF UpdateChannelConfig
  <2>2. Rearrange(c)
    BY <1>3 DEF UpdateChannelConfig, Rearrange
  <2> QED  BY <1>3, <1>n, <2>1, <2>2, RearrangeType DEF UpdateChannelConfig, TypeOK
<1>4. CASE SetChannelEnabled(c)
  <2>1. chan' \in [Channels -> Chans]
    BY <1>0, <1>4, ChannelType DEF SetChannelEnabled
  <2>2. Rearrange(c)
    BY <1>4 DEF SetChannelEnabled, Rearrange
  <2> QED  BY <1>4, <2>1, <2>2, RearrangeType DEF SetChannelEnabled, TypeOK
<1>5. CASE DeleteChannel(c)
  <2>1. chan' \in [Channels -> Chans]
    BY <1>0, <1>5, ChannelType DEF DeleteChannel
  <2>2. Rearrange(c)
    BY <1>5 DEF DeleteChannel, Rearrange
  <2> QED  BY <1>5, <2>1, <2>2, RearrangeType DEF DeleteChannel, TypeOK
<1>6. CASE TestChannel(c)
  <2>1. tester' \in [Channels -> Testers]
    BY <1>0, <1>6 DEF TestChannel, TypeOK, Testers
  <2> QED  BY <1>6, <2>1 DEF TestChannel, TypeOK
<1>7. CASE RecordTest(c)
  <2>1. tester' \in [Channels -> Testers]
    BY <1>7 DEF RecordTest, TypeOK, Testers, NoTest
  <2>2. Rearrange(c)
    BY <1>7, Zenon DEF RecordTest, Rearrange
  <2>3. health' \in [Channels -> Healths]
    <3>1. \/ Observe(c, "ok", tester[c].config) \/ Observe(c, "failing", tester[c].config)
          \/ health' = health
      BY <1>7, Zenon DEF RecordTest
    <3> QED  BY <3>1, ObserveType, WorkerFields DEF TypeOK
  <2> QED  BY <1>7, <2>1, <2>2, <2>3, RearrangeType DEF RecordTest, TypeOK
<1> QED  BY <1>1, <1>2, <1>3, <1>4, <1>5, <1>6, <1>7 DEF Administer

LEMMA TypeNext == ASSUME TypeOK, [Next]_vars PROVE TypeOK'
<1>1. ASSUME NEW r \in Rows, Tick(r) PROVE TypeOK'
  BY <1>1 DEF Tick, TypeOK
<1>2. CASE StoreFails \/ Crash
  <2>1. worker' \in WorkerStates
    BY <1>2, HoldingType, WorkerFields DEF StoreFails, Crash, Idle
  <2>2. CASE StoreFails
    BY <2>1, <2>2 DEF StoreFails, Fail, TypeOK
  <2>3. CASE Crash
    BY <2>1, <2>3 DEF Crash, Fail, TypeOK, NoTargets, NoTest, Testers
  <2> QED  BY <1>2, <2>2, <2>3
<1>3. CASE UNCHANGED vars
  BY <1>3 DEF vars, TypeOK
<1> QED
  BY <1>1, <1>2, <1>3, EnqueueType, TakeType, SendType, RecordType, AdministerType
  DEF Next, Deliver

-----------------------------------------------------------------------------
(* Invariance *)

Queued == {"pending", "retry", "blocked", "paused"}

\* Rows that change do so among the rows waiting on channel c.
Moved(c) ==
    \A r \in Rows :
        \/ status'[r] = status[r]
        \/ r.channel = c /\ status[r] \in Queued /\ status'[r] \in {"retry", "paused", "discarded"}

LEMMA InvInit == Init => Inv
<1> SUFFICES ASSUME Init PROVE Inv
  OBVIOUS
<1> PICK c \in Channels : worker = Idle(c)
  BY DEF Init
<1>1. /\ worker \in WorkerStates /\ worker.items = {} /\ worker.channel = c
      /\ worker.verdict = "none" /\ worker.revision = 0
  BY HoldingType DEF Idle
<1>2. TypeOK
  BY <1>1 DEF Init, TypeOK, NoTargets, NoTest, Testers, Healths, NoChannel, Chans, Types, Status
<1>3. OneBatchInFlight /\ AcceptedIsFinal /\ UniformBatch
  BY <1>1 DEF Init, OneBatchInFlight, AcceptedIsFinal, UniformBatch
<1>4. RecoveryAfterTrigger /\ PausedMeansDisabled /\ ClosedAfterEvent
  BY DEF Init, RecoveryAfterTrigger, PausedMeansDisabled, ClosedAfterEvent
<1>5. HealthIsOfThisConfig /\ OnlyCreatedChannels /\ TestOfRevision
  BY RowFields DEF Init, HealthIsOfThisConfig, OnlyCreatedChannels, TestOfRevision, NoTargets, NoTest,
         NoChannel
<1>6. ResultOfRevision
  BY <1>1 DEF Init, ResultOfRevision, NoChannel
<1> QED  BY <1>2, <1>3, <1>4, <1>5, <1>6 DEF Inv

LEMMA Rearranged ==
  ASSUME TypeOK, NEW c \in Channels, Rearrange(c)
  PROVE Moved(c) /\ rtype' = rtype
<1> USE DEF Moved, Queued, RowsOf, PausedStatuses
<1>1. CASE DiscardRows(c)
  BY <1>1 DEF DiscardRows
<1>2. CASE PauseRows(c)
  BY <1>2 DEF PauseRows
<1>3. ASSUME NEW S \in SUBSET Queued, WakeRows(c, S) PROVE Moved(c) /\ rtype' = rtype
  BY <1>3 DEF WakeRows
<1> QED  BY <1>1, <1>2, <1>3 DEF Rearrange

\* Steps that leave the worker and the events alone and move waiting rows.
LEMMA MovedKeeps ==
  ASSUME Inv, NEW c \in Channels, Moved(c), rtype' = rtype,
         worker' = worker, event' = event, accepted' = accepted
  PROVE /\ OneBatchInFlight' /\ RecoveryAfterTrigger' /\ AcceptedIsFinal'
        /\ ClosedAfterEvent' /\ UniformBatch'
<1>0. worker.items \subseteq Rows /\ accepted \subseteq Rows
  BY DEF Inv, TypeOK, WorkerStates
<1>1. OneBatchInFlight'
  BY <1>0 DEF Inv, OneBatchInFlight, Moved, Queued
<1>2. RecoveryAfterTrigger'
  <2> SUFFICES ASSUME NEW q \in Rows, NEW r \in Rows, q.event = r.event, q.channel = r.channel,
                      q.transition = "opened", r.transition = "closed",
                      status'[r] \in {"sending", "sent"}
               PROVE status'[q] \notin Active
    BY DEF RecoveryAfterTrigger
  <2>1. status[r] \in {"sending", "sent"}
    BY DEF Moved
  <2>2. status[q] \notin Active
    BY <2>1 DEF Inv, RecoveryAfterTrigger
  <2> QED  BY <2>2 DEF Moved, Queued, Active
<1>3. AcceptedIsFinal'
  BY <1>0 DEF Inv, AcceptedIsFinal, Moved, Queued
<1>4. ClosedAfterEvent'
  BY DEF Inv, ClosedAfterEvent, Moved, Queued
<1>5. UniformBatch'
  BY DEF Inv, UniformBatch
<1> QED  BY <1>1, <1>2, <1>3, <1>4, <1>5

\* A change of a channel makes every result observed before it an old one.
LEMMA RevisedKeeps ==
  ASSUME Inv, NEW c \in Channels, rtype' = rtype, worker' = worker, tester' = tester,
         chan'[c].revision = chan[c].revision + 1,
         chan[c].revision = 0 \/ ~chan[c].deleted,
         \A d \in Channels \ {c} : chan'[d] = chan[d]
  PROVE ResultOfRevision' /\ TestOfRevision'
<1>0. /\ worker.channel \in Channels /\ worker.revision \in Nat
      /\ \A d \in Channels : chan[d].revision \in Nat /\ tester[d].revision \in Nat
  BY WorkerFields DEF Inv
<1>1. TestOfRevision'
  <2> SUFFICES ASSUME NEW d \in Channels, tester[d].busy
               PROVE /\ tester[d].revision # 0 /\ tester[d].revision <= chan'[d].revision
                     /\ tester[d].revision = chan'[d].revision =>
                           tester[d].config = chan'[d].config
    BY DEF TestOfRevision
  <2>1. CASE d = c
    BY <1>0, <2>1 DEF Inv, TestOfRevision
  <2>2. CASE d # c
    BY <2>2 DEF Inv, TestOfRevision
  <2> QED  BY <2>1, <2>2
<1>2. ResultOfRevision'
  <2>1. CASE worker.channel = c
    <3>1. worker.revision <= chan[c].revision
      BY <2>1 DEF Inv, ResultOfRevision
    <3>2. worker.revision < chan'[c].revision
      BY <1>0, <3>1
    <3>3. worker.verdict = "discard" /\ worker.revision = 0 => worker.items \subseteq Corrupt
      <4> SUFFICES ASSUME worker.verdict = "discard", worker.revision = 0,
                          NEW r \in worker.items
                   PROVE r \in Corrupt
        OBVIOUS
      <4>1. r \in Rows /\ status[r] = "sending" /\ r.channel = c
        BY <2>1 DEF Inv, TypeOK, WorkerStates, OneBatchInFlight
      <4>2. ~chan[c].deleted
        BY <4>1 DEF Inv, OnlyCreatedChannels
      <4> QED  BY <2>1, <4>2 DEF Inv, ResultOfRevision
    <3> QED  BY <1>0, <2>1, <3>2, <3>3 DEF Inv, ResultOfRevision
  <2>2. CASE worker.channel # c
    BY <1>0, <2>2 DEF Inv, ResultOfRevision
  <2> QED  BY <2>1, <2>2
<1> QED  BY <1>1, <1>2

LEMMA RevisedInv ==
  ASSUME Inv, TypeOK', NEW c \in Channels, Moved(c), rtype' = rtype,
         worker' = worker, tester' = tester, event' = event, accepted' = accepted,
         targets' = targets,
         chan'[c].revision = chan[c].revision + 1,
         chan[c].revision = 0 \/ ~chan[c].deleted,
         \A d \in Channels \ {c} : chan'[d] = chan[d] /\ health'[d] = health[d],
         health'[c].state # "none" => health'[c].config = chan'[c].config,
         \A r \in Rows : r.channel = c /\ status'[r] = "paused" =>
             ~chan'[c].enabled /\ ~chan'[c].deleted
  PROVE Inv'
<1>0. chan[c].revision \in Nat
  BY WorkerFields DEF Inv
<1>1. PausedMeansDisabled'
  <2> SUFFICES ASSUME NEW r \in Rows, status'[r] = "paused"
               PROVE ~chan'[r.channel].enabled /\ ~chan'[r.channel].deleted
    BY DEF PausedMeansDisabled
  <2>1. CASE r.channel = c
    BY <2>1
  <2>2. CASE r.channel # c
    BY <2>2, RowFields DEF Inv, PausedMeansDisabled, Moved
  <2> QED  BY <2>1, <2>2
<1>2. HealthIsOfThisConfig'
  BY DEF Inv, HealthIsOfThisConfig
<1>3. OnlyCreatedChannels'
  <2>1. \A r \in Rows : status'[r] # "none" => chan'[r.channel].revision # 0
    BY <1>0, RowFields DEF Inv, OnlyCreatedChannels, Moved, Queued
  <2>2. \A d \in Channels : chan'[d].revision = 0 => d # c
    BY <1>0
  <2> QED  BY <2>1, <2>2 DEF Inv, OnlyCreatedChannels
<1> QED  BY <1>1, <1>2, <1>3, MovedKeeps, RevisedKeeps DEF Inv

LEMMA AdministerInv == ASSUME Inv, NEW c \in Channels, Administer(c) PROVE Inv'
<1>0. TypeOK /\ TypeOK'
  BY AdministerType DEF Inv
<1>a. /\ chan[c].revision \in Nat /\ chan[c].config \in Nat /\ chan[c].type \in Types
      /\ chan[c].enabled \in BOOLEAN /\ chan[c].revision + 1 \in Nat /\ chan[c].config + 1 \in Nat
  BY <1>0, WorkerFields
<1>b. ASSUME Unobserved(c)
      PROVE health'[c].state = "none" /\ \A d \in Channels \ {c} : health'[d] = health[d]
  BY <1>0, <1>b DEF Unobserved, TypeOK, Healths
<1>c. WakeRows(c, {"retry", "blocked", "paused"}) =>
          \A r \in Rows : r.channel = c => status'[r] # "paused"
  BY <1>0 DEF WakeRows, RowsOf, TypeOK
<1>d. WakeRows(c, {"pending", "retry", "blocked", "paused"}) =>
          \A r \in Rows : r.channel = c => status'[r] # "paused"
  BY <1>0 DEF WakeRows, RowsOf, TypeOK
<1>e. DiscardRows(c) => \A r \in Rows : r.channel = c => status'[r] # "paused"
  BY <1>0 DEF DiscardRows, RowsOf, TypeOK
<1>1. ASSUME NEW type \in Types, NEW enabled \in BOOLEAN, CreateChannel(c, type, enabled)
      PROVE Inv'
  <2>1. /\ chan'[c].revision = chan[c].revision + 1 /\ chan[c].revision = 0
        /\ \A d \in Channels \ {c} : chan'[d] = chan[d]
    BY <1>0, <1>1 DEF CreateChannel, TypeOK
  <2>2. health' = health /\ health[c].state = "none"
    BY <1>1, <2>1 DEF CreateChannel, Inv, OnlyCreatedChannels
  <2>3. Moved(c)
    BY <1>1 DEF CreateChannel, Moved
  <2>4. \A r \in Rows : r.channel = c => status'[r] # "paused"
    BY <1>1, <2>1 DEF CreateChannel, Inv, OnlyCreatedChannels
  <2> QED  BY <1>0, <1>1, <2>1, <2>2, <2>3, <2>4, RevisedInv DEF CreateChannel
<1>2. ASSUME NEW type \in Types, NEW enabled \in BOOLEAN, ReplaceChannel(c, type, enabled)
      PROVE Inv'
  <2>1. /\ chan'[c].revision = chan[c].revision + 1 /\ ~chan[c].deleted
        /\ chan'[c].enabled = enabled /\ ~chan'[c].deleted
        /\ \A d \in Channels \ {c} : chan'[d] = chan[d]
    BY <1>0, <1>a, <1>2 DEF ReplaceChannel, Editable, TypeOK
  <2>2. Moved(c) /\ rtype' = rtype
    BY <1>0, <1>2, Rearranged DEF ReplaceChannel, Rearrange
  <2>3. \A r \in Rows : r.channel = c /\ status'[r] = "paused" => ~chan'[c].enabled
    BY <1>2, <1>c, <1>e, <2>1 DEF ReplaceChannel
  <2> QED  BY <1>0, <1>2, <1>b, <2>1, <2>2, <2>3, RevisedInv DEF ReplaceChannel
<1>3. CASE UpdateChannelConfig(c)
  <2>1. /\ chan'[c].revision = chan[c].revision + 1 /\ ~chan[c].deleted
        /\ chan'[c].enabled = chan[c].enabled /\ ~chan'[c].deleted
        /\ \A d \in Channels \ {c} : chan'[d] = chan[d]
    BY <1>0, <1>a, <1>3 DEF UpdateChannelConfig, Editable, TypeOK
  <2>2. Moved(c) /\ rtype' = rtype
    BY <1>0, <1>3, Rearranged DEF UpdateChannelConfig, Rearrange
  <2>3. \A r \in Rows : r.channel = c /\ status'[r] = "paused" => ~chan'[c].enabled
    BY <1>3, <1>c, <2>1 DEF UpdateChannelConfig
  <2> QED  BY <1>0, <1>3, <1>b, <2>1, <2>2, <2>3, RevisedInv DEF UpdateChannelConfig
<1>4. CASE SetChannelEnabled(c)
  <2>1. /\ chan'[c].revision = chan[c].revision + 1 /\ ~chan[c].deleted
        /\ chan'[c].enabled = ~chan[c].enabled /\ ~chan'[c].deleted
        /\ chan'[c].config = chan[c].config
        /\ \A d \in Channels \ {c} : chan'[d] = chan[d]
    BY <1>0, <1>a, <1>4 DEF SetChannelEnabled, Editable, TypeOK
  <2>2. Moved(c) /\ rtype' = rtype
    BY <1>0, <1>4, Rearranged DEF SetChannelEnabled, Rearrange
  <2>3. \A r \in Rows : r.channel = c /\ status'[r] = "paused" => ~chan'[c].enabled
    BY <1>4, <1>d, <2>1 DEF SetChannelEnabled
  <2>4. health' = health /\ (health[c].state # "none" => health[c].config = chan[c].config)
    BY <1>4 DEF SetChannelEnabled, Inv, HealthIsOfThisConfig
  <2> QED  BY <1>0, <1>4, <2>1, <2>2, <2>3, <2>4, RevisedInv DEF SetChannelEnabled
<1>5. CASE DeleteChannel(c)
  <2>1. /\ chan'[c].revision = chan[c].revision + 1 /\ ~chan[c].deleted
        /\ chan'[c].config = chan[c].config
        /\ \A d \in Channels \ {c} : chan'[d] = chan[d]
    BY <1>0, <1>a, <1>5 DEF DeleteChannel, Editable, TypeOK
  <2>2. Moved(c) /\ rtype' = rtype
    BY <1>0, <1>5, Rearranged DEF DeleteChannel, Rearrange
  <2>3. \A r \in Rows : r.channel = c => status'[r] # "paused"
    BY <1>5, <1>e DEF DeleteChannel
  <2>4. health' = health /\ (health[c].state # "none" => health[c].config = chan[c].config)
    BY <1>5 DEF DeleteChannel, Inv, HealthIsOfThisConfig
  <2> QED  BY <1>0, <1>5, <2>1, <2>2, <2>3, <2>4, RevisedInv DEF DeleteChannel
<1>6. CASE TestChannel(c)
  <2>1. TestOfRevision'
    <3>1. chan[c].revision # 0
      BY <1>6 DEF TestChannel, Inv, OnlyCreatedChannels
    <3> QED  BY <1>0, <1>6, <1>a, <3>1 DEF TestChannel, Inv, TestOfRevision, TypeOK, Testers
  <2>2. Moved(c)
    BY <1>6 DEF TestChannel, Moved
  <2>3. PausedMeansDisabled' /\ HealthIsOfThisConfig' /\ OnlyCreatedChannels' /\ ResultOfRevision'
    BY <1>6 DEF TestChannel, Inv, PausedMeansDisabled, HealthIsOfThisConfig, OnlyCreatedChannels,
                ResultOfRevision
  <2> QED  BY <1>0, <1>6, <2>1, <2>2, <2>3, MovedKeeps DEF TestChannel, Inv
<1>7. CASE RecordTest(c)
  <2>1. Moved(c) /\ rtype' = rtype
    <3>1. Rearrange(c)
      BY <1>7, Zenon DEF RecordTest, Rearrange
    <3> QED  BY <1>0, <3>1, Rearranged
  <2>2. TestOfRevision'
    BY <1>0, <1>7 DEF RecordTest, Inv, TestOfRevision, NoTest, TypeOK
  <2>3. WakeRows(c, {"blocked"}) \/ UNCHANGED rowVars
    BY <1>7, Zenon DEF RecordTest
  <2>4. PausedMeansDisabled'
    <3>1. \A r \in Rows : status'[r] = "paused" => status[r] = "paused"
      <4>1. CASE WakeRows(c, {"blocked"})
        BY <4>1 DEF WakeRows
      <4>2. CASE UNCHANGED rowVars
        BY <4>2
      <4> QED  BY <2>3, <4>1, <4>2
    <3> QED  BY <1>7, <3>1 DEF RecordTest, Inv, PausedMeansDisabled
  <2>5. \/ health' = health
        \/ /\ ~chan[c].deleted /\ ~channelVersionChanged(chan[c], tester[c].revision)
           /\ Observe(c, "ok", tester[c].config) \/ Observe(c, "failing", tester[c].config)
    BY <1>7, Zenon DEF RecordTest
  <2>6. health' # health => tester[c].config = chan[c].config /\ chan[c].revision # 0
    <3>1. tester[c].busy
      BY <1>7 DEF RecordTest
    <3> QED  BY <1>0, <2>5, <3>1, WorkerFields
             DEF channelVersionChanged, Inv, TestOfRevision, OnlyCreatedChannels
  <2>7. HealthIsOfThisConfig' /\ OnlyCreatedChannels'
    <3>1. \A r \in Rows : status[r] = "none" => status'[r] = "none"
      BY <2>1 DEF Moved, Queued
    <3>2. CASE health' = health
      BY <1>7, <3>1, <3>2 DEF RecordTest, Inv, HealthIsOfThisConfig, OnlyCreatedChannels
    <3>3. CASE health' # health
      <4>1. /\ health'[c].config = chan[c].config /\ chan[c].revision # 0
            /\ \A d \in Channels \ {c} : health'[d] = health[d]
        BY <1>0, <2>5, <2>6, <3>3 DEF Observe, TypeOK, Healths
      <4> QED  BY <1>7, <3>1, <4>1 DEF RecordTest, Inv, HealthIsOfThisConfig, OnlyCreatedChannels
    <3> QED  BY <3>2, <3>3
  <2>8. ResultOfRevision'
    BY <1>7, <2>1 DEF RecordTest, Inv, ResultOfRevision
  <2> QED  BY <1>0, <1>7, <2>1, <2>2, <2>4, <2>7, <2>8, MovedKeeps DEF RecordTest, Inv
<1> QED  BY <1>1, <1>2, <1>3, <1>4, <1>5, <1>6, <1>7 DEF Administer

\* Steps that change no row's status, no channel and nothing the worker holds.
LEMMA QuietInv ==
  ASSUME Inv, TypeOK', UNCHANGED <<status, rtype, chan, health, event, worker, tester, accepted>>,
         \A c \in Channels : chan[c].revision = 0 => targets'.type[c] = "none"
  PROVE Inv'
<1>1. OneBatchInFlight' /\ RecoveryAfterTrigger' /\ PausedMeansDisabled' /\ HealthIsOfThisConfig'
  BY DEF Inv, OneBatchInFlight, RecoveryAfterTrigger, PausedMeansDisabled, HealthIsOfThisConfig
<1>2. AcceptedIsFinal' /\ OnlyCreatedChannels' /\ ClosedAfterEvent' /\ UniformBatch'
  BY DEF Inv, AcceptedIsFinal, OnlyCreatedChannels, ClosedAfterEvent, UniformBatch
<1>3. ResultOfRevision' /\ TestOfRevision'
  BY DEF Inv, ResultOfRevision, TestOfRevision
<1> QED  BY <1>1, <1>2, <1>3 DEF Inv

\* Enqueueing adds rows that are not in flight; `opened` rows only before the
\* event, when no recovery of it can be anywhere.
LEMMA InsertInv ==
  ASSUME Inv, TypeOK', NEW e \in Events, NEW t \in Transitions, insertNotifications(e, t),
         UNCHANGED <<chan, health, targets, worker, tester, accepted>>,
         t = "opened" => event[e] = "none",
         t = "closed" => event'[e] = "closed",
         \A x \in Events : event[x] = "closed" => event'[x] = "closed"
  PROVE Inv'
<1>0. TypeOK /\ worker.items \subseteq Rows /\ accepted \subseteq Rows
  BY DEF Inv, TypeOK, WorkerStates
<1>1. \A r \in Rows :
         \/ status'[r] = status[r] /\ rtype'[r] = rtype[r]
         \/ /\ status[r] = "none" /\ status'[r] \in {"pending", "blocked"}
            /\ r.event = e /\ r.transition = t /\ targets.type[r.channel] # "none"
  <2> DEFINE new == {r \in Rows : r.event = e /\ r.transition = t /\ status[r] = "none"
                                  /\ targets.type[r.channel] # "none"}
  <2>1. \A r \in Rows : /\ r \notin new => status'[r] = status[r] /\ rtype'[r] = rtype[r]
                        /\ r \in new => status'[r] \in {"pending", "blocked"}
    BY DEF insertNotifications
  <2>2. \A r \in new : /\ status[r] = "none" /\ r.event = e /\ r.transition = t
                       /\ targets.type[r.channel] # "none"
    OBVIOUS
  <2> TAKE r \in Rows
  <2>3. CASE r \in new
    BY <2>1, <2>2, <2>3
  <2>4. CASE r \notin new
    BY <2>1, <2>4
  <2> QED  BY <2>3, <2>4
<1>2. OneBatchInFlight'
  BY <1>0, <1>1 DEF Inv, OneBatchInFlight
<1>3. RecoveryAfterTrigger'
  <2> SUFFICES ASSUME NEW q \in Rows, NEW r \in Rows, q.event = r.event, q.channel = r.channel,
                      q.transition = "opened", r.transition = "closed",
                      status'[r] \in {"sending", "sent"}
               PROVE status'[q] \notin Active
    BY DEF RecoveryAfterTrigger
  <2>1. status[r] \in {"sending", "sent"}
    BY <1>1
  <2>2. status[q] \notin Active /\ event[r.event] = "closed"
    BY <2>1 DEF Inv, RecoveryAfterTrigger, ClosedAfterEvent
  <2>3. status'[q] = status[q]
    BY <1>1, <2>2
  <2> QED  BY <2>2, <2>3
<1>4. PausedMeansDisabled' /\ HealthIsOfThisConfig'
  BY <1>1 DEF Inv, PausedMeansDisabled, HealthIsOfThisConfig
<1>5. AcceptedIsFinal'
  BY <1>0, <1>1 DEF Inv, AcceptedIsFinal
<1>6. OnlyCreatedChannels'
  BY <1>1, RowFields DEF Inv, OnlyCreatedChannels
<1>7. ClosedAfterEvent'
  BY <1>1, RowFields DEF Inv, ClosedAfterEvent
<1>8. \A r \in worker.items : rtype'[r] = rtype[r]
  BY <1>0, <1>1 DEF Inv, OneBatchInFlight
<1>9. UniformBatch' /\ ResultOfRevision' /\ TestOfRevision'
  BY <1>8 DEF Inv, UniformBatch, ResultOfRevision, TestOfRevision
<1> QED  BY <1>2, <1>3, <1>4, <1>5, <1>6, <1>7, <1>9 DEF Inv

LEMMA EnqueueInv == ASSUME Inv, Enqueue PROVE Inv'
<1>0. TypeOK /\ TypeOK'
  BY EnqueueType DEF Inv
<1>1. CASE RefreshTargets
  <2> PICK selected \in SUBSET Channels :
        targets' = [ready |-> TRUE,
                    type |-> [c \in Channels |->
                        IF c \in selected /\ chan[c].enabled /\ ~chan[c].deleted
                        THEN chan[c].type ELSE "none"]]
    BY <1>1 DEF RefreshTargets
  <2>1. \A c \in Channels : chan[c].revision = 0 => targets'.type[c] = "none"
    BY DEF Inv, OnlyCreatedChannels
  <2> QED  BY <1>0, <1>1, <2>1, QuietInv DEF RefreshTargets
<1>2. ASSUME NEW e \in Events, OpenEvent(e) PROVE Inv'
  <2>1. \A x \in Events : event[x] = "closed" => event'[x] = "closed"
    BY <1>0, <1>2 DEF OpenEvent, TypeOK
  <2> QED  BY <1>0, <1>2, <2>1, InsertInv DEF OpenEvent, Transitions
<1>3. ASSUME NEW e \in Events, CloseEvent(e) PROVE Inv'
  <2>1. /\ event'[e] = "closed"
        /\ \A x \in Events : event[x] = "closed" => event'[x] = "closed"
    BY <1>0, <1>3 DEF CloseEvent, TypeOK
  <2>2. CASE insertNotifications(e, "closed")
    BY <1>0, <1>3, <2>1, <2>2, InsertInv DEF CloseEvent, Transitions
  <2>3. CASE UNCHANGED rowVars
    <3>1. ClosedAfterEvent'
      BY <2>1, <2>3, RowFields DEF Inv, ClosedAfterEvent
    <3>2. /\ OneBatchInFlight' /\ RecoveryAfterTrigger' /\ PausedMeansDisabled'
          /\ HealthIsOfThisConfig' /\ AcceptedIsFinal' /\ OnlyCreatedChannels'
      BY <1>3, <2>3 DEF CloseEvent, Inv, OneBatchInFlight, RecoveryAfterTrigger,
         PausedMeansDisabled, HealthIsOfThisConfig, AcceptedIsFinal, OnlyCreatedChannels
    <3>3. UniformBatch' /\ ResultOfRevision' /\ TestOfRevision'
      BY <1>3, <2>3 DEF CloseEvent, Inv, UniformBatch, ResultOfRevision, TestOfRevision
    <3> QED  BY <1>0, <3>1, <3>2, <3>3 DEF Inv
  <2> QED  BY <1>3, <2>2, <2>3 DEF CloseEvent
<1>4. ASSUME NEW e \in Events, EnqueueNotifications(e) PROVE Inv'
  BY <1>0, <1>4, InsertInv DEF EnqueueNotifications, Transitions
<1> QED  BY <1>1, <1>2, <1>3, <1>4 DEF Enqueue

LEMMA TakeInv == ASSUME Inv, TakeNotificationBatch PROVE Inv'
<1>0. TypeOK /\ TypeOK' /\ worker.items = {} /\ accepted \subseteq Rows
  BY TakeType DEF Inv, TakeNotificationBatch, TypeOK
<1> PICK first \in Rows, items \in SUBSET Rows :
          /\ first \in items /\ Claimable(first)
          /\ status[first] # "sending" => \A q \in Rows : status[q] = "sending" => ~Claimable(q)
          /\ items \subseteq {first} \cup Companions(first)
          /\ status' = [r \in Rows |-> IF r \in items THEN "sending" ELSE status[r]]
          /\ due' = [r \in Rows |-> IF r \in items THEN TRUE ELSE due[r]]
          /\ isProbe' = [isProbe EXCEPT ![first] = Probe(first)]
          /\ worker' = Holding(first.channel, items)
  BY <1>0, Taken
<1>1. UNCHANGED <<rtype, chan, health, event, targets, tester, accepted>>
  BY DEF TakeNotificationBatch
<1>2. /\ worker'.items = items /\ worker'.channel = first.channel
      /\ worker'.verdict = "none" /\ worker'.revision = 0
  BY HoldingType, RowFields
<1>3. \A r \in items :
        /\ r.channel = first.channel /\ r.transition = first.transition
        /\ rtype[r] = rtype[first] /\ PredecessorReady(r)
        /\ status[r] \in {"sending", "pending", "retry", "blocked"}
        /\ r # first => r \notin Corrupt /\ first \notin Corrupt
  BY DEF Companions, Claimable
<1>4. \A r \in Rows : status'[r] = IF r \in items THEN "sending" ELSE status[r]
  OBVIOUS
<1>5. \A q \in Rows : status[q] = "sending" => Claimable(q)
  <2> SUFFICES ASSUME NEW q \in Rows, status[q] = "sending" PROVE PredecessorReady(q)
    BY DEF Claimable
  <2> QED  BY DEF Inv, RecoveryAfterTrigger, PredecessorReady
<1>6. \A q \in Rows : status[q] = "sending" =>
          q.channel = first.channel /\ q.transition = first.transition
  BY <1>5 DEF Inv, OneBatchInFlight
<1>7. OneBatchInFlight'
  BY <1>2, <1>3, <1>4, <1>6 DEF OneBatchInFlight
<1>8. RecoveryAfterTrigger'
  <2> SUFFICES ASSUME NEW q \in Rows, NEW r \in Rows, q.event = r.event, q.channel = r.channel,
                      q.transition = "opened", r.transition = "closed",
                      status'[r] \in {"sending", "sent"}
               PROVE status'[q] \notin Active
    BY DEF RecoveryAfterTrigger
  <2>1. status[q] \notin Active
    <3>1. CASE r \in items
      BY <1>3, <3>1 DEF PredecessorReady
    <3>2. CASE r \notin items
      BY <1>4, <3>2 DEF Inv, RecoveryAfterTrigger
    <3> QED  BY <3>1, <3>2
  <2>2. q \notin items
    BY <1>3, <2>1 DEF Active
  <2> QED  BY <1>4, <2>1, <2>2
<1>9. PausedMeansDisabled' /\ HealthIsOfThisConfig'
  BY <1>1, <1>4 DEF Inv, PausedMeansDisabled, HealthIsOfThisConfig
<1>10. AcceptedIsFinal'
  BY <1>0, <1>1, <1>3, <1>4 DEF Inv, AcceptedIsFinal
<1>11. OnlyCreatedChannels' /\ ClosedAfterEvent'
  BY <1>1, <1>3, <1>4 DEF Inv, OnlyCreatedChannels, ClosedAfterEvent
<1>12. UniformBatch'
  BY <1>1, <1>2, <1>3 DEF UniformBatch
<1>13. ResultOfRevision'
  <2>1. chan[first.channel].revision \in Nat
    BY <1>0, RowFields, WorkerFields
  <2> QED  BY <1>1, <1>2, <2>1 DEF ResultOfRevision
<1>14. TestOfRevision'
  BY <1>1 DEF Inv, TestOfRevision
<1> QED  BY <1>0, <1>7, <1>8, <1>9, <1>10, <1>11, <1>12, <1>13, <1>14 DEF Inv

LEMMA SendInv == ASSUME Inv, SendNotification PROVE Inv'
<1> DEFINE ch == chan[worker.channel]
<1>0. TypeOK /\ TypeOK' /\ worker.items # {} /\ worker.verdict = "none"
  BY SendType DEF Inv, SendNotification
<1>1. UNCHANGED <<rowVars, chan, health, event, targets, tester>>
  BY DEF SendNotification
<1>2. /\ worker'.items = worker.items /\ worker'.channel = worker.channel
      /\ worker'.config = ch.config /\ worker'.revision \in {0, ch.revision}
      /\ worker'.verdict \in {"complete", "retry", "block"} =>
            worker'.revision = ch.revision /\ ~ch.deleted
      /\ worker'.verdict = "discard" =>
            \/ worker'.revision = 0 /\ (worker.items \cap Corrupt # {} \/ ch.deleted)
            \/ /\ worker'.revision = ch.revision /\ ~ch.deleted
               /\ \E r \in worker.items : rtype[r] # ch.type
      /\ worker'.verdict = "complete" => accepted' = accepted \cup worker.items
      /\ worker'.verdict # "complete" => accepted' = accepted
  BY <1>0, SendResult
<1>3. worker.channel \in Channels /\ ch.revision \in Nat
  BY <1>0, WorkerFields
<1>4. OneBatchInFlight' /\ RecoveryAfterTrigger' /\ PausedMeansDisabled' /\ HealthIsOfThisConfig'
  BY <1>1, <1>2 DEF Inv, OneBatchInFlight, RecoveryAfterTrigger, PausedMeansDisabled,
                    HealthIsOfThisConfig
<1>5. OnlyCreatedChannels' /\ ClosedAfterEvent' /\ TestOfRevision' /\ UniformBatch'
  BY <1>1, <1>2 DEF Inv, OnlyCreatedChannels, ClosedAfterEvent, TestOfRevision, UniformBatch
<1>6. AcceptedIsFinal'
  BY <1>0, <1>1, <1>2 DEF Inv, AcceptedIsFinal
<1>7. ResultOfRevision'
  <2>1. ~ch.deleted => ch.revision # 0
    BY <1>3 DEF Inv, OnlyCreatedChannels
  <2>2. worker.items \cap Corrupt # {} => worker.items \subseteq Corrupt
    BY DEF Inv, UniformBatch
  <2>3. ASSUME NEW q \in worker.items, rtype[q] # ch.type
        PROVE \A r \in worker.items : rtype[r] # ch.type
    BY <2>3 DEF Inv, UniformBatch
  <2> HIDE DEF ch
  <2>4. /\ worker'.revision <= ch.revision
        /\ worker'.verdict \in {"complete", "retry", "block"} => worker'.revision # 0
        /\ worker'.verdict = "discard" /\ worker'.revision = 0 =>
              worker.items \subseteq Corrupt \/ ch.deleted
        /\ worker'.verdict = "discard" /\ worker'.revision # 0 =>
              \A r \in worker.items : rtype[r] # ch.type
    BY <1>2, <1>3, <2>1, <2>2, <2>3
  <2>5. ch' = ch /\ rtype' = rtype
    BY <1>1, <1>2 DEF ch
  <2> QED  BY <1>1, <1>2, <2>4, <2>5 DEF ResultOfRevision, ch
<1> QED  BY <1>0, <1>4, <1>5, <1>6, <1>7 DEF Inv

\* Recording a result: the rows in flight leave `sending`, waiting rows of the
\* channel may be woken or blocked, and health changes only by a result of the
\* present revision.
LEMMA RecordedInv ==
  ASSUME Inv, TypeOK', worker' = Idle(worker.channel),
         UNCHANGED <<rtype, chan, event, targets, tester, accepted>>,
         NEW to \in {"sent", "retry", "blocked", "paused", "discarded"},
         \A r \in worker.items : status'[r] = to,
         \A r \in Rows \ worker.items :
             \/ status'[r] = status[r]
             \/ status[r] \in {"pending", "retry", "blocked"} /\ status'[r] \in {"retry", "blocked"},
         worker.verdict = "complete" => to = "sent",
         to = "paused" => ~chan[worker.channel].enabled /\ ~chan[worker.channel].deleted,
         \/ health' = health
         \/ /\ worker.verdict \in {"complete", "retry", "block"}
            /\ ~chan[worker.channel].deleted
            /\ ~channelVersionChanged(chan[worker.channel], worker.revision)
            /\ \E state \in {"ok", "failing"} : Observe(worker.channel, state, worker.config)
  PROVE Inv'
<1> DEFINE c == worker.channel
<1>0. /\ TypeOK /\ c \in Channels /\ worker.items \subseteq Rows /\ accepted \subseteq Rows
      /\ \A d \in Channels : chan[d].revision \in Nat
      /\ worker.revision \in Nat /\ worker.config \in Nat
  BY WorkerFields DEF Inv, TypeOK
<1>1. /\ worker'.items = {} /\ worker'.channel = c /\ worker'.verdict = "none"
      /\ worker'.revision = 0
  BY <1>0, HoldingType DEF Idle
<1>2. \A r \in worker.items : status[r] = "sending" /\ r.channel = c
  BY DEF Inv, OneBatchInFlight
<1>3. OneBatchInFlight'
  <2>1. \A r \in Rows : status'[r] = "sending" => status[r] = "sending"
    BY <1>2
  <2> QED  BY <1>1, <2>1 DEF Inv, OneBatchInFlight
<1>4. RecoveryAfterTrigger'
  <2> SUFFICES ASSUME NEW q \in Rows, NEW r \in Rows, q.event = r.event, q.channel = r.channel,
                      q.transition = "opened", r.transition = "closed",
                      status'[r] \in {"sending", "sent"}
               PROVE status'[q] \notin Active
    BY DEF RecoveryAfterTrigger
  <2>1. status[r] \in {"sending", "sent"}
    BY <1>2
  <2>2. status[q] \notin Active
    BY <2>1 DEF Inv, RecoveryAfterTrigger
  <2>3. q \notin worker.items
    BY <1>2, <2>2 DEF Active
  <2> QED  BY <2>2, <2>3 DEF Active
<1>5. PausedMeansDisabled'
  BY <1>2 DEF Inv, PausedMeansDisabled
<1>6. HealthIsOfThisConfig' /\ OnlyCreatedChannels'
  <2>1. \A r \in Rows : status[r] = "none" => status'[r] = "none"
    BY <1>2
  <2>2. CASE health' = health
    BY <2>1, <2>2 DEF Inv, HealthIsOfThisConfig, OnlyCreatedChannels
  <2>3. CASE health' # health
    <3>1. /\ worker.verdict \in {"complete", "retry", "block"} /\ ~chan[c].deleted
          /\ ~channelVersionChanged(chan[c], worker.revision)
      BY <2>3
    <3>2. worker.config = chan[c].config
      BY <1>0, <3>1 DEF Inv, ResultOfRevision, channelVersionChanged
    <3>3. chan[c].revision # 0
      BY <1>0, <3>1 DEF Inv, OnlyCreatedChannels
    <3>4. /\ health'[c].config = chan[c].config
          /\ \A d \in Channels \ {c} : health'[d] = health[d]
      BY <1>0, <2>3, <3>2 DEF Observe, TypeOK, Healths
    <3> QED  BY <2>1, <3>3, <3>4 DEF Inv, HealthIsOfThisConfig, OnlyCreatedChannels
  <2> QED  BY <2>2, <2>3
<1>7. AcceptedIsFinal'
  BY <1>0, <1>2 DEF Inv, AcceptedIsFinal
<1>8. ClosedAfterEvent'
  BY <1>2 DEF Inv, ClosedAfterEvent
<1>9. UniformBatch' /\ ResultOfRevision' /\ TestOfRevision'
  BY <1>0, <1>1 DEF Inv, UniformBatch, ResultOfRevision, TestOfRevision
<1> QED  BY <1>3, <1>4, <1>5, <1>6, <1>7, <1>8, <1>9 DEF Inv

LEMMA Released ==
  ASSUME TypeOK, NEW to, NEW d, NEW n, Release(to, d, n)
  PROVE /\ \A r \in worker.items : status'[r] = to
        /\ \A r \in Rows \ worker.items : status'[r] = status[r]
        /\ rtype' = rtype
  BY WorkerFields DEF Release

LEMMA RecordInv == ASSUME Inv, RecordResult PROVE Inv'
<1> DEFINE c == worker.channel
           ch == chan[c]
<1>0. TypeOK /\ TypeOK' /\ c \in Channels /\ worker.items \subseteq Rows
  BY RecordType, WorkerFields DEF Inv
<1>a. worker' = Idle(c) /\ UNCHANGED <<chan, event, targets, tester, accepted>>
  BY DEF RecordResult
<1>b. ASSUME NEW t \in {"retry", "blocked", "paused", "discarded"}, NEW d, NEW n,
             Release(t, d, n), worker.verdict # "complete",
             t = "paused" => ~ch.enabled /\ ~ch.deleted,
             \/ health' = health
             \/ /\ worker.verdict \in {"complete", "retry", "block"}
                /\ ~ch.deleted /\ ~channelVersionChanged(ch, worker.revision)
                /\ \E state \in {"ok", "failing"} : Observe(c, state, worker.config)
      PROVE Inv'
  <2>1. /\ \A r \in worker.items : status'[r] = t
        /\ \A r \in Rows \ worker.items : status'[r] = status[r]
        /\ rtype' = rtype
    BY <1>0, <1>b, Released
  <2> QED  BY <1>0, <1>a, <1>b, <2>1, RecordedInv
<1>c. LET t == FailedAs(ch, worker.revision, "failed") IN
      /\ t \in {"discarded", "paused", "retry", "failed"}
      /\ t = "paused" => ~ch.enabled /\ ~ch.deleted
      /\ t = "failed" => ~ch.deleted /\ ~channelVersionChanged(ch, worker.revision)
  <2>1. ch.deleted \in BOOLEAN /\ ch.enabled \in BOOLEAN
    BY <1>0, WorkerFields
  <2> HIDE DEF ch
  <2> QED  BY <2>1, SMT DEF FailedAs
<1>1. CASE CompleteNotification(c, ch)
  <2> DEFINE current == ~ch.deleted /\ ~channelVersionChanged(ch, worker.revision)
             woken == IF current THEN RowsOf(c, {"blocked"}) ELSE {}
  <2> HIDE DEF woken, current
  <2>1. /\ worker.verdict = "complete" /\ rtype' = rtype
        /\ status' = [r \in Rows |-> IF r \in worker.items THEN "sent"
                                      ELSE IF r \in woken THEN "retry" ELSE status[r]]
        /\ IF current THEN Observe(c, "ok", worker.config) ELSE health' = health
    BY <1>1 DEF CompleteNotification, current, woken
  <2>2. \A r \in woken : status[r] = "blocked"
    BY DEF woken, RowsOf
  <2>3. /\ \A r \in worker.items : status'[r] = "sent"
        /\ \A r \in Rows \ worker.items :
              \/ status'[r] = status[r]
              \/ status[r] = "blocked" /\ status'[r] = "retry"
    <3>1. \A r \in Rows : status'[r] = IF r \in worker.items THEN "sent"
                                       ELSE IF r \in woken THEN "retry" ELSE status[r]
      BY <2>1
    <3> QED  BY <1>0, <2>2, <3>1
  <2>4. \/ health' = health
        \/ /\ ~ch.deleted /\ ~channelVersionChanged(ch, worker.revision)
           /\ Observe(c, "ok", worker.config)
    BY <2>1 DEF current
  <2> QED  BY <1>0, <1>a, <2>1, <2>3, <2>4, RecordedInv
<1>2. CASE RetryNotification(c, ch)
  <2> DEFINE t == FailedAs(ch, worker.revision, "failed")
  <2>1. worker.verdict = "retry"
    BY <1>2 DEF RetryNotification
  <2>2. CASE t # "failed"
    <3>1. Release(t, TRUE, FALSE) /\ health' = health
      BY <1>2, <2>2 DEF RetryNotification
    <3> HIDE DEF t
    <3> QED  BY <1>b, <1>c, <2>1, <2>2, <3>1 DEF t
  <2>3. CASE t = "failed"
    <3>1. Release("retry", FALSE, TRUE) /\ Observe(c, "failing", worker.config)
      BY <1>2, <2>3 DEF RetryNotification
    <3> HIDE DEF t
    <3> QED  BY <1>b, <1>c, <2>1, <2>3, <3>1 DEF t
  <2> QED  BY <2>2, <2>3
<1>3. CASE BlockNotification(c, ch)
  <2> DEFINE t == FailedAs(ch, worker.revision, "failed")
             backlog == worker.items \cup RowsOf(c, {"pending", "retry", "blocked"})
  <2>1. worker.verdict = "block"
    BY <1>3 DEF BlockNotification
  <2>2. CASE t # "failed"
    <3>1. Release(t, TRUE, FALSE) /\ health' = health
      BY <1>3, <2>2 DEF BlockNotification
    <3> HIDE DEF t
    <3> QED  BY <1>b, <1>c, <2>1, <2>2, <3>1 DEF t
  <2>3. CASE t = "failed"
    <3> HIDE DEF backlog
    <3>1. /\ status' = [r \in Rows |-> IF r \in backlog THEN "blocked" ELSE status[r]]
          /\ rtype' = rtype /\ Observe(c, "failing", worker.config)
      BY <1>3, <2>3 DEF BlockNotification, backlog
    <3>2. /\ \A r \in worker.items : r \in backlog
          /\ \A r \in Rows \ worker.items : r \in backlog => status[r] \in {"pending", "retry", "blocked"}
      BY DEF backlog, RowsOf
    <3>3. /\ \A r \in worker.items : status'[r] = "blocked"
          /\ \A r \in Rows \ worker.items :
                \/ status'[r] = status[r]
                \/ status[r] \in {"pending", "retry", "blocked"} /\ status'[r] \in {"retry", "blocked"}
      BY <1>0, <3>1, <3>2
    <3> HIDE DEF t
    <3> QED  BY <1>0, <1>a, <1>c, <2>1, <2>3, <3>1, <3>3, RecordedInv DEF t
  <2> QED  BY <2>2, <2>3
<1>4. CASE PauseNotification(ch)
  <2> DEFINE t == PausedAs(ch)
  <2>1. t \in {"discarded", "paused", "retry"} /\ (t = "paused" => ~ch.enabled /\ ~ch.deleted)
    <3>1. ch.deleted \in BOOLEAN /\ ch.enabled \in BOOLEAN
      BY <1>0, WorkerFields
    <3> HIDE DEF ch
    <3> QED  BY <3>1, SMT DEF PausedAs
  <2>2. Release(t, TRUE, FALSE) /\ health' = health /\ worker.verdict = "pause"
    BY <1>4 DEF PauseNotification
  <2> HIDE DEF t
  <2> QED  BY <1>b, <2>1, <2>2
<1>5. CASE DiscardNotification(ch)
  <2> DEFINE t == DiscardedAs(ch, worker.revision)
  <2>1. t \in {"discarded", "retry"}
    BY DEF DiscardedAs
  <2>2. Release(t, TRUE, FALSE) /\ health' = health /\ worker.verdict = "discard"
    BY <1>5 DEF DiscardNotification
  <2> HIDE DEF t
  <2> QED  BY <1>b, <2>1, <2>2
<1>6. CASE RequeueNotification
  <2>1. /\ Release("blocked", FALSE, FALSE) \/ Release("retry", FALSE, FALSE)
        /\ health' = health /\ worker.verdict = "requeue"
    BY <1>6 DEF RequeueNotification
  <2> QED  BY <1>b, <2>1
<1> QED  BY <1>1, <1>2, <1>3, <1>4, <1>5, <1>6 DEF RecordResult

LEMMA RestartInv == ASSUME Inv, StoreFails \/ Crash PROVE Inv'
<1>0. TypeOK /\ TypeOK' /\ accepted \subseteq Rows
  BY TypeNext DEF Inv, Next, TypeOK
<1>1. /\ worker'.items = {} /\ worker'.channel = worker.channel /\ worker'.verdict = "none"
      /\ worker'.revision = 0 /\ UNCHANGED <<rowVars, chan, health, event>>
      /\ worker.channel \in Channels /\ chan[worker.channel].revision \in Nat
  BY <1>0, HoldingType, WorkerFields DEF StoreFails, Crash, Idle
<1>2. OneBatchInFlight' /\ RecoveryAfterTrigger' /\ PausedMeansDisabled' /\ HealthIsOfThisConfig'
  BY <1>1 DEF Inv, OneBatchInFlight, RecoveryAfterTrigger, PausedMeansDisabled,
              HealthIsOfThisConfig
<1>3. ClosedAfterEvent' /\ UniformBatch' /\ ResultOfRevision'
  BY <1>1 DEF Inv, ClosedAfterEvent, UniformBatch, ResultOfRevision
<1>4. AcceptedIsFinal'
  <2>1. CASE StoreFails
    <3>1. accepted' = accepted /\ status' = status /\ worker.verdict # "complete"
      BY <2>1 DEF StoreFails, Abandons
    <3> QED  BY <3>1 DEF Inv, AcceptedIsFinal
  <2>2. CASE Crash
    BY <2>2 DEF Crash, AcceptedIsFinal
  <2> QED  BY <2>1, <2>2
<1>5. OnlyCreatedChannels'
  BY <1>1 DEF Inv, OnlyCreatedChannels, StoreFails, Crash, NoTargets
<1>6. TestOfRevision'
  BY <1>1 DEF Inv, TestOfRevision, StoreFails, Crash, NoTest
<1> QED  BY <1>0, <1>2, <1>3, <1>4, <1>5, <1>6 DEF Inv

LEMMA InvNext == ASSUME Inv, [Next]_vars PROVE Inv'
<1>0. TypeOK'
  BY TypeNext DEF Inv
<1>1. ASSUME NEW r \in Rows, Tick(r) PROVE Inv'
  BY <1>0, <1>1, QuietInv DEF Tick, Inv, OnlyCreatedChannels
<1>2. CASE UNCHANGED vars
  BY <1>0, <1>2, QuietInv DEF vars, Inv, OnlyCreatedChannels
<1> QED
  BY <1>1, <1>2, EnqueueInv, TakeInv, SendInv, RecordInv, RestartInv, AdministerInv
  DEF Next, Deliver

LEMMA Invariant == Spec => []Inv
<1>1. Init => Inv
  BY InvInit
<1>2. Inv /\ [Next]_vars => Inv'
  BY InvNext
<1> QED  BY <1>1, <1>2, PTL DEF Spec

\* Every variable of the outbox, the channels and the worker keeps its type.
THEOREM TypeCorrect == Spec => []TypeOK
<1>1. Inv => TypeOK
  BY DEF Inv
<1> QED  BY <1>1, Invariant, PTL

\* Delivery is safe whatever the administrators, the crashes and the remote
\* sides do: the rows in flight are one batch that only the worker touches,
\* recoveries follow triggers, and nothing stays paused on an enabled channel.
THEOREM DeliverySafety ==
  Spec => [](OneBatchInFlight /\ RecoveryAfterTrigger /\ PausedMeansDisabled)
<1>1. Inv => OneBatchInFlight /\ RecoveryAfterTrigger /\ PausedMeansDisabled
  BY DEF Inv
<1> QED  BY <1>1, Invariant, PTL

\* What the remote side accepted is not sent again while the process lives,
\* also when storing the result failed or the channel was changed meanwhile.
THEOREM AcceptedOnce == Spec => []AcceptedIsFinal
<1>1. Inv => AcceptedIsFinal
  BY DEF Inv
<1> QED  BY <1>1, Invariant, PTL

\* The health of a channel is never that of a configuration saved over since,
\* although batches and tests record their results after the send.
THEOREM HealthOfConfig == Spec => []HealthIsOfThisConfig
<1>1. Inv => HealthIsOfThisConfig
  BY DEF Inv
<1> QED  BY <1>1, Invariant, PTL

-----------------------------------------------------------------------------
(* What is given up *)

Justified(r) ==
    \/ chan'[r.channel].deleted
    \/ chan'[r.channel].type # chan[r.channel].type
    \/ chan'[r.channel].type # rtype[r]
    \/ r \in Corrupt

LEMMA RecordJustified ==
  ASSUME Inv, RecordResult, NEW r \in Rows,
         status[r] # "discarded", status'[r] = "discarded"
  PROVE Justified(r)
<1> DEFINE c == worker.channel
           ch == chan[c]
<1>0. /\ TypeOK /\ c \in Channels /\ worker.items \subseteq Rows /\ worker.revision \in Nat
      /\ ch.revision \in Nat /\ ch.deleted \in BOOLEAN /\ ch.enabled \in BOOLEAN
  BY WorkerFields DEF Inv
<1>1. chan' = chan
  BY DEF RecordResult
<1>2. ASSUME NEW t, NEW d, NEW n, Release(t, d, n)
      PROVE r \in worker.items /\ t = "discarded" /\ r.channel = c
  BY <1>0, <1>2, Released DEF Inv, OneBatchInFlight
<1>3. ASSUME FailedAs(ch, worker.revision, "failed") = "discarded" PROVE ch.deleted
  <2> HIDE DEF ch
  <2> QED  BY <1>0, <1>3, SMT DEF FailedAs
<1>4. CASE CompleteNotification(c, ch)
  BY <1>0, <1>4 DEF CompleteNotification
<1>5. CASE RetryNotification(c, ch)
  <2>1. FailedAs(ch, worker.revision, "failed") = "discarded" /\ r.channel = c
    BY <1>2, <1>5 DEF RetryNotification
  <2> QED  BY <1>1, <1>3, <2>1 DEF Justified
<1>6. CASE BlockNotification(c, ch)
  <2> DEFINE t == FailedAs(ch, worker.revision, "failed")
  <2>1. t = "discarded" /\ r.channel = c
    <3>1. CASE t # "failed"
      BY <1>2, <1>6, <3>1 DEF BlockNotification
    <3>2. CASE t = "failed"
      BY <1>6, <3>2 DEF BlockNotification
    <3> QED  BY <3>1, <3>2
  <2> QED  BY <1>1, <1>3, <2>1 DEF Justified
<1>7. CASE PauseNotification(ch)
  <2>1. PausedAs(ch) = "discarded" /\ r.channel = c
    BY <1>2, <1>7 DEF PauseNotification
  <2>2. ch.deleted
    <3> HIDE DEF ch
    <3> QED  BY <1>0, <2>1, SMT DEF PausedAs
  <2> QED  BY <1>1, <2>1, <2>2 DEF Justified
<1>8. CASE DiscardNotification(ch)
  <2>1. /\ DiscardedAs(ch, worker.revision) = "discarded" /\ r.channel = c
        /\ r \in worker.items /\ worker.verdict = "discard"
    BY <1>2, <1>8 DEF DiscardNotification
  <2>2. ch.deleted \/ ~channelVersionChanged(ch, worker.revision)
    BY <2>1 DEF DiscardedAs
  <2>3. CASE ch.deleted
    BY <1>1, <2>1, <2>3 DEF Justified
  <2>4. CASE worker.revision = 0
    BY <1>1, <2>1, <2>4 DEF Justified, Inv, ResultOfRevision
  <2>5. CASE ~ch.deleted /\ worker.revision # 0
    <3>1. worker.revision = ch.revision
      BY <1>0, <2>2, <2>5 DEF channelVersionChanged
    <3>2. rtype[r] # ch.type
      BY <2>1, <2>5, <3>1 DEF Inv, ResultOfRevision
    <3> QED  BY <1>1, <2>1, <3>2 DEF Justified
  <2> QED  BY <1>0, <2>3, <2>4, <2>5
<1>9. CASE RequeueNotification
  <2>1. Release("blocked", FALSE, FALSE) \/ Release("retry", FALSE, FALSE)
    BY <1>9 DEF RequeueNotification
  <2>2. CASE Release("blocked", FALSE, FALSE)
    <3>1. "blocked" = "discarded"
      BY <1>2, <2>2, Zenon
    <3> QED  BY <3>1
  <2>3. CASE Release("retry", FALSE, FALSE)
    <3>1. "retry" = "discarded"
      BY <1>2, <2>3, Zenon
    <3> QED  BY <3>1
  <2> QED  BY <2>1, <2>2, <2>3
<1> QED  BY <1>4, <1>5, <1>6, <1>7, <1>8, <1>9 DEF RecordResult

LEMMA AdministerJustified ==
  ASSUME Inv, NEW c \in Channels, Administer(c), NEW r \in Rows,
         status[r] # "discarded", status'[r] = "discarded"
  PROVE Justified(r)
<1>0. TypeOK
  BY DEF Inv
<1>1. ~(\E S \in SUBSET Status : WakeRows(c, S)) /\ ~PauseRows(c) /\ ~UNCHANGED rowVars
  <2>1. ASSUME NEW S \in SUBSET Status, WakeRows(c, S) PROVE FALSE
    BY <2>1 DEF WakeRows
  <2>2. ~PauseRows(c)
    BY DEF PauseRows
  <2> QED  BY <2>1, <2>2
<1>2. /\ ~WakeRows(c, {"blocked"}) /\ ~WakeRows(c, {"retry", "blocked", "paused"})
      /\ ~WakeRows(c, {"pending", "retry", "blocked", "paused"})
  BY <1>1 DEF Status, Active
<1>3. DiscardRows(c) => r.channel = c
  BY DEF DiscardRows, RowsOf
<1>4. ASSUME NEW type \in Types, NEW enabled \in BOOLEAN, ReplaceChannel(c, type, enabled)
      PROVE Justified(r)
  <2>1. DiscardRows(c) /\ type # chan[c].type
    BY <1>1, <1>2, <1>4 DEF ReplaceChannel
  <2>2. chan'[c].type = type
    BY <1>0, <1>4 DEF ReplaceChannel, TypeOK
  <2> QED  BY <1>3, <2>1, <2>2 DEF Justified
<1>5. CASE DeleteChannel(c)
  <2>1. DiscardRows(c)
    BY <1>5 DEF DeleteChannel
  <2>2. chan'[c].deleted
    BY <1>0, <1>5 DEF DeleteChannel, TypeOK
  <2> QED  BY <1>3, <2>1, <2>2 DEF Justified
<1>6. CASE UpdateChannelConfig(c)
  BY <1>1, <1>2, <1>6 DEF UpdateChannelConfig
<1>7. CASE SetChannelEnabled(c)
  BY <1>1, <1>2, <1>7 DEF SetChannelEnabled
<1>8. CASE RecordTest(c)
  BY <1>1, <1>2, <1>8, Zenon DEF RecordTest
<1>9. CASE TestChannel(c)
  BY <1>1, <1>9 DEF TestChannel
<1>10. ASSUME NEW type \in Types, NEW enabled \in BOOLEAN, CreateChannel(c, type, enabled)
       PROVE Justified(r)
  BY <1>1, <1>10 DEF CreateChannel
<1> QED  BY <1>4, <1>5, <1>6, <1>7, <1>8, <1>9, <1>10 DEF Administer

LEMMA NextJustified ==
  ASSUME Inv, [Next]_vars, NEW r \in Rows,
         status[r] # "discarded", status'[r] = "discarded"
  PROVE Justified(r)
<1>0. TypeOK
  BY DEF Inv
<1>1. ASSUME NEW e \in Events, NEW t \in Transitions, insertNotifications(e, t) PROVE FALSE
  <2> DEFINE new == {q \in Rows : q.event = e /\ q.transition = t /\ status[q] = "none"
                                  /\ targets.type[q.channel] # "none"}
  <2>1. /\ r \notin new => status'[r] = status[r]
        /\ r \in new => status'[r] \in {"pending", "blocked"}
    BY <1>1 DEF insertNotifications
  <2> HIDE DEF new
  <2> QED  BY <2>1
<1>2. ~Enqueue
  <2>1. ~RefreshTargets
    BY DEF RefreshTargets
  <2>2. \A e \in Events : ~OpenEvent(e) /\ ~CloseEvent(e) /\ ~EnqueueNotifications(e)
    BY <1>1 DEF OpenEvent, CloseEvent, EnqueueNotifications, Transitions
  <2> QED  BY <2>1, <2>2 DEF Enqueue
<1>3. ~TakeNotificationBatch
  BY <1>0, Taken
<1>4. ~SendNotification /\ ~StoreFails /\ ~Crash /\ ~UNCHANGED vars /\ \A q \in Rows : ~Tick(q)
  BY DEF SendNotification, StoreFails, Crash, vars, Tick
<1> QED
  BY <1>2, <1>3, <1>4, RecordJustified, AdministerJustified DEF Next, Deliver

\* A notification is given up only for a channel that is gone or of another
\* type, or for a payload that does not decode.
THEOREM OnlyJustifiedDiscards == Spec => DiscardIsJustified
<1>1. ASSUME Inv, [Next]_vars
      PROVE [\A r \in Rows : status[r] # "discarded" /\ status'[r] = "discarded" =>
                \/ chan'[r.channel].deleted
                \/ chan'[r.channel].type # chan[r.channel].type
                \/ chan'[r.channel].type # rtype[r]
                \/ r \in Corrupt]_vars
  BY <1>1, NextJustified DEF Justified
<1> QED  BY <1>1, Invariant, PTL DEF Spec, DiscardIsJustified
=============================================================================
