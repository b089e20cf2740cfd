-------------------------- MODULE NotificationOutbox --------------------------
(***************************************************************************)
(* The notification outbox and the delivery channels in PostgreSQL         *)
(* (internal/store/alert/alert_notifications.go, notify_channels.go), the  *)
(* single delivery worker (internal/alert/service_notify.go), the cached   *)
(* targets (notify_cache.go), administrators changing and testing          *)
(* channels, and a process that may die anywhere.                          *)
(*                                                                         *)
(* A row is named by its dedupe key: event, transition and channel. Time   *)
(* is abstracted to due[r], next_attempt_at having passed; attempts stops  *)
(* counting at the retry limit. Every transaction is one step: the ones    *)
(* that touch a channel's rows lock the channel first.                     *)
(***************************************************************************)
EXTENDS Naturals, FiniteSets

CONSTANTS Events, Channels,
          Rows,          \* the notifications that can be enqueued
          Corrupt,       \* rows whose payload does not decode
          Tested,        \* channels that are sent test messages
          RetryLimit,    \* notificationRetryLimit
          MaxRevision,   \* bound on the administrators' changes of a channel
          MaxFaults      \* bound on failed deliveries and local failures

Transitions == {"opened", "closed", "system"}

ASSUME RowsAssumption ==
    Rows \subseteq [event : Events, transition : Transitions, channel : Channels]
ASSUME CorruptAssumption == Corrupt \subseteq Rows
ASSUME TestedAssumption == Tested \subseteq Channels
ASSUME LimitAssumption == RetryLimit \in Nat /\ MaxRevision \in Nat /\ MaxFaults \in Nat

VARIABLES
    status, due, attempts, isProbe, rtype,   \* alert_notification_outbox
    chan, health,                            \* notify_channels
    event,                                   \* where each alert event is
    targets,                                 \* the notify cache
    worker,                                  \* the delivery worker
    tester,                                  \* a test message in flight, per channel
    accepted,    \* rows the remote side accepted since the process started
    faults       \* failures so far

rowVars == <<status, due, attempts, isProbe, rtype>>
vars == <<rowVars, chan, health, event, targets, worker, tester, accepted, faults>>

\* Channel types: those that batch alerts and those that do not.
Types == {"telegram", "webhook"}
Active == {"pending", "sending", "retry", "blocked", "paused"}
Status == Active \cup {"none", "sent", "discarded"}
Verdicts == {"none", "complete", "retry", "block", "pause", "discard", "requeue"}

\* config counts the saved configurations, revision also the toggles.
Chans == [enabled : BOOLEAN, deleted : BOOLEAN, type : Types, revision : Nat, config : Nat]
\* What the channel row says of its delivery, and which configuration said so.
Healths == [state : {"none", "ok", "failing"}, config : Nat]
WorkerStates == [items : SUBSET Rows, verdict : Verdicts, transient : BOOLEAN,
                 channel : Channels, revision : Nat, config : Nat]
Testers == [busy : BOOLEAN, revision : Nat, config : Nat]

TypeOK ==
    /\ status \in [Rows -> Status] /\ due \in [Rows -> BOOLEAN]
    /\ attempts \in [Rows -> 0..RetryLimit] /\ isProbe \in [Rows -> BOOLEAN]
    /\ rtype \in [Rows -> Types]
    /\ chan \in [Channels -> Chans] /\ health \in [Channels -> Healths]
    /\ event \in [Events -> {"none", "open", "closed"}]
    /\ targets \in [ready : BOOLEAN, type : [Channels -> Types \cup {"none"}]]
    /\ worker \in WorkerStates
    /\ tester \in [Channels -> Testers]
    /\ accepted \subseteq Rows
    /\ faults \in Nat

NoTargets == [ready |-> FALSE, type |-> [c \in Channels |-> "none"]]
Holding(c, items) == [items |-> items, verdict |-> "none", transient |-> FALSE,
                      channel |-> c, revision |-> 0, config |-> 0]
Idle(c) == Holding(c, {})
NoChannel == [enabled |-> FALSE, deleted |-> TRUE, type |-> "webhook",
              revision |-> 0, config |-> 0]
NoTest == [busy |-> FALSE, revision |-> 0, config |-> 0]

Init ==
    /\ status = [r \in Rows |-> "none"] /\ due = [r \in Rows |-> FALSE]
    /\ attempts = [r \in Rows |-> 0] /\ isProbe = [r \in Rows |-> FALSE]
    /\ rtype = [r \in Rows |-> "webhook"]
    /\ chan = [c \in Channels |-> NoChannel]
    /\ health = [c \in Channels |-> [state |-> "none", config |-> 0]]
    /\ event = [e \in Events |-> "none"]
    /\ targets = NoTargets
    /\ \E c \in Channels : worker = Idle(c)
    /\ tester = [c \in Channels |-> NoTest]
    /\ accepted = {} /\ faults = 0

RowsOf(c, S) == {r \in Rows : r.channel = c /\ status[r] \in S}

-----------------------------------------------------------------------------
(* Enqueueing *)

\* notifyCache.load: the enabled ones of the channels selected in the alert
\* settings; a failed load keeps the last good targets.
RefreshTargets ==
    /\ \E selected \in SUBSET Channels :
        targets' = [ready |-> TRUE,
                    type |-> [c \in Channels |->
                        IF c \in selected /\ chan[c].enabled /\ ~chan[c].deleted
                        THEN chan[c].type ELSE "none"]]
    /\ UNCHANGED <<rowVars, chan, health, event, worker, tester, accepted, faults>>

\* insertNotifications: a row that is there stays (dedupe key); a row for a
\* channel with a blocked backlog joins it.
insertNotifications(e, t) ==
    LET new == {r \in Rows : r.event = e /\ r.transition = t /\ status[r] = "none"
                             /\ targets.type[r.channel] # "none"}
        backlog(r) == RowsOf(r.channel, {"blocked"})
    IN
    /\ status' = [r \in Rows |-> IF r \notin new THEN status[r]
                                 ELSE IF backlog(r) # {} THEN "blocked" ELSE "pending"]
    /\ due' = [r \in Rows |-> IF r \in new THEN backlog(r) = {} \/ \E q \in backlog(r) : due[q]
                              ELSE due[r]]
    /\ rtype' = [r \in Rows |-> IF r \in new THEN targets.type[r.channel] ELSE rtype[r]]
    /\ UNCHANGED <<attempts, isProbe>>

\* WriteOpenTransition, deferred as long as no targets were ever loaded.
OpenEvent(e) ==
    /\ targets.ready /\ event[e] = "none"
    /\ event' = [event EXCEPT ![e] = "open"]
    /\ insertNotifications(e, "opened")
    /\ UNCHANGED <<chan, health, targets, worker, tester, accepted, faults>>

\* WriteCloseTransition; only a cleared condition is announced.
CloseEvent(e) ==
    /\ event[e] = "open"
    /\ event' = [event EXCEPT ![e] = "closed"]
    /\ \/ targets.ready /\ insertNotifications(e, "closed")
       \/ UNCHANGED rowVars
    /\ UNCHANGED <<chan, health, targets, worker, tester, accepted, faults>>

\* EnqueueNotifications of a system message; callers repeat it after errors.
EnqueueNotifications(e) ==
    /\ targets.ready
    /\ insertNotifications(e, "system")
    /\ UNCHANGED <<chan, health, event, targets, worker, tester, accepted, faults>>

\* next_attempt_at passes.
Tick(r) ==
    /\ status[r] \in {"retry", "blocked"} /\ ~due[r]
    /\ due' = [due EXCEPT ![r] = TRUE]
    /\ UNCHANGED <<status, attempts, isProbe, rtype, chan, health, event, targets, worker,
                   tester, accepted, faults>>

-----------------------------------------------------------------------------
(* The delivery worker *)

\* Fault: a paused trigger does not hold its recovery back.
PredecessorNotQueued(r) ==
    r.transition = "closed" =>
        ~\E q \in Rows : /\ q.event = r.event /\ q.channel = r.channel
                         /\ q.transition = "opened"
                         /\ status[q] \in {"pending", "sending", "retry", "blocked"}

\* notificationPredecessorReady
PredecessorReady(r) ==
    r.transition = "closed" =>
        ~\E q \in Rows : /\ q.event = r.event /\ q.channel = r.channel
                         /\ q.transition = "opened" /\ status[q] \in Active

\* Fault: a row left in sending by a dead process is not taken again.
ClaimableNotSending(r) ==
    /\ status[r] \in {"pending", "retry", "blocked"} /\ due[r]
    /\ PredecessorReady(r)

Claimable(r) ==
    /\ status[r] = "sending" \/ (status[r] \in {"pending", "retry", "blocked"} /\ due[r])
    /\ PredecessorReady(r)

Probe(r) == isProbe[r] \/ status[r] = "blocked"

\* What may be claimed together with row r: alerts of one transition for one
\* channel that batches.
Companions(r) ==
    {q \in Rows \ {r} :
        /\ ~Probe(r) /\ r.transition # "system" /\ rtype[r] = "telegram" /\ r \notin Corrupt
        /\ q.channel = r.channel /\ q.transition = r.transition /\ rtype[q] = rtype[r]
        /\ attempts[q] = attempts[r] /\ ~isProbe[q] /\ q \notin Corrupt
        /\ status[q] = "sending" \/ (status[q] \in {"pending", "retry"} /\ due[q])
        /\ PredecessorReady(q)}

\* TakeNotificationBatch: rows left in sending come first; the batch ends
\* where it grows too long.
TakeNotificationBatch ==
    /\ worker.items = {}
    /\ \E first \in Rows : \E rest \in SUBSET Companions(first) :
        /\ Claimable(first)
        /\ status[first] # "sending" => \A q \in Rows : status[q] = "sending" => ~Claimable(q)
        /\ LET items == {first} \cup rest IN
           /\ status' = [r \in Rows |-> IF r \in items THEN "sending" ELSE status[r]]
           /\ due' = [r \in Rows |-> IF r \in items THEN TRUE ELSE due[r]]
           /\ isProbe' = [isProbe EXCEPT ![first] = Probe(first)]
           /\ worker' = Holding(first.channel, items)
    /\ UNCHANGED <<attempts, rtype, chan, health, event, targets, tester, accepted, faults>>

\* The result of sendNotification, to be recorded next.
Result(verdict, transient, revision) ==
    worker' = [items |-> worker.items, verdict |-> verdict, transient |-> transient,
               channel |-> worker.channel, revision |-> revision,
               config |-> chan[worker.channel].config]

Fail == faults < MaxFaults /\ faults' = faults + 1

\* sendNotification: the payload, the channel as it is now, and the delivery.
SendNotification ==
    LET ch == chan[worker.channel] IN
    /\ worker.items # {} /\ worker.verdict = "none"
    /\ \/ /\ worker.items \cap Corrupt # {}
          /\ Result("discard", FALSE, 0)
          /\ UNCHANGED <<accepted, faults>>
       \/ /\ worker.items \cap Corrupt = {}
          /\ \/ /\ Fail                              \* the channel cannot be loaded
                /\ Result("requeue", FALSE, 0)
                /\ UNCHANGED accepted
             \/ /\ ch.deleted
                /\ Result("discard", FALSE, 0)
                /\ UNCHANGED <<accepted, faults>>
             \/ /\ ~ch.deleted /\ ~ch.enabled
                /\ Result("pause", FALSE, ch.revision)
                /\ UNCHANGED <<accepted, faults>>
             \/ /\ ~ch.deleted /\ ch.enabled
                /\ \E r \in worker.items : rtype[r] # ch.type
                /\ Result("discard", FALSE, ch.revision)
                /\ UNCHANGED <<accepted, faults>>
             \/ /\ ~ch.deleted /\ ch.enabled
                /\ \A r \in worker.items : rtype[r] = ch.type
                /\ \/ /\ Result("complete", FALSE, ch.revision)   \* accepted
                      /\ accepted' = accepted \cup worker.items
                      /\ UNCHANGED faults
                   \/ /\ Fail                                     \* rejected
                      /\ Result("block", FALSE, ch.revision)
                      /\ UNCHANGED accepted
                   \/ /\ Fail                                     \* any other error
                      /\ \/ /\ \E r \in worker.items : isProbe[r] \/ attempts[r] >= RetryLimit
                            /\ Result("block", TRUE, ch.revision)
                         \/ /\ \A r \in worker.items : ~isProbe[r] /\ attempts[r] < RetryLimit
                            /\ Result("retry", TRUE, ch.revision)
                      /\ UNCHANGED accepted
    /\ UNCHANGED <<rowVars, chan, health, event, targets, tester>>

\* Fault: the revision a result was observed at is not compared.
NeverStale(ch, revision) == FALSE

\* channelVersionChanged; revision 0 stands for a channel not loaded.
channelVersionChanged(ch, revision) == revision > 0 /\ ch.revision # revision

\* What becomes of the rows in flight, given the channel as it is now.
PausedAs(ch) ==
    CASE ch.deleted -> "discarded"
      [] ~ch.deleted /\ ch.enabled -> "retry"
      [] OTHER -> "paused"

FailedAs(ch, revision, failed) ==
    CASE ch.deleted -> "discarded"
      [] ~ch.deleted /\ ~ch.enabled -> "paused"
      [] ~ch.deleted /\ ch.enabled /\ channelVersionChanged(ch, revision) -> "retry"
      [] OTHER -> failed

DiscardedAs(ch, revision) ==
    IF ~ch.deleted /\ channelVersionChanged(ch, revision) THEN "retry" ELSE "discarded"

\* attempt_count + 1, as far as it is told apart.
Counted(r) == IF attempts[r] < RetryLimit THEN attempts[r] + 1 ELSE RetryLimit

\* updateSendingNotification of the batch.
Release(to, isDue, counted) ==
    /\ status' = [r \in Rows |-> IF r \in worker.items THEN to ELSE status[r]]
    /\ due' = [r \in Rows |-> IF r \in worker.items THEN isDue ELSE due[r]]
    /\ attempts' = [r \in Rows |-> IF r \in worker.items /\ counted THEN Counted(r)
                                   ELSE attempts[r]]
    /\ isProbe' = [r \in Rows |-> IF r \in worker.items THEN FALSE ELSE isProbe[r]]
    /\ UNCHANGED rtype

\* recordChannelSuccess and recordChannelFailure for a result of `config`.
Observe(c, state, config) ==
    health' = [health EXCEPT ![c] = [state |-> state, config |-> config]]

\* CompleteNotification: a success of the present revision wakes the blocked
\* backlog.
CompleteNotification(c, ch) ==
    LET current == ~ch.deleted /\ ~channelVersionChanged(ch, worker.revision)
        woken == IF current THEN RowsOf(c, {"blocked"}) ELSE {} IN
    /\ worker.verdict = "complete"
    /\ status' = [r \in Rows |-> IF r \in worker.items THEN "sent"
                                 ELSE IF r \in woken THEN "retry" ELSE status[r]]
    /\ due' = [r \in Rows |-> IF r \in woken THEN TRUE ELSE due[r]]
    /\ attempts' = [r \in Rows |-> IF r \in woken THEN 0
                                   ELSE IF r \in worker.items THEN Counted(r) ELSE attempts[r]]
    /\ isProbe' = [r \in Rows |-> IF r \in worker.items \cup woken THEN FALSE ELSE isProbe[r]]
    /\ UNCHANGED rtype
    /\ IF current THEN Observe(c, "ok", worker.config) ELSE UNCHANGED health

RetryNotification(c, ch) ==
    LET to == FailedAs(ch, worker.revision, "failed") IN
    /\ worker.verdict = "retry"
    /\ \/ to # "failed" /\ Release(to, TRUE, FALSE) /\ UNCHANGED health
       \/ to = "failed" /\ Release("retry", FALSE, TRUE) /\ Observe(c, "failing", worker.config)

\* BlockNotification also blocks what is queued and postpones the backlog.
BlockNotification(c, ch) ==
    LET to == FailedAs(ch, worker.revision, "failed")
        backlog == worker.items \cup RowsOf(c, {"pending", "retry", "blocked"}) IN
    /\ worker.verdict = "block"
    /\ \/ to # "failed" /\ Release(to, TRUE, FALSE) /\ UNCHANGED health
       \/ /\ to = "failed"
          /\ status' = [r \in Rows |-> IF r \in backlog THEN "blocked" ELSE status[r]]
          /\ due' = [r \in Rows |-> IF r \in backlog THEN FALSE ELSE due[r]]
          /\ attempts' = [r \in Rows |-> IF r \in worker.items THEN Counted(r)
                                         ELSE attempts[r]]
          /\ isProbe' = [r \in Rows |-> IF r \in backlog THEN FALSE ELSE isProbe[r]]
          /\ UNCHANGED rtype
          /\ Observe(c, "failing", worker.config)

PauseNotification(ch) ==
    /\ worker.verdict = "pause"
    /\ Release(PausedAs(ch), TRUE, FALSE)
    /\ UNCHANGED health

DiscardNotification(ch) ==
    /\ worker.verdict = "discard"
    /\ Release(DiscardedAs(ch, worker.revision), TRUE, FALSE)
    /\ UNCHANGED health

\* RequeueNotification: a probe goes back to the blocked rows.
RequeueNotification ==
    /\ worker.verdict = "requeue"
    /\ \/ (\E r \in worker.items : isProbe[r]) /\ Release("blocked", FALSE, FALSE)
       \/ (\A r \in worker.items : ~isProbe[r]) /\ Release("retry", FALSE, FALSE)
    /\ UNCHANGED health

RecordResult ==
    LET c == worker.channel
        ch == chan[c] IN
    /\ \/ CompleteNotification(c, ch)
       \/ RetryNotification(c, ch)
       \/ BlockNotification(c, ch)
       \/ PauseNotification(ch)
       \/ DiscardNotification(ch)
       \/ RequeueNotification
    /\ worker' = Idle(c)
    /\ UNCHANGED <<chan, event, targets, tester, accepted, faults>>

\* Fault: the worker gives up on recording a delivery like on anything else.
GivesUp == worker.verdict # "none"

\* Which results the worker abandons when their transaction fails: the rows
\* stay in sending. The completion of a delivery is tried again instead.
Abandons == worker.verdict \notin {"none", "complete"}

StoreFails ==
    /\ Abandons
    /\ Fail
    /\ worker' = Idle(worker.channel)
    /\ UNCHANGED <<rowVars, chan, health, event, targets, tester, accepted>>

\* The process dies and starts again.
Crash ==
    /\ Fail
    /\ worker' = Idle(worker.channel)
    /\ tester' = [c \in Channels |-> NoTest]
    /\ targets' = NoTargets
    /\ accepted' = {}
    /\ UNCHANGED <<rowVars, chan, health, event>>

-----------------------------------------------------------------------------
(* Administrators *)

PausedStatuses == {"pending", "retry", "blocked"}

\* pauseChannelNotifications, wakeChannelNotifications and
\* discardChannelNotifications. None of them touches a row in flight.
PauseRows(c) ==
    LET rows == RowsOf(c, PausedStatuses) IN
    /\ status' = [r \in Rows |-> IF r \in rows THEN "paused" ELSE status[r]]
    /\ isProbe' = [r \in Rows |-> IF r \in rows THEN FALSE ELSE isProbe[r]]
    /\ UNCHANGED <<due, attempts, rtype>>

WakeRows(c, statuses) ==
    LET rows == RowsOf(c, statuses) IN
    /\ status' = [r \in Rows |-> IF r \in rows THEN "retry" ELSE status[r]]
    /\ due' = [r \in Rows |-> IF r \in rows THEN TRUE ELSE due[r]]
    /\ attempts' = [r \in Rows |-> IF r \in rows THEN 0 ELSE attempts[r]]
    /\ isProbe' = [r \in Rows |-> IF r \in rows THEN FALSE ELSE isProbe[r]]
    /\ UNCHANGED rtype

DiscardRows(c) ==
    LET rows == RowsOf(c, {"pending", "retry", "blocked", "paused"}) IN
    /\ status' = [r \in Rows |-> IF r \in rows THEN "discarded" ELSE status[r]]
    /\ isProbe' = [r \in Rows |-> IF r \in rows THEN FALSE ELSE isProbe[r]]
    /\ UNCHANGED <<due, attempts, rtype>>

Unobserved(c) == health' = [health EXCEPT ![c] = [state |-> "none", config |-> 0]]

Editable(c) == ~chan[c].deleted /\ chan[c].revision < MaxRevision

CreateChannel(c, type, enabled) ==
    /\ chan[c].revision = 0
    /\ chan' = [chan EXCEPT ![c] = [enabled |-> enabled, deleted |-> FALSE, type |-> type,
                                    revision |-> 1, config |-> 1]]
    /\ UNCHANGED <<rowVars, health, event, targets, worker, tester, accepted, faults>>

\* ReplaceChannel at the revision the administrator saw.
ReplaceChannel(c, type, enabled) ==
    /\ Editable(c)
    /\ chan' = [chan EXCEPT ![c] = [enabled |-> enabled, deleted |-> FALSE, type |-> type,
                                    revision |-> chan[c].revision + 1,
                                    config |-> chan[c].config + 1]]
    /\ Unobserved(c)
    /\ \/ type # chan[c].type /\ DiscardRows(c)
       \/ type = chan[c].type /\ ~enabled /\ PauseRows(c)
       \/ type = chan[c].type /\ enabled /\ WakeRows(c, {"retry", "blocked", "paused"})
    /\ UNCHANGED <<event, targets, worker, tester, accepted, faults>>

\* UpdateChannelConfig: a new MTProto session.
UpdateChannelConfig(c) ==
    /\ Editable(c)
    /\ chan' = [chan EXCEPT ![c] = [enabled |-> chan[c].enabled, deleted |-> FALSE,
                                    type |-> chan[c].type,
                                    revision |-> chan[c].revision + 1,
                                    config |-> chan[c].config + 1]]
    /\ Unobserved(c)
    /\ \/ ~chan[c].enabled /\ PauseRows(c)
       \/ chan[c].enabled /\ WakeRows(c, {"retry", "blocked", "paused"})
    /\ UNCHANGED <<event, targets, worker, tester, accepted, faults>>

SetChannelEnabled(c) ==
    /\ Editable(c)
    /\ chan' = [chan EXCEPT ![c] = [enabled |-> ~chan[c].enabled, deleted |-> FALSE,
                                    type |-> chan[c].type,
                                    revision |-> chan[c].revision + 1,
                                    config |-> chan[c].config]]
    /\ \/ chan[c].enabled /\ PauseRows(c)
       \/ ~chan[c].enabled /\ WakeRows(c, {"pending", "retry", "blocked", "paused"})
    /\ UNCHANGED <<health, event, targets, worker, tester, accepted, faults>>

DeleteChannel(c) ==
    /\ Editable(c)
    /\ chan' = [chan EXCEPT ![c] = [enabled |-> chan[c].enabled, deleted |-> TRUE,
                                    type |-> chan[c].type,
                                    revision |-> chan[c].revision + 1,
                                    config |-> chan[c].config]]
    /\ DiscardRows(c)
    /\ UNCHANGED <<health, event, targets, worker, tester, accepted, faults>>

\* testMessageHandler loads the channel and sends with what it loaded; the
\* result is recorded in a step of its own.
TestChannel(c) ==
    /\ c \in Tested /\ ~tester[c].busy /\ ~chan[c].deleted
    /\ tester' = [tester EXCEPT ![c] = [busy |-> TRUE, revision |-> chan[c].revision,
                                        config |-> chan[c].config]]
    /\ UNCHANGED <<rowVars, chan, health, event, targets, worker, accepted, faults>>

\* RecoverChannelNotifications, RecordChannelFailure, or no record at all.
RecordTest(c) ==
    LET current == /\ ~chan[c].deleted
                   /\ ~channelVersionChanged(chan[c], tester[c].revision) IN
    /\ tester[c].busy
    /\ tester' = [tester EXCEPT ![c] = NoTest]
    /\ \/ /\ current
          /\ Observe(c, "ok", tester[c].config)
          /\ \/ chan[c].enabled /\ WakeRows(c, {"blocked"})
             \/ ~chan[c].enabled /\ UNCHANGED rowVars
       \/ /\ current
          /\ Observe(c, "failing", tester[c].config)
          /\ UNCHANGED rowVars
       \/ UNCHANGED <<health, rowVars>>
    /\ UNCHANGED <<chan, event, targets, worker, accepted, faults>>

-----------------------------------------------------------------------------
(* The next-state relation *)

Deliver == TakeNotificationBatch \/ SendNotification \/ RecordResult

Enqueue ==
    \/ RefreshTargets
    \/ \E e \in Events : OpenEvent(e) \/ CloseEvent(e) \/ EnqueueNotifications(e)

Administer(c) ==
    \/ \E type \in Types, enabled \in BOOLEAN :
          CreateChannel(c, type, enabled) \/ ReplaceChannel(c, type, enabled)
    \/ UpdateChannelConfig(c) \/ SetChannelEnabled(c) \/ DeleteChannel(c)
    \/ TestChannel(c) \/ RecordTest(c)

Next ==
    \/ Enqueue
    \/ \E r \in Rows : Tick(r)
    \/ Deliver \/ StoreFails \/ Crash
    \/ \E c \in Channels : Administer(c)

Spec == Init /\ [][Next]_vars

\* The worker polls for as long as the process runs, and time passes. Nothing
\* is assumed of the administrators; failures are bounded by MaxFaults.
FairSpec ==
    /\ Spec
    /\ WF_vars(Deliver)
    /\ \A r \in Rows : WF_vars(Tick(r))

-----------------------------------------------------------------------------
(* Properties *)

\* What the worker holds stays its own (channel changes leave rows in flight
\* alone), so that recording a result always finds its row; and all rows in
\* flight are for one channel and transition, also after a crash.
OneBatchInFlight ==
    /\ \A r \in worker.items : status[r] = "sending" /\ r.channel = worker.channel
    /\ \A q, r \in Rows : status[q] = "sending" /\ status[r] = "sending" =>
          q.channel = r.channel /\ q.transition = r.transition

\* A recovery is in flight or delivered on a channel only when the trigger of
\* its event has left active delivery there: it is not blocked, paused or
\* waiting to be retried, and will not be delivered afterwards.
RecoveryAfterTrigger ==
    \A q, r \in Rows :
        /\ q.event = r.event /\ q.channel = r.channel
        /\ q.transition = "opened" /\ r.transition = "closed"
        /\ status[r] \in {"sending", "sent"}
        => status[q] \notin Active

\* No row is left paused on a channel that is enabled: whoever enables it wakes
\* them all, and a pause decided on an earlier reading does not slip in later.
PausedMeansDisabled ==
    \A r \in Rows : status[r] = "paused" => ~chan[r.channel].enabled /\ ~chan[r.channel].deleted

\* The delivery health shown for a channel was observed with the configuration
\* it has now: a result in flight while the configuration is replaced does not
\* count, neither the worker's nor a test's.
HealthIsOfThisConfig ==
    \A c \in Channels : health[c].state # "none" => health[c].config = chan[c].config

\* As long as the process lives, a row the remote side has accepted is not
\* sent again: it is being completed or is sent.
AcceptedIsFinal ==
    \A r \in accepted :
        status[r] = "sent" \/ (r \in worker.items /\ worker.verdict = "complete")

\* A notification is given up only for a channel that is gone or has another
\* type now, or a payload that does not decode.
DiscardIsJustified ==
    [][\A r \in Rows : status[r] # "discarded" /\ status'[r] = "discarded" =>
          \/ chan'[r.channel].deleted
          \/ chan'[r.channel].type # chan[r.channel].type
          \/ chan'[r.channel].type # rtype[r]
          \/ r \in Corrupt]_vars

\* With a bounded number of failures a notification is delivered or given up in
\* the end, however it was blocked, unless its channel is disabled.
Settles(r) ==
    status[r] \in Active ~> status[r] \in {"sent", "discarded"} \/ ~chan[r.channel].enabled

\* docs/architecture.md: the backlog of a channel is blocked "so only one
\* low-frequency probe is sent". A channel with blocked rows is only probed.
OnlyProbesWhenBlocked ==
    \A r \in Rows : status[r] = "sending" /\ ~isProbe[r] => RowsOf(r.channel, {"blocked"}) = {}

\* docs/architecture.md: "Transient remote failures use 5-320 second
\* exponential retries before entering `blocked`", and saving a channel "resets
\* its attempt budget": a transient failure that is the first result of the
\* saved configuration does not block the channel.
SaveResetsBudget ==
    worker.verdict = "block" /\ worker.transient /\ chan[worker.channel].enabled
        /\ worker.revision = chan[worker.channel].revision
        => health[worker.channel].state # "none"

-----------------------------------------------------------------------------
(* The inductive invariant *)

\* A channel that was never created has left no traces.
OnlyCreatedChannels ==
    /\ \A c \in Channels : chan[c].revision = 0 =>
          /\ chan[c].deleted /\ health[c].state = "none" /\ targets.type[c] = "none"
    /\ \A r \in Rows : status[r] # "none" => chan[r.channel].revision # 0

ClosedAfterEvent ==
    \A r \in Rows : r.transition = "closed" /\ status[r] # "none" => event[r.event] = "closed"

\* A batch has one type, and a payload that does not decode is alone in it.
UniformBatch ==
    \A q, r \in worker.items : rtype[q] = rtype[r] /\ (q \in Corrupt => r \in Corrupt)

\* What a result says about a channel, as long as the revision is the same.
ResultOfRevision ==
    LET ch == chan[worker.channel] IN
    /\ worker.revision <= ch.revision
    /\ worker.revision # 0 /\ worker.revision = ch.revision => worker.config = ch.config
    /\ worker.verdict \in {"complete", "retry", "block"} => worker.revision # 0
    /\ worker.verdict = "discard" /\ worker.revision = 0 =>
          worker.items \subseteq Corrupt \/ ch.deleted
    /\ worker.verdict = "discard" /\ worker.revision # 0 /\ worker.revision = ch.revision =>
          \A r \in worker.items : rtype[r] # ch.type

TestOfRevision ==
    \A c \in Channels : tester[c].busy =>
        /\ tester[c].revision # 0 /\ tester[c].revision <= chan[c].revision
        /\ tester[c].revision = chan[c].revision => tester[c].config = chan[c].config

Inv ==
    /\ TypeOK /\ OneBatchInFlight /\ RecoveryAfterTrigger /\ PausedMeansDisabled
    /\ HealthIsOfThisConfig /\ AcceptedIsFinal /\ OnlyCreatedChannels /\ ClosedAfterEvent
    /\ UniformBatch /\ ResultOfRevision /\ TestOfRevision
=============================================================================
