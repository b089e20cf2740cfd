------------------------ MODULE MCNotificationOutbox ------------------------
(* The outbox with one channel, in scenarios that bound a behaviour: the     *)
(* notifications it may enqueue, the changes of the channel, the failures,   *)
(* whether test messages are sent and whether the worker is fair.            *)
EXTENDS NotificationOutbox, TLC

CONSTANTS e1, e2, c1

VARIABLE scenario
mcvars == <<vars, scenario>>

Row(e, t) == [event |-> e, transition |-> t, channel |-> c1]
MCRows == {Row(e1, "opened"), Row(e1, "closed"), Row(e1, "system"), Row(e2, "opened"), Row(e2, "system")}
MCCorrupt == {Row(e2, "system")}

\* An alert that opens and closes, on a channel that changes twice after its creation; and
\* a second one that opens, on a channel that changes once.
OneAlert == [rows |-> {Row(e1, "opened"), Row(e1, "closed")},
             revisions |-> 3, faults |-> 1, tests |-> FALSE, fair |-> FALSE]
TwoAlerts == [OneAlert EXCEPT !.rows = @ \cup {Row(e2, "opened")}, !.revisions = 2]

\* Two notifications that are never sent together, and test messages.
Tests == [TwoAlerts EXCEPT !.rows = {Row(e1, "opened"), Row(e1, "system")}, !.tests = TRUE]

\* An alert that opens and closes, and a message that cannot be decoded.
Fair == [TwoAlerts EXCEPT !.rows = {Row(e1, "opened"), Row(e1, "closed"), Row(e2, "system")},
                          !.faults = 2, !.fair = TRUE]

\* What the violated runs look at.
AlertAndUpdate == [Tests EXCEPT !.faults = 2, !.tests = FALSE]
SavedTwice == [TwoAlerts EXCEPT !.faults = 3]

Within ==
    /\ \A r \in Rows : status[r] # "none" => r \in scenario.rows
    /\ \A e \in Events : event[e] # "none" => Row(e, "opened") \in scenario.rows
    /\ \A c \in Channels : chan[c].revision <= scenario.revisions /\ (tester[c].busy => scenario.tests)
    /\ faults <= scenario.faults

MCInit == Init /\ scenario \in {OneAlert, TwoAlerts, Tests, Fair}
MCNext == Next /\ UNCHANGED scenario /\ Within'

InFair(A) == scenario.fair /\ A /\ UNCHANGED scenario /\ Within'
MCSpec ==
    /\ MCInit /\ [][MCNext]_mcvars
    /\ WF_mcvars(InFair(Deliver))
    /\ \A r \in Fair.rows : WF_mcvars(InFair(Tick(r)))
ProbeSpec == Init /\ scenario = AlertAndUpdate /\ [][MCNext]_mcvars
SaveSpec == Init /\ scenario = SavedTwice /\ [][MCNext]_mcvars

\* Every notification is delivered or given up in the end, however it was blocked, unless its
\* channel is disabled (service_notify.go, the delivery worker's loop).
NotificationsSettle == scenario.fair => \A r \in Fair.rows : Settles(r)
=============================================================================
