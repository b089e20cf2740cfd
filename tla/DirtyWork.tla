------------------------------ MODULE DirtyWork ------------------------------
(***************************************************************************)
(* What the dirty-server queue promises the alert service, without its     *)
(* flags, slice, channel or workers: a marked server is owed an evaluation *)
(* that starts after the mark, and at most one evaluation of a server runs *)
(* at a time.                                                              *)
(***************************************************************************)
CONSTANT Servers

VARIABLES owed,      \* servers owed an evaluation that has not started yet
          evaluating \* servers being evaluated right now

workVars == <<owed, evaluating>>

WorkInit ==
    /\ owed = {}
    /\ evaluating = {}

Mark(s) ==
    /\ owed' = owed \cup {s}
    /\ UNCHANGED evaluating

Start(s) ==
    /\ s \in owed \ evaluating
    /\ owed' = owed \ {s}
    /\ evaluating' = evaluating \cup {s}

\* A failed evaluation leaves the server owed another one.
Finish(s, failed) ==
    /\ s \in evaluating
    /\ evaluating' = evaluating \ {s}
    /\ owed' = IF failed THEN owed \cup {s} ELSE owed

WorkNext ==
    \E s \in Servers :
        \/ Mark(s)
        \/ Start(s)
        \/ \E failed \in BOOLEAN : Finish(s, failed)

WorkSpec == WorkInit /\ [][WorkNext]_workVars

\* A server that stays owed and idle is eventually evaluated.
WorkFairSpec == WorkSpec /\ \A s \in Servers : WF_workVars(Start(s))
=============================================================================
