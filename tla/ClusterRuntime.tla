---------------------------- MODULE ClusterRuntime ----------------------------
(***************************************************************************)
(* What the kube runtime does for one cluster, whatever its reconciliation *)
(* does: at most one run at a time, one further run for all that arrives   *)
(* meanwhile, and no run of an operator that is going down.  HelloReconcile *)
(* (one cluster in detail) and HelloController (several clusters) both     *)
(* implement it.                                                           *)
(***************************************************************************)
VARIABLES
    up,         \* the operator accepts triggers
    sched,      \* the reconciliation to come: none, after a timer, queued
    running     \* a reconciliation is in progress

scheduling == <<up, sched, running>>

Init == ~up /\ sched = "none" /\ ~running

\* A watch event, or the timer, asks for a run as soon as possible.
Trigger == up /\ sched' = "queued" /\ UNCHANGED <<up, running>>

Begin ==
    /\ up /\ sched = "queued" /\ ~running
    /\ running' /\ sched' = "none"
    /\ UNCHANGED up

\* There is nothing to reconcile, or the object is rejected at once.
Skip ==
    /\ up /\ sched = "queued" /\ ~running
    /\ sched' \in {"none", "timer"}
    /\ UNCHANGED <<up, running>>

\* The end of a run takes no trigger away, and may ask for another run.
End ==
    /\ running /\ ~running'
    /\ sched' \in {sched, IF up /\ sched # "queued" THEN "timer" ELSE sched}
    /\ UNCHANGED up

\* The operator is killed, or stops accepting while a run is in progress.
Down ==
    /\ up /\ ~up'
    /\ sched' = "none"
    /\ running' => running

\* A run in progress when the operator stopped accepting is killed after all.
Kill == ~up /\ running /\ ~running' /\ UNCHANGED <<up, sched>>

Up ==
    /\ ~up /\ ~running /\ up'
    /\ sched' \in {"none", "queued"}
    /\ UNCHANGED running

Next == Trigger \/ Begin \/ Skip \/ End \/ Down \/ Kill \/ Up

Spec == Init /\ [][Next]_scheduling

-----------------------------------------------------------------------------
(***************************************************************************)
(* A run comes to an end, and a trigger or a timer to a run, unless the    *)
(* operator goes down: none of the three lasts forever.                    *)
(***************************************************************************)
Prompt == []<>~running /\ []<>(sched # "queued") /\ []<>(sched # "timer")
=============================================================================
