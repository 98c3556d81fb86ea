---------------------------- MODULE HelloController ----------------------------
(***************************************************************************)
(* The controller as a whole (main.rs): the reconciliations of several     *)
(* clusters share one task, whose results are reported by at most Limit    *)
(* concurrent reporters; it is stopped by a signal or killed, and started  *)
(* again (Deployment with one replica and strategy Recreate).  A           *)
(* reconciliation is one step from its begin to its end here;              *)
(* HelloReconcile has the steps in between.                                *)
(***************************************************************************)
EXTENDS Naturals

CONSTANTS
    Cluster,    \* the HelloClusters
    Limit,      \* concurrent reporters (16)
    MaxEdits,   \* bound on the edits
    MaxStops,   \* bound on signals and crashes
    MaxFaults   \* bound on the runs that fail by chance

ASSUME ControllerAssumption ==
    /\ Limit \in Nat \ {0}
    /\ MaxEdits \in Nat /\ MaxStops \in Nat /\ MaxFaults \in Nat

(***************************************************************************)
(* What reconciling a spec comes to: success, an error at every attempt    *)
(* (say, a group that cannot be built), or InvalidHelloCluster.            *)
(***************************************************************************)
Outcome == {"good", "failing", "malformed"}

VARIABLES
    spec,       \* the current spec of each cluster, as its outcome
    stored,     \* the spec in the operator's store
    behind,     \* clusters whose current spec has not been dealt with
    events,     \* clusters with a change the watch has yet to deliver
    phase,      \* the operator: "up", "stopping" after a signal, or "down"
    sched,      \* per cluster: none, after a timer, queued
    run,        \* the spec each reconciliation in progress works on, or "none"
    fresh,      \* reconciliations in progress that work on the current spec
    reporting,  \* results being reported
    edits, stops, faults    \* what is left of the bounds

users    == <<spec, behind, events, edits>>
operator == <<stored, phase, sched, run, fresh, reporting>>
vars     == <<users, operator, stops, faults>>

Running == {c \in Cluster : run[c] # "none"}

Init ==
    /\ spec \in [Cluster -> Outcome]
    /\ stored = spec
    /\ behind = Cluster /\ events = {}
    /\ phase = "down"
    /\ sched = [c \in Cluster |-> "none"]
    /\ run = [c \in Cluster |-> "none"] /\ fresh = {}
    /\ reporting = 0
    /\ edits = MaxEdits /\ stops = MaxStops /\ faults = MaxFaults

-----------------------------------------------------------------------------
\* A user writes another spec, whether the operator is there or not.
Edit(c) ==
    /\ edits > 0 /\ edits' = edits - 1
    /\ \E s \in Outcome : spec' = [spec EXCEPT ![c] = s]
    /\ behind' = behind \cup {c}
    /\ events' = events \cup {c}
    /\ fresh' = fresh \ {c}
    /\ UNCHANGED <<stored, phase, sched, run, reporting, stops, faults>>

(***************************************************************************)
(* The task of the controller goes on only while for_each_concurrent polls *)
(* it, that is, while a reporter is free.                                  *)
(***************************************************************************)
Polled == phase # "down" /\ reporting < Limit

\* A spec that arrives is stored and queued, also while its cluster is busy.
Deliver(c) ==
    /\ phase = "up" /\ Polled
    /\ c \in events /\ events' = events \ {c}
    /\ stored' = [stored EXCEPT ![c] = spec[c]]
    /\ sched' = [sched EXCEPT ![c] = "queued"]
    /\ UNCHANGED <<spec, behind, edits, phase, run, fresh, reporting, stops, faults>>

TimerFires(c) ==
    /\ phase = "up" /\ Polled
    /\ sched[c] = "timer"
    /\ sched' = [sched EXCEPT ![c] = "queued"]
    /\ UNCHANGED <<users, stored, phase, run, fresh, reporting, stops, faults>>

Begin(c) ==
    /\ phase = "up" /\ Polled
    /\ sched[c] = "queued" /\ c \notin Running
    /\ sched' = [sched EXCEPT ![c] = "none"]
    /\ run' = [run EXCEPT ![c] = stored[c]]
    /\ fresh' = IF c \in events THEN fresh ELSE fresh \cup {c}
    /\ UNCHANGED <<users, stored, phase, reporting, stops, faults>>

-----------------------------------------------------------------------------
\* The run is over; the current spec is dealt with unless it came after.
Leave(c) ==
    /\ run' = [run EXCEPT ![c] = "none"]
    /\ fresh' = fresh \ {c}

DealtWith(c) == behind' = IF c \in fresh THEN behind \ {c} ELSE behind

\* Mutant: the trigger that came during the run is taken for the run's own.
AwaitChangeDroppingTrigger(c) == sched' = [sched EXCEPT ![c] = "none"]

\* The scheduler keeps what is queued.
AwaitChange(c) == UNCHANGED sched

\* Mutant: error_policy awaits a change after every error.
RequeueNever(c) == UNCHANGED sched

\* Nothing is scheduled any more once the controller is stopping.
Requeue(c) ==
    sched' = IF phase = "up" /\ sched[c] = "none" THEN [sched EXCEPT ![c] = "timer"] ELSE sched

\* Success needs no report.
Succeed(c) ==
    /\ Polled /\ run[c] = "good"
    /\ Leave(c) /\ DealtWith(c) /\ AwaitChange(c)
    /\ UNCHANGED <<spec, events, edits, stored, phase, reporting, stops, faults>>

\* An error takes a reporter, which publishes it as an event.
Fail(c) ==
    /\ Polled
    /\ \/ run[c] = "failing" /\ UNCHANGED faults
       \/ run[c] = "good" /\ faults > 0 /\ faults' = faults - 1
    /\ Leave(c) /\ Requeue(c)
    /\ reporting' = reporting + 1
    /\ UNCHANGED <<users, stored, phase, stops>>

\* InvalidHelloCluster: nothing to be done before the object changes.
Reject(c) ==
    /\ Polled /\ run[c] = "malformed"
    /\ Leave(c) /\ DealtWith(c) /\ AwaitChange(c)
    /\ reporting' = reporting + 1
    /\ UNCHANGED <<spec, events, edits, stored, phase, stops, faults>>

\* Mutant: the reporter's slot is not given back.
ReportKeepingSlot == reporting > 0 /\ UNCHANGED vars

\* The API server has taken the event, or refused it.
Report ==
    /\ reporting > 0 /\ reporting' = reporting - 1
    /\ UNCHANGED <<users, stored, phase, sched, run, fresh, stops, faults>>

-----------------------------------------------------------------------------
\* Mutant: a trigger that is queued is still worked off after the signal.
SignalKeepingQueue ==
    /\ stops > 0 /\ stops' = stops - 1
    /\ phase = "up" /\ Polled
    /\ phase' = "stopping"
    /\ UNCHANGED <<users, stored, sched, run, fresh, reporting, faults>>

\* shutdown_on_signal: no further triggers, and none of those that wait.
Signal ==
    /\ stops > 0 /\ stops' = stops - 1
    /\ phase = "up" /\ Polled
    /\ phase' = "stopping"
    /\ sched' = [c \in Cluster |-> "none"]
    /\ UNCHANGED <<users, stored, run, fresh, reporting, faults>>

\* The stream has ended and everything is reported: main returns.
Exit ==
    /\ phase = "stopping" /\ Running = {} /\ reporting = 0
    /\ phase' = "down"
    /\ UNCHANGED <<users, stored, sched, run, fresh, reporting, stops, faults>>

\* Killed, or told a second time to stop.
Crash ==
    /\ stops > 0 /\ stops' = stops - 1
    /\ phase # "down" /\ phase' = "down"
    /\ sched' = [c \in Cluster |-> "none"]
    /\ run' = [c \in Cluster |-> "none"] /\ fresh' = {}
    /\ reporting' = 0
    /\ UNCHANGED <<users, stored, faults>>

\* Mutant: the new operator waits for changes, as if nothing had been missed.
StartFromNow ==
    /\ phase = "down" /\ phase' = "up"
    /\ stored' = spec
    /\ UNCHANGED <<spec, behind, edits, events, sched, run, fresh, reporting, stops, faults>>

\* The first list of the new operator queues every cluster.
Start ==
    /\ phase = "down" /\ phase' = "up"
    /\ stored' = spec /\ events' = {}
    /\ sched' = [c \in Cluster |-> "queued"]
    /\ UNCHANGED <<spec, behind, edits, run, fresh, reporting, stops, faults>>

-----------------------------------------------------------------------------
End(c) == Succeed(c) \/ Fail(c) \/ Reject(c)

Next ==
    \/ \E c \in Cluster : Edit(c) \/ Deliver(c) \/ TimerFires(c) \/ Begin(c) \/ End(c)
    \/ Report \/ Signal \/ Exit \/ Crash \/ Start

Spec == Init /\ [][Next]_vars

(***************************************************************************)
(* Strong fairness: reporters may all be busy again and again, but in      *)
(* between the stream is polled until nothing in it is ready, and a        *)
(* cluster that fails is back only after 5 seconds.  Reporters come to an  *)
(* end one way or the other; the Deployment restarts the operator.         *)
(***************************************************************************)
Fairness ==
    /\ \A c \in Cluster : /\ SF_vars(Deliver(c)) /\ SF_vars(TimerFires(c))
                          /\ SF_vars(Begin(c)) /\ SF_vars(End(c))
    /\ WF_vars(Report) /\ WF_vars(Exit) /\ WF_vars(Start)

FairSpec == Spec /\ Fairness

-----------------------------------------------------------------------------
TypeOK ==
    /\ spec \in [Cluster -> Outcome] /\ stored \in [Cluster -> Outcome]
    /\ behind \subseteq Cluster /\ events \subseteq Cluster
    /\ phase \in {"up", "stopping", "down"}
    /\ sched \in [Cluster -> {"none", "timer", "queued"}]
    /\ phase # "up" => \A c \in Cluster : sched[c] = "none"
    /\ run \in [Cluster -> Outcome \cup {"none"}]
    /\ phase = "down" => Running = {}
    /\ fresh \subseteq Running
    /\ reporting \in 0 .. Limit
    /\ edits \in Nat /\ stops \in Nat /\ faults \in Nat

(***************************************************************************)
(* No change is forgotten while the operator is up, however edits,         *)
(* failures and restarts fall between the runs: a cluster that is behind   *)
(* has an event coming, a run to come, or one in progress on its current   *)
(* spec.                                                                   *)
(***************************************************************************)
NothingForgotten ==
    phase = "up" =>
        \A c \in behind : \/ c \in events \/ sched[c] # "none"
                          \/ c \in fresh /\ run[c] = spec[c]

(***************************************************************************)
(* A cluster that can be reconciled is, although others fail forever, all  *)
(* reporters are busy at times, and the operator is restarted.             *)
(***************************************************************************)
Served == \A c \in Cluster : <>[](spec[c] = "good" => c \notin behind)

\* A signal ends the operator, whatever is running and waiting to be reported.
ShutdownCompletes == phase = "stopping" ~> phase = "down"

\* Each cluster sees the runtime ClusterRuntime describes.
Runtime(c) == INSTANCE ClusterRuntime
    WITH up <- phase = "up", sched <- sched[c], running <- c \in Running

\* That is, \A c \in Cluster : Runtime(c)!Spec, in the form TLC evaluates.
ImplementsRuntime ==
    /\ \A c \in Cluster : Runtime(c)!Init
    /\ [][\A c \in Cluster : [Runtime(c)!Next]_(Runtime(c)!scheduling)]_vars
=============================================================================
