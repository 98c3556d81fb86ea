----------------------------- MODULE ClusterAlone -----------------------------
(***************************************************************************)
(* One HelloCluster with a namespace to itself: its objects are what its   *)
(* own runs make of them, and what the garbage collector leaves.           *)
(***************************************************************************)
CONSTANTS
    None,
    Objects(_)  \* the objects a spec calls for

VARIABLES
    cluster,    \* the HelloCluster, None while there is none
    run,        \* the reconciliation in progress: its snapshot, what it applied
    own         \* the objects of the cluster

vars == <<cluster, run, own>>

SameObject(o, p) == o.kind = p.kind /\ o.name = p.name

Init == cluster = None /\ run = None /\ own = {}

\* The user creates, edits or deletes the HelloCluster.
Change == cluster' # cluster /\ UNCHANGED <<run, own>>

\* What is owned by a HelloCluster of the past goes away.
CollectGarbage ==
    /\ UNCHANGED <<cluster, run>>
    /\ \E o \in own :
         /\ cluster # None => cluster.uid # o.owner
         /\ own' = {p \in own : p.owner # o.owner}

Begin ==
    /\ run = None /\ cluster # None
    /\ run' = [spec |-> cluster, applied |-> {}]
    /\ UNCHANGED <<cluster, own>>

\* Nothing stands in the way of an object, and it only replaces its like.
Apply ==
    /\ run # None
    /\ UNCHANGED cluster
    /\ \E o \in Objects(run.spec) \ run.applied :
         /\ run' = [spec |-> run.spec, applied |-> run.applied \cup {o}]
         /\ own' = {p \in own : ~SameObject(p, o)} \cup {o}

\* A complete run keeps nothing but what it has applied.
DeleteOrphans ==
    /\ run # None /\ run' = None
    /\ run.applied = Objects(run.spec)
    /\ own' = {o \in own : \E p \in run.applied : SameObject(o, p)}
    /\ UNCHANGED cluster

Fail ==
    /\ run # None
    /\ run' = None
    /\ UNCHANGED <<cluster, own>>

Next == Change \/ CollectGarbage \/ Begin \/ Apply \/ DeleteOrphans \/ Fail

Spec == Init /\ [][Next]_vars
=============================================================================
