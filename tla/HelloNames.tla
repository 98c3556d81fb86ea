----------------------------- MODULE HelloNames -----------------------------
(***************************************************************************)
(* Several HelloClusters of one namespace: the names and labels of their   *)
(* objects, which of them a run takes for its own, and the pods their      *)
(* Services lead to.  HelloReconcile has one cluster whose objects nobody  *)
(* else names; here the runs of different clusters interleave, and the     *)
(* objects of some of them have the same names.                            *)
(***************************************************************************)
EXTENDS Integers, Sequences, FiniteSets

CONSTANTS
    None,
    Word,       \* what stands between the dashes of a name
    Name,       \* names of clusters, as sequences of words
    GroupName,  \* names of role groups
    Wanted,     \* what a spec may ask for: role groups with replicas, and stopped
    MaxClusters,    \* bounds on the HelloClusters at one time, on what the
    MaxEdits,       \* users do and on how often runs fail
    MaxFaults

ASSUME NamesAssumption ==
    /\ "server" \in Word
    /\ Name \subseteq Seq(Word) /\ GroupName \subseteq Seq(Word)
    /\ \A g \in GroupName : Len(g) > 0
    /\ \A w \in Wanted :
         /\ w.stopped \in BOOLEAN
         /\ DOMAIN w.groups \subseteq GroupName
         /\ \A g \in DOMAIN w.groups : w.groups[g] \in Nat \cup {None}

VARIABLES
    clusters,   \* the HelloClusters by name, None where there is none
    run,        \* the reconciliation in progress: its snapshot, what it applied
    settled,    \* names with a run completed for their present spec
    objects,    \* the applied objects
    created,    \* number of HelloClusters ever created, for their uids
    named,      \* names of all HelloClusters so far (history)
    edits, faults

vars == <<clusters, run, settled, objects, created, named, edits, faults>>

-----------------------------------------------------------------------------
\* Mutant: the role is not part of the name.
ObjectNameWithoutRole(c, g) == c \o g

\* RoleGroupRef::object_name of server_rolegroup_ref.
ObjectName(c, g) == c \o <<"server">> \o g

Kind == {"Service", "ConfigMap", "StatefulSet"}

RoleService(c, spec) ==
    [kind |-> "Service", name |-> c, instance |-> c, group |-> <<"global">>,
     owner |-> spec.uid, byGroup |-> FALSE, replicas |-> None]

\* The headless Service, the ConfigMap and the StatefulSet of a role group
\* have one name.  byGroup: a Service that selects by role group.
GroupObject(k, c, g, spec) ==
    [kind |-> k, name |-> ObjectName(c, g), instance |-> c, group |-> g,
     owner |-> spec.uid, byGroup |-> k = "Service",
     replicas |-> IF k # "StatefulSet" THEN None
                  ELSE IF spec.stopped THEN 0 ELSE spec.groups[g]]

\* What a run with this spec applies, apart from the ServiceAccount, the
\* RoleBinding and the PodDisruptionBudget: one of each kind for a cluster, so
\* that their names do not meet.
Objects(c, spec) ==
    {RoleService(c, spec)}
        \cup {GroupObject(k, c, g, spec) : k \in Kind, g \in DOMAIN spec.groups}

SameObject(o, p) == o.kind = p.kind /\ o.name = p.name

Rank == [Service |-> 1, ConfigMap |-> 2, StatefulSet |-> 3]

\* The order of a run: the role Service, then one role group after the other
\* (whichever comes first in a HashMap), each kind by kind.
InTurn(o, c, spec, applied) ==
    LET pending == Objects(c, spec) \ applied
    IN  /\ RoleService(c, spec) \in pending => o = RoleService(c, spec)
        /\ \A p \in pending :
             IF p.name = o.name THEN Rank[o.kind] <= Rank[p.kind]
             ELSE \A q \in applied : q.name # p.name

\* The selector of a StatefulSet is immutable.
Accepted(o) == \A p \in objects :
    SameObject(o, p) /\ o.kind = "StatefulSet" => p.instance = o.instance /\ p.group = o.group

\* There is an object of that name, and it is another cluster's.
Taken(o) == \E p \in objects : SameObject(o, p) /\ p.instance # o.instance

\* Mutant: every object of the operator that the run did not apply.
OrphansOfAll(c, applied) == {o \in objects : \A p \in applied : ~SameObject(o, p)}

\* The objects whose labels name the cluster, but that the run did not apply.
Orphans(c, applied) == {o \in objects : o.instance = c /\ \A p \in applied : ~SameObject(o, p)}

-----------------------------------------------------------------------------
Init ==
    /\ clusters = [c \in Name |-> None] /\ run = [c \in Name |-> None]
    /\ settled = {} /\ objects = {} /\ created = 0 /\ named = {}
    /\ edits = 0 /\ faults = 0

Create(c, w) ==
    /\ clusters[c] = None /\ edits < MaxEdits
    /\ Cardinality({d \in Name : clusters[d] # None}) < MaxClusters
    /\ clusters' = [clusters EXCEPT ![c] =
                      [groups |-> w.groups, stopped |-> w.stopped, uid |-> created]]
    /\ created' = created + 1 /\ named' = named \cup {c}
    /\ edits' = edits + 1
    /\ UNCHANGED <<run, settled, objects, faults>>

Edit(c, w) ==
    /\ clusters[c] # None /\ edits < MaxEdits
    /\ clusters' = [clusters EXCEPT ![c] =
                      [groups |-> w.groups, stopped |-> w.stopped, uid |-> clusters[c].uid]]
    /\ settled' = settled \ {c}
    /\ edits' = edits + 1
    /\ UNCHANGED <<run, objects, created, named, faults>>

Delete(c) ==
    /\ clusters[c] # None /\ edits < MaxEdits
    /\ clusters' = [clusters EXCEPT ![c] = None]
    /\ settled' = settled \ {c}
    /\ edits' = edits + 1
    /\ UNCHANGED <<run, objects, created, named, faults>>

\* Garbage collection goes by the uid of the owner; the objects of one owner
\* are collected together.
CollectGarbage ==
    /\ \E o \in objects :
         /\ \A c \in Name : clusters[c] # None => clusters[c].uid # o.owner
         /\ objects' = {p \in objects : p.owner # o.owner}
    /\ UNCHANGED <<clusters, run, settled, created, named, edits, faults>>

Begin(c) ==
    /\ run[c] = None /\ clusters[c] # None
    /\ run' = [run EXCEPT ![c] = [spec |-> clusters[c], applied |-> {}]]
    /\ UNCHANGED <<clusters, settled, objects, created, named, edits, faults>>

\* Server-side apply overwrites an object of that name, whoever owns it: all
\* clusters are written by the same field manager.
Apply(c) ==
    /\ run[c] # None
    /\ \E o \in Objects(c, run[c].spec) \ run[c].applied :
         /\ InTurn(o, c, run[c].spec, run[c].applied)
         /\ Accepted(o)
         /\ objects' = {p \in objects : ~SameObject(p, o)} \cup {o}
         /\ run' = [run EXCEPT ![c].applied = run[c].applied \cup {o}]
    /\ UNCHANGED <<clusters, settled, created, named, edits, faults>>

\* A run deletes what is labelled as its cluster's and was not applied by it.
DeleteOrphans(c) ==
    /\ run[c] # None /\ run[c].applied = Objects(c, run[c].spec)
    /\ objects' = objects \ Orphans(c, run[c].applied)
    /\ run' = [run EXCEPT ![c] = None]
    /\ settled' = IF clusters[c] = run[c].spec THEN settled \cup {c} ELSE settled
    /\ UNCHANGED <<clusters, created, named, edits, faults>>

\* The API server refuses an object: a change of the selector or, of another
\* cluster's Service, of fields that are left out here (cluster IP, type).
\* The retry is another run.
Refuse(c) ==
    /\ run[c] # None
    /\ \E o \in Objects(c, run[c].spec) \ run[c].applied :
         /\ InTurn(o, c, run[c].spec, run[c].applied)
         /\ ~Accepted(o) \/ Taken(o)
    /\ run' = [run EXCEPT ![c] = None]
    /\ UNCHANGED <<clusters, settled, objects, created, named, edits, faults>>

\* Any other error, or a crash.
Fail(c) ==
    /\ run[c] # None /\ faults < MaxFaults
    /\ run' = [run EXCEPT ![c] = None]
    /\ faults' = faults + 1
    /\ UNCHANGED <<clusters, settled, objects, created, named, edits>>

User == \E c \in Name : Delete(c) \/ \E w \in Wanted : Create(c, w) \/ Edit(c, w)
Operator == \E c \in Name : Begin(c) \/ Apply(c) \/ DeleteOrphans(c) \/ Refuse(c) \/ Fail(c)

Next == User \/ CollectGarbage \/ Operator

Spec == Init /\ [][Next]_vars

-----------------------------------------------------------------------------
\* The pods of a StatefulSet; the API server fills in one replica for none.
PodsOf(o) ==
    {[name |-> <<o.name, i>>, service |-> o.name, instance |-> o.instance, group |-> o.group]
        : i \in 0..(IF o.replicas = None THEN 0 ELSE o.replicas - 1)}

Pods == UNION {PodsOf(o) : o \in {p \in objects : p.kind = "StatefulSet"}}

\* The selectors of the Services: by role or by role group.
Selects(service, pod) ==
    /\ pod.instance = service.instance
    /\ service.byGroup => pod.group = service.group

\* The name d goes on from the name c with the role.
Continues(d, c) ==
    /\ Len(c) < Len(d)
    /\ \A i \in 1..Len(c) : d[i] = c[i]
    /\ d[Len(c) + 1] = "server"

(***************************************************************************)
(* Two names are rivals if objects of clusters of these names may get the  *)
(* same name.  Nothing in the code keeps users from naming one cluster a   *)
(* and another one a-server-b.                                             *)
(***************************************************************************)
Rivals(c, d) == Continues(c, d) \/ Continues(d, c)

\* There never was a cluster of a rival name.
Unrivalled(c) == \A d \in named : ~Rivals(c, d)

(***************************************************************************)
(* What a completed run has applied stays the cluster's until the user     *)
(* changes its spec, and nothing else is labelled as the cluster's: runs   *)
(* of other clusters, current or outdated, overwrite and delete none of    *)
(* it (as long as they are no rivals), nor does the garbage collection for *)
(* a cluster of the same name.                                             *)
(***************************************************************************)
OwnObjects == \A c \in settled : Unrivalled(c) =>
    Objects(c, clusters[c]) = {o \in objects : o.instance = c}

(***************************************************************************)
(* The Services of a cluster without rivals lead to the pods they are for, *)
(* of all the pods in the namespace: the one named like the cluster to all *)
(* pods of the cluster, the one of a role group to the pods of its         *)
(* StatefulSet.                                                            *)
(***************************************************************************)
PodsReached == \A c \in settled : Unrivalled(c) => \A s \in {o \in objects : o.kind = "Service"} :
    /\ s.name = c => {p \in Pods : Selects(s, p)} = {p \in Pods : p.instance = c}
    /\ \A g \in DOMAIN clusters[c].groups :
         s.name = ObjectName(c, g) =>
           {p \in Pods : Selects(s, p)} = {p \in Pods : p.service = ObjectName(c, g)}

(***************************************************************************)
(* "The Pods are accessible through the corresponding Service": the pods   *)
(* of a settled cluster are selected by the Service of their StatefulSet's *)
(* name.                                                                   *)
(***************************************************************************)
PodsAccessible == \A c \in settled : \A p \in {q \in Pods : q.instance = c} :
    \E s \in objects : s.kind = "Service" /\ s.name = p.service /\ Selects(s, p)

(***************************************************************************)
(* Of a cluster without rivals, no object a run has still to apply is      *)
(* refused: no StatefulSet of its name has another selector, be it of an   *)
(* earlier spec or an earlier HelloCluster of the same name, and none of   *)
(* its names is taken.                                                     *)
(***************************************************************************)
Unhindered == \A c \in Name : run[c] # None /\ Unrivalled(c) =>
    \A o \in Objects(c, run[c].spec) \ run[c].applied : Accepted(o) /\ ~Taken(o)

-----------------------------------------------------------------------------
\* What is to be seen of the cluster c alone.
Alone(c) == INSTANCE ClusterAlone
    WITH Objects <- LAMBDA spec : Objects(c, spec),
         cluster <- clusters[c], run <- run[c], own <- {o \in objects : o.instance = c}

(***************************************************************************)
(* Clusters do not interfere: until a rival of it is created, each of them *)
(* sees its objects change as if it had the namespace, the operator and    *)
(* the garbage collector to itself.                                        *)
(***************************************************************************)
ImplementsAlone ==
    /\ \A c \in Name : Alone(c)!Init
    /\ [][\A c \in Name : Unrivalled(c) => UNCHANGED Alone(c)!vars \/ Alone(c)!Next]_vars
=============================================================================
