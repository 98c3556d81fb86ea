-------------------------- MODULE HelloReconcileInv --------------------------
(***************************************************************************)
(* The inductive invariant behind the safety properties of HelloReconcile: *)
(* what a run has done at each of its places, which generations objects    *)
(* may come from, and what is known while no trigger is pending.           *)
(***************************************************************************)
EXTENDS HelloReconcile

FirstObjects == {ServiceAccount, RoleBinding, RoleService}

\* Objects of the role groups the run is through with.
GroupsDone == UNION {GroupObjects(g) : g \in Work.groups \ left}

\* What has been handed to ClusterResources is determined by the place.
AddedByPlace ==
    /\ pc = "sa"  => added = {}
    /\ pc = "rb"  => added = {ServiceAccount}
    /\ pc = "svc" => added = {ServiceAccount, RoleBinding}
    /\ pc \in {"vector", "groups", "pdb"} => added = FirstObjects \cup GroupsDone
    /\ pc = "cm"  => added = FirstObjects \cup GroupsDone \cup {RoleGroupService(grp)}
    /\ pc = "sts" => added = FirstObjects \cup GroupsDone
                               \cup {RoleGroupService(grp), ConfigMap(grp)}
    /\ pc \in {"status", "orphans"} => added = Needed(Work)

ProgressInv ==
    /\ ~Busy => added = {} /\ left = {} /\ avail = TRUE
    /\ Busy => left \subseteq Work.groups
    /\ pc \in {"sa", "rb", "svc", "vector"} => left = Work.groups
    /\ pc \in {"pdb", "status", "orphans"} => left = {}
    /\ pc \in {"cm", "sts"} => grp \notin Unbuildable(Work)
    /\ Busy => \A g \in Work.groups \ left : g \notin Unbuildable(Work)
    /\ AddedByPlace

\* Generations: nothing is newer than the snapshot, and what the run has added
\* is from the snapshot, unless somebody else removed it since.
GenerationInv ==
    /\ \A o \in Object : applied[o] <= cached
    /\ Busy => \A o \in Object : applied[o] <= snapshot
    /\ Busy /\ ~Frozen => \A o \in added :
         \/ applied[o] = snapshot
         \/ applied[o] = 0 /\ (Kind(o) \in Deletable \/ Gone(Current))

\* The places of a run after ResolveVectorAggregator.
Located == {"groups", "cm", "sts", "pdb", "status", "orphans"}

\* The address a run has found is the one in the ConfigMaps it has applied.
ShippingInv ==
    /\ pc \in Located /\ Work.aggregator => resolved # 0
    /\ Busy /\ ~Frozen =>
         \A g \in Group : ConfigMap(g) \in added => shipping[g] = VectorConfig(g)

\* No trigger is pending and the operator knows the current, usable spec.
Clean == ~events /\ sched # "queued" /\ cached = Latest /\ Current.health = "ok"

\* The live StatefulSets of groups G have the pods they want.
AllAvailable(G) == \A g \in G : ready[g] = Want(applied, g)

\* While no trigger is pending, what the run did and saw still holds.
SettlingInv ==
    /\ Busy /\ snapshot < cached => sched = "queued" \/ Gone(history[cached])
    /\ Busy /\ Clean =>
         /\ \A o \in added : Tracked(o) =>
                IF Frozen THEN applied[o] # 0 ELSE applied[o] = snapshot
         /\ avail = AllAvailable(Work.groups \ left)
         /\ pc = "orphans" => status = NewStatus

InductiveInv ==
    /\ TypeOK
    /\ ProgressInv
    /\ GenerationInv
    /\ DependenciesFirst
    /\ SettlingInv
    /\ ShippingInv
    /\ OneAggregator
    /\ QuiescentCorrect
=============================================================================
