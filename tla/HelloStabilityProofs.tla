------------------------- MODULE HelloStabilityProofs -------------------------
(***************************************************************************)
(* Proofs that a run is finite and that a settled cluster is left alone.   *)
(***************************************************************************)
EXTENDS HelloStability, HelloReconcileProofs, FiniteSetTheorems

-----------------------------------------------------------------------------
(***************************************************************************)
(* The requests left.                                                      *)
(***************************************************************************)
LEMMA KindsFinite == IsFiniteSet(Kinds)
<1>1. \A x : IsFiniteSet({x})
  BY FS_Singleton
<1>2. IsFiniteSet({"ServiceAccount"} \cup {"RoleBinding"})
  BY <1>1, FS_Union
<1>3. IsFiniteSet(({"ServiceAccount"} \cup {"RoleBinding"}) \cup {"PodDisruptionBudget"})
  BY <1>1, <1>2, FS_Union
<1>4. IsFiniteSet({"Service"} \cup {"ConfigMap"})
  BY <1>1, FS_Union
<1>5. IsFiniteSet(({"Service"} \cup {"ConfigMap"}) \cup {"StatefulSet"})
  BY <1>1, <1>4, FS_Union
<1>6. IsFiniteSet((({"ServiceAccount"} \cup {"RoleBinding"}) \cup {"PodDisruptionBudget"})
                  \cup (({"Service"} \cup {"ConfigMap"}) \cup {"StatefulSet"}))
  BY <1>3, <1>5, FS_Union
<1>7. Kinds = (({"ServiceAccount"} \cup {"RoleBinding"}) \cup {"PodDisruptionBudget"})
              \cup (({"Service"} \cup {"ConfigMap"}) \cup {"StatefulSet"})
  BY DEF Kinds
<1>8. QED
  BY <1>6, <1>7

\* A cluster has finitely many objects.
LEMMA ObjectFinite == IsFiniteSet(Object)
<1>1. IsFiniteSet(Group \cup {"global"})
  BY GroupsAssumption, FS_Singleton, FS_Union
<1>2. IsFiniteSet(Kinds \X (Group \cup {"global"}))
  BY <1>1, KindsFinite, FS_Product
<1>3. Object \subseteq Kinds \X (Group \cup {"global"})
  BY DEF Object, ClusterObjects, GroupObjects, Kinds, ServiceAccount, RoleBinding, RoleService,
         PodDisruptionBudget, RoleGroupService, ConfigMap, StatefulSet
<1>4. QED
  BY <1>2, <1>3, FS_Subset

\* The number of requests left is a number.
LEMMA RequestsLeftType ==
    ASSUME TypeOK, Busy
    PROVE  /\ RequestsLeft \in Nat /\ Place[pc] \in 1 .. 7
           /\ IsFiniteSet(left) /\ Cardinality(left) \in Nat
           /\ IsFiniteSet(Orphans) /\ Cardinality(Orphans) \in Nat
<1>1. IsFiniteSet(left) /\ Cardinality(left) \in Nat
  BY GroupsAssumption, FS_Subset, FS_CardinalityType DEF TypeOK
<1>2. Orphans \subseteq Object
  BY DEF Orphans
<1>3. IsFiniteSet(Orphans) /\ Cardinality(Orphans) \in Nat
  BY <1>2, ObjectFinite, FS_Subset, FS_CardinalityType
<1>4. Place[pc] \in 1 .. 7
  BY DEF Busy, Steps, Place
<1>5. QED
  BY <1>1, <1>3, <1>4 DEF RequestsLeft

LEMMA NextRequestsLeftType ==
    ASSUME TypeOK', Busy'
    PROVE  /\ RequestsLeft' \in Nat /\ Place[pc'] \in 1 .. 7
           /\ Cardinality(left') \in Nat /\ Cardinality(Orphans') \in Nat
<1>1. (/\ RequestsLeft \in Nat /\ Place[pc] \in 1 .. 7
       /\ IsFiniteSet(left) /\ Cardinality(left) \in Nat
       /\ IsFiniteSet(Orphans) /\ Cardinality(Orphans) \in Nat)'
  BY RequestsLeftType, PTL
<1>2. QED
  BY <1>1 DEF Place

\* Sets that do not grow leave no more requests.
LEMMA Shorter ==
    ASSUME TypeOK, TypeOK', Busy, Busy', Orphans' \subseteq Orphans, left' \subseteq left
    PROVE  /\ Cardinality(Orphans') <= Cardinality(Orphans)
           /\ Cardinality(left') <= Cardinality(left)
           /\ Place[pc'] <= Place[pc] => RequestsLeft' <= RequestsLeft
           /\ Place[pc'] < Place[pc] => RequestsLeft' < RequestsLeft
<1>1. /\ Cardinality(Orphans') <= Cardinality(Orphans)
      /\ Cardinality(left') <= Cardinality(left)
  BY RequestsLeftType, FS_Subset
<1>2. /\ Place[pc] \in 1 .. 7 /\ Cardinality(left) \in Nat /\ Cardinality(Orphans) \in Nat
      /\ Place[pc'] \in 1 .. 7 /\ Cardinality(left') \in Nat /\ Cardinality(Orphans') \in Nat
  BY RequestsLeftType, NextRequestsLeftType
<1>3. RequestsLeft' = Place[pc'] + 3 * Cardinality(left') + Cardinality(Orphans')
  BY DEF RequestsLeft, Place
<1>4. QED
  BY <1>1, <1>2, <1>3 DEF RequestsLeft

\* The orphans of a run do not become more while objects only go, unless the
\* run adds them.
LEMMA FewerOrphans ==
    ASSUME TypeOK, Busy, UNCHANGED snapshot, added \subseteq added',
           \/ UNCHANGED history
           \/ \E s \in ClusterSpec : history' = Append(history, s),
           \A o \in Object : o \in added' \/ applied'[o] = applied[o] \/ applied'[o] = 0
    PROVE  Orphans' \subseteq Orphans
<1>1. Frozen' = Frozen
  BY SnapshotKept DEF Work, Frozen
<1>2. Object' = Object
  BY DEF Object
<1>3. QED
  BY <1>1, <1>2 DEF Orphans

LEMMA AddShortens ==
    ASSUME TypeOK, TypeOK', Busy, Busy', NEW o \in Object, Add(o), left' \subseteq left
    PROVE  /\ Orphans' \subseteq Orphans
           /\ Place[pc'] < Place[pc] => RequestsLeft' < RequestsLeft
<1>1. UNCHANGED <<snapshot, history>> /\ added' = added \cup {o}
  BY DEF Add
<1>2. \A p \in Object : p \in added' \/ applied'[p] = applied[p]
  BY <1>1, PutEffect DEF Add
<1>3. Orphans' \subseteq Orphans
  BY <1>1, <1>2, FewerOrphans
<1>4. QED
  BY <1>3, Shorter

LEMMA ReconcileShortens ==
    ASSUME TypeOK, TypeOK', ProgressInv, Reconcile, Busy, Busy'
    PROVE  RequestsLeft' < RequestsLeft
<1>0. ~Begin /\ ~Retry /\ ~Finish
  BY DEF Begin, Retry, Finish, AwaitChange, Busy, Steps
<1>1. CASE ApplyServiceAccount \/ ApplyRoleBinding \/ ApplyRoleService
  <2>1. \E o \in ClusterObjects : Add(o)
    BY <1>1 DEF ApplyServiceAccount, ApplyRoleBinding, ApplyRoleService, ClusterObjects
  <2>2. left' = left /\ Place[pc'] < Place[pc]
    BY <1>1 DEF ApplyServiceAccount, ApplyRoleBinding, ApplyRoleService, Place
  <2>3. QED
    BY <2>1, <2>2, NamedObjects, AddShortens
<1>2. CASE ResolveVectorAggregator
  <2>1. UNCHANGED <<snapshot, history, added, applied, left>> /\ Place[pc'] < Place[pc]
    BY <1>2 DEF ResolveVectorAggregator, AfterGroup, Place, server
  <2>2. Orphans' \subseteq Orphans
    BY <2>1, FewerOrphans
  <2>3. QED
    BY <2>1, <2>2, Shorter
<1>3. ASSUME NEW g \in Group, ApplyRoleGroupService(g) PROVE RequestsLeft' < RequestsLeft
  <2>1. left' = left /\ Place[pc'] < Place[pc] /\ Add(RoleGroupService(g))
    BY <1>3 DEF ApplyRoleGroupService, Place
  <2>2. QED
    BY <2>1, NamedObjects, AddShortens
<1>4. CASE ApplyConfigMap
  <2>1. /\ left' = left /\ Place[pc'] < Place[pc] /\ Add(ConfigMap(grp))
        /\ grp \in Group
    BY <1>4 DEF ApplyConfigMap, Place, TypeOK
  <2>2. QED
    BY <2>1, NamedObjects, AddShortens
<1>5. CASE ApplyStatefulSet
  <2>1. /\ left' = left \ {grp} /\ grp \in left /\ Add(StatefulSet(grp)) /\ grp \in Group
        /\ Place[pc] = 1 /\ Place[pc'] = 3
    BY <1>5 DEF ApplyStatefulSet, Place, TypeOK, AfterGroup
  <2>2. Cardinality(left') = Cardinality(left) - 1
    BY <2>1, RequestsLeftType, FS_RemoveElement
  <2>3. Cardinality(Orphans') <= Cardinality(Orphans)
    BY <2>1, NamedObjects, AddShortens, Shorter
  <2>4. Cardinality(Orphans') \in Nat
    BY NextRequestsLeftType
  <2>5. RequestsLeft' = Place[pc'] + 3 * Cardinality(left') + Cardinality(Orphans')
    BY DEF RequestsLeft, Place
  <2>6. QED
    BY <2>1, <2>2, <2>3, <2>4, <2>5, RequestsLeftType DEF RequestsLeft
<1>6. CASE AddPdbs
  <2>1. left' = left /\ Place[pc'] < Place[pc]
    BY <1>6 DEF AddPdbs, Place
  <2>2. CASE Add(PodDisruptionBudget)
    BY <2>1, <2>2, NamedObjects, AddShortens
  <2>3. CASE UNCHANGED <<snapshot, history, added, applied>>
    BY <2>1, <2>3, FewerOrphans, Shorter
  <2>4. QED
    BY <1>6, <2>2, <2>3 DEF AddPdbs, server
<1>7. CASE PatchStatus
  <2>1. UNCHANGED <<snapshot, history, added, applied, left>> /\ Place[pc'] < Place[pc]
    BY <1>7 DEF PatchStatus, Place
  <2>2. QED
    BY <2>1, FewerOrphans, Shorter
<1>8. ASSUME NEW o \in Object, DeleteOrphan(o) PROVE RequestsLeft' < RequestsLeft
  <2>1. UNCHANGED <<snapshot, history, added, left, pc>> /\ o \in Orphans
        /\ applied' = [applied EXCEPT ![o] = 0]
    BY <1>8 DEF DeleteOrphan, run
  <2>2. \A p \in Object : applied'[p] = IF p = o THEN 0 ELSE applied[p]
    BY <2>1 DEF TypeOK
  <2>3. Orphans' \subseteq Orphans \ {o}
    BY <2>1, <2>2, FewerOrphans DEF Orphans, Object
  <2>4. /\ IsFiniteSet(Orphans \ {o})
        /\ Cardinality(Orphans \ {o}) = Cardinality(Orphans) - 1
    BY <2>1, RequestsLeftType, FS_RemoveElement
  <2>5. Cardinality(Orphans') <= Cardinality(Orphans \ {o})
    BY <2>3, <2>4, FS_Subset
  <2>6. Cardinality(Orphans') \in Nat
    BY NextRequestsLeftType
  <2>7. RequestsLeft' = Place[pc] + 3 * Cardinality(left) + Cardinality(Orphans')
    BY <2>1 DEF RequestsLeft, Place
  <2>8. QED
    BY <2>4, <2>5, <2>6, <2>7, RequestsLeftType DEF RequestsLeft
<1>9. QED
  BY <1>0, <1>1, <1>2, <1>3, <1>4, <1>5, <1>6, <1>7, <1>8
  DEF Reconcile, AggregatorMissing, BuildFails, StatusTargetGone, AddRefused

LEMMA OthersDoNotLengthen ==
    ASSUME TypeOK, TypeOK', [Next]_vars, ~Reconcile, Busy, Busy'
    PROVE  RequestsLeft' <= RequestsLeft
<1>1. UNCHANGED <<pc, snapshot, added, left>>
  BY DEF Next, Environment, DeliverSpec, DeliverEvent, TimerFires, Start, CollectGarbage,
         ScalePods, Edit, Delete, PodFails, Tamper, AggregatorChanges, Crash, AnswerLost,
         RequestFails, Retry, Busy, Steps, vars, server, runtime, run
<1>2. \/ UNCHANGED history
      \/ \E s \in ClusterSpec : history' = Append(history, s)
  BY HistoryGrows
  DEF Next, Environment, DeliverSpec, DeliverEvent, TimerFires, Start, CollectGarbage,
      ScalePods, PodFails, Tamper, AggregatorChanges, Crash, AnswerLost,
      RequestFails, vars, server, runtime, run
<1>3. \A o \in Object : applied'[o] = applied[o] \/ applied'[o] = 0
  <2>1. CASE \E o \in Object : Tamper(o)
    BY <2>1 DEF Tamper, TypeOK
  <2>2. CASE CollectGarbage
    BY <2>2 DEF CollectGarbage
  <2>3. CASE AnswerLost \/ RequestFails \/ Crash \/ Start
    BY <2>3 DEF AnswerLost, RequestFails, Crash, Start, Retry, Busy, Steps
  <2>4. CASE UNCHANGED applied
    BY <2>4
  <2>5. QED
    BY <2>1, <2>2, <2>3, <2>4
    DEF Next, Environment, DeliverSpec, DeliverEvent, TimerFires, ScalePods, Edit, Delete,
        PodFails, AggregatorChanges, vars, server
<1>4. Orphans' \subseteq Orphans /\ Place[pc'] = Place[pc]
  BY <1>1, <1>2, <1>3, FewerOrphans
<1>5. QED
  BY <1>1, <1>4, RequestsLeftType, Shorter

\* A run makes a bounded number of requests, and nobody makes them more.
THEOREM RunShortensHolds == Spec => RunShortens
<1>1. /\ TypeOK /\ TypeOK' /\ ProgressInv /\ [Next]_vars
      => [Busy /\ Busy' => /\ RequestsLeft' \in 0 .. RequestsLeft
                           /\ Reconcile => RequestsLeft' # RequestsLeft]_vars
  <2> SUFFICES ASSUME TypeOK, TypeOK', ProgressInv, [Next]_vars, Busy, Busy'
               PROVE  /\ RequestsLeft' \in 0 .. RequestsLeft
                      /\ Reconcile => RequestsLeft' # RequestsLeft
    OBVIOUS
  <2>1. RequestsLeft \in Nat
    BY RequestsLeftType
  <2>2. RequestsLeft' \in Nat
    BY NextRequestsLeftType
  <2>3. RequestsLeft' <= RequestsLeft /\ (Reconcile => RequestsLeft' < RequestsLeft)
    BY <2>1, <2>2, ReconcileShortens, OthersDoNotLengthen
  <2>4. QED
    BY <2>1, <2>2, <2>3
<1>2. InductiveInv => TypeOK /\ ProgressInv
  BY DEF InductiveInv
<1>3. QED
  BY <1>1, <1>2, Inductive, PTL DEF Spec, RunShortens

-----------------------------------------------------------------------------
(***************************************************************************)
(* The settled cluster.                                                    *)
(***************************************************************************)
\* A run in a settled cluster works on the current spec.
LEMMA SteadyRun ==
    ASSUME TypeOK, SettlingInv, Steady, Busy
    PROVE  /\ Clean /\ snapshot = Latest /\ snapshot # 0 /\ Work = Current
           /\ Frozen <=> Current.paused
<1>1. Clean
  BY DEF Clean, Steady, Busy, Steps
<1>2. QED
  BY <1>1, CleanRun DEF Frozen, Strategy

\* What a run adds is what its spec needs; ConfigMaps come after the look-up.
LEMMA AddingNeeded ==
    ASSUME TypeOK, ProgressInv, NEW o \in Adding
    PROVE  /\ o \in Needed(Work) /\ o \in Object /\ Busy
           /\ \A g \in Group : o = ConfigMap(g) => pc \in Located
<1>1. o \in Object /\ Busy
  BY AddingObjects
<1>2. left \subseteq Work.groups /\ left \subseteq Group /\ (pc \in {"cm", "sts"} => grp \in left)
  BY <1>1 DEF ProgressInv, TypeOK
<1>3. CASE pc \in {"sa", "rb", "svc"}
  <2>1. o \in FirstObjects
    BY <1>3 DEF Adding, FirstObjects
  <2>2. QED
    BY <1>1, <2>1, NeededElements, ConfigMapNames
<1>4. CASE pc \in {"groups", "cm", "sts"}
  <2>1. \E g \in left : o \in GroupObjects(g)
    BY <1>2, <1>4 DEF Adding, GroupObjects
  <2>2. QED
    BY <1>1, <1>2, <1>4, <2>1, NeededElements DEF Located
<1>5. CASE pc = "pdb"
  <2>1. o = PodDisruptionBudget /\ Work.pdb
    BY <1>5 DEF Adding
  <2>2. o \in Pdbs(Work)
    BY <2>1 DEF Pdbs
  <2>3. QED
    BY <1>1, <1>5, <2>2, NeededElements DEF Located
<1>6. CASE pc \notin {"sa", "rb", "svc", "groups", "cm", "sts", "pdb"}
  BY <1>6 DEF Adding
<1>7. QED
  BY <1>3, <1>4, <1>5, <1>6

\* A group's ConfigMap or StatefulSet is needed only if the spec has the group.
LEMMA NeededGroups ==
    ASSUME NEW s \in ClusterSpec, NEW g \in Group,
           ConfigMap(g) \in Needed(s) \/ StatefulSet(g) \in Needed(s)
    PROVE  g \in s.groups
BY NeededElements, ConfigMapNames, StatefulSetNames
DEF ClusterSpec, GroupObjects, FirstObjects, Pdbs, ClusterObjects, ServiceAccount, RoleBinding,
    RoleService, PodDisruptionBudget, RoleGroupService, ConfigMap, StatefulSet

\* The replicas are part of what a StatefulSet contains.
LEMMA StatefulSetRender ==
    ASSUME NEW s, NEW r, NEW g \in Group, Render(s, StatefulSet(g)) = Render(r, StatefulSet(g))
    PROVE  Requested(s, g) = Requested(r, g)
<1>1. \A q : Render(q, StatefulSet(g)) = StatefulSetContents(q, g)
  BY DEF Render, StatefulSet, RoleService, PodDisruptionBudget, RoleGroupService, Kind
<1>2. QED
  BY <1>1 DEF StatefulSetContents

\* A ConfigMap written in a settled cluster holds the address it already has.
LEMMA SteadyShipping ==
    ASSUME TypeOK, SettlingInv, Steady, Busy, ~Frozen, pc \in Located,
           NEW g \in Current.groups
    PROVE  shipping[g] = VectorConfig(g)
<1>1. Work = Current /\ ~Current.paused
  BY SteadyRun
<1>2. shipping[g] = Destination(g) /\ (Current.aggregator => resolved = address)
  BY <1>1 DEF Steady, AgentsUpToDate
<1>3. g \in Current.vector => Current.aggregator
  BY DEF Steady, Settled, Unbuildable
<1>4. QED
  BY <1>1, <1>2, <1>3 DEF Destination, VectorConfig

\* Adding an object to a settled cluster changes nothing and raises no event.
LEMMA SteadyPut ==
    ASSUME TypeOK, ProgressInv, SettlingInv, Steady, NEW o \in Adding, Put(o),
           UNCHANGED <<history, ready, address, status>>
    PROVE  Settled(Current)' /\ ~events' /\ UNCHANGED shipping
<1>1. /\ o \in Needed(Work) /\ o \in Object /\ Busy
      /\ \A g \in Group : o = ConfigMap(g) => pc \in Located
  BY AddingNeeded
<1>2. /\ Clean /\ snapshot = Latest /\ snapshot # 0 /\ Work = Current
      /\ Current \in ClusterSpec /\ Current' = Current
  BY <1>1, SteadyRun, HistoryEntries DEF Current, Latest
<1>3. Settled(Current) /\ ~events
  BY DEF Steady
<1>4. CASE Frozen
  <2>1. UNCHANGED <<applied, shipping, events>>
    BY <1>4 DEF Put
  <2>2. QED
    BY <1>2, <1>3, <2>1 DEF Settled, UpToDate, Want
<1>5. CASE ~Frozen
  <2>1. ~Current.paused /\ Strategy(Current) # "ReconciliationPaused"
    BY <1>1, <1>2, <1>5, SteadyRun DEF Strategy
  <2>2. /\ applied' = [applied EXCEPT ![o] = snapshot]
        /\ shipping' = [g \in Group |-> IF o = ConfigMap(g) THEN VectorConfig(g) ELSE shipping[g]]
        /\ events' = (events \/ (Kind(o) \in Watched /\ Changed(o)))
    BY <1>5 DEF Put
  <2>3. \A p \in Object : applied'[p] = IF p = o THEN snapshot ELSE applied[p]
    BY <2>2 DEF TypeOK
  <2>4. \A g \in Group : o = ConfigMap(g) => shipping[g] = VectorConfig(g)
    BY <1>1, <1>2, <1>5, NeededGroups, SteadyShipping
  <2>5. UNCHANGED shipping
    BY <2>2, <2>4 DEF TypeOK
  <2>6. Tracked(o) => applied[o] # 0 /\ Render(history[applied[o]], o) = Render(Current, o)
    BY <1>1, <1>2, <1>3, <2>1 DEF Settled, UpToDate
  <2>7. ~events'
    BY <1>2, <1>3, <2>2, <2>4, <2>6 DEF Changed, Tracked
  <2>8. ASSUME NEW p \in Needed(Current), Tracked(p)' PROVE UpToDate(Current, p)'
    <3>1. p \in Object
      BY <1>2 DEF Needed, ClusterSpec, Object, ClusterObjects, Pdbs
    <3>2. UpToDate(Current, p)
      BY <1>3, <2>8 DEF Settled, Tracked
    <3>3. CASE p = o
      BY <1>2, <2>3, <3>1, <3>3 DEF UpToDate, Current
    <3>4. CASE p # o
      BY <1>2, <2>3, <3>1, <3>2, <3>4 DEF UpToDate
    <3>5. QED
      BY <3>3, <3>4
  <2>9. \A p \in Object \ Needed(Current) : applied'[p] = 0
    BY <1>1, <1>2, <1>3, <2>1, <2>3 DEF Settled
  <2>10. ASSUME NEW g \in Current.groups
         PROVE  (ready[g] = Want(applied, g))' <=> ready[g] = Want(applied, g)
    <3>1. g \in Group /\ StatefulSet(g) \in Object
      BY <1>2, NamedObjects DEF ClusterSpec
    <3>2. CASE o # StatefulSet(g)
      BY <2>3, <3>1, <3>2, WantSame
    <3>3. CASE o = StatefulSet(g)
      <4>1. Tracked(o)
        BY <3>3 DEF Tracked, Watched, Kind, StatefulSet
      <4>2. applied[o] # 0 /\ Requested(history[applied[o]], g) = Requested(Current, g)
        BY <2>6, <3>1, <3>3, <4>1, StatefulSetRender
      <4>3. applied'[o] = snapshot /\ history'[snapshot] = Current
        BY <1>1, <1>2, <2>3 DEF Current
      <4>4. Want(applied, g) = Requested(history[applied[o]], g)
        BY <3>3, <4>2 DEF Want
      <4>5. Want(applied, g)' = Requested(history'[applied'[o]], g)
        BY <1>2, <3>3, <4>3 DEF Want
      <4>6. QED
        BY <4>2, <4>3, <4>4, <4>5
    <3>4. QED
      BY <3>2, <3>3
  <2>11. (\A g \in Current.groups : ready[g] = Want(applied, g))'
           <=> \A g \in Current.groups : ready[g] = Want(applied, g)
    BY <1>2, <2>10
  <2>12. status' = [operation |-> OperationConditions(Current'),
                    available |-> (\A g \in Current.groups : ready[g] = Want(applied, g))']
    BY <1>2, <1>3, <2>11 DEF Settled
  <2>13. QED
    BY <1>2, <1>3, <2>5, <2>7, <2>8, <2>9, <2>12 DEF Settled
<1>6. QED
  BY <1>4, <1>5

\* A step that leaves the cluster as it is and raises no event.
LEMMA SteadyKept ==
    ASSUME Steady, UNCHANGED <<history, ready, address, status, shipping>>,
           Settled(Current)', ~events',
           pc' # "down" => cached' = Latest,
           Busy' => sched' = "none",
           Current.paused \/ (pc' \in Located /\ Current.aggregator => resolved' = address)
    PROVE  Steady'
<1>1. Current' = Current /\ Latest' = Latest
  BY DEF Current, Latest
<1>2. AgentsUpToDate'
  BY <1>1 DEF Steady, AgentsUpToDate, Destination
<1>3. QED
  BY <1>1, <1>2 DEF Steady

\* So does one that does not write to the API server at all.
LEMMA SteadyElsewhere ==
    ASSUME Steady, UNCHANGED server, ~events',
           pc' # "down" => cached' = Latest,
           Busy' => sched' = "none",
           Current.paused \/ (pc' \in Located /\ Current.aggregator => resolved' = address)
    PROVE  Steady'
<1>1. Settled(Current)'
  BY DEF Steady, Settled, UpToDate, Want, Current, Latest, server
<1>2. QED
  BY <1>1, SteadyKept DEF server

\* A run goes on.
LEMMA SteadyGoesOn ==
    ASSUME TypeOK, ProgressInv, SettlingInv, Steady, NEW o \in Adding, Add(o),
           UNCHANGED resolved, pc' \in Located => pc \in Located
    PROVE  Steady'
<1>1. /\ Put(o) /\ Busy /\ UNCHANGED <<history, ready, address, status, cached, sched>>
  BY AddingObjects DEF Add
<1>2. /\ Settled(Current)' /\ ~events' /\ UNCHANGED shipping
      /\ pc # "down" /\ Work = Current
  BY <1>1, SteadyPut, SteadyRun DEF Busy, Steps
<1>3. Current.paused \/ (pc' \in Located /\ Current.aggregator => resolved' = address)
  BY <1>1 DEF Steady, AgentsUpToDate
<1>4. QED
  BY <1>1, <1>2, <1>3, SteadyKept DEF Steady

\* The status a run computes is the one there is.
LEMMA SteadyStatus ==
    ASSUME TypeOK, ProgressInv, SettlingInv, Steady, pc = "status"
    PROVE  status = NewStatus
<1>1. Busy /\ left = {}
  BY DEF Busy, Steps, ProgressInv
<1>2. Clean /\ Work = Current
  BY <1>1, SteadyRun
<1>3. avail = AllAvailable(Current.groups)
  <2>1. avail = AllAvailable(Work.groups \ left)
    BY <1>1, <1>2 DEF SettlingInv
  <2>2. Work.groups \ left = Current.groups
    BY <1>1, <1>2
  <2>3. QED
    BY <2>1, <2>2
<1>4. QED
  BY <1>2, <1>3 DEF Steady, Settled, NewStatus, AllAvailable

\* A run is over.
LEMMA SteadyRetry ==
    ASSUME Steady, Busy, Retry, UNCHANGED <<server, cached, events>>
    PROVE  Steady'
<1>1. pc' = "idle" /\ pc # "down"
  BY DEF Retry, Busy, Steps
<1>2. QED
  BY <1>1, SteadyElsewhere DEF Steady, Busy, Steps, Located

\* The answer to a request without effect may be lost.
LEMMA SteadyAnswerLost ==
    ASSUME TypeOK, ProgressInv, SettlingInv, Steady, AnswerLost
    PROVE  Steady'
<1>1. pc' = "idle" /\ UNCHANGED <<history, ready, address, cached>>
  BY DEF AnswerLost, Retry
<1>2. CASE UNCHANGED status /\ \E o \in Adding : Put(o)
  <2>1. Settled(Current)' /\ ~events' /\ UNCHANGED shipping /\ pc # "down"
    BY <1>1, <1>2, SteadyPut, AddingObjects DEF Busy, Steps
  <2>2. QED
    BY <1>1, <1>2, <2>1, SteadyKept DEF Steady, Busy, Steps, Located
<1>3. CASE /\ pc = "status"
           /\ status' = NewStatus
           /\ events' = (events \/ status # NewStatus)
           /\ UNCHANGED <<applied, shipping>>
  <2>1. UNCHANGED server /\ ~events' /\ pc # "down"
    BY <1>1, <1>3, SteadyStatus DEF Steady, server
  <2>2. QED
    BY <1>1, <2>1, SteadyElsewhere DEF Steady, Busy, Steps, Located
<1>4. QED
  BY <1>2, <1>3 DEF AnswerLost

LEMMA SteadyReconcile ==
    ASSUME TypeOK, ProgressInv, SettlingInv, Steady, Reconcile
    PROVE  Steady'
<1>1. ~events /\ (pc # "down" => cached = Latest) /\ (Busy => sched = "none")
  BY DEF Steady
<1>2. CASE Begin
  <2>1. cached = Latest /\ Current.health = "ok" /\ history[cached] = Current
    BY <1>2 DEF Begin, Steady, Current
  <2>2. pc' \notin Located /\ sched' = "none" /\ UNCHANGED <<server, cached, events>>
    BY <1>2, <2>1 DEF Begin, Located
  <2>3. QED
    BY <1>1, <2>1, <2>2, SteadyElsewhere DEF server
<1>3. ASSUME NEW o \in Adding, Add(o), UNCHANGED resolved, pc' \in Located => pc \in Located
      PROVE  Steady'
  BY <1>3, SteadyGoesOn
<1>4. CASE ApplyServiceAccount \/ ApplyRoleBinding \/ ApplyRoleService
  <2>1. UNCHANGED resolved /\ pc' \notin Located /\ \E o \in Adding : Add(o)
    BY <1>4 DEF ApplyServiceAccount, ApplyRoleBinding, ApplyRoleService, Adding, Located
  <2>2. QED
    BY <1>3, <2>1
<1>5. ASSUME NEW g \in Group, ApplyRoleGroupService(g) PROVE Steady'
  <2>1. UNCHANGED resolved /\ pc \in Located /\ \E o \in Adding : Add(o)
    BY <1>5 DEF ApplyRoleGroupService, Adding, Located
  <2>2. QED
    BY <1>3, <2>1
<1>6. CASE ApplyConfigMap \/ ApplyStatefulSet
  <2>1. UNCHANGED resolved /\ pc \in Located /\ \E o \in Adding : Add(o)
    BY <1>6 DEF ApplyConfigMap, ApplyStatefulSet, Adding, Located
  <2>2. QED
    BY <1>3, <2>1
<1>7. CASE AddPdbs
  <2>1. UNCHANGED resolved /\ pc \in Located /\ Busy /\ Busy'
    BY <1>7 DEF AddPdbs, Located, Busy, Steps
  <2>2. CASE Work.pdb /\ Add(PodDisruptionBudget)
    <3>1. PodDisruptionBudget \in Adding
      BY <1>7, <2>2 DEF AddPdbs, Adding
    <3>2. QED
      BY <1>3, <2>1, <2>2, <3>1
  <2>3. CASE UNCHANGED <<server, runtime>>
    BY <1>1, <2>1, <2>3, SteadyElsewhere
    DEF Steady, AgentsUpToDate, Located, Busy, Steps, runtime, server, Latest
  <2>4. QED
    BY <1>7, <2>2, <2>3 DEF AddPdbs
<1>8. CASE ResolveVectorAggregator
  <2>1. Busy /\ Busy' /\ UNCHANGED <<server, runtime>>
    BY <1>8 DEF ResolveVectorAggregator, AfterGroup, Busy, Steps
  <2>2. Work = Current
    BY <2>1, SteadyRun
  <2>3. Current.aggregator => resolved' = address
    BY <1>8, <2>2 DEF ResolveVectorAggregator
  <2>4. QED
    BY <1>1, <2>1, <2>3, SteadyElsewhere DEF runtime, server, Busy, Steps, Latest
<1>9. CASE PatchStatus
  <2>1. Busy /\ pc \in Located /\ UNCHANGED <<server, cached, sched, resolved>> /\ ~events'
    BY <1>1, <1>9, SteadyStatus DEF PatchStatus, Busy, Steps, Located, server
  <2>2. QED
    BY <1>1, <2>1, SteadyElsewhere DEF Steady, AgentsUpToDate, server, Busy, Steps, Latest
<1>10. CASE Finish
  <2>1. pc' = "idle" /\ pc # "down" /\ UNCHANGED <<server, cached, events>>
    BY <1>10 DEF Finish, AwaitChange
  <2>2. QED
    BY <1>1, <2>1, SteadyElsewhere DEF Located, Busy, Steps, server, Latest
<1>11. ASSUME NEW o \in Object, DeleteOrphan(o) PROVE Steady'
  <2>1. pc = "orphans" /\ Busy /\ o \in Orphans
    BY <1>11 DEF DeleteOrphan, Busy, Steps
  <2>2. Work = Current /\ added = Needed(Work) /\ (Frozen <=> Current.paused)
    BY <2>1, SteadyRun DEF ProgressInv, AddedByPlace
  <2>3. ~Frozen /\ applied[o] # 0 /\ o \notin Needed(Current)
    BY <2>1, <2>2 DEF Orphans
  <2>4. applied[o] = 0
    BY <2>2, <2>3 DEF Steady, Settled, Strategy
  <2>5. QED
    BY <2>3, <2>4
<1>12. CASE Retry /\ Busy /\ UNCHANGED <<server, cached, events>>
  BY <1>12, SteadyRetry
<1>13. CASE AggregatorMissing \/ BuildFails \/ StatusTargetGone \/ AddRefused
  BY <1>12, <1>13, AddingObjects
  DEF AggregatorMissing, BuildFails, StatusTargetGone, AddRefused, Busy, Steps
<1>14. QED
  BY <1>2, <1>4, <1>5, <1>6, <1>7, <1>8, <1>9, <1>10, <1>11, <1>13 DEF Reconcile

\* Nobody but the operator takes an own step in a settled cluster.
LEMMA SteadyOthers ==
    ASSUME TypeOK, ProgressInv, SettlingInv, Steady, OwnStep, Next, ~Reconcile
    PROVE  Steady'
<1>1. ~events /\ (pc # "down" => cached = Latest) /\ (Busy => sched = "none")
      /\ Current.health = "ok"
  BY DEF Steady
<1>2. UNCHANGED <<history, ready, address>>
  BY DEF OwnStep
<1>3. ~Edit /\ ~Delete
  <2>1. \A s : history' # Append(history, s)
    BY <1>2 DEF TypeOK
  <2>2. QED
    BY <2>1 DEF Edit, Delete
<1>4. /\ ~CollectGarbage /\ ~DeliverSpec /\ ~DeliverEvent /\ ~AggregatorChanges
      /\ \A g \in Group : ~ScalePods(g) /\ ~PodFails(g)
  <2>1. ~CollectGarbage /\ ~DeliverEvent /\ ~AggregatorChanges
    BY <1>1, <1>2 DEF CollectGarbage, DeliverEvent, AggregatorChanges, Gone
  <2>2. ~DeliverSpec
    BY <1>1, HistoryEntries DEF DeliverSpec
  <2>3. ASSUME NEW g \in Group PROVE ~ScalePods(g) /\ ~PodFails(g)
    <3>1. ready[g] \in Nat /\ ready'[g] = ready[g]
      BY <1>2 DEF TypeOK
    <3>2. QED
      BY <3>1 DEF ScalePods, PodFails, TypeOK
  <2>4. QED
    BY <2>1, <2>2, <2>3
<1>5. ASSUME NEW o \in Object, Tamper(o) PROVE FALSE
  BY <1>5 DEF Tamper, Fault, OwnStep, TypeOK, run
<1>6. CASE TimerFires
  BY <1>1, <1>6, SteadyElsewhere
  DEF TimerFires, run, server, Steady, AgentsUpToDate, Busy, Steps, Latest
<1>7. CASE Start
  BY <1>1, <1>7, SteadyElsewhere DEF Start, server, Located, Busy, Steps, Latest
<1>8. CASE Crash
  BY <1>1, <1>8, SteadyElsewhere DEF Crash, server, Located, Busy, Steps
<1>9. CASE AnswerLost
  BY <1>9, SteadyAnswerLost
<1>10. CASE RequestFails
  BY <1>10, SteadyRetry, AddingObjects DEF RequestFails, Busy, Steps
<1>11. QED
  BY <1>3, <1>4, <1>5, <1>6, <1>7, <1>8, <1>9, <1>10 DEF Next, Environment

\* A settled cluster stays settled, whatever the operator does and suffers.
THEOREM SteadyStaysHolds == Spec => SteadyStays
<1>1. TypeOK /\ ProgressInv /\ SettlingInv /\ [Next]_vars => [Steady /\ OwnStep => Steady']_vars
  BY SteadyReconcile, SteadyOthers
<1>2. InductiveInv => TypeOK /\ ProgressInv /\ SettlingInv
  BY DEF InductiveInv
<1>3. QED
  BY <1>1, <1>2, Inductive, PTL DEF Spec, SteadyStays

-----------------------------------------------------------------------------
(***************************************************************************)
(* The deleted cluster.                                                    *)
(***************************************************************************)
\* Nobody begins a run for it, and it is not edited any more.
LEMMA DismissedStep ==
    ASSUME TypeOK, Dismissed, [Next]_vars
    PROVE  Dismissed' /\ UNCHANGED history
<1>1. Gone(Current) /\ ~Busy /\ (pc # "down" => cached = Latest) /\ Adding = {}
  BY AddingObjects DEF Dismissed
<1>2. pc \notin Steps
  BY <1>1 DEF Busy
<1>3. ~Edit /\ ~Delete /\ ~DeliverSpec
  BY <1>1, HistoryEntries DEF Edit, Delete, DeliverSpec
<1>4. /\ ~(\E g \in Group : ApplyRoleGroupService(g)) /\ ~(\E o \in Object : DeleteOrphan(o))
      /\ ~ApplyServiceAccount /\ ~ApplyRoleBinding /\ ~ApplyRoleService
      /\ ~ResolveVectorAggregator /\ ~AggregatorMissing /\ ~BuildFails
      /\ ~ApplyConfigMap /\ ~ApplyStatefulSet /\ ~AddPdbs /\ ~PatchStatus /\ ~StatusTargetGone
      /\ ~Finish /\ ~AddRefused /\ ~AnswerLost /\ ~RequestFails
  BY <1>1, <1>2
  DEF ApplyRoleGroupService, DeleteOrphan, ApplyServiceAccount, ApplyRoleBinding,
      ApplyRoleService, ResolveVectorAggregator, AggregatorMissing, BuildFails,
      ApplyConfigMap, ApplyStatefulSet, AddPdbs, PatchStatus, StatusTargetGone, Finish,
      AddRefused, AnswerLost, RequestFails, Steps
<1>5. CASE Begin
  <2>1. history[cached].health # "ok"
    BY <1>1, <1>5 DEF Begin, Gone, Current
  <2>2. UNCHANGED <<history, pc, cached>>
    BY <1>5, <2>1 DEF Begin, server
  <2>3. QED
    BY <1>1, <2>2 DEF Dismissed, Current, Latest, Busy
<1>6. CASE Start \/ Crash
  <2>1. UNCHANGED history /\ pc' \in {"idle", "down"} /\ (pc' # "down" => cached' = Latest)
    BY <1>6 DEF Start, Crash, server
  <2>2. QED
    BY <1>1, <2>1 DEF Dismissed, Current, Latest, Busy, Steps
<1>7. CASE UNCHANGED <<history, pc, cached>>
  BY <1>1, <1>7 DEF Dismissed, Current, Latest, Busy
<1>8. QED
  BY <1>3, <1>4, <1>5, <1>6, <1>7
  DEF Next, Reconcile, Environment, DeliverEvent, TimerFires, CollectGarbage, ScalePods,
      PodFails, Tamper, AggregatorChanges, vars, server, runtime, run

\* Nothing of a deleted cluster comes back after the last run.
THEOREM DeletedForGoodHolds == Spec => DeletedForGood
<1>1. TypeOK /\ [Next]_vars
      => [Dismissed => Dismissed' /\ \A o \in Object : applied'[o] \in {0, applied[o]}]_vars
  <2> SUFFICES ASSUME TypeOK, [Next]_vars, Dismissed
               PROVE  Dismissed' /\ \A o \in Object : applied'[o] \in {0, applied[o]}
    OBVIOUS
  <2>1. Dismissed'
    BY DismissedStep
  <2>2. CASE applied' = applied
    BY <2>1, <2>2
  <2>3. CASE CollectGarbage
    BY <2>1, <2>3 DEF CollectGarbage
  <2>4. CASE \E p \in Object : Tamper(p) \/ DeleteOrphan(p)
    BY <2>1, <2>4 DEF Tamper, DeleteOrphan, TypeOK
  <2>5. ~Busy
    BY DEF Dismissed
  <2>6. QED
    BY <2>2, <2>3, <2>4, <2>5, WhoWrites
<1>2. QED
  BY <1>1, TypeCorrect, PTL DEF Spec, DeletedForGood
=============================================================================
