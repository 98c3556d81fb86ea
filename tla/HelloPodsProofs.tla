--------------------------- MODULE HelloPodsProofs ---------------------------
(***************************************************************************)
(* Theorems about HelloPods: its pods leave the reconciliation as it is,   *)
(* and they never run with a configuration older than their template.      *)
(***************************************************************************)
EXTENDS HelloPods, HelloReconcileProofs

LEMMA PodsStep == [PodsNext]_podVars => [Next]_vars
BY DEF PodsNext, podVars, RollPods

\* Watching the pods changes nothing: what holds of the reconciliation holds here.
THEOREM PodsImplementSpec == PodsSpec => Spec
BY PodsStep, PTL DEF PodsSpec, PodsInit, Spec

-----------------------------------------------------------------------------
\* Only the StatefulSet controller starts pods, of an applied StatefulSet.
LEMMA WhoStartsPods ==
    ASSUME TypeOK, [Next]_vars, NEW g \in Group, ready'[g] > ready[g]
    PROVE  /\ applied[StatefulSet(g)] # 0 /\ applied[ConfigMap(g)] # 0
           /\ UNCHANGED history
<1> USE DEF server, runtime
<1>1. ready[g] \in Nat /\ ready \in [Group -> Nat]
  BY DEF TypeOK
<1>2. ready' # ready
  BY <1>1
<1>3. ASSUME NEW h \in Group, PodFails(h) PROVE FALSE
  <2>1. ready' = [ready EXCEPT ![h] = @ - 1] /\ ready[h] > 0
    BY <1>3 DEF PodFails
  <2> QED  BY <1>1, <2>1
<1>4. PICK h \in Group : ScalePods(h)
  BY <1>2, <1>3
  DEF Next, Reconcile, Environment, vars, Edit, Delete, Tamper, CollectGarbage,
      AggregatorChanges, DeliverSpec, DeliverEvent, TimerFires, Start, Crash, Begin,
      ApplyServiceAccount, ApplyRoleBinding, ApplyRoleService, ApplyRoleGroupService,
      ApplyConfigMap, ApplyStatefulSet, AddPdbs, Add, DeleteOrphan,
      ResolveVectorAggregator, AggregatorMissing, BuildFails, PatchStatus,
      StatusTargetGone, Finish, AddRefused, AnswerLost, RequestFails
<1>5. h = g /\ ready[g] < Want(applied, g) /\ applied[ConfigMap(g)] # 0 /\ UNCHANGED history
  <2>1. CASE ready' = [ready EXCEPT ![h] = @ - 1] /\ ready[h] > Want(applied, h)
    BY <1>1, <2>1
  <2>2. CASE /\ ready' = [ready EXCEPT ![h] = @ + 1]
             /\ ready[h] < Want(applied, h) /\ applied[ConfigMap(h)] # 0
    BY <1>1, <1>4, <2>2 DEF ScalePods
  <2> QED  BY <1>4, <2>1, <2>2 DEF ScalePods
<1>6. applied[StatefulSet(g)] # 0
  BY <1>1, <1>5 DEF Want
<1> QED  BY <1>5, <1>6

\* What a pod may run with.
Consistent(b, g) ==
    \E n, m \in 1 .. Latest :
        /\ n <= m
        /\ b.template = <<history[n].template, g \in history[n].vector>>
        /\ b.config = Render(history[m], ConfigMap(g))

\* A pod that starts reads a ConfigMap no older than its StatefulSet.
LEMMA BootConsistent ==
    ASSUME TypeOK, DependenciesFirst, NEW g \in Group,
           applied[StatefulSet(g)] # 0, applied[ConfigMap(g)] # 0
    PROVE  Consistent(BootContents(g), g)
<1> DEFINE n == applied[StatefulSet(g)]
           m == applied[ConfigMap(g)]
<1>1. n \in 1 .. Latest /\ m \in 1 .. Latest
  BY NamedObjects, HistoryEntries DEF TypeOK
<1>2. n <= m
  BY DEF DependenciesFirst
<1>3. /\ BootContents(g).template = <<history[n].template, g \in history[n].vector>>
      /\ BootContents(g).config = Render(history[m], ConfigMap(g))
  BY DEF BootContents, PodTemplate
<1> QED  BY <1>1, <1>2, <1>3 DEF Consistent

\* Later generations do not change what a pod was started with.
LEMMA ConsistentStays ==
    ASSUME TypeOK, NEW g \in Group, NEW b, Consistent(b, g),
           \/ UNCHANGED history
           \/ \E s \in ClusterSpec : history' = Append(history, s)
    PROVE  Consistent(b, g)'
<1>1. CASE UNCHANGED history
  BY <1>1 DEF Consistent, Latest
<1>2. CASE \E s \in ClusterSpec : history' = Append(history, s)
  <2>1. Latest' = Latest + 1 /\ \A n \in 1 .. Latest : history'[n] = history[n]
    BY <1>2, AppendSpec
  <2>2. PICK n, m \in 1 .. Latest :
          /\ n <= m
          /\ b.template = <<history[n].template, g \in history[n].vector>>
          /\ b.config = Render(history[m], ConfigMap(g))
    BY DEF Consistent
  <2>3. n \in 1 .. Latest' /\ m \in 1 .. Latest'
    BY <2>1, HistoryEntries
  <2> QED  BY <2>1, <2>2, <2>3 DEF Consistent
<1> QED  BY <1>1, <1>2

\* The history only grows.
LEMMA WhoWritesHistory ==
    ASSUME TypeOK, [Next]_vars
    PROVE  \/ UNCHANGED history
           \/ \E s \in ClusterSpec : history' = Append(history, s)
<1>1. CASE Edit \/ Delete
  BY <1>1, HistoryGrows
<1>2. CASE ~(Edit \/ Delete)
  BY <1>2
  DEF server, runtime, Next, Reconcile, Environment, vars, Tamper, CollectGarbage,
      ScalePods, PodFails,
      AggregatorChanges, DeliverSpec, DeliverEvent, TimerFires, Start, Crash, Begin,
      ApplyServiceAccount, ApplyRoleBinding, ApplyRoleService, ApplyRoleGroupService,
      ApplyConfigMap, ApplyStatefulSet, AddPdbs, Add, DeleteOrphan,
      ResolveVectorAggregator, AggregatorMissing, BuildFails, PatchStatus,
      StatusTargetGone, Finish, AddRefused, AnswerLost, RequestFails
<1> QED  BY <1>1, <1>2

\* The pods of a group after a step are some of those before, and new ones.
LEMMA WhoBoots ==
    ASSUME TypeOK, [PodsNext]_podVars, NEW g \in Group, NEW b \in booted'[g],
           booted = [h \in Group |-> booted[h]]
    PROVE  \/ b \in booted[g]
           \/ /\ b = BootContents(g) /\ UNCHANGED history
              /\ applied[StatefulSet(g)] # 0 /\ applied[ConfigMap(g)] # 0
<1>1. CASE Next /\ TrackPods
  <2>1. booted'[g] = CASE ready'[g] = 0        -> {}
                       [] ready'[g] > ready[g] -> booted[g] \cup {BootContents(g)}
                       [] OTHER                -> booted[g]
    BY <1>1 DEF TrackPods
  <2>2. b \in booted[g] \/ (b = BootContents(g) /\ ready'[g] > ready[g])
    BY <2>1
  <2> QED  BY <1>1, <2>2, WhoStartsPods
<1>2. ASSUME NEW h \in Group, RollPods(h)
      PROVE  b \in booted[g] \/ (/\ b = BootContents(g) /\ UNCHANGED history
                                 /\ applied[StatefulSet(g)] # 0 /\ applied[ConfigMap(g)] # 0)
  <2>1. booted'[g] = IF g = h THEN {c \in booted[h] : c.template = PodTemplate(h)}
                                     \cup {BootContents(h)}
                     ELSE booted[g]
    BY <1>2 DEF RollPods
  <2> QED  BY <1>2, <2>1 DEF RollPods, vars, server
<1>3. CASE UNCHANGED podVars
  BY <1>3 DEF podVars
<1> QED  BY <1>1, <1>2, <1>3 DEF PodsNext

PodsInv ==
    /\ InductiveInv
    /\ booted = [g \in Group |-> booted[g]]
    /\ \A g \in Group : \A b \in booted[g] : Consistent(b, g)

LEMMA PodsInvNext == PodsInv /\ [PodsNext]_podVars => PodsInv'
<1> SUFFICES ASSUME PodsInv, [PodsNext]_podVars PROVE PodsInv'
  OBVIOUS
<1>1. [Next]_vars /\ TypeOK /\ DependenciesFirst
  BY PodsStep DEF PodsInv, InductiveInv
<1>2. InductiveInv'
  BY <1>1, InductiveNext DEF PodsInv
<1>3. booted' = [g \in Group |-> booted'[g]]
  BY DEF PodsInv, PodsNext, podVars, TrackPods, RollPods
<1>4. ASSUME NEW g \in Group, NEW b \in booted'[g] PROVE Consistent(b, g)'
  <2>1. CASE b \in booted[g]
    <3>1. Consistent(b, g)
      BY <2>1 DEF PodsInv
    <3> QED  BY <1>1, <3>1, WhoWritesHistory, ConsistentStays
  <2>2. CASE b \notin booted[g]
    <3>1. /\ b = BootContents(g) /\ UNCHANGED history
          /\ applied[StatefulSet(g)] # 0 /\ applied[ConfigMap(g)] # 0
      BY <1>1, <2>2, WhoBoots DEF PodsInv
    <3>2. Consistent(b, g)
      BY <1>1, <3>1, BootConsistent
    <3> QED  BY <1>1, <3>1, <3>2, ConsistentStays
  <2> QED  BY <2>1, <2>2
<1> QED  BY <1>2, <1>3, <1>4 DEF PodsInv

(***************************************************************************)
(* No pod runs a pod template with an older configuration, for any specs,  *)
(* role groups and failures.                                               *)
(***************************************************************************)
THEOREM ConfigNotOlderHolds == PodsSpec => []ConfigNotOlder
<1>1. PodsInit => PodsInv
  BY InductiveInit DEF PodsInit, PodsInv
<1>2. PodsInv /\ [PodsNext]_podVars => PodsInv'
  BY PodsInvNext
<1>3. PodsInv => ConfigNotOlder
  BY DEF PodsInv, Consistent, ConfigNotOlder
<1> QED  BY <1>1, <1>2, <1>3, PTL DEF PodsSpec
=============================================================================
