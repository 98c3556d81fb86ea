------------------------ MODULE HelloReconcileProofs ------------------------
(***************************************************************************)
(* Theorems about HelloReconcile, for any set of role groups and specs and *)
(* any bounds.                                                             *)
(***************************************************************************)
EXTENDS HelloReconcileInv, TLAPS

-----------------------------------------------------------------------------
(***************************************************************************)
(* Lemmas about the operators of the model.                                *)
(***************************************************************************)
\* A generation of a well-typed history is a spec.
LEMMA HistoryEntries ==
    ASSUME TypeOK
    PROVE  /\ Latest \in Nat \ {0}
           /\ Current \in ClusterSpec
           /\ \A n \in 1 .. Latest : history[n] \in ClusterSpec
BY DEF TypeOK, Latest, Current

\* A spec asks for a number of replicas.
LEMMA RequestedType ==
    ASSUME NEW s \in ClusterSpec, NEW g \in Group
    PROVE  Requested(s, g) \in Nat
BY DEF ClusterSpec, Requested

\* The live StatefulSet of a group wants a number of pods.
LEMMA WantType ==
    ASSUME TypeOK, NEW g \in Group
    PROVE  Want(applied, g) \in Nat
<1>1. StatefulSet(g) \in Object
  BY DEF Object, GroupObjects
<1>2. applied[StatefulSet(g)] # 0 => history[applied[StatefulSet(g)]] \in ClusterSpec
  BY <1>1, HistoryEntries DEF TypeOK, Latest
<1>3. QED
  BY <1>2, RequestedType DEF Want

\* The status computed by a run is a status.
LEMMA NewStatusType ==
    ASSUME avail \in BOOLEAN
    PROVE  NewStatus \in Status
BY DEF NewStatus, Status, OperationConditions

\* A spec that is appended to the history leaves the earlier generations alone.
LEMMA AppendSpec ==
    ASSUME TypeOK, NEW s \in ClusterSpec, history' = Append(history, s)
    PROVE  /\ history' \in Seq(ClusterSpec) /\ history' # <<>>
           /\ Latest' = Latest + 1
           /\ \A n \in 1 .. Latest : history'[n] = history[n]
           /\ Current' = s
BY DEF TypeOK, Latest, Current

\* The objects ClusterResources handles are objects of the cluster.
LEMMA AddingObjects ==
    ASSUME TypeOK
    PROVE  Adding \subseteq Object /\ (Adding # {} => Busy)
<1>1. \A g \in Group : GroupObjects(g) \subseteq Object
  BY DEF Object
<1>2. pc \in {"cm", "sts"} => grp \in Group
  BY DEF TypeOK
<1>3. left \subseteq Group
  BY DEF TypeOK
<1>4. {ServiceAccount, RoleBinding, RoleService, PodDisruptionBudget} \subseteq Object
  BY DEF Object, ClusterObjects
<1>5. QED
  <2>1. Adding \subseteq Object
    BY <1>1, <1>2, <1>3, <1>4 DEF Adding, GroupObjects
  <2>2. pc \notin Steps => Adding = {}
    BY DEF Adding, Steps
  <2>3. QED
    BY <2>1, <2>2 DEF Busy

\* The objects a run adds at fixed places.
LEMMA NamedObjects ==
    /\ ClusterObjects \subseteq Object
    /\ {ServiceAccount, RoleBinding, RoleService, PodDisruptionBudget} \subseteq Object
    /\ \A g \in Group : {RoleGroupService(g), ConfigMap(g), StatefulSet(g)} \subseteq Object
BY DEF Object, ClusterObjects, GroupObjects

\* A successful add keeps the types of what it writes.
LEMMA PutType ==
    ASSUME TypeOK, NEW o \in Object, Put(o)
    PROVE  /\ applied' \in [Object -> 0 .. Latest] /\ events' \in BOOLEAN
           /\ shipping' \in [Group -> Nat]
<1>1. applied' \in [Object -> 0 .. Latest]
  <2>1. snapshot \in 0 .. Latest
    BY HistoryEntries DEF TypeOK
  <2>2. QED
    BY <2>1 DEF TypeOK, Put
<1>2. events \in BOOLEAN
  BY DEF TypeOK
<1>3. events' \in BOOLEAN
  BY <1>2, Zenon DEF Put
<1>4. \A g \in Group : VectorConfig(g) \in Nat
  BY DEF VectorConfig, TypeOK
<1>5. shipping' \in [Group -> Nat]
  BY <1>4 DEF Put, TypeOK
<1>6. QED
  BY <1>1, <1>3, <1>5

\* A run that ends with an error leaves a well-typed state if what it wrote is.
LEMMA RetryType ==
    ASSUME TypeOK, pc # "down", Retry, UNCHANGED <<history, ready, address, cached>>,
           applied' \in [Object -> 0 .. Latest], shipping' \in [Group -> Nat],
           status' \in Status, events' \in BOOLEAN, faults' \in Nat
    PROVE  TypeOK'
<1>1. UNCHANGED Latest
  BY DEF Latest
<1>2. sched' \in {"none", "timer", "queued"}
  BY DEF Retry, TypeOK
<1>3. ~Busy' /\ cached # 0
  BY DEF Retry, TypeOK, Busy, Steps
<1>4. QED
  BY <1>1, <1>2, <1>3, HistoryEntries DEF TypeOK, Retry, ForgetRun

-----------------------------------------------------------------------------
(***************************************************************************)
(* Type correctness.                                                       *)
(***************************************************************************)
LEMMA TypeInit == Init => TypeOK
<1> SUFFICES ASSUME Init PROVE TypeOK
  OBVIOUS
<1>1. PICK s \in Specs : history = <<s>>
  BY DEF Init
<1>2. history \in Seq(ClusterSpec) /\ history # <<>> /\ Latest = 1
  BY <1>1, SpecsAssumption DEF Latest
<1>3. status \in Status
  BY DEF Init, NoStatus, Status
<1>4. address \in Nat /\ faults \in Nat
  BY ReconcileAssumption DEF Init
<1>5. applied \in [Object -> 0 .. Latest] /\ ready \in [Group -> Nat] /\ shipping \in [Group -> Nat]
  BY <1>2 DEF Init
<1>6. QED
  <2>1. cached = 0 /\ snapshot \in 0 .. cached
    BY DEF Init
  <2>2. Busy <=> snapshot # 0
    BY DEF Init, Busy, Steps
  <2>3. events \in BOOLEAN /\ avail \in BOOLEAN /\ resolved = 0
    BY DEF Init
  <2>4. /\ pc = "down" /\ sched = "none"
        /\ added = {} /\ left = {} /\ grp = NoGroup
    BY DEF Init
  <2>5. QED
    BY <1>2, <1>3, <1>4, <1>5, <2>1, <2>2, <2>3, <2>4 DEF TypeOK

\* Users only append to the history.
LEMMA HistoryGrows ==
    ASSUME TypeOK, Edit \/ Delete
    PROVE  \E s \in ClusterSpec : history' = Append(history, s)
<1>1. [Current EXCEPT !.health = "gone"] \in ClusterSpec
  BY HistoryEntries DEF ClusterSpec, Health
<1>2. QED
  BY <1>1, SpecsAssumption DEF Edit, Delete

\* A new generation keeps the types.
LEMMA TypeAppend ==
    ASSUME TypeOK, NEW s \in ClusterSpec, history' = Append(history, s),
           UNCHANGED <<applied, ready, shipping, address, status, runtime, run, faults>>
    PROVE  TypeOK'
<1>1. Latest \in Nat \ {0} /\ Latest' = Latest + 1 /\ history' \in Seq(ClusterSpec) /\ history' # <<>>
  BY AppendSpec, HistoryEntries
<1>2. applied' \in [Object -> 0 .. Latest']
  <2>1. 0 .. Latest \subseteq 0 .. Latest'
    BY <1>1
  <2>2. applied' = applied /\ applied \in [Object -> 0 .. Latest]
    BY DEF TypeOK
  <2>3. QED
    BY <2>1, <2>2
<1>3. cached' \in 0 .. Latest' /\ snapshot' \in 0 .. cached'
  BY <1>1 DEF TypeOK, runtime, run
<1>4. QED
  BY <1>1, <1>2, <1>3 DEF TypeOK, runtime, run, Busy

\* A failure uses up one of those that may still happen.
LEMMA FaultType ==
    ASSUME TypeOK, Fault
    PROVE  faults' \in Nat
BY DEF TypeOK, Fault

LEMMA TypeNext == TypeOK /\ [Next]_vars => TypeOK'
<1> SUFFICES ASSUME TypeOK, [Next]_vars PROVE TypeOK'
  OBVIOUS
<1> USE HistoryEntries, NamedObjects
<1> USE DEF server, runtime, run
<1>0. UNCHANGED history => UNCHANGED Latest
  BY DEF Latest
<1> USE <1>0
<1>1. CASE Edit \/ Delete
  BY <1>1, HistoryGrows, TypeAppend DEF Edit, Delete
<1>3. CASE CollectGarbage
  BY <1>3 DEF CollectGarbage, TypeOK, Busy
<1>4. ASSUME NEW g \in Group, ScalePods(g) PROVE TypeOK'
  <2>1. ready' \in [Group -> Nat]
    <3>1. CASE ready[g] < Want(applied, g) /\ ready' = [ready EXCEPT ![g] = @ + 1]
      <4>1. ready \in [Group -> Nat]
        BY DEF TypeOK
      <4>2. ready[g] + 1 \in Nat
        BY <4>1
      <4>3. QED
        BY <3>1, <4>1, <4>2
    <3>2. CASE ready[g] > Want(applied, g) /\ ready' = [ready EXCEPT ![g] = @ - 1]
      <4>1. ready[g] \in Nat /\ Want(applied, g) \in Nat
        BY WantType DEF TypeOK
      <4>2. ready[g] - 1 \in Nat
        BY <3>2, <4>1
      <4>3. QED
        BY <3>2, <4>2 DEF TypeOK
    <3>3. QED
      BY <1>4, <3>1, <3>2 DEF ScalePods
  <2>2. QED
    BY <1>4, <2>1 DEF ScalePods, TypeOK, Busy
<1>5. ASSUME NEW g \in Group, PodFails(g) PROVE TypeOK'
  <2>1. ready \in [Group -> Nat]
    BY DEF TypeOK
  <2>2. ready' \in [Group -> Nat]
    <3>1. ready[g] \in Nat /\ ready[g] - 1 \in Nat
      BY <1>5, <2>1 DEF PodFails
    <3>2. QED
      BY <1>5, <2>1, <3>1 DEF PodFails
  <2>3. faults' \in Nat
    BY <1>5, FaultType DEF PodFails
  <2>4. QED
    BY <1>5, <2>2, <2>3 DEF PodFails, TypeOK, Busy
<1>6. ASSUME NEW o \in Object, Tamper(o) PROVE TypeOK'
  <2>1. applied' \in [Object -> 0 .. Latest]
    BY <1>6 DEF Tamper, TypeOK
  <2>2. events' \in BOOLEAN
    <3>1. events' = (events \/ Kind(o) \in Watched) /\ events \in BOOLEAN
      BY <1>6 DEF Tamper, TypeOK
    <3>2. QED
      BY <3>1, Zenon
  <2>3. faults' \in Nat
    BY <1>6, FaultType DEF Tamper
  <2>4. QED
    BY <1>6, <2>1, <2>2, <2>3 DEF Tamper, TypeOK, Busy
<1>7. CASE AggregatorChanges
  BY <1>7, ReconcileAssumption DEF AggregatorChanges, Fault, TypeOK, Busy
<1>8. CASE DeliverSpec
  BY <1>8 DEF DeliverSpec, TypeOK, Busy
<1>9. CASE DeliverEvent
  BY <1>9 DEF DeliverEvent, TypeOK, Busy
<1>10. CASE TimerFires
  BY <1>10 DEF TimerFires, TypeOK, Busy
<1>11. CASE Start
  <2>1. snapshot = 0
    BY <1>11 DEF Start, TypeOK, Busy, Steps
  <2>2. QED
    <3>1. ~Busy' /\ sched' \in {"none", "timer", "queued"}
      BY <1>11 DEF Start, Busy, Steps
    <3>2. cached' \in 0 .. Latest /\ cached' # 0
      BY <1>11 DEF Start
    <3>3. snapshot' \in 0 .. cached'
      BY <1>11, <2>1, <3>2 DEF Start
    <3>4. Busy' <=> snapshot' # 0
      BY <1>11, <2>1 DEF Start, Busy, Steps
    <3>5. events' \in BOOLEAN
      BY <1>11 DEF Start
    <3>6. pc' = "idle" /\ UNCHANGED <<server, added, left, grp, avail, resolved, faults>>
      BY <1>11 DEF Start
    <3>7. QED
      BY <3>1, <3>2, <3>3, <3>4, <3>5, <3>6 DEF TypeOK
<1>12. CASE Crash
  BY <1>12 DEF Crash, ForgetRun, Fault, TypeOK, Busy, Steps
<1>13. CASE Begin
  <2>1. cached # 0 /\ history[cached].groups \in SUBSET Group
    <3>1. cached \in 1 .. Latest
      BY <1>13 DEF Begin, TypeOK
    <3>2. QED
      BY <3>1 DEF ClusterSpec
  <2>2. snapshot = 0
    BY <1>13 DEF Begin, TypeOK, Busy, Steps
  <2>3. QED
    BY <1>13, <2>1, <2>2 DEF Begin, TypeOK, Busy, Steps
<1>14. CASE ApplyServiceAccount
  BY <1>14, PutType DEF ApplyServiceAccount, Add, TypeOK, Busy, Steps
<1>15. CASE ApplyRoleBinding
  BY <1>15, PutType DEF ApplyRoleBinding, Add, TypeOK, Busy, Steps
<1>16. CASE ApplyRoleService
  BY <1>16, PutType DEF ApplyRoleService, Add, TypeOK, Busy, Steps
<1>17. CASE ResolveVectorAggregator
  BY <1>17 DEF ResolveVectorAggregator, AfterGroup, TypeOK, Busy, Steps
<1>18. CASE AggregatorMissing
  BY <1>18, RetryType DEF AggregatorMissing, TypeOK
<1>19. CASE BuildFails
  BY <1>19, RetryType DEF BuildFails, TypeOK
<1>20. ASSUME NEW g \in Group, ApplyRoleGroupService(g) PROVE TypeOK'
  BY <1>20, PutType DEF ApplyRoleGroupService, Add, TypeOK, Busy, Steps
<1>21. CASE ApplyConfigMap
  <2>1. grp \in Group
    BY <1>21 DEF ApplyConfigMap, TypeOK
  <2>2. QED
    BY <1>21, <2>1, PutType DEF ApplyConfigMap, Add, TypeOK, Busy, Steps
<1>22. CASE ApplyStatefulSet
  <2>1. grp \in Group
    BY <1>22 DEF ApplyStatefulSet, TypeOK
  <2>2. QED
    BY <1>22, <2>1, PutType DEF ApplyStatefulSet, AfterGroup, Add, TypeOK, Busy, Steps
<1>23. CASE AddPdbs
  BY <1>23, PutType DEF AddPdbs, Add, TypeOK, Busy, Steps
<1>24. CASE PatchStatus
  BY <1>24, NewStatusType DEF PatchStatus, TypeOK, Busy, Steps
<1>25. CASE StatusTargetGone
  BY <1>25, RetryType DEF StatusTargetGone, TypeOK
<1>26. ASSUME NEW o \in Object, DeleteOrphan(o) PROVE TypeOK'
  BY <1>26 DEF DeleteOrphan, TypeOK, Busy, Steps
<1>27. CASE Finish
  BY <1>27 DEF Finish, AwaitChange, ForgetRun, TypeOK, Busy, Steps
<1>28. CASE AddRefused
  BY <1>28, RetryType, AddingObjects DEF AddRefused, TypeOK, Busy, Steps
<1>29. CASE AnswerLost
  <2>1. /\ applied' \in [Object -> 0 .. Latest] /\ shipping' \in [Group -> Nat]
        /\ events' \in BOOLEAN /\ status' \in Status
    <3>1. CASE \E o \in Adding : Put(o) /\ UNCHANGED status
      BY <3>1, AddingObjects, PutType DEF TypeOK
    <3>2. CASE /\ status' = NewStatus
               /\ events' = (events \/ status # NewStatus)
               /\ UNCHANGED <<applied, shipping>>
      <4>1. events \in BOOLEAN /\ avail \in BOOLEAN
        BY DEF TypeOK
      <4>2. events' \in BOOLEAN
        BY <3>2, <4>1, Zenon
      <4>3. QED
        BY <3>2, <4>1, <4>2, NewStatusType DEF TypeOK
    <3>3. QED
      BY <1>29, <3>1, <3>2 DEF AnswerLost
  <2>2. QED
    <3>1. faults' \in Nat
      BY <1>29 DEF AnswerLost, Fault, TypeOK
    <3>2. pc # "down"
      BY <1>29, AddingObjects DEF AnswerLost, Busy, Steps
    <3>3. QED
      BY <1>29, <2>1, <3>1, <3>2, RetryType DEF AnswerLost
<1>30. CASE RequestFails
  BY <1>30, RetryType, AddingObjects DEF RequestFails, TypeOK, Fault, Busy, Steps
<1>31. CASE UNCHANGED vars
  BY <1>31 DEF vars, TypeOK, Busy
<1>32. QED
  BY <1>1, <1>3, <1>4, <1>5, <1>6, <1>7, <1>8, <1>9, <1>10, <1>11, <1>12, <1>13,
     <1>14, <1>15, <1>16, <1>17, <1>18, <1>19, <1>20, <1>21, <1>22, <1>23, <1>24, <1>25,
     <1>26, <1>27, <1>28, <1>29, <1>30, <1>31
  DEF Next, Reconcile, Environment

\* Every reachable state is well typed.
THEOREM TypeCorrect == Spec => []TypeOK
<1>1. QED
  BY TypeInit, TypeNext, PTL DEF Spec

-----------------------------------------------------------------------------
(***************************************************************************)
(* What a run has done at each of its places.                              *)
(***************************************************************************)
\* The snapshot of a run in progress is a generation of the history, and no
\* step of the users changes it.
LEMMA SnapshotKept ==
    ASSUME TypeOK, Busy,
           \/ UNCHANGED history
           \/ \E s \in ClusterSpec : history' = Append(history, s)
    PROVE  snapshot \in 1 .. Latest /\ history'[snapshot] = Work /\ Work \in ClusterSpec
<1>1. snapshot \in 1 .. Latest
  BY HistoryEntries DEF TypeOK
<1>2. QED
  BY <1>1, HistoryEntries, AppendSpec DEF Work

\* The objects a spec needs, one by one.
LEMMA NeededElements ==
    ASSUME NEW s, NEW o
    PROVE  o \in Needed(s) <=> \/ o \in FirstObjects
                               \/ \E g \in s.groups : o \in GroupObjects(g)
                               \/ o \in Pdbs(s)
BY DEF Needed, FirstObjects

LEMMA ProgressStable ==
    ASSUME TypeOK, ProgressInv, UNCHANGED run,
           \/ UNCHANGED history
           \/ \E s \in ClusterSpec : history' = Append(history, s)
    PROVE  ProgressInv'
<1>1. UNCHANGED <<pc, snapshot, added, left, grp, avail>>
  BY DEF run
<1>2. Busy => Work' = Work
  BY <1>1, SnapshotKept DEF Work
<1>3. CASE Busy
  BY <1>1, <1>2, <1>3 DEF ProgressInv, AddedByPlace, GroupsDone, Busy
<1>4. CASE ~Busy
  BY <1>1, <1>4 DEF ProgressInv, AddedByPlace, Busy, Steps
<1>5. QED
  BY <1>3, <1>4

LEMMA ProgressReset ==
    ASSUME ForgetRun, pc' \in {"idle", "down"}
    PROVE  ProgressInv'
BY DEF ForgetRun, ProgressInv, AddedByPlace, Busy, Steps

LEMMA ProgressNext == TypeOK /\ ProgressInv /\ [Next]_vars => ProgressInv'
<1> SUFFICES ASSUME TypeOK, ProgressInv, [Next]_vars PROVE ProgressInv'
  OBVIOUS
<1> USE DEF server, runtime
<1>1. CASE Edit \/ Delete
  BY <1>1, HistoryGrows, ProgressStable DEF Edit, Delete
<1>2. CASE UNCHANGED <<run, history>>
  BY <1>2, ProgressStable
<1>3. CASE Crash \/ Retry \/ Finish
  BY <1>3, ProgressReset DEF Crash, Retry, Finish, AwaitChange
<1>4. CASE Start
  BY <1>4 DEF Start, ProgressInv, AddedByPlace, Busy, Steps
<1>5. CASE Begin
  <2>1. CASE history[cached].health = "ok"
    <3>1. /\ pc' = "sa" /\ Work' = history[cached] /\ left' = history[cached].groups
          /\ added' = {}
      BY <1>5, <2>1 DEF Begin, Work, ProgressInv, Busy, Steps
    <3>2. QED
      BY <3>1 DEF ProgressInv, AddedByPlace, Busy, Steps
  <2>2. CASE history[cached].health # "ok"
    BY <1>5, <2>2, ProgressStable DEF Begin, run
  <2>3. QED
    BY <2>1, <2>2
<1>6. ASSUME pc \in Steps, pc' \in Steps, UNCHANGED <<history, snapshot>>
      PROVE  Work' = Work
  BY <1>6 DEF Work
<1>7. CASE ApplyServiceAccount \/ ApplyRoleBinding \/ ApplyRoleService
  <2>1. Work' = Work /\ left' = left /\ GroupsDone = {}
    BY <1>6, <1>7 DEF ApplyServiceAccount, ApplyRoleBinding, ApplyRoleService, Add, Steps,
                      ProgressInv, GroupsDone
  <2>2. GroupsDone' = {}
    BY <2>1 DEF GroupsDone
  <2>3. QED
    BY <1>7, <2>1, <2>2 DEF ApplyServiceAccount, ApplyRoleBinding, ApplyRoleService, Add,
                      ProgressInv, AddedByPlace, FirstObjects, Busy, Steps
<1>8. CASE ResolveVectorAggregator
  <2>1. Work' = Work /\ UNCHANGED <<left, added>> /\ GroupsDone' = GroupsDone
    BY <1>6, <1>8 DEF ResolveVectorAggregator, AfterGroup, Steps, GroupsDone
  <2>2. QED
    BY <1>8, <2>1 DEF ResolveVectorAggregator, AfterGroup, ProgressInv, AddedByPlace, Busy, Steps
<1>9. ASSUME NEW g \in Group, ApplyRoleGroupService(g) PROVE ProgressInv'
  <2>1. Work' = Work /\ UNCHANGED left /\ GroupsDone' = GroupsDone
    BY <1>6, <1>9 DEF ApplyRoleGroupService, Add, Steps, GroupsDone
  <2>2. QED
    BY <1>9, <2>1 DEF ApplyRoleGroupService, Add, ProgressInv, AddedByPlace, Busy, Steps
<1>10. CASE ApplyConfigMap
  <2>1. Work' = Work /\ UNCHANGED left /\ GroupsDone' = GroupsDone
    BY <1>6, <1>10 DEF ApplyConfigMap, Add, Steps, GroupsDone
  <2>2. QED
    BY <1>10, <2>1 DEF ApplyConfigMap, Add, ProgressInv, AddedByPlace, Busy, Steps
<1>11. CASE ApplyStatefulSet
  <2>1. Work' = Work /\ grp \in Work.groups /\ left' = left \ {grp}
    BY <1>6, <1>11 DEF ApplyStatefulSet, AfterGroup, Add, Steps, ProgressInv, TypeOK, Busy
  <2>2. GroupsDone' = GroupsDone \cup GroupObjects(grp)
    BY <2>1 DEF GroupsDone
  <2>3. added' = FirstObjects \cup GroupsDone'
    BY <1>11, <2>2 DEF ApplyStatefulSet, Add, ProgressInv, AddedByPlace, GroupObjects
  <2>4. \A g \in Work.groups \ left' : g \notin Unbuildable(Work)
    BY <1>11, <2>1 DEF ApplyStatefulSet, ProgressInv, Busy, Steps
  <2>5. pc' = AfterGroup(left') /\ left' \subseteq Work.groups
    BY <1>11, <2>1 DEF ApplyStatefulSet, ProgressInv, Busy, Steps
  <2>6. QED
    BY <2>1, <2>3, <2>4, <2>5 DEF AfterGroup, ProgressInv, AddedByPlace, Busy, Steps
<1>12. CASE AddPdbs
  <2>1. Work' = Work /\ UNCHANGED left /\ left = {}
    BY <1>6, <1>12 DEF AddPdbs, Add, Steps, ProgressInv
  <2>2. added = FirstObjects \cup GroupsDone
    BY <1>12, <2>1 DEF AddPdbs, ProgressInv, AddedByPlace
  <2>3. Needed(Work) = FirstObjects \cup GroupsDone \cup Pdbs(Work)
    BY <2>1 DEF Needed, FirstObjects, GroupsDone
  <2>4. added' = added \cup Pdbs(Work)
    <3>1. CASE Work.pdb
      BY <1>12, <3>1 DEF AddPdbs, Add, Pdbs
    <3>2. CASE ~Work.pdb
      BY <1>12, <3>2 DEF AddPdbs, Pdbs
    <3>3. QED
      BY <3>1, <3>2
  <2>5. added' = Needed(Work)
    BY <2>2, <2>3, <2>4
  <2>6. QED
    BY <1>12, <2>1, <2>5 DEF AddPdbs, ProgressInv, AddedByPlace, Busy, Steps
<1>13. CASE PatchStatus
  <2>1. Work' = Work /\ UNCHANGED <<left, added>>
    BY <1>6, <1>13 DEF PatchStatus, Steps
  <2>2. QED
    BY <1>13, <2>1 DEF PatchStatus, ProgressInv, AddedByPlace, Busy, Steps
<1>14. CASE UNCHANGED vars
  BY <1>2, <1>14 DEF vars
<1>15. QED
  BY <1>1, <1>2, <1>3, <1>4, <1>5, <1>7, <1>8, <1>9, <1>10, <1>11, <1>12, <1>13, <1>14
  DEF Next, Reconcile, Environment, CollectGarbage, ScalePods, PodFails, Tamper,
      AggregatorChanges, DeliverSpec, DeliverEvent, TimerFires, DeleteOrphan,
      AggregatorMissing, BuildFails, StatusTargetGone, AddRefused, AnswerLost, RequestFails

-----------------------------------------------------------------------------
(***************************************************************************)
(* Generations.                                                            *)
(***************************************************************************)
Dependencies(g) == {ServiceAccount, RoleService, RoleGroupService(g), ConfigMap(g)}

\* A StatefulSet is no other object.
LEMMA StatefulSetNames ==
    ASSUME NEW g \in Group
    PROVE  /\ StatefulSet(g) \notin ClusterObjects
           /\ \A h \in Group : StatefulSet(g) \notin Dependencies(h)
           /\ \A h \in Group : StatefulSet(g) = StatefulSet(h) => g = h
BY DEF StatefulSet, ClusterObjects, Dependencies, ServiceAccount, RoleBinding, RoleService,
       PodDisruptionBudget, RoleGroupService, ConfigMap

LEMMA DependenciesType ==
    ASSUME NEW g \in Group
    PROVE  Dependencies(g) \subseteq Object /\ StatefulSet(g) \in Object
BY NamedObjects DEF Dependencies

\* A StatefulSet is only added at its place.
LEMMA AddingStatefulSet ==
    ASSUME TypeOK, NEW o \in Adding, NEW g \in Group, o = StatefulSet(g)
    PROVE  pc = "sts" /\ grp = g
<1>1. left \subseteq Group /\ (pc \in {"cm", "sts"} => grp \in Group)
  BY DEF TypeOK
<1>2. /\ o \notin {ServiceAccount, RoleBinding, RoleService, PodDisruptionBudget}
      /\ \A h \in Group : o # RoleGroupService(h) /\ o # ConfigMap(h)
      /\ \A h \in Group : o = StatefulSet(h) => h = g
  BY StatefulSetNames DEF ClusterObjects, Dependencies
<1>3. QED
  BY <1>1, <1>2 DEF Adding

\* Before the StatefulSet of a group the run adds what the group depends on.
LEMMA DependenciesAdded ==
    ASSUME ProgressInv, pc = "sts"
    PROVE  Dependencies(grp) \subseteq added
BY DEF ProgressInv, AddedByPlace, FirstObjects, Dependencies

\* An add at its place keeps objects within the snapshot and StatefulSets
\* behind their dependencies.
LEMMA PutOrdered ==
    ASSUME TypeOK, ProgressInv, GenerationInv, DependenciesFirst, Busy,
           NEW o \in Object, Put(o),
           \A g \in Group : o = StatefulSet(g) => pc = "sts" /\ grp = g
    PROVE  (\A p \in Object : applied'[p] <= snapshot) /\ DependenciesFirst'
<1>1. /\ snapshot \in Nat /\ snapshot # 0
      /\ \A p \in Object : applied[p] \in Nat /\ applied[p] <= snapshot
  BY HistoryEntries DEF TypeOK, GenerationInv
<1>2. CASE Frozen
  BY <1>1, <1>2, DependenciesType DEF Put, DependenciesFirst, Dependencies
<1>3. CASE ~Frozen
  <2>1. applied' = [applied EXCEPT ![o] = snapshot]
    BY <1>3 DEF Put
  <2>2. \A p \in Object : applied'[p] = IF p = o THEN snapshot ELSE applied[p]
    BY <2>1 DEF TypeOK
  <2>3. ASSUME NEW g \in Group, NEW d \in Dependencies(g)
        PROVE  applied'[d] = 0 \/ applied'[StatefulSet(g)] <= applied'[d]
    <3>1. d \in Object /\ StatefulSet(g) \in Object /\ d # StatefulSet(g)
      BY DependenciesType, StatefulSetNames
    <3>2. CASE o = StatefulSet(g)
      <4>1. d \in added
        BY <3>2, DependenciesAdded
      <4>2. applied[d] = snapshot \/ applied[d] = 0
        BY <1>3, <4>1 DEF GenerationInv
      <4>3. QED
        BY <1>1, <2>2, <3>1, <3>2, <4>2
    <3>3. CASE o # StatefulSet(g)
      <4>1. applied[d] = 0 \/ applied[StatefulSet(g)] <= applied[d]
        BY DEF DependenciesFirst, Dependencies
      <4>2. QED
        BY <1>1, <2>2, <3>1, <3>3, <4>1
    <3>4. QED
      BY <3>2, <3>3
  <2>4. QED
    BY <1>1, <2>2, <2>3 DEF DependenciesFirst, Dependencies
<1>4. QED
  BY <1>2, <1>3

\* A run that goes on after adding o keeps the invariant.
LEMMA AddOrdered ==
    ASSUME TypeOK, ProgressInv, GenerationInv, DependenciesFirst, Busy,
           NEW o \in Object, Add(o),
           \A g \in Group : o = StatefulSet(g) => pc = "sts" /\ grp = g
    PROVE  GenerationInv' /\ DependenciesFirst'
<1>1. (\A p \in Object : applied'[p] <= snapshot) /\ DependenciesFirst'
  BY PutOrdered DEF Add
<1>2. UNCHANGED <<history, snapshot, cached>> /\ added' = added \cup {o}
  BY DEF Add
<1>3. Frozen' = Frozen /\ Gone(Current)' = Gone(Current)
  BY <1>2 DEF Frozen, Work, Current, Latest, Gone
<1>4. \A p \in Object : applied'[p] <= cached
  <2>1. snapshot \in Nat /\ cached \in Nat /\ snapshot <= cached
    BY HistoryEntries DEF TypeOK
  <2>2. applied' \in [Object -> Nat]
    BY PutType, HistoryEntries DEF Add
  <2>3. QED
    BY <1>1, <2>1, <2>2
<1>5. ASSUME ~Frozen, NEW p \in added \cup {o}
      PROVE  \/ applied'[p] = snapshot
             \/ /\ applied'[p] = 0
                /\ Kind(p) \in Deletable \/ Gone(Current)
  <2>1. applied' = [applied EXCEPT ![o] = snapshot]
    BY <1>5 DEF Add, Put
  <2>2. \A q \in Object : applied'[q] = IF q = o THEN snapshot ELSE applied[q]
    BY <2>1 DEF TypeOK
  <2>3. p \in Object
    BY DEF TypeOK
  <2>4. CASE p = o
    BY <2>2, <2>3, <2>4
  <2>5. CASE p # o
    <3>1. applied'[p] = applied[p] /\ p \in added
      BY <2>2, <2>3, <2>5
    <3>2. \/ applied[p] = snapshot
          \/ /\ applied[p] = 0
             /\ Kind(p) \in Deletable \/ Gone(Current)
      BY <1>5, <3>1 DEF GenerationInv, Kind
    <3>3. QED
      BY <3>1, <3>2
  <2>6. QED
    BY <2>4, <2>5
<1>6. QED
  BY <1>1, <1>2, <1>3, <1>4, <1>5 DEF GenerationInv

\* Objects that disappear, and a run that ends, keep it.
LEMMA GenerationAfterLoss ==
    ASSUME TypeOK, GenerationInv, DependenciesFirst,
           UNCHANGED <<run, history, cached>>,
           applied' \in [Object -> 0 .. Latest],
           \A o \in Object : \/ applied'[o] = applied[o]
                            \/ /\ applied'[o] = 0
                               /\ Kind(o) \in Deletable \/ Gone(Current) \/ o \notin added
    PROVE  GenerationInv' /\ DependenciesFirst'
<1>1. UNCHANGED <<pc, snapshot, added>>
  BY DEF run
<1>2. /\ Busy' = Busy /\ Frozen' = Frozen /\ Gone(Current)' = Gone(Current)
  BY <1>1 DEF Busy, Frozen, Work, Current, Latest, Gone
<1>3. \A o \in Object : applied[o] \in Nat /\ (applied'[o] = applied[o] \/ applied'[o] = 0)
  BY HistoryEntries DEF TypeOK
<1>4. cached \in Nat /\ snapshot \in Nat
  BY HistoryEntries DEF TypeOK
<1>5. added \subseteq Object
  BY DEF TypeOK
<1>6. GenerationInv'
  BY <1>1, <1>2, <1>3, <1>4, <1>5 DEF GenerationInv
<1>7. DependenciesFirst'
  <2>1. \A g \in Group : Dependencies(g) \subseteq Object /\ StatefulSet(g) \in Object
    BY DependenciesType
  <2>2. QED
    BY <1>3, <2>1 DEF DependenciesFirst, Dependencies
<1>8. QED
  BY <1>6, <1>7

LEMMA GenerationAfterRun ==
    ASSUME TypeOK, pc' \notin Steps, UNCHANGED cached,
           \A o \in Object : applied'[o] <= cached,
           DependenciesFirst'
    PROVE  GenerationInv' /\ DependenciesFirst'
BY DEF GenerationInv, Busy

LEMMA GenerationNext ==
    TypeOK /\ ProgressInv /\ GenerationInv /\ DependenciesFirst /\ [Next]_vars
      => GenerationInv' /\ DependenciesFirst'
<1> SUFFICES ASSUME TypeOK, ProgressInv, GenerationInv, DependenciesFirst, [Next]_vars
             PROVE  GenerationInv' /\ DependenciesFirst'
  OBVIOUS
<1> USE DEF server, runtime
<1>0. TypeOK'
  BY TypeNext
<1>1. CASE Edit \/ Delete
  <2>1. \E s \in ClusterSpec : history' = Append(history, s)
    BY <1>1, HistoryGrows
  <2>2. UNCHANGED <<pc, snapshot, added, applied, cached>> /\ ~Gone(Current)
    BY <1>1 DEF Edit, Delete, run
  <2>3. Busy => Frozen' = Frozen
    BY <2>1, <2>2, SnapshotKept DEF Frozen, Work
  <2>4. DependenciesFirst'
    BY <2>2 DEF DependenciesFirst
  <2>5. GenerationInv'
    BY <2>2, <2>3 DEF GenerationInv, Busy
  <2>6. QED
    BY <2>4, <2>5
<1>2. CASE UNCHANGED <<run, history, applied, cached>>
  BY <1>2, GenerationAfterLoss DEF TypeOK
<1>3. CASE CollectGarbage
  BY <1>3, GenerationAfterLoss, HistoryEntries DEF CollectGarbage
<1>4. ASSUME NEW o \in Object, Tamper(o) PROVE GenerationInv' /\ DependenciesFirst'
  <2>1. applied' \in [Object -> 0 .. Latest] /\ UNCHANGED <<run, history, cached>>
    BY <1>4, HistoryEntries DEF Tamper, TypeOK
  <2>2. \A p \in Object : \/ applied'[p] = applied[p]
                          \/ applied'[p] = 0 /\ Kind(p) \in Deletable
    <3>1. \A p \in Object : applied'[p] = IF p = o THEN 0 ELSE applied[p]
      BY <1>4 DEF Tamper, TypeOK
    <3>2. Kind(o) \in Deletable
      BY <1>4 DEF Tamper
    <3>3. QED
      BY <3>1, <3>2 DEF Kind
  <2>3. QED
    BY <2>1, <2>2, GenerationAfterLoss
<1>5. ASSUME NEW o \in Object, DeleteOrphan(o) PROVE GenerationInv' /\ DependenciesFirst'
  <2>1. applied' \in [Object -> 0 .. Latest] /\ UNCHANGED <<run, history, cached>>
    BY <1>5, HistoryEntries DEF DeleteOrphan, TypeOK
  <2>2. \A p \in Object : \/ applied'[p] = applied[p]
                          \/ applied'[p] = 0 /\ p \notin added
    <3>1. \A p \in Object : applied'[p] = IF p = o THEN 0 ELSE applied[p]
      BY <1>5 DEF DeleteOrphan, TypeOK
    <3>2. o \notin added
      BY <1>5 DEF DeleteOrphan, Orphans
    <3>3. QED
      BY <3>1, <3>2 DEF Kind
  <2>3. QED
    BY <2>1, <2>2, GenerationAfterLoss
<1>6. CASE DeliverSpec
  <2>1. cached <= cached' /\ cached \in Nat /\ cached' \in Nat
    BY <1>6, HistoryEntries DEF DeliverSpec, TypeOK
  <2>2. \A o \in Object : applied[o] \in Nat
    BY HistoryEntries DEF TypeOK
  <2>3. UNCHANGED <<pc, snapshot, added, applied, history>>
    BY <1>6 DEF DeliverSpec, run
  <2>4. QED
    BY <2>1, <2>2, <2>3 DEF GenerationInv, DependenciesFirst, Busy, Frozen, Work, Current, Latest, Gone
<1>7. CASE Start
  <2>1. \A o \in Object : applied'[o] <= cached'
    BY <1>7, HistoryEntries DEF Start, TypeOK
  <2>2. DependenciesFirst'
    BY <1>7 DEF Start, DependenciesFirst
  <2>3. QED
    BY <1>7, <2>1, <2>2 DEF Start, GenerationInv, Busy, Steps
<1>8. CASE Crash \/ Finish \/ AggregatorMissing \/ BuildFails \/ StatusTargetGone
           \/ AddRefused \/ RequestFails
  <2>1. pc' \notin Steps /\ UNCHANGED <<cached, applied>>
    BY <1>8 DEF Crash, Finish, AwaitChange, AggregatorMissing, BuildFails, StatusTargetGone,
                AddRefused, RequestFails, Retry, Steps
  <2>2. QED
    BY <2>1, GenerationAfterRun DEF GenerationInv, DependenciesFirst
<1>9. CASE AnswerLost
  <2>1. pc' \notin Steps /\ UNCHANGED cached
    BY <1>9 DEF AnswerLost, Retry, Steps
  <2>2. CASE UNCHANGED applied
    BY <2>1, <2>2, GenerationAfterRun DEF GenerationInv, DependenciesFirst
  <2>3. ASSUME NEW o \in Adding, Put(o) PROVE GenerationInv' /\ DependenciesFirst'
    <3>1. o \in Object /\ Busy
      BY AddingObjects
    <3>2. \A g \in Group : o = StatefulSet(g) => pc = "sts" /\ grp = g
      BY AddingStatefulSet
    <3>3. (\A p \in Object : applied'[p] <= snapshot) /\ DependenciesFirst'
      BY <2>3, <3>1, <3>2, PutOrdered
    <3>4. snapshot \in Nat /\ cached \in Nat /\ snapshot <= cached
      BY HistoryEntries DEF TypeOK
    <3>5. \A p \in Object : applied'[p] <= cached
      <4>1. \A p \in Object : applied'[p] \in Nat
        BY <2>3, <3>1, PutType, HistoryEntries
      <4>2. QED
        BY <3>3, <3>4, <4>1
    <3>6. QED
      BY <2>1, <3>3, <3>5, GenerationAfterRun
  <2>4. QED
    BY <1>9, <2>2, <2>3 DEF AnswerLost
<1>10. CASE Begin
  <2>1. CASE history[cached].health = "ok"
    BY <1>10, <2>1 DEF Begin, GenerationInv, DependenciesFirst, ProgressInv, Busy, Steps
  <2>2. CASE history[cached].health # "ok"
    BY <1>10, <2>2, GenerationAfterLoss DEF Begin, run, TypeOK
  <2>3. QED
    BY <2>1, <2>2
<1>11. CASE ApplyServiceAccount \/ ApplyRoleBinding \/ ApplyRoleService
            \/ (AddPdbs /\ Add(PodDisruptionBudget))
  <2>1. Busy /\ \E o \in ClusterObjects : Add(o)
    BY <1>11 DEF ApplyServiceAccount, ApplyRoleBinding, ApplyRoleService, AddPdbs,
                 Busy, Steps, ClusterObjects
  <2>2. QED
    BY <2>1, AddOrdered, NamedObjects, StatefulSetNames
<1>12. CASE AddPdbs /\ UNCHANGED <<server, runtime, snapshot, added>>
  <2>1. UNCHANGED <<history, applied, cached, snapshot, added>> /\ Busy /\ Busy'
    BY <1>12 DEF AddPdbs, Busy, Steps
  <2>2. QED
    BY <2>1 DEF GenerationInv, DependenciesFirst, Frozen, Work, Current, Latest, Gone
<1>13. CASE ResolveVectorAggregator \/ PatchStatus
  <2>1. UNCHANGED <<history, applied, cached, snapshot, added>> /\ Busy /\ Busy'
    BY <1>13 DEF ResolveVectorAggregator, AfterGroup, PatchStatus, Busy, Steps
  <2>2. QED
    BY <2>1 DEF GenerationInv, DependenciesFirst, Frozen, Work, Current, Latest, Gone
<1>14. ASSUME NEW g \in Group, ApplyRoleGroupService(g) PROVE GenerationInv' /\ DependenciesFirst'
  <2>1. Busy /\ Add(RoleGroupService(g)) /\ RoleGroupService(g) \in Dependencies(g)
    BY <1>14 DEF ApplyRoleGroupService, Busy, Steps, Dependencies
  <2>2. QED
    BY <2>1, AddOrdered, NamedObjects, StatefulSetNames
<1>15. CASE ApplyConfigMap
  <2>1. /\ Busy /\ grp \in Group
        /\ Add(ConfigMap(grp)) /\ ConfigMap(grp) \in Dependencies(grp)
    BY <1>15 DEF ApplyConfigMap, Busy, Steps, Dependencies, TypeOK
  <2>2. QED
    BY <2>1, AddOrdered, NamedObjects, StatefulSetNames
<1>16. CASE ApplyStatefulSet
  <2>1. /\ Busy /\ grp \in Group /\ pc = "sts"
        /\ Add(StatefulSet(grp))
    BY <1>16 DEF ApplyStatefulSet, Busy, Steps, TypeOK
  <2>2. QED
    BY <2>1, AddOrdered, NamedObjects, StatefulSetNames
<1>17. CASE UNCHANGED vars
  BY <1>2, <1>17 DEF vars
<1>18. QED
  BY <1>1, <1>2, <1>3, <1>4, <1>5, <1>6, <1>7, <1>8, <1>9, <1>10, <1>11, <1>12, <1>13,
     <1>14, <1>15, <1>16, <1>17
  DEF Next, Reconcile, Environment, ScalePods, PodFails, AggregatorChanges, DeliverEvent,
      TimerFires, AddPdbs

\* The invariant holds initially: nothing is applied and no run is in progress.
LEMMA SafetyInit == Init => ProgressInv /\ GenerationInv /\ DependenciesFirst
<1> SUFFICES ASSUME Init PROVE ProgressInv /\ GenerationInv /\ DependenciesFirst
  OBVIOUS
<1>1. /\ pc = "down" /\ ~Busy /\ added = {} /\ left = {} /\ avail = TRUE
      /\ cached = 0 /\ \A o \in Object : applied[o] = 0
  BY DEF Init, Busy, Steps
<1>2. ProgressInv
  BY <1>1 DEF ProgressInv, AddedByPlace
<1>3. GenerationInv
  BY <1>1 DEF GenerationInv
<1>4. DependenciesFirst
  <2>1. \A g \in Group : Dependencies(g) \subseteq Object
    BY DependenciesType
  <2>2. QED
    BY <1>1, <2>1 DEF DependenciesFirst, Dependencies
<1>5. QED
  BY <1>2, <1>3, <1>4

\* The part of the inductive invariant that safety during a run rests on.
THEOREM SafetyInvariant == Spec => [](TypeOK /\ ProgressInv /\ GenerationInv /\ DependenciesFirst)
<1>1. Init => TypeOK /\ ProgressInv /\ GenerationInv /\ DependenciesFirst
  BY TypeInit, SafetyInit
<1>2. TypeOK /\ ProgressInv /\ GenerationInv /\ DependenciesFirst /\ [Next]_vars
        => (TypeOK /\ ProgressInv /\ GenerationInv /\ DependenciesFirst)'
  BY TypeNext, ProgressNext, GenerationNext
<1>3. QED
  BY <1>1, <1>2, PTL DEF Spec

\* No StatefulSet is ever newer than the objects its pods depend on.
THEOREM DependenciesFirstHolds == Spec => []DependenciesFirst
BY SafetyInvariant, PTL

-----------------------------------------------------------------------------
(***************************************************************************)
(* What a step may do to the objects.                                      *)
(***************************************************************************)
\* Objects change by garbage collection, by somebody else's deletion, by the
\* deletion of orphans, and by the add of a run.
LEMMA WhoWrites ==
    ASSUME TypeOK, [Next]_vars, applied' # applied
    PROVE  \/ CollectGarbage
           \/ \E o \in Object : Tamper(o)
           \/ \E o \in Object : DeleteOrphan(o)
           \/ Busy /\ \E o \in Object : Put(o)
<1> USE DEF server, runtime
<1>1. CASE ApplyServiceAccount \/ ApplyRoleBinding \/ ApplyRoleService \/ AddPdbs
  <2>1. \E o \in ClusterObjects : Put(o)
    BY <1>1 DEF ApplyServiceAccount, ApplyRoleBinding, ApplyRoleService, AddPdbs, Add,
                ClusterObjects
  <2>2. Busy
    BY <1>1 DEF ApplyServiceAccount, ApplyRoleBinding, ApplyRoleService, AddPdbs, Busy, Steps
  <2>3. QED
    BY <2>1, <2>2, NamedObjects
<1>2. CASE \E g \in Group : ApplyRoleGroupService(g)
  BY <1>2, NamedObjects DEF ApplyRoleGroupService, Add, Busy, Steps
<1>3. CASE ApplyConfigMap \/ ApplyStatefulSet
  <2>1. grp \in Group /\ Busy
    BY <1>3 DEF ApplyConfigMap, ApplyStatefulSet, TypeOK, Busy, Steps
  <2>2. QED
    BY <1>3, <2>1, NamedObjects DEF ApplyConfigMap, ApplyStatefulSet, Add
<1>4. CASE AnswerLost
  BY <1>4, AddingObjects DEF AnswerLost
<1>5. QED
  BY <1>1, <1>2, <1>3, <1>4
  DEF Next, Reconcile, Environment, vars, Edit, Delete, ScalePods, PodFails,
      AggregatorChanges, DeliverSpec, DeliverEvent, TimerFires, Start, Crash, Begin,
      ResolveVectorAggregator, AggregatorMissing, BuildFails, PatchStatus,
      StatusTargetGone, Finish, AddRefused, RequestFails

\* What an add leaves of the objects.
LEMMA PutEffect ==
    ASSUME TypeOK, NEW o \in Object, Put(o), applied' # applied
    PROVE  \A p \in Object : applied'[p] = IF p = o THEN snapshot ELSE applied[p]
BY DEF Put, TypeOK

\* No step takes an object back to an earlier generation.
LEMMA NoRegressStep ==
    ASSUME TypeOK, GenerationInv, [Next]_vars, NEW o \in Object
    PROVE  applied'[o] = 0 \/ applied[o] <= applied'[o]
<1>1. applied[o] \in Nat /\ snapshot \in Nat
  BY HistoryEntries DEF TypeOK
<1>2. CASE applied' = applied
  BY <1>1, <1>2
<1>3. CASE CollectGarbage
  BY <1>3 DEF CollectGarbage
<1>4. ASSUME NEW p \in Object, Tamper(p) \/ DeleteOrphan(p)
      PROVE  applied'[o] = 0 \/ applied[o] <= applied'[o]
  <2>1. applied' = [applied EXCEPT ![p] = 0]
    BY <1>4 DEF Tamper, DeleteOrphan
  <2>2. applied'[o] = 0 \/ applied'[o] = applied[o]
    BY <2>1 DEF TypeOK
  <2>3. QED
    BY <1>1, <2>2
<1>5. ASSUME Busy, NEW p \in Object, Put(p), applied' # applied
      PROVE  applied'[o] = 0 \/ applied[o] <= applied'[o]
  <2>1. applied'[o] = snapshot \/ applied'[o] = applied[o]
    BY <1>5, PutEffect
  <2>2. applied[o] <= snapshot
    BY <1>5 DEF GenerationInv
  <2>3. QED
    BY <1>1, <2>1, <2>2
<1>6. QED
  BY <1>2, <1>3, <1>4, <1>5, WhoWrites

\* Objects never fall back to an earlier generation of the spec.
THEOREM NoRegressHolds == Spec => NoRegress
<1>1. TypeOK /\ GenerationInv /\ [Next]_vars
        => [\A o \in Object : applied'[o] = 0 \/ applied[o] <= applied'[o]]_vars
  BY NoRegressStep
<1>2. QED
  BY <1>1, SafetyInvariant, PTL DEF Spec, NoRegress

Broken(o) == applied[o] # 0 /\ applied'[o] = 0 /\ Kind(o) \notin Deletable /\ ~Gone(Current)

\* An object the operator removes is an orphan of a run that added everything.
LEMMA MakeBeforeBreakStep ==
    ASSUME TypeOK, ProgressInv, GenerationInv, [Next]_vars, NEW o \in Object, Broken(o)
    PROVE  /\ Busy /\ ~Frozen /\ o \notin Needed(Work)
           /\ \A d \in Needed(Work) : applied[d] = snapshot \/ Kind(d) \in Deletable
<1>1. applied' # applied /\ ~CollectGarbage
  BY DEF Broken, CollectGarbage
<1>2. ASSUME NEW p \in Object PROVE ~Tamper(p)
  <2>1. Tamper(p) => applied'[o] = (IF p = o THEN 0 ELSE applied[o])
    BY DEF Tamper, TypeOK
  <2>2. p = o => ~Tamper(p)
    BY DEF Tamper, Broken
  <2>3. QED
    BY <2>1, <2>2 DEF Broken
<1>3. ASSUME Busy, NEW p \in Object PROVE ~Put(p)
  <2>1. snapshot # 0
    BY <1>3 DEF TypeOK
  <2>2. QED
    BY <1>1, <1>3, <2>1, PutEffect DEF Broken
<1>4. PICK p \in Object : DeleteOrphan(p)
  BY <1>1, <1>2, <1>3, WhoWrites
<1>5. Busy /\ ~Frozen /\ p \notin added /\ added = Needed(Work)
  BY <1>4 DEF DeleteOrphan, Orphans, Busy, Steps, ProgressInv, AddedByPlace
<1>6. p = o
  BY <1>4 DEF DeleteOrphan, TypeOK, Broken
<1>7. \A d \in Needed(Work) : applied[d] = snapshot \/ Kind(d) \in Deletable
  <2>1. \A d \in added : applied[d] = snapshot \/ Kind(d) \in Deletable \/ Gone(Current)
    BY <1>5 DEF GenerationInv
  <2>2. QED
    BY <1>5, <2>1 DEF Broken
<1>8. QED
  BY <1>5, <1>6, <1>7

\* The operator deletes an object only when all that replaces it is in place.
THEOREM MakeBeforeBreakHolds == Spec => MakeBeforeBreak
<1>1. TypeOK /\ ProgressInv /\ GenerationInv /\ [Next]_vars
        => [\A o \in Object :
              /\ applied[o] # 0 /\ applied'[o] = 0
              /\ Kind(o) \notin Deletable /\ ~Gone(Current)
              => /\ Busy /\ ~Frozen /\ o \notin Needed(Work)
                 /\ \A d \in Needed(Work) : applied[d] = snapshot \/ Kind(d) \in Deletable]_vars
  BY MakeBeforeBreakStep DEF Broken
<1>2. QED
  BY <1>1, SafetyInvariant, PTL DEF Spec, MakeBeforeBreak

-----------------------------------------------------------------------------
(***************************************************************************)
(* What holds while no trigger is pending.                                 *)
(***************************************************************************)
StoreAhead == Busy /\ snapshot < cached => sched = "queued" \/ Gone(history[cached])

\* A run that no trigger is going to repeat works on the current spec.
LEMMA CleanRun ==
    ASSUME TypeOK, SettlingInv, Busy, Clean
    PROVE  snapshot = Latest /\ snapshot # 0 /\ Work = Current /\ Current \in ClusterSpec
<1>1. snapshot \in Nat /\ cached \in Nat /\ snapshot <= cached /\ snapshot # 0
  BY HistoryEntries DEF TypeOK
<1>2. ~(snapshot < cached)
  BY DEF SettlingInv, Clean, Gone, Current
<1>3. snapshot = Latest
  BY <1>1, <1>2 DEF Clean
<1>4. QED
  BY <1>1, <1>3, HistoryEntries DEF Work, Current

\* With a trigger pending there is little to show.
LEMMA Unsettled ==
    ASSUME ~Clean', StoreAhead'
    PROVE  SettlingInv' /\ QuiescentCorrect'
<1>1. SettlingInv'
  BY DEF SettlingInv, StoreAhead
<1>2. QuiescentCorrect'
  BY DEF QuiescentCorrect, Quiet, Clean
<1>3. QED
  BY <1>1, <1>2

\* A run that ends with another one to come leaves nothing to show.
LEMMA RunEnds ==
    ASSUME ~Busy', ~Quiet'
    PROVE  SettlingInv' /\ QuiescentCorrect'
BY DEF SettlingInv, QuiescentCorrect

\* The pods a group wants depend on its StatefulSet only.
LEMMA WantSame ==
    ASSUME NEW g \in Group, UNCHANGED <<history, ready>>,
           applied'[StatefulSet(g)] = applied[StatefulSet(g)]
    PROVE  (ready[g] = Want(applied, g))' <=> (ready[g] = Want(applied, g))
BY DEF Want

\* An untracked object may go without disturbing what is settled.
LEMMA SettledAfterLoss ==
    ASSUME UNCHANGED <<history, ready, status>>, Current \in ClusterSpec, Settled(Current),
           \A o \in Object : Tracked(o) => applied'[o] = applied[o],
           \A o \in Object : applied'[o] = applied[o] \/ applied'[o] = 0
    PROVE  Settled(Current)'
<1>1. Current' = Current
  BY DEF Current, Latest
<1>2. ASSUME NEW o \in Needed(Current), Tracked(o) PROVE UpToDate(Current, o)'
  <2>1. Needed(Current) \subseteq Object
    BY DEF Needed, ClusterSpec, Object, ClusterObjects, Pdbs
  <2>2. applied'[o] = applied[o]
    BY <1>2, <2>1
  <2>3. UpToDate(Current, o)
    BY <1>2 DEF Settled
  <2>4. QED
    BY <1>1, <2>2, <2>3 DEF UpToDate
<1>3. \A g \in Current.groups : (ready[g] = Want(applied, g))' <=> (ready[g] = Want(applied, g))
  <2>1. TAKE g \in Current.groups
  <2>2. g \in Group
    BY DEF ClusterSpec
  <2>3. Tracked(StatefulSet(g)) /\ StatefulSet(g) \in Object
    BY <2>2, NamedObjects DEF Tracked, Watched, Kind, StatefulSet
  <2>4. QED
    BY <2>2, <2>3, WantSame
<1>4. (\A g \in Current.groups : ready[g] = Want(applied, g))'
        <=> \A g \in Current.groups : ready[g] = Want(applied, g)
  BY <1>1, <1>3
<1>5. status' = [operation |-> OperationConditions(Current'),
                 available |-> (\A g \in Current.groups : ready[g] = Want(applied, g))']
  BY <1>1, <1>4 DEF Settled
<1>6. \A o \in Object \ Needed(Current) : applied[o] = 0 => applied'[o] = 0
  OBVIOUS
<1>7. QED
  BY <1>1, <1>2, <1>5, <1>6 DEF Settled, Tracked

\* An add, and all steps of a run before the last, keep what is known.
LEMMA SettlingAdd ==
    ASSUME TypeOK, ProgressInv, SettlingInv, Busy, Busy', NEW o \in Object, Add(o),
           pc' # "orphans",
           avail' = (avail /\ \A g \in Group : o = StatefulSet(g) => ready[g] = Want(applied', g)),
           \/ left' = left /\ \A g \in Group : o # StatefulSet(g)
           \/ \E g \in Work.groups : left' = left \ {g} /\ g \in left /\ o = StatefulSet(g)
    PROVE  SettlingInv' /\ QuiescentCorrect'
<1>1. UNCHANGED <<history, cached, sched, snapshot, ready, status>> /\ added' = added \cup {o}
  BY DEF Add
<1>2. Latest' = Latest /\ Current' = Current /\ Work' = Work /\ Frozen' = Frozen
  BY <1>1 DEF Latest, Current, Work, Frozen
<1>3. StoreAhead'
  BY <1>1 DEF StoreAhead, SettlingInv
<1>4. CASE ~Clean'
  BY <1>3, <1>4, Unsettled
<1>5. CASE Clean'
  <2>1. Clean
    <3>1. ~events' => ~events
      BY DEF Add, Put
    <3>2. QED
      BY <1>1, <1>2, <1>5, <3>1 DEF Clean
  <2>2. snapshot = Latest /\ Work = Current /\ Current \in ClusterSpec
    BY <2>1, CleanRun
  <2>3. ASSUME NEW p \in added', Tracked(p)
        PROVE  IF Frozen THEN applied'[p] # 0 ELSE applied'[p] = snapshot
    <3>1. p \in added => IF Frozen THEN applied[p] # 0 ELSE applied[p] = snapshot
      BY <2>1, <2>3 DEF SettlingInv
    <3>2. CASE Frozen
      BY <1>1, <2>3, <3>1, <3>2 DEF Add, Put
    <3>3. CASE ~Frozen
      <4>1. applied' = [applied EXCEPT ![o] = snapshot]
        BY <3>3 DEF Add, Put
      <4>2. p \in Object
        BY <1>1, <2>3 DEF TypeOK
      <4>3. QED
        BY <1>1, <2>3, <3>1, <3>3, <4>1, <4>2 DEF TypeOK
    <3>4. QED
      BY <3>2, <3>3
  <2>4. \A g \in Group : o # StatefulSet(g) =>
            ((ready[g] = Want(applied, g))' <=> ready[g] = Want(applied, g))
    <3>1. TAKE g \in Group
    <3>2. HAVE o # StatefulSet(g)
    <3>3. applied'[StatefulSet(g)] = applied[StatefulSet(g)]
      BY <3>2, NamedObjects DEF Add, Put, TypeOK
    <3>4. QED
      BY <1>1, <3>3, WantSame
  <2>5. \A g \in Group : (ready[g] = Want(applied, g))' <=> ready[g] = Want(applied', g)
    BY <1>1 DEF Want
  <2>6. avail = (\A g \in Work.groups \ left : ready[g] = Want(applied, g))
    BY <2>1 DEF SettlingInv, AllAvailable
  <2>7. Work.groups \subseteq Group /\ avail \in BOOLEAN
    BY <2>2 DEF ClusterSpec, TypeOK
  <2>8. avail' = (\A g \in Work.groups \ left' : (ready[g] = Want(applied, g))')
    <3>1. CASE left' = left /\ \A g \in Group : o # StatefulSet(g)
      BY <2>4, <2>6, <2>7, <3>1
    <3>2. ASSUME NEW h \in Work.groups, left' = left \ {h}, h \in left, o = StatefulSet(h)
          PROVE  avail' = (\A g \in Work.groups \ left' : (ready[g] = Want(applied, g))')
      <4>1. \A g \in Group : o = StatefulSet(g) <=> g = h
        BY <2>7, <3>2, StatefulSetNames
      <4>2. avail' = (avail /\ (ready[h] = Want(applied, h))')
        BY <2>5, <2>7, <3>2, <4>1
      <4>3. Work.groups \ left' = (Work.groups \ left) \cup {h}
        BY <3>2
      <4>4. \A g \in Work.groups \ left : (ready[g] = Want(applied, g))' <=> ready[g] = Want(applied, g)
        BY <2>4, <2>7, <3>2, <4>1
      <4>5. QED
        BY <2>6, <4>2, <4>3, <4>4
    <3>3. QED
      BY <3>1, <3>2
  <2>9. avail' = AllAvailable(Work.groups \ left)'
    BY <1>2, <2>8 DEF AllAvailable
  <2>10. SettlingInv'
    BY <1>1, <1>2, <1>3, <2>3, <2>9 DEF SettlingInv, StoreAhead, Tracked
  <2>11. QuiescentCorrect'
    BY DEF QuiescentCorrect, Quiet, Busy, Steps
  <2>12. QED
    BY <2>10, <2>11
<1>6. QED
  BY <1>4, <1>5

\* A step within a run that writes no object.
LEMMA SettlingStep ==
    ASSUME TypeOK, ProgressInv, SettlingInv, Busy, Busy',
           UNCHANGED <<history, cached, sched, snapshot, added, left, avail, ready, applied>>,
           events => events',
           pc' = "orphans" /\ ~events' => status' = NewStatus
    PROVE  SettlingInv' /\ QuiescentCorrect'
<1>1. Latest' = Latest /\ Current' = Current /\ Work' = Work /\ Frozen' = Frozen
      /\ NewStatus' = NewStatus
  BY DEF Latest, Current, Work, Frozen, NewStatus
<1>2. Clean' => Clean
  BY <1>1 DEF Clean
<1>3. AllAvailable(Work.groups \ left)' <=> AllAvailable(Work.groups \ left)
  BY <1>1 DEF AllAvailable, Want
<1>4. Busy' /\ Clean' =>
         /\ \A o \in added' : Tracked(o) =>
                IF Frozen' THEN applied'[o] # 0 ELSE applied'[o] = snapshot'
         /\ avail' = AllAvailable(Work.groups \ left)'
         /\ pc' = "orphans" => status' = NewStatus'
  <2>1. SUFFICES ASSUME Clean'
                 PROVE  /\ \A o \in added' : Tracked(o) =>
                               IF Frozen' THEN applied'[o] # 0 ELSE applied'[o] = snapshot'
                        /\ avail' = AllAvailable(Work.groups \ left)'
                        /\ pc' = "orphans" => status' = NewStatus'
    OBVIOUS
  <2>2. avail' = AllAvailable(Work.groups \ left)'
    BY <1>2, <1>3, <2>1 DEF SettlingInv, AllAvailable
  <2>3. pc' = "orphans" => status' = NewStatus'
    BY <1>1, <2>1 DEF Clean
  <2>4. QED
    BY <1>1, <1>2, <2>1, <2>2, <2>3 DEF SettlingInv
<1>5. SettlingInv'
  BY <1>1, <1>4 DEF SettlingInv, Tracked
<1>6. QuiescentCorrect'
  BY DEF QuiescentCorrect, Quiet, Busy, Steps
<1>7. QED
  BY <1>5, <1>6

\* A run that gets to its end leaves a settled cluster, unless it is triggered.
LEMMA SettledAtEnd ==
    ASSUME TypeOK, ProgressInv, SettlingInv, pc = "orphans", Orphans = {}, Clean
    PROVE  Settled(Current)
<1>1. Busy /\ left = {} /\ added = Needed(Work)
  BY DEF Busy, Steps, ProgressInv, AddedByPlace
<1>2. snapshot = Latest /\ snapshot # 0 /\ Work = Current /\ Current \in ClusterSpec
  BY <1>1, CleanRun
<1>3. Unbuildable(Current) = {}
  <2>1. \A g \in Current.groups : g \notin Unbuildable(Current)
    BY <1>1, <1>2 DEF ProgressInv
  <2>2. QED
    BY <2>1 DEF Unbuildable
<1>4. ASSUME NEW o \in Needed(Current), Tracked(o) PROVE UpToDate(Current, o)
  <2>1. IF Frozen THEN applied[o] # 0 ELSE applied[o] = snapshot
    BY <1>1, <1>2, <1>4 DEF SettlingInv
  <2>2. QED
    BY <1>2, <2>1 DEF UpToDate, Frozen, Work
<1>5. Strategy(Current) # "ReconciliationPaused" =>
        \A o \in Object \ Needed(Current) : applied[o] = 0
  BY <1>1, <1>2 DEF Orphans, Frozen
<1>6. status = [operation |-> OperationConditions(Current),
                available |-> \A g \in Current.groups : ready[g] = Want(applied, g)]
  <2>1. avail = AllAvailable(Work.groups \ left) /\ status = NewStatus
    BY <1>1 DEF SettlingInv
  <2>2. Work.groups \ left = Current.groups
    BY <1>1, <1>2
  <2>3. QED
    BY <1>2, <2>1, <2>2 DEF NewStatus, AllAvailable
<1>7. QED
  BY <1>3, <1>4, <1>5, <1>6 DEF Settled

LEMMA SettlingTamper ==
    ASSUME TypeOK, ProgressInv, SettlingInv, QuiescentCorrect, NEW o \in Object, Tamper(o)
    PROVE  SettlingInv' /\ QuiescentCorrect'
<1>1. UNCHANGED <<history, ready, status, cached, sched, pc, snapshot, added, left, avail>>
  BY DEF Tamper, run
<1>2. /\ Latest' = Latest /\ Current' = Current /\ Work' = Work /\ Frozen' = Frozen
      /\ Busy' = Busy /\ NewStatus' = NewStatus
  BY <1>1 DEF Latest, Current, Work, Frozen, Busy, NewStatus
<1>3. StoreAhead'
  BY <1>1, <1>2 DEF SettlingInv, StoreAhead
<1>4. CASE events'
  BY <1>3, <1>4, Unsettled DEF Clean
<1>5. CASE ~events'
  <2>1. ~events /\ Kind(o) \notin Watched /\ Kind(o) \in Deletable
    BY <1>5 DEF Tamper
  <2>2. \A p \in Object : applied'[p] = IF p = o THEN 0 ELSE applied[p]
    BY DEF Tamper, TypeOK
  <2>3. ~Tracked(o)
    BY <2>1 DEF Tracked
  <2>4. \A p \in Object : Tracked(p) => applied'[p] = applied[p]
    BY <2>2, <2>3
  <2>5. \A g \in Group : (ready[g] = Want(applied, g))' <=> (ready[g] = Want(applied, g))
    <3>1. TAKE g \in Group
    <3>2. Tracked(StatefulSet(g)) /\ StatefulSet(g) \in Object
      BY NamedObjects DEF Tracked, Watched, Kind, StatefulSet
    <3>3. QED
      BY <1>1, <2>4, <3>2, WantSame
  <2>6. Clean' => Clean
    BY <1>1, <1>2, <2>1 DEF Clean
  <2>7. SettlingInv'
    <3>1. SUFFICES ASSUME Busy', Clean'
                   PROVE  /\ \A p \in added' : Tracked(p) =>
                                 IF Frozen' THEN applied'[p] # 0 ELSE applied'[p] = snapshot'
                          /\ avail' = AllAvailable(Work.groups \ left)'
                          /\ pc' = "orphans" => status' = NewStatus'
      BY <1>3 DEF SettlingInv, StoreAhead, Tracked
    <3>2. Busy /\ Clean
      BY <1>2, <2>6, <3>1
    <3>3. Work.groups \subseteq Group /\ added \subseteq Object
      BY <3>2, CleanRun DEF ClusterSpec, TypeOK
    <3>4. AllAvailable(Work.groups \ left)' <=> AllAvailable(Work.groups \ left)
      BY <1>1, <1>2, <2>5, <3>3 DEF AllAvailable
    <3>5. avail' = AllAvailable(Work.groups \ left)'
      BY <1>1, <3>2, <3>4 DEF SettlingInv, AllAvailable
    <3>6. QED
      BY <1>1, <1>2, <2>4, <3>2, <3>3, <3>5 DEF SettlingInv
  <2>8. QuiescentCorrect'
    <3>1. SUFFICES ASSUME Quiet', Current'.health = "ok" PROVE Settled(Current)'
      BY DEF QuiescentCorrect
    <3>2. Quiet /\ Current.health = "ok"
      BY <1>1, <1>2, <2>1, <3>1 DEF Quiet
    <3>3. Settled(Current) /\ Current \in ClusterSpec
      BY <3>2, HistoryEntries DEF QuiescentCorrect
    <3>4. \A p \in Object : applied'[p] = applied[p] \/ applied'[p] = 0
      BY <2>2
    <3>5. QED
      BY <1>1, <2>4, <3>3, <3>4, SettledAfterLoss
  <2>9. QED
    BY <2>7, <2>8
<1>6. QED
  BY <1>4, <1>5

LEMMA SettlingDeleteOrphan ==
    ASSUME TypeOK, ProgressInv, SettlingInv, NEW o \in Object, DeleteOrphan(o)
    PROVE  SettlingInv' /\ QuiescentCorrect'
<1>1. UNCHANGED <<history, ready, status, cached, sched, pc, snapshot, added, left, avail>>
  BY DEF DeleteOrphan, run
<1>2. /\ Latest' = Latest /\ Current' = Current /\ Work' = Work /\ Frozen' = Frozen
      /\ Busy' = Busy /\ NewStatus' = NewStatus
  BY <1>1 DEF Latest, Current, Work, Frozen, Busy, NewStatus
<1>3. Busy /\ left = {} /\ added = Needed(Work) /\ o \notin added /\ added \subseteq Object
  BY DEF DeleteOrphan, Orphans, Busy, Steps, ProgressInv, AddedByPlace, TypeOK
<1>4. \A p \in added : applied'[p] = applied[p]
  BY <1>3 DEF DeleteOrphan, TypeOK
<1>5. Clean' => Clean
  <2>1. ~events' => ~events
    BY DEF DeleteOrphan
  <2>2. QED
    BY <1>1, <1>2, <2>1 DEF Clean
<1>6. StoreAhead'
  BY <1>1, <1>2 DEF SettlingInv, StoreAhead
<1>7. SettlingInv'
  <2>1. SUFFICES ASSUME Busy', Clean'
                 PROVE  /\ \A p \in added' : Tracked(p) =>
                               IF Frozen' THEN applied'[p] # 0 ELSE applied'[p] = snapshot'
                        /\ avail' = AllAvailable(Work.groups \ left)'
                        /\ pc' = "orphans" => status' = NewStatus'
    BY <1>6 DEF SettlingInv, StoreAhead, Tracked
  <2>2. Clean /\ Work.groups \subseteq Group
    BY <1>3, <1>5, <2>1, CleanRun DEF ClusterSpec
  <2>3. \A g \in Work.groups : StatefulSet(g) \in added
    BY <1>3, NeededElements DEF GroupObjects
  <2>4. \A g \in Work.groups : (ready[g] = Want(applied, g))' <=> ready[g] = Want(applied, g)
    BY <1>1, <1>4, <2>2, <2>3, WantSame
  <2>5. AllAvailable(Work.groups \ left)' <=> AllAvailable(Work.groups \ left)
    BY <1>1, <1>2, <2>4 DEF AllAvailable
  <2>6. avail' = AllAvailable(Work.groups \ left)'
    BY <1>1, <1>3, <2>2, <2>5 DEF SettlingInv, AllAvailable
  <2>7. QED
    BY <1>1, <1>2, <1>3, <1>4, <2>2, <2>6 DEF SettlingInv
<1>8. QuiescentCorrect'
  BY <1>2, <1>3 DEF QuiescentCorrect, Quiet, Busy, Steps
<1>9. QED
  BY <1>7, <1>8

LEMMA SettlingBegin ==
    ASSUME TypeOK, ProgressInv, Begin
    PROVE  SettlingInv' /\ QuiescentCorrect'
<1> USE DEF server
<1>1. CASE history[cached].health = "ok"
  <2>1. /\ pc' = "sa" /\ snapshot' = cached /\ UNCHANGED <<cached, history, added, avail>>
        /\ left' = history[cached].groups
    BY <1>1 DEF Begin
  <2>2. added' = {} /\ avail' = TRUE
    BY <2>1 DEF Begin, ProgressInv, Busy, Steps
  <2>3. Work' = history[cached] /\ (Work.groups \ left)' = {}
    BY <2>1 DEF Work
  <2>4. AllAvailable(Work.groups \ left)'
    BY <2>3 DEF AllAvailable
  <2>5. cached \in Nat
    BY HistoryEntries DEF TypeOK
  <2>6. ~(snapshot' < cached')
    BY <2>1, <2>5
  <2>7. avail' = AllAvailable(Work.groups \ left)'
    BY <2>2, <2>4 DEF AllAvailable
  <2>8. QED
    BY <2>1, <2>2, <2>6, <2>7 DEF SettlingInv, QuiescentCorrect, Quiet
<1>2. CASE history[cached].health # "ok"
  <2>1. pc' = "idle" /\ UNCHANGED <<history, cached>>
    BY <1>2 DEF Begin
  <2>2. ~(Quiet' /\ Current'.health = "ok")
    BY <1>2, <2>1 DEF Quiet, Current, Latest
  <2>3. QED
    BY <2>1, <2>2 DEF SettlingInv, QuiescentCorrect, Busy, Steps
<1>3. QED
  BY <1>1, <1>2

LEMMA SettlingFinish ==
    ASSUME TypeOK, ProgressInv, SettlingInv, Finish
    PROVE  SettlingInv' /\ QuiescentCorrect'
<1>1. /\ pc' = "idle" /\ pc = "orphans" /\ Orphans = {}
      /\ UNCHANGED <<history, applied, ready, status, cached, events, sched>>
  BY DEF Finish, AwaitChange, server
<1>2. Current' = Current /\ Latest' = Latest
  BY <1>1 DEF Current, Latest
<1>3. Quiet' /\ Current'.health = "ok" => Clean
  BY <1>1, <1>2 DEF Quiet, Clean
<1>4. Settled(Current) => Settled(Current)'
  BY <1>1, <1>2 DEF Settled, UpToDate, Want, Tracked
<1>5. QED
  BY <1>1, <1>3, <1>4, SettledAtEnd DEF SettlingInv, QuiescentCorrect, Busy, Steps

LEMMA SettlingNext ==
    TypeOK /\ ProgressInv /\ SettlingInv /\ QuiescentCorrect /\ [Next]_vars
      => SettlingInv' /\ QuiescentCorrect'
<1> SUFFICES ASSUME TypeOK, ProgressInv, SettlingInv, QuiescentCorrect, [Next]_vars
             PROVE  SettlingInv' /\ QuiescentCorrect'
  OBVIOUS
<1> USE DEF server, runtime
<1>1. CASE Edit \/ Delete
  <2>1. PICK s \in ClusterSpec : history' = Append(history, s)
    BY <1>1, HistoryGrows
  <2>2. Latest' = Latest + 1 /\ \A n \in 1 .. Latest : history'[n] = history[n]
    BY <2>1, AppendSpec
  <2>3. UNCHANGED <<pc, snapshot, cached, sched, events>>
    BY <1>1 DEF Edit, Delete, run
  <2>4. ~Clean'
    BY <2>2, <2>3, HistoryEntries DEF Clean, TypeOK
  <2>5. Busy => cached \in 1 .. Latest
    BY HistoryEntries DEF TypeOK, Busy, Steps
  <2>6. StoreAhead'
    BY <2>2, <2>3, <2>5 DEF SettlingInv, StoreAhead, Gone, Busy
  <2>7. QED
    BY <2>4, <2>6, Unsettled
<1>2. ASSUME UNCHANGED <<history, cached, pc, snapshot, sched>>,
             events' \/ Current.health # "ok"
      PROVE  SettlingInv' /\ QuiescentCorrect'
  <2>1. ~Clean'
    BY <1>2 DEF Clean, Current, Latest
  <2>2. StoreAhead'
    BY <1>2 DEF SettlingInv, StoreAhead, Busy
  <2>3. QED
    BY <2>1, <2>2, Unsettled
<1>3. CASE CollectGarbage
  BY <1>2, <1>3 DEF CollectGarbage, Gone, run
<1>4. ASSUME NEW g \in Group, ScalePods(g) \/ PodFails(g)
      PROVE  SettlingInv' /\ QuiescentCorrect'
  BY <1>2, <1>4 DEF ScalePods, PodFails, run
<1>5. CASE \E o \in Object : Tamper(o)
  BY <1>5, SettlingTamper
<1>6. CASE UNCHANGED <<history, applied, ready, status, runtime, run>>
  <2>1. UNCHANGED <<Latest, Current, Work, Frozen, Busy, NewStatus>>
    BY <1>6 DEF Latest, Current, Work, Frozen, Busy, NewStatus, run
  <2>2. (Clean' <=> Clean) /\ (Quiet' <=> Quiet)
    BY <1>6, <2>1 DEF Clean, Quiet, run
  <2>3. Settled(Current) => Settled(Current)'
    BY <1>6, <2>1 DEF Settled, UpToDate, Want, Tracked
  <2>4. AllAvailable(Work.groups \ left)' <=> AllAvailable(Work.groups \ left)
    BY <1>6, <2>1 DEF AllAvailable, Want, run
  <2>5. avail = AllAvailable(Work.groups \ left) => avail' = AllAvailable(Work.groups \ left)'
    BY <1>6, <2>4 DEF AllAvailable, run
  <2>6. SettlingInv'
    BY <1>6, <2>1, <2>2, <2>5 DEF SettlingInv, Tracked, run
  <2>7. QuiescentCorrect'
    BY <2>1, <2>2, <2>3 DEF QuiescentCorrect
  <2>8. QED
    BY <2>6, <2>7
<1>7. CASE DeliverSpec
  <2>1. /\ sched' = "queued" \/ Gone(history[cached'])
        /\ UNCHANGED history
    BY <1>7 DEF DeliverSpec
  <2>2. ~Clean'
    BY <2>1 DEF Clean, Gone, Current, Latest
  <2>3. QED
    BY <2>1, <2>2, Unsettled DEF StoreAhead, Gone
<1>8. CASE DeliverEvent \/ TimerFires
  BY <1>8, Unsettled DEF DeliverEvent, TimerFires, Clean, StoreAhead
<1>9. CASE Start
  <2>1. ~(Quiet' /\ Current'.health = "ok")
    BY <1>9 DEF Start, Quiet, Gone, Current, Latest
  <2>2. QED
    BY <1>9, <2>1 DEF Start, SettlingInv, QuiescentCorrect, Busy, Steps
<1>10. CASE Crash
  BY <1>10, RunEnds DEF Crash, Busy, Steps, Quiet
<1>11. CASE AggregatorMissing \/ BuildFails \/ StatusTargetGone \/ AddRefused \/ AnswerLost \/ RequestFails
  <2>1. Retry
    BY <1>11 DEF AggregatorMissing, BuildFails, StatusTargetGone, AddRefused, AnswerLost, RequestFails
  <2>2. pc' = "idle" /\ sched' # "none"
    BY <2>1 DEF Retry
  <2>3. QED
    BY <2>2, RunEnds DEF Busy, Steps, Quiet
<1>12. CASE Begin
  BY <1>12, SettlingBegin
<1>13. CASE ApplyServiceAccount \/ ApplyRoleBinding \/ ApplyRoleService
            \/ (AddPdbs /\ Add(PodDisruptionBudget))
  <2>1. PICK o \in ClusterObjects : Add(o)
    BY <1>13 DEF ApplyServiceAccount, ApplyRoleBinding, ApplyRoleService, AddPdbs, ClusterObjects
  <2>2. Busy /\ Busy' /\ pc' # "orphans" /\ left' = left /\ avail' = avail
    BY <1>13 DEF ApplyServiceAccount, ApplyRoleBinding, ApplyRoleService, AddPdbs, Busy, Steps
  <2>3. \A g \in Group : o # StatefulSet(g)
    BY StatefulSetNames
  <2>4. avail' = (avail /\ \A g \in Group : o = StatefulSet(g) => ready[g] = Want(applied', g))
    BY <2>2, <2>3 DEF TypeOK
  <2>5. QED
    BY <2>1, <2>2, <2>3, <2>4, NamedObjects, SettlingAdd
<1>14. CASE (AddPdbs /\ UNCHANGED <<server, runtime, snapshot, added, faults>>)
            \/ ResolveVectorAggregator
  <2>1. Busy /\ Busy' /\ pc' # "orphans"
    BY <1>14 DEF AddPdbs, ResolveVectorAggregator, AfterGroup, Busy, Steps
  <2>2. QED
    BY <1>14, <2>1, SettlingStep DEF AddPdbs, ResolveVectorAggregator
<1>15. ASSUME NEW h \in Group, ApplyRoleGroupService(h) \/ (ApplyConfigMap /\ h = grp)
       PROVE  SettlingInv' /\ QuiescentCorrect'
  <2>1. PICK o \in {RoleGroupService(h), ConfigMap(h)} : Add(o)
    BY <1>15 DEF ApplyRoleGroupService, ApplyConfigMap
  <2>2. Busy /\ Busy' /\ pc' # "orphans" /\ left' = left /\ avail' = avail
    BY <1>15 DEF ApplyRoleGroupService, ApplyConfigMap, Busy, Steps
  <2>3. \A g \in Group : o # StatefulSet(g)
    BY StatefulSetNames DEF Dependencies
  <2>4. avail' = (avail /\ \A g \in Group : o = StatefulSet(g) => ready[g] = Want(applied', g))
    BY <2>2, <2>3 DEF TypeOK
  <2>5. QED
    BY <2>1, <2>2, <2>3, <2>4, NamedObjects, SettlingAdd
<1>16. CASE ApplyConfigMap
  BY <1>15, <1>16 DEF ApplyConfigMap, TypeOK
<1>17. CASE ApplyStatefulSet
  <2>1. /\ grp \in Group /\ grp \in left /\ grp \in Work.groups /\ Add(StatefulSet(grp))
        /\ Busy /\ Busy' /\ pc' # "orphans" /\ left' = left \ {grp}
    BY <1>17 DEF ApplyStatefulSet, AfterGroup, TypeOK, ProgressInv, Busy, Steps
  <2>2. avail' = (avail /\ ready[grp] = Want(applied', grp))
    BY <1>17 DEF ApplyStatefulSet
  <2>3. \A g \in Group : StatefulSet(grp) = StatefulSet(g) <=> g = grp
    BY <2>1, StatefulSetNames
  <2>4. avail' = (avail /\ \A g \in Group : StatefulSet(grp) = StatefulSet(g)
                                               => ready[g] = Want(applied', g))
    BY <2>1, <2>2, <2>3
  <2>5. QED
    BY <2>1, <2>4, NamedObjects, SettlingAdd
<1>18. CASE PatchStatus
  <2>1. Busy /\ Busy' /\ status' = NewStatus /\ (events => events')
    BY <1>18 DEF PatchStatus, Busy, Steps
  <2>2. QED
    BY <1>18, <2>1, SettlingStep DEF PatchStatus
<1>19. CASE \E o \in Object : DeleteOrphan(o)
  BY <1>19, SettlingDeleteOrphan
<1>20. CASE Finish
  BY <1>20, SettlingFinish
<1>21. CASE UNCHANGED vars
  BY <1>6, <1>21 DEF vars
<1>22. QED
  BY <1>1, <1>3, <1>4, <1>5, <1>6, <1>7, <1>8, <1>9, <1>10, <1>11, <1>12, <1>13, <1>14,
     <1>15, <1>16, <1>17, <1>18, <1>19, <1>20, <1>21
  DEF Next, Reconcile, Environment, AggregatorChanges, AddPdbs

\* Initially the operator is down, so nothing is claimed.
LEMMA SettlingInit == Init => SettlingInv /\ QuiescentCorrect
BY DEF Init, SettlingInv, QuiescentCorrect, Quiet, Busy, Steps

-----------------------------------------------------------------------------
(***************************************************************************)
(* The aggregator's address.                                               *)
(***************************************************************************)
\* A ConfigMap is no other object.
LEMMA ConfigMapNames ==
    ASSUME NEW g \in Group
    PROVE  /\ ConfigMap(g) \notin ClusterObjects \cup FirstObjects
           /\ \A h \in Group : ConfigMap(g) # RoleGroupService(h) /\ ConfigMap(g) # StatefulSet(h)
           /\ \A h \in Group : ConfigMap(g) = ConfigMap(h) => g = h
BY DEF StatefulSet, ClusterObjects, FirstObjects, ServiceAccount, RoleBinding, RoleService,
       PodDisruptionBudget, RoleGroupService, ConfigMap

\* A step that writes no ConfigMap and leaves the run's place and findings.
LEMMA ShippingStable ==
    ASSUME TypeOK, ShippingInv, Busy, UNCHANGED <<shipping, snapshot, added, resolved>>,
           pc' \in Located => pc \in Located,
           \/ UNCHANGED history
           \/ \E s \in ClusterSpec : history' = Append(history, s)
    PROVE  ShippingInv'
<1>1. Work' = Work /\ Frozen' = Frozen
  BY SnapshotKept DEF Work, Frozen
<1>2. \A g \in Group : VectorConfig(g)' = VectorConfig(g)
  BY <1>1 DEF VectorConfig
<1>3. QED
  BY <1>1, <1>2 DEF ShippingInv, Located

\* An add of a run records the address it puts into a ConfigMap.
LEMMA ShippingAdd ==
    ASSUME TypeOK, ShippingInv, Busy, NEW o \in Object, Add(o), UNCHANGED resolved,
           pc' \in Located => pc \in Located
    PROVE  ShippingInv'
<1>1. UNCHANGED <<history, snapshot>> /\ added' = added \cup {o}
  BY DEF Add
<1>2. Work' = Work /\ Frozen' = Frozen
  BY <1>1 DEF Work, Frozen
<1>3. \A g \in Group : VectorConfig(g)' = VectorConfig(g)
  BY <1>2 DEF VectorConfig
<1>4. ASSUME ~Frozen, NEW g \in Group, ConfigMap(g) \in added'
      PROVE  shipping'[g] = VectorConfig(g)
  <2>1. shipping' = [h \in Group |-> IF o = ConfigMap(h) THEN VectorConfig(h) ELSE shipping[h]]
    BY <1>4 DEF Add, Put
  <2>2. o # ConfigMap(g) => shipping[g] = VectorConfig(g)
    BY <1>1, <1>4 DEF ShippingInv
  <2>3. QED
    BY <2>1, <2>2
<1>5. QED
  BY <1>1, <1>2, <1>3, <1>4 DEF ShippingInv, Located

LEMMA ShippingNext == TypeOK /\ ProgressInv /\ ShippingInv /\ [Next]_vars => ShippingInv'
<1> SUFFICES ASSUME TypeOK, ProgressInv, ShippingInv, [Next]_vars PROVE ShippingInv'
  OBVIOUS
<1> USE DEF server, runtime
<1>1. ASSUME pc' \notin Steps PROVE ShippingInv'
  BY <1>1 DEF ShippingInv, Located, Busy, Steps
<1>2. CASE Crash \/ Retry \/ Finish \/ Start
  BY <1>1, <1>2 DEF Crash, Retry, Finish, AwaitChange, Start, Steps
<1>3. CASE Edit \/ Delete
  <2>1. /\ UNCHANGED <<shipping, snapshot, added, resolved, pc>>
        /\ \E s \in ClusterSpec : history' = Append(history, s)
    BY <1>3, HistoryGrows DEF Edit, Delete, run
  <2>2. QED
    BY <1>1, <2>1, ShippingStable DEF Busy
<1>4. CASE UNCHANGED <<run, history, shipping>>
  BY <1>1, <1>4, ShippingStable DEF Busy, run
<1>5. CASE Begin
  <2>1. pc' \in {"idle", "sa"} /\ added' = {}
    BY <1>5 DEF Begin, ProgressInv, Busy, Steps
  <2>2. QED
    BY <2>1 DEF ShippingInv, Located
<1>6. CASE ApplyServiceAccount \/ ApplyRoleBinding \/ ApplyRoleService
            \/ (AddPdbs /\ Add(PodDisruptionBudget))
  <2>1. Busy /\ UNCHANGED resolved /\ \E o \in ClusterObjects : Add(o)
    BY <1>6 DEF ApplyServiceAccount, ApplyRoleBinding, ApplyRoleService, AddPdbs,
                Busy, Steps, ClusterObjects
  <2>2. pc' \in Located => pc \in Located
    BY <1>6 DEF ApplyServiceAccount, ApplyRoleBinding, ApplyRoleService, AddPdbs, Located
  <2>3. QED
    BY <2>1, <2>2, ShippingAdd, NamedObjects
<1>7. ASSUME NEW g \in Group, ApplyRoleGroupService(g) PROVE ShippingInv'
  BY <1>7, ShippingAdd, NamedObjects DEF ApplyRoleGroupService, Located, Busy, Steps
<1>8. CASE ApplyConfigMap \/ ApplyStatefulSet
  <2>1. grp \in Group /\ Busy /\ UNCHANGED resolved /\ pc \in Located
    BY <1>8 DEF ApplyConfigMap, ApplyStatefulSet, TypeOK, Busy, Steps, Located
  <2>2. \E o \in {ConfigMap(grp), StatefulSet(grp)} : Add(o)
    BY <1>8 DEF ApplyConfigMap, ApplyStatefulSet
  <2>3. QED
    BY <2>1, <2>2, ShippingAdd, NamedObjects
<1>9. CASE ResolveVectorAggregator
  <2>1. added = FirstObjects
    BY <1>9 DEF ResolveVectorAggregator, ProgressInv, AddedByPlace, GroupsDone
  <2>2. UNCHANGED <<history, snapshot, added>> /\ (Work.aggregator => resolved' # 0)
    BY <1>9 DEF ResolveVectorAggregator
  <2>3. \A g \in Group : ConfigMap(g) \notin added'
    BY <2>1, <2>2, ConfigMapNames
  <2>4. Work' = Work
    BY <2>2 DEF Work
  <2>5. QED
    BY <2>2, <2>3, <2>4 DEF ShippingInv
<1>10. CASE (AddPdbs /\ UNCHANGED <<server, runtime, snapshot, added, faults>>) \/ PatchStatus
  <2>1. Busy /\ UNCHANGED <<history, shipping, snapshot, added, resolved>> /\ pc \in Located
    BY <1>10 DEF AddPdbs, PatchStatus, Busy, Steps, Located
  <2>2. QED
    BY <2>1, ShippingStable
<1>11. CASE UNCHANGED vars
  BY <1>4, <1>11 DEF vars
<1>12. QED
  BY <1>2, <1>3, <1>4, <1>5, <1>6, <1>7, <1>8, <1>9, <1>10, <1>11
  DEF Next, Reconcile, Environment, CollectGarbage, ScalePods, PodFails, Tamper,
      AggregatorChanges, DeliverSpec, DeliverEvent, TimerFires, DeleteOrphan, AddPdbs,
      AggregatorMissing, BuildFails, StatusTargetGone, AddRefused, AnswerLost, RequestFails

\* A run that gets to its end has given all groups the one address it found.
LEMMA ShipsToOneAtEnd ==
    ASSUME TypeOK, ProgressInv, SettlingInv, ShippingInv, pc = "orphans", Clean,
           ~Current.paused
    PROVE  ShipsToOne(Current)
<1>1. Busy /\ left = {} /\ added = Needed(Work)
  BY DEF Busy, Steps, ProgressInv, AddedByPlace
<1>2. snapshot = Latest /\ snapshot # 0 /\ Work = Current /\ Current \in ClusterSpec
  BY <1>1, CleanRun
<1>3. ~Frozen
  BY <1>2 DEF Frozen, Strategy
<1>4. SUFFICES ASSUME NEW g \in Current.groups \cap Current.vector
               PROVE  shipping[g] = resolved /\ resolved # 0
  BY DEF ShipsToOne
<1>5. g \in Group /\ g \in Work.groups /\ g \in Work.vector
  BY <1>2 DEF ClusterSpec
<1>6. ConfigMap(g) \in added
  BY <1>1, <1>5, NeededElements DEF GroupObjects
<1>7. shipping[g] = resolved
  BY <1>1, <1>3, <1>5, <1>6 DEF ShippingInv, VectorConfig
<1>8. Work.aggregator
  <2>1. g \notin Unbuildable(Work)
    BY <1>1, <1>5 DEF ProgressInv
  <2>2. QED
    BY <1>5, <2>1 DEF Unbuildable
<1>9. QED
  BY <1>7, <1>8 DEF ShippingInv, Located

LEMMA OneAggregatorNext ==
    TypeOK /\ ProgressInv /\ SettlingInv /\ ShippingInv /\ OneAggregator /\ [Next]_vars
      => OneAggregator'
<1> SUFFICES ASSUME TypeOK, ProgressInv, SettlingInv, ShippingInv, OneAggregator, [Next]_vars
             PROVE  OneAggregator'
  OBVIOUS
<1> USE DEF server, runtime
<1>1. ASSUME UNCHANGED <<pc, shipping, history, cached, sched>>, events => events'
      PROVE  OneAggregator'
  BY <1>1 DEF OneAggregator, Quiet, ShipsToOne, Current, Latest
<1>2. CASE \/ CollectGarbage \/ AggregatorChanges \/ UNCHANGED vars
           \/ \E g \in Group : ScalePods(g) \/ PodFails(g)
           \/ \E o \in Object : Tamper(o) \/ DeleteOrphan(o)
  <2>1. UNCHANGED <<pc, shipping, history, cached, sched>>
    BY <1>2 DEF CollectGarbage, AggregatorChanges, ScalePods, PodFails, Tamper, DeleteOrphan,
                vars, run
  <2>2. events => events'
    BY <1>2, Zenon DEF CollectGarbage, AggregatorChanges, ScalePods, PodFails, Tamper,
                DeleteOrphan, vars
  <2>3. QED
    BY <1>1, <2>1, <2>2
<1>3. ASSUME ~(Quiet' /\ Current'.health = "ok") PROVE OneAggregator'
  BY <1>3 DEF OneAggregator
<1>4. CASE Edit \/ Delete
  <2>1. PICK s \in ClusterSpec : history' = Append(history, s)
    BY <1>4, HistoryGrows
  <2>2. Latest' = Latest + 1 /\ cached' = cached
    BY <1>4, <2>1, AppendSpec DEF Edit, Delete
  <2>3. QED
    BY <1>3, <2>2, HistoryEntries DEF Quiet, TypeOK
<1>5. CASE DeliverSpec \/ DeliverEvent \/ TimerFires \/ Start \/ Retry \/ Crash
  BY <1>3, <1>5 DEF DeliverSpec, DeliverEvent, TimerFires, Start, Retry, Crash, Quiet, Gone,
                    Current, Latest
<1>6. CASE Begin
  <2>1. pc' = "idle" => history[cached].health # "ok"
    BY <1>6 DEF Begin
  <2>2. UNCHANGED <<history, cached>>
    BY <1>6 DEF Begin
  <2>3. QED
    BY <1>3, <2>1, <2>2 DEF Quiet, Current, Latest
<1>7. CASE \/ ApplyServiceAccount \/ ApplyRoleBinding \/ ApplyRoleService
           \/ ResolveVectorAggregator \/ ApplyConfigMap \/ ApplyStatefulSet \/ AddPdbs
           \/ PatchStatus \/ \E g \in Group : ApplyRoleGroupService(g)
  BY <1>3, <1>7 DEF ApplyServiceAccount, ApplyRoleBinding, ApplyRoleService, AfterGroup,
     ResolveVectorAggregator, ApplyConfigMap, ApplyStatefulSet, AddPdbs, PatchStatus,
     ApplyRoleGroupService, Quiet
<1>8. CASE Finish
  <2>1. /\ pc = "orphans"
        /\ UNCHANGED <<history, shipping, cached, events, sched>>
    BY <1>8 DEF Finish, AwaitChange
  <2>2. Current' = Current /\ Latest' = Latest
    BY <2>1 DEF Current, Latest
  <2>3. Quiet' /\ Current'.health = "ok" => Clean
    BY <2>1, <2>2 DEF Quiet, Clean
  <2>4. QED
    BY <2>1, <2>2, <2>3, ShipsToOneAtEnd DEF OneAggregator, ShipsToOne
<1>9. QED
  BY <1>2, <1>4, <1>5, <1>6, <1>7, <1>8
  DEF Next, Reconcile, Environment, AggregatorMissing, BuildFails, StatusTargetGone,
      AddRefused, AnswerLost, RequestFails

\* Initially the operator is down and knows no address.
LEMMA ShippingInit == Init => ShippingInv /\ OneAggregator
BY DEF Init, ShippingInv, Located, OneAggregator, Quiet, Busy, Steps

LEMMA InductiveInit == Init => InductiveInv
BY TypeInit, SafetyInit, SettlingInit, ShippingInit DEF InductiveInv

LEMMA InductiveNext == InductiveInv /\ [Next]_vars => InductiveInv'
BY TypeNext, ProgressNext, GenerationNext, SettlingNext, ShippingNext, OneAggregatorNext
DEF InductiveInv

\* The inductive invariant of the reconciliation.
THEOREM Inductive == Spec => []InductiveInv
BY InductiveInit, InductiveNext, PTL DEF Spec

\* Whenever nothing is pending in the operator, the cluster is settled.
THEOREM QuiescentCorrectHolds == Spec => []QuiescentCorrect
<1>1. InductiveInv => QuiescentCorrect
  BY DEF InductiveInv
<1>2. QED
  BY <1>1, Inductive, PTL

\* The Vector agents of a settled cluster all ship to the same aggregator.
THEOREM OneAggregatorHolds == Spec => []OneAggregator
<1>1. InductiveInv => OneAggregator
  BY DEF InductiveInv
<1>2. QED
  BY <1>1, Inductive, PTL
=============================================================================
