------------------------ MODULE HelloRefinementProofs ------------------------
(***************************************************************************)
(* The controller of one cluster implements ClusterPromise and             *)
(* ClusterRuntime, for any set of role groups and specs and any bounds.    *)
(***************************************************************************)
EXTENDS HelloReconcileProofs

-----------------------------------------------------------------------------
(***************************************************************************)
(* Both specifications speak of the same objects.                          *)
(***************************************************************************)
LEMMA SameCluster ==
    /\ Promise!Object = Object
    /\ Promise!Watched = Watched
    /\ \A o : Promise!Kind(o) = Kind(o)
    /\ \A s : /\ Promise!Needed(s) = Needed(s)
              /\ Promise!OperationConditions(s) = OperationConditions(s)
              /\ Promise!Gone(s) <=> Gone(s)
              /\ Promise!Paused(s) <=> Strategy(s) = "ReconciliationPaused"
<1>1. \A g : Promise!GroupObjects(g) = GroupObjects(g)
  BY DEF GroupObjects, Promise!GroupObjects, RoleGroupService, Promise!RoleGroupService,
         ConfigMap, Promise!ConfigMap, StatefulSet, Promise!StatefulSet
<1>2. /\ Promise!ClusterObjects = ClusterObjects
      /\ {Promise!ServiceAccount, Promise!RoleBinding, Promise!RoleService}
           = {ServiceAccount, RoleBinding, RoleService}
      /\ Promise!PodDisruptionBudget = PodDisruptionBudget
  BY DEF ClusterObjects, Promise!ClusterObjects, ServiceAccount, Promise!ServiceAccount,
         RoleBinding, Promise!RoleBinding, RoleService, Promise!RoleService,
         PodDisruptionBudget, Promise!PodDisruptionBudget
<1>3. Promise!Object = Object
  BY <1>1, <1>2 DEF Object, Promise!Object
<1>4. \A s : Promise!Needed(s) = Needed(s)
  BY <1>1, <1>2 DEF Needed, Promise!Needed, Pdbs, Promise!Pdbs
<1>5. \A s : Promise!Strategy(s) = Strategy(s)
  BY DEF Strategy, Promise!Strategy
<1>6. \A s : Promise!OperationConditions(s) = OperationConditions(s)
  BY <1>5 DEF OperationConditions, Promise!OperationConditions
<1>7. QED
  BY <1>3, <1>4, <1>5, <1>6 DEF Watched, Promise!Watched, Kind, Promise!Kind, Gone,
     Promise!Gone, Promise!Paused

LEMMA SameContents == \A s, o : Promise!Render(s, o) = Render(s, o)
<1>1. \A s : /\ Promise!RoleServiceContents(s) = RoleServiceContents(s)
             /\ Promise!RoleGroupServiceContents(s) = RoleGroupServiceContents(s)
             /\ Promise!PodDisruptionBudgetContents(s) = PodDisruptionBudgetContents(s)
  BY DEF RoleServiceContents, Promise!RoleServiceContents, RoleGroupServiceContents,
         Promise!RoleGroupServiceContents, PodDisruptionBudgetContents,
         Promise!PodDisruptionBudgetContents
<1>2. \A s, g : Promise!ConfigMapContents(s, g) = ConfigMapContents(s, g)
  BY DEF ConfigMapContents, Promise!ConfigMapContents
<1>3. \A s, g : Promise!StatefulSetContents(s, g) = StatefulSetContents(s, g)
  BY DEF StatefulSetContents, Promise!StatefulSetContents, Requested, Promise!Requested,
         Strategy, Promise!Strategy
<1>4. QED
  BY <1>1, <1>2, <1>3 DEF Render, Promise!Render, Kind, Promise!Kind,
     RoleService, Promise!RoleService, PodDisruptionBudget, Promise!PodDisruptionBudget,
     RoleGroupService, Promise!RoleGroupService

LEMMA SameHistory ==
    /\ Promise!Latest = Latest
    /\ Promise!Current = Current
    /\ Promise!Basis = Work
BY DEF Promise!Latest, Latest, Promise!Current, Current, Promise!Basis, Work

-----------------------------------------------------------------------------
(***************************************************************************)
(* Resting means carried out.                                              *)
(***************************************************************************)
LEMMA SettledCarriedOut ==
    ASSUME TypeOK, NEW s \in ClusterSpec, Settled(s)
    PROVE  Promise!CarriedOut(s)
<1>1. Needed(s) \subseteq Object
  BY DEF Needed, ClusterSpec, Object, ClusterObjects, Pdbs
<1>2. status.operation = OperationConditions(s)
  BY DEF Settled
<1>3. \A o : Promise!Noticed(o) <=> Tracked(o)
  BY SameCluster DEF Promise!Noticed, Tracked
<1>4. QED
  BY <1>1, <1>2, <1>3, SameCluster, SameContents
  DEF Promise!CarriedOut, Settled, UpToDate

LEMMA RestsCarriedOut == InductiveInv => Promise!Kept
BY SettledCarriedOut, HistoryEntries, SameHistory
DEF InductiveInv, QuiescentCorrect, Promise!Kept

-----------------------------------------------------------------------------
(***************************************************************************)
(* Every step of the controller is a step of the promise.                  *)
(***************************************************************************)
\* While a run is in progress, or ends with another one to come, there is no rest.
LEMMA NoRest ==
    /\ Busy => ~Quiet
    /\ Retry => ~Quiet'
    /\ Busy' => ~Quiet'
    /\ Quiet' => ~Busy'
BY DEF Busy, Steps, Quiet, Retry

\* A step that changes nothing the users see wakes the operator or lets it rest.
LEMMA UnseenStep ==
    ASSUME TypeOK', UNCHANGED <<history, applied, status, snapshot>>
    PROVE  Promise!Wake \/ Promise!Stop \/ UNCHANGED Promise!promised
<1>1. CASE ~Quiet'
  BY <1>1 DEF Promise!Wake
<1>2. CASE Quiet'
  <2>1. snapshot' = 0
    BY <1>2, NoRest DEF TypeOK
  <2>2. QED
    BY <2>1 DEF Promise!Stop
<1>3. QED
  BY <1>1, <1>2

\* A run that ends gives up its basis.
LEMMA RunStops ==
    ASSUME TypeOK', UNCHANGED <<history, applied, status>>, pc' \notin Steps
    PROVE  Promise!Stop
BY DEF Promise!Stop, TypeOK, Busy

\* What may be added next is needed, and what it depends on was added before.
LEMMA AddingNeeded ==
    ASSUME TypeOK, ProgressInv, NEW o \in Adding
    PROVE  o \in Needed(Work) /\ Promise!Before(o) \subseteq added
<1>1. Adding # {} => Busy
  BY AddingObjects
<1>2. left \subseteq Work.groups /\ (pc \in {"cm", "sts"} => grp \in Work.groups)
  BY <1>1 DEF ProgressInv, TypeOK, Busy, Steps
<1>3. o \in Needed(Work)
  BY <1>2, NeededElements DEF Adding, FirstObjects, GroupObjects, Pdbs
<1>4. CASE Kind(o) = "StatefulSet"
  <2>1. pc = "sts" /\ o = StatefulSet(grp)
    BY <1>4 DEF Adding, Kind, ServiceAccount, RoleBinding, RoleService, PodDisruptionBudget,
                RoleGroupService, ConfigMap, StatefulSet
  <2>2. Promise!Before(o) = Dependencies(grp)
    BY <2>1, SameCluster
    DEF Promise!Before, Dependencies, Kind, StatefulSet, ServiceAccount, Promise!ServiceAccount,
        RoleService, Promise!RoleService, RoleGroupService, Promise!RoleGroupService,
        ConfigMap, Promise!ConfigMap
  <2>3. QED
    BY <1>3, <2>1, <2>2, DependenciesAdded
<1>5. CASE Kind(o) # "StatefulSet"
  BY <1>3, <1>5, SameCluster DEF Promise!Before
<1>6. QED
  BY <1>4, <1>5

\* What a run has added is in place.
LEMMA AddedInPlace ==
    ASSUME TypeOK, GenerationInv, Busy, ~Frozen, NEW O \in SUBSET added
    PROVE  Promise!InPlace(O)
BY SameCluster, SameHistory DEF GenerationInv, Promise!InPlace

LEMMA WriteApplies ==
    ASSUME TypeOK, TypeOK', ProgressInv, GenerationInv, NEW o \in Adding, Put(o),
           UNCHANGED <<history, status>>, snapshot' \in {0, snapshot}, ~Quiet'
    PROVE  Promise!Apply(o) \/ Promise!Stop \/ Promise!Wake
<1>1. o \in Object /\ Busy /\ o \in Needed(Work) /\ snapshot # 0
  BY AddingObjects, AddingNeeded DEF TypeOK
<1>2. CASE Frozen
  BY <1>2 DEF Put, Promise!Stop, Promise!Wake
<1>3. CASE ~Frozen
  <2>1. applied' = [applied EXCEPT ![o] = snapshot]
    BY <1>3 DEF Put
  <2>2. ~Promise!Paused(Promise!Basis)
    BY <1>3, SameCluster, SameHistory DEF Frozen
  <2>3. Promise!InPlace(Promise!Before(o))
    BY <1>1, <1>3, AddingNeeded, AddedInPlace
  <2>4. Promise!Carrying
    BY <1>1 DEF Promise!Carrying
  <2>5. QED
    BY <1>1, <2>1, <2>2, <2>3, <2>4, SameCluster, SameHistory DEF Promise!Apply
<1>4. QED
  BY <1>2, <1>3

LEMMA StatusReports ==
    ASSUME TypeOK, ProgressInv, GenerationInv, pc = "status",
           status' = NewStatus, UNCHANGED <<history, applied>>,
           snapshot' \in {0, snapshot}, ~Quiet'
    PROVE  Promise!Report
<1>1. Busy /\ snapshot # 0 /\ added = Needed(Work)
  BY DEF Busy, Steps, TypeOK, ProgressInv, AddedByPlace
<1>2. Promise!Paused(Promise!Basis) \/ Promise!InPlace(Promise!Needed(Promise!Basis))
  <2>1. CASE Frozen
    BY <2>1, SameCluster, SameHistory DEF Frozen
  <2>2. CASE ~Frozen
    BY <1>1, <2>2, AddedInPlace, SameCluster, SameHistory
  <2>3. QED
    BY <2>1, <2>2
<1>3. (status.operation)' = Promise!OperationConditions(Promise!Basis)
  BY SameCluster, SameHistory DEF NewStatus
<1>4. Promise!Carrying
  BY <1>1 DEF Promise!Carrying
<1>5. QED
  BY <1>2, <1>3, <1>4 DEF Promise!Report

LEMMA OrphanRemoved ==
    ASSUME TypeOK, ProgressInv, GenerationInv, NEW o \in Object, DeleteOrphan(o)
    PROVE  Promise!Remove(o)
<1>1. Busy /\ ~Frozen /\ o \notin added /\ added = Needed(Work) /\ snapshot # 0
  BY DEF DeleteOrphan, Orphans, Busy, Steps, ProgressInv, AddedByPlace, TypeOK
<1>2. UNCHANGED <<history, status, snapshot, pc>> /\ applied' = [applied EXCEPT ![o] = 0]
  BY DEF DeleteOrphan, run
<1>3. Promise!Carrying
  BY <1>1, <1>2, NoRest DEF Promise!Carrying, Busy
<1>4. ~Promise!Paused(Promise!Basis) /\ o \notin Promise!Needed(Promise!Basis)
  BY <1>1, SameCluster, SameHistory DEF Frozen
<1>5. Promise!InPlace(Promise!Needed(Promise!Basis))
  BY <1>1, AddedInPlace, SameCluster, SameHistory
<1>6. QED
  BY <1>2, <1>3, <1>4, <1>5 DEF Promise!Remove

LEMMA StepKept ==
    ASSUME InductiveInv, InductiveInv', [Next]_vars
    PROVE  \/ UNCHANGED Promise!promised
           \/ Promise!Write \/ Promise!Collect
           \/ \E o \in Object : Promise!Lose(o)
           \/ \E n \in 1 .. Latest : Promise!TakeUp(n)
           \/ \E o \in Object : Promise!Apply(o) \/ Promise!Remove(o)
           \/ Promise!Report \/ Promise!Stop \/ Promise!Wake
<1> DEFINE Goal == \/ UNCHANGED Promise!promised
                   \/ Promise!Write \/ Promise!Collect
                   \/ \E o \in Object : Promise!Lose(o)
                   \/ \E n \in 1 .. Latest : Promise!TakeUp(n)
                   \/ \E o \in Object : Promise!Apply(o) \/ Promise!Remove(o)
                   \/ Promise!Report \/ Promise!Stop \/ Promise!Wake
<1> SUFFICES Goal
  OBVIOUS
<1>0. /\ TypeOK /\ ProgressInv /\ GenerationInv
      /\ TypeOK'
  BY DEF InductiveInv
<1> USE DEF server, runtime
<1>1. ASSUME UNCHANGED <<history, applied, status, snapshot>> PROVE Goal
  BY <1>0, <1>1, UnseenStep
<1>2. CASE \/ DeliverSpec \/ DeliverEvent \/ TimerFires \/ Start
           \/ AggregatorChanges \/ ResolveVectorAggregator \/ UNCHANGED vars
           \/ (AddPdbs /\ ~Work.pdb)
           \/ \E g \in Group : ScalePods(g) \/ PodFails(g)
  BY <1>1, <1>2 DEF DeliverSpec, DeliverEvent, TimerFires, Start, AggregatorChanges, vars,
     ResolveVectorAggregator, AddPdbs, Add, ScalePods, PodFails, run
<1>3. CASE Edit \/ Delete
  <2>1. /\ UNCHANGED <<applied, status, snapshot, cached>> /\ ~Gone(Current)
        /\ \E s \in Specs \cup {[Current EXCEPT !.health = "gone"]} : history' = Append(history, s)
    BY <1>3 DEF Edit, Delete, run
  <2>2. ~Quiet'
    <3>1. PICK s \in ClusterSpec : history' = Append(history, s)
      BY <1>0, <1>3, HistoryGrows
    <3>2. QED
      BY <1>0, <2>1, <3>1, AppendSpec, HistoryEntries DEF Quiet, TypeOK
  <2>3. Promise!Write
    BY <2>1, <2>2, SameCluster, SameHistory DEF Promise!Write
  <2>4. QED
    BY <2>3
<1>4. CASE CollectGarbage
  <2>1. ~Quiet'
    BY <1>4 DEF CollectGarbage, Quiet
  <2>2. Promise!Collect
    BY <1>4, <2>1, SameCluster, SameHistory DEF CollectGarbage, Promise!Collect, run
  <2>3. QED
    BY <2>2
<1>5. ASSUME NEW o \in Object, Tamper(o) PROVE Goal
  <2>1. /\ UNCHANGED <<history, status, snapshot, pc, sched, cached>>
        /\ applied' = [applied EXCEPT ![o] = 0] /\ Kind(o) \in Deletable
    BY <1>5 DEF Tamper, run
  <2>2. events => events'
    BY <1>5, Zenon DEF Tamper
  <2>3. Quiet' => Quiet
    BY <2>1, <2>2 DEF Quiet, Latest
  <2>4. Promise!Lose(o)
    BY <2>1, <2>3, SameCluster DEF Promise!Lose
  <2>5. QED
    BY <2>4
<1>6. CASE Begin
  <2>1. CASE history[cached].health # "ok"
    BY <1>1, <1>6, <2>1 DEF Begin
  <2>2. CASE history[cached].health = "ok"
    <3>1. /\ snapshot' = cached /\ pc' = "sa" /\ snapshot = 0
          /\ UNCHANGED <<history, applied, status>>
      BY <1>0, <1>6, <2>2 DEF Begin, TypeOK, Busy, Steps
    <3>2. cached \in 1 .. Latest
      BY <1>0, <1>6 DEF Begin, TypeOK
    <3>3. Quiet = FALSE /\ Quiet' = FALSE
      BY <1>6, <3>1 DEF Begin, Quiet
    <3>4. Promise!TakeUp(cached)
      BY <1>0, <2>2, <3>1, <3>3, SameCluster DEF Promise!TakeUp, GenerationInv
    <3>5. QED
      BY <3>2, <3>4
  <2>3. QED
    BY <2>1, <2>2
<1>7. CASE \/ Crash \/ Finish \/ AggregatorMissing \/ BuildFails \/ StatusTargetGone
           \/ AddRefused \/ RequestFails
  <2>1. UNCHANGED <<history, applied, status>> /\ pc' \notin Steps
    BY <1>7 DEF Crash, Finish, AwaitChange, AggregatorMissing, BuildFails, StatusTargetGone,
                AddRefused, RequestFails, Retry, Steps
  <2>2. QED
    BY <1>0, <2>1, RunStops
<1>8. ASSUME NEW o \in Adding, Add(o), Busy' PROVE Goal
  <2>1. UNCHANGED <<history, status, snapshot>> /\ Put(o)
    BY <1>8 DEF Add
  <2>2. QED
    BY <1>0, <1>8, <2>1, WriteApplies, NoRest, AddingObjects
<1>9. CASE ApplyServiceAccount \/ ApplyRoleBinding \/ ApplyRoleService
           \/ (AddPdbs /\ Work.pdb)
  <2>1. Busy' /\ \E o \in Adding : Add(o)
    BY <1>9 DEF ApplyServiceAccount, ApplyRoleBinding, ApplyRoleService, AddPdbs, Adding,
                Busy, Steps
  <2>2. QED
    BY <1>8, <2>1
<1>10. ASSUME NEW g \in Group, ApplyRoleGroupService(g) PROVE Goal
  <2>1. Busy' /\ RoleGroupService(g) \in Adding /\ Add(RoleGroupService(g))
    BY <1>10 DEF ApplyRoleGroupService, Adding, Busy, Steps
  <2>2. QED
    BY <1>8, <2>1
<1>11. CASE ApplyConfigMap \/ ApplyStatefulSet
  <2>1. Busy' /\ \E o \in Adding : Add(o)
    BY <1>11 DEF ApplyConfigMap, ApplyStatefulSet, AfterGroup, Adding, Busy, Steps
  <2>2. QED
    BY <1>8, <2>1
<1>12. CASE PatchStatus
  <2>1. /\ pc = "status" /\ status' = NewStatus /\ UNCHANGED <<history, applied, snapshot>>
        /\ Busy'
    BY <1>12 DEF PatchStatus, Busy, Steps
  <2>2. QED
    BY <1>0, <2>1, NoRest, StatusReports
<1>13. ASSUME NEW o \in Object, DeleteOrphan(o) PROVE Goal
  BY <1>0, <1>13, OrphanRemoved
<1>14. CASE AnswerLost
  <2>1. Retry /\ UNCHANGED history /\ snapshot' = 0
    BY <1>14 DEF AnswerLost, Retry, ForgetRun
  <2>2. ~Quiet'
    BY <2>1, NoRest
  <2>3. ASSUME NEW o \in Adding, Put(o), UNCHANGED status PROVE Goal
    BY <1>0, <2>1, <2>2, <2>3, WriteApplies, AddingObjects
  <2>4. CASE pc = "status" /\ status' = NewStatus /\ UNCHANGED applied
    BY <1>0, <2>1, <2>2, <2>4, StatusReports
  <2>5. QED
    BY <1>14, <2>3, <2>4 DEF AnswerLost
<1>15. QED
  BY <1>2, <1>3, <1>4, <1>5, <1>6, <1>7, <1>9, <1>10, <1>11, <1>12, <1>13, <1>14
  DEF Next, Reconcile, Environment, AddPdbs

\* Initially the operator is down and has promised nothing.
LEMMA PromiseInit == Init => Promise!Init
BY SameCluster, SpecsAssumption
DEF Init, Promise!Init, Quiet, NoStatus

LEMMA PromiseStep ==
    InductiveInv /\ InductiveInv' /\ [Next]_vars => [Promise!Next]_Promise!promised
<1>1. InductiveInv' => Promise!Kept'
  BY RestsCarriedOut, PTL
<1>2. QED
  BY <1>1, StepKept, SameCluster, SameHistory DEF Promise!Next

(***************************************************************************)
(* Whatever the retries, crashes, lost answers and stale caches, users see *)
(* the operator carry out one valid generation of the spec after another,  *)
(* in order, and rest only on the current one.                             *)
(***************************************************************************)
THEOREM ImplementsPromiseHolds == Spec => ImplementsPromise
<1>1. Init => Promise!Init
  BY PromiseInit
<1>2. InductiveInv /\ InductiveInv' /\ [Next]_vars => [Promise!Next]_Promise!promised
  BY PromiseStep
<1>3. QED
  BY <1>1, <1>2, Inductive, PTL DEF Spec, ImplementsPromise, Promise!Spec

-----------------------------------------------------------------------------
(***************************************************************************)
(* Every step of the controller is a step of the runtime.                  *)
(***************************************************************************)
LEMMA RunGoesOn ==
    ASSUME Busy, Busy', UNCHANGED sched
    PROVE  UNCHANGED Runtime!scheduling
BY DEF Runtime!scheduling, Busy, Steps

LEMMA RunOver ==
    ASSUME TypeOK, Busy, pc' = "idle",
           sched' = sched \/ sched' = (IF sched = "queued" THEN sched ELSE "timer")
    PROVE  Runtime!End
BY DEF Runtime!End, Busy, Steps, TypeOK

LEMMA RuntimeStep == TypeOK /\ [Next]_vars => [Runtime!Next]_Runtime!scheduling
<1> SUFFICES ASSUME TypeOK, [Next]_vars
             PROVE  [Runtime!Next]_Runtime!scheduling
  OBVIOUS
<1> USE DEF server, runtime, run
<1>1. ASSUME UNCHANGED <<pc, sched>> PROVE UNCHANGED Runtime!scheduling
  BY <1>1 DEF Runtime!scheduling, Busy
<1>2. CASE \/ Edit \/ Delete \/ CollectGarbage \/ AggregatorChanges \/ UNCHANGED vars
           \/ \E g \in Group : ScalePods(g) \/ PodFails(g)
           \/ \E o \in Object : Tamper(o) \/ DeleteOrphan(o)
  BY <1>1, <1>2 DEF Edit, Delete, CollectGarbage, AggregatorChanges, vars, ScalePods,
                    PodFails, Tamper, DeleteOrphan
<1>3. CASE DeliverSpec \/ DeliverEvent \/ TimerFires
  <2>1. pc # "down" /\ UNCHANGED pc /\ sched' \in {sched, "queued"}
    BY <1>3 DEF DeliverSpec, DeliverEvent, TimerFires
  <2>2. sched' = "queued" => Runtime!Trigger
    BY <2>1 DEF Runtime!Trigger, Busy
  <2>3. QED
    BY <1>1, <2>1, <2>2 DEF Runtime!Next
<1>4. CASE Start
  <2>1. pc = "down" /\ pc' = "idle" /\ sched' \in {"none", "queued"}
    BY <1>4 DEF Start
  <2>2. Runtime!Up
    BY <2>1 DEF Runtime!Up, Busy, Steps
  <2>3. QED
    BY <2>2 DEF Runtime!Next
<1>5. CASE Crash
  BY <1>5 DEF Crash, Runtime!Down, Runtime!Next, Busy, Steps
<1>6. CASE Begin
  <2>1. CASE history[cached].health = "ok"
    <3>1. pc = "idle" /\ pc' = "sa" /\ sched = "queued" /\ sched' = "none"
      BY <1>6, <2>1 DEF Begin
    <3>2. QED
      BY <3>1 DEF Runtime!Begin, Runtime!Next, Busy, Steps
  <2>2. CASE history[cached].health # "ok"
    <3>1. pc = "idle" /\ pc' = "idle" /\ sched = "queued" /\ sched' \in {"none", "timer"}
      BY <1>6, <2>2 DEF Begin
    <3>2. Runtime!Skip
      BY <3>1 DEF Runtime!Skip, Busy, Steps
    <3>3. QED
      BY <3>2 DEF Runtime!Next
  <2>3. QED
    BY <2>1, <2>2
<1>7. CASE \/ Finish \/ AggregatorMissing \/ BuildFails \/ StatusTargetGone
           \/ AddRefused \/ RequestFails \/ AnswerLost
  <2>1. Busy
    BY <1>7, AddingObjects DEF Finish, AggregatorMissing, BuildFails, StatusTargetGone,
       AddRefused, RequestFails, AnswerLost, Busy, Steps
  <2>2. /\ pc' = "idle"
        /\ sched' = sched \/ sched' = (IF sched = "queued" THEN sched ELSE "timer")
    BY <1>7 DEF Finish, AwaitChange, AggregatorMissing, BuildFails, StatusTargetGone,
       AddRefused, RequestFails, AnswerLost, Retry
  <2>3. QED
    BY <2>1, <2>2, RunOver DEF Runtime!Next
<1>8. CASE \/ ApplyServiceAccount \/ ApplyRoleBinding \/ ApplyRoleService
           \/ ResolveVectorAggregator \/ ApplyConfigMap \/ ApplyStatefulSet \/ AddPdbs
           \/ PatchStatus \/ \E g \in Group : ApplyRoleGroupService(g)
  <2>1. Busy /\ Busy'
    BY <1>8 DEF ApplyServiceAccount, ApplyRoleBinding, ApplyRoleService, AfterGroup,
       ResolveVectorAggregator, ApplyConfigMap, ApplyStatefulSet, AddPdbs, PatchStatus,
       ApplyRoleGroupService, Busy, Steps
  <2>2. UNCHANGED sched
    BY <1>8 DEF ApplyServiceAccount, ApplyRoleBinding, ApplyRoleService,
       ResolveVectorAggregator, ApplyConfigMap, ApplyStatefulSet, AddPdbs, PatchStatus,
       ApplyRoleGroupService, Add
  <2>3. QED
    BY <2>1, <2>2, RunGoesOn
<1>9. QED
  BY <1>2, <1>3, <1>4, <1>5, <1>6, <1>7, <1>8 DEF Next, Reconcile, Environment

(***************************************************************************)
(* Whatever happens in it, the reconciliation of a cluster keeps to the    *)
(* runtime's schedule: one run at a time, and no trigger lost.             *)
(***************************************************************************)
THEOREM ImplementsRuntimeHolds == Spec => ImplementsRuntime
<1>1. Init => Runtime!Init
  BY DEF Init, Runtime!Init, Busy, Steps
<1>2. TypeOK /\ [Next]_vars => [Runtime!Next]_Runtime!scheduling
  BY RuntimeStep
<1>3. QED
  BY <1>1, <1>2, TypeCorrect, PTL DEF Spec, ImplementsRuntime, Runtime!Spec
=============================================================================
