---------------------------- MODULE HelloReconcile ----------------------------
(***************************************************************************)
(* The controller of one HelloCluster: reconcile_hello step by step, the   *)
(* kube runtime that schedules it, and the environment that edits the      *)
(* resource, runs pods, deletes objects, loses requests and kills the      *)
(* operator.  Every request to the API server is one step, so edits,       *)
(* crashes and failures fall between any two of them.                      *)
(***************************************************************************)
EXTENDS HelloCluster

CONSTANTS
    NoGroup,        \* value of grp outside the processing of a role group
    Deletable,      \* kinds whose objects somebody else may delete
    Aggregator,     \* addresses in the aggregator's ConfigMap (0: there is none)
    MaxGeneration,  \* bound on the generations of the spec
    MaxFaults       \* bound on the failures of one behaviour

ASSUME ReconcileAssumption ==
    /\ NoGroup \notin Group
    /\ "global" \notin Group
    /\ Deletable \subseteq Kinds
    /\ Aggregator \subseteq Nat /\ Aggregator # {}
    /\ MaxGeneration \in Nat
    /\ MaxFaults \in Nat

VARIABLES
    \* the API server
    history,      \* the generations of the spec, the last one being current
    applied,      \* generation each object was last applied from, 0: absent
    ready,        \* available pods of each role group's StatefulSet
    shipping,     \* address in each ConfigMap's Vector configuration, 0: none
    address,      \* ADDRESS in the Vector aggregator's ConfigMap, 0: none
    status,       \* conditions in the status of the HelloCluster
    \* the kube runtime inside the operator
    cached,       \* generation in the reflector's store, 0: none
    events,       \* watch events not yet delivered (other than of a new spec)
    sched,        \* the reconciliation to come: none, after a timer, queued
    \* the reconciliation in progress
    pc,           \* the request to make next; "idle", or "down" without operator
    snapshot,     \* generation being reconciled
    added,        \* objects handed to ClusterResources so far
    left,         \* role groups not processed yet
    grp,          \* role group being processed
    avail,        \* all StatefulSets seen so far are available
    resolved,     \* vector_aggregator_address, 0: None
    \* bookkeeping
    faults        \* failures that may still happen

server  == <<history, applied, ready, shipping, address, status>>
runtime == <<cached, events, sched>>
run     == <<pc, snapshot, added, left, grp, avail, resolved>>
vars    == <<server, runtime, run, faults>>

Steps == {"sa", "rb", "svc", "vector", "groups", "cm", "sts", "pdb", "status",
          "orphans"}

NoStatus == [operation |-> {}, available |-> FALSE]
Status == [operation : SUBSET {"reconciled", "paused", "running", "stopped"},
           available : BOOLEAN]

Latest  == Len(history)
Current == history[Latest]
Busy    == pc \in Steps
Work    == history[snapshot]
Frozen  == Strategy(Work) = "ReconciliationPaused"

\* Pods the live StatefulSet of g wants under the objects a.
Want(a, g) == IF a[StatefulSet(g)] = 0 THEN 0
              ELSE Requested(history[a[StatefulSet(g)]], g)

Init ==
    /\ \E s \in Specs : history = <<s>>
    /\ applied = [o \in Object |-> 0]
    /\ ready = [g \in Group |-> 0]
    /\ shipping = [g \in Group |-> 0]
    /\ address \in Aggregator
    /\ status = NoStatus
    /\ cached = 0 /\ events = FALSE /\ sched = "none"
    /\ pc = "down" /\ snapshot = 0 /\ added = {} /\ left = {}
    /\ grp = NoGroup /\ avail = TRUE /\ resolved = 0
    /\ faults = MaxFaults

-----------------------------------------------------------------------------
(***************************************************************************)
(* The users of the API server.                                            *)
(***************************************************************************)
\* A new spec is written: the generation grows.
Edit ==
    /\ ~Gone(Current) /\ Latest < MaxGeneration
    /\ \E s \in Specs \ {Current} : history' = Append(history, s)
    /\ UNCHANGED <<applied, ready, shipping, address, status, runtime, run, faults>>

\* The HelloCluster is deleted (it has no finalizer).
Delete ==
    /\ ~Gone(Current)
    /\ history' = Append(history, [Current EXCEPT !.health = "gone"])
    /\ UNCHANGED <<applied, ready, shipping, address, status, runtime, run, faults>>

\* Kubernetes removes the objects whose owner is gone.
CollectGarbage ==
    /\ Gone(Current)
    /\ \E o \in Object : applied[o] # 0
    /\ applied' = [o \in Object |-> 0]
    /\ events' = TRUE
    /\ UNCHANGED <<history, ready, shipping, address, status, cached, sched, run, faults>>

\* The StatefulSet controller moves the pods of g towards the wanted number.
\* A pod needs its ServiceAccount to be admitted, its ConfigMap to start.
ScalePods(g) ==
    /\ \/ /\ ready[g] < Want(applied, g)
          /\ applied[ServiceAccount] # 0
          /\ applied[ConfigMap(g)] # 0
          /\ ready' = [ready EXCEPT ![g] = @ + 1]
       \/ /\ ready[g] > Want(applied, g)
          /\ ready' = [ready EXCEPT ![g] = @ - 1]
    /\ events' = TRUE
    /\ UNCHANGED <<history, applied, shipping, address, status, cached, sched, run, faults>>

Fault == faults > 0 /\ faults' = faults - 1

PodFails(g) ==
    /\ Fault
    /\ ready[g] > 0
    /\ ready' = [ready EXCEPT ![g] = @ - 1]
    /\ events' = TRUE
    /\ UNCHANGED <<history, applied, shipping, address, status, cached, sched, run>>

\* Somebody else deletes an object; only watched kinds raise an event.
Tamper(o) ==
    /\ Fault
    /\ Kind(o) \in Deletable /\ applied[o] # 0
    /\ applied' = [applied EXCEPT ![o] = 0]
    /\ events' = (events \/ Kind(o) \in Watched)
    /\ UNCHANGED <<history, ready, shipping, address, status, cached, sched, run>>

\* The aggregator's ConfigMap comes, goes or gets another address; it is not
\* owned by the cluster, so the controller receives no event for it.
AggregatorChanges ==
    /\ Fault
    /\ address' \in Aggregator \ {address}
    /\ UNCHANGED <<history, applied, ready, shipping, status, runtime, run>>

-----------------------------------------------------------------------------
(***************************************************************************)
(* The kube runtime.  One reconciliation of an object runs at a time; what *)
(* arrives meanwhile is merged into one further run.                       *)
(***************************************************************************)
\* The watcher delivers a later spec (a relist may skip some) to the store.
DeliverSpec ==
    /\ pc # "down"
    /\ \E n \in (cached + 1) .. Latest :
        /\ cached' = n
        /\ sched' = IF Gone(history[n]) THEN sched ELSE "queued"
    /\ UNCHANGED <<server, events, run, faults>>

\* Events of owned objects or of a status change trigger the owner.
DeliverEvent ==
    /\ pc # "down" /\ events
    /\ events' = FALSE /\ sched' = "queued"
    /\ UNCHANGED <<server, cached, run, faults>>

TimerFires ==
    /\ pc # "down" /\ sched = "timer"
    /\ sched' = "queued"
    /\ UNCHANGED <<server, cached, events, run, faults>>

\* Mutant: the list after a restart may come from an outdated watch cache.
StartStale ==
    /\ pc = "down"
    /\ pc' = "idle"
    /\ cached' \in 1 .. Latest /\ events' = FALSE
    /\ sched' = "queued"
    /\ UNCHANGED <<server, snapshot, added, left, grp, avail, resolved, faults>>

\* The operator (re)starts: the first list fills the store and triggers.
Start ==
    /\ pc = "down"
    /\ pc' = "idle"
    /\ cached' = Latest /\ events' = FALSE
    /\ sched' = IF Gone(Current) THEN "none" ELSE "queued"
    /\ UNCHANGED <<server, snapshot, added, left, grp, avail, resolved, faults>>

ForgetRun ==
    /\ snapshot' = 0 /\ added' = {} /\ left' = {} /\ grp' = NoGroup
    /\ avail' = TRUE /\ resolved' = 0

Crash ==
    /\ Fault
    /\ pc # "down" /\ pc' = "down"
    /\ ForgetRun
    /\ sched' = "none"
    /\ UNCHANGED <<server, cached, events>>

(***************************************************************************)
(* A run ends well (Action::await_change) or with an error, for which      *)
(* error_policy asks for another run in 5 seconds unless the object is     *)
(* malformed.  A trigger that is already queued comes first.               *)
(***************************************************************************)
AwaitChange == pc' = "idle" /\ ForgetRun /\ sched' = sched

\* Mutant: error_policy never requeues.
RetryNever == pc' = "idle" /\ ForgetRun /\ sched' = sched

\* Mutant: the retry takes the place of a trigger that is queued.
RetryDiscardingTrigger == pc' = "idle" /\ ForgetRun /\ sched' = "timer"

Retry == pc' = "idle" /\ ForgetRun /\ sched' = (IF sched = "queued" THEN sched ELSE "timer")

-----------------------------------------------------------------------------
(***************************************************************************)
(* reconcile_hello.                                                        *)
(***************************************************************************)
\* Mutant: error_policy requeues a malformed object as well.
BeginRetryingMalformed ==
    /\ pc = "idle" /\ sched = "queued"
    /\ sched' = IF history[cached].health \in {"invalid", "malformed"} THEN "timer" ELSE "none"
    /\ IF history[cached].health = "ok"
       THEN pc' = "sa" /\ snapshot' = cached /\ left' = history[cached].groups
       ELSE UNCHANGED <<pc, snapshot, left>>
    /\ UNCHANGED <<server, cached, events, added, grp, avail, resolved, faults>>

\* Mutant: a deleted object is retried like any other failure.
BeginRetryingGone ==
    /\ pc = "idle" /\ sched = "queued"
    /\ sched' = IF history[cached].health \in {"invalid", "gone"} THEN "timer" ELSE "none"
    /\ IF history[cached].health = "ok"
       THEN pc' = "sa" /\ snapshot' = cached /\ left' = history[cached].groups
       ELSE UNCHANGED <<pc, snapshot, left>>
    /\ UNCHANGED <<server, cached, events, added, grp, avail, resolved, faults>>

\* Read the object from the store and validate it.  Gone: not in the store,
\* the reconciler is not called.
Begin ==
    /\ pc = "idle" /\ sched = "queued"
    /\ sched' = IF history[cached].health = "invalid" THEN "timer" ELSE "none"
    /\ IF history[cached].health = "ok"
       THEN /\ pc' = "sa"
            /\ snapshot' = cached
            /\ left' = history[cached].groups
       ELSE UNCHANGED <<pc, snapshot, left>>
    /\ UNCHANGED <<server, cached, events, added, grp, avail, resolved, faults>>

\* The API server accepts object o as built from the snapshot: the volume
\* claim templates of an existing StatefulSet cannot change.
Accepted(o) ==
    Kind(o) = "StatefulSet" /\ applied[o] # 0 => history[applied[o]].storage = Work.storage

\* Mutant: a group that already has an address keeps it.
VectorConfigKept(g) ==
    IF g \notin Work.vector THEN 0 ELSE IF shipping[g] # 0 THEN shipping[g] ELSE resolved

\* The address in Vector's configuration, which the ConfigMap of g holds if
\* the agent is enabled there.
VectorConfig(g) == IF g \in Work.vector THEN resolved ELSE 0

Changed(o) ==
    \/ applied[o] = 0 \/ Render(history[applied[o]], o) # Render(Work, o)
    \/ \E g \in Group : o = ConfigMap(g) /\ shipping[g] # VectorConfig(g)

\* What ClusterResources::add(o) does to the API server when it succeeds:
\* it reads the live object while reconciliation is paused, else applies o.
Put(o) ==
    \/ /\ Frozen /\ applied[o] # 0
       /\ UNCHANGED <<applied, shipping, events>>
    \/ /\ ~Frozen /\ Accepted(o)
       /\ applied' = [applied EXCEPT ![o] = snapshot]
       /\ shipping' = [g \in Group |-> IF o = ConfigMap(g) THEN VectorConfig(g) ELSE shipping[g]]
       /\ events' = (events \/ (Kind(o) \in Watched /\ Changed(o)))

Add(o) ==
    /\ Put(o)
    /\ added' = added \cup {o}
    /\ UNCHANGED <<history, ready, address, status, cached, sched, snapshot, faults>>

ApplyServiceAccount ==
    /\ pc = "sa" /\ pc' = "rb"
    /\ Add(ServiceAccount)
    /\ UNCHANGED <<left, grp, avail, resolved>>

ApplyRoleBinding ==
    /\ pc = "rb" /\ pc' = "svc"
    /\ Add(RoleBinding)
    /\ UNCHANGED <<left, grp, avail, resolved>>

ApplyRoleService ==
    /\ pc = "svc" /\ pc' = "vector"
    /\ Add(RoleService)
    /\ UNCHANGED <<left, grp, avail, resolved>>

AfterGroup(todo) == IF todo = {} THEN "pdb" ELSE "groups"

\* Without a configured ConfigMap there is nothing to look up.
ResolveVectorAggregator ==
    /\ pc = "vector"
    /\ Work.aggregator => address # 0
    /\ resolved' = IF Work.aggregator THEN address ELSE 0
    /\ pc' = AfterGroup(left)
    /\ UNCHANGED <<server, runtime, snapshot, added, left, grp, avail, faults>>

AggregatorMissing ==
    /\ pc = "vector"
    /\ Work.aggregator /\ address = 0
    /\ Retry
    /\ UNCHANGED <<server, cached, events, faults>>

(***************************************************************************)
(* The role groups come out of a HashMap: in any order.  The three objects *)
(* of a group are built before the first of them is added.                 *)
(***************************************************************************)
BuildFails ==
    /\ pc = "groups"
    /\ left \cap Unbuildable(Work) # {}
    /\ Retry
    /\ UNCHANGED <<server, cached, events, faults>>

ApplyRoleGroupService(g) ==
    /\ pc = "groups" /\ pc' = "cm"
    /\ g \in left \ Unbuildable(Work)
    /\ grp' = g
    /\ Add(RoleGroupService(g))
    /\ UNCHANGED <<left, avail, resolved>>

\* Mutant: an existing ConfigMap is left as it is.
ApplyMissingConfigMap ==
    /\ pc = "cm" /\ pc' = "sts"
    /\ \/ Add(ConfigMap(grp)) /\ applied[ConfigMap(grp)] = 0
       \/ /\ applied[ConfigMap(grp)] # 0
          /\ added' = added \cup {ConfigMap(grp)}
          /\ UNCHANGED <<server, runtime, snapshot, faults>>
    /\ UNCHANGED <<left, grp, avail, resolved>>

ApplyConfigMap ==
    /\ pc = "cm" /\ pc' = "sts"
    /\ Add(ConfigMap(grp))
    /\ UNCHANGED <<left, grp, avail, resolved>>

\* Mutant: an existing StatefulSet is left as it is.
ApplyMissingStatefulSet ==
    /\ pc = "sts"
    /\ \/ Add(StatefulSet(grp)) /\ applied[StatefulSet(grp)] = 0
       \/ /\ applied[StatefulSet(grp)] # 0
          /\ added' = added \cup {StatefulSet(grp)}
          /\ UNCHANGED <<server, runtime, snapshot, faults>>
    /\ avail' = (avail /\ ready[grp] = Want(applied', grp))
    /\ left' = left \ {grp} /\ grp' = NoGroup /\ UNCHANGED resolved
    /\ pc' = AfterGroup(left \ {grp})

\* Mutant: the availability of the last StatefulSet is taken for that of all.
ApplyStatefulSetAvailableLast ==
    /\ pc = "sts"
    /\ Add(StatefulSet(grp))
    /\ avail' = (ready[grp] = Want(applied', grp))
    /\ left' = left \ {grp} /\ grp' = NoGroup /\ UNCHANGED resolved
    /\ pc' = AfterGroup(left \ {grp})

\* Mutant: the run waits at a role group until its pods are there.
ApplyStatefulSetUntilReady ==
    /\ pc = "sts"
    /\ Add(StatefulSet(grp))
    /\ avail' = (avail /\ ready[grp] = Want(applied', grp))
    /\ left' = (IF ready[grp] = Want(applied', grp) THEN left \ {grp} ELSE left)
    /\ grp' = NoGroup /\ UNCHANGED resolved
    /\ pc' = AfterGroup(left')

\* The live StatefulSet that comes back feeds the availability condition.
ApplyStatefulSet ==
    /\ pc = "sts"
    /\ Add(StatefulSet(grp))
    /\ avail' = (avail /\ ready[grp] = Want(applied', grp))
    /\ left' = left \ {grp} /\ grp' = NoGroup /\ UNCHANGED resolved
    /\ pc' = AfterGroup(left \ {grp})

AddPdbs ==
    /\ pc = "pdb" /\ pc' = "status"
    /\ \/ /\ Work.pdb
          /\ Add(PodDisruptionBudget)
       \/ /\ ~Work.pdb
          /\ UNCHANGED <<server, runtime, snapshot, added, faults>>
    /\ UNCHANGED <<left, grp, avail, resolved>>

NewStatus == [operation |-> OperationConditions(Work), available |-> avail]

\* Mutant: the conditions carry the time of the run, so every patch is an event.
PatchStatusAlwaysNew ==
    /\ pc = "status" /\ pc' = "orphans"
    /\ ~Gone(Current)
    /\ status' = NewStatus
    /\ events' = TRUE
    /\ UNCHANGED <<history, applied, ready, shipping, address, cached, sched,
                   snapshot, added, left, grp, avail, resolved, faults>>

\* A status that changes is an event on the HelloCluster itself.
PatchStatus ==
    /\ pc = "status" /\ pc' = "orphans"
    /\ ~Gone(Current)
    /\ status' = NewStatus
    /\ events' = (events \/ status # NewStatus)
    /\ UNCHANGED <<history, applied, ready, shipping, address, cached, sched,
                   snapshot, added, left, grp, avail, resolved, faults>>

\* Mutant: the status is patched as soon as there is a HelloCluster again.
StatusTargetAwaited == pc = "status" /\ Gone(Current) /\ UNCHANGED vars

StatusTargetGone ==
    /\ pc = "status"
    /\ Gone(Current)
    /\ Retry
    /\ UNCHANGED <<server, cached, events, faults>>

Orphans == IF Frozen THEN {} ELSE {o \in Object \ added : applied[o] # 0}

\* Mutant: the orphans are deleted before the role groups are processed.
DeleteOrphanEarly(o) ==
    /\ pc \in {"vector", "orphans"} /\ o \in Orphans
    /\ applied' = [applied EXCEPT ![o] = 0]
    /\ events' = (events \/ Kind(o) \in Watched)
    /\ UNCHANGED <<history, ready, shipping, address, status, cached, sched, run, faults>>

DeleteOrphan(o) ==
    /\ pc = "orphans" /\ o \in Orphans
    /\ applied' = [applied EXCEPT ![o] = 0]
    /\ events' = (events \/ Kind(o) \in Watched)
    /\ UNCHANGED <<history, ready, shipping, address, status, cached, sched, run, faults>>

\* Mutant: delete_orphaned_resources is not called.
FinishWithOrphans ==
    /\ pc = "orphans"
    /\ AwaitChange
    /\ UNCHANGED <<server, cached, events, faults>>

Finish ==
    /\ pc = "orphans" /\ Orphans = {}
    /\ AwaitChange
    /\ UNCHANGED <<server, cached, events, faults>>

-----------------------------------------------------------------------------
(***************************************************************************)
(* Failing requests.                                                       *)
(***************************************************************************)
\* The objects the next call of ClusterResources::add may be for.
Adding ==
    CASE pc = "sa"     -> {ServiceAccount}
      [] pc = "rb"     -> {RoleBinding}
      [] pc = "svc"    -> {RoleService}
      [] pc = "groups" -> {RoleGroupService(g) : g \in left \ Unbuildable(Work)}
      [] pc = "cm"     -> {ConfigMap(grp)}
      [] pc = "sts"    -> {StatefulSet(grp)}
      [] pc = "pdb" /\ Work.pdb -> {PodDisruptionBudget}
      [] OTHER         -> {}

Refused(o) == IF Frozen THEN applied[o] = 0 ELSE ~Accepted(o)

\* Paused and the object is missing, or the API server rejects the change.
AddRefused ==
    /\ \E o \in Adding : Refused(o)
    /\ Retry
    /\ UNCHANGED <<server, cached, events, faults>>

\* The request has its effect, but its answer does not arrive.
AnswerLost ==
    /\ Fault
    /\ \/ /\ \E o \in Adding : Put(o)
          /\ UNCHANGED status
       \/ /\ pc = "status" /\ ~Gone(Current)
          /\ status' = NewStatus
          /\ events' = (events \/ status # NewStatus)
          /\ UNCHANGED <<applied, shipping>>
    /\ Retry
    /\ UNCHANGED <<history, ready, address, cached>>

RequestFails ==
    /\ Fault
    /\ \/ Adding # {}
       \/ pc = "vector" /\ Work.aggregator
       \/ pc = "status"
       \/ pc = "orphans" /\ ~Frozen
    /\ Retry
    /\ UNCHANGED <<server, cached, events>>

-----------------------------------------------------------------------------
Reconcile ==
    \/ Begin
    \/ ApplyServiceAccount \/ ApplyRoleBinding \/ ApplyRoleService
    \/ ResolveVectorAggregator \/ AggregatorMissing
    \/ BuildFails
    \/ \E g \in Group : ApplyRoleGroupService(g)
    \/ ApplyConfigMap \/ ApplyStatefulSet
    \/ AddPdbs
    \/ PatchStatus \/ StatusTargetGone
    \/ \E o \in Object : DeleteOrphan(o)
    \/ Finish
    \/ AddRefused

Environment ==
    \/ Edit \/ Delete
    \/ \E g \in Group : PodFails(g)
    \/ \E o \in Object : Tamper(o)
    \/ AggregatorChanges
    \/ Crash \/ AnswerLost \/ RequestFails

Next ==
    \/ Reconcile
    \/ DeliverSpec \/ DeliverEvent \/ TimerFires \/ Start
    \/ CollectGarbage
    \/ \E g \in Group : ScalePods(g)
    \/ Environment

Spec == Init /\ [][Next]_vars

(***************************************************************************)
(* The operator's task is polled whenever it can go on, the watches and    *)
(* the timer deliver, the operator's Deployment restarts it, Kubernetes    *)
(* collects garbage and scales.  Users, failures and crashes owe nothing.  *)
(***************************************************************************)
Fairness ==
    /\ WF_vars(Reconcile)
    /\ WF_vars(DeliverSpec) /\ WF_vars(DeliverEvent) /\ WF_vars(TimerFires)
    /\ WF_vars(Start)
    /\ WF_vars(CollectGarbage)
    /\ \A g \in Group : WF_vars(ScalePods(g))

FairSpec == Spec /\ Fairness

-----------------------------------------------------------------------------
(***************************************************************************)
(* Properties.                                                             *)
(***************************************************************************)
\* Types, and what each place of the run determines.
TypeOK ==
    /\ history \in Seq(ClusterSpec) /\ history # <<>>
    /\ applied \in [Object -> 0 .. Latest]
    /\ ready \in [Group -> Nat]
    /\ shipping \in [Group -> Nat] /\ address \in Nat
    /\ status \in Status
    /\ cached \in 0 .. Latest
    /\ events \in BOOLEAN
    /\ sched \in {"none", "timer", "queued"}
    /\ pc \in Steps \cup {"idle", "down"}
    /\ snapshot \in 0 .. cached
    /\ Busy <=> snapshot # 0
    /\ pc # "down" => cached # 0
    /\ added \subseteq Object
    /\ left \subseteq Group
    /\ grp \in Group \cup {NoGroup}
    /\ pc \in {"cm", "sts"} => grp \in left
    /\ avail \in BOOLEAN /\ resolved \in Nat
    /\ faults \in Nat

Quiet == pc = "idle" /\ sched = "none" /\ ~events /\ cached = Latest

\* Somebody else's deletion of o would not go unnoticed.
Tracked(o) == Kind(o) \in Watched \/ Kind(o) \notin Deletable

UpToDate(s, o) ==
    /\ applied[o] # 0
    /\ Strategy(s) # "ReconciliationPaused" =>
         Render(history[applied[o]], o) = Render(s, o)

Settled(s) ==
    /\ Unbuildable(s) = {}
    /\ \A o \in Needed(s) : Tracked(o) => UpToDate(s, o)
    /\ Strategy(s) # "ReconciliationPaused" =>
         \A o \in Object \ Needed(s) : applied[o] = 0
    /\ status = [operation |-> OperationConditions(s),
                 available |-> \A g \in s.groups : ready[g] = Want(applied, g)]

(***************************************************************************)
(* When nothing is pending in the operator, the cluster is what its spec   *)
(* asks for: no edit, event, failure or crash in the middle of a run is    *)
(* forgotten, no orphan stays behind and the status tells the truth.       *)
(***************************************************************************)
QuiescentCorrect == Quiet /\ Current.health = "ok" => Settled(Current)

(***************************************************************************)
(* The Vector agents of a settled cluster all ship to the same aggregator, *)
(* even if its address changed between two groups, or while a run failed   *)
(* half way: a run writes the address it looked up into all groups, those  *)
(* of an earlier run included, and one that fails is repeated.             *)
(***************************************************************************)
ShipsToOne(s) ==
    \A g, h \in s.groups \cap s.vector : shipping[g] # 0 /\ shipping[g] = shipping[h]

OneAggregator ==
    Quiet /\ Current.health = "ok" /\ ~Current.paused => ShipsToOne(Current)

(***************************************************************************)
(* A StatefulSet is never newer than what its pods depend on: wherever a   *)
(* run stops, a StatefulSet changed by it finds the ServiceAccount, the    *)
(* Service and the ConfigMap of at least the same generation (or none,     *)
(* after somebody else's or the orphans' deletion).                        *)
(***************************************************************************)
DependenciesFirst ==
    \A g \in Group : \A d \in {ServiceAccount, RoleService, RoleGroupService(g), ConfigMap(g)} :
        applied[d] = 0 \/ applied[StatefulSet(g)] <= applied[d]

(***************************************************************************)
(* No object falls back to an earlier generation of the spec, whatever     *)
(* edits, restarts and stale caches come between the runs.                 *)
(***************************************************************************)
NoRegress == [][\A o \in Object : applied'[o] = 0 \/ applied[o] <= applied'[o]]_vars

(***************************************************************************)
(* The operator deletes an object only when everything its snapshot needs  *)
(* is in place from that snapshot: a run that failed half way deletes      *)
(* nothing, neither does a paused one.                                     *)
(***************************************************************************)
MakeBeforeBreak ==
    [][\A o \in Object :
        /\ applied[o] # 0 /\ applied'[o] = 0
        /\ Kind(o) \notin Deletable /\ ~Gone(Current)
        => /\ Busy /\ ~Frozen /\ o \notin Needed(Work)
           /\ \A d \in Needed(Work) : applied[d] = snapshot \/ Kind(d) \in Deletable]_vars

(***************************************************************************)
(* Nothing but a missing aggregator, an unbuildable group, a change the    *)
(* API server rejects, or a missing object of a paused cluster keeps a     *)
(* well-formed spec from being reconciled.                                 *)
(***************************************************************************)
Reconcilable ==
    /\ Current.health = "ok"
    /\ Unbuildable(Current) = {}
    /\ Current.aggregator => address # 0
    /\ IF Current.paused
       THEN \A o \in Needed(Current) : applied[o] # 0
       ELSE \A g \in Current.groups :
              applied[StatefulSet(g)] # 0 =>
                history[applied[StatefulSet(g)]].storage = Current.storage

\* Once edits and failures end, the operator settles what can be settled and
\* comes to rest: no lost trigger, and no run that triggers itself forever.
Converges == <>[](Reconcilable => Quiet /\ Settled(Current))

\* The pods of a cluster that is not paused eventually run as requested.
PodsRunning ==
    <>[](Reconcilable /\ ~Current.paused =>
           \A g \in Current.groups : ready[g] = Requested(Current, g))

\* Nothing stays of a deleted cluster, not even what a run in progress
\* created after the deletion, and the operator stops working on it.
CleanedUp ==
    <>[](Gone(Current) =>
           /\ Quiet
           /\ \A o \in Object : applied[o] = 0
           /\ \A g \in Group : ready[g] = 0)

(***************************************************************************)
(* "The operator will however still watch the deployed resources at the    *)
(* time and update the custom resource status field": the status of a      *)
(* paused cluster comes to say that it is paused.                          *)
(***************************************************************************)
PausedReported ==
    <>[](/\ Current.health = "ok" /\ Current.paused
         /\ Unbuildable(Current) = {}
         /\ Current.aggregator => address # 0
         => "paused" \in status.operation)

(***************************************************************************)
(* `reconciliationPaused` will "take precedence over `stopped` and stop    *)
(* the reconciliation immediately" (crds.yaml 58): once the reflector's    *)
(* store holds a paused spec, the operator writes no object of the         *)
(* cluster.                                                                *)
(***************************************************************************)
PausedAtOnce ==
    [][Reconcile /\ cached # 0 /\ history[cached].paused => UNCHANGED applied]_vars

\* A malformed object is left alone until it changes: no retries.
MalformedRests == <>[](Current.health = "malformed" => Quiet)

-----------------------------------------------------------------------------
(***************************************************************************)
(* The promise to the users: a run is the operator carrying out its        *)
(* snapshot, and it rests when nothing is pending.                         *)
(***************************************************************************)
Promise == INSTANCE ClusterPromise
    WITH live <- applied, reported <- status.operation, basis <- snapshot, resting <- Quiet

(***************************************************************************)
(* Every behaviour of the controller, with its retries, crashes, lost      *)
(* answers and stale caches, is one the promise allows: objects are only   *)
(* written from a valid spec that was not paused when it was taken up,     *)
(* after what they depend on; the report follows them; and the operator    *)
(* rests on no other spec than the current one, carried out.               *)
(***************************************************************************)
ImplementsPromise == Promise!Spec

-----------------------------------------------------------------------------
(***************************************************************************)
(* The same controller as the runtime sees it: a run is a run.             *)
(***************************************************************************)
Runtime == INSTANCE ClusterRuntime WITH up <- pc # "down", running <- Busy

(***************************************************************************)
(* The reconciliation of one cluster keeps to the runtime's schedule: one  *)
(* run at a time, no trigger lost by a run that ends or fails meanwhile.   *)
(***************************************************************************)
ImplementsRuntime == Runtime!Spec

(***************************************************************************)
(* Every run ends, whatever is missing, gone or refused on its way, and    *)
(* every trigger and timer comes to a run.                                 *)
(***************************************************************************)
RunsEnd == Runtime!Prompt
=============================================================================
