# Formal models of the HelloCluster operator

The operator is one Rust process (`rust/operator-binary`). For every `HelloCluster` resource
it keeps a set of Kubernetes objects in line with the resource's spec: a ServiceAccount, a
RoleBinding, a Service for the role `server`, per role group a Service, a ConfigMap and a
StatefulSet, and a PodDisruptionBudget. The code is sequential; what makes it hard is
everything around it: a run is a sequence of ten or more requests, and between any two of
them users edit, pause or delete the resource, pods come and go, requests fail or lose their
answers, the operator dies, and other actors remove objects. The models put all of these
between any two requests and ask what still holds.

## Inventory

| Component | State | Operations | Interacts with |
|---|---|---|---|
| Reconciliation of one cluster (`controller.rs`, `operations/pdb.rs`) | none of its own between runs; during a run the spec read at its start, the objects added so far, the availability seen so far | `reconcile_hello`, `error_policy` | API server (apply, get, patch, list, delete), `product_logging`, `crd`, `pdb` |
| Controller runtime (`main.rs`, kube's `Controller`) | reflector store, queue of triggers, 5 second timers, runs in progress, up to 16 reports in flight | watch, trigger, run, requeue, report, shut down on signal | watches HelloCluster, Service, StatefulSet, ConfigMap; calls the reconciliation |
| Vector aggregator and logging (`product_logging.rs`) | none | look up the aggregator's ConfigMap; add log configuration to a role group's ConfigMap | API server, ConfigMap builder |
| Custom resource (`crd.rs`) | the spec and status, in the API server | merge of defaults, role and role group; computed properties; names of objects; `pods()`, which nothing calls | everything |
| Graceful shutdown, affinity (`operations/graceful_shutdown.rs`, `affinity.rs`) | none | set the grace period; default affinity | pod template |
| Application (`hello-world-app`) | none; reads its properties once | serves one page | ConfigMap mounted in its pod |
| Test runner, README scripts (`scripts/`) | none | developer tools | files, external commands |
| Chart, image, Nix and CI files (`deploy/`, `docker/`, `nix/`) | none | packaging | Kubernetes restarts the single operator pod |

What each has to get right, and where it is hard:

* **Reconciliation.** *Stale reads*: the spec is read once per run, edits come later. *Partial
  failure*: the run may stop after any request and leaves objects of several generations
  behind. *Order*: role groups come out of a `HashMap`. *Crash*: the list of objects that
  belong to the cluster is only in memory. It has to converge from any such mixture, never
  delete what is needed, never go back to an older spec, and never let pods run ahead of what
  they depend on; its status must be true when nothing is left to do.
* **Runtime.** No trigger may be lost between an event and a run in progress; a retry must not
  be lost or repeated for a cluster that is gone; the operator's own writes are events too and
  must not keep it busy forever. Objects of kinds that are not watched can vanish unnoticed.
* **Logging, merge hierarchy, pod template.** Three layers, plus overrides of properties,
  environment and pod template, each applied at another place: the most specific one must win,
  and files, properties, volumes and containers made in different functions must agree.
* **Controller shared by clusters.** All clusters go through one task that is polled only while
  a reporter is free; a cluster that fails forever must not starve the others, and a signal or
  a crash must not lose what was queued.
* **Names.** Objects are named by joining words with dashes; runs of different clusters write to
  one namespace, overwrite by name and find their orphans by labels.

`PROJECT.json` lists every component with its status and every hazard at its line.

## Modules

| Module | Models |
|---|---|
| `HelloCluster` | the spec as far as the reconciler tells it apart; the objects it calls for and what they contain; which kinds are watched. Constant level. |
| `HelloReconcile` | one cluster: `reconcile_hello` request by request, `error_policy`, the runtime's store, queue and timer, users, other actors, garbage collector, StatefulSet controller, failures. States the properties. |
| `HelloPods` | extends `HelloReconcile` by the contents each pod was started with. |
| `HelloController` | several clusters sharing the controller set up in `main.rs`: store, queue, timers, runs, the limited reporters, signal, crash and restart. A run is two steps, its begin and its end. |
| `HelloRoleGroup` | how the contents of a role group's ConfigMap and StatefulSet come out of the layers of the spec. |
| `HelloNames` | several clusters in one namespace: names, labels and owners of their objects, runs that interleave, orphans, garbage collection, and which names can collide. |
| `ClusterPromise` | abstract: what users of one cluster may expect, without runs, queues or requests. `HelloReconcile` implements it. |
| `ClusterRuntime` | abstract: how the runtime schedules the runs of one cluster. `HelloReconcile` and, for each of its clusters, `HelloController` implement it. |
| `ClusterAlone` | abstract: a cluster with a namespace to itself. `HelloNames` implements it for each of its clusters. |
| `HelloReconcileInv` | the inductive invariant of `HelloReconcile`. |
| `HelloStability` | why `HelloReconcile` comes to rest, as properties of single steps: a run has a bounded number of requests, a settled cluster stays settled, a deleted one stays deleted. |
| `HelloReconcileProofs`, `HelloRefinementProofs`, `HelloStabilityProofs`, `HelloPodsProofs`, `HelloControllerProofs`, `HelloRoleGroupProofs`, `HelloNamesProofs` | the theorems and their proofs. |
| `MC...` | the small instances TLC checks. |

The models meet where the code does: `HelloReconcile` takes from the runtime only what
`ClusterRuntime` says, and `HelloController` shows that clusters sharing one controller give it
exactly that; `HelloReconcile` treats the contents of objects as opaque, `HelloRoleGroup` builds
them; `HelloReconcile` looks at one cluster as if there were no other, `HelloNames` shows, by
implementing `ClusterAlone`, that it may do so until a cluster of a rival name is created.

### HelloReconcile: state and actions against the code

* `history` is the sequence of generations of the spec, the last one current; `applied[o]` is
  the generation object `o` was last applied from (0: absent). Contents are compared through
  `Render`, so an apply that changes nothing raises no event. `ready`, `status` and
  `address` are the rest of the API server.
* `cached`, `events`, `sched` are the runtime: the generation in the reflector's store, an
  undelivered watch event, and whether a run is queued or waits for the timer.
* `pc` is the request the run makes next; `snapshot`, `added`, `left`, `grp`, `avail` are the
  local variables of `reconcile_hello` (the spec, `cluster_resources`, the rest of the loop,
  the group, `ss_cond_builder`); `resolved` is its `vector_aggregator_address`.
* `address` is what the aggregator's ConfigMap holds (0: there is none), `shipping[g]` what the
  applied ConfigMap of group `g` makes its Vector agent ship to.

| Action | Code |
|---|---|
| `Begin` | `controller.rs` 267-317: read the object, fail on a malformed one (no retry) or on an invalid one (retry), fix the apply strategy |
| `ApplyServiceAccount`, `ApplyRoleBinding`, `ApplyRoleService` | 319-343 |
| `ResolveVectorAggregator`, `AggregatorMissing` | `product_logging.rs` 46-77 |
| `ApplyRoleGroupService`, `ApplyConfigMap`, `ApplyStatefulSet`, `BuildFails` | the loop, 351-399: the three objects of a group are built before the first is added; any order of groups |
| `AddPdbs` | 401-409, `pdb.rs` 34-59 |
| `PatchStatus`, `StatusTargetGone` | 411-421; both operation conditions are reported, paused and stopped |
| `DeleteOrphan`, `Finish` | 423-428 |
| `AddRefused` | an `add` that returns an error: paused and missing, or rejected by the API server |
| `AnswerLost`, `RequestFails`, `Crash` | a request fails with or without its effect, the operator dies |
| `Retry`, `AwaitChange` | `error_policy`, 836-845, and the end of a run |
| `DeliverSpec`, `DeliverEvent`, `TimerFires`, `Start` | the `Controller` set up in `main.rs` 87-111. That the product configuration cannot be loaded or the API server is not reached (68-77) ends the process: it is `Crash` once more, or `Start` not happening yet |
| `Edit`, `Delete`, `Tamper`, `PodFails`, `AggregatorChanges`, `ScalePods`, `CollectGarbage` | users, other actors and Kubernetes |

Code outside the repository is modelled from how it is used and marked external:
`ClusterResources::add` applies the object, or only reads it (and fails if it is missing) while
reconciliation is paused; `delete_orphaned_resources` deletes what exists and was not added,
one object per request, and nothing while paused; a server-side apply that changes nothing
makes no event; volume claim templates cannot be changed; the runtime runs one reconciliation
of an object at a time, merges triggers that arrive meanwhile into one more run, starts with a
full list, and does not call the reconciler for an object that left its store; a condition
that does not change keeps its timestamps. One life of a resource is modelled: after its
deletion no resource of the same name is created (`HelloNames` has such resources). A graceful
stop looks like a `Crash` here; `HelloController` tells them apart.

### HelloPods and HelloRoleGroup

`HelloPods` takes every step of `HelloReconcile` and records what a pod that starts runs with:
the pod template of its StatefulSet and the contents of the ConfigMap, which the application
reads once. The StatefulSet controller replaces pods of another template, not pods whose
ConfigMap got new data.

`HelloRoleGroup` builds the contents: `Merge` is the two-step merge of `merged_config`,
`ApplicationProperties` and `EnvOverrides` the overrides over computed values, `BuildConfigMap`
and `BuildPod` the objects, `GracePeriod` the effect of `podOverrides`. A path is told apart
only by the volume it is in, of the resources only the capacity of the volume is kept and of the
affinities two (the others are merged alike), and of the logs only the choice between
automatic and custom configuration.

### HelloController and ClusterRuntime

Per cluster there is a spec, told apart by what reconciling it comes to (`Outcome`: success, an
error at every attempt, or a malformed object), the copy in the store, an undelivered event, the
queue or timer (`sched`) and the run in progress. `behind` and `fresh` are history variables:
which clusters have a spec nobody has dealt with, and which runs work on the current one.

| Action | Code |
|---|---|
| `Deliver`, `TimerFires`, `Begin` | the `Controller` of `main.rs` 87-111, as kube runs it |
| `Polled` (a guard of all of them) | `for_each_concurrent(16, ..)`, 113: with all reporters busy the stream is not polled |
| `Succeed`, `Fail`, `Reject` | the results of `reconcile_hello`; `Requeue` and the rest of `error_policy`, `controller.rs` 836-845 |
| `Report` | 116-128, `report_controller_reconciled` |
| `Signal`, `Exit` | `shutdown_on_signal`, 103: no further triggers, the queue is dropped, runs and reports finish, `main` returns |
| `Crash`, `Start` | the process ends at any point; the next one lists all clusters |

### HelloNames

A name is a sequence of words, the parts between its dashes: `ObjectName(c, g)` is
`c \o <<"server">> \o g`. An object carries what identifies it (kind and name), the labels
`instance` and `role-group`, the owner's uid, whether its selector goes by role or role group,
and the replicas. A run applies its objects one by one in the order of the code and deletes
what carries its cluster's label and was not applied; it may work on an outdated spec, or for a
resource that was deleted and created again. An apply takes over whatever has the name, as
server-side apply with the same field manager does; only the selector of a StatefulSet cannot
change. `named` is a history variable: the names of all clusters so far.

Nothing in the code keeps two clusters from having objects of one name: with `a` and
`a-server-b` the role Service of the second is called like the Service of the first one's group
`b`. Such names are `Rivals`: one goes on from the other with `server`. Rivals are created like
all others and overwrite and refuse each other's objects: `Apply` takes over an object of another
cluster, or `Refuse` ends the run, as the API server refuses some of these changes (the selector
of a StatefulSet; the cluster IP or the type of a Service, which are not modelled, hence the
choice). What is claimed is claimed of clusters of which no rival has been created
(`Unrivalled`), in the presence of any other clusters, also of rivals of each other; what happens to rivals is the run
`names_collide`. `RivalsExact` is the theorem that `Rivals` are exactly the names whose objects can meet.

The ServiceAccount, the RoleBinding and the PodDisruptionBudget are left out of `HelloNames`:
there is one of each kind for a cluster, so no role group is in their names and they cannot meet
in this way.

## Runs

| Run | Shows |
|---|---|
| `two_groups` | Safety with two role groups in either order, a group and the PDB removed or added by an edit, an aggregator that moves, one failure anywhere; the inductive invariant; runs that only get shorter. 1.5 million states. |
| `failures` | One group, one failure of any sort at any point: a watched object deleted by somebody else, a failing pod, a request that fails or loses its answer, a crash; besides an aggregator that comes and goes, a StatefulSet change that is rejected, a group that cannot be built, pausing. Safety, `NoRegress`, `SteadyStays`, `DeletedForGood`, the refinement of `ClusterPromise`, convergence and running pods. 694 thousand states. |
| `edits` | With pods; malformed, invalid and unbuildable specs, a new pod template, a stop, a deletion, and one failure: no pod has a template newer than its configuration and running pods end up on the current one; convergence, clean-up and rest; the refinement of `ClusterRuntime`, and that every run ends. 627 thousand states. |
| `several_clusters` | Two clusters with one reporter between them, edits, a failure by chance, a signal or a crash: nothing forgotten, both served, shutdown completes, each sees `ClusterRuntime`. 27 thousand states. |
| `names` | Clusters `a`, `a-b` and `a-server-b`, two at a time, with groups `b`, `b-global` and `global`, the first and the last of them rivals: objects of clusters without rivals stay their own, none is refused, their Services lead to their pods, each such cluster sees `ClusterAlone`. 835 thousand states. |
| `layers` | Precedence of the layers and agreement of the parts, for every combination of set and unset fields. 258 thousand states. |

The properties: `QuiescentCorrect` (whenever the operator has nothing pending, objects and
status are what the current spec asks for), `DependenciesFirst` (a StatefulSet is never newer
than the ServiceAccount, Services and ConfigMap of its pods), `NoRegress`, `MakeBeforeBreak`
(nothing is deleted before everything the snapshot needs is in place), `OneAggregator` (at rest,
all Vector agents ship to one address), `RunShortens` (every request brings the run nearer to
its end, nobody sets it back), `SteadyStays` (what the operator does to a settled cluster leaves
it settled and raises no event), `DeletedForGood` (after the last run nothing of a deleted cluster comes
back), `ConfigNotOlder` (no pod runs with a configuration older than
its template), `Converges`, `PodsRunning`, `CleanedUp`,
`MalformedRests`, `PodsRunTemplate`, `ImplementsPromise`, `ImplementsRuntime`, `RunsEnd`;
`NothingForgotten` (a cluster that is behind has an event, a trigger or a run on its current
spec), `Served`, `ShutdownCompletes`; `OwnObjects` (what a completed run has applied stays until
the user changes the spec), `ImplementsAlone`, `Unhindered` (no object of another selector or another
cluster is in the way of a run), `PodsReached`; `MostSpecificWins`,
`LogConfigFound`, `VectorComplete`.

### Disagreements between documentation and code

Each is a run whose property states what a comment or a description in the CRD says and which
TLC finds violated.

| Run | What happens |
|---|---|
| `paused_unreported` | A cluster created paused never gets a status: the run fails at the first missing object, before the status is patched, and is retried forever. |
| `service_account_lost` | ServiceAccounts are not watched: one that is deleted is not restored, its pods are not admitted, and nothing triggers a run. |
| `pods_keep_old_config` | A new recipient or color changes only the ConfigMap; no pod is replaced and the application keeps the old values. |
| `custom_logs` | A custom log configuration is mounted but never read. |
| `paused_goes_on` | The strategy is fixed when a run starts (`controller.rs` 315): a run in progress goes on writing after the paused spec has reached the operator, although the CRD says that the flag stops the reconciliation "immediately". |
| `names_collide` | The role Service of `a-server-b` is applied over the headless Service of group `b` of `a` and selects other pods: those of the group are not accessible "through the corresponding Service" (`controller.rs` 594) any more. |

`ClusterPromise` states what the code does about pausing: writes come from the spec the run began
with, and that was not paused. Two more disagreements need no state machine to be seen, so no run
shows them: `podOverrides` can set the grace period to zero, which a comment
(`graceful_shutdown.rs` 18) says users cannot (`MostSpecificWins` speaks of the grace period only
where no override touches it); and `pods()` (`crd.rs` 434) lists no pod for a role group without
replicas, whose StatefulSet gets one, and lists the pods of a stopped cluster. Nothing calls
`pods()`.

### Bounds

* `MaxGeneration` (2; a deletion adds one more): a run sees one snapshot and at most what came
  after it, so two generations give every pair "older in the cluster, newer in the spec". That
  safety does not depend on the bound is what the theorems show.
* `MaxFaults` (1): one failure, loss, crash or tampering at any point. What it leaves behind
  (a mixture of generations, a retry pending) is already every state the next run can start
  from; the theorems hold for any number.
* `Group`: two groups give every partial progress of the loop (none, one, both, in each
  order); the liveness runs have one, where the size of the state graph is what limits them.
* `Specs`: each run names the few specs whose differences matter for its question; `Aggregator`
  whether its ConfigMap may come and go. `Deletable` are the kinds somebody else may remove: none
  in `two_groups` and `edits`, so that every object counts, those that are watched in `failures`,
  all of them in `service_account_lost`.
* `several_clusters`: two clusters and `Limit` 1 instead of 16, so that one report is enough to
  stop the polling and the other cluster is there to suffer from it; two edits, one failure by
  chance and one stop give every order of an edit, a run and a restart. The safety properties
  are proved for any numbers.
* `names`: `MaxEdits` (3) allows a cluster to be created, deleted and created again, or two to be
  created and one changed or replaced by a third; `MaxClusters` (2) clusters at one time, as it
  takes two to interfere; `MaxFaults` (1) one run that ends half-way (runs that are refused end
  half-way besides). The names share words so that they collide as soon as the role is left out.
  The garbage collector takes the objects of an owner in one step, as in `HelloReconcile`.
* `layers`: each field is set or not in role and role group; the capacity and the affinities of a
  layer are set together with another field of it, since each is compared by itself.
* `CHECK_DEADLOCK FALSE` everywhere: a cluster that is settled, or deleted and cleaned up, and
  that nobody edits any more, really rests; so does a role group once it is built.

### Fairness

`HelloReconcile` and `HelloPods`: weak fairness of `Reconcile` (the operator's task is polled
whenever it can go on; a request is answered or fails), of `DeliverSpec`, `DeliverEvent` and
`TimerFires` (watches and the 5 second timer deliver), of `Start` (the Deployment restarts the
operator), of `CollectGarbage` and `ScalePods` (Kubernetes), and of the rolling update. Users,
failures, crashes and other actors owe nothing. Each of the conditions stays enabled until its
step is taken, so weak fairness is enough.

`HelloController`: weak fairness of `Report`, `Exit` and `Start`, strong fairness of `Deliver`,
`TimerFires`, `Begin` and the end of a run. Strong, because reporters may all be busy again and
again and then nothing else in the controller moves. In between, the stream is polled until
nothing in it is ready, and a cluster that fails is ready again only after 5 seconds: whatever is
ready infinitely often gets its turn. `Start` comes only after the old operator is down, as the
chart's Deployment has one replica and the strategy Recreate (`deployment.yaml` 9-11).

## Proofs

Everything below is proved for every value of the constants, from the named assumptions only:
any role groups (`HelloStability`: finitely many, `GroupsAssumption`), specs, kinds others may
delete, numbers of clusters and reporters, layers, names, and bounds.

| Module | Theorems |
|---|---|
| `HelloReconcileProofs` | `TypeCorrect`, `Inductive`, `QuiescentCorrectHolds`, `DependenciesFirstHolds`, `NoRegressHolds`, `MakeBeforeBreakHolds`, `OneAggregatorHolds` |
| `HelloRefinementProofs` | `ImplementsPromiseHolds`, `ImplementsRuntimeHolds`: `Spec => Promise!Spec` and `Spec => Runtime!Spec` |
| `HelloStabilityProofs` | `RunShortensHolds`, `SteadyStaysHolds`, `DeletedForGoodHolds` |
| `HelloPodsProofs` | `PodsImplementSpec` (what is proved of `HelloReconcile` holds with pods), `ConfigNotOlderHolds` |
| `HelloControllerProofs` | `TypeCorrect`, `NothingForgottenHolds`, `ImplementsRuntimeHolds` |
| `HelloRoleGroupProofs` | `MostSpecificWinsHolds`, `LogConfigFoundHolds`, `VectorCompleteHolds` |
| `HelloNamesProofs` | `RivalsExact`, `OwnObjectsHolds`, `ImplementsAloneHolds`, `UnhinderedHolds`, `PodsReachedHolds` |

### HelloReconcile

None of the properties is inductive. `InductiveInv` adds, in layers:

* `ProgressInv`: what a run has added is determined by its place in the code and the groups it
  is through with; at the end it is exactly what the snapshot needs. Only then are orphans
  deleted, which gives `MakeBeforeBreak`.
* `GenerationInv`: no object is newer than the snapshot of the run, and what the run has added
  is from the snapshot unless somebody else removed it since. With it an apply can only raise a
  generation (`NoRegress`), and a StatefulSet is applied when its dependencies are already from
  the snapshot (`DependenciesFirst`).
* `SettlingInv`: while no trigger is pending, the run works on the current spec and what it
  wrote and saw still holds: every change in between would have raised an event. At the end of
  the run this is `Settled`, so `QuiescentCorrect` holds when the operator comes to rest. It
  covers the kinds that are watched or that nobody else deletes (`Tracked`); that the others are
  lost unnoticed is the run `service_account_lost`.
* `ShippingInv`: the groups the run is through with ship to the address it has resolved. Another
  address after the look-up does not reach them, but all of them agree, which is
  `OneAggregator` when the run ends.

Each layer has a lemma for one step (`TypeNext`, `ProgressNext`, `GenerationNext`,
`SettlingNext`) with one proof step per action or per group of actions that change the same
variables. TLC checks the invariant itself in `two_groups`.

The refinement of `ClusterPromise` maps its live objects to `applied`, its report to the
operation condition of the status, its basis to the snapshot and its resting to `Quiet`. Each
action of `HelloReconcile` is one of the abstract actions or a stuttering step; the invariant
supplies the abstract guards (what an object depends on is in place, the basis is not older than
any object, at rest the current spec is carried out). In place is what is there from the basis;
only of the kinds others may delete an object may be missing instead. The refinement of `ClusterRuntime` needs
only `TypeOK`.

### HelloStability

Liveness is out of the prover's reach, the facts about single steps that it rests on are not.

* `RunShortensHolds`: `RequestsLeft` counts the place in the code, three requests for each role
  group to come and one for each orphan. Each action of `Reconcile` that leaves the run in
  progress lowers it: one proof step per action, with the cardinality of the groups left and of
  the orphans. All others leave the place and the groups alone and can only remove objects,
  hence orphans. So a run ends after at most `RequestsLeft` requests, whatever happens meanwhile,
  which is the safety half of `RunsEnd`.
* `SteadyStaysHolds`: `Steady` is a settled cluster without an event on its way, in whatever place
  the operator is: idle, in a run begun for nothing, retrying, down. In such a run, by
  `SettlingInv`, the snapshot is the current spec and the availability seen is the true one, so
  every apply renders what is there, the status does not change, there are no orphans, and no
  event is raised. `Steady` is closed under all steps of the operator and its failures, and can
  be left only by users, pods, other actors or another aggregator address. This is the safety half of
  `Converges`: no run causes the next one.
* `DeletedForGoodHolds`: with the deletion in the store, or about to be listed by the next
  operator, no action that begins a run is possible, and only runs create objects. This is the
  safety half of `CleanedUp`; a run that was in progress when the cluster was deleted may still
  create objects, which the garbage collector takes.

### HelloPods

`PodsInv` pairs the contents a pod was started with with generations of template and
configuration in that order. A pod starts only with an applied StatefulSet and ConfigMap, and
`DependenciesFirst` orders these two at that moment; generations that are appended change no
earlier one.

### HelloController

`TypeOK` includes that nothing is queued in an operator that is not up and that the runs on the
current spec are runs in progress. `NothingForgotten` is inductive together with it and with: the
store holds the current spec of a cluster unless an event is coming, and a run counted as fresh
works on it. `ImplementsRuntime` follows from `TypeOK` step by step for each cluster.

### HelloRoleGroup

The objects are, once built, what `BuildConfigMap` and `BuildPod` make of the layers. The
reference definition `Strongest` (the last layer that says anything, by CHOOSE) is shown to be
what nested merges compute, for two, three and five layers.

### HelloNames

No assumption is made about which names users choose. `GroupNamesApart` and `ClusterNameApart`:
names that are no rivals give object names that differ, by comparing the words at the place where
the shorter cluster name ends. `RivalsExact` adds that the exception is not too wide: for rivals
the role groups are constructed whose objects have one name.

The inductive invariant adds to `OwnObjects` that every object is named after the cluster and
group on its labels, that there is one object of a kind under a name, that every object and every
run is of a cluster that was created (`Named`), that what a run has applied is there as long as
its cluster lives and no rival was created (`Present`), and that a run of a settled cluster works
on its present spec. Each of them is stated of each cluster by itself, so a pair of rivals does
not weaken what is known of the others; as `named` only grows, a cluster that has no rival
never had one. `PodsReached` follows without further induction, and so does `Unhindered`: an
object of the same name is of the same cluster and role group.

`ImplementsAlone` maps the objects of a cluster to those with its name on their labels. A step of
its own run is the abstract step; a step of another run replaces and deletes only objects labelled
with another name, so it is not to be seen; a collection is to be seen if it takes something of
the cluster. It says this of each step up to the creation of a rival; from then on steps of the
rival may be to be seen.

Only model-checked: the liveness properties (`Converges`, `PodsRunning`, `CleanedUp`,
`MalformedRests`, `RunsEnd`, `PodsRunTemplate`, `Served`, `ShutdownCompletes`), which need
fairness and ENABLED. Of `RunsEnd`, `Converges` and `CleanedUp` the parts about single steps are proved
in `HelloStabilityProofs`; that fairness then leads from one state to the next is not.

## Not modelled

* The application's page, log formats and levels, ports, probes, CPU and memory: no control flow
  depends on them, or they are merged like what is modelled.
* A write that times out at the operator and reaches the API server only after later ones: an
  answer may be lost, but a request takes effect, if at all, before the next one.
* What the API server makes of two entries of one name in a container's environment, which an
  override of `CONTAINERDEBUG_LOG_DIRECTORY` produces (`controller.rs` 631): `HelloRoleGroup` has
  both entries and states nothing about them.
* `pods()` (`crd.rs` 417-440), which nothing calls and which changes nothing.
* (De)serialization, generation of the CRD, and the errors for roles that do not exist, which no
  caller can provoke.
* The test runner and README scripts, the chart, image and CI files: developer tools and
  packaging. Of the chart the models use that there is one operator, that it is restarted, and
  that the old one ends first.

## Plan

Done, in this order: the cluster and its objects; the reconciliation with its environment; the
pods; the proofs of the safety properties; the layers of a role group; the aggregator's address;
`ClusterPromise` and its refinement; the shared controller, `ClusterRuntime` and its refinements;
the proofs about layers; names of several clusters; the proofs that runs are finite, that settled and
deleted clusters stay so, that pods run no older configuration, and that clusters do not interfere.

Worth adding when the code grows: listeners and discovery instead of the role Service, once the
operator uses `pods()`; more roles, which make the names of different roles of one cluster meet;
the look-ups of `role` and `role_group` once something other than the loop calls them.
