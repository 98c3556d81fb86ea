---------------------------- MODULE HelloCluster ----------------------------
(***************************************************************************)
(* The HelloCluster custom resource and the Kubernetes objects the         *)
(* operator derives from it: which objects a spec calls for, what they     *)
(* contain as far as the properties tell contents apart, and which of them *)
(* the controller watches.  No state; HelloReconcile adds the behaviour.   *)
(***************************************************************************)
EXTENDS Integers, Sequences, FiniteSets

CONSTANTS
    Group,      \* names of the role groups of the role "server"
    Template,   \* what shapes services and pods: image, listener class,
                \* resources, affinity, env and pod overrides
    Properties, \* what only reaches the ConfigMaps: recipient, color, config
                \* overrides, log levels
    Storage,    \* sizes of the data volume (immutable in a StatefulSet)
    Specs       \* the specs a user may write (a subset of ClusterSpec)

(***************************************************************************)
(* What the reconciler tells apart of a spec.  health "malformed": the     *)
(* object does not deserialize (DeserializeGuard holds an error);          *)
(* "invalid": no server role, or the product configuration is rejected;    *)
(* "gone": the resource was deleted.                                       *)
(***************************************************************************)
Health == {"ok", "malformed", "invalid", "gone"}

ClusterSpec ==
        [health     : Health,
         paused     : BOOLEAN,           \* clusterOperation.reconciliationPaused
         stopped    : BOOLEAN,           \* clusterOperation.stopped
         groups     : SUBSET Group,      \* spec.servers.roleGroups
         replicas   : [Group -> Nat],    \* replicas of each role group
         vector     : SUBSET Group,      \* groups with logging.enableVectorAgent
         aggregator : BOOLEAN,           \* vectorAggregatorConfigMapName is set
         pdb        : BOOLEAN,           \* roleConfig.podDisruptionBudget.enabled
         storage    : Storage,           \* resources.storage.data
         template   : Template,
         properties : Properties]

ASSUME SpecsAssumption == Specs \subseteq {s \in ClusterSpec : s.health # "gone"}

Gone(s) == s.health = "gone"

(***************************************************************************)
(* How ClusterResources treats the objects it is given.  Pausing wins over *)
(* stopping.                                                               *)
(***************************************************************************)
Strategy(s) == IF s.paused  THEN "ReconciliationPaused" ELSE
               IF s.stopped THEN "ClusterStopped" ELSE "Default"

\* Replicas the applied StatefulSet asks for: a stopped cluster gets none.
Requested(s, g) == IF Strategy(s) = "ClusterStopped" THEN 0 ELSE s.replicas[g]

\* Groups whose objects cannot be built: the Vector agent is enabled there
\* and the spec names no aggregator for its configuration.
Unbuildable(s) == IF s.aggregator THEN {} ELSE s.groups \cap s.vector

-----------------------------------------------------------------------------
(***************************************************************************)
(* Objects.  Those of the cluster as a whole carry the group "global".     *)
(***************************************************************************)
ServiceAccount      == <<"ServiceAccount", "global">>
RoleBinding         == <<"RoleBinding", "global">>
RoleService         == <<"Service", "global">>
PodDisruptionBudget == <<"PodDisruptionBudget", "global">>

ClusterObjects == {ServiceAccount, RoleBinding, RoleService, PodDisruptionBudget}

RoleGroupService(g) == <<"Service", g>>
ConfigMap(g)        == <<"ConfigMap", g>>
StatefulSet(g)      == <<"StatefulSet", g>>

GroupObjects(g) == {RoleGroupService(g), ConfigMap(g), StatefulSet(g)}

Object == ClusterObjects \cup UNION {GroupObjects(g) : g \in Group}

Kind(o) == o[1]

Kinds == {"ServiceAccount", "RoleBinding", "PodDisruptionBudget",
          "Service", "ConfigMap", "StatefulSet"}

\* Mutant: the controller does not own ConfigMaps.
WatchedWithoutConfigMap == {"Service", "StatefulSet"}

\* Kinds whose changes make the controller reconcile the owning cluster.
Watched == {"Service", "StatefulSet", "ConfigMap"}

\* add_pdbs does nothing when the PodDisruptionBudget is disabled.
Pdbs(s) == IF s.pdb THEN {PodDisruptionBudget} ELSE {}

\* The objects a complete reconciliation of s adds.
Needed(s) == {ServiceAccount, RoleBinding, RoleService}
             \cup (UNION {GroupObjects(g) : g \in s.groups})
             \cup Pdbs(s)

(***************************************************************************)
(* Contents of object o as built from s, as far as s can change them.  The *)
(* RBAC objects depend on nothing that can change; the ConfigMap holds the *)
(* properties, the StatefulSet refers to it by name only.                  *)
(***************************************************************************)
RoleServiceContents(s)         == <<s.template>>
RoleGroupServiceContents(s)    == <<s.template>>
PodDisruptionBudgetContents(s) == <<s.template>>
ConfigMapContents(s, g)        == <<s.template, s.properties, g \in s.vector>>
StatefulSetContents(s, g)      == <<s.template, s.storage, g \in s.vector, Requested(s, g)>>

Render(s, o) ==
    CASE o = RoleService             -> RoleServiceContents(s)
      [] o = PodDisruptionBudget     -> PodDisruptionBudgetContents(s)
      [] \E g \in Group : o = RoleGroupService(g) -> RoleGroupServiceContents(s)
      [] Kind(o) = "ConfigMap"       -> ConfigMapContents(s, o[2])
      [] Kind(o) = "StatefulSet"     -> StatefulSetContents(s, o[2])
      [] OTHER                       -> <<>>

\* The two conditions reported for spec.clusterOperation.
OperationConditions(s) ==
    {IF s.paused THEN "paused" ELSE "reconciled", IF s.stopped THEN "stopped" ELSE "running"}
=============================================================================
