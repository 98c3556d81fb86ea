---------------------------- MODULE HelloRoleGroup ----------------------------
(***************************************************************************)
(* How the ConfigMap and the StatefulSet of one role group come out of the *)
(* layers of a HelloCluster: defaults, role, role group, and the overrides *)
(* of properties, environment and pod template.  HelloReconcile treats     *)
(* these contents as opaque; here they are built.                          *)
(***************************************************************************)
EXTENDS Naturals, Sequences

CONSTANTS
    None,       \* a field that is not set
    Roles,      \* what the role may say
    Groups,     \* what the role group may say
    Variable,   \* names of environment variables a user may write, "" included
    Property    \* keys of application.properties

(***************************************************************************)
(* A layer is a record of config, a HelloConfigFragment (the logs of the   *)
(* hello container, the Vector agent, the graceful shutdown timeout, the   *)
(* capacity of the volume and the affinities of the pods, where other      *)
(* quantities and affinities are merged alike), of properties and env, the *)
(* overrides of application.properties and of the environment, of pod, the *)
(* grace period in podOverrides, and of replicas.                          *)
(***************************************************************************)
Layer ==
    LET Maybe(S) == S \cup {None}
    IN  [config     : [log : Maybe({"automatic", "custom"}), vector : Maybe(BOOLEAN),
                       timeout : Maybe(Nat), capacity : Maybe(STRING),
                       podAntiAffinity : Maybe(STRING), nodeAffinity : Maybe(STRING)],
         properties : [Property -> Maybe(STRING)],
         env        : [Variable -> Maybe(STRING)],
         pod        : Maybe(Nat),
         replicas   : Maybe(Nat)]

ASSUME LayersAssumption ==
    Roles \subseteq Layer /\ Groups \subseteq Layer /\ "logging.config" \in Property

VARIABLES
    role, group,    \* the layers of the spec
    aggregator,     \* the address of the Vector aggregator is known
    stopped,        \* clusterOperation.stopped
    configMap,      \* the objects of the role group, None before they are built
    statefulSet

spec == <<role, group, aggregator, stopped>>
vars == <<spec, configMap, statefulSet>>

Init ==
    /\ role \in Roles /\ group \in Groups
    /\ aggregator \in BOOLEAN /\ stopped \in BOOLEAN
    /\ configMap = None /\ statefulSet = None

-----------------------------------------------------------------------------
Or(more, less) == IF more = None THEN less ELSE more

\* Mutant: the less specific layer wins.
MergeReversed(more, less) == [f \in DOMAIN more |-> Or(less[f], more[f])]

\* more.merge(&less): what more leaves open is taken from less.
Merge(more, less) == [f \in DOMAIN more |-> Or(more[f], less[f])]

\* get_affinity: the pods of the role keep apart, on whatever nodes.
DefaultAffinity == [podAntiAffinity |-> "pods of the role", nodeAffinity |-> None]

DefaultConfig ==
    [log |-> "automatic", vector |-> FALSE, timeout |-> 120, capacity |-> "256Mi",
     podAntiAffinity |-> DefaultAffinity.podAntiAffinity,
     nodeAffinity    |-> DefaultAffinity.nodeAffinity]

MergedConfig == Merge(group.config, Merge(role.config, DefaultConfig))

\* The file each volume of the container would have the log configuration in.
LogbackXml == [config           |-> "/stackable/config/logback.xml",
               log_config_mount |-> "/stackable/mount/log-config/logback.xml"]

\* What compute_files writes.
ComputedProperties == [p \in Property |->
    CASE p = "logging.config"     -> LogbackXml.config
      [] p = "greeting.recipient" -> "spec.recipient"
      [] OTHER                    -> None]

\* transform_all_roles_to_config: overrides over computed values.
ApplicationProperties ==
    Merge(group.properties, Merge(role.properties, ComputedProperties))
EnvOverrides == Merge(group.env, role.env)

ContainerDebug == "CONTAINERDEBUG_LOG_DIRECTORY"

\* The entries of the container's environment: overrides with an empty name
\* are skipped, the operator's own variable is added whatever is there.
Env == {<<v, EnvOverrides[v]>> : v \in {w \in Variable \ {""} : EnvOverrides[w] # None}}
       \cup {<<ContainerDebug, "/stackable/log/containerdebug">>}

\* Mutant: the role alone decides on logback.xml.
LogbackOfRole ==
    IF Merge(role.config, DefaultConfig).log = "automatic" THEN {"logback.xml"} ELSE {}

Logback == IF MergedConfig.log = "automatic" THEN {"logback.xml"} ELSE {}

\* Mutant: the role group's own setting decides on Vector's configuration.
VectorFileOfGroup == IF group.config.vector = TRUE THEN {"vector.yaml"} ELSE {}

VectorFile == IF MergedConfig.vector THEN {"vector.yaml"} ELSE {}

BuildConfigMap ==
    [files      |-> {"application.properties", "security.properties"}
                      \cup Logback \cup VectorFile,
     properties |-> ApplicationProperties]

\* add_graceful_shutdown_config: the grace period of the built template.
GracefulShutdown == MergedConfig.timeout

\* podOverrides of the role, then of the role group, over the built template.
GracePeriod == Or(group.pod, Or(role.pod, GracefulShutdown))

\* The volumes hold the role group's ConfigMap or the user's custom one.
BuildPod ==
    [env         |-> Env,
     containers  |-> {"hello-world"} \cup (IF MergedConfig.vector THEN {"vector"} ELSE {}),
     gracePeriod |-> GracePeriod,
     affinity    |-> [podAntiAffinity |-> MergedConfig.podAntiAffinity,
                      nodeAffinity    |-> MergedConfig.nodeAffinity],
     volumes     |-> [config           |-> "role group",
                      log_config_mount |-> IF MergedConfig.log = "custom"
                                           THEN "custom" ELSE "role group"]]

\* A stopped cluster gets no replicas; the API server fills in one for none.
Replicas == IF stopped THEN 0 ELSE Or(group.replicas, 1)

Build ==
    /\ configMap = None
    /\ MergedConfig.vector => aggregator
    /\ configMap' = BuildConfigMap
    /\ statefulSet' = [replicas |-> Replicas, pod |-> BuildPod,
                       claim    |-> MergedConfig.capacity]
    /\ UNCHANGED spec

Spec == Init /\ [][Build]_vars

-----------------------------------------------------------------------------
Built == configMap # None

\* The last of the layers that says something.
Strongest(layers) ==
    LET said == {i \in DOMAIN layers : layers[i] # None}
    IN  IF said = {} THEN None
        ELSE layers[CHOOSE i \in said : \A j \in said : j <= i]

\* The volumes with the file that logging.config names.
LogVolumes ==
    {v \in DOMAIN LogbackXml : LogbackXml[v] = configMap.properties["logging.config"]}

Overridden(p) == role.properties[p] # None \/ group.properties[p] # None

(***************************************************************************)
(* "Hierarchy is: 1. RoleGroup 2. Role 3. Default": every value of the     *)
(* pods and of their properties is the most specific one anybody set.  Of  *)
(* the grace period this is said as long as no podOverrides touch it.      *)
(***************************************************************************)
MostSpecificWins == Built =>
    /\ role.pod = None /\ group.pod = None =>
         statefulSet.pod.gracePeriod =
           Strongest(<<120, role.config.timeout, group.config.timeout>>)
    /\ statefulSet.claim =
         Strongest(<<"256Mi", role.config.capacity, group.config.capacity>>)
    /\ \A a \in {"podAntiAffinity", "nodeAffinity"} :
         statefulSet.pod.affinity[a] =
           Strongest(<<DefaultAffinity[a], role.config[a], group.config[a]>>)
    /\ \A p \in Property :
         configMap.properties[p] =
           Strongest(<<ComputedProperties[p], role.properties[p], group.properties[p]>>)
    /\ \A v \in Variable \ {"", ContainerDebug} :
         {e[2] : e \in {x \in statefulSet.pod.env : x[1] = v}} =
           {Strongest(<<role.env[v], group.env[v]>>)} \ {None}

(***************************************************************************)
(* Unless the user says otherwise in application.properties, the log       *)
(* configuration the application is told to read is in the volume: the     *)
(* file, the property and the volume are made in three different places.   *)
(***************************************************************************)
LogConfigFound ==
    /\ Built /\ ~Overridden("logging.config")
    /\ Strongest(<<"automatic", role.config.log, group.config.log>>) = "automatic"
    => /\ \E volume \in LogVolumes : statefulSet.pod.volumes[volume] = "role group"
       /\ "logback.xml" \in configMap.files

\* The Vector agent runs in the pods exactly if the ConfigMap configures it,
\* and then its aggregator is known.
VectorComplete == Built =>
    /\ "vector" \in statefulSet.pod.containers <=> "vector.yaml" \in configMap.files
    /\ "vector" \in statefulSet.pod.containers => aggregator

(***************************************************************************)
(* "Custom log configuration provided in a ConfigMap": the application is  *)
(* told to read its log configuration from the user's ConfigMap.           *)
(***************************************************************************)
CustomLogConfigUsed ==
    /\ Built /\ ~Overridden("logging.config")
    /\ Strongest(<<"automatic", role.config.log, group.config.log>>) = "custom"
    => \E volume \in LogVolumes : statefulSet.pod.volumes[volume] = "custom"
=============================================================================
