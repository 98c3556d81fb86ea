------------------------ MODULE HelloRoleGroupProofs ------------------------
(***************************************************************************)
(* What a role group's objects are made of, for all layers: the precedence *)
(* of the layers, the agreement of ConfigMap, properties and volumes, and  *)
(* the completeness of the Vector agent.                                   *)
(***************************************************************************)
EXTENDS HelloRoleGroup, TLAPS

\* What the layers of the spec are, and what was built from them.
IInv ==
    /\ role \in Layer /\ group \in Layer
    /\ aggregator \in BOOLEAN
    /\ Built =>
         /\ configMap = BuildConfigMap
         /\ statefulSet = [replicas |-> Replicas, pod |-> BuildPod,
                           claim    |-> MergedConfig.capacity]
         /\ MergedConfig.vector => aggregator

-----------------------------------------------------------------------------
(***************************************************************************)
(* The strongest of a list of layers, found by asking the later ones first *)
(* as Merge does: the last one that says something, or nothing.            *)
(***************************************************************************)
LEMMA StrongestIs ==
    ASSUME NEW layers, NEW i \in DOMAIN layers, DOMAIN layers \subseteq Nat, layers[i] # None,
           \A j \in DOMAIN layers : i < j => layers[j] = None
    PROVE  Strongest(layers) = layers[i]
<1> DEFINE said == {j \in DOMAIN layers : layers[j] # None}
           k == CHOOSE k \in said : \A j \in said : j <= k
<1>1. i \in said /\ \A j \in said : j <= i  OBVIOUS
<1>2. k \in said /\ \A j \in said : j <= k
  BY <1>1
<1>3. i <= k /\ k <= i /\ k \in Nat /\ i \in Nat
  BY <1>1, <1>2
<1>4. k = i
  <2> HIDE DEF k
  <2> QED  BY <1>3
<1> QED  BY <1>1, <1>4 DEF Strongest

\* Where no layer says anything there is nothing.
LEMMA StrongestNone ==
    ASSUME NEW layers, \A j \in DOMAIN layers : layers[j] = None
    PROVE  Strongest(layers) = None
BY DEF Strongest

\* Two layers.
LEMMA StrongestOfTwo ==
    ASSUME NEW a, NEW b
    PROVE  Strongest(<<a, b>>) = Or(b, a)
<1> DEFINE l == <<a, b>>
<1>1. DOMAIN l = {1, 2} /\ l[1] = a /\ l[2] = b  OBVIOUS
<1> HIDE DEF l
<1>2. CASE b # None
  <2>1. Strongest(l) = l[2]  BY <1>1, <1>2, StrongestIs
  <2> QED  BY <1>1, <1>2, <2>1 DEF Or, l
<1>3. CASE b = None /\ a # None
  <2>1. Strongest(l) = l[1]  BY <1>1, <1>3, StrongestIs
  <2> QED  BY <1>1, <1>3, <2>1 DEF Or, l
<1>4. CASE b = None /\ a = None
  <2>1. Strongest(l) = None  BY <1>1, <1>4, StrongestNone
  <2> QED  BY <1>4, <2>1 DEF Or, l
<1> QED  BY <1>2, <1>3, <1>4

\* Three layers, merged in two steps.
LEMMA StrongestOfThree ==
    ASSUME NEW a, NEW b, NEW c
    PROVE  Strongest(<<a, b, c>>) = Or(c, Or(b, a))
<1> DEFINE l == <<a, b, c>>
<1>1. DOMAIN l = {1, 2, 3} /\ l[1] = a /\ l[2] = b /\ l[3] = c  OBVIOUS
<1> HIDE DEF l
<1>2. CASE c # None
  <2>1. Strongest(l) = l[3]  BY <1>1, <1>2, StrongestIs
  <2> QED  BY <1>1, <1>2, <2>1 DEF Or, l
<1>3. CASE c = None /\ b # None
  <2>1. Strongest(l) = l[2]  BY <1>1, <1>3, StrongestIs
  <2> QED  BY <1>1, <1>3, <2>1 DEF Or, l
<1>4. CASE c = None /\ b = None /\ a # None
  <2>1. Strongest(l) = l[1]  BY <1>1, <1>4, StrongestIs
  <2> QED  BY <1>1, <1>4, <2>1 DEF Or, l
<1>5. CASE c = None /\ b = None /\ a = None
  <2>1. Strongest(l) = None  BY <1>1, <1>5, StrongestNone
  <2> QED  BY <1>5, <2>1 DEF Or, l
<1> QED  BY <1>2, <1>3, <1>4, <1>5

-----------------------------------------------------------------------------
\* The fields of a configuration.
Fields == {"log", "vector", "timeout", "capacity", "podAntiAffinity", "nodeAffinity"}

\* A field of the merged configuration is the most specific one.
LEMMA MergedField ==
    ASSUME IInv, NEW f \in Fields
    PROVE  MergedConfig[f] = Strongest(<<DefaultConfig[f], role.config[f], group.config[f]>>)
<1>1. DOMAIN group.config = Fields /\ DOMAIN role.config = Fields
  BY DEF IInv, Layer, Fields
<1>2. MergedConfig[f] = Or(group.config[f], Or(role.config[f], DefaultConfig[f]))
  BY <1>1 DEF MergedConfig, Merge
<1> QED  BY <1>2, StrongestOfThree

\* A property is the most specific one, the computed one included.
LEMMA PropertyIs ==
    ASSUME IInv, NEW p \in Property
    PROVE  ApplicationProperties[p] =
             Strongest(<<ComputedProperties[p], role.properties[p], group.properties[p]>>)
<1>1. DOMAIN group.properties = Property /\ DOMAIN role.properties = Property
  BY DEF IInv, Layer
<1>2. ApplicationProperties[p] =
        Or(group.properties[p], Or(role.properties[p], ComputedProperties[p]))
  BY <1>1 DEF ApplicationProperties, Merge
<1> QED  BY <1>2, StrongestOfThree

\* So is an override of the environment, the operator's own name aside.
LEMMA VariableIs ==
    ASSUME IInv, NEW v \in Variable \ {"", ContainerDebug}
    PROVE  {e[2] : e \in {x \in Env : x[1] = v}} =
             {Strongest(<<role.env[v], group.env[v]>>)} \ {None}
<1>1. DOMAIN group.env = Variable /\ DOMAIN role.env = Variable
  BY DEF IInv, Layer
<1>2. EnvOverrides[v] = Strongest(<<role.env[v], group.env[v]>>)
  BY <1>1, StrongestOfTwo DEF EnvOverrides, Merge
<1>3. ASSUME NEW x \in Env, x[1] = v PROVE x[2] = EnvOverrides[v] /\ EnvOverrides[v] # None
  <2>1. x # <<ContainerDebug, "/stackable/log/containerdebug">>
    <3>1. v # ContainerDebug  OBVIOUS
    <3>2. \A d, l : <<d, l>>[1] = d  OBVIOUS
    <3> QED  BY <1>3, <3>1, <3>2
  <2>2. PICK w \in {u \in Variable \ {""} : EnvOverrides[u] # None} : x = <<w, EnvOverrides[w]>>
    BY <2>1, <1>3 DEF Env
  <2> QED  BY <1>3, <2>2
<1>4. EnvOverrides[v] # None => <<v, EnvOverrides[v]>> \in Env
  BY DEF Env
<1>5. CASE EnvOverrides[v] = None
  <2>1. {x \in Env : x[1] = v} = {}  BY <1>3, <1>5
  <2> QED  BY <1>2, <1>5, <2>1
<1>6. CASE EnvOverrides[v] # None
  <2>1. \A e \in {x \in Env : x[1] = v} : e[2] = EnvOverrides[v]  BY <1>3
  <2>2. <<v, EnvOverrides[v]>> \in {x \in Env : x[1] = v}  BY <1>4, <1>6
  <2>3. {e[2] : e \in {x \in Env : x[1] = v}} = {EnvOverrides[v]}  BY <2>1, <2>2
  <2> QED  BY <1>2, <1>6, <2>3
<1> QED  BY <1>5, <1>6

-----------------------------------------------------------------------------
\* The parts of the pod template.
LEMMA PodParts ==
    /\ BuildPod.env = Env
    /\ BuildPod.gracePeriod = GracePeriod
    /\ BuildPod.containers =
         {"hello-world"} \cup (IF MergedConfig.vector THEN {"vector"} ELSE {})
    /\ BuildPod.affinity = [podAntiAffinity |-> MergedConfig.podAntiAffinity,
                            nodeAffinity    |-> MergedConfig.nodeAffinity]
    /\ BuildPod.volumes["config"] = "role group"
<1>1. BuildPod.env = Env  BY DEF BuildPod
<1>2. BuildPod.gracePeriod = GracePeriod  BY DEF BuildPod
<1>3. BuildPod.containers =
         {"hello-world"} \cup (IF MergedConfig.vector THEN {"vector"} ELSE {})
  BY DEF BuildPod
<1>4. BuildPod.affinity = [podAntiAffinity |-> MergedConfig.podAntiAffinity,
                            nodeAffinity    |-> MergedConfig.nodeAffinity]
  BY DEF BuildPod
<1>5. BuildPod.volumes["config"] = "role group"
  BY DEF BuildPod
<1> QED  BY <1>1, <1>2, <1>3, <1>4, <1>5

-----------------------------------------------------------------------------
LEMMA InitIInv == ASSUME Init PROVE IInv
BY LayersAssumption DEF Init, IInv, Built

\* The objects to build depend on the spec alone.
LEMMA SpecDecides ==
    ASSUME UNCHANGED spec
    PROVE  /\ MergedConfig' = MergedConfig
           /\ BuildConfigMap' = BuildConfigMap
           /\ BuildPod' = BuildPod
           /\ Replicas' = Replicas
<1>1. role' = role /\ group' = group /\ aggregator' = aggregator /\ stopped' = stopped
  BY DEF spec
<1>2. MergedConfig' = MergedConfig
  BY <1>1 DEF MergedConfig
<1>3. ApplicationProperties' = ApplicationProperties /\ EnvOverrides' = EnvOverrides
  BY <1>1 DEF ApplicationProperties, EnvOverrides
<1>4. Env' = Env /\ GracePeriod' = GracePeriod /\ Logback' = Logback /\ VectorFile' = VectorFile
  BY <1>1, <1>2, <1>3 DEF Env, GracePeriod, GracefulShutdown, Logback, VectorFile
<1> QED  BY <1>1, <1>2, <1>3, <1>4 DEF BuildConfigMap, BuildPod, Replicas

LEMMA NextIInv == ASSUME IInv, [Build]_vars PROVE IInv'
<1>1. CASE Build
  <2>1. UNCHANGED spec  BY <1>1 DEF Build
  <2>2. configMap' = BuildConfigMap
        /\ statefulSet' = [replicas |-> Replicas, pod |-> BuildPod, claim |-> MergedConfig.capacity]
        /\ (MergedConfig.vector => aggregator)
    BY <1>1 DEF Build
  <2> QED  BY <2>1, <2>2, SpecDecides DEF IInv, spec
<1>2. CASE UNCHANGED vars
  BY <1>2, SpecDecides DEF vars, IInv, Built, spec
<1> QED  BY <1>1, <1>2

LEMMA Inductive == Spec => []IInv
BY InitIInv, NextIInv, PTL DEF Spec

-----------------------------------------------------------------------------
(***************************************************************************)
(* For all layers: every value of the objects is the one of the most       *)
(* specific layer that sets it, the grace period as configured.            *)
(***************************************************************************)
THEOREM MostSpecificWinsHolds == Spec => []MostSpecificWins
<1>1. ASSUME IInv PROVE MostSpecificWins
  <2> SUFFICES ASSUME Built PROVE MostSpecificWins
    BY DEF MostSpecificWins
  <2>1. configMap.properties = ApplicationProperties
    BY <1>1 DEF IInv, BuildConfigMap
  <2>0. /\ statefulSet.pod = BuildPod
        /\ statefulSet.claim = MergedConfig.capacity
    BY <1>1 DEF IInv
  <2>2. /\ statefulSet.pod.env = Env
        /\ statefulSet.pod.gracePeriod = GracePeriod
        /\ statefulSet.pod.affinity = [podAntiAffinity |-> MergedConfig.podAntiAffinity,
                                       nodeAffinity    |-> MergedConfig.nodeAffinity]
        /\ statefulSet.claim = MergedConfig.capacity
    BY <2>0, PodParts
  <2>3. role.pod = None /\ group.pod = None =>
          GracePeriod = Strongest(<<120, role.config.timeout, group.config.timeout>>)
    <3>1. MergedConfig.timeout = Strongest(<<120, role.config.timeout, group.config.timeout>>)
      BY <1>1, MergedField DEF Fields, DefaultConfig
    <3> QED  BY <3>1 DEF GracePeriod, GracefulShutdown, Or
  <2>4. MergedConfig.capacity =
          Strongest(<<"256Mi", role.config.capacity, group.config.capacity>>)
    BY <1>1, MergedField DEF Fields, DefaultConfig
  <2>5. ASSUME NEW a \in {"podAntiAffinity", "nodeAffinity"}
        PROVE  statefulSet.pod.affinity[a] =
                 Strongest(<<DefaultAffinity[a], role.config[a], group.config[a]>>)
    <3>0. DefaultConfig[a] = DefaultAffinity[a]  BY DEF DefaultConfig
    <3>1. MergedConfig[a] = Strongest(<<DefaultConfig[a], role.config[a], group.config[a]>>)
      BY <1>1, MergedField DEF Fields
    <3>2. statefulSet.pod.affinity[a] = MergedConfig[a]
      BY <2>2
    <3> QED  BY <3>0, <3>1, <3>2
  <2> QED  BY <1>1, <2>1, <2>2, <2>3, <2>4, <2>5, PropertyIs, VariableIs DEF MostSpecificWins
<1> QED  BY <1>1, Inductive, PTL

(***************************************************************************)
(* For all layers: unless the user overrides logging.config, the file it   *)
(* names is written to the ConfigMap and the volume that shows it mounted. *)
(***************************************************************************)
THEOREM LogConfigFoundHolds == Spec => []LogConfigFound
<1>1. ASSUME IInv PROVE LogConfigFound
  <2> SUFFICES ASSUME Built, ~Overridden("logging.config"),
                      Strongest(<<"automatic", role.config.log, group.config.log>>) = "automatic"
               PROVE  /\ \E volume \in LogVolumes : statefulSet.pod.volumes[volume] = "role group"
                      /\ "logback.xml" \in configMap.files
    BY DEF LogConfigFound
  <2>1. MergedConfig.log = "automatic"
    BY <1>1, MergedField DEF Fields, DefaultConfig
  <2>2. configMap = BuildConfigMap /\ statefulSet.pod = BuildPod
    BY <1>1 DEF IInv
  <2>3. "logback.xml" \in configMap.files
    BY <2>1, <2>2 DEF BuildConfigMap, Logback
  <2>4. configMap.properties["logging.config"] = LogbackXml.config
    <3>1. DOMAIN group.properties = Property /\ DOMAIN role.properties = Property
      BY <1>1 DEF IInv, Layer
    <3>2. ApplicationProperties["logging.config"] = ComputedProperties["logging.config"]
      BY <3>1, LayersAssumption DEF Overridden, ApplicationProperties, Merge, Or
    <3>3. ComputedProperties["logging.config"] = LogbackXml.config
      BY LayersAssumption DEF ComputedProperties
    <3> QED  BY <2>2, <3>2, <3>3 DEF BuildConfigMap
  <2>5. "config" \in LogVolumes
    BY <2>4 DEF LogVolumes, LogbackXml
  <2>6. statefulSet.pod.volumes["config"] = "role group"
    BY <2>2, PodParts
  <2> QED  BY <2>3, <2>5, <2>6
<1> QED  BY <1>1, Inductive, PTL

(***************************************************************************)
(* For all layers: the Vector agent and its configuration come together,   *)
(* and never without an aggregator.                                        *)
(***************************************************************************)
THEOREM VectorCompleteHolds == Spec => []VectorComplete
<1>1. ASSUME IInv PROVE VectorComplete
  <2> SUFFICES ASSUME Built
               PROVE  /\ "vector" \in statefulSet.pod.containers <=> "vector.yaml" \in configMap.files
                      /\ "vector" \in statefulSet.pod.containers => aggregator
    BY DEF VectorComplete
  <2>1. configMap = BuildConfigMap /\ statefulSet.pod = BuildPod /\ (MergedConfig.vector => aggregator)
    BY <1>1 DEF IInv
  <2>2. "vector.yaml" \in configMap.files <=> MergedConfig.vector
    BY <2>1 DEF BuildConfigMap, Logback, VectorFile
  <2>3. "vector" \in statefulSet.pod.containers <=> MergedConfig.vector
    <3>1. statefulSet.pod.containers =
            {"hello-world"} \cup (IF MergedConfig.vector THEN {"vector"} ELSE {})
      BY <2>1, PodParts
    <3> QED  BY <3>1
  <2> QED  BY <2>1, <2>2, <2>3
<1> QED  BY <1>1, Inductive, PTL
=============================================================================
