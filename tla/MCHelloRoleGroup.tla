--------------------------- MODULE MCHelloRoleGroup ---------------------------
(***************************************************************************)
(* Small instances of HelloRoleGroup for TLC: every combination of set and *)
(* unset fields in both layers, where the capacity and the affinities of a *)
(* layer are set together with another field of its own.                   *)
(***************************************************************************)
EXTENDS HelloRoleGroup

With(by, other) == IF other = None THEN None ELSE by

Configs(logs, vectors, timeouts, by) ==
    {[log |-> l, vector |-> v, timeout |-> t, capacity |-> With(by, t),
      podAntiAffinity |-> With(by, v), nodeAffinity |-> With(by, l)]
        : l \in logs, v \in vectors, t \in timeouts}

Layers(configs, paths, recipients, pods, replicas, by) ==
    [config     : configs,
     properties : {[p \in Property |-> IF p = "logging.config" THEN l ELSE r]
                      : l \in paths, r \in recipients},
     env        : {[v \in Variable |-> IF v = "" THEN by ELSE e] : e \in {None, by}},
     pod        : pods,
     replicas   : replicas]

SilentRole == Layers(Configs({None}, {None}, {None}, "role"), {None}, {None}, {None}, {None}, "role")
EveryRole  == Layers(Configs({None, "custom"}, {None, TRUE}, {None, 30}, "role"),
                     {None, LogbackXml.log_config_mount}, {None, "role"}, {None, 300}, {None}, "role")
EveryGroup == Layers(Configs({None, "automatic", "custom"}, {None, TRUE, FALSE}, {None, 60}, "group"),
                     {None}, {None, "group"}, {None, 0}, {None, 2}, "group")

Variables  == {"VAR", ContainerDebug, ""}
Properties == {"logging.config", "greeting.recipient"}
=============================================================================
