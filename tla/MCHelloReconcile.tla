-------------------------- MODULE MCHelloReconcile --------------------------
(***************************************************************************)
(* Small instances of HelloReconcile for TLC.                              *)
(***************************************************************************)
EXTENDS HelloStability

CONSTANTS g1, g2

TwoGroups == {g1, g2}
OneGroup  == {g1}

\* A running cluster with every group, one replica each.
Plain == [health |-> "ok", paused |-> FALSE, stopped |-> FALSE, groups |-> Group,
          replicas |-> [g \in Group |-> 1], vector |-> {}, aggregator |-> FALSE,
          pdb |-> TRUE, storage |-> "1Gi",
          template |-> "t1", properties |-> "p1"]

Smaller      == [Plain EXCEPT !.groups = {g1}, !.pdb = FALSE, !.template = "t2"]
Paused       == [Plain EXCEPT !.paused = TRUE, !.stopped = TRUE]
Shipping     == [Plain EXCEPT !.vector = {g1}, !.aggregator = TRUE]
Resized      == [Plain EXCEPT !.storage = "2Gi"]
Unaddressed  == [Plain EXCEPT !.vector = {g1}]

ShippingAll  == [Plain EXCEPT !.vector = Group, !.aggregator = TRUE]
ShippingOne  == [ShippingAll EXCEPT !.groups = {g1}, !.pdb = FALSE, !.template = "t2"]

GroupSpecs == {Plain, Smaller}
VectorSpecs == {ShippingAll, ShippingOne}
PausedSpecs == {Paused}
PausingSpecs == {Plain, Paused}
FaultSpecs == {Paused, Shipping, Resized, Unaddressed}

NothingDeletable == {}
WatchedDeletable == {"Service", "StatefulSet", "ConfigMap"}
AllDeletable     == Kinds

Absent    == {0}
Coming    == {0, 1}
Moving    == {1, 2}

Templates  == {"t1", "t2"}
PropertySets == {"p1", "p2"}
Storages == {"1Gi", "2Gi"}
=============================================================================
