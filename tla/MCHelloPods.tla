----------------------------- MODULE MCHelloPods -----------------------------
(***************************************************************************)
(* Small instances of HelloPods for TLC.                                   *)
(***************************************************************************)
EXTENDS HelloPods

CONSTANT g1

OneGroup == {g1}

Plain == [health |-> "ok", paused |-> FALSE, stopped |-> FALSE, groups |-> Group,
          replicas |-> [g \in Group |-> 1], vector |-> {}, aggregator |-> FALSE,
          pdb |-> TRUE, storage |-> "1Gi",
          template |-> "t1", properties |-> "p1"]

Reconfigured == [Plain EXCEPT !.properties = "p2"]
Upgraded     == [Plain EXCEPT !.template = "t2"]
Stopped      == [Plain EXCEPT !.stopped = TRUE]
Malformed    == [Plain EXCEPT !.health = "malformed"]
Invalid      == [Plain EXCEPT !.health = "invalid"]
Unaddressed  == [Plain EXCEPT !.vector = {g1}]

EditedSpecs      == {Plain, Upgraded, Stopped, Malformed, Invalid, Unaddressed}
ReconfigureSpecs == {Plain, Reconfigured}

NothingDeletable == {}
Absent           == {0}

Templates    == {"t1", "t2"}
PropertySets == {"p1", "p2"}
Storages     == {"1Gi"}
=============================================================================
