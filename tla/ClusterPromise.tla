---------------------------- MODULE ClusterPromise ----------------------------
(***************************************************************************)
(* What the operator promises the users of one HelloCluster, seen from the *)
(* API server: no runs, queues, caches or requests.  The operator takes up *)
(* a generation of the spec as its basis, applies the objects the basis    *)
(* calls for, reports, removes what is left over, and may break off at any *)
(* time.  It rests only when the current spec is carried out.              *)
(* HelloReconcile implements this specification.                           *)
(***************************************************************************)
EXTENDS HelloCluster

CONSTANT Deletable  \* kinds whose objects somebody else may delete

VARIABLES
    history,    \* the generations of the spec, the last one being current
    live,       \* generation each object comes from, 0: absent
    reported,   \* the conditions in the status that speak of the operation
    basis,      \* generation the operator is carrying out, 0: none
    resting     \* the operator does nothing before something changes

promised == <<history, live, reported, basis, resting>>

Latest  == Len(history)
Current == history[Latest]
Basis   == history[basis]

\* A paused cluster is only observed.
Paused(s) == Strategy(s) = "ReconciliationPaused"

Init ==
    /\ \E s \in Specs : history = <<s>>
    /\ live = [o \in Object |-> 0]
    /\ reported = {}
    /\ basis = 0 /\ resting = FALSE

-----------------------------------------------------------------------------
(***************************************************************************)
(* Carried out: what the user may expect of a cluster the operator rests   *)
(* on.  Objects somebody else deletes behind its back are not promised.    *)
(***************************************************************************)
Noticed(o) == Kind(o) \in Watched \/ Kind(o) \notin Deletable

CarriedOut(s) ==
    /\ reported = OperationConditions(s)
    /\ \A o \in Needed(s) : Noticed(o) =>
         /\ live[o] # 0
         /\ Paused(s) \/ Render(history[live[o]], o) = Render(s, o)
    /\ Paused(s) \/ \A o \in Object \ Needed(s) : live[o] = 0

Kept == resting /\ Current.health = "ok" => CarriedOut(Current)

\* The objects O of the basis are in place: each comes from the basis, unless
\* somebody else has deleted it since.
InPlace(O) == \A o \in O : \/ live[o] = basis
                           \/ live[o] = 0 /\ (Kind(o) \in Deletable \/ Gone(Current))

\* What the pods of a StatefulSet depend on; other objects depend on nothing.
Before(o) ==
    IF Kind(o) = "StatefulSet"
    THEN {ServiceAccount, RoleService, RoleGroupService(o[2]), ConfigMap(o[2])}
    ELSE {}

-----------------------------------------------------------------------------
(***************************************************************************)
(* The users.                                                              *)
(***************************************************************************)
\* Another spec is written, or the resource deleted.
Write ==
    /\ ~Gone(Current)
    /\ \E s \in Specs \cup {[Current EXCEPT !.health = "gone"]} : history' = Append(history, s)
    /\ ~resting'
    /\ UNCHANGED <<live, reported, basis>>

\* Somebody else deletes an object.
Lose(o) ==
    /\ Kind(o) \in Deletable
    /\ live' = [live EXCEPT ![o] = 0]
    /\ resting' => resting
    /\ UNCHANGED <<history, reported, basis>>

\* Kubernetes deletes what belongs to a deleted resource.
Collect ==
    /\ Gone(Current)
    /\ live' = [o \in Object |-> 0]
    /\ ~resting'
    /\ UNCHANGED <<history, reported, basis>>

-----------------------------------------------------------------------------
(***************************************************************************)
(* The operator.                                                           *)
(***************************************************************************)
\* Only a valid spec is carried out, and none older than what is there.
TakeUp(n) ==
    /\ basis = 0 /\ basis' = n
    /\ history[n].health = "ok"
    /\ \A o \in Object : live[o] <= n
    /\ UNCHANGED <<history, live, reported, resting>>

Carrying == basis # 0 /\ basis' \in {0, basis} /\ ~resting'

\* An object is applied after what it depends on.
Apply(o) ==
    /\ Carrying /\ ~Paused(Basis)
    /\ o \in Needed(Basis)
    /\ InPlace(Before(o))
    /\ live' = [live EXCEPT ![o] = basis]
    /\ UNCHANGED <<history, reported>>

\* The report follows the objects.
Report ==
    /\ Carrying
    /\ Paused(Basis) \/ InPlace(Needed(Basis))
    /\ reported' = OperationConditions(Basis)
    /\ UNCHANGED <<history, live>>

\* Nothing is removed before all that replaces it is in place.
Remove(o) ==
    /\ Carrying /\ ~Paused(Basis)
    /\ o \notin Needed(Basis)
    /\ InPlace(Needed(Basis))
    /\ live' = [live EXCEPT ![o] = 0]
    /\ UNCHANGED <<history, reported>>

\* The basis is carried out, or given up because of a failure or a crash.
Stop ==
    /\ basis' = 0
    /\ UNCHANGED <<history, live, reported>>

\* Something calls for attention, though the spec is the same.
Wake ==
    /\ ~resting'
    /\ UNCHANGED <<history, live, reported, basis>>

Next ==
    /\ \/ Write \/ Collect
       \/ \E o \in Object : Lose(o)
       \/ \E n \in 1 .. Latest : TakeUp(n)
       \/ \E o \in Object : Apply(o) \/ Remove(o)
       \/ Report
       \/ Stop
       \/ Wake
    /\ Kept'

Spec == Init /\ [][Next]_promised
=============================================================================
