---------------------------- MODULE HelloStability ----------------------------
(***************************************************************************)
(* Why HelloReconcile comes to rest, without any fairness: every run is    *)
(* finite, and a cluster that is settled is left alone by further runs.    *)
(***************************************************************************)
EXTENDS HelloReconcileInv

\* A spec has finitely many role groups.
ASSUME GroupsAssumption == IsFiniteSet(Group)

-----------------------------------------------------------------------------
(***************************************************************************)
(* The requests a run has still to make, at most: three for each role      *)
(* group, one for each orphan, and those of its place.                     *)
(***************************************************************************)
Place == [sa |-> 7, rb |-> 6, svc |-> 5, vector |-> 4, groups |-> 3, cm |-> 2,
          sts |-> 1, pdb |-> 3, status |-> 2, orphans |-> 1]

RequestsLeft == Place[pc] + 3 * Cardinality(left) + Cardinality(Orphans)

(***************************************************************************)
(* Every request brings the run nearer to its end, and nobody sets it      *)
(* back: neither an edit, nor pods that do not get ready, nor objects that *)
(* others delete or the run itself applies.                                *)
(***************************************************************************)
RunShortens ==
    [][Busy /\ Busy' => /\ RequestsLeft' \in 0 .. RequestsLeft
                        /\ Reconcile => RequestsLeft' # RequestsLeft]_vars

-----------------------------------------------------------------------------
\* Where g's Vector agent should ship to.
Destination(g) == IF g \in Current.vector THEN address ELSE 0

\* The Vector agents ship to the address there is, and the run knows no other.
AgentsUpToDate ==
    Current.paused \/
        /\ \A g \in Current.groups : shipping[g] = Destination(g)
        /\ pc \in Located /\ Current.aggregator => resolved = address

(***************************************************************************)
(* The cluster is settled and no event is on its way; a run in progress    *)
(* was begun for nothing.                                                  *)
(***************************************************************************)
Steady ==
    /\ Current.health = "ok"
    /\ Settled(Current) /\ AgentsUpToDate
    /\ ~events
    /\ pc # "down" => cached = Latest
    /\ Busy => sched = "none"

\* The step is the operator's, or a failure or crash of the operator.
OwnStep == UNCHANGED <<history, ready, address>> /\ (UNCHANGED faults \/ pc' # pc)

(***************************************************************************)
(* A settled cluster is left as it is: whatever the operator does to it,   *)
(* runs, retries, lost answers, crashes and restarts included, it stays    *)
(* settled, and no run raises an event, which would lead to the next run,  *)
(* and so on forever.                                                      *)
(***************************************************************************)
SteadyStays == [][Steady /\ OwnStep => Steady']_vars

-----------------------------------------------------------------------------
\* No run is in progress, and none will find the deleted cluster in the store.
Dismissed ==
    /\ Gone(Current) /\ ~Busy
    /\ pc # "down" => cached = Latest

(***************************************************************************)
(* Once the operator knows of a deletion and the last run is over, nothing *)
(* of the cluster ever comes back: no timer, event, retry, lost answer or  *)
(* restart that is still to come leads to another run.                     *)
(***************************************************************************)
DeletedForGood ==
    [][Dismissed => Dismissed' /\ \A o \in Object : applied'[o] \in {0, applied[o]}]_vars
=============================================================================
