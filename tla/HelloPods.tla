------------------------------ MODULE HelloPods ------------------------------
(***************************************************************************)
(* What the running pods were started with.  HelloReconcile counts pods;   *)
(* here each role group also remembers the contents its pods booted from:  *)
(* the pod template of its StatefulSet and the data of its ConfigMap,      *)
(* which the application reads once, when it starts.                       *)
(***************************************************************************)
EXTENDS HelloReconcile

VARIABLE booted     \* contents the running pods of each group started with

podVars == <<vars, booted>>

\* The part of the StatefulSet's contents that ends up in the pods.
PodTemplate(g) ==
    LET s == history[applied[StatefulSet(g)]] IN <<s.template, g \in s.vector>>

\* What a pod of g starting now would run with.
BootContents(g) ==
    [template |-> PodTemplate(g),
     config   |-> Render(history[applied[ConfigMap(g)]], ConfigMap(g))]

PodsInit == Init /\ booted = [g \in Group |-> {}]

\* A pod that starts reads the contents of the day; the last to stop leaves none.
TrackPods ==
    booted' = [g \in Group |->
        CASE ready'[g] = 0        -> {}
          [] ready'[g] > ready[g] -> booted[g] \cup {BootContents(g)}
          [] OTHER                -> booted[g]]

\* The StatefulSet controller replaces the pods started from another template
\* (and only those: a ConfigMap's new data replaces no pod).
RollPods(g) ==
    /\ ready[g] > 0
    /\ applied[StatefulSet(g)] # 0
    /\ applied[ServiceAccount] # 0 /\ applied[ConfigMap(g)] # 0
    /\ \E b \in booted[g] : b.template # PodTemplate(g)
    /\ booted' = [booted EXCEPT ![g] =
                    {b \in @ : b.template = PodTemplate(g)} \cup {BootContents(g)}]
    /\ UNCHANGED vars

PodsNext ==
    \/ Next /\ TrackPods
    \/ \E g \in Group : RollPods(g)

PodsSpec ==
    /\ PodsInit /\ [][PodsNext]_podVars
    /\ Fairness
    /\ \A g \in Group : WF_podVars(RollPods(g))

-----------------------------------------------------------------------------
(***************************************************************************)
(* Once edits and failures end, every pod of a cluster that is not paused  *)
(* runs from the current pod template, the StatefulSet being up to date.   *)
(***************************************************************************)
PodsRunTemplate ==
    <>[](Reconcilable /\ ~Current.paused =>
           \A g \in Current.groups : \A b \in booted[g] :
               b.template = <<Current.template, g \in Current.vector>>)

(***************************************************************************)
(* No pod runs a pod template with an older configuration: whatever mix of *)
(* generations an interrupted run left behind, a pod that starts from a    *)
(* template of generation n finds a ConfigMap of generation n or later.    *)
(***************************************************************************)
ConfigNotOlder ==
    \A g \in Group : \A b \in booted[g] : \E n, m \in 1 .. Latest :
        /\ n <= m
        /\ b.template = <<history[n].template, g \in history[n].vector>>
        /\ b.config = Render(history[m], ConfigMap(g))

(***************************************************************************)
(* "Ensures that Pods are configured and running for each HelloCluster":   *)
(* every pod runs with the contents of the current ConfigMap.              *)
(***************************************************************************)
PodsConfigured ==
    <>[](Reconcilable /\ ~Current.paused =>
           \A g \in Current.groups : \A b \in booted[g] :
               b.config = Render(Current, ConfigMap(g)))
=============================================================================
