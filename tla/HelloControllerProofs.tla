------------------------ MODULE HelloControllerProofs ------------------------
(***************************************************************************)
(* Theorems about HelloController, for any clusters, any limit of the      *)
(* reporters and any bounds.                                               *)
(***************************************************************************)
EXTENDS HelloController, TLAPS

(***************************************************************************)
(* Type correctness.                                                       *)
(***************************************************************************)
\* A run that ends keeps the types, whatever becomes of its cluster.
LEMMA LeaveType ==
    ASSUME TypeOK, NEW c \in Cluster, Leave(c)
    PROVE  /\ run' \in [Cluster -> Outcome \cup {"none"}]
           /\ fresh' \subseteq Running'
           /\ Running' \subseteq Running
<1>1. \A d \in Cluster : run'[d] = IF d = c THEN "none" ELSE run[d]
  BY DEF TypeOK, Leave
<1>2. QED
  BY <1>1 DEF TypeOK, Leave, Running

LEMMA RequeueType ==
    ASSUME TypeOK, NEW c \in Cluster, Requeue(c), UNCHANGED phase
    PROVE  /\ sched' \in [Cluster -> {"none", "timer", "queued"}]
           /\ phase # "up" => \A d \in Cluster : sched'[d] = "none"
BY DEF TypeOK, Requeue

LEMMA TypeNext == TypeOK /\ [Next]_vars => TypeOK'
<1> SUFFICES ASSUME TypeOK, [Next]_vars PROVE TypeOK'
  OBVIOUS
<1> USE ControllerAssumption DEF users, operator
<1>1. ASSUME NEW c \in Cluster, Edit(c) PROVE TypeOK'
  BY <1>1 DEF Edit, TypeOK, Running
<1>2. ASSUME NEW c \in Cluster, Deliver(c) \/ TimerFires(c) PROVE TypeOK'
  BY <1>2 DEF Deliver, TimerFires, TypeOK, Running
<1>3. ASSUME NEW c \in Cluster, Begin(c) PROVE TypeOK'
  <2>1. \A d \in Cluster : run'[d] = IF d = c THEN stored[c] ELSE run[d]
    BY <1>3 DEF Begin, TypeOK
  <2>2. fresh' \subseteq Running'
    BY <1>3, <2>1 DEF Begin, TypeOK, Running, Outcome
  <2>3. QED
    BY <1>3, <2>2 DEF Begin, TypeOK
<1>4. ASSUME NEW c \in Cluster, End(c) PROVE TypeOK'
  <2>1. /\ Leave(c) /\ UNCHANGED <<spec, events, edits, stored, phase, stops>>
        /\ reporting' \in 0 .. Limit
        /\ behind' \subseteq behind
        /\ faults' \in Nat
    BY <1>4 DEF End, Succeed, Fail, Reject, DealtWith, Polled, TypeOK
  <2>2. /\ sched' \in [Cluster -> {"none", "timer", "queued"}]
        /\ phase # "up" => \A d \in Cluster : sched'[d] = "none"
    BY <1>4, <2>1, RequeueType DEF End, Succeed, Fail, Reject, AwaitChange, TypeOK
  <2>3. QED
    BY <2>1, <2>2, LeaveType DEF TypeOK
<1>5. CASE Report
  BY <1>5 DEF Report, TypeOK, Running
<1>6. CASE Signal
  BY <1>6 DEF Signal, TypeOK, Running
<1>7. CASE Exit
  BY <1>7 DEF Exit, TypeOK, Running
<1>8. CASE Crash
  BY <1>8 DEF Crash, TypeOK, Running
<1>9. CASE Start
  BY <1>9 DEF Start, TypeOK, Running
<1>10. CASE UNCHANGED vars
  BY <1>10 DEF vars, TypeOK, Running
<1>11. QED
  BY <1>1, <1>2, <1>3, <1>4, <1>5, <1>6, <1>7, <1>8, <1>9, <1>10 DEF Next

LEMMA TypeInit == Init => TypeOK
BY ControllerAssumption DEF Init, TypeOK, Running

-----------------------------------------------------------------------------
(***************************************************************************)
(* Nothing is forgotten.  The store is behind the users only where an      *)
(* event is coming, so a run that begins without one works on the current  *)
(* spec.                                                                   *)
(***************************************************************************)
StoreCurrent == phase = "up" => \A c \in Cluster \ events : stored[c] = spec[c]

FreshInv == \A c \in fresh : run[c] = spec[c]

LEMMA FreshNext == TypeOK /\ StoreCurrent /\ FreshInv /\ [Next]_vars => StoreCurrent' /\ FreshInv'
<1> SUFFICES ASSUME TypeOK, StoreCurrent, FreshInv, [Next]_vars
             PROVE  StoreCurrent' /\ FreshInv'
  OBVIOUS
<1> USE DEF users, operator
<1>0. fresh \subseteq Cluster
  BY DEF TypeOK, Running
<1>1. ASSUME NEW c \in Cluster, Edit(c) PROVE StoreCurrent' /\ FreshInv'
  <2>1. \A d \in Cluster : d # c => spec'[d] = spec[d]
    BY <1>1 DEF Edit, TypeOK
  <2>2. QED
    BY <1>0, <1>1, <2>1 DEF Edit, StoreCurrent, FreshInv
<1>2. ASSUME NEW c \in Cluster, Deliver(c) PROVE StoreCurrent' /\ FreshInv'
  <2>1. \A d \in Cluster : stored'[d] = IF d = c THEN spec[c] ELSE stored[d]
    BY <1>2 DEF Deliver, TypeOK
  <2>2. QED
    BY <1>2, <2>1 DEF Deliver, StoreCurrent, FreshInv
<1>3. ASSUME NEW c \in Cluster, Begin(c) PROVE StoreCurrent' /\ FreshInv'
  <2>1. \A d \in Cluster : run'[d] = IF d = c THEN stored[c] ELSE run[d]
    BY <1>3 DEF Begin, TypeOK
  <2>2. c \notin events => stored[c] = spec[c]
    BY <1>3 DEF Begin, StoreCurrent
  <2>3. c \notin fresh
    BY <1>3 DEF Begin, TypeOK
  <2>4. QED
    BY <1>0, <1>3, <2>1, <2>2, <2>3 DEF Begin, StoreCurrent, FreshInv
<1>4. ASSUME NEW c \in Cluster, End(c) PROVE StoreCurrent' /\ FreshInv'
  <2>1. Leave(c) /\ UNCHANGED <<spec, events, stored, phase>>
    BY <1>4 DEF End, Succeed, Fail, Reject
  <2>2. \A d \in Cluster : d # c => run'[d] = run[d]
    BY <2>1 DEF Leave, TypeOK
  <2>3. QED
    BY <1>0, <2>1, <2>2 DEF Leave, StoreCurrent, FreshInv
<1>5. CASE Report \/ Signal \/ Exit \/ Crash \/ Start \/ UNCHANGED vars
           \/ \E c \in Cluster : TimerFires(c)
  BY <1>5 DEF Report, Signal, Exit, Crash, Start, TimerFires, vars, StoreCurrent, FreshInv
<1>6. QED
  BY <1>1, <1>2, <1>3, <1>4, <1>5 DEF Next

LEMMA ForgottenNext ==
    TypeOK /\ StoreCurrent /\ FreshInv /\ NothingForgotten /\ [Next]_vars => NothingForgotten'
<1> SUFFICES ASSUME TypeOK, StoreCurrent, FreshInv, NothingForgotten, [Next]_vars,
                    phase' = "up", NEW d \in behind'
             PROVE  \/ d \in events' \/ sched'[d] # "none"
                    \/ d \in fresh' /\ run'[d] = spec'[d]
  BY DEF NothingForgotten
<1> USE DEF users, operator
<1>0. FreshInv' /\ d \in Cluster
  <2>1. TypeOK'
    BY TypeNext
  <2>2. QED
    BY <2>1, FreshNext DEF TypeOK
<1>1. SUFFICES d \in events' \/ sched'[d] # "none" \/ d \in fresh'
  BY <1>0 DEF FreshInv
<1>2. phase = "up" /\ d \in behind => d \in events \/ sched[d] # "none" \/ d \in fresh
  BY DEF NothingForgotten
<1>3. ASSUME NEW c \in Cluster, Edit(c) \/ Deliver(c) \/ TimerFires(c)
      PROVE  d \in events' \/ sched'[d] # "none" \/ d \in fresh'
  <2>1. d = c => d \in events' \/ sched'[d] # "none"
    BY <1>3 DEF Edit, Deliver, TimerFires, TypeOK
  <2>2. d # c => /\ d \in behind /\ phase = "up"
                 /\ d \in events => d \in events'
                 /\ d \in fresh => d \in fresh'
                 /\ sched'[d] = sched[d]
    BY <1>0, <1>3 DEF Edit, Deliver, TimerFires, TypeOK
  <2>3. QED
    BY <1>2, <2>1, <2>2
<1>4. ASSUME NEW c \in Cluster, Begin(c)
      PROVE  d \in events' \/ sched'[d] # "none" \/ d \in fresh'
  <2>1. phase = "up" /\ d \in behind /\ events' = events /\ fresh \subseteq fresh'
    BY <1>4 DEF Begin
  <2>2. d # c => sched'[d] = sched[d]
    BY <1>0, <1>4 DEF Begin, TypeOK
  <2>3. d = c => d \in events \/ d \in fresh'
    BY <1>4 DEF Begin
  <2>4. QED
    BY <1>2, <2>1, <2>2, <2>3
<1>5. ASSUME NEW c \in Cluster, End(c)
      PROVE  d \in events' \/ sched'[d] # "none" \/ d \in fresh'
  <2>1. phase = "up" /\ d \in behind /\ events' = events /\ (d # c /\ d \in fresh => d \in fresh')
    BY <1>5 DEF End, Succeed, Fail, Reject, DealtWith, Leave
  <2>2. CASE Fail(c)
    <3>1. sched'[c] # "none" /\ (d # c => sched'[d] = sched[d])
      BY <1>0, <2>1, <2>2 DEF Fail, Requeue, TypeOK
    <3>2. QED
      BY <1>2, <2>1, <3>1
  <2>3. CASE Succeed(c) \/ Reject(c)
    <3>1. sched' = sched /\ (d = c => d \notin fresh)
      BY <2>3 DEF Succeed, Reject, AwaitChange, DealtWith
    <3>2. QED
      BY <1>2, <2>1, <3>1
  <2>4. QED
    BY <1>5, <2>2, <2>3 DEF End
<1>6. CASE Report \/ UNCHANGED vars
  BY <1>2, <1>6 DEF Report, vars
<1>7. CASE Signal \/ Exit \/ Crash
  BY <1>7 DEF Signal, Exit, Crash
<1>8. CASE Start
  BY <1>0, <1>8 DEF Start
<1>9. QED
  BY <1>3, <1>4, <1>5, <1>6, <1>7, <1>8 DEF Next

\* Every reachable state is well typed.
THEOREM TypeCorrect == Spec => []TypeOK
BY TypeInit, TypeNext, PTL DEF Spec

(***************************************************************************)
(* Whatever edits, failures, signals and restarts do, a cluster that is    *)
(* behind has an event, a run to come, or a run on its current spec.       *)
(***************************************************************************)
THEOREM NothingForgottenHolds == Spec => []NothingForgotten
<1> DEFINE Inv == TypeOK /\ StoreCurrent /\ FreshInv /\ NothingForgotten
<1>1. Init => Inv
  BY TypeInit DEF Init, StoreCurrent, FreshInv, NothingForgotten
<1>2. Inv /\ [Next]_vars => Inv'
  BY TypeNext, FreshNext, ForgottenNext
<1>3. Inv => NothingForgotten
  OBVIOUS
<1> HIDE DEF Inv
<1>4. QED
  BY <1>1, <1>2, <1>3, PTL DEF Spec

-----------------------------------------------------------------------------
(***************************************************************************)
(* Each cluster sees the runtime of ClusterRuntime.                        *)
(***************************************************************************)
LEMMA RuntimeStep ==
    ASSUME TypeOK, [Next]_vars, NEW d \in Cluster
    PROVE  [Runtime(d)!Next]_(Runtime(d)!scheduling)
<1> USE DEF users, operator
<1> DEFINE Step == [Runtime(d)!Next]_(Runtime(d)!scheduling)
<1>1. ASSUME (phase = "up") <=> (phase' = "up"), sched'[d] = sched[d],
             run'[d] # "none" <=> run[d] # "none"
      PROVE  Step
  BY <1>1 DEF Runtime!scheduling, Running
<1>2. CASE \/ Report \/ Exit \/ UNCHANGED vars
           \/ \E c \in Cluster : Edit(c)
  BY <1>1, <1>2 DEF Report, Exit, vars, Edit
<1>3. ASSUME NEW c \in Cluster, Deliver(c) \/ TimerFires(c) PROVE Step
  <2>1. phase = "up" /\ UNCHANGED <<phase, run>>
    BY <1>3 DEF Deliver, TimerFires
  <2>2. sched'[d] = IF d = c THEN "queued" ELSE sched[d]
    BY <1>3 DEF Deliver, TimerFires, TypeOK
  <2>3. CASE d = c
    BY <2>1, <2>2, <2>3 DEF Runtime!Next, Runtime!Trigger, Running
  <2>4. CASE d # c
    BY <1>1, <2>1, <2>2, <2>4
  <2>5. QED
    BY <2>3, <2>4
<1>4. ASSUME NEW c \in Cluster, Begin(c) PROVE Step
  <2>1. phase = "up" /\ UNCHANGED phase /\ sched[c] = "queued" /\ run[c] = "none"
    BY <1>4 DEF Begin, Running
  <2>2. /\ sched'[d] = IF d = c THEN "none" ELSE sched[d]
        /\ run'[d] = IF d = c THEN stored[c] ELSE run[d]
    BY <1>4 DEF Begin, TypeOK
  <2>3. stored[c] # "none"
    BY DEF TypeOK, Outcome
  <2>4. CASE d = c
    BY <2>1, <2>2, <2>3, <2>4 DEF Runtime!Next, Runtime!Begin, Running
  <2>5. CASE d # c
    BY <1>1, <2>1, <2>2, <2>5
  <2>6. QED
    BY <2>4, <2>5
<1>5. ASSUME NEW c \in Cluster, End(c) PROVE Step
  <2>1. UNCHANGED phase /\ run[c] # "none"
    BY <1>5 DEF End, Succeed, Fail, Reject
  <2>2. run'[d] = IF d = c THEN "none" ELSE run[d]
    BY <1>5 DEF End, Succeed, Fail, Reject, Leave, TypeOK
  <2>3. \/ sched'[d] = sched[d]
        \/ d = c /\ phase = "up" /\ sched[d] = "none" /\ sched'[d] = "timer"
    BY <1>5 DEF End, Succeed, Fail, Reject, AwaitChange, Requeue, TypeOK
  <2>4. CASE d = c
    BY <2>1, <2>2, <2>3, <2>4 DEF Runtime!Next, Runtime!End, Running
  <2>5. CASE d # c
    BY <1>1, <2>1, <2>2, <2>3, <2>5
  <2>6. QED
    BY <2>4, <2>5
<1>6. CASE Signal
  BY <1>6 DEF Signal, Runtime!Next, Runtime!Down, Running
<1>7. CASE Crash
  <2>1. phase' = "down" /\ phase # "down" /\ sched'[d] = "none" /\ run'[d] = "none"
    BY <1>7 DEF Crash
  <2>2. CASE phase = "up"
    BY <2>1, <2>2 DEF Runtime!Next, Runtime!Down, Running
  <2>3. CASE phase # "up" /\ run[d] # "none"
    <3>1. sched[d] = "none"
      BY <2>3 DEF TypeOK
    <3>2. QED
      BY <2>1, <2>3, <3>1 DEF Runtime!Next, Runtime!Kill, Running
  <2>4. CASE phase # "up" /\ run[d] = "none"
    <3>1. sched[d] = "none"
      BY <2>4 DEF TypeOK
    <3>2. QED
      BY <1>1, <2>1, <2>4, <3>1
  <2>5. QED
    BY <2>2, <2>3, <2>4
<1>8. CASE Start
  <2>1. phase = "down" /\ phase' = "up" /\ sched'[d] = "queued" /\ UNCHANGED run
    BY <1>8 DEF Start
  <2>2. run[d] = "none"
    BY <2>1 DEF TypeOK, Running
  <2>3. QED
    BY <2>1, <2>2 DEF Runtime!Next, Runtime!Up, Running
<1>9. QED
  BY <1>2, <1>3, <1>4, <1>5, <1>6, <1>7, <1>8 DEF Next

(***************************************************************************)
(* However many clusters share the operator, each is scheduled as if it    *)
(* were alone: one run at a time, no trigger lost, no run begun after a    *)
(* signal.                                                                 *)
(***************************************************************************)
THEOREM ImplementsRuntimeHolds == Spec => ImplementsRuntime
<1>1. Init => \A c \in Cluster : Runtime(c)!Init
  BY DEF Init, Runtime!Init, Running
<1>2. TypeOK /\ [Next]_vars
        => [\A c \in Cluster : [Runtime(c)!Next]_(Runtime(c)!scheduling)]_vars
  BY RuntimeStep
<1>3. QED
  BY <1>1, <1>2, TypeCorrect, PTL DEF Spec, ImplementsRuntime
=============================================================================
