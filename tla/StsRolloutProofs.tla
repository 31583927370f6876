-------------------------- MODULE StsRolloutProofs --------------------------
(***************************************************************************)
(* Theorems about StsRollout, for every strategy, every set of role sizes, *)
(* every combination of lagging informers and any budget of edits and      *)
(* failures.                                                               *)
(*                                                                         *)
(* The inductive invariant is TypeOK /\ ReplicasBounded.  The bound on     *)
(* the replicas is what keeps the arithmetic of the controller natural:    *)
(* the step of case 5 is maxUnavailable + replicas - size, and replicas    *)
(* must not be below size for it not to be negative.                       *)
(*                                                                         *)
(* Two properties need more.  SizeCaughtUp: the replica count is one the   *)
(* annotated size passes through (Sized), so that a pass that finds the    *)
(* role's own count and writes nothing has found the role's size too.      *)
(* ExposureBounded: the arithmetic of rollingUpdatePartition for a step of *)
(* one (FinishedTail, OneAtATime).                                         *)
(***************************************************************************)
EXTENDS StsRollout, FiniteSetTheorems, TLAPS

-----------------------------------------------------------------------------
(* The arithmetic. *)

\* GetScaledValueFromIntOrPercent returns a natural number.
LEMMA ScaledType ==
  ASSUME NEW v \in IntOrPercent, NEW n \in Nat, NEW up \in BOOLEAN
  PROVE  Scaled(v, n, up) \in Nat
<1>1. v.value \in Nat /\ v.percent \in BOOLEAN
  BY DEF IntOrPercent
<1>2. v.value * n \in Nat
  BY <1>1
<1>3. \A k \in Nat : k \div 100 \in Nat
  OBVIOUS
<1>4. /\ (v.value * n + 99) \div 100 \in Nat
      /\ (v.value * n) \div 100 \in Nat
  BY <1>2, <1>3
<1> QED
  BY <1>1, <1>4 DEF Scaled

LEMMA StrategyType ==
  ASSUME NEW n \in Nat
  PROVE  Surge(n) \in Nat /\ Unavailable(n) \in Nat
<1>1. Scaled(MaxSurge, n, TRUE) \in Nat /\ Scaled(MaxUnavailable, n, FALSE) \in Nat
  BY ScaledType, StrategyAssumption
<1> QED
  BY <1>1 DEF Surge, Unavailable, MinOf

\* wantReplicas stays between the role size and the burst size.
LEMMA WantReplicasRange ==
  ASSUME NEW n \in Nat, NEW unready \in Nat
  PROVE  /\ WantReplicas(n, unready) \in Nat
         /\ n <= WantReplicas(n, unready)
         /\ WantReplicas(n, unready) <= n + Surge(n)
<1>1. Surge(n) \in Nat
  BY StrategyType
<1> QED
  BY <1>1 DEF WantReplicas, NonZeroValue

\* The size of a part of an integer interval.
LEMMA IntervalPart ==
  ASSUME NEW a \in Int, NEW b \in Int, NEW S \in SUBSET (a .. b)
  PROVE  /\ Cardinality(S) \in Nat
         /\ Cardinality(S) <= IF a > b THEN 0 ELSE b - a + 1
<1>1. IsFiniteSet(a .. b) /\ Cardinality(a .. b) = IF a > b THEN 0 ELSE b - a + 1
  BY FS_Interval
<1>2. IsFiniteSet(S) /\ Cardinality(S) <= Cardinality(a .. b)
  BY <1>1, FS_Subset
<1>3. Cardinality(S) \in Nat
  BY <1>2, FS_CardinalityType
<1> QED
  BY <1>1, <1>2, <1>3

\* The same for the first n ordinals.
LEMMA OrdinalsPart ==
  ASSUME NEW n \in Nat, NEW S, S \subseteq 0 .. n-1
  PROVE  Cardinality(S) \in Nat
<1>1. IsFiniteSet(0 .. n-1)
  BY FS_Interval
<1>2. IsFiniteSet(S)
  BY <1>1, FS_Subset
<1> QED
  BY <1>2, FS_CardinalityType

LEMMA RoleUnreadyType ==
  ASSUME NEW n \in Nat, NEW k \in Nat, NEW ready, NEW updated
  PROVE  RoleUnready(n, k, ready, updated) \in Nat
<1> DEFINE S == {i \in 0 .. n-1 : i >= k \/ i \notin ready \cap updated}
<1>1. S \subseteq 0 .. n-1
  OBVIOUS
<1>2. Cardinality(S) \in Nat
  <2> HIDE DEF S
  <2> QED BY <1>1, OrdinalsPart
<1> QED
  BY <1>2 DEF RoleUnready

\* The first index the loop of rollingUpdatePartition reads is in range.
LEMMA RollingStepPartitionRange ==
  ASSUME NEW n \in Nat, NEW step \in Nat, NEW ready, NEW updated
  PROVE  RollingStepPartition(n, step, ready, updated) \in 0 .. n
<1> DEFINE S == {i \in 0 .. n-1 : (i .. n-1) \subseteq ready \cap updated}
<1>1. S \subseteq 0 .. n-1
  OBVIOUS
<1>2. Cardinality(S) \in Nat
  <2> HIDE DEF S
  <2> QED BY <1>1, OrdinalsPart
<1>3. ContinuousReady(n, ready, updated) \in Nat
  BY <1>2 DEF ContinuousReady
<1> QED
  BY <1>3 DEF RollingStepPartition, NonZeroValue

\* rollingUpdatePartition returns a partition that is not above the current one.
LEMMA RollingUpdatePartitionRange ==
  ASSUME NEW n \in Nat, NEW step \in Nat, NEW current \in Nat,
         NEW ready, NEW updated
  PROVE  /\ RollingUpdatePartition(n, step, current, ready, updated) \in Nat
         /\ RollingUpdatePartition(n, step, current, ready, updated) <= current
<1> DEFINE floor == RollingStepPartition(n, step, ready, updated)
           below == (0 .. floor-1) \ ready
           start == floor + Cardinality(below)
           top   == MinOf(start, n - 1)
           R     == {i \in floor .. top : (i .. top) \cap (ready \ updated) = {}}
           run   == Cardinality(R)
<1>1. floor \in Nat
  <2>1. floor \in 0 .. n
    BY RollingStepPartitionRange
  <2> HIDE DEF floor
  <2> QED BY <2>1
<1>2. Cardinality(below) \in Nat
  <2>1. ASSUME NEW f \in Nat
        PROVE  Cardinality((0 .. f-1) \ ready) \in Nat
    <3> DEFINE S == (0 .. f-1) \ ready
    <3>1. S \subseteq 0 .. f-1
      OBVIOUS
    <3> HIDE DEF S
    <3>2. Cardinality(S) \in Nat
      BY <3>1, OrdinalsPart
    <3> QED BY <3>2 DEF S
  <2> HIDE DEF floor
  <2> QED BY <1>1, <2>1
<1>3. start \in Nat /\ top \in Int
  <2> HIDE DEF floor, below
  <2> QED BY <1>1, <1>2 DEF MinOf
<1>4. run \in Nat /\ run <= IF floor > top THEN 0 ELSE top - floor + 1
  <2>1. R \in SUBSET (floor .. top)
    OBVIOUS
  <2> HIDE DEF floor, top, R
  <2> QED BY <1>1, <1>3, <2>1, IntervalPart
<1>5. (IF run = 0 THEN start ELSE top + 1 - run) \in Nat
  <2> HIDE DEF floor, start, top, run
  <2> QED BY <1>1, <1>3, <1>4
<1>6. RollingUpdatePartition(n, step, current, ready, updated)
        = MinOf(IF run = 0 THEN start ELSE top + 1 - run, current)
  BY DEF RollingUpdatePartition
<1> HIDE DEF start, top, run
<1> QED
  BY <1>5, <1>6 DEF MinOf

-----------------------------------------------------------------------------
(* The inductive invariant. *)

IInv == TypeOK /\ ReplicasBounded

LEMMA SizeType ==
  ASSUME TypeOK
  PROVE  role.size \in Nat /\ role.template \in Templates
BY RolloutAssumption DEF TypeOK

\* What the cached client returns satisfies what the API server's copy does.
LEMMA CacheType ==
  ASSUME IInv
  PROVE  Sts \in StsState /\ Bounded(Sts)
BY DEF IInv, TypeOK, ReplicasBounded, Sts

\* In case 5 the step is a natural number: the StatefulSet has at least
\* "size" replicas, and the size is that of the role.
LEMMA RollingStepType ==
  ASSUME IInv, Sts.size = role.size
  PROVE  RollingStep \in Nat
<1>1. Sts.replicas \in Nat /\ role.size <= Sts.replicas
  BY CacheType DEF Bounded, StsState
<1>2. Surge(role.size) \in Nat /\ Unavailable(role.size) \in Nat /\ role.size \in Nat
  BY SizeType, StrategyType DEF IInv
<1> QED
  BY <1>1, <1>2 DEF RollingStep

LEMMA PartitionType ==
  ASSUME IInv
  PROVE  Partition \in Nat
<1>1. /\ Sts.replicas \in Nat /\ Sts.partition \in Nat
      /\ role.size \in Nat /\ Surge(role.size) \in Nat
  BY CacheType, SizeType, StrategyType DEF IInv, StsState
<1>2. CASE ~Sts.exists
  BY <1>2 DEF Partition, NeedsStates, StsUpdated
<1>3. CASE Sts.exists /\ StsUpdated
  BY <1>1, <1>3 DEF Partition, NeedsStates, MinOf
<1>4. CASE ~StsUpdated /\ RolloutDone
  BY <1>4 DEF Partition, NeedsStates, StsUpdated
<1>5. CASE NeedsStates /\ Sts.size # role.size
  <2>1. Partition = MinOf(Sts.partition, role.size + Surge(role.size))
    BY <1>5 DEF Partition, NeedsStates
  <2> QED BY <1>1, <2>1 DEF MinOf
<1>6. CASE NeedsStates /\ Sts.size = role.size
  <2>1. Partition = RollingUpdatePartition(Sts.replicas, RollingStep,
                      Sts.partition, ReadySeen, UpdatedSeen)
    BY <1>6 DEF Partition, NeedsStates
  <2>2. RollingStep \in Nat
    BY <1>6, RollingStepType
  <2> QED BY <1>1, <2>1, <2>2, RollingUpdatePartitionRange
<1> QED
  BY <1>2, <1>3, <1>4, <1>5, <1>6 DEF NeedsStates, StsUpdated

\* Whatever the case, the replica count asked for lies between the size of
\* the role and its burst size.
LEMMA ReplicasRange ==
  ASSUME IInv
  PROVE  /\ Replicas \in Nat
         /\ role.size <= Replicas
         /\ Replicas <= role.size + Surge(role.size)
<1>1. role.size \in Nat /\ Surge(role.size) \in Nat /\ Sts.replicas \in Nat
  BY CacheType, SizeType, StrategyType DEF IInv, StsState
<1>2. CASE ~Sts.exists
  BY <1>1, <1>2 DEF Replicas, NeedsStates, StsUpdated
<1>3. CASE Sts.exists /\ StsUpdated
  <2>1. Replicas = WantReplicas(role.size, role.size)
    BY <1>3 DEF Replicas, NeedsStates
  <2> QED BY <1>1, <2>1, WantReplicasRange
<1>4. CASE ~StsUpdated /\ RolloutDone
  BY <1>1, <1>4 DEF Replicas, NeedsStates, StsUpdated
<1>5. CASE NeedsStates
  <2>1. Replicas = WantReplicas(role.size, Unready)
    BY <1>5 DEF Replicas, NeedsStates
  <2>2. Unready \in Nat
    BY <1>1, RoleUnreadyType DEF Unready
  <2> QED BY <1>1, <2>1, <2>2, WantReplicasRange
<1> QED
  BY <1>2, <1>3, <1>4, <1>5 DEF NeedsStates, StsUpdated

-----------------------------------------------------------------------------
(* The actions. *)

LEMMA InitInv == Init => IInv
<1> SUFFICES ASSUME Init PROVE IInv
  OBVIOUS
<1>1. NoSts \in StsState /\ Bounded(NoSts)
  BY StrategyType DEF NoSts, StsState, Bounded
<1>2. pods \in [Ordinals -> PodState]
  BY DEF Init, NoPod, PodState, Phases
<1> QED
  BY <1>1, <1>2, RolloutAssumption
  DEF Init, IInv, TypeOK, ReplicasBounded

LEMMA PodType ==
  ASSUME NEW p \in Phases, NEW t \in Templates \cup {None}
  PROVE  Pod(p, t) \in PodState /\ NoPod \in PodState
BY DEF Pod, NoPod, PodState, Phases

\* The status written by a sync: only "ready" and "current" differ.
LEMMA WithStatusType ==
  ASSUME NEW s \in StsState, Bounded(s)
  PROVE  WithStatus(s) \in StsState /\ Bounded(WithStatus(s))
<1> DEFINE R == {i \in 0 .. MaxOrdinals-1 : pods[i].phase = "ready"}
<1>1. R \subseteq 0 .. MaxOrdinals-1
  OBVIOUS
<1>2. Cardinality(R) \in Nat
  <2> HIDE DEF R
  <2> QED BY <1>1, OrdinalsPart, RolloutAssumption
<1>3. \E c \in Templates \cup {None} :
        WithStatus(s) = [s EXCEPT !.ready = Cardinality(R), !.current = c]
  BY DEF WithStatus, ReadyPods, StsState, Ordinals
<1> QED
  <2> HIDE DEF R
  <2> QED BY <1>2, <1>3 DEF StsState, Bounded

\* A sync of the StatefulSet controller that leaves well-formed pods.
LEMMA StsSyncInv ==
  ASSUME IInv, NEW ps \in [Ordinals -> PodState], StsSync(ps)
  PROVE  IInv'
<1>1. sts \in StsState /\ Bounded(sts)
  BY DEF IInv, TypeOK, ReplicasBounded
<1>2. sts' \in StsState /\ Bounded(sts')
  BY <1>1, WithStatusType DEF StsSync, WriteSts
<1>3. queued' \in BOOLEAN
  BY DEF StsSync, WriteSts, IInv, TypeOK
<1> QED
  BY <1>2, <1>3 DEF IInv, TypeOK, ReplicasBounded, StsSync, Bounded

LEMMA EditInv == IInv /\ (Edit \/ OtherEvent) => IInv'
<1> SUFFICES ASSUME IInv, Edit \/ OtherEvent PROVE IInv'
  OBVIOUS
<1>1. CASE Edit
  <2>1. /\ role' \in [size : Sizes, template : Templates]
        /\ budget' \in [template : Nat, scale : Nat, evict : Nat, blip : Nat]
        /\ queued' \in BOOLEAN
    <3>1. CASE \E t \in Templates : EditTemplate(t)
      BY <3>1 DEF EditTemplate, IInv, TypeOK
    <3>2. CASE \E n \in Sizes : EditSize(n)
      BY <3>2 DEF EditSize, IInv, TypeOK
    <3> QED BY <1>1, <3>1, <3>2 DEF Edit
  <2>2. UNCHANGED <<sts, pods, stsSeen, podsSeen, revisionSeen>>
    BY <1>1 DEF Edit, EditTemplate, EditSize
  <2> QED
    BY <2>1, <2>2 DEF IInv, TypeOK, ReplicasBounded, Bounded
<1>2. CASE OtherEvent
  BY <1>2 DEF OtherEvent, IInv, TypeOK, ReplicasBounded, Bounded
<1> QED
  BY <1>1, <1>2

LEMMA ReconcileInv == IInv /\ Reconcile => IInv'
<1> SUFFICES ASSUME IInv, Reconcile PROVE IInv'
  OBVIOUS
<1>1. CASE Skip
  BY <1>1 DEF Reconcile, IInv, TypeOK, ReplicasBounded, Bounded
<1>2. CASE ~Skip
  <2>1. Patched \in StsState
    BY PartitionType, ReplicasRange, SizeType
    DEF Patched, IInv, TypeOK, StsState
  <2>2. Bounded(Patched)
    BY ReplicasRange DEF Patched, Bounded, IInv, TypeOK, StsState
  <2>3. sts' = Patched /\ queued' \in BOOLEAN
    BY <1>2 DEF Reconcile, WriteSts
  <2> HIDE DEF Patched
  <2> QED
    BY <2>1, <2>2, <2>3 DEF Reconcile, IInv, TypeOK, ReplicasBounded, Bounded
<1> QED
  BY <1>1, <1>2

LEMMA SyncInv == IInv /\ (SyncSts \/ SyncPods \/ SyncRevisions) => IInv'
<1> SUFFICES ASSUME IInv, SyncSts \/ SyncPods \/ SyncRevisions PROVE IInv'
  OBVIOUS
<1>1. CASE SyncSts
  BY <1>1 DEF SyncSts, IInv, TypeOK, ReplicasBounded, Bounded
<1>2. CASE SyncPods
  BY <1>2 DEF SyncPods, IInv, TypeOK, ReplicasBounded, Bounded
<1>3. CASE SyncRevisions
  BY <1>3 DEF SyncRevisions, IInv, TypeOK, ReplicasBounded, Bounded, StsState
<1> QED
  BY <1>1, <1>2, <1>3

LEMMA StsControllerInv == IInv /\ StsController => IInv'
<1> SUFFICES ASSUME IInv, StsController PROVE IInv'
  OBVIOUS
<1>1. /\ pods \in [Ordinals -> PodState]
      /\ sts.current \in Templates \cup {None}
      /\ sts.template \in Templates \cup {None}
      /\ NoPod \in PodState
      /\ \A t \in Templates \cup {None} : Pod("unready", t) \in PodState
  BY PodType DEF IInv, TypeOK, StsState, Phases
<1>2. CASE CreatePods
  <2> DEFINE ps == [i \in Ordinals |->
                     IF i \in Missing
                       THEN Pod("unready", IF i < sts.partition THEN sts.current
                                                               ELSE sts.template)
                       ELSE pods[i]]
  <2>1. ps \in [Ordinals -> PodState]
    BY <1>1
  <2>2. StsSync(ps)
    BY <1>2 DEF CreatePods
  <2> HIDE DEF ps
  <2> QED BY <2>1, <2>2, StsSyncInv
<1>3. CASE DeleteExcess
  <2> DEFINE ps == [i \in Ordinals |-> IF i \in Excess THEN NoPod ELSE pods[i]]
  <2>1. ps \in [Ordinals -> PodState]
    BY <1>1
  <2>2. StsSync(ps)
    BY <1>3 DEF DeleteExcess
  <2> HIDE DEF ps
  <2> QED BY <2>1, <2>2, StsSyncInv
<1>4. CASE UpdatePod
  <2>1. PICK i \in sts.partition .. sts.replicas-1 : StsSync([pods EXCEPT ![i] = NoPod])
    BY <1>4 DEF UpdatePod
  <2>2. [pods EXCEPT ![i] = NoPod] \in [Ordinals -> PodState]
    BY <1>1
  <2> QED BY <2>1, <2>2, StsSyncInv
<1>5. CASE UpdateStatus
  BY <1>1, <1>5, StsSyncInv DEF UpdateStatus
<1> QED
  BY <1>2, <1>3, <1>4, <1>5 DEF StsController

LEMMA KubeletInv == IInv /\ Kubelet => IInv'
<1> SUFFICES ASSUME IInv, NEW i \in Ordinals,
                    PodReady(i) \/ PodEvicted(i) \/ PodBlip(i)
             PROVE  IInv'
  BY DEF Kubelet
<1>1. pods \in [Ordinals -> PodState] /\ pods[i] \in PodState
  BY DEF IInv, TypeOK
<1>2. pods' \in [Ordinals -> PodState]
  <2>1. \A p \in Phases : [pods[i] EXCEPT !.phase = p] \in PodState
    BY <1>1 DEF PodState
  <2>2. \A p \in Phases : [pods EXCEPT ![i].phase = p] \in [Ordinals -> PodState]
    BY <1>1, <2>1
  <2>3. NoPod \in PodState
    BY DEF NoPod, PodState, Phases
  <2> QED
    BY <1>1, <2>2, <2>3 DEF PodReady, PodEvicted, PodBlip, Phases
<1>3. budget' \in [template : Nat, scale : Nat, evict : Nat, blip : Nat]
  BY DEF PodReady, PodEvicted, PodBlip, IInv, TypeOK
<1> QED
  BY <1>2, <1>3
  DEF PodReady, PodEvicted, PodBlip, IInv, TypeOK, ReplicasBounded, Bounded

LEMMA NextInv == IInv /\ [Next]_vars => IInv'
<1>1. IInv /\ UNCHANGED vars => IInv'
  BY DEF vars, IInv, TypeOK, ReplicasBounded, Bounded
<1> QED
  BY <1>1, EditInv, ReconcileInv, SyncInv, StsControllerInv, KubeletInv
  DEF Next, Controller

LEMMA Invariance == Spec => []IInv
BY InitInv, NextInv, PTL DEF Spec

-----------------------------------------------------------------------------
(* The theorems. *)

\* Type correctness of the rollout model.
THEOREM TypeCorrect == Spec => []TypeOK
<1>1. IInv => TypeOK
  BY DEF IInv
<1> QED
  BY <1>1, Invariance, PTL

\* The StatefulSet runs between the size it was patched for and that size
\* plus maxSurge, and so does the cached copy: for every strategy and every
\* interleaving of edits, failures and cache lag.
THEOREM ReplicasStayBounded == Spec => []ReplicasBounded
<1>1. IInv => ReplicasBounded
  BY DEF IInv
<1> QED
  BY <1>1, Invariance, PTL

\* rollingUpdatePartition never indexes the states slice out of range.
THEOREM NeverOutOfRange == Spec => []IndexInRange
<1>1. IInv => IndexInRange
  <2> SUFFICES ASSUME IInv, Sts.size = role.size
               PROVE  RollingStepPartition(Sts.replicas, RollingStep, ReadySeen,
                                           UpdatedSeen) \in 0 .. Sts.replicas
    BY DEF IndexInRange
  <2> QED
    BY RollingStepType, RollingStepPartitionRange, CacheType DEF StsState
<1> QED
  BY <1>1, Invariance, PTL

\* With a StatefulSet informer that keeps up, the partition only falls
\* within one rollout.
THEOREM PartitionOnlyFalls == "sts" \notin Lag => (Spec => PartitionFalls)
<1> SUFFICES ASSUME "sts" \notin Lag PROVE Spec => PartitionFalls
  OBVIOUS
<1> DEFINE Falls == (sts.exists /\ sts'.template = sts.template /\ sts'.size = sts.size)
                      => sts'.partition <= sts.partition
<1>1. IInv /\ [Next]_vars => Falls
  <2> SUFFICES ASSUME IInv, [Next]_vars PROVE Falls
    OBVIOUS
  <2>0. sts \in StsState /\ sts.partition \in Nat
    BY DEF IInv, TypeOK, StsState
  <2>1. CASE UNCHANGED sts
    BY <2>0, <2>1
  <2>2. CASE \E ps : StsSync(ps)
    <3>1. sts' = WithStatus(sts)
      BY <2>2 DEF StsSync, WriteSts
    <3>2. sts'.partition = sts.partition
      BY <2>0, <3>1 DEF WithStatus, StsState
    <3> QED BY <2>0, <3>2
  <2>3. CASE Reconcile /\ ~Skip
    <3> SUFFICES ASSUME sts.exists, sts'.template = sts.template, sts'.size = sts.size
                 PROVE  sts'.partition <= sts.partition
      OBVIOUS
    <3>1. sts' = Patched /\ Sts = sts
      BY <2>3 DEF Reconcile, WriteSts, Sts
    <3>2. sts'.partition = Partition /\ role.template = sts.template /\ role.size = sts.size
      BY <2>0, <3>1 DEF Patched, StsState
    <3>3. ~StsUpdated
      BY <3>1, <3>2 DEF StsUpdated
    <3>4. CASE RolloutDone
      BY <2>0, <3>2, <3>3, <3>4, <3>1 DEF Partition, NeedsStates, StsUpdated
    <3>5. CASE ~RolloutDone
      <4>1. NeedsStates /\ Sts.size = role.size
        BY <3>1, <3>2, <3>3, <3>5 DEF NeedsStates
      <4>2. Partition = RollingUpdatePartition(Sts.replicas, RollingStep,
                          Sts.partition, ReadySeen, UpdatedSeen)
        BY <4>1 DEF Partition, NeedsStates
      <4>3. RollingStep \in Nat /\ Sts.replicas \in Nat /\ Sts.partition \in Nat
        BY <4>1, RollingStepType, CacheType DEF StsState
      <4> QED BY <3>1, <3>2, <4>2, <4>3, RollingUpdatePartitionRange
    <3> QED BY <3>4, <3>5
  <2> QED
    BY <2>1, <2>2, <2>3
    DEF Next, vars, Edit, EditTemplate, EditSize, OtherEvent, Controller,
        SyncSts, SyncPods, SyncRevisions, Reconcile, StsController, CreatePods,
        DeleteExcess, UpdatePod, UpdateStatus, Kubelet, PodReady, PodEvicted, PodBlip
<1> QED
  BY <1>1, Invariance, PTL DEF Spec, PartitionFalls
-----------------------------------------------------------------------------
(* The size annotation. *)

\* The replica counts a rollout of a role of size n passes through.
BurstSizes(n) == {WantReplicas(n, unready) : unready \in 0 .. n}

\* Whoever has made the StatefulSet gave it a size the role has had, and one
\* of that size's replica counts.
Sized ==
  /\ sts.exists => sts.size \in Sizes /\ sts.replicas \in BurstSizes(sts.size)
  /\ ~sts.exists => sts.size = 0

\* The inductive invariant for SizeCaughtUp.
SizeInv == IInv /\ Sized /\ SizeCaughtUp

\* A rollout of size n may run n replicas.
LEMMA OwnBurstSize ==
  ASSUME NEW n \in Nat
  PROVE  n \in BurstSizes(n)
<1>1. Surge(n) \in Nat
  BY StrategyType
<1>2. WantReplicas(n, 0) = n
  BY <1>1 DEF WantReplicas, NonZeroValue
<1> QED
  BY <1>2 DEF BurstSizes

\* The unready replicas of the role are no more than the role has.
LEMMA RoleUnreadyRange ==
  ASSUME NEW n \in Nat, NEW k \in Nat, NEW ready, NEW updated
  PROVE  RoleUnready(n, k, ready, updated) \in 0 .. n
<1> DEFINE S == {i \in 0 .. n-1 : i >= k \/ i \notin ready \cap updated}
<1>1. S \in SUBSET (0 .. n-1)
  OBVIOUS
<1>2. Cardinality(S) \in 0 .. n
  <2> HIDE DEF S
  <2>1. 0 \in Int /\ n-1 \in Int
    OBVIOUS
  <2>2. /\ Cardinality(S) \in Nat
        /\ Cardinality(S) <= IF 0 > n-1 THEN 0 ELSE n-1 - 0 + 1
    BY <1>1, <2>1, IntervalPart, Zenon
  <2>3. (IF 0 > n-1 THEN 0 ELSE n-1 - 0 + 1) = n
    OBVIOUS
  <2> QED BY <2>2, <2>3
<1> QED
  BY <1>2 DEF RoleUnready

\* The patched replica count belongs to the size of the role.
LEMMA ReplicasBurst ==
  ASSUME IInv
  PROVE  Replicas \in BurstSizes(role.size)
<1>1. role.size \in Nat /\ Sts.replicas \in Nat
  BY CacheType, SizeType DEF IInv, StsState
<1>2. CASE ~Sts.exists
  BY <1>1, <1>2, OwnBurstSize DEF Replicas, NeedsStates, StsUpdated
<1>3. CASE Sts.exists /\ StsUpdated
  <2>1. Replicas = WantReplicas(role.size, role.size)
    BY <1>3 DEF Replicas, NeedsStates
  <2> QED BY <1>1, <2>1 DEF BurstSizes
<1>4. CASE ~StsUpdated /\ RolloutDone
  BY <1>1, <1>4, OwnBurstSize DEF Replicas, NeedsStates, StsUpdated
<1>5. CASE NeedsStates
  <2>1. Replicas = WantReplicas(role.size, Unready)
    BY <1>5 DEF Replicas, NeedsStates
  <2>2. Unready \in 0 .. role.size
    BY <1>1, RoleUnreadyRange DEF Unready
  <2> QED BY <2>1, <2>2 DEF BurstSizes
<1> QED
  BY <1>2, <1>3, <1>4, <1>5 DEF NeedsStates, StsUpdated

\* A step that changes neither the StatefulSet's spec nor the role, and takes
\* the key out of no queue.
LEMMA SizeKept ==
  ASSUME SizeInv, queued => queued',
         sts'.exists = sts.exists, sts'.size = sts.size, sts'.replicas = sts.replicas,
         queued' \/ role'.size = role.size
  PROVE  (Sized /\ SizeCaughtUp)'
BY DEF SizeInv, Sized, SizeCaughtUp, BurstSizes

\* The status changes nothing of the spec.
LEMMA StatusKeepsSpec ==
  ASSUME IInv
  PROVE  LET new == WithStatus(sts)
         IN  /\ new.exists = sts.exists /\ new.size = sts.size
             /\ new.replicas = sts.replicas /\ new.partition = sts.partition
             /\ new.template = sts.template
BY DEF IInv, TypeOK, WithStatus, StsState

\* A pass that writes nothing has found the role's own replica count, and that
\* belongs to the size of the StatefulSet's annotation.
LEMMA SizeReconcile ==
  ASSUME "sts" \notin Lag,
         \A m, n \in Sizes : n \in BurstSizes(m) => n = m,
         SizeInv, Reconcile
  PROVE  (Sized /\ SizeCaughtUp)'
<1>1. Sts = sts
  BY DEF Sts
<1>2. role.size \in Sizes /\ role'.size = role.size
  BY DEF SizeInv, IInv, TypeOK, Reconcile
<1>3. CASE Skip
  <2>1. sts' = sts /\ sts.exists /\ sts.replicas = role.size
    BY <1>1, <1>3 DEF Reconcile, Skip, StsUpdated
  <2>2. sts.size = role.size
    BY <1>2, <2>1 DEF SizeInv, Sized
  <2> QED
    BY <1>2, <2>1, <2>2 DEF SizeInv, Sized, SizeCaughtUp, BurstSizes
<1>4. CASE ~Skip
  <2>1. sts' = Patched /\ sts \in StsState
    BY <1>4 DEF Reconcile, WriteSts, SizeInv, IInv, TypeOK
  <2>2. sts'.exists /\ sts'.size = role.size /\ sts'.replicas = Replicas
    BY <2>1 DEF Patched, StsState
  <2>3. Replicas \in BurstSizes(role.size)
    BY ReplicasBurst DEF SizeInv
  <2> QED
    BY <1>2, <2>2, <2>3 DEF Sized, SizeCaughtUp, BurstSizes
<1> QED
  BY <1>3, <1>4

\* SizeInv is inductive.
LEMMA SizeStep ==
  ASSUME "sts" \notin Lag,
         \A m, n \in Sizes : n \in BurstSizes(m) => n = m
  PROVE  SizeInv /\ [Next]_vars => SizeInv'
<1> SUFFICES ASSUME SizeInv, [Next]_vars PROVE SizeInv'
  OBVIOUS
<1>1. IInv'
  BY NextInv DEF SizeInv
<1>2. CASE Reconcile
  BY <1>1, <1>2, SizeReconcile DEF SizeInv
<1>3. CASE Edit \/ OtherEvent
  <2>1. queued' /\ sts' = sts
    BY <1>3 DEF Edit, EditTemplate, EditSize, OtherEvent
  <2> QED BY <1>1, <2>1, SizeKept DEF SizeInv
<1>4. CASE StsController
  <2>1. \E ps : StsSync(ps)
    BY <1>4 DEF StsController, CreatePods, DeleteExcess, UpdatePod, UpdateStatus
  <2>2. sts' = WithStatus(sts) /\ role' = role /\ (queued => queued')
    BY <2>1 DEF StsSync, WriteSts
  <2>3. sts'.exists = sts.exists /\ sts'.size = sts.size /\ sts'.replicas = sts.replicas
    BY <2>2, StatusKeepsSpec DEF SizeInv
  <2> QED BY <1>1, <2>2, <2>3, SizeKept DEF SizeInv
<1>5. CASE SyncSts \/ SyncPods \/ SyncRevisions \/ Kubelet \/ UNCHANGED vars
  <2>1. sts' = sts /\ role' = role /\ (queued => queued')
    BY <1>5 DEF SyncSts, SyncPods, SyncRevisions, Kubelet, PodReady, PodEvicted, PodBlip, vars
  <2> QED BY <1>1, <2>1, SizeKept DEF SizeInv
<1> QED
  BY <1>2, <1>3, <1>4, <1>5 DEF Next, Controller

\* At the start there is no StatefulSet.
LEMMA SizeInit == Init => SizeInv
<1> SUFFICES ASSUME Init PROVE SizeInv
  OBVIOUS
<1>1. ~sts.exists /\ sts.size = 0
  BY DEF Init, NoSts
<1> QED
  BY <1>1, InitInv DEF SizeInv, Sized, SizeCaughtUp

\* A role that has come up satisfies the same invariant.
LEMMA EstablishedInv == EstablishedInit => SizeInv
<1> SUFFICES ASSUME EstablishedInit PROVE SizeInv
  OBVIOUS
<1>1. role.size \in Sizes /\ role.size \in Nat /\ role.template \in Templates
      /\ role \in [size : Sizes, template : Templates]
  BY RolloutAssumption DEF EstablishedInit
<1>2. /\ sts = [exists |-> TRUE, template |-> role.template, replicas |-> role.size,
                size |-> role.size, partition |-> 0, ready |-> role.size,
                current |-> role.template]
      /\ stsSeen = sts
  BY DEF EstablishedInit
<1>3. sts \in StsState /\ sts.exists /\ sts.size = role.size /\ sts.replicas = role.size
  BY <1>1, <1>2 DEF StsState
<1>4. pods \in [Ordinals -> PodState] /\ podsSeen = pods
  BY <1>1 DEF EstablishedInit, Pod, NoPod, PodState, Phases
<1>5. Bounded(sts) /\ Bounded(stsSeen)
  BY <1>1, <1>2, <1>3, StrategyType DEF Bounded
<1>6. TypeOK
  BY <1>1, <1>2, <1>3, <1>4, RolloutAssumption DEF EstablishedInit, TypeOK
<1>7. Sized /\ SizeCaughtUp
  BY <1>1, <1>3, OwnBurstSize DEF Sized, SizeCaughtUp
<1> QED
  BY <1>5, <1>6, <1>7 DEF SizeInv, IInv, ReplicasBounded

\* With a StatefulSet informer that keeps up, and role sizes none of which is
\* a replica count on the way of another one's rollout, the key leaves the
\* queue only when the size annotation is the size of the role: a rollout never
\* comes to rest in case 4 of rollingUpdateParameters.
THEOREM SizeCatchesUp ==
  ASSUME "sts" \notin Lag,
         \A m, n \in Sizes : n \in BurstSizes(m) => n = m
  PROVE  (Spec => []SizeCaughtUp) /\ (EstablishedSpec => []SizeCaughtUp)
<1>1. (Init => SizeInv) /\ (EstablishedInit => SizeInv)
  BY SizeInit, EstablishedInv
<1>2. SizeInv /\ [Next]_vars => SizeInv'
  BY SizeStep
<1>3. SizeInv => SizeCaughtUp
  BY DEF SizeInv
<1> QED
  BY <1>1, <1>2, <1>3, PTL DEF Spec, EstablishedSpec
-----------------------------------------------------------------------------
(* What a reconcile exposes. *)

\* The loop of calculateContinuousReadyReplicas finds the finished tail.
LEMMA FinishedTail ==
  ASSUME NEW n \in Nat, NEW ready, NEW updated
  PROVE  LET k == ContinuousReady(n, ready, updated)
         IN  /\ k \in 0 .. n
             /\ \A i \in 0 .. n-1 : i >= n - k <=> (i .. n-1) \subseteq ready \cap updated
<1> DEFINE T == {i \in 0 .. n-1 : (i .. n-1) \subseteq ready \cap updated}
           k == Cardinality(T)
<1>1. IsFiniteSet(0 .. n-1) /\ Cardinality(0 .. n-1) = n
  BY FS_Interval
<1>2. T \subseteq 0 .. n-1
  OBVIOUS
<1>3. IsFiniteSet(T) /\ k \in 0 .. n
  <2> HIDE DEF T
  <2>1. IsFiniteSet(T) /\ k <= n
    BY <1>1, <1>2, FS_Subset
  <2> QED BY <2>1, FS_CardinalityType
<1>4. \A i \in T : i .. n-1 \subseteq T
  OBVIOUS
<1> HIDE DEF T
<1>5. ASSUME NEW i \in T PROVE i >= n - k
  <2>1. i \in 0 .. n-1 /\ (i .. n-1) \subseteq T
    BY <1>2, <1>4
  <2>2. Cardinality(i .. n-1) = n - i
    BY <2>1, FS_Interval
  <2>3. Cardinality(i .. n-1) <= k
    BY <1>3, <2>1, FS_Subset
  <2> QED BY <1>3, <2>1, <2>2, <2>3
<1>6. T = n-k .. n-1
  <2>1. T \subseteq n-k .. n-1
    BY <1>2, <1>3, <1>5
  <2>2. n-k \in Int /\ n-1 \in Int
    BY <1>3
  <2>3. /\ IsFiniteSet(n-k .. n-1)
        /\ Cardinality(n-k .. n-1) = IF n-k > n-1 THEN 0 ELSE (n-1) - (n-k) + 1
    BY <2>2, FS_Interval, Zenon
  <2>4. Cardinality(n-k .. n-1) = k
    BY <1>3, <2>3
  <2> QED BY <2>1, <2>3, <2>4, FS_Subset
<1>7. \A i \in 0 .. n-1 : i >= n - k <=> i \in T
  BY <1>3, <1>6
<1> QED
  BY <1>3, <1>7 DEF T, ContinuousReady

\* With a step of one, the partition falls below a ready outdated replica only
\* when every other replica below is ready and every one above is finished.
LEMMA OneAtATime ==
  ASSUME NEW n \in Nat, NEW current \in Nat, NEW ready, NEW updated,
         NEW e \in 0 .. n-1, e \in ready, e \notin updated, e < current,
         RollingUpdatePartition(n, 1, current, ready, updated) <= e
  PROVE  /\ RollingUpdatePartition(n, 1, current, ready, updated) = e
         /\ \A i \in 0 .. e-1 : i \in ready
         /\ \A i \in e+1 .. n-1 : i \in ready \cap updated
<1> DEFINE k     == ContinuousReady(n, ready, updated)
           floor == RollingStepPartition(n, 1, ready, updated)
           below == (0 .. floor-1) \ ready
           start == floor + Cardinality(below)
           top   == MinOf(start, n - 1)
           R     == {i \in floor .. top : (i .. top) \cap (ready \ updated) = {}}
           run   == Cardinality(R)
           q     == IF run = 0 THEN start ELSE top + 1 - run
<1>1. k \in 0 .. n /\ \A i \in 0 .. n-1 : i >= n - k <=> (i .. n-1) \subseteq ready \cap updated
  BY FinishedTail
<1>2. e < n - k
  <2> HIDE DEF k
  <2> QED BY <1>1
<1>3. floor = n - k - 1
  <2>1. floor = NonZeroValue(n - k - 1)
    BY DEF RollingStepPartition
  <2> HIDE DEF k, floor
  <2> QED BY <1>1, <1>2, <2>1 DEF NonZeroValue
<1>4. floor \in Nat /\ e <= floor /\ floor <= n - 1
  <2> HIDE DEF k, floor
  <2> QED BY <1>1, <1>2, <1>3
<1>5. IsFiniteSet(below) /\ Cardinality(below) \in Nat
  <2>1. below \in SUBSET (0 .. floor-1)
    OBVIOUS
  <2> HIDE DEF floor, below
  <2>2. 0 \in Int /\ floor-1 \in Int
    BY <1>4
  <2>3. IsFiniteSet(0 .. floor-1)
    BY <2>2, FS_Interval, Zenon
  <2> QED BY <2>1, <2>3, FS_Subset, FS_CardinalityType
<1>6. start \in Nat /\ top \in Nat /\ start >= floor /\ top >= floor
  <2> HIDE DEF floor, below
  <2> QED BY <1>4, <1>5 DEF MinOf
<1>7. R \subseteq floor .. top
  OBVIOUS
<1>8. run \in Nat /\ run <= top - floor + 1
  <2> HIDE DEF floor, start, top, R
  <2> QED BY <1>4, <1>6, <1>7, IntervalPart
<1>9. RollingUpdatePartition(n, 1, current, ready, updated) = MinOf(q, current)
  BY DEF RollingUpdatePartition
<1>10. q \in Nat /\ q >= floor
  <2> HIDE DEF floor, start, top, R, run
  <2> QED BY <1>4, <1>6, <1>8
<1>11. RollingUpdatePartition(n, 1, current, ready, updated) = q /\ q <= e
  <2> HIDE DEF q
  <2> QED BY <1>9, <1>10 DEF MinOf
<1>12. e = floor /\ q = e
  <2> HIDE DEF floor, q
  <2> QED BY <1>4, <1>10, <1>11
<1>13. below = {}
  <2> SUFFICES ASSUME below # {} PROVE FALSE
    OBVIOUS
  <2>1. Cardinality(below) >= 1
    <3> HIDE DEF below
    <3> QED BY <1>5, FS_EmptySet
  <2>2. start > floor
    <3> HIDE DEF floor, below
    <3> QED BY <1>4, <1>5, <2>1
  <2>3. floor \notin R
    <3> HIDE DEF floor, top
    <3>1. floor \in (floor .. top) \cap (ready \ updated)
      BY <1>4, <1>6, <1>12
    <3> QED BY <3>1
  <2>4. R \subseteq floor+1 .. top
    <3> HIDE DEF floor, top, R
    <3> QED BY <1>4, <1>6, <1>7, <2>3
  <2>5. run <= IF floor+1 > top THEN 0 ELSE top - (floor+1) + 1
    <3> HIDE DEF floor, top, R
    <3>1. floor+1 \in Int /\ top \in Int /\ R \in SUBSET (floor+1 .. top)
      BY <1>4, <1>6, <2>4
    <3> QED BY <3>1, IntervalPart, Zenon
  <2>6. q > floor
    <3> HIDE DEF floor, start, top, R, run
    <3> QED BY <1>4, <1>6, <1>8, <2>2, <2>5
  <2> HIDE DEF floor, q
  <2> QED BY <1>4, <1>10, <1>12, <2>6
<1>14. \A i \in 0 .. e-1 : i \in ready
  <2> HIDE DEF floor
  <2> QED BY <1>12, <1>13
<1>15. ASSUME NEW i \in e+1 .. n-1 PROVE i \in ready \cap updated
  <2> HIDE DEF k, floor
  <2>1. i \in 0 .. n-1 /\ i >= n - k
    BY <1>1, <1>3, <1>12
  <2>2. (i .. n-1) \subseteq ready \cap updated
    BY <1>1, <2>1
  <2> QED BY <2>1, <2>2
<1> QED
  BY <1>11, <1>12, <1>14, <1>15

\* Without a surge the StatefulSet runs exactly at its size.
LEMMA NoSurge ==
  ASSUME MaxSurge.value = 0, NEW n \in Nat
  PROVE  Scaled(MaxSurge, n, TRUE) = 0 /\ Surge(n) = 0
<1>1. (0 * n + 99) \div 100 = 0
  <2>1. 0 * n + 99 = 99
    OBVIOUS
  <2> QED BY <2>1
<1>2. Scaled(MaxSurge, n, TRUE) = 0
  BY <1>1 DEF Scaled
<1>3. Surge(n) = MinOf(0, n)
  BY <1>2 DEF Surge
<1>4. MinOf(0, n) = 0
  BY DEF MinOf
<1> QED
  BY <1>2, <1>3, <1>4

\* A StatefulSet that does not exist has no size.
ExposureInv == IInv /\ (~sts.exists => sts.size = 0)

\* The step exposes a further ready replica, at the same size.
Exposes == sts'.size = sts.size /\ Exposed(sts') \ Exposed(sts) # {}

\* What a reconcile that exposes a further ready replica has found: the
\* StatefulSet at its size, one outdated replica, and all others ready.
LEMMA ExposingPass ==
  ASSUME Lag = {}, MaxSurge.value = 0, Unavailable(role.size) <= 1,
         ExposureInv, Reconcile, Exposes, role.size # 0
  PROVE  \E e \in 0 .. role.size-1 :
           \A i \in 0 .. role.size-1 : i # e => i \in ReadyPods \ Exposed(sts')
<1> DEFINE n == role.size
<1>1. /\ n \in Nat /\ sts \in StsState /\ role.template \in Templates
      /\ Surge(n) = 0 /\ Surge(sts.size) = 0
      /\ Unavailable(n) = 1
  <2>1. n \in Nat /\ sts \in StsState /\ role.template \in Templates /\ sts.size \in Nat
    BY SizeType DEF ExposureInv, IInv, TypeOK, StsState
  <2>2. Surge(n) = 0 /\ Surge(sts.size) = 0 /\ Scaled(MaxSurge, n, TRUE) = 0
    BY <2>1, NoSurge
  <2>3. Unavailable(n) # 0 /\ Unavailable(n) \in Nat
    BY <2>1, <2>2, StrategyType DEF Reconcile, StrategyValid
  <2> QED BY <2>1, <2>2, <2>3
<1>2. Sts = sts /\ Pods = pods /\ Revision = sts.template
  BY DEF Sts, Pods, Revision
<1>3. ~Skip
  BY DEF Exposes, Exposed, Reconcile
<1>4. sts' = Patched
  BY <1>3 DEF Reconcile, WriteSts
<1>5. /\ sts'.size = n /\ sts'.replicas = Replicas /\ sts'.partition = Partition
      /\ sts'.template = role.template
  BY <1>1, <1>4 DEF Patched, StsState
<1>6. sts.size = n /\ sts.exists
  BY <1>5 DEF Exposes, ExposureInv
<1>7. sts.replicas = n /\ sts'.replicas = n
  <2>1. sts.replicas \in Nat /\ sts.size <= sts.replicas /\ sts.replicas <= sts.size + Surge(sts.size)
    BY <1>1 DEF ExposureInv, IInv, ReplicasBounded, Bounded, StsState
  <2>2. Replicas \in Nat /\ n <= Replicas /\ Replicas <= n + Surge(n)
    BY ReplicasRange DEF ExposureInv
  <2> QED BY <1>1, <1>5, <1>6, <2>1, <2>2
<1>8. PICK e : e \in Exposed(sts') /\ e \notin Exposed(sts)
  BY DEF Exposes
<1>9. e \in ReadyPods /\ e \in Ordinals /\ pods[e].phase = "ready"
  BY <1>8 DEF Exposed, ReadyPods
<1>10. e \in 0 .. n-1
  BY <1>1, <1>7, <1>8, <1>9, RolloutAssumption DEF Exposed, Ordinals
<1>11. e >= sts'.partition /\ pods[e].template # role.template
  BY <1>1, <1>5, <1>7, <1>8, <1>10 DEF Exposed
<1>12. ~StsUpdated
  <2> SUFFICES ASSUME StsUpdated PROVE FALSE
    OBVIOUS
  <2>1. Partition = MinOf(n, n)
    BY <1>2, <1>6, <1>7 DEF Partition, NeedsStates
  <2> QED BY <1>1, <1>5, <1>10, <1>11, <2>1 DEF MinOf
<1>13. sts.template = role.template
  BY <1>2, <1>12 DEF StsUpdated
<1>14. e < sts.partition
  BY <1>1, <1>8, <1>9, <1>10, <1>11, <1>13 DEF Exposed, StsState
<1>15. NeedsStates
  <2>1. sts.partition # 0
    BY <1>10, <1>14
  <2> QED BY <1>2, <1>6, <1>12, <2>1 DEF NeedsStates, RolloutDone
<1>16. RollingStep = 1
  BY <1>1, <1>2, <1>7 DEF RollingStep
<1>17. /\ Partition = RollingUpdatePartition(n, 1, sts.partition, ReadySeen, UpdatedSeen)
       /\ sts.partition \in Nat
  BY <1>1, <1>2, <1>6, <1>7, <1>15, <1>16 DEF Partition, NeedsStates, StsState
<1>18. ReadySeen = ReadyPods
  BY <1>2 DEF ReadySeen, ReadyPods
<1>19. e \in ReadySeen /\ e \notin UpdatedSeen
  BY <1>2, <1>9, <1>11, <1>13, <1>18 DEF UpdatedSeen
<1>20. /\ Partition = e
       /\ \A i \in 0 .. e-1 : i \in ReadySeen
       /\ \A i \in e+1 .. n-1 : i \in ReadySeen \cap UpdatedSeen
  <2> HIDE DEF n
  <2>1. RollingUpdatePartition(n, 1, sts.partition, ReadySeen, UpdatedSeen) <= e
    BY <1>5, <1>11, <1>17
  <2> QED BY <1>1, <1>10, <1>14, <1>17, <1>19, <2>1, OneAtATime
<1>21. ASSUME NEW i \in 0 .. n-1, i # e PROVE i \in ReadyPods \ Exposed(sts')
  <2>1. i \in 0 .. e-1 \/ i \in e+1 .. n-1
    BY <1>1, <1>10, <1>21
  <2>2. i \in ReadyPods /\ ~(i >= sts'.replicas)
    BY <1>1, <1>7, <1>18, <1>20, <2>1
  <2>3. CASE i \in 0 .. e-1
    BY <1>5, <1>10, <1>20, <2>2, <2>3 DEF Exposed
  <2>4. CASE i \in e+1 .. n-1
    <3>1. pods[i].template = sts'.template
      BY <1>2, <1>5, <1>13, <1>20, <2>4 DEF UpdatedSeen
    <3> QED BY <2>2, <3>1 DEF Exposed
  <2> QED BY <2>1, <2>3, <2>4
<1> QED
  BY <1>10, <1>21

\* Counted: all replicas but one stay, and the strategy allows one to be missing.
LEMMA ExposureLeaves ==
  ASSUME Lag = {}, MaxSurge.value = 0, Unavailable(role.size) <= 1,
         ExposureInv, Reconcile, Exposes
  PROVE  Cardinality(ReadyPods \ Exposed(sts')) >= role.size - Unavailable(role.size)
<1> DEFINE n == role.size
           P == ReadyPods \ Exposed(sts')
<1>1. n \in Nat /\ Unavailable(n) \in Nat
  BY SizeType, StrategyType DEF ExposureInv, IInv
<1>2. IsFiniteSet(P) /\ Cardinality(P) \in Nat
  <2>1. IsFiniteSet(Ordinals)
    BY RolloutAssumption, FS_Interval DEF Ordinals
  <2>2. P \subseteq Ordinals
    BY DEF ReadyPods
  <2> HIDE DEF P
  <2> QED BY <2>1, <2>2, FS_Subset, FS_CardinalityType
<1>3. CASE n = 0
  <2> HIDE DEF P
  <2> QED BY <1>1, <1>2, <1>3 DEF P
<1>4. CASE n # 0
  <2>1. PICK e \in 0 .. n-1 : \A i \in 0 .. n-1 : i # e => i \in P
    BY <1>4, ExposingPass
  <2>2. Unavailable(n) = 1
    <3>1. Scaled(MaxSurge, n, TRUE) = 0
      BY <1>1, NoSurge
    <3>2. Unavailable(n) # 0
      BY <3>1 DEF Reconcile, StrategyValid
    <3> QED BY <1>1, <3>2
  <2>3. IsFiniteSet(0 .. n-1) /\ Cardinality(0 .. n-1) = n
    <3> HIDE DEF n
    <3>1. 0 \in Int /\ n-1 \in Int
      BY <1>1
    <3>2. /\ IsFiniteSet(0 .. n-1)
          /\ Cardinality(0 .. n-1) = IF 0 > n-1 THEN 0 ELSE (n-1) - 0 + 1
      BY <3>1, FS_Interval, Zenon
    <3> QED BY <1>1, <1>4, <3>2
  <2>4. Cardinality((0 .. n-1) \ {e}) = n - 1
    <3> HIDE DEF n
    <3>1. Cardinality((0 .. n-1) \ {e})
            = IF e \in 0 .. n-1 THEN Cardinality(0 .. n-1) - 1 ELSE Cardinality(0 .. n-1)
      BY <2>3, FS_RemoveElement, Zenon
    <3> QED BY <2>1, <2>3, <3>1
  <2>5. (0 .. n-1) \ {e} \subseteq P
    <3> HIDE DEF P
    <3> QED BY <2>1
  <2>6. n - 1 <= Cardinality(P)
    <3> HIDE DEF P
    <3> QED BY <1>2, <2>4, <2>5, FS_Subset
  <2> HIDE DEF P
  <2> QED BY <1>1, <1>2, <2>2, <2>6 DEF P
<1> QED
  BY <1>3, <1>4

\* A step that leaves the StatefulSet's spec exposes nothing.
LEMMA SpecKeptExposesNothing ==
  ASSUME sts'.replicas = sts.replicas, sts'.partition = sts.partition,
         sts'.template = sts.template
  PROVE  ~Exposes
BY DEF Exposes, Exposed

\* Only a reconcile exposes a replica.
LEMMA ExposureStep ==
  ASSUME Lag = {}, MaxSurge.value = 0, \A n \in Sizes : Unavailable(n) <= 1,
         ExposureInv, [Next]_vars
  PROVE  /\ ExposureInv'
         /\ Exposes => Cardinality(ReadyPods \ Exposed(sts'))
                         >= role.size - Unavailable(role.size)
<1>1. IInv' /\ sts \in StsState /\ role.size \in Sizes
  BY NextInv DEF ExposureInv, IInv, TypeOK
<1>2. CASE Reconcile
  <2>1. ~sts'.exists => sts'.size = 0
    BY <1>1, <1>2 DEF Reconcile, WriteSts, Patched, StsState, ExposureInv
  <2> QED
    BY <1>1, <1>2, <2>1, ExposureLeaves DEF ExposureInv
<1>3. CASE StsController
  <2>1. \E ps : StsSync(ps)
    BY <1>3 DEF StsController, CreatePods, DeleteExcess, UpdatePod, UpdateStatus
  <2>2. sts' = WithStatus(sts)
    BY <2>1 DEF StsSync, WriteSts
  <2>3. /\ sts'.exists = sts.exists /\ sts'.size = sts.size /\ sts'.replicas = sts.replicas
        /\ sts'.partition = sts.partition /\ sts'.template = sts.template
    BY <2>2, StatusKeepsSpec DEF ExposureInv
  <2> QED BY <1>1, <2>3, SpecKeptExposesNothing DEF ExposureInv
<1>4. CASE Edit \/ OtherEvent \/ SyncSts \/ SyncPods \/ SyncRevisions \/ Kubelet \/ UNCHANGED vars
  <2>1. sts' = sts
    BY <1>4 DEF Edit, EditTemplate, EditSize, OtherEvent, SyncSts, SyncPods, SyncRevisions,
                Kubelet, PodReady, PodEvicted, PodBlip, vars
  <2> QED BY <1>1, <2>1, SpecKeptExposesNothing DEF ExposureInv
<1> QED
  BY <1>2, <1>3, <1>4 DEF Next, Controller

\* With informers that keep up, no surge and one replica allowed to be
\* unavailable, a reconcile exposes a further ready replica only when all the
\* others stay ready and out of reach: for every size and template edit, and
\* whatever evictions, failed probes and bad templates have left of the pods.
THEOREM ExposureStaysBounded ==
  ASSUME Lag = {}, MaxSurge.value = 0, \A n \in Sizes : Unavailable(n) <= 1
  PROVE  Spec => ExposureBounded
<1>1. Init => ExposureInv
  BY InitInv DEF ExposureInv, Init, NoSts
<1>2. ExposureInv /\ [Next]_vars => ExposureInv'
  BY ExposureStep
<1>3. ExposureInv /\ [Next]_vars =>
        ((sts'.size = sts.size /\ Exposed(sts') \ Exposed(sts) # {}) =>
           Cardinality(ReadyPods \ Exposed(sts')) >= role.size - Unavailable(role.size))
  BY ExposureStep DEF Exposes
<1>4. UNCHANGED vars => UNCHANGED <<role, sts>>
  BY DEF vars
<1> QED
  BY <1>1, <1>2, <1>3, <1>4, PTL DEF Spec, ExposureBounded
=============================================================================
