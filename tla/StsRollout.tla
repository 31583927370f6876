----------------------------- MODULE StsRollout -----------------------------
(***************************************************************************)
(* The rolling update of one role whose workload is a StatefulSet: the     *)
(* RoleBasedGroup controller (pkg/reconciler/sts_reconciler.go, called     *)
(* from RoleBasedGroupReconciler.Reconcile), the user who edits the role,  *)
(* the StatefulSet controller and the kubelet that the code relies on, and *)
(* the informer cache through which the controller sees all of them.       *)
(*                                                                         *)
(* The controller runs only when its key is in the workqueue.  The only    *)
(* events that put it there are an edit of the RoleBasedGroup spec         *)
(* (RBGPredicate) and a change of the template or of status.readyReplicas  *)
(* of the StatefulSet (WorkloadPredicate, WorkloadEqual).                  *)
(***************************************************************************)
EXTENDS RolloutParameters

CONSTANTS
  Templates,        \* pod templates a user may give the role
  BadTemplates,     \* those whose pods never become ready
  None,             \* no template
  Sizes,            \* role sizes a user may ask for
  MaxOrdinals,      \* bound: ordinals 0 .. MaxOrdinals-1 are represented
  Lag,              \* informers that may be behind: "sts", "pods", "revisions"
  MaxTemplateEdits, \* bound on the user's template edits
  MaxScaleEdits,    \* bound on the user's size edits
  MaxEvictions,     \* bound on pods that go away by themselves
  MaxBlips          \* bound on pods that lose readiness and stay

ASSUME RolloutAssumption ==
  /\ None \notin Templates
  /\ BadTemplates \subseteq Templates
  /\ Sizes \subseteq Nat
  /\ MaxOrdinals \in Nat
  /\ \A n \in Sizes : n + Surge(n) <= MaxOrdinals
  /\ {MaxTemplateEdits, MaxScaleEdits, MaxEvictions, MaxBlips} \subseteq Nat

VARIABLES
  role,         \* spec of the role: size and template
  sts,          \* the StatefulSet in the API server, with its status
  pods,         \* the pod of each ordinal
  queued,       \* the group's key is in the workqueue
  stsSeen,      \* the StatefulSet in the informer cache
  podsSeen,     \* the pods in the informer cache
  revisionSeen, \* template of the highest ControllerRevision in the cache
  budget        \* what the user and the environment may still do

vars == <<role, sts, pods, queued, stsSeen, podsSeen, revisionSeen, budget>>

-----------------------------------------------------------------------------
Ordinals == 0 .. MaxOrdinals-1

NoPod == [phase |-> "absent", template |-> None]
Pod(phase, t) == [phase |-> phase, template |-> t]

\* "size" is the role-size annotation, "current" the template of the
\* status.currentRevision, "ready" is status.readyReplicas.
NoSts == [exists |-> FALSE, template |-> None, replicas |-> 0, size |-> 0,
          partition |-> 0, ready |-> 0, current |-> None]

\* What a read through the cached client returns.
Sts      == IF "sts" \in Lag THEN stsSeen ELSE sts
Pods     == IF "pods" \in Lag THEN podsSeen ELSE pods
Revision == IF "revisions" \in Lag THEN revisionSeen ELSE sts.template

\* WorkloadEqual sees the template and the ready count.  It ignores replicas,
\* partition and every annotation of the rolebasedgroup domain.
WorkloadEqual(old, new) == old.template = new.template /\ old.ready = new.ready

\* WorkloadPredicate: the create event is ignored, an update counts when
\* WorkloadEqual sees a difference.
Notifies(old, new) == old.exists /\ ~WorkloadEqual(old, new)

\* A write of the StatefulSet, and its event when the informer keeps up.
\* "requeue" says whether the key stays queued whatever the event does.
WriteSts(new, requeue) ==
  /\ sts' = new
  /\ queued' = (requeue \/ ("sts" \notin Lag /\ Notifies(sts, new)))

ReadyPods == {i \in Ordinals : pods[i].phase = "ready"}

\* The status a sync of the StatefulSet controller writes: it counts the pods
\* the sync starts from, those it goes on to delete included.
WithStatus(s) ==
  LET done == \A i \in 0 .. s.replicas-1 : pods[i] = Pod("ready", s.template)
  IN  [s EXCEPT !.ready = Cardinality(ReadyPods),
                !.current = IF done THEN s.template ELSE @]

-----------------------------------------------------------------------------
Init ==
  /\ role \in [size : Sizes, template : Templates \ BadTemplates]
  /\ sts = NoSts
  /\ pods = [i \in Ordinals |-> NoPod]
  /\ queued = TRUE
  /\ stsSeen = NoSts
  /\ podsSeen = pods
  /\ revisionSeen = None
  /\ budget = [template |-> MaxTemplateEdits, scale |-> MaxScaleEdits,
               evict |-> MaxEvictions, blip |-> MaxBlips]

\* A role that has been created and has come up.
EstablishedInit ==
  /\ role \in [size : Sizes, template : Templates \ BadTemplates]
  /\ sts = [exists |-> TRUE, template |-> role.template, replicas |-> role.size,
            size |-> role.size, partition |-> 0, ready |-> role.size,
            current |-> role.template]
  /\ pods = [i \in Ordinals |->
              IF i < role.size THEN Pod("ready", role.template) ELSE NoPod]
  /\ queued = FALSE
  /\ stsSeen = sts
  /\ podsSeen = pods
  /\ revisionSeen = role.template
  /\ budget = [template |-> MaxTemplateEdits, scale |-> MaxScaleEdits,
               evict |-> MaxEvictions, blip |-> MaxBlips]

(***************************************************************************)
(* The user edits the RoleBasedGroup.                                      *)
(***************************************************************************)
EditTemplate(t) ==
  /\ budget.template > 0
  /\ t # role.template
  /\ role' = [role EXCEPT !.template = t]
  /\ budget' = [budget EXCEPT !.template = @ - 1]
  /\ queued' = TRUE
  /\ UNCHANGED <<sts, pods, stsSeen, podsSeen, revisionSeen>>

EditSize(n) ==
  /\ budget.scale > 0
  /\ n # role.size
  /\ role' = [role EXCEPT !.size = n]
  /\ budget' = [budget EXCEPT !.scale = @ - 1]
  /\ queued' = TRUE
  /\ UNCHANGED <<sts, pods, stsSeen, podsSeen, revisionSeen>>

\* An event of another role's workload queues the same key, and so does any
\* event of the group's PodGroup, the periodic resync of its informer included.
OtherEvent ==
  /\ ~queued
  /\ queued' = TRUE
  /\ UNCHANGED <<role, sts, pods, stsSeen, podsSeen, revisionSeen, budget>>

(***************************************************************************)
(* The reconciler of the role.                                             *)
(***************************************************************************)
StsUpdated == ~Sts.exists \/ Sts.template # role.template

\* getReplicaStates: a replica that has no pod is neither ready nor updated.
ReadySeen   == {i \in Ordinals : Pods[i].phase = "ready"}
UpdatedSeen == {i \in Ordinals : Pods[i].phase # "absent" /\ Pods[i].template = Revision}

RolloutDone == Sts.partition = 0 /\ Sts.replicas = role.size

\* Case 5 looks at the replicas; case 4 too, to size the surge.
NeedsStates == Sts.exists /\ ~StsUpdated /\ ~RolloutDone

Unready == RoleUnready(role.size, Sts.replicas, ReadySeen, UpdatedSeen)

\* Faulty variants: the allowance, or the surge not yet in use, is forgotten.
RollingStepNoUnavailable ==
  Surge(role.size) - (role.size + Surge(role.size) - Sts.replicas)
RollingStepNoSurge ==
  Unavailable(role.size) - (role.size + Surge(role.size) - Sts.replicas)
RollingStepFull == Unavailable(role.size) + Surge(role.size)
RollingStep ==
  Unavailable(role.size) + Surge(role.size)
    - (role.size + Surge(role.size) - Sts.replicas)

\* rollingUpdateParameters, its five cases in the order of the code.
Partition ==
  CASE ~Sts.exists -> 0
    [] Sts.exists /\ StsUpdated -> MinOf(role.size, Sts.replicas)
    [] ~StsUpdated /\ RolloutDone -> 0
    [] NeedsStates /\ Sts.size # role.size ->
         MinOf(Sts.partition, role.size + Surge(role.size))
    [] NeedsStates /\ Sts.size = role.size ->
         RollingUpdatePartition(Sts.replicas, RollingStep, Sts.partition,
                                ReadySeen, UpdatedSeen)

Replicas ==
  CASE ~Sts.exists -> role.size
    [] Sts.exists /\ StsUpdated -> WantReplicas(role.size, role.size)
    [] ~StsUpdated /\ RolloutDone -> role.size
    [] NeedsStates -> WantReplicas(role.size, Unready)

\* Faulty variant: the replica count is not compared.
SkipAnySize == ~StsUpdated /\ Partition = Sts.partition

\* reconcileStatefulSet leaves the StatefulSet alone.
Skip == ~StsUpdated /\ Partition = Sts.partition /\ Sts.replicas = role.size

\* PatchObjectApplyConfiguration: server-side apply, forced, on whatever the
\* API server holds now.
Patched ==
  [sts EXCEPT !.exists = TRUE, !.template = role.template, !.replicas = Replicas,
              !.size = role.size, !.partition = Partition,
              !.current = IF sts.exists THEN @ ELSE role.template]

\* Reconcile.  An invalid strategy, or a missing ControllerRevision, is an
\* error: nothing is written and the key is retried.  After the patch the
\* headless service is reconciled, which fails, and so retries the key, when
\* the cache does not have the StatefulSet yet.
Reconcile ==
  /\ queued
  /\ StrategyValid(role.size)
  /\ NeedsStates => Revision # None
  /\ IF Skip
       THEN /\ queued' = FALSE
            /\ UNCHANGED sts
       ELSE WriteSts(Patched, "sts" \in Lag /\ ~stsSeen.exists)
  /\ UNCHANGED <<role, pods, stsSeen, podsSeen, revisionSeen, budget>>

(***************************************************************************)
(* The informers catch up.                                                 *)
(***************************************************************************)
SyncSts ==
  /\ "sts" \in Lag
  /\ stsSeen # sts
  /\ stsSeen' = sts
  /\ queued' = (queued \/ Notifies(stsSeen, sts))
  /\ UNCHANGED <<role, sts, pods, podsSeen, revisionSeen, budget>>

SyncPods ==
  /\ "pods" \in Lag
  /\ podsSeen # pods
  /\ podsSeen' = pods
  /\ UNCHANGED <<role, sts, pods, queued, stsSeen, revisionSeen, budget>>

SyncRevisions ==
  /\ "revisions" \in Lag
  /\ revisionSeen # sts.template
  /\ revisionSeen' = sts.template
  /\ UNCHANGED <<role, sts, pods, queued, stsSeen, podsSeen, budget>>

(***************************************************************************)
(* The StatefulSet controller (external), podManagementPolicy Parallel.    *)
(* Every sync writes the status.                                           *)
(***************************************************************************)
StsSync(newPods) ==
  /\ pods' = newPods
  /\ WriteSts(WithStatus(sts), queued)
  /\ UNCHANGED <<role, stsSeen, podsSeen, revisionSeen, budget>>

Missing == {i \in 0 .. sts.replicas-1 : pods[i] = NoPod}

Excess == {i \in Ordinals : i >= sts.replicas /\ pods[i] # NoPod}

\* Missing pods are created, below the partition at the current revision.
CreatePods ==
  /\ Missing # {}
  /\ StsSync([i \in Ordinals |->
               IF i \in Missing
                 THEN Pod("unready", IF i < sts.partition THEN sts.current
                                                         ELSE sts.template)
                 ELSE pods[i]])

\* Pods beyond the replica count are deleted.
DeleteExcess ==
  /\ Excess # {}
  /\ StsSync([i \in Ordinals |-> IF i \in Excess THEN NoPod ELSE pods[i]])

\* With the replica count right, the highest outdated pod at or above the
\* partition is deleted, once the pods above it are updated and healthy (the
\* MaxUnavailableStatefulSet gate is off, its default: one pod at a time).
UpdatePod ==
  /\ Missing = {} /\ Excess = {}
  /\ \E i \in sts.partition .. sts.replicas-1 :
       /\ pods[i].template # sts.template
       /\ \A j \in i+1 .. sts.replicas-1 : pods[j] = Pod("ready", sts.template)
       /\ StsSync([pods EXCEPT ![i] = NoPod])

\* A sync that finds nothing to do but a new readyReplicas or revision.
UpdateStatus ==
  /\ sts.exists
  /\ WithStatus(sts) # sts
  /\ StsSync(pods)

(***************************************************************************)
(* The kubelet (external).                                                 *)
(***************************************************************************)
PodReady(i) ==
  /\ pods[i].phase = "unready"
  /\ pods[i].template \notin BadTemplates
  /\ pods' = [pods EXCEPT ![i].phase = "ready"]
  /\ UNCHANGED <<role, sts, queued, stsSeen, podsSeen, revisionSeen, budget>>

\* A pod is evicted, or its node goes away.
PodEvicted(i) ==
  /\ budget.evict > 0
  /\ pods[i] # NoPod
  /\ pods' = [pods EXCEPT ![i] = NoPod]
  /\ budget' = [budget EXCEPT !.evict = @ - 1]
  /\ UNCHANGED <<role, sts, queued, stsSeen, podsSeen, revisionSeen>>

\* A readiness probe fails.
PodBlip(i) ==
  /\ budget.blip > 0
  /\ pods[i].phase = "ready"
  /\ pods' = [pods EXCEPT ![i].phase = "unready"]
  /\ budget' = [budget EXCEPT !.blip = @ - 1]
  /\ UNCHANGED <<role, sts, queued, stsSeen, podsSeen, revisionSeen>>

-----------------------------------------------------------------------------
Edit == (\E t \in Templates : EditTemplate(t)) \/ (\E n \in Sizes : EditSize(n))

Controller == Reconcile \/ SyncSts \/ SyncPods \/ SyncRevisions

StsController == CreatePods \/ DeleteExcess \/ UpdatePod \/ UpdateStatus

Kubelet == \E i \in Ordinals : PodReady(i) \/ PodEvicted(i) \/ PodBlip(i)

Next == Edit \/ OtherEvent \/ Controller \/ StsController \/ Kubelet

Spec == Init /\ [][Next]_vars

\* The workqueue hands out a queued key, watches deliver, the StatefulSet
\* controller syncs and a sound pod comes up.  Nobody has to edit or fail.
Fairness ==
  /\ WF_vars(Reconcile)
  /\ WF_vars(SyncSts) /\ WF_vars(SyncPods) /\ WF_vars(SyncRevisions)
  /\ WF_vars(CreatePods) /\ WF_vars(DeleteExcess)
  /\ WF_vars(UpdatePod) /\ WF_vars(UpdateStatus)
  /\ \A i \in Ordinals : WF_vars(PodReady(i))

FairSpec == Spec /\ Fairness

EstablishedSpec == EstablishedInit /\ [][Next]_vars

EstablishedFairSpec == EstablishedSpec /\ Fairness

\* A group with gang scheduling: the PodGroup is owned without a predicate, so
\* the resync of its informer wakes the controller again and again.
ResyncSpec == EstablishedFairSpec /\ WF_vars(OtherEvent)

-----------------------------------------------------------------------------
Phases == {"absent", "unready", "ready"}

StsState ==
  [exists : BOOLEAN, template : Templates \cup {None}, replicas : Nat,
   size : Nat, partition : Nat, ready : Nat, current : Templates \cup {None}]

PodState == [phase : Phases, template : Templates \cup {None}]

TypeOK ==
  /\ role \in [size : Sizes, template : Templates]
  /\ {sts, stsSeen} \subseteq StsState
  /\ {pods, podsSeen} \subseteq [Ordinals -> PodState]
  /\ queued \in BOOLEAN
  /\ revisionSeen \in Templates \cup {None}
  /\ budget \in [template : Nat, scale : Nat, evict : Nat, blip : Nat]

\* The StatefulSet never runs below the size it was last patched for nor
\* above that size plus maxSurge (rolebasedgroup_types.go: "at most 130%").
Bounded(s) == s.size <= s.replicas /\ s.replicas <= s.size + Surge(s.size)

ReplicasBounded == Bounded(sts) /\ Bounded(stsSeen)

\* rollingUpdatePartition indexes states[0 .. rollingStepPartition-1], a
\* slice of sts.Spec.Replicas entries: case 5 must never read past its end,
\* whatever mix of edits, failures and stale caches led there.
IndexInRange ==
  (NeedsStates /\ Sts.size = role.size) =>
    RollingStepPartition(Sts.replicas, RollingStep, ReadySeen, UpdatedSeen)
      \in 0 .. Sts.replicas

\* When the controller has nothing left to do, the role-size annotation is
\* the size of the role.  A rollout whose annotation lags stays in case 4 of
\* rollingUpdateParameters, where the partition no longer moves.
SizeCaughtUp == (sts.exists /\ ~queued) => sts.size = role.size

\* The ready pods the StatefulSet controller is free to delete: the outdated
\* ones from the partition up, and those beyond the replica count.
Exposed(s) ==
  {i \in ReadyPods : i >= s.replicas \/ (i >= s.partition /\ pods[i].template # s.template)}

\* sts_reconciler.go: "Make sure that we always respect the maxUnavailable".
\* A reconcile exposes a further ready pod only when size - maxUnavailable
\* ready pods stay out of the StatefulSet controller's reach, whatever
\* evictions, probe failures and bad templates have left of the pods.
ExposureBounded ==
  [][(sts'.size = sts.size /\ Exposed(sts') \ Exposed(sts) # {}) =>
       Cardinality(ReadyPods \ Exposed(sts')) >= role.size - Unavailable(role.size)
    ]_<<role, sts>>

\* Within one rollout (same template, same size) the partition only falls
\* (sts_reconciler.go: "Partition moves in one direction").
PartitionFalls ==
  [][(sts.exists /\ sts'.template = sts.template /\ sts'.size = sts.size)
       => sts'.partition <= sts.partition]_vars

\* Everything is as the role asks.
Converged ==
  /\ sts.exists
  /\ sts.replicas = role.size
  /\ \A i \in Ordinals :
       pods[i] = IF i < role.size THEN Pod("ready", role.template) ELSE NoPod

\* Once edits and failures are over, the rollout of a sound template ends.
RolloutCompletes ==
  <>[](role.template \notin BadTemplates) => <>[]Converged
=============================================================================
