-------------------------- MODULE RolloutParameters --------------------------
(***************************************************************************)
(* The arithmetic of the StatefulSet reconciler: which partition and which *)
(* replica count the next patch of the StatefulSet asks for.  These are    *)
(* the pure functions of pkg/reconciler/sts_reconciler.go; StsRollout      *)
(* calls them from its Reconcile action.                                   *)
(*                                                                         *)
(* A replica set of size n has the ordinals 0 .. n-1.  The states slice    *)
(* the code builds ([]replicaState) is represented by two sets of          *)
(* ordinals: the ready ones and the updated ones.                          *)
(***************************************************************************)
EXTENDS Integers, FiniteSets

CONSTANTS
  MaxUnavailable,   \* role.RolloutStrategy.RollingUpdate.MaxUnavailable
  MaxSurge          \* role.RolloutStrategy.RollingUpdate.MaxSurge

\* intstr.IntOrString: an absolute number, or a percentage of the role size.
IntOrPercent == [percent : BOOLEAN, value : Nat]

ASSUME StrategyAssumption ==
  /\ MaxUnavailable \in IntOrPercent
  /\ MaxSurge \in IntOrPercent

MinOf(a, b) == IF a <= b THEN a ELSE b

\* Faulty variant: no clamp.
AnyValue(n) == n

NonZeroValue(n) == IF n < 0 THEN 0 ELSE n

\* intstr.GetScaledValueFromIntOrPercent, rounding up or down.
Scaled(v, total, roundUp) ==
  IF v.percent
    THEN IF roundUp THEN (v.value * total + 99) \div 100
                    ELSE (v.value * total) \div 100
    ELSE v.value

\* maxUnavailable for a role of the given size.
Unavailable(role) == Scaled(MaxUnavailable, role, FALSE)

\* maxSurge for a role of the given size: never more than the size itself.
Surge(role) == MinOf(Scaled(MaxSurge, role, TRUE), role)

\* validateRolloutStrategy: at least one of the two must be positive.
StrategyValid(role) ==
  ~(Unavailable(role) = 0 /\ Scaled(MaxSurge, role, TRUE) = 0)

\* wantReplicas: the burst size while more replicas are unready than the
\* surge can stand for; from then on the surge is released one by one.
WantReplicas(role, unready) ==
  IF unready <= Surge(role)
    THEN role + NonZeroValue(unready - 1)
    ELSE role + Surge(role)

\* calculateRoleUnreadyReplicas: ordinals of the role outside the states
\* slice, or not both ready and updated.
RoleUnready(role, n, ready, updated) ==
  Cardinality({i \in 0 .. role-1 : i >= n \/ i \notin ready \cap updated})

\* calculateContinuousReadyReplicas: the length of the ready and updated tail.
ContinuousReady(n, ready, updated) ==
  Cardinality({i \in 0 .. n-1 : (i .. n-1) \subseteq ready \cap updated})

\* The first half of rollingUpdatePartition: step past the finished tail.
RollingStepPartition(n, step, ready, updated) ==
  NonZeroValue(n - ContinuousReady(n, ready, updated) - step)

\* Faulty variants: the unready replicas below are forgotten, ...
PartitionIgnoresUnready(n, step, current, ready, updated) ==
  MinOf(RollingStepPartition(n, step, ready, updated), current)

\* ... or the current partition is.
PartitionAnyDirection(n, step, current, ready, updated) ==
  LET floor == RollingStepPartition(n, step, ready, updated)
  IN  floor + Cardinality((0 .. floor-1) \ ready)

\* rollingUpdatePartition: raise the partition by the unready replicas below
\* it, then lower it again past replicas whose update costs no availability.
RollingUpdatePartition(n, step, current, ready, updated) ==
  LET floor == RollingStepPartition(n, step, ready, updated)
      start == floor + Cardinality((0 .. floor-1) \ ready)
      top   == MinOf(start, n - 1)
      run   == Cardinality({i \in floor .. top :
                              (i .. top) \cap (ready \ updated) = {}})
  IN  MinOf(IF run = 0 THEN start ELSE top + 1 - run, current)
=============================================================================
