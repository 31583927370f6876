------------------------------ MODULE GroupSet ------------------------------
(***************************************************************************)
(* RoleBasedGroupSetReconciler of rolebasedgroupset_controller.go: a set   *)
(* of groups of which there are to be spec.replicas.  A pass lists the     *)
(* groups with the set's label and creates what is missing, each group in  *)
(* a goroutine of its own, under a generated name: what one pass does not  *)
(* see, it makes once more.                                                *)
(*                                                                         *)
(* The groups are alike, so they are their number; the informer of the     *)
(* groups learns of creations and deletions one by one, in their order.    *)
(***************************************************************************)
EXTENDS Integers, Sequences

CONSTANTS
  Sizes,       \* replicas a user asks for
  Lag,         \* informers that may be behind: "set", "groups"
  MaxEdits,    \* bound on the user's edits of the set
  MaxDeletes,  \* bound on groups that are deleted
  MaxGroups,   \* bound: a pass begins only while there are fewer groups
  MaxFailures  \* bound on creations that fail and restarts of the manager

ASSUME SetAssumption ==
  /\ Sizes \subseteq Nat
  /\ Lag \subseteq {"set", "groups"}
  /\ {MaxEdits, MaxDeletes, MaxGroups, MaxFailures} \subseteq Nat
  /\ \A n \in Sizes : n <= MaxGroups

VARIABLES
  want,    \* spec.replicas of the set, in the API server and in the cache
  groups,  \* how many groups the set has, in the API server and in the cache
  news,    \* their number after each creation and deletion the informer has yet
           \* to see
  queued,  \* the key of the set is in the workqueue
  left,    \* groups the pass in progress has yet to create, 0 between passes
  most,    \* history: the largest number of groups ever asked for
  missed,  \* history: the most creations and deletions the List of a pass lacked
  budget   \* edits, deletions and failures still allowed

vars == <<want, groups, news, queued, left, most, missed, budget>>

-----------------------------------------------------------------------------
Init ==
  /\ \E n \in Sizes : want = [stored |-> n, cached |-> n] /\ most = n
  /\ groups = [stored |-> 0, cached |-> 0]
  /\ news = <<>>
  /\ queued = TRUE
  /\ left = 0
  /\ missed = 0
  /\ budget = [edit |-> MaxEdits, delete |-> MaxDeletes, failure |-> MaxFailures]

\* What the cached client returns.
Replicas == IF "set" \in Lag THEN want.cached ELSE want.stored

Listed == IF "groups" \in Lag THEN groups.cached ELSE groups.stored

\* The creations and deletions of which the List knows nothing.
Unseen == IF "groups" \in Lag THEN Len(news) ELSE 0

\* A group comes (1) or goes (-1); the set, which owns it, is queued by what
\* the informer sees.
Count(delta) ==
  /\ groups.stored + delta >= 0
  /\ groups' = [groups EXCEPT !.stored = @ + delta]
  /\ news' = Append(news, groups.stored + delta)
  /\ queued' = (queued \/ "groups" \notin Lag)

-----------------------------------------------------------------------------
(***************************************************************************)
(* The user, the informers.                                                *)
(***************************************************************************)
Resize(n) ==
  /\ budget.edit > 0
  /\ want' = [want EXCEPT !.stored = n]
  /\ queued' = (queued \/ "set" \notin Lag)
  /\ most' = IF n > most THEN n ELSE most
  /\ budget' = [budget EXCEPT !.edit = @ - 1]
  /\ UNCHANGED <<groups, news, left, missed>>

DeleteGroup ==
  /\ budget.delete > 0
  /\ Count(-1)
  /\ budget' = [budget EXCEPT !.delete = @ - 1]
  /\ UNCHANGED <<want, left, most, missed>>

SeeSet ==
  /\ want.cached # want.stored
  /\ want' = [want EXCEPT !.cached = want.stored]
  /\ queued' = TRUE
  /\ UNCHANGED <<groups, news, left, most, missed, budget>>

SeeGroup ==
  /\ news # <<>>
  /\ groups' = [groups EXCEPT !.cached = Head(news)]
  /\ news' = Tail(news)
  /\ queued' = TRUE
  /\ UNCHANGED <<want, left, most, missed, budget>>

\* No predicate filters the events: the periodic resync of the informers, and
\* any change of a group's status, queue the set.
Resync ==
  /\ queued' = TRUE
  /\ UNCHANGED <<want, groups, news, left, most, missed, budget>>

-----------------------------------------------------------------------------
(***************************************************************************)
(* RoleBasedGroupSetReconciler.Reconcile.                                  *)
(***************************************************************************)
\* Faulty variant: one group too few.
MissingButOne(n, listed) == IF listed + 1 >= n THEN 0 ELSE n - listed - 1

\* Faulty variant: one group too many.
MissingAndOne(n, listed) == IF listed >= n THEN 0 ELSE n - listed + 1

\* Faulty variant: a set with too many groups is not left alone.
MissingOrSurplus(n, listed) == n - listed

\* How many groups to create; a surplus is left as it is.
Missing(n, listed) == IF listed >= n THEN 0 ELSE n - listed

Begin ==
  /\ queued /\ left = 0
  /\ groups.stored < MaxGroups
  /\ queued' = FALSE
  /\ left' = Missing(Replicas, Listed)
  /\ missed' = IF Unseen > missed THEN Unseen ELSE missed
  /\ UNCHANGED <<want, groups, news, most, budget>>

\* createRBG, one of the goroutines the pass waits for.
CreateRBG ==
  /\ left > 0
  /\ left' = left - 1
  /\ Count(1)
  /\ UNCHANGED <<want, most, missed, budget>>

\* Its error is logged, and the pass does not end in an error.
CreateFails ==
  /\ left > 0
  /\ budget.failure > 0
  /\ budget' = [budget EXCEPT !.failure = @ - 1]
  /\ left' = left - 1
  /\ UNCHANGED <<want, groups, news, queued, most, missed>>

Controller == Begin \/ CreateRBG

\* The manager restarts: the informers list, and what they list is queued.
ManagerRestarts ==
  /\ budget.failure > 0
  /\ budget' = [budget EXCEPT !.failure = @ - 1]
  /\ want' = [want EXCEPT !.cached = want.stored]
  /\ groups' = [groups EXCEPT !.cached = groups.stored]
  /\ news' = <<>>
  /\ queued' = TRUE
  /\ left' = 0
  /\ UNCHANGED <<most, missed>>

Next ==
  \/ \E n \in Sizes : Resize(n)
  \/ DeleteGroup
  \/ SeeSet
  \/ SeeGroup
  \/ Resync
  \/ Controller
  \/ CreateFails
  \/ ManagerRestarts

Spec == Init /\ [][Next]_vars

\* The workqueue hands out the key, the goroutines run, the informers catch up
\* and resync.
FairSpec ==
  /\ Spec
  /\ WF_vars(Controller)
  /\ WF_vars(SeeSet)
  /\ WF_vars(SeeGroup)
  /\ WF_vars(Resync)

-----------------------------------------------------------------------------
TypeOK ==
  /\ want \in [stored : Sizes, cached : Sizes]
  /\ groups \in [stored : Nat, cached : Nat]
  /\ news \in Seq(Nat)
  /\ queued \in BOOLEAN
  /\ left \in Nat
  /\ most \in Nat /\ missed \in Nat
  /\ budget \in [edit : Nat, delete : Nat, failure : Nat]

\* rolebasedgroupset_types.go: "Replicas is the number of RoleBasedGroup that
\* will be created."  The groups that are there, and those a pass is about to
\* create, are never more than the set has ever asked for: with a List from the
\* cache this does not hold.
NoSurplus == groups.stored + left <= most

\* What a stale List costs.  Whatever is edited, deleted, or fails in the middle
\* of a pass, and however many passes list too few groups, the surplus is never
\* more than the creations and deletions that the List of one pass lacked: what
\* the passes do wrong does not add up, and while no List is behind nothing is.
SurplusBounded == groups.stored + left <= most + missed

\* A creation that fails is retried by no one but the next event, or the
\* resync: in the end the set has its groups.
Fills == <>[](groups.stored >= want.stored)
=============================================================================
