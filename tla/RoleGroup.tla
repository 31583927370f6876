------------------------------ MODULE RoleGroup ------------------------------
(***************************************************************************)
(* The RoleBasedGroup controller: RoleBasedGroupReconciler.Reconcile of    *)
(* internal/controller/workloads/rolebasedgroup_controller.go, with the    *)
(* workload reconcilers, the dependency manager, the config injector and   *)
(* the pod group manager it calls.                                         *)
(*                                                                         *)
(* A pass over the group is a sequence of steps; the user, the workload    *)
(* controllers and the informers act between any two of them.  The         *)
(* controller reads a kind of object from its informer cache when that     *)
(* kind is in Lag, and always writes to the API server.                    *)
(*                                                                         *)
(* How a StatefulSet gets from one template to the next is the subject of  *)
(* StsRollout; here a workload is its replica count and how many are ready.*)
(***************************************************************************)
EXTENDS DependencyOrder, FiniteSets

CONSTANTS
  Names,        \* the role names, in string order
  Specs,        \* the group specs a user may apply
  Lag,          \* informers that may be behind
  None,         \* no pod group, no config
  MaxEdits,     \* bound on the user's edits
  MaxFailures,  \* bound on API errors and restarts of the controller
  MaxBlips      \* bound on replicas that stop being ready

Kinds == {"Deployment", "LeaderWorkerSet", "StatefulSet"}

Objects == {"group", "workloads", "configs", "adapters", "podGroup"}

Roles == Range(Names)

\* width is leaderWorkerSet.size, 1 for the other kinds.
RoleSpec ==
  [kind : Kinds, size : Nat, width : Nat, deps : Seq(Roles), adapter : BOOLEAN]

ASSUME GroupAssumption ==
  /\ Names \in Seq(Roles) /\ IsInjective(Names)
  /\ \A g \in Specs :
       /\ DOMAIN g = {"roles", "gang"}
       /\ g.gang \in BOOLEAN
       /\ DOMAIN g.roles \subseteq Roles
       /\ \A r \in DOMAIN g.roles : g.roles[r] \in RoleSpec
  /\ Lag \subseteq Objects
  /\ None \notin Nat
  /\ {MaxEdits, MaxFailures, MaxBlips} \subseteq Nat

VARIABLES
  api,        \* the objects in the API server
  cache,      \* the same objects as the informers last saw them
  queued,     \* the key of the group is in the workqueue
  pass,       \* the reconcile pass in progress
  everReady,  \* history: workloads that have had all their replicas ready
  budget      \* edits, failures and blips still allowed

vars == <<api, cache, queued, pass, everReady, budget>>

-----------------------------------------------------------------------------
NoWorkload == [exists |-> FALSE, replicas |-> 0, ready |-> 0, reported |-> 0]

NoStatus == [known |-> FALSE, replicas |-> 0, ready |-> 0]

\* The status of a group: its role statuses, the Ready condition, and the
\* RestartInProgress condition, which only the pod controller sets (Restart).
NoGroupStatus ==
  [roles |-> [r \in Roles |-> NoStatus], ready |-> "Unknown", restarting |-> "Unknown"]

NoPass ==
  [at |-> "idle", spec |-> [roles |-> <<>>, gang |-> FALSE], order |-> <<>>, next |-> 0,
   status |-> NoGroupStatus, fresh |-> [r \in Roles |-> NoStatus], update |-> FALSE]

\* What a read through the cached client returns.
Read(object) == IF object \in Lag THEN cache[object] ELSE api[object]

\* Faulty variant: readiness is not an event.
NotifiesReplicas(k, old, new) ==
  /\ old.exists
  /\ ~new.exists \/ old.replicas # new.replicas

\* Faulty variant: a deletion is no event.
NotifiesLiving(k, old, new) ==
  /\ old.exists /\ new.exists
  /\ old.ready # new.ready \/ (k # "StatefulSet" /\ old.replicas # new.replicas)

\* WorkloadPredicate and WorkloadEqual: no event for a creation; for an update
\* the ready count, and the replica count except of a StatefulSet; a deletion.
Notifies(k, old, new) ==
  /\ old.exists
  /\ \/ ~new.exists
     \/ old.ready # new.ready
     \/ k # "StatefulSet" /\ old.replicas # new.replicas

WorkloadEvent(old, new) ==
  \E k \in Kinds, r \in Roles : Notifies(k, old[k, r], new[k, r])

\* What the API server's new state puts in the queue.  RBGPredicate looks at
\* the spec only; the PodGroup is owned without a predicate; ConfigMaps and
\* scaling adapters are not watched.
Event(old, new) ==
  \/ "group" \notin Lag /\ old.group.spec # new.group.spec
  \/ "workloads" \notin Lag /\ WorkloadEvent(old.workloads, new.workloads)
  \/ "podGroup" \notin Lag /\ old.podGroup # new.podGroup

\* The history variable follows the workloads.
Remember(workloads) ==
  everReady' = [kr \in Kinds \X Roles |->
    LET w == workloads[kr]
    IN  w.exists /\ (everReady[kr] \/ w.ready = w.replicas)]

\* A write to the API server; the key is queued by it, or because requeue.
Write(new, requeue) ==
  /\ api' = new
  /\ queued' = (requeue \/ Event(api, new))
  /\ Remember(new.workloads)

WithWorkload(objects, kr, w) == [objects EXCEPT !.workloads[kr] = w]

-----------------------------------------------------------------------------
\* The parts of a spec the controller computes with.  The role names in string
\* order: the i-th has i-1 of them before it.
KeysOf(g) ==
  LET D == DOMAIN g.roles
      Before(r) == {x \in D : \E i, j \in DOMAIN Names : i < j /\ Names[i] = x /\ Names[j] = r}
  IN  [i \in 1 .. Cardinality(D) |-> CHOOSE r \in D : Cardinality(Before(r)) = i - 1]

DepsOf(g) == [r \in DOMAIN g.roles |-> g.roles[r].deps]

\* ConfigBuilder.Build: every role with its instances.
Topology(g) == [r \in DOMAIN g.roles |-> g.roles[r].size]

\* GetGroupSize: the pods of all roles, width of them to an instance.
GroupSize(g) ==
  Cardinality(UNION {{r} \X (1 .. g.roles[r].size) \X (1 .. g.roles[r].width) :
                       r \in DOMAIN g.roles})

PodGroupWanted(g) == IF g.gang THEN GroupSize(g) ELSE None

\* CheckWorkloadReady: a LeaderWorkerSet is measured by its own status, the
\* others by their spec.
Desired(k, w) == IF k = "LeaderWorkerSet" THEN w.reported ELSE w.replicas

WorkloadReady(k, w) == w.ready = Desired(k, w)

\* ConstructRoleStatus.
RoleStatus(k, w) == [known |-> TRUE, replicas |-> Desired(k, w), ready |-> w.ready]

-----------------------------------------------------------------------------
Init ==
  /\ \E g \in Specs :
       api = [group |-> [spec |-> g, status |-> NoGroupStatus],
              workloads |-> [kr \in Kinds \X Roles |-> NoWorkload],
              configs |-> [r \in Roles |-> None],
              adapters |-> {},
              podGroup |-> None]
  /\ cache = api
  /\ queued = TRUE
  /\ pass = NoPass
  /\ everReady = [kr \in Kinds \X Roles |-> FALSE]
  /\ budget = [edit |-> MaxEdits, failure |-> MaxFailures, blip |-> MaxBlips]

\* The user replaces the spec.
Edit(g) ==
  /\ budget.edit > 0
  /\ g # api.group.spec
  /\ Write([api EXCEPT !.group.spec = g], queued)
  /\ budget' = [budget EXCEPT !.edit = @ - 1]
  /\ UNCHANGED <<cache, pass>>

(***************************************************************************)
(* A reconcile pass.                                                       *)
(***************************************************************************)
\* Every error return, and the return that waits for a dependency, ends the
\* pass and queues the key again.
Abort == pass' = NoPass

Begin ==
  /\ queued /\ pass = NoPass
  /\ LET g == Read("group").spec
         s == SortResult(KeysOf(g), DepsOf(g))
     IN  /\ DependenciesKnown(DepsOf(g))
         /\ ~s.cycle
         /\ pass' = [NoPass EXCEPT !.at = "podGroup", !.spec = g, !.order = s.order,
                                   !.next = 1, !.status = Read("group").status]
  /\ queued' = FALSE
  /\ UNCHANGED <<api, cache, everReady, budget>>

\* Faulty variant: one role too many is looked for.
AdvanceLate(n) == IF n <= Len(pass.order) + 1 THEN "role" ELSE "status"

\* The stage after the pod group, or after a role.
Advance(n) == IF n <= Len(pass.order) THEN "role" ELSE "status"

\* Faulty variant: MinMember is not compared.
PodGroupPresent(seen, wanted) == (seen = None) = (wanted = None)

\* createOrUpdatePodGroup, deletePodGroup: there is nothing to write.
PodGroupAgrees(seen, wanted) == seen = wanted

\* PodGroupScheduler.Reconcile: create, update with optimistic locking, or
\* delete.  A creation or an update based on an old copy is refused.
ReconcilePodGroup ==
  /\ pass.at = "podGroup"
  /\ LET wanted == PodGroupWanted(pass.spec)
         seen   == Read("podGroup")
         refused == ~PodGroupAgrees(seen, wanted) /\ seen # api.podGroup
                      /\ (wanted = None => api.podGroup = None)
     IN  IF refused
           THEN Abort /\ queued' = TRUE /\ UNCHANGED <<api, everReady>>
           ELSE /\ pass' = [pass EXCEPT !.at = Advance(1)]
                /\ IF PodGroupAgrees(seen, wanted)
                     THEN UNCHANGED <<api, queued, everReady>>
                     ELSE Write([api EXCEPT !.podGroup = wanted], queued)
  /\ UNCHANGED <<cache, budget>>

Role == pass.order[pass.next]

RoleKind == pass.spec.roles[Role].kind

Seen(r) == LET k == pass.spec.roles[r].kind IN Read("workloads")[k, r]

\* Faulty variant: the dependencies only have to exist.
DependenciesExist ==
  \A d \in Range(pass.spec.roles[Role].deps) : Seen(d).exists

\* CheckDependencyReady.  A dependency whose workload is not found is an error.
DependenciesReady ==
  \A d \in Range(pass.spec.roles[Role].deps) :
    Seen(d).exists /\ WorkloadReady(pass.spec.roles[d].kind, Seen(d))

\* Faulty variant: the roles that have to wait are passed over.
PassOverWaiting ==
  /\ pass.at = "role"
  /\ ~DependenciesReady
  /\ pass' = [pass EXCEPT !.at = "cleanup"]
  /\ queued' = TRUE
  /\ UNCHANGED <<api, cache, everReady, budget>>

\* The early return of the role loop, RequeueAfter.
WaitForDependencies ==
  /\ pass.at = "role"
  /\ ~DependenciesReady
  /\ Abort /\ queued' = TRUE
  /\ UNCHANGED <<api, cache, everReady, budget>>

\* InjectConfig: the role's ConfigMap, patched unless the cached copy agrees.
ConfigAfter ==
  LET topology == Topology(pass.spec)
  IN  IF Read("configs")[Role] = topology THEN api.configs[Role] ELSE topology

\* The workload, likewise.
WorkloadAfter ==
  LET size == pass.spec.roles[Role].size
      w == api.workloads[RoleKind, Role]
  IN  IF Seen(Role).exists /\ Seen(Role).replicas = size
        THEN w ELSE [w EXCEPT !.exists = TRUE, !.replicas = size]

\* WorkloadReconciler.Reconciler: the config, then the workload.
ReconcileWorkload ==
  /\ pass.at = "role"
  /\ DependenciesReady
  /\ Write(WithWorkload([api EXCEPT !.configs[Role] = ConfigAfter],
                        <<RoleKind, Role>>, WorkloadAfter),
           queued)
  /\ pass' = [pass EXCEPT !.at = "report"]
  /\ UNCHANGED <<cache, budget>>

\* ReconcileScalingAdapter, on the set of roles that have an adapter.
AdapterEnabled == pass.spec.roles[Role].adapter

AdapterChange == (Role \in Read("adapters")) # AdapterEnabled

AdapterRefused == AdapterChange /\ (Role \in api.adapters) = AdapterEnabled

AdaptersAfter ==
  IF ~AdapterChange THEN api.adapters
  ELSE IF AdapterEnabled THEN api.adapters \cup {Role} ELSE api.adapters \ {Role}

\* The rest of a role's iteration: the headless service of a StatefulSet,
\* which needs the cached StatefulSet; the scaling adapter; the role status,
\* which needs the cached workload.
ReportRole ==
  /\ pass.at = "report"
  /\ LET found == Seen(Role).exists
         status == RoleStatus(RoleKind, Seen(Role))
         early == AdapterRefused \/ (RoleKind = "StatefulSet" /\ ~found)
     IN  /\ api' = IF early THEN api ELSE [api EXCEPT !.adapters = AdaptersAfter]
         /\ IF early \/ ~found
              THEN Abort /\ queued' = TRUE
              ELSE /\ pass' = [pass EXCEPT !.at = Advance(pass.next + 1),
                                           !.next = @ + 1,
                                           !.fresh[Role] = status,
                                           !.update = @ \/ pass.status.roles[Role] # status]
                   /\ UNCHANGED queued
  /\ UNCHANGED <<cache, everReady, budget>>

\* Faulty variant: one ready role is enough.
SomeReady == \E r \in Range(pass.order) : pass.fresh[r].ready = pass.fresh[r].replicas

\* The Ready condition of a pass.
AllReady == \A r \in Range(pass.order) : pass.fresh[r].ready = pass.fresh[r].replicas

\* updateRBGStatus: the fresh role statuses and the Ready condition over the
\* status the pass started from.  Skipped when no role status has changed.
StatusAfter ==
  [pass.status EXCEPT
     !.roles = [r \in Roles |-> IF pass.fresh[r].known THEN pass.fresh[r] ELSE @[r]],
     !.ready = IF AllReady THEN "True" ELSE "False"]

UpdateStatus ==
  /\ pass.at = "status"
  /\ api' = IF pass.update THEN [api EXCEPT !.group.status = StatusAfter] ELSE api
  /\ pass' = [pass EXCEPT !.at = "cleanup"]
  /\ UNCHANGED <<cache, queued, everReady, budget>>

\* Faulty variant: the kind is not compared.
OrphanByName(k, r) == r \notin DOMAIN pass.spec.roles

\* A workload the spec of the pass has no role for.
Orphan(k, r) == ~(r \in DOMAIN pass.spec.roles /\ pass.spec.roles[r].kind = k)

\* CleanupOrphanedScalingAdapters: the adapters of roles that are gone.
UnownedAdapters == Read("adapters") \ DOMAIN pass.spec.roles

\* What is listed is deleted one by one, in any order.  Deleting what is already
\* gone is an error, and what is left of the list stays.
Deletions(listed, there) ==
  IF listed \subseteq there THEN {listed} ELSE SUBSET (listed \cap there)

\* deleteRoles: what the caches list and the spec does not name.  An error does
\* not keep the other kinds from being cleaned up.
Cleanup ==
  /\ pass.at = "cleanup"
  /\ LET there   == {kr \in Kinds \X Roles : api.workloads[kr].exists}
         orphans == {kr \in Kinds \X Roles :
                       Read("workloads")[kr].exists /\ Orphan(kr[1], kr[2])}
         failed  == ~(orphans \subseteq there /\ UnownedAdapters \subseteq api.adapters)
     IN  \E deleted \in SUBSET orphans, adapters \in Deletions(UnownedAdapters, api.adapters) :
           /\ \A k \in Kinds : LET ofKind == {k} \X Roles
                               IN  deleted \cap ofKind \in Deletions(orphans \cap ofKind, there)
           /\ Write([api EXCEPT !.workloads = [kr \in Kinds \X Roles |->
                                                IF kr \in deleted THEN NoWorkload ELSE @[kr]],
                                !.adapters = @ \ adapters],
                    queued \/ failed)
  /\ Abort
  /\ UNCHANGED <<cache, budget>>

\* An API call fails, or the controller is restarted: a restart lists every
\* group and so queues the key.
Fail ==
  /\ budget.failure > 0
  /\ budget' = [budget EXCEPT !.failure = @ - 1]
  /\ Abort /\ queued' = TRUE
  /\ UNCHANGED <<cache, everReady>>

PassFails ==
  /\ pass.at # "idle"
  /\ Fail
  /\ UNCHANGED api

\* The same, between the config and the workload.
WorkloadFails ==
  /\ pass.at = "role"
  /\ DependenciesReady
  /\ Fail
  /\ api' = [api EXCEPT !.configs[Role] = ConfigAfter]

Controller ==
  Begin \/ ReconcilePodGroup \/ WaitForDependencies \/ ReconcileWorkload \/ ReportRole
    \/ UpdateStatus \/ Cleanup

(***************************************************************************)
(* The informers.                                                          *)
(***************************************************************************)
Deliver(new, event) ==
  /\ new # cache
  /\ cache' = new
  /\ queued' = (queued \/ event)
  /\ UNCHANGED <<api, pass, everReady, budget>>

SyncGroup ==
  /\ "group" \in Lag
  /\ Deliver([cache EXCEPT !.group = api.group], cache.group.spec # api.group.spec)

SyncWorkloads(k) ==
  /\ "workloads" \in Lag
  /\ LET new == [kr \in Kinds \X Roles |->
                   IF kr[1] = k THEN api.workloads[kr] ELSE cache.workloads[kr]]
     IN  Deliver([cache EXCEPT !.workloads = new], WorkloadEvent(cache.workloads, new))

SyncConfigs ==
  /\ "configs" \in Lag
  /\ Deliver([cache EXCEPT !.configs = api.configs], FALSE)

SyncAdapters ==
  /\ "adapters" \in Lag
  /\ Deliver([cache EXCEPT !.adapters = api.adapters], FALSE)

SyncPodGroup ==
  /\ "podGroup" \in Lag
  /\ Deliver([cache EXCEPT !.podGroup = api.podGroup], TRUE)

Informers ==
  SyncGroup \/ (\E k \in Kinds : SyncWorkloads(k)) \/ SyncConfigs \/ SyncAdapters \/ SyncPodGroup

(***************************************************************************)
(* The workload controllers and the kubelet (external).                    *)
(***************************************************************************)
SetWorkload(k, r, w) ==
  /\ Write(WithWorkload(api, <<k, r>>, w), queued)
  /\ UNCHANGED <<cache, pass>>

\* The controller of a workload brings its status in line with its spec.
Observe(k, r) ==
  LET w == api.workloads[k, r]
  IN  /\ w.exists
      /\ w.reported # w.replicas
      /\ SetWorkload(k, r, [w EXCEPT !.reported = w.replicas,
                                     !.ready = IF @ > w.replicas THEN w.replicas ELSE @])
      /\ UNCHANGED budget

ReplicaReady(k, r) ==
  LET w == api.workloads[k, r]
  IN  /\ w.ready < w.reported
      /\ SetWorkload(k, r, [w EXCEPT !.ready = @ + 1])
      /\ UNCHANGED budget

ReplicaUnready(k, r) ==
  LET w == api.workloads[k, r]
  IN  /\ budget.blip > 0
      /\ w.ready > 0
      /\ SetWorkload(k, r, [w EXCEPT !.ready = @ - 1])
      /\ budget' = [budget EXCEPT !.blip = @ - 1]

\* The scheduler writes the PodGroup's status, or its informer resyncs.
PodGroupEvent ==
  /\ api.podGroup # None
  /\ ~queued
  /\ queued' = TRUE
  /\ UNCHANGED <<api, cache, pass, everReady, budget>>

Cluster ==
  \/ PodGroupEvent
  \/ \E k \in Kinds, r \in Roles : Observe(k, r) \/ ReplicaReady(k, r) \/ ReplicaUnready(k, r)

-----------------------------------------------------------------------------
Next ==
  (\E g \in Specs : Edit(g)) \/ Controller \/ PassFails \/ WorkloadFails \/ Informers \/ Cluster

Spec == Init /\ [][Next]_vars

\* The workqueue hands out the key, a pass goes on, watches deliver and the
\* workload controllers act.
ControllerFairness ==
  /\ WF_vars(Controller)
  /\ WF_vars(SyncGroup)
  /\ \A k \in Kinds : WF_vars(SyncWorkloads(k))
  /\ WF_vars(SyncConfigs)
  /\ WF_vars(SyncAdapters)
  /\ WF_vars(SyncPodGroup)
  /\ \A k \in Kinds, r \in Roles : WF_vars(Observe(k, r))

\* Pods may stay unready.
WeakSpec == Spec /\ ControllerFairness

\* Pods become ready in the end.
FairSpec ==
  WeakSpec /\ \A k \in Kinds, r \in Roles : WF_vars(ReplicaReady(k, r))

-----------------------------------------------------------------------------
Workload == [exists : BOOLEAN, replicas : Nat, ready : Nat, reported : Nat]

Status == [known : BOOLEAN, replicas : Nat, ready : Nat]

ConditionStatus == {"Unknown", "True", "False"}

GroupStatus ==
  [roles : [Roles -> Status], ready : ConditionStatus, restarting : ConditionStatus]

ObjectStates ==
  [group : [spec : Specs, status : GroupStatus],
   workloads : [Kinds \X Roles -> Workload],
   configs : [Roles -> {Topology(g) : g \in Specs} \cup {None}],
   adapters : SUBSET Roles,
   podGroup : Nat \cup {None}]

Stages == {"idle", "podGroup", "role", "report", "status", "cleanup"}

TypeOK ==
  /\ {api, cache} \subseteq ObjectStates
  /\ queued \in BOOLEAN
  /\ pass.at \in Stages
  /\ pass.spec \in Specs \cup {NoPass.spec}
  /\ pass.order \in Seq(Roles)
  /\ pass.status \in GroupStatus
  /\ pass.fresh \in [Roles -> Status]
  /\ pass.at \in {"role", "report"} => pass.next \in DOMAIN pass.order
  /\ everReady \in [Kinds \X Roles -> BOOLEAN]
  /\ budget \in [edit : Nat, failure : Nat, blip : Nat]

\* README.md, "Role-based Startup Control - Establish role dependencies and
\* startup sequence": a workload is created only when those of the role's
\* dependencies have, at some time, had all their replicas ready.
StartsInOrder ==
  [][\A r \in Roles :
       (\E k \in Kinds : api'.workloads[k, r].exists /\ ~api.workloads[k, r].exists)
         => \A d \in Range(pass.spec.roles[r].deps) : everReady[pass.spec.roles[d].kind, d]
    ]_vars

\* The kinds whose readiness is measured against the spec.
Measured == {"Deployment", "StatefulSet"}

\* The Ready condition becomes True only when every Deployment and StatefulSet
\* of the group has had all its replicas ready.
ReadyEarned ==
  [][(api.group.status.ready # "True" /\ api'.group.status.ready = "True") =>
       \A r \in DOMAIN pass.spec.roles :
         pass.spec.roles[r].kind \in Measured => everReady[pass.spec.roles[r].kind, r]
    ]_vars

\* deleteRoles runs last in a pass: a role whose kind has changed loses its old
\* workload only when it has the new one.
ReplacedBeforeRemoved ==
  [][\A k \in Kinds, r \in DOMAIN pass.spec.roles :
       (api.workloads[k, r].exists /\ ~api'.workloads[k, r].exists)
         => api.workloads[pass.spec.roles[r].kind, r].exists]_vars

\* The pod group is reconciled first: a gang-scheduled group creates a workload
\* only when the PodGroup asks for exactly the pods of all its roles.
GangFirst ==
  [][(\E k \in Kinds, r \in Roles :
        api'.workloads[k, r].exists /\ ~api.workloads[k, r].exists)
       => (pass.spec.gang => api.podGroup = GroupSize(pass.spec))]_vars

\* Everything is as the spec asks: the workloads, no others, their configs,
\* the scaling adapters and the pod group.
Settled ==
  LET g == api.group.spec
      want(k, r) == r \in DOMAIN g.roles /\ g.roles[r].kind = k
  IN  /\ \A k \in Kinds, r \in Roles :
           /\ api.workloads[k, r].exists <=> want(k, r)
           /\ want(k, r) => /\ api.workloads[k, r].replicas = g.roles[r].size
                            /\ api.workloads[k, r].ready = g.roles[r].size
      /\ \A r \in DOMAIN g.roles : api.configs[r] = Topology(g)
      /\ api.adapters = {r \in DOMAIN g.roles : g.roles[r].adapter}
      /\ api.podGroup = PodGroupWanted(g)

\* Once the edits and the failures are over, the group gets there.
GroupConverges == <>[]Settled

\* The role statuses end up telling the truth about the workloads.
StatusSettles ==
  <>[](\A r \in DOMAIN api.group.spec.roles :
         LET k == api.group.spec.roles[r].kind
         IN  api.group.status.roles[r] = RoleStatus(k, api.workloads[k, r]))

GroupReady ==
  \A r \in DOMAIN api.group.spec.roles :
    LET w == api.workloads[api.group.spec.roles[r].kind, r]
    IN  w.exists /\ w.ready = api.group.spec.roles[r].size

\* rolebasedgroup_types.go, RoleBasedGroupReady: "means the rbg is available".
\* A group that stays short of replicas does not stay Ready.
ReadyFalls == <>[]~GroupReady => <>[](api.group.status.ready # "True")
=============================================================================
