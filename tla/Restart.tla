------------------------------- MODULE Restart -------------------------------
(***************************************************************************)
(* The pod controller (internal/controller/workloads/pod_controller.go)    *)
(* beside the group controller: when a pod of a role whose policy is       *)
(* RecreateRBGOnPodRestart restarts a container or is deleted, the         *)
(* workloads of all roles are deleted one after the other, each time       *)
(* waiting until the group controller has created the workload again       *)
(* (RecreateWorkload of the three workload reconcilers).                   *)
(*                                                                         *)
(* Both controllers write the whole status of the group, each from the     *)
(* copy it read when its pass began.  The informers keep up here: what the *)
(* two controllers do to each other needs no lag.                          *)
(***************************************************************************)
EXTENDS RoleGroup

CONSTANT Recreate  \* the roles whose restart policy is RecreateRBGOnPodRestart

\* A group whose roles cannot be sorted does not get as far as a restart.
ASSUME RestartAssumption ==
  /\ Recreate \subseteq Roles
  /\ Lag = {}
  /\ \A g \in Specs :
       /\ DependenciesKnown(DepsOf(g))
       /\ ~SortResult(KeysOf(g), DepsOf(g)).cycle

VARIABLES
  restart,        \* the pod controller's pass in progress
  restartQueued,  \* the key of the group is in the pod controller's workqueue
  pods,           \* roles with restarted containers, and with pods on their way out
  survivors       \* history: workloads from before the restart in progress

restartVars == <<vars, restart, restartQueued, pods, survivors>>

WorkloadKeys == Kinds \X Roles

NoRestart ==
  [at |-> "idle", spec |-> NoPass.spec, status |-> NoGroupStatus, order |-> <<>>, next |-> 0]

\* A workload that is deleted or that shrinks has pods deleted; the pods of a
\* deleted workload take their restarted containers with them.
Follow(new) ==
  LET old == api.workloads
  IN  /\ pods' = [restarted   |-> {kr \in pods.restarted : new[kr].exists},
                  terminating |-> pods.terminating \cup
                                    {kr \in WorkloadKeys : new[kr].reported < old[kr].reported}]
      /\ survivors' = {kr \in survivors : new[kr].exists}

\* What the rest of the system does leaves the pod controller alone.
Beside == Follow(api'.workloads) /\ UNCHANGED <<restart, restartQueued>>

\* A group that is up and at rest.
Up(g) ==
  [group |-> [spec |-> g,
              status |-> [roles |-> [r \in Roles |->
                            IF r \in DOMAIN g.roles
                              THEN [known |-> TRUE, replicas |-> g.roles[r].size,
                                    ready |-> g.roles[r].size]
                              ELSE NoStatus],
                          ready |-> "True", restarting |-> "Unknown"]],
   workloads |-> [kr \in WorkloadKeys |->
                    LET r == kr[2]
                    IN  IF r \in DOMAIN g.roles /\ kr[1] = g.roles[r].kind
                          THEN [exists |-> TRUE, replicas |-> g.roles[r].size,
                                ready |-> g.roles[r].size, reported |-> g.roles[r].size]
                          ELSE NoWorkload],
   configs |-> [r \in Roles |-> IF r \in DOMAIN g.roles THEN Topology(g) ELSE None],
   adapters |-> {r \in DOMAIN g.roles : g.roles[r].adapter},
   podGroup |-> PodGroupWanted(g)]

RestartInit ==
  /\ \E g \in Specs : api = Up(g)
  /\ cache = api
  /\ queued = FALSE
  /\ pass = NoPass
  /\ everReady = [kr \in WorkloadKeys |-> api.workloads[kr].exists]
  /\ budget = [edit |-> MaxEdits, failure |-> MaxFailures, blip |-> MaxBlips]
  /\ restart = NoRestart
  /\ restartQueued = FALSE
  /\ pods = [restarted |-> {}, terminating |-> {}]
  /\ survivors = {}

-----------------------------------------------------------------------------
(***************************************************************************)
(* Pods and their events.                                                  *)
(***************************************************************************)
\* A container of a ready pod restarts.
PodRestarts(k, r) ==
  LET w == api.workloads[k, r]
  IN  /\ budget.blip > 0
      /\ w.ready > 0
      /\ Write(WithWorkload(api, <<k, r>>, [w EXCEPT !.ready = @ - 1]), queued)
      /\ budget' = [budget EXCEPT !.blip = @ - 1]
      /\ pods' = [pods EXCEPT !.restarted = @ \cup {<<k, r>>}]
      /\ UNCHANGED <<cache, pass, restart, restartQueued, survivors>>

\* podToRBG: a pod whose container restarted or that is being deleted queues
\* the group, unless the group is marked as restarting, has no such role, or
\* the role has another policy.
Triggers(r) ==
  /\ Read("group").status.restarting # "True"
  /\ r \in DOMAIN Read("group").spec.roles
  /\ r \in Recreate

\* ContainerRestarted, PodDeleted: a container of one of the role's pods has
\* restarted, or one of them is being deleted.
RestartedOrDeleted(kr) == kr \in pods.restarted \cup pods.terminating

\* An event of such a pod, one of any number of them.
PodEvent(kr) ==
  /\ RestartedOrDeleted(kr)
  /\ ~restartQueued /\ Triggers(kr[2])
  /\ restartQueued' = TRUE
  /\ UNCHANGED <<vars, restart, pods, survivors>>

\* The last event of a role's pods that are being deleted.
PodsGone(kr) ==
  /\ kr \in pods.terminating
  /\ pods' = [pods EXCEPT !.terminating = @ \ {kr}]
  /\ restartQueued' = (restartQueued \/ Triggers(kr[2]))
  /\ UNCHANGED <<vars, restart, survivors>>

(***************************************************************************)
(* PodReconciler.Reconcile, restartRBG.                                    *)
(***************************************************************************)
Target == LET r == restart.order[restart.next] IN <<restart.spec.roles[r].kind, r>>

\* Faulty variant: a role too many.
StageTooLate(n) == IF n <= Len(restart.order) + 1 THEN "delete" ELSE "clear"

\* Faulty variant: the last role is left out.
StageTooSoon(n) == IF n < Len(restart.order) THEN "delete" ELSE "clear"

\* The stage after marking, or after a role.
StageAt(n) == IF n <= Len(restart.order) THEN "delete" ELSE "clear"

\* Reconcile reads the group: spec and status are a snapshot from here on.
BeginRestart ==
  /\ restartQueued /\ restart = NoRestart
  /\ LET g == Read("group").spec
     IN  /\ restart' = [at |-> "mark", spec |-> g, status |-> Read("group").status,
                        order |-> SortResult(KeysOf(g), DepsOf(g)).order, next |-> 1]
         /\ survivors' = {kr \in WorkloadKeys :
                            /\ api.workloads[kr].exists
                            /\ kr[2] \in DOMAIN g.roles
                            /\ kr[1] = g.roles[kr[2]].kind}
  /\ restartQueued' = FALSE
  /\ UNCHANGED <<vars, pods>>

\* setRestartCondition: the whole status, from the snapshot.
SetRestartCondition(value) ==
  api' = [api EXCEPT !.group.status = [restart.status EXCEPT !.restarting = value]]

MarkRestarting ==
  /\ restart.at = "mark"
  /\ SetRestartCondition("True")
  /\ restart' = [restart EXCEPT !.at = StageAt(1)]
  /\ UNCHANGED <<cache, queued, pass, everReady, budget, restartQueued, pods, survivors>>

\* Faulty variant: a workload that is not ready is taken to be new already.
ToDelete(w) == w.exists /\ w.ready = w.replicas

\* RecreateWorkload passes over a workload it does not find.
Found(w) == w.exists

NextTarget ==
  restart' = [restart EXCEPT !.at = StageAt(restart.next + 1), !.next = @ + 1]

SkipWorkload ==
  /\ restart.at = "delete"
  /\ ~Found(Read("workloads")[Target])
  /\ NextTarget
  /\ UNCHANGED <<vars, restartQueued, pods, survivors>>

DeleteWorkload ==
  /\ restart.at = "delete"
  /\ Found(Read("workloads")[Target])
  /\ LET new == WithWorkload(api, Target, NoWorkload)
     IN  Write(new, queued) /\ Follow(new.workloads)
  /\ restart' = [restart EXCEPT !.at = "await"]
  /\ UNCHANGED <<cache, pass, budget, restartQueued>>

\* The poll ends when a workload of that name is there.
AwaitWorkload ==
  /\ restart.at = "await"
  /\ Read("workloads")[Target].exists
  /\ NextTarget
  /\ UNCHANGED <<vars, restartQueued, pods, survivors>>

ClearRestarting ==
  /\ restart.at = "clear"
  /\ SetRestartCondition("False")
  /\ restart' = NoRestart
  /\ UNCHANGED <<cache, queued, pass, everReady, budget, restartQueued, pods, survivors>>

PodController ==
  BeginRestart \/ MarkRestarting \/ SkipWorkload \/ DeleteWorkload \/ AwaitWorkload
    \/ ClearRestarting

\* An API error, or the poll times out: the key is retried, from the top.
RestartFails ==
  /\ restart.at # "idle"
  /\ budget.failure > 0
  /\ budget' = [budget EXCEPT !.failure = @ - 1]
  /\ restart' = NoRestart
  /\ restartQueued' = TRUE
  /\ UNCHANGED <<api, cache, queued, pass, everReady, pods, survivors>>

\* Faulty variant: the groups listed at the start are not queued.
ManagerRestartsAsleep ==
  /\ budget.failure > 0
  /\ budget' = [budget EXCEPT !.failure = @ - 1]
  /\ Abort /\ queued' = FALSE
  /\ restart' = NoRestart
  /\ restartQueued' = FALSE
  /\ UNCHANGED <<api, cache, everReady, pods, survivors>>

\* The manager restarts: both passes and both queues are lost.  Every group is
\* listed and so queued; the pods are listed too, but a creation is no event
\* for the pod controller.
ManagerRestarts ==
  /\ budget.failure > 0
  /\ Fail
  /\ restart' = NoRestart
  /\ restartQueued' = FALSE
  /\ UNCHANGED <<api, pods, survivors>>

-----------------------------------------------------------------------------
\* The group controller and the workload controllers.  Edits, the group
\* controller's own errors and lost readiness are RoleGroup's subject.
Group ==
  /\ \/ Controller
     \/ \E k \in Kinds, r \in Roles : Observe(k, r) \/ ReplicaReady(k, r)
  /\ Beside

RestartNext ==
  \/ Group
  \/ \E k \in Kinds, r \in Roles : PodRestarts(k, r)
  \/ \E kr \in WorkloadKeys : PodEvent(kr) \/ PodsGone(kr)
  \/ PodController
  \/ RestartFails
  \/ ManagerRestarts

RestartSpec == RestartInit /\ [][RestartNext]_restartVars

\* As FairSpec of RoleGroup; the pod controller's queue hands out the key, a
\* restart goes on, and pods that are being deleted go in the end.  Nothing
\* makes a restarted pod emit further events.
FairRestartSpec ==
  /\ RestartSpec
  /\ WF_restartVars(Controller /\ Beside)
  /\ \A k \in Kinds, r \in Roles :
       WF_restartVars(Observe(k, r) /\ Beside) /\ WF_restartVars(ReplicaReady(k, r) /\ Beside)
  /\ WF_restartVars(PodController)
  /\ \A kr \in WorkloadKeys : WF_restartVars(PodsGone(kr))

-----------------------------------------------------------------------------
RestartTypeOK ==
  /\ TypeOK
  /\ restart.at \in {"idle", "mark", "delete", "await", "clear"}
  /\ restart.spec \in Specs \cup {NoPass.spec}
  /\ restart.status \in GroupStatus
  /\ restart.order \in Seq(Roles)
  /\ restart.at \in {"delete", "await"} => restart.next \in DOMAIN restart.order
  /\ restartQueued \in BOOLEAN
  /\ pods \in [{"restarted", "terminating"} -> SUBSET WorkloadKeys]
  /\ survivors \subseteq WorkloadKeys

\* constant.go, RecreateRBGOnPodRestart: "will recreate all the pods in the
\* rbg".  When the pod controller is about to report the restart as completed,
\* no role runs a workload from before it, whatever failed on the way.
RestartWhole == restart.at = "clear" => survivors = {}

\* restartRBG goes through the roles in the order of their dependencies: a
\* workload is taken down only when none of the roles it depends on still runs
\* a workload from before the restart.
RestartInOrder ==
  [][\A kr \in survivors \ survivors' :
       (restart.at = "delete" /\ kr[2] \in DOMAIN restart.spec.roles) =>
         \A d \in Range(restart.spec.roles[kr[2]].deps) :
           <<restart.spec.roles[d].kind, d>> \notin survivors]_restartVars

\* The pod controller waits for a workload that the group controller creates
\* only when it is woken and its dependency gate is open: no restart waits for
\* ever.
RestartCompletes == restart.at # "idle" ~> restart.at = "idle"

\* If the restarts come to an end, the group comes back as its spec asks.
GroupRecovers == <>[](restart.at = "idle" /\ ~restartQueued) => <>[]Settled

\* podToRBG: "avoid restarting rbg repeatedly".  Pods restart finitely often,
\* and so does the group.
RestartsEnd == <>[](restart.at = "idle")
=============================================================================
