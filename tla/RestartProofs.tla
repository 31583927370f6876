---------------------------- MODULE RestartProofs ----------------------------
(***************************************************************************)
(* Theorems about Restart, for every group whose roles can be sorted and   *)
(* any bounds: a restart that reports its end is complete, and it has gone *)
(* through the roles in the order of their dependencies.                   *)
(*                                                                         *)
(* The steps of the group controller are those of RoleGroup, and so are    *)
(* the facts about them; that the sort lists every role after its          *)
(* dependencies is OrderCorrect of RoleGroupProofs.                        *)
(***************************************************************************)
EXTENDS Restart, RoleGroupProofs

\* The roles that the restart is through with.
Done == {restart.order[i] : i \in 1 .. restart.next - 1}

\* A workload the restart in progress has still to delete.
ToBeDeleted(kr) ==
  /\ kr[2] \in DOMAIN restart.spec.roles
  /\ kr[1] = restart.spec.roles[kr[2]].kind
  /\ kr[2] \notin Done

RestartStages == {"idle", "mark", "delete", "await", "clear"}

Restarts ==
  [at : RestartStages, spec : Specs \cup {NoPass.spec}, status : GroupStatus,
   order : Seq(Roles), next : Nat]

RestartType ==
  /\ restart \in Restarts
  /\ restartQueued \in BOOLEAN
  /\ pods \in [restarted : SUBSET WorkloadKeys, terminating : SUBSET WorkloadKeys]
  /\ survivors \in SUBSET WorkloadKeys

\* How far the restart has come.
Progress ==
  /\ restart.at # "idle" =>
       /\ restart.spec = api.group.spec
       /\ restart.order = OrderOf(restart.spec)
  /\ restart.at = "mark" => restart.next = 1
  /\ restart.at \in {"delete", "await"} => restart.next \in 1 .. Len(restart.order)
  /\ restart.at = "clear" => restart.next = Len(restart.order) + 1

\* What it has left.
LeftOver ==
  /\ \A kr \in survivors : api.workloads[kr].exists
  /\ restart.at # "idle" => \A kr \in survivors : ToBeDeleted(kr)
  /\ restart.at = "await" => Target \notin survivors

\* The user leaves the group alone, so everyone works on the same spec.
SameSpec == pass.at # "idle" => pass.spec = api.group.spec

\* The inductive invariant.
RestartInv == PassInv /\ RestartType /\ Progress /\ LeftOver /\ SameSpec

-----------------------------------------------------------------------------
(***************************************************************************)
(* Reads, and the order of the roles.                                      *)
(***************************************************************************)
\* The informers keep up.
LEMMA NoLagHere ==
  ASSUME NEW object
  PROVE  Read(object) = api[object]
  BY RestartAssumption DEF Read

\* The roles of every spec can be sorted.
LEMMA SortFacts ==
  ASSUME NEW g \in Specs
  PROVE  /\ OrderOf(g) \in Seq(Roles) /\ DOMAIN OrderOf(g) = 1 .. Len(OrderOf(g))
         /\ Len(OrderOf(g)) \in Nat
         /\ Range(OrderOf(g)) = DOMAIN g.roles
         /\ \A i \in DOMAIN OrderOf(g) :
              Range(g.roles[OrderOf(g)[i]].deps) \subseteq Range(SubSeq(OrderOf(g), 1, i-1))
<1>1. Sortable(g)
  BY RestartAssumption DEF Sortable
<1>2. OrderOf(g) \in Seq(Roles)
  BY <1>1, OrderCorrect
<1> QED
  BY <1>1, <1>2, OrderCorrect

\* What a restart in progress works on.
LEMMA RestartFacts ==
  ASSUME RestartInv, restart.at # "idle"
  PROVE  /\ restart \in Restarts
         /\ restart.spec \in Specs /\ restart.spec = api.group.spec
         /\ restart.order = OrderOf(restart.spec)
         /\ Len(restart.order) \in Nat /\ DOMAIN restart.order = 1 .. Len(restart.order)
         /\ restart.next \in Nat
         /\ restart.at \in {"delete", "await"} =>
              /\ restart.next \in 1 .. Len(restart.order)
              /\ Target \in Kinds \X Roles
<1>1. /\ restart \in Restarts /\ restart.next \in Nat
      /\ restart.spec \in Specs /\ restart.spec = api.group.spec
      /\ restart.order = OrderOf(restart.spec)
  BY DEF RestartInv, RestartType, Restarts, Progress, PassInv, TypeInv, ObjectStates
<1>2. /\ Len(restart.order) \in Nat /\ DOMAIN restart.order = 1 .. Len(restart.order)
      /\ Range(restart.order) = DOMAIN restart.spec.roles
  BY <1>1, SortFacts
<1>3. ASSUME restart.at \in {"delete", "await"}
      PROVE  restart.next \in 1 .. Len(restart.order) /\ Target \in Kinds \X Roles
  <2>1. restart.next \in 1 .. Len(restart.order)
    BY <1>3 DEF RestartInv, Progress
  <2>2. restart.order[restart.next] \in DOMAIN restart.spec.roles
    BY <1>2, <2>1 DEF Range
  <2>3. \A r \in DOMAIN restart.spec.roles : r \in Roles /\ restart.spec.roles[r].kind \in Kinds
    BY <1>1, GroupAssumption DEF RoleSpec
  <2> QED
    BY <2>1, <2>2, <2>3 DEF Target
<1> QED
  BY <1>1, <1>2, <1>3

-----------------------------------------------------------------------------
(***************************************************************************)
(* The group controller and the workload controllers beside a restart.     *)
(***************************************************************************)
\* A role of the group keeps its workload.
RolesKept ==
  \A kr \in Kinds \X Roles :
    (/\ api.workloads[kr].exists
     /\ kr[2] \in DOMAIN api.group.spec.roles
     /\ kr[1] = api.group.spec.roles[kr[2]].kind) => api'.workloads[kr].exists

\* They leave the spec alone, and delete no workload that it asks for.
LEMMA GroupStep ==
  ASSUME RestartInv, Group
  PROVE  PassInv' /\ SpecKept /\ SameSpec' /\ RolesKept /\ Beside
<1>1. PassInv /\ Beside
  BY DEF Group, RestartInv
<1>2. CASE Controller
  <2>1. PassInv' /\ SpecKept
    BY <1>1, <1>2, ControllerStep DEF Keeps
  <2>2. SameSpec'
    <3>1. Read("group") = api.group
      BY NoLagHere
    <3>2. SamePass \/ (pass'.at = "podGroup" /\ pass'.spec = Read("group").spec)
      BY <1>1, <1>2, ControllerStep
    <3> QED
      BY <2>1, <3>1, <3>2 DEF SameSpec, SamePass, SpecKept, RestartInv
  <2>3. RolesKept
    <3>1. CASE NoneDeleted
      BY <3>1 DEF RolesKept, NoneDeleted
    <3>2. CASE Cleanup
      <4>1. pass.at = "cleanup" /\ pass.spec = api.group.spec
        BY <3>2 DEF Cleanup, RestartInv, SameSpec
      <4>2. \A k \in Kinds, r \in Roles :
              api.workloads[<<k, r>>].exists /\ ~api'.workloads[<<k, r>>].exists => Orphan(k, r)
        BY <1>1, <3>2, CleanupStep
      <4> QED
        BY <4>1, <4>2 DEF RolesKept, Orphan
    <3> QED
      BY <1>1, <1>2, <3>1, <3>2, ControllerStep
  <2> QED
    BY <1>1, <2>1, <2>2, <2>3
<1>3. CASE \E k \in Kinds, r \in Roles : Observe(k, r) \/ ReplicaReady(k, r)
  <2>1. Keeps /\ SamePass /\ Quiet
    BY <1>1, <1>3, ClusterStep DEF Cluster
  <2> QED
    BY <1>1, <2>1 DEF Keeps, SamePass, Quiet, SpecKept, NoneDeleted, RolesKept, SameSpec, RestartInv
<1> QED
  BY <1>2, <1>3 DEF Group

\* The pods of a workload follow it.
LEMMA FollowType ==
  ASSUME RestartType, NEW new, Follow(new)
  PROVE  /\ pods' \in [restarted : SUBSET WorkloadKeys, terminating : SUBSET WorkloadKeys]
         /\ survivors' \in SUBSET WorkloadKeys
         /\ survivors' = {kr \in survivors : new[kr].exists}
  BY DEF Follow, RestartType

\* The restart is where it was, and has no more left than it had.
LEMMA BesideStep ==
  ASSUME RestartInv, Group
  PROVE  RestartInv'
<1>1. PassInv' /\ SpecKept /\ SameSpec' /\ RolesKept /\ Beside
  BY GroupStep
<1>2. restart' = restart /\ restartQueued' = restartQueued /\ Follow(api'.workloads)
  BY <1>1 DEF Beside
<1>3. RestartType' /\ survivors' = {kr \in survivors : api'.workloads[kr].exists}
  BY <1>2, FollowType DEF RestartInv, RestartType
<1>4. Progress'
  BY <1>1, <1>2 DEF RestartInv, Progress, SpecKept
<1>5. LeftOver'
  BY <1>2, <1>3 DEF RestartInv, LeftOver, ToBeDeleted, Done, Target
<1> QED
  BY <1>1, <1>3, <1>4, <1>5 DEF RestartInv

-----------------------------------------------------------------------------
(***************************************************************************)
(* The steps of the pod controller, and of the pods.                       *)
(***************************************************************************)
\* The group controller and its objects are left alone.
LEMMA GroupUntouched ==
  ASSUME RestartInv, UNCHANGED vars
  PROVE  PassInv' /\ SameSpec'
<1>1. TypeInv' /\ UNCHANGED <<api, pass>>
  BY DEF RestartInv, PassInv, TypeInv, vars
<1> QED
  BY <1>1, PassStays DEF RestartInv, SameSpec

\* Restarts and their pods are left alone.
LEMMA RestartUntouched ==
  ASSUME RestartInv, UNCHANGED <<api, restart, survivors>>
  PROVE  Progress' /\ LeftOver'
  BY DEF RestartInv, Progress, LeftOver, ToBeDeleted, Done, Target

\* A restart begins with a snapshot of the group.
LEMMA BeginRestartStep ==
  ASSUME RestartInv, BeginRestart
  PROVE  RestartInv'
<1> DEFINE g == api.group.spec
<1>1. Read("group") = api.group
  BY NoLagHere
<1>2. UNCHANGED vars /\ UNCHANGED pods /\ restartQueued' = FALSE /\ api' = api
  BY DEF BeginRestart, vars
<1>3. restart' = [at |-> "mark", spec |-> g, status |-> api.group.status,
                  order |-> OrderOf(g), next |-> 1]
  BY <1>1 DEF BeginRestart, OrderOf
<1>4. survivors' = {kr \in WorkloadKeys : /\ api.workloads[kr].exists
                                          /\ kr[2] \in DOMAIN g.roles
                                          /\ kr[1] = g.roles[kr[2]].kind}
  BY <1>1 DEF BeginRestart
<1>5. g \in Specs /\ api.group.status \in GroupStatus
  BY DEF RestartInv, PassInv, TypeInv, ObjectStates
<1>6. OrderOf(g) \in Seq(Roles)
  BY <1>5, SortFacts
<1>7. RestartType'
  BY <1>2, <1>3, <1>4, <1>5, <1>6 DEF RestartInv, RestartType, Restarts, RestartStages
<1>8. Progress'
  BY <1>2, <1>3 DEF Progress
<1>9. LeftOver'
  <2>1. Done' = {}
    BY <1>3 DEF Done
  <2> QED
    BY <1>2, <1>3, <1>4, <2>1 DEF LeftOver, ToBeDeleted
<1> QED
  BY <1>2, <1>7, <1>8, <1>9, GroupUntouched DEF RestartInv

\* The moves of a restart.
LEMMA RestartMoves ==
  ASSUME NEW p \in Restarts, NEW a \in RestartStages
  PROVE  LET new == [p EXCEPT !.at = a]
         IN  /\ new \in Restarts /\ new.at = a
             /\ new.spec = p.spec /\ new.order = p.order /\ new.next = p.next
  BY DEF Restarts

\* No restart is in progress.
LEMMA NoRestartType ==
  NoRestart \in Restarts /\ NoRestart.at = "idle"
<1>1. NoGroupStatus \in GroupStatus /\ <<>> \in Seq(Roles)
  BY DEF NoGroupStatus, GroupStatus, NoStatus, Status, ConditionStatus
<1> QED
  BY <1>1 DEF NoRestart, Restarts, RestartStages

\* The condition is written, with the rest of the status as it was read.
LEMMA ConditionWritten ==
  ASSUME RestartInv, restart.at # "idle", NEW value \in ConditionStatus,
         SetRestartCondition(value), UNCHANGED <<cache, queued, pass, everReady, budget>>
  PROVE  /\ PassInv' /\ SameSpec' /\ SpecKept /\ api'.workloads = api.workloads
<1> DEFINE s == [restart.status EXCEPT !.restarting = value]
<1>1. s \in GroupStatus
  BY RestartFacts DEF Restarts, GroupStatus
<1> HIDE DEF s
<1>2. api' = [api EXCEPT !.group.status = s]
  BY DEF SetRestartCondition, s
<1>3. api \in ObjectStates /\ api.group.spec \in Specs
  BY DEF RestartInv, PassInv, TypeInv, ObjectStates
<1>4. /\ api' \in ObjectStates /\ api'.workloads = api.workloads
      /\ api'.group.spec = api.group.spec
  BY <1>1, <1>2, <1>3, GroupWritten
<1>5. TypeInv'
  BY <1>4 DEF RestartInv, PassInv, TypeInv
<1> QED
  BY <1>4, <1>5, PassStays DEF RestartInv, SameSpec, SpecKept

\* The group is marked before its workloads are deleted.
LEMMA MarkRestartingStep ==
  ASSUME RestartInv, MarkRestarting
  PROVE  RestartInv'
<1>1. /\ restart.at = "mark" /\ restart.at # "idle" /\ restart.next = 1
      /\ restart' = [restart EXCEPT !.at = StageAt(1)]
      /\ UNCHANGED <<restartQueued, pods, survivors>>
  BY DEF MarkRestarting, RestartInv, Progress
<1>2. PassInv' /\ SameSpec' /\ SpecKept /\ api'.workloads = api.workloads
  <2>1. "True" \in ConditionStatus
    BY DEF ConditionStatus
  <2> QED
    BY <1>1, <2>1, ConditionWritten DEF MarkRestarting
<1>3. /\ StageAt(1) \in RestartStages /\ StageAt(1) \in {"delete", "clear"}
      /\ StageAt(1) = "delete" <=> 1 <= Len(restart.order)
  BY DEF StageAt, RestartStages
<1>4. /\ restart' \in Restarts /\ restart'.at = StageAt(1) /\ restart'.spec = restart.spec
      /\ restart'.order = restart.order /\ restart'.next = restart.next
  BY <1>1, <1>3, RestartFacts, RestartMoves
<1>5. RestartType'
  BY <1>1, <1>4 DEF RestartInv, RestartType
<1>6. Progress'
  <2>1. Len(restart.order) \in Nat
    BY <1>1, RestartFacts
  <2> QED
    BY <1>1, <1>2, <1>3, <1>4, <2>1 DEF RestartInv, Progress, SpecKept
<1>7. LeftOver'
  BY <1>1, <1>2, <1>3, <1>4 DEF RestartInv, LeftOver, ToBeDeleted, Done
<1> QED
  BY <1>2, <1>5, <1>6, <1>7 DEF RestartInv

\* The restart is through with a role that has nothing left from before it.
LEMMA NextTargetStep ==
  ASSUME RestartInv, restart.at \in {"delete", "await"}, Target \notin survivors, NextTarget,
         UNCHANGED <<vars, restartQueued, pods, survivors>>
  PROVE  RestartInv'
<1> DEFINE n == restart.next + 1
<1>1. /\ Len(restart.order) \in Nat /\ restart.next \in 1 .. Len(restart.order)
      /\ restart \in Restarts /\ n \in Nat
  BY RestartFacts
<1>2. /\ StageAt(n) \in RestartStages /\ StageAt(n) \in {"delete", "clear"}
      /\ StageAt(n) = "delete" <=> n <= Len(restart.order)
  BY DEF StageAt, RestartStages
<1>3. restart' = [restart EXCEPT !.at = StageAt(n), !.next = n]
  BY DEF NextTarget
<1>4. /\ restart' \in Restarts /\ restart'.at = StageAt(n) /\ restart'.spec = restart.spec
      /\ restart'.order = restart.order /\ restart'.next = n
  <2> HIDE DEF n
  <2> DEFINE a == StageAt(n)
  <2>1. a \in RestartStages /\ restart' = [restart EXCEPT !.at = a, !.next = n]
    BY <1>2, <1>3
  <2> HIDE DEF a
  <2>2. /\ restart' \in Restarts /\ restart'.at = a /\ restart'.spec = restart.spec
        /\ restart'.order = restart.order /\ restart'.next = n
    BY ONLY <1>1, <2>1 DEF Restarts
  <2> QED
    BY <2>2 DEF a
<1>5. UNCHANGED <<api, pass>>
  BY DEF vars
<1>6. RestartType'
  BY <1>4 DEF RestartInv, RestartType
<1>7. Progress'
  BY <1>1, <1>2, <1>4, <1>5 DEF RestartInv, Progress
<1>8. ASSUME NEW kr \in survivors
      PROVE  ToBeDeleted(kr)'
  <2>1. kr \in WorkloadKeys /\ ToBeDeleted(kr)
    BY DEF RestartInv, RestartType, LeftOver
  <2>2. kr[2] # restart.order[restart.next]
    BY <2>1 DEF WorkloadKeys, ToBeDeleted, Target
  <2>3. Done' = Done \cup {restart.order[restart.next]}
    <3>1. n - 1 = restart.next
      BY <1>1
    <3>2. Done' = {restart.order[i] : i \in 1 .. restart.next}
      BY <1>4, <3>1 DEF Done
    <3>3. \A i : i \in 1 .. restart.next <=> i \in 1 .. restart.next - 1 \/ i = restart.next
      BY <1>1
    <3> QED
      BY <3>2, <3>3 DEF Done
  <2> QED
    BY <1>4, <2>1, <2>2, <2>3 DEF ToBeDeleted
<1>9. LeftOver'
  BY <1>2, <1>4, <1>5, <1>8 DEF RestartInv, LeftOver
<1> QED
  BY <1>6, <1>7, <1>9, GroupUntouched DEF RestartInv

\* A workload that is not found is passed over.
LEMMA SkipWorkloadStep ==
  ASSUME RestartInv, SkipWorkload
  PROVE  RestartInv'
<1>1. Read("workloads") = api.workloads
  BY NoLagHere
<1>2. Target \notin survivors
  BY <1>1 DEF SkipWorkload, Found, RestartInv, LeftOver
<1> QED
  BY <1>2, NextTargetStep DEF SkipWorkload

\* The wait for the new workload is over.
LEMMA AwaitWorkloadStep ==
  ASSUME RestartInv, AwaitWorkload
  PROVE  RestartInv'
<1>1. Target \notin survivors
  BY DEF AwaitWorkload, RestartInv, LeftOver
<1> QED
  BY <1>1, NextTargetStep DEF AwaitWorkload

\* What DeleteWorkload does.
LEMMA Deleted ==
  ASSUME RestartInv, DeleteWorkload
  PROVE  /\ restart.at = "delete" /\ restart' = [restart EXCEPT !.at = "await"]
         /\ PassInv' /\ SameSpec' /\ SpecKept /\ RestartType'
         /\ survivors' = survivors \ {Target}
         /\ \A kr \in survivors' : api'.workloads[kr].exists
<1> DEFINE new == WithWorkload(api, Target, NoWorkload)
<1>1. /\ restart.at = "delete" /\ restart.at # "idle" /\ restart' = [restart EXCEPT !.at = "await"]
      /\ api' = new /\ Write(new, queued) /\ Follow(new.workloads)
      /\ UNCHANGED <<cache, pass, budget, restartQueued>>
  BY DEF DeleteWorkload, Write
<1>2. /\ Target \in Kinds \X Roles /\ restart \in Restarts
      /\ api \in ObjectStates /\ queued \in BOOLEAN
      /\ NoWorkload \in Workload /\ ~NoWorkload.exists
  BY <1>1, RestartFacts DEF RestartInv, PassInv, TypeInv, NoWorkload, Workload
<1>3. /\ new \in ObjectStates /\ new.group = api.group
      /\ new.workloads[Target] = NoWorkload
      /\ \A x \in Kinds \X Roles : x # Target => new.workloads[x] = api.workloads[x]
  BY <1>2, WorkloadWritten
<1> HIDE DEF new
<1>4. TypeInv'
  BY <1>1, <1>2, <1>3, Written DEF RestartInv, PassInv, TypeInv
<1>5. PassInv' /\ SameSpec' /\ SpecKept
  BY <1>1, <1>3, <1>4, PassStays DEF RestartInv, SameSpec, SpecKept
<1>6. /\ pods' \in [restarted : SUBSET WorkloadKeys, terminating : SUBSET WorkloadKeys]
      /\ survivors' \in SUBSET WorkloadKeys
      /\ survivors' = {kr \in survivors : new.workloads[kr].exists}
  BY <1>1, FollowType DEF RestartInv
<1>7. restart' \in Restarts
  <2>1. "await" \in RestartStages
    BY DEF RestartStages
  <2> QED
    BY <1>1, <1>2, <2>1, RestartMoves
<1>8. RestartType'
  BY <1>1, <1>6, <1>7 DEF RestartInv, RestartType
<1>9. \A kr \in survivors : kr \in Kinds \X Roles /\ api.workloads[kr].exists
  BY DEF RestartInv, RestartType, LeftOver, WorkloadKeys
<1>10. survivors' = survivors \ {Target} /\ \A kr \in survivors' : api'.workloads[kr].exists
  BY <1>1, <1>2, <1>3, <1>6, <1>9
<1> QED
  BY <1>1, <1>5, <1>8, <1>10

\* The workload of the role whose turn it is is deleted.
LEMMA DeleteWorkloadStep ==
  ASSUME RestartInv, DeleteWorkload
  PROVE  RestartInv'
<1>1. /\ restart.at = "delete" /\ restart.at # "idle"
      /\ restart' = [restart EXCEPT !.at = "await"]
      /\ survivors' = survivors \ {Target}
  BY Deleted
<1>2. /\ restart'.at = "await" /\ restart'.spec = restart.spec
      /\ restart'.order = restart.order /\ restart'.next = restart.next
  <2>1. "await" \in RestartStages /\ restart \in Restarts
    BY <1>1, RestartFacts DEF RestartStages
  <2> QED
    BY <1>1, <2>1, RestartMoves
<1>3. Progress'
  BY <1>1, <1>2, Deleted DEF RestartInv, Progress, SpecKept
<1>4. Done' = Done /\ Target' = Target
  BY <1>2 DEF Done, Target
<1>5. \A kr \in survivors' : ToBeDeleted(kr)' /\ kr # Target
  BY <1>1, <1>2, <1>4 DEF RestartInv, LeftOver, ToBeDeleted
<1>6. LeftOver'
  BY <1>2, <1>4, <1>5, Deleted DEF LeftOver
<1> QED
  BY <1>3, <1>6, Deleted DEF RestartInv

\* A pass ends, for whatever reason.
LEMMA RestartOver ==
  ASSUME RestartInv, restart' = NoRestart, UNCHANGED survivors, RestartType',
         api'.workloads = api.workloads, PassInv', SameSpec'
  PROVE  RestartInv'
<1>1. Progress' /\ LeftOver'
  BY NoRestartType DEF RestartInv, Progress, LeftOver
<1> QED
  BY <1>1 DEF RestartInv

\* The restart is reported as completed.
LEMMA ClearRestartingStep ==
  ASSUME RestartInv, ClearRestarting
  PROVE  RestartInv'
<1>1. /\ restart.at # "idle" /\ restart' = NoRestart
      /\ UNCHANGED <<restartQueued, pods, survivors>>
  BY DEF ClearRestarting
<1>2. PassInv' /\ SameSpec' /\ api'.workloads = api.workloads
  <2>1. "False" \in ConditionStatus
    BY DEF ConditionStatus
  <2> QED
    BY <1>1, <2>1, ConditionWritten DEF ClearRestarting
<1>3. RestartType'
  BY <1>1, NoRestartType DEF RestartInv, RestartType
<1> QED
  BY <1>1, <1>2, <1>3, RestartOver

\* An error ends the restart; with the manager, both passes end.
LEMMA EndingStep ==
  ASSUME RestartInv, RestartFails \/ ManagerRestarts
  PROVE  RestartInv'
<1>1. /\ restart' = NoRestart /\ restartQueued' \in BOOLEAN /\ queued' \in BOOLEAN
      /\ UNCHANGED <<api, cache, everReady, pods, survivors>>
      /\ budget' \in [edit : Nat, failure : Nat, blip : Nat]
      /\ UNCHANGED pass \/ Abort
  <2>1. /\ budget \in [edit : Nat, failure : Nat, blip : Nat] /\ queued \in BOOLEAN
    BY DEF RestartInv, PassInv, TypeInv
  <2>2. CASE RestartFails
    BY <2>1, <2>2 DEF RestartFails
  <2>3. CASE ManagerRestarts
    <3>1. /\ budget.failure > 0 /\ budget' = [budget EXCEPT !.failure = @ - 1]
          /\ restart' = NoRestart /\ restartQueued' = FALSE /\ queued' = TRUE
          /\ UNCHANGED <<api, cache, everReady, pods, survivors>> /\ Abort
      BY <2>3 DEF ManagerRestarts, Fail
    <3>2. budget' \in [edit : Nat, failure : Nat, blip : Nat]
      BY <2>1, <3>1
    <3> QED
      BY <3>1, <3>2
  <2> QED
    BY <2>2, <2>3
<1>2. TypeInv'
  BY <1>1, NoPassType DEF RestartInv, PassInv, TypeInv, Abort
<1>3. PassInv' /\ SamePass
  BY <1>1, <1>2, PassStays, PassEnds DEF RestartInv
<1>4. SameSpec'
  BY <1>1, <1>3 DEF RestartInv, SameSpec, SamePass
<1>5. RestartType'
  BY <1>1, NoRestartType DEF RestartInv, RestartType
<1> QED
  BY <1>1, <1>3, <1>4, <1>5, RestartOver

\* A container restarts: a replica is not ready, and no workload goes.
LEMMA PodRestartsStep ==
  ASSUME RestartInv, NEW k \in Kinds, NEW r \in Roles, PodRestarts(k, r)
  PROVE  RestartInv' /\ UNCHANGED survivors
<1> DEFINE v == api.workloads[<<k, r>>]
           w == [v EXCEPT !.ready = @ - 1]
           new == WithWorkload(api, <<k, r>>, w)
<1>1. /\ Write(new, queued) /\ api' = new /\ v.ready > 0
      /\ budget.blip > 0 /\ budget' = [budget EXCEPT !.blip = @ - 1]
      /\ pods' = [pods EXCEPT !.restarted = @ \cup {<<k, r>>}]
      /\ UNCHANGED <<cache, pass, restart, restartQueued, survivors>>
  BY DEF PodRestarts, Write
<1>2. /\ <<k, r>> \in Kinds \X Roles /\ api \in ObjectStates /\ v \in Workload
      /\ queued \in BOOLEAN /\ budget \in [edit : Nat, failure : Nat, blip : Nat]
  BY DEF RestartInv, PassInv, TypeInv, ObjectStates
<1>3. w \in Workload /\ w.exists = v.exists
  BY <1>1, <1>2 DEF Workload
<1> HIDE DEF w
<1>4. /\ new \in ObjectStates /\ new.group = api.group
      /\ new.workloads[<<k, r>>] = w
      /\ \A x \in Kinds \X Roles : x # <<k, r>> => new.workloads[x] = api.workloads[x]
  BY <1>2, <1>3, WorkloadWritten
<1> HIDE DEF new
<1>5. budget' \in [edit : Nat, failure : Nat, blip : Nat]
  BY <1>1, <1>2
<1>6. TypeInv'
  BY <1>1, <1>2, <1>4, <1>5, Written DEF RestartInv, PassInv, TypeInv
<1>7. PassInv' /\ SameSpec'
  BY <1>1, <1>4, <1>6, PassStays DEF RestartInv, SameSpec
<1>8. RestartType'
  BY <1>1, <1>2 DEF RestartInv, RestartType, WorkloadKeys
<1>9. Progress'
  BY <1>1, <1>4 DEF RestartInv, Progress
<1>10. \A kr \in Kinds \X Roles : api.workloads[kr].exists => api'.workloads[kr].exists
  BY <1>1, <1>3, <1>4
<1>11. LeftOver'
  BY <1>1, <1>10 DEF RestartInv, RestartType, WorkloadKeys, LeftOver, ToBeDeleted, Done, Target
<1> QED
  BY <1>1, <1>7, <1>8, <1>9, <1>11 DEF RestartInv

\* The events of pods queue the group, and no more.
LEMMA PodEventStep ==
  ASSUME RestartInv, NEW kr \in WorkloadKeys, PodEvent(kr) \/ PodsGone(kr)
  PROVE  RestartInv' /\ UNCHANGED survivors
<1>1. UNCHANGED <<vars, restart, survivors>> /\ UNCHANGED api
  BY DEF PodEvent, PodsGone, vars
<1>2. RestartType'
  <2>1. CASE PodEvent(kr)
    BY <1>1, <2>1 DEF RestartInv, RestartType, PodEvent
  <2>2. CASE PodsGone(kr)
    <3>1. restartQueued' \in BOOLEAN
      <4>1. restartQueued \in BOOLEAN /\ Triggers(kr[2]) \in BOOLEAN
        BY Zenon DEF RestartInv, RestartType, Triggers
      <4> QED
        BY <2>2, <4>1 DEF PodsGone
    <3>2. pods' = [pods EXCEPT !.terminating = @ \ {kr}]
      BY <2>2 DEF PodsGone
    <3> QED
      BY <1>1, <3>1, <3>2 DEF RestartInv, RestartType
  <2> QED
    BY <2>1, <2>2
<1> QED
  BY <1>1, <1>2, GroupUntouched, RestartUntouched DEF RestartInv

-----------------------------------------------------------------------------
(***************************************************************************)
(* The invariant of the specification.                                     *)
(***************************************************************************)
\* A group that is up and at rest.
LEMMA UpType ==
  ASSUME NEW g \in Specs
  PROVE  Up(g) \in ObjectStates /\ Up(g).group.spec = g
<1> DEFINE D == DOMAIN g.roles
           S == [r \in Roles |-> IF r \in D
                                   THEN [known |-> TRUE, replicas |-> g.roles[r].size,
                                         ready |-> g.roles[r].size]
                                   ELSE NoStatus]
           W == [kr \in WorkloadKeys |->
                   LET r == kr[2]
                   IN  IF r \in D /\ kr[1] = g.roles[r].kind
                         THEN [exists |-> TRUE, replicas |-> g.roles[r].size,
                               ready |-> g.roles[r].size, reported |-> g.roles[r].size]
                         ELSE NoWorkload]
           C == [r \in Roles |-> IF r \in D THEN Topology(g) ELSE None]
           A == {r \in D : g.roles[r].adapter}
<1>1. D \subseteq Roles /\ \A r \in D : g.roles[r].size \in Nat
  BY GroupAssumption DEF RoleSpec
<1>2. S \in [Roles -> Status]
  BY <1>1 DEF Status, NoStatus
<1>3. W \in [Kinds \X Roles -> Workload]
  BY <1>1 DEF Workload, NoWorkload, WorkloadKeys
<1>4. C \in [Roles -> {Topology(x) : x \in Specs} \cup {None}]
  BY Zenon
<1>5. A \in SUBSET Roles /\ PodGroupWanted(g) \in Nat \cup {None}
  BY <1>1, GroupSizeType
<1>6. Up(g) = [group |-> [spec |-> g,
                          status |-> [roles |-> S, ready |-> "True", restarting |-> "Unknown"]],
               workloads |-> W, configs |-> C, adapters |-> A, podGroup |-> PodGroupWanted(g)]
  BY Zenon DEF Up
<1> HIDE DEF S, W, C, A
<1>7. [roles |-> S, ready |-> "True", restarting |-> "Unknown"] \in GroupStatus
  BY <1>2 DEF GroupStatus, ConditionStatus
<1> QED
  BY <1>3, <1>4, <1>5, <1>6, <1>7 DEF ObjectStates

\* It holds of a group that is up and at rest.
LEMMA RestartInitInv ==
  ASSUME RestartInit
  PROVE  RestartInv
<1>1. PICK g \in Specs : api = Up(g)
  BY DEF RestartInit
<1>2. /\ cache = api /\ queued = FALSE /\ pass = NoPass /\ restart = NoRestart
      /\ restartQueued = FALSE /\ pods = [restarted |-> {}, terminating |-> {}] /\ survivors = {}
  BY DEF RestartInit
<1>3. api \in ObjectStates
  BY <1>1, UpType
<1>4. everReady \in [Kinds \X Roles -> BOOLEAN]
  BY <1>3 DEF RestartInit, WorkloadKeys, ObjectStates, Workload
<1>5. budget \in [edit : Nat, failure : Nat, blip : Nat]
  BY GroupAssumption DEF RestartInit
<1>6. PassInv
  BY <1>2, <1>3, <1>4, <1>5, NoPassType DEF PassInv, TypeInv, Underway
<1>7. RestartType /\ Progress /\ LeftOver /\ SameSpec
  BY <1>2, NoPassType, NoRestartType DEF RestartType, Progress, LeftOver, SameSpec
<1> QED
  BY <1>6, <1>7 DEF RestartInv

\* Every step keeps it.
LEMMA RestartStep ==
  ASSUME RestartInv, [RestartNext]_restartVars
  PROVE  RestartInv'
<1>1. CASE Group
  BY <1>1, BesideStep
<1>2. CASE \E k \in Kinds, r \in Roles : PodRestarts(k, r)
  BY <1>2, PodRestartsStep
<1>3. CASE \E kr \in WorkloadKeys : PodEvent(kr) \/ PodsGone(kr)
  BY <1>3, PodEventStep
<1>4. CASE PodController
  BY <1>4, BeginRestartStep, MarkRestartingStep, SkipWorkloadStep, DeleteWorkloadStep,
     AwaitWorkloadStep, ClearRestartingStep DEF PodController
<1>5. CASE RestartFails \/ ManagerRestarts
  BY <1>5, EndingStep
<1>6. CASE UNCHANGED restartVars
  <2>1. UNCHANGED vars /\ UNCHANGED <<api, restart, restartQueued, pods, survivors>>
    BY <1>6 DEF restartVars, vars
  <2>2. RestartType'
    BY <2>1 DEF RestartInv, RestartType
  <2> QED
    BY <2>1, <2>2, GroupUntouched, RestartUntouched DEF RestartInv
<1> QED
  BY <1>1, <1>2, <1>3, <1>4, <1>5, <1>6 DEF RestartNext

\* The inductive invariant of a group that restarts.
THEOREM RestartInvariant ==
  RestartSpec => []RestartInv
<1>1. RestartInv /\ [RestartNext]_restartVars => RestartInv'
  BY RestartStep
<1> QED
  BY RestartInitInv, <1>1, PTL DEF RestartSpec

\* The objects, both passes, the pods and the history are what the code
\* declares.
THEOREM RestartTypeCorrect ==
  RestartSpec => []RestartTypeOK
<1>1. ASSUME RestartInv
      PROVE  RestartTypeOK
  <2>1. TypeOK
    BY <1>1, PassType DEF RestartInv
  <2>2. restart.at \in {"delete", "await"} => restart.next \in DOMAIN restart.order
    BY <1>1, RestartFacts
  <2>3. pods \in [{"restarted", "terminating"} -> SUBSET WorkloadKeys]
    BY <1>1 DEF RestartInv, RestartType
  <2> QED
    BY <1>1, <2>1, <2>2, <2>3 DEF RestartInv, RestartType, Restarts, RestartStages, RestartTypeOK
<1>2. RestartInv => RestartTypeOK
  BY <1>1
<1> QED
  BY <1>2, RestartInvariant, PTL

-----------------------------------------------------------------------------
(***************************************************************************)
(* What a restart promises.                                                *)
(***************************************************************************)
\* A restart that is about to be reported as completed has deleted or found
\* missing every workload it set out to replace (restartRBG of
\* pod_controller.go), whatever happened beside it.
THEOREM NothingSurvives == RestartSpec => []RestartWhole
<1>1. ASSUME RestartInv, restart.at = "clear", NEW kr \in survivors
      PROVE  FALSE
  <2>1. ToBeDeleted(kr) /\ restart.next = Len(restart.order) + 1
    BY <1>1 DEF RestartInv, LeftOver, Progress
  <2>2. /\ Len(restart.order) \in Nat /\ DOMAIN restart.order = 1 .. Len(restart.order)
        /\ restart.spec \in Specs /\ restart.order = OrderOf(restart.spec)
    BY <1>1, RestartFacts
  <2>3. DOMAIN restart.spec.roles = Range(restart.order)
    BY <2>2, SortFacts
  <2>4. Done = Range(restart.order)
    BY <2>1, <2>2 DEF Done, Range
  <2> QED
    BY <2>1, <2>3, <2>4 DEF ToBeDeleted
<1>2. RestartInv => RestartWhole
  BY <1>1 DEF RestartWhole
<1> QED
  BY <1>2, RestartInvariant, PTL

\* Who takes a survivor down: the step of the restart that deletes it.
LEMMA TakenDown ==
  ASSUME RestartInv, [RestartNext]_restartVars, restart.at = "delete",
         NEW kr \in survivors, kr \notin survivors'
  PROVE  DeleteWorkload /\ kr = Target
<1>1. ToBeDeleted(kr) /\ kr \in Kinds \X Roles /\ api.workloads[kr].exists
  BY DEF RestartInv, RestartType, LeftOver, WorkloadKeys
<1>2. restart.spec = api.group.spec
  BY DEF RestartInv, Progress
<1>3. ~Group
  <2> SUFFICES ASSUME Group PROVE FALSE
    OBVIOUS
  <2>1. RolesKept /\ Beside
    BY GroupStep
  <2> QED
    BY <1>1, <1>2, <2>1 DEF RolesKept, Beside, Follow, ToBeDeleted
<1>4. DeleteWorkload
  BY <1>3, PodRestartsStep, PodEventStep
     DEF RestartNext, PodController, BeginRestart, NoRestart, MarkRestarting, SkipWorkload,
         AwaitWorkload, ClearRestarting, RestartFails, ManagerRestarts, restartVars
<1> QED
  BY <1>4, Deleted

\* restartRBG takes a workload down only when the roles it depends on have
\* nothing left from before the restart.
THEOREM DeletesInOrder == RestartSpec => RestartInOrder
<1> DEFINE InOrder ==
      \A kr \in survivors \ survivors' :
        (restart.at = "delete" /\ kr[2] \in DOMAIN restart.spec.roles) =>
          \A d \in Range(restart.spec.roles[kr[2]].deps) :
            <<restart.spec.roles[d].kind, d>> \notin survivors
<1>1. ASSUME RestartInv, [RestartNext]_restartVars
      PROVE  InOrder
  <2> SUFFICES ASSUME NEW kr \in survivors \ survivors', restart.at = "delete",
                      NEW d \in Range(restart.spec.roles[kr[2]].deps),
                      <<restart.spec.roles[d].kind, d>> \in survivors
               PROVE  FALSE
    OBVIOUS
  <2>1. kr = Target
    BY <1>1, TakenDown
  <2>2. /\ restart.next \in 1 .. Len(restart.order) /\ restart.order = OrderOf(restart.spec)
        /\ restart.spec \in Specs /\ restart.order \in Seq(Roles) /\ Len(restart.order) \in Nat
    BY <1>1, RestartFacts, SortFacts
  <2>3. kr[2] = restart.order[restart.next]
    BY <2>1 DEF Target
  <2>4. d \in Range(SubSeq(restart.order, 1, restart.next - 1))
    BY <2>2, <2>3, SortFacts
  <2>5. d \in Done
    BY <2>2, <2>4 DEF Done, Range
  <2>6. ToBeDeleted(<<restart.spec.roles[d].kind, d>>)
    BY <1>1 DEF RestartInv, LeftOver
  <2> QED
    BY <2>5, <2>6 DEF ToBeDeleted
<1>2. RestartSpec => [][InOrder]_restartVars
  BY <1>1, RestartInvariant, PTL DEF RestartSpec
<1> QED
  BY <1>2 DEF RestartInOrder
=============================================================================
