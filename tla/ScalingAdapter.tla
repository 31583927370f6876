--------------------------- MODULE ScalingAdapter ---------------------------
(***************************************************************************)
(* The scaling adapter of one role of one group:                           *)
(* RoleBasedGroupScalingAdapterReconciler, which carries the replicas of   *)
(* the adapter's spec over to the role (rolebasedgroupscalingadapter_      *)
(* controller.go), and the part of the group controller that creates and   *)
(* deletes the adapter (ReconcileScalingAdapter and                        *)
(* CleanupOrphanedScalingAdapters of rolebasedgroup_controller.go).        *)
(*                                                                         *)
(* Both controllers, users, an autoscaler and the informers take turns;     *)
(* a pass works on what it read at its start.  The numbers written to      *)
(* spec.replicas are kept in requests; the adapter holds an index into it. *)
(***************************************************************************)
EXTENDS Integers, Sequences

CONSTANTS
  Sizes,        \* sizes users and the autoscaler ask for
  Lag,          \* informers that may be behind: "rbg", "adapter"
  MaxEdits,     \* bound on the user's edits
  MaxRequests,  \* bound on the requests to scale
  MaxFailures   \* bound on API errors and restarts of the manager

ASSUME AdapterAssumption ==
  /\ Sizes \subseteq Nat \ {0}
  /\ Lag \subseteq {"rbg", "adapter"}
  /\ {MaxEdits, MaxRequests, MaxFailures} \subseteq Nat

VARIABLES
  api,          \* the group and the adapter in the API server
  cache,        \* the same as the informers last saw them
  queued,       \* the key of the adapter is in its workqueue
  pass,         \* the adapter controller's pass in progress
  groupQueued,  \* the key of the group is in its workqueue
  groupPass,    \* the group controller's pass in progress: the role as it read it,
                \* then what it does with the adapter
  requests,     \* history: the numbers written to spec.replicas of the adapter
  applied,      \* history: the last of them that was written to the role
  asked,        \* history: the last request, if it was heard, until a user's edit or
                \* the deletion of the adapter overrules it, or 0
  budget        \* edits, requests and failures still allowed

vars ==
  <<api, cache, queued, pass, groupQueued, groupPass, requests, applied, asked, budget>>

-----------------------------------------------------------------------------
\* role says whether the group has the role, and with the adapter enabled.
RoleStates == {"absent", "disabled", "enabled"}

Rbg == [version : Nat, role : RoleStates, size : Sizes \cup {0}, edits : Nat]

\* spec is 0 while spec.replicas is unset.
Adapter ==
  [exists : BOOLEAN, owned : BOOLEAN, spec : Nat,
   phase : {"", "Bound", "NotBound"}, reported : Sizes \cup {0}]

NoAdapter == [exists |-> FALSE, owned |-> FALSE, spec |-> 0, phase |-> "", reported |-> 0]

NewAdapter == [NoAdapter EXCEPT !.exists = TRUE, !.owned = TRUE]

\* The server-side apply of the status.
Status(a, phase, n) ==
  [exists |-> a.exists, owned |-> a.owned, spec |-> a.spec, phase |-> phase, reported |-> n]

\* The server-side apply of spec.replicas, forced.  It makes an adapter of an
\* adapter that is gone, without an owner.
Applied(a, i) ==
  IF a.exists THEN [a EXCEPT !.spec = i]
  ELSE [exists |-> TRUE, owned |-> FALSE, spec |-> i, phase |-> "", reported |-> 0]

NoRbg == [version |-> 0, role |-> "absent", size |-> 0, edits |-> 0]

NoPass == [at |-> "idle", adapter |-> NoAdapter, rbg |-> NoRbg]

\* IsScalingAdapterManagedByRBG, ContainsRBGOwner: the group owns the adapter.
Managed(a) == a.exists /\ a.owned

Read(object) == IF object \in Lag THEN cache[object] ELSE api[object]

\* Faulty variant: only creations and deletions are events.
CreatedOrDeleted(old, new) == old.exists # new.exists

\* RBGScalingAdapterPredicate: the status is not looked at.
AdapterEvent(old, new) == old.exists # new.exists \/ old.spec # new.spec

\* A write of the adapter; the key is queued by it, or because requeue.
WriteAdapter(new, requeue) ==
  /\ api' = [api EXCEPT !.adapter = new]
  /\ queued' = \/ requeue
               \/ "adapter" \notin Lag /\ AdapterEvent(api.adapter, new)

\* A write of the group: a new version, and an event for the group controller
\* only; the adapter controller does not watch the group.
WriteRbg(new) ==
  /\ api' = [api EXCEPT !.rbg = [new EXCEPT !.version = api.rbg.version + 1]]
  /\ groupQueued' = (groupQueued \/ "rbg" \notin Lag)

-----------------------------------------------------------------------------
Init ==
  /\ \E n \in Sizes :
       api = [rbg |-> [version |-> 1, role |-> "enabled", size |-> n, edits |-> 0],
              adapter |-> NoAdapter]
  /\ cache = api
  /\ queued = FALSE
  /\ pass = NoPass
  /\ groupQueued = TRUE
  /\ groupPass = "idle"
  /\ requests = <<>>
  /\ applied = 0
  /\ asked = 0
  /\ budget = [edit |-> MaxEdits, request |-> MaxRequests, failure |-> MaxFailures]

-----------------------------------------------------------------------------
(***************************************************************************)
(* The users, the autoscaler, the informers.                               *)
(***************************************************************************)
Edited(g, role, n) ==
  [version |-> g.version, role |-> role, size |-> n, edits |-> g.edits + 1]

\* The user edits the group: the role with a size, without its adapter, or
\* not at all; the edit may as well be about something else.
Edit(role, n) ==
  /\ budget.edit > 0
  /\ budget' = [budget EXCEPT !.edit = @ - 1]
  /\ WriteRbg(Edited(api.rbg, role, n))
  /\ asked' = IF role = "enabled" /\ n = api.rbg.size THEN asked ELSE 0
  /\ UNCHANGED <<cache, queued, pass, groupPass, requests, applied>>

UserEdits ==
  \/ Edit("absent", 0)
  \/ \E role \in {"disabled", "enabled"}, n \in Sizes : Edit(role, n)

\* The adapter is bound to a role that is there, and will stay so unless the
\* group is edited: no pass that read the group without the role is about to
\* write NotBound.
Hears(a) ==
  Managed(a) /\ a.phase = "Bound" /\ api.rbg.role = "enabled" /\ pass.at # "unbind"

\* An autoscaler, or a user with kubectl scale, writes spec.replicas of the
\* adapter, bound or not.
Request(n) ==
  /\ budget.request > 0
  /\ api.adapter.exists
  /\ budget' = [budget EXCEPT !.request = @ - 1]
  /\ requests' = Append(requests, n)
  /\ asked' = IF Hears(api.adapter) THEN Len(requests') ELSE 0
  /\ WriteAdapter(Applied(api.adapter, Len(requests')), queued)
  /\ UNCHANGED <<cache, pass, groupQueued, groupPass, applied>>

SeeRbg ==
  /\ cache.rbg # api.rbg
  /\ cache' = [cache EXCEPT !.rbg = api.rbg]
  /\ groupQueued' = (groupQueued \/ "rbg" \in Lag)
  /\ UNCHANGED <<api, queued, pass, groupPass, requests, applied, asked, budget>>

SeeAdapter ==
  /\ cache.adapter # api.adapter
  /\ cache' = [cache EXCEPT !.adapter = api.adapter]
  /\ queued' = \/ queued
               \/ "adapter" \in Lag /\ AdapterEvent(cache.adapter, api.adapter)
  /\ UNCHANGED <<api, pass, groupQueued, groupPass, requests, applied, asked, budget>>

-----------------------------------------------------------------------------
(***************************************************************************)
(* The group controller, as far as the adapter is concerned.               *)
(***************************************************************************)
BeginGroupPass ==
  /\ groupQueued /\ groupPass = "idle"
  /\ groupPass' = Read("rbg").role
  /\ groupQueued' = FALSE
  /\ UNCHANGED <<api, cache, queued, pass, requests, applied, asked, budget>>

\* Faulty variant: the adapter of a role that stays is left.
DeletesOrphan(role, a) == a.exists /\ a.owned /\ role = "absent"

\* ReconcileScalingAdapter deletes the adapter of a role that has it disabled;
\* CleanupOrphanedScalingAdapters deletes one that belongs to the group when
\* the role is gone.
Deletes(role, a) ==
  a.exists /\ (role = "disabled" \/ (role = "absent" /\ a.owned))

\* ReconcileScalingAdapter creates the adapter of an enabled role.
Creates(role, a) == ~a.exists /\ role = "enabled"

\* The adapter is looked up, or listed.
LookUpAdapter ==
  /\ groupPass \in RoleStates
  /\ LET a == Read("adapter")
     IN  groupPass' = CASE Creates(groupPass, a) -> "create"
                        [] Deletes(groupPass, a) -> "delete"
                        [] OTHER                 -> "idle"
  /\ UNCHANGED <<api, cache, queued, pass, groupQueued, requests, applied, asked, budget>>

CreateAdapter ==
  /\ groupPass = "create"
  /\ ~api.adapter.exists
  /\ WriteAdapter(NewAdapter, queued)
  /\ groupPass' = "idle"
  /\ UNCHANGED <<cache, pass, groupQueued, requests, applied, asked, budget>>

DeleteAdapter ==
  /\ groupPass = "delete"
  /\ api.adapter.exists
  /\ WriteAdapter(NoAdapter, queued)
  /\ groupPass' = "idle"
  /\ asked' = 0
  /\ UNCHANGED <<cache, pass, groupQueued, requests, applied, budget>>

\* AlreadyExists, NotFound: the adapter has come or gone since it was looked
\* up, and the pass is retried.
GroupPassFails ==
  /\ groupPass \in {"create", "delete"}
  /\ (groupPass = "create") = api.adapter.exists
  /\ groupPass' = "idle"
  /\ groupQueued' = TRUE
  /\ UNCHANGED <<api, cache, queued, pass, requests, applied, asked, budget>>

GroupController ==
  BeginGroupPass \/ LookUpAdapter \/ CreateAdapter \/ DeleteAdapter \/ GroupPassFails

-----------------------------------------------------------------------------
(***************************************************************************)
(* RoleBasedGroupScalingAdapterReconciler.Reconcile.                       *)
(***************************************************************************)
\* Faulty variant: an adapter whose status disagrees with the group is bound anew.
ToBindAgain(a, g) == g.role # "absent" /\ (a.phase # "Bound" \/ a.reported # g.size)

\* The role is there and the adapter is not bound to it yet.
ToBind(a, g) == g.role # "absent" /\ a.phase # "Bound"

\* Faulty variant: a bound adapter is taken to have its replicas set.
ToScaleUnset(a, g) ==
  /\ g.role # "absent" /\ a.phase = "Bound"
  /\ a.spec # 0 => requests[a.spec] # g.size

\* A bound adapter may ask for nothing: one made anew while its predecessor
\* was being bound gets the phase that was meant for that one.
ToScale(a, g) ==
  g.role # "absent" /\ a.phase = "Bound" /\ a.spec # 0 /\ requests[a.spec] # g.size

\* What a pass that has read a and g goes on with.
Stage(a, g) ==
  CASE ~Managed(a)                               -> "idle"
    [] g.role = "absent" /\ a.phase # "NotBound" -> "unbind"
    [] ToBind(a, g)                              -> "bindSpec"
    [] ToScale(a, g)                             -> "scale"
    [] OTHER                                     -> "idle"

\* Without the role an adapter that is not bound is looked at again and again.
Begin ==
  /\ queued /\ pass.at = "idle"
  /\ LET a == Read("adapter")
         g == Read("rbg")
     IN  /\ pass' = IF Stage(a, g) = "idle" THEN NoPass
                    ELSE [at |-> Stage(a, g), adapter |-> a, rbg |-> g]
         /\ queued' = (Managed(a) /\ g.role = "absent" /\ a.phase = "NotBound")
  /\ UNCHANGED <<api, cache, groupQueued, groupPass, requests, applied, asked, budget>>

\* The phase of an adapter without its role; an error is only logged.
Unbind ==
  /\ pass.at = "unbind"
  /\ WriteAdapter(IF api.adapter.exists
                    THEN Status(api.adapter, "NotBound", pass.adapter.reported)
                    ELSE api.adapter, TRUE)
  /\ pass' = NoPass
  /\ UNCHANGED <<cache, groupQueued, groupPass, requests, applied, asked, budget>>

\* spec.replicas becomes the size the role had when the pass began: a request
\* of an adapter that was not bound is lost.
BindSpec ==
  /\ pass.at = "bindSpec"
  /\ LET n    == pass.rbg.size
         kept == api.adapter.spec # 0 /\ requests[api.adapter.spec] = n
     IN  /\ requests' = IF kept THEN requests ELSE Append(requests, n)
         /\ WriteAdapter(Applied(api.adapter, Len(requests')), queued)
  /\ pass' = [pass EXCEPT !.at = "bindStatus"]
  /\ UNCHANGED <<cache, groupQueued, groupPass, applied, asked, budget>>

\* The status, with the selector of the workload; the key is queued again.
BindStatus ==
  /\ pass.at = "bindStatus"
  /\ api.adapter.exists
  /\ WriteAdapter(Status(api.adapter, "Bound", pass.rbg.size), TRUE)
  /\ pass' = NoPass
  /\ UNCHANGED <<cache, groupQueued, groupPass, requests, applied, asked, budget>>

\* updateRoleReplicas: the group as it was read, with another size of the role.
Resized(g) ==
  IF g.role = "absent" THEN g ELSE [g EXCEPT !.size = requests[pass.adapter.spec]]

\* Faulty variant: the last write wins.
NeverConflicts(g) == FALSE

\* The API server's answer to the update of a group that has changed since.
Conflicts(g) == g.version # api.rbg.version

ScaleRole ==
  /\ pass.at = "scale"
  /\ ~Conflicts(pass.rbg)
  /\ IF Resized(pass.rbg) = pass.rbg
       THEN UNCHANGED <<api, groupQueued, applied>>
       ELSE /\ WriteRbg(Resized(pass.rbg))
            /\ applied' = pass.adapter.spec
  /\ pass' = [pass EXCEPT !.at = "scaleStatus"]
  /\ UNCHANGED <<cache, queued, groupPass, requests, asked, budget>>

\* A conflict: the group is read again, and the update tried again.
RetryScale ==
  /\ pass.at = "scale"
  /\ Conflicts(pass.rbg)
  /\ pass' = [pass EXCEPT !.rbg = Read("rbg")]
  /\ UNCHANGED <<api, cache, queued, groupQueued, groupPass, requests, applied, asked, budget>>

ScaleStatus ==
  /\ pass.at = "scaleStatus"
  /\ api.adapter.exists
  /\ WriteAdapter(Status(api.adapter, pass.adapter.phase, requests[pass.adapter.spec]), queued)
  /\ pass' = NoPass
  /\ UNCHANGED <<cache, groupQueued, groupPass, requests, applied, asked, budget>>


\* An error: the key is retried.
Retried == queued' = TRUE

\* The retries are used up, or the adapter whose status is written is gone.
GiveUp ==
  /\ \/ pass.at = "scale" /\ Conflicts(pass.rbg)
     \/ pass.at \in {"bindStatus", "scaleStatus"} /\ ~api.adapter.exists
  /\ pass' = NoPass
  /\ Retried
  /\ UNCHANGED <<api, cache, groupQueued, groupPass, requests, applied, asked, budget>>

\* Another error: the API server is out of reach, the workload with the
\* selector is not there yet.
PassFails ==
  /\ pass.at \notin {"idle", "unbind"}
  /\ budget.failure > 0
  /\ budget' = [budget EXCEPT !.failure = @ - 1]
  /\ pass' = NoPass
  /\ Retried
  /\ UNCHANGED <<api, cache, groupQueued, groupPass, requests, applied, asked>>

AdapterController ==
  Begin \/ Unbind \/ BindSpec \/ BindStatus \/ ScaleRole \/ RetryScale \/ ScaleStatus \/ GiveUp

\* The manager restarts: the informers list, and what they list is queued.
ManagerRestarts ==
  /\ budget.failure > 0
  /\ budget' = [budget EXCEPT !.failure = @ - 1]
  /\ cache' = api
  /\ pass' = NoPass /\ queued' = api.adapter.exists
  /\ groupPass' = "idle" /\ groupQueued' = TRUE
  /\ UNCHANGED <<api, requests, applied, asked>>

Next ==
  \/ UserEdits
  \/ \E n \in Sizes : Request(n)
  \/ SeeRbg
  \/ SeeAdapter
  \/ GroupController
  \/ AdapterController
  \/ PassFails
  \/ ManagerRestarts

Spec == Init /\ [][Next]_vars

\* The workqueues hand out their keys, a pass goes on, the informers catch up.
FairSpec ==
  /\ Spec
  /\ WF_vars(GroupController)
  /\ WF_vars(AdapterController)
  /\ WF_vars(SeeRbg)
  /\ WF_vars(SeeAdapter)

-----------------------------------------------------------------------------
Objects == [rbg : Rbg, adapter : Adapter]

Stages == {"idle", "unbind", "bindSpec", "bindStatus", "scale", "scaleStatus"}

Passes == [at : Stages, adapter : Adapter, rbg : Rbg]

ObjectsOK == api \in Objects /\ cache \in Objects /\ pass \in Passes

QueuesOK ==
  /\ queued \in BOOLEAN /\ groupQueued \in BOOLEAN
  /\ groupPass \in RoleStates \cup {"idle", "create", "delete"}
  /\ budget \in [edit : Nat, request : Nat, failure : Nat]

Numbered(a) == a.spec \in 0 .. Len(requests)

NumbersOK ==
  /\ requests \in Seq(Sizes)
  /\ applied \in 0 .. Len(requests) /\ asked \in 0 .. Len(requests)
  /\ Numbered(api.adapter) /\ Numbered(cache.adapter) /\ Numbered(pass.adapter)

Sized(g) == g.role # "absent" => g.size \in Sizes

\* A pass binds only to a role that is there, and scales only for an adapter
\* that asks for a number.
StageOK ==
  /\ pass.at = "bindSpec" => pass.rbg.role # "absent"
  /\ pass.at \in {"scale", "scaleStatus"} => pass.adapter.spec # 0

TypeOK ==
  /\ ObjectsOK /\ QueuesOK /\ NumbersOK /\ StageOK
  /\ Sized(api.rbg) /\ Sized(cache.rbg) /\ Sized(pass.rbg)

\* updateRoleReplicas writes the whole group back.  Whatever is behind, the
\* size of the role follows the adapter's numbers in their order, and nothing
\* else that the user edits is undone.  The size itself may be: an edit of it
\* yields to the last number of the adapter, however old.
Target == INSTANCE ScaleTarget
  WITH Numbers <- Sizes, log <- requests, size <- api.rbg.size, edits <- api.rbg.edits

ScalesTarget == Target!Spec

\* Once the adapter is bound its spec.replicas belongs to those who ask: the
\* controller, which initialises it when it binds, does not overwrite it.
BoundSpecKept ==
  [][(api.adapter.exists /\ api'.adapter.exists /\ api.adapter.phase = "Bound"
        /\ api.adapter.spec # api'.adapter.spec)
       => \E n \in Sizes : Request(n)]_vars


\* Adapters are not watched either: when the role is gone for good, or the
\* adapter is disabled, no adapter of the group is left behind.
AdapterLeaves == <>[](api.rbg.role # "enabled") => <>[]~Managed(api.adapter)
=============================================================================
