------------------------ MODULE ScalingAdapterProofs ------------------------
(***************************************************************************)
(* Theorems about ScalingAdapter, for every set of sizes, whichever        *)
(* informers are behind, and any budget of edits, requests and failures.   *)
(*                                                                         *)
(* That the adapter controller implements ScaleTarget rests on two facts   *)
(* about what a pass holds.  A copy of the group that has the version of   *)
(* the stored one is the stored one (VersionsTell): an update that is not  *)
(* a conflict loses nothing.  The numbers that are read come in the order  *)
(* of their writes, even from a cache that is behind (NumbersInOrder).     *)
(*                                                                         *)
(* That nothing but a request changes the spec.replicas of a bound         *)
(* adapter needs an adapter informer that keeps up: from a stale copy a    *)
(* pass binds an adapter that is bound already (BindsUnbound).             *)
(***************************************************************************)
EXTENDS ScalingAdapter, TLAPS

\* A copy of the group is not ahead of the stored one, and equal to it if it
\* has the same version.
Tells(g) == g.version <= api.rbg.version /\ (g.version = api.rbg.version => g = api.rbg)

VersionsTell == Tells(cache.rbg) /\ Tells(pass.rbg) /\ api.rbg.version > 0

\* The adapter asks for the newest number; what has been read is not older than
\* what has been applied, nor what is still to be read than that.
NumbersInOrder ==
  /\ api.adapter.spec \in {0, Len(requests)}
  /\ pass.at = "scale" => applied <= pass.adapter.spec
  /\ "adapter" \in Lag /\ cache.adapter.spec # 0 =>
       /\ applied <= cache.adapter.spec
       /\ pass.at = "scale" => pass.adapter.spec <= cache.adapter.spec

IInv == TypeOK /\ VersionsTell /\ NumbersInOrder

-----------------------------------------------------------------------------
(* What is read and written. *)

LEMMA SizesType == Sizes \subseteq Nat \ {0}
  BY AdapterAssumption

\* The parts of the objects and of the pass.
LEMMA Parts ==
  ASSUME ObjectsOK
  PROVE  /\ api.rbg \in Rbg /\ cache.rbg \in Rbg /\ pass.rbg \in Rbg
         /\ api.adapter \in Adapter /\ cache.adapter \in Adapter /\ pass.adapter \in Adapter
         /\ pass.at \in Stages
  BY DEF ObjectsOK, Objects, Passes

LEMMA ReadType ==
  ASSUME TypeOK
  PROVE  /\ Read("rbg") \in Rbg /\ Sized(Read("rbg"))
         /\ Read("adapter") \in Adapter /\ Numbered(Read("adapter"))
<1>1. Read("rbg") \in {api.rbg, cache.rbg} /\ Read("adapter") \in {api.adapter, cache.adapter}
  BY DEF TypeOK, ObjectsOK, Objects, Read
<1> QED
  BY <1>1, Parts DEF TypeOK, NumbersOK

LEMMA WrittenAdapter ==
  ASSUME api \in Objects, NEW new \in Adapter, NEW requeue, WriteAdapter(new, requeue)
  PROVE  /\ api' \in Objects
         /\ api'.adapter = new
         /\ api'.rbg = api.rbg
         /\ queued' \in BOOLEAN
  BY DEF Objects, WriteAdapter

LEMMA WrittenRbg ==
  ASSUME api \in Objects, NEW new \in Rbg, WriteRbg(new)
  PROVE  /\ api' \in Objects
         /\ api'.rbg = [new EXCEPT !.version = api.rbg.version + 1]
         /\ api'.adapter = api.adapter
         /\ groupQueued' \in BOOLEAN
  BY DEF Objects, Rbg, WriteRbg

LEMMA NoPassType ==
  /\ NoPass \in Passes
  /\ NoPass.adapter.spec = 0 /\ NoPass.rbg.role = "absent" /\ NoPass.at = "idle"
<1>1. NoAdapter \in Adapter /\ NoAdapter.spec = 0
  BY DEF NoAdapter, Adapter
<1>2. NoRbg \in Rbg /\ NoRbg.role = "absent"
  BY DEF NoRbg, Rbg, RoleStates
<1> QED
  BY <1>1, <1>2 DEF NoPass, Passes, Stages

LEMMA NewAdapterType ==
  /\ NoAdapter \in Adapter /\ NoAdapter.spec = 0
  /\ NewAdapter \in Adapter /\ NewAdapter.spec = 0
  BY DEF NewAdapter, NoAdapter, Adapter

\* The group as an edit leaves it, the adapter as the applies do.
LEMMA EditedType ==
  ASSUME NEW g \in Rbg, NEW role \in RoleStates, NEW n \in Sizes \cup {0}
  PROVE  /\ Edited(g, role, n) \in Rbg
         /\ Edited(g, role, n).role = role /\ Edited(g, role, n).size = n
         /\ Edited(g, role, n).edits = g.edits + 1
  BY DEF Rbg, Edited

LEMMA AppliedType ==
  ASSUME NEW a \in Adapter, NEW i \in Nat
  PROVE  Applied(a, i) \in Adapter /\ Applied(a, i).spec = i
  BY DEF Adapter, Applied

LEMMA StatusType ==
  ASSUME NEW a \in Adapter, NEW phase \in {"", "Bound", "NotBound"}, NEW n \in Sizes \cup {0}
  PROVE  Status(a, phase, n) \in Adapter /\ Status(a, phase, n).spec = a.spec
  BY DEF Adapter, Status

\* A number that was written.
LEMMA NumberType ==
  ASSUME NumbersOK, NEW i \in 0 .. Len(requests), i # 0
  PROVE  requests[i] \in Sizes /\ i \in DOMAIN requests
  BY DEF NumbersOK

\* One more number, and the indices that were good remain so.
LEMMA AppendType ==
  ASSUME NumbersOK, NEW n \in Sizes
  PROVE  /\ Append(requests, n) \in Seq(Sizes)
         /\ Len(Append(requests, n)) = Len(requests) + 1
         /\ Len(requests) \in Nat
  BY DEF NumbersOK

\* A pass that ends, and nothing more about the passes.
LEMMA PassEnds ==
  ASSUME pass' = NoPass
  PROVE  /\ pass' \in Passes /\ StageOK' /\ Sized(pass.rbg)'
         /\ pass'.adapter.spec = 0
  BY NoPassType DEF StageOK, Sized

-----------------------------------------------------------------------------
(* Type correctness: the initial states, the environment, the group         *)
(* controller, the adapter controller.                                     *)

LEMMA TypeInit == Init => TypeOK
<1> SUFFICES ASSUME Init PROVE TypeOK
  OBVIOUS
<1>1. PICK n \in Sizes :
        api = [rbg |-> [version |-> 1, role |-> "enabled", size |-> n, edits |-> 0],
               adapter |-> NoAdapter]
  BY DEF Init
<1>2. api \in Objects
  BY <1>1, NewAdapterType DEF Objects, Rbg, RoleStates
<1>3. ObjectsOK /\ StageOK /\ Sized(api.rbg) /\ Sized(cache.rbg) /\ Sized(pass.rbg)
  BY <1>1, <1>2, NoPassType DEF Init, ObjectsOK, StageOK, Sized
<1>4. QueuesOK
  BY AdapterAssumption DEF Init, QueuesOK
<1>5. requests \in Seq(Sizes) /\ Len(requests) = 0
  BY DEF Init
<1>6. api.adapter.spec = 0 /\ cache.adapter.spec = 0 /\ pass.adapter.spec = 0
  BY <1>1, NoPassType, NewAdapterType DEF Init
<1>7. NumbersOK
  BY <1>5, <1>6 DEF Init, NumbersOK, Numbered
<1> QED
  BY <1>3, <1>4, <1>7 DEF TypeOK

LEMMA TypeEdit ==
  ASSUME TypeOK, NEW role \in RoleStates, NEW n \in Sizes \cup {0}, Edit(role, n),
         role # "absent" => n \in Sizes
  PROVE  TypeOK'
<1> DEFINE new == Edited(api.rbg, role, n)
<1>1. api.rbg \in Rbg /\ api \in Objects
  BY Parts DEF TypeOK, ObjectsOK
<1>2. new \in Rbg /\ new.role = role /\ new.size = n
  BY <1>1, EditedType
<1>3. WriteRbg(new)
  BY DEF Edit
<1> HIDE DEF new
<1>4. /\ api' \in Objects
      /\ api'.rbg = [new EXCEPT !.version = api.rbg.version + 1]
      /\ api'.adapter = api.adapter
      /\ groupQueued' \in BOOLEAN
  BY <1>1, <1>2, <1>3, WrittenRbg
<1>5. Sized(api.rbg)'
  BY <1>2, <1>4 DEF Sized, Rbg
<1>6. ObjectsOK' /\ StageOK' /\ Sized(cache.rbg)' /\ Sized(pass.rbg)'
  BY <1>4 DEF Edit, TypeOK, ObjectsOK, StageOK, Sized
<1>7. QueuesOK'
  BY <1>4 DEF Edit, TypeOK, QueuesOK
<1>8. NumbersOK'
  BY <1>4 DEF Edit, TypeOK, NumbersOK, Numbered
<1> QED
  BY <1>5, <1>6, <1>7, <1>8 DEF TypeOK

LEMMA TypeRequest ==
  ASSUME TypeOK, NEW n \in Sizes, Request(n)
  PROVE  TypeOK'
<1> DEFINE new == Applied(api.adapter, Len(requests'))
<1>1. api.adapter \in Adapter /\ api \in Objects
  BY Parts DEF TypeOK, ObjectsOK
<1>2. /\ requests' \in Seq(Sizes)
      /\ Len(requests') = Len(requests) + 1
      /\ Len(requests) \in Nat
      /\ Len(requests') \in Nat
  BY AppendType DEF Request, TypeOK
<1>3. new \in Adapter /\ new.spec = Len(requests')
  BY Zenon, <1>1, <1>2, AppliedType
<1>4. WriteAdapter(new, queued)
  BY DEF Request
<1> HIDE DEF new
<1>5. api' \in Objects /\ api'.adapter = new /\ api'.rbg = api.rbg /\ queued' \in BOOLEAN
  BY <1>1, <1>3, <1>4, WrittenAdapter
<1>6. /\ ObjectsOK' /\ StageOK'
      /\ Sized(api.rbg)' /\ Sized(cache.rbg)' /\ Sized(pass.rbg)'
  BY <1>5 DEF Request, TypeOK, ObjectsOK, StageOK, Sized
<1>7. QueuesOK'
  BY <1>5 DEF Request, TypeOK, QueuesOK
<1>8. asked' \in 0 .. Len(requests')
  BY <1>2 DEF Request
<1>9. NumbersOK'
  BY <1>2, <1>3, <1>5, <1>8 DEF Request, TypeOK, NumbersOK, Numbered
<1> QED
  BY <1>6, <1>7, <1>9 DEF TypeOK

LEMMA TypeEnvironment ==
  ASSUME TypeOK,
         UserEdits \/ (\E n \in Sizes : Request(n)) \/ SeeRbg \/ SeeAdapter
  PROVE  TypeOK'
<1>1. CASE UserEdits
  BY <1>1, TypeEdit DEF UserEdits, RoleStates
<1>2. CASE \E n \in Sizes : Request(n)
  BY <1>2, TypeRequest
<1>3. CASE SeeRbg
  <2>1. cache' \in Objects /\ cache'.rbg = api.rbg /\ cache'.adapter = cache.adapter
    BY <1>3, Parts DEF SeeRbg, TypeOK, ObjectsOK, Objects
  <2>2. /\ ObjectsOK' /\ StageOK'
        /\ Sized(api.rbg)' /\ Sized(cache.rbg)' /\ Sized(pass.rbg)'
    BY <1>3, <2>1 DEF SeeRbg, TypeOK, ObjectsOK, StageOK, Sized
  <2>3. QueuesOK'
    BY <1>3 DEF SeeRbg, TypeOK, QueuesOK
  <2>4. NumbersOK'
    BY <1>3, <2>1 DEF SeeRbg, TypeOK, NumbersOK, Numbered
  <2> QED
    BY <2>2, <2>3, <2>4 DEF TypeOK
<1>4. CASE SeeAdapter
  <2>1. cache' \in Objects /\ cache'.rbg = cache.rbg /\ cache'.adapter = api.adapter
    BY <1>4, Parts DEF SeeAdapter, TypeOK, ObjectsOK, Objects
  <2>2. /\ ObjectsOK' /\ StageOK'
        /\ Sized(api.rbg)' /\ Sized(cache.rbg)' /\ Sized(pass.rbg)'
    BY <1>4, <2>1 DEF SeeAdapter, TypeOK, ObjectsOK, StageOK, Sized
  <2>3. QueuesOK'
    BY <1>4 DEF SeeAdapter, TypeOK, QueuesOK
  <2>4. NumbersOK'
    BY <1>4, <2>1 DEF SeeAdapter, TypeOK, NumbersOK, Numbered
  <2> QED
    BY <2>2, <2>3, <2>4 DEF TypeOK
<1> QED
  BY <1>1, <1>2, <1>3, <1>4

LEMMA TypeGroupController ==
  ASSUME TypeOK, GroupController
  PROVE  TypeOK'
<1>1. CASE BeginGroupPass
  <2>1. groupPass' \in RoleStates
    BY <1>1, ReadType DEF BeginGroupPass, Rbg
  <2> QED
    BY <1>1, <2>1 DEF BeginGroupPass, TypeOK, ObjectsOK, QueuesOK, NumbersOK, Numbered,
                      StageOK, Sized
<1>2. CASE CreateAdapter
  <2>1. /\ api' \in Objects /\ api'.adapter = NewAdapter
        /\ api'.rbg = api.rbg /\ queued' \in BOOLEAN
    BY <1>2, NewAdapterType, WrittenAdapter DEF CreateAdapter, TypeOK, ObjectsOK
  <2> QED
    BY <1>2, <2>1, NewAdapterType
       DEF CreateAdapter, TypeOK, ObjectsOK, QueuesOK, NumbersOK, Numbered, StageOK, Sized
<1>3. CASE DeleteAdapter
  <2>1. /\ api' \in Objects /\ api'.adapter = NoAdapter
        /\ api'.rbg = api.rbg /\ queued' \in BOOLEAN
    BY <1>3, NewAdapterType, WrittenAdapter DEF DeleteAdapter, TypeOK, ObjectsOK
  <2> QED
    BY <1>3, <2>1, NewAdapterType
       DEF DeleteAdapter, TypeOK, ObjectsOK, QueuesOK, NumbersOK, Numbered, StageOK, Sized
<1>4. CASE GroupPassFails \/ LookUpAdapter
  BY <1>4 DEF GroupPassFails, LookUpAdapter, TypeOK, ObjectsOK, QueuesOK, NumbersOK,
              Numbered, StageOK, Sized
<1> QED
  BY <1>1, <1>2, <1>3, <1>4 DEF GroupController

\* A pass that writes the status and ends.
LEMMA TypeStatusWritten ==
  ASSUME TypeOK, NEW new \in Adapter, new.spec = api.adapter.spec, NEW requeue,
         WriteAdapter(new, requeue), pass' = NoPass,
         UNCHANGED <<cache, groupQueued, groupPass, requests, applied, asked, budget>>
  PROVE  TypeOK'
<1>1. api' \in Objects /\ api'.adapter = new /\ api'.rbg = api.rbg /\ queued' \in BOOLEAN
  BY WrittenAdapter DEF TypeOK, ObjectsOK
<1>2. ObjectsOK' /\ StageOK' /\ Sized(api.rbg)' /\ Sized(cache.rbg)' /\ Sized(pass.rbg)'
  BY <1>1, PassEnds DEF TypeOK, ObjectsOK, Sized
<1>3. QueuesOK'
  BY <1>1 DEF TypeOK, QueuesOK
<1>4. NumbersOK'
  BY <1>1, PassEnds DEF TypeOK, NumbersOK, Numbered
<1> QED
  BY <1>2, <1>3, <1>4 DEF TypeOK

\* A pass that goes on, or ends, and has written nothing.
LEMMA TypePassMoves ==
  ASSUME TypeOK, pass' \in Passes, StageOK', Sized(pass.rbg)', Numbered(pass.adapter)',
         queued' \in BOOLEAN, budget' \in [edit : Nat, request : Nat, failure : Nat],
         UNCHANGED <<api, cache, groupQueued, groupPass, requests, applied, asked>>
  PROVE  TypeOK'
  BY DEF TypeOK, ObjectsOK, QueuesOK, NumbersOK, Numbered, Sized

LEMMA TypeBegin ==
  ASSUME TypeOK, Begin
  PROVE  TypeOK'
<1> DEFINE a == Read("adapter")
           g == Read("rbg")
           stage == Stage(a, g)
<1>1. a \in Adapter /\ g \in Rbg /\ Sized(g) /\ Numbered(a)
  BY ReadType
<1>2. stage \in Stages
  BY DEF Stage, Stages
<1>3. stage = "bindSpec" => g.role # "absent"
  BY DEF Stage, ToBind
<1>4. stage \in {"scale", "scaleStatus"} => a.spec # 0
  BY DEF Stage, ToScale
<1>5. /\ pass' = IF stage = "idle" THEN NoPass ELSE [at |-> stage, adapter |-> a, rbg |-> g]
      /\ queued' \in BOOLEAN
      /\ UNCHANGED <<api, cache, groupQueued, groupPass, requests, applied, asked, budget>>
  BY DEF Begin, Managed
<1> HIDE DEF a, g, stage
<1>6. CASE stage = "idle"
  <2>1. pass' = NoPass
    BY <1>5, <1>6
  <2>2. Numbered(pass.adapter)'
    BY <1>5, <2>1, PassEnds DEF TypeOK, NumbersOK, Numbered
  <2> QED
    BY <1>5, <2>1, <2>2, PassEnds, TypePassMoves DEF TypeOK, QueuesOK
<1>7. CASE stage # "idle"
  <2>1. pass' = [at |-> stage, adapter |-> a, rbg |-> g]
    BY <1>5, <1>7
  <2>2. pass' \in Passes /\ StageOK' /\ Sized(pass.rbg)' /\ Numbered(pass.adapter)'
    BY <1>1, <1>2, <1>3, <1>4, <1>5, <2>1 DEF Passes, StageOK, Sized, Numbered
  <2> QED
    BY <1>5, <2>2, TypePassMoves DEF TypeOK, QueuesOK
<1> QED
  BY <1>6, <1>7

LEMMA TypeBindSpec ==
  ASSUME TypeOK, BindSpec
  PROVE  TypeOK'
<1> DEFINE n == pass.rbg.size
           kept == api.adapter.spec # 0 /\ requests[api.adapter.spec] = n
           new == Applied(api.adapter, Len(requests'))
<1>1. n \in Sizes
  BY DEF BindSpec, TypeOK, StageOK, Sized
<1>2. /\ requests' = IF kept THEN requests ELSE Append(requests, n)
      /\ WriteAdapter(new, queued)
      /\ pass' = [pass EXCEPT !.at = "bindStatus"]
      /\ UNCHANGED <<cache, groupQueued, groupPass, applied, asked, budget>>
  BY DEF BindSpec
<1>3. api.adapter \in Adapter /\ api \in Objects /\ pass \in Passes
  BY Parts DEF TypeOK, ObjectsOK
<1> HIDE DEF kept, n
<1>4. /\ requests' \in Seq(Sizes)
      /\ Len(requests) \in Nat /\ Len(requests') \in Nat
      /\ Len(requests) <= Len(requests')
  BY <1>1, <1>2, AppendType DEF TypeOK, NumbersOK
<1>5. new \in Adapter /\ new.spec = Len(requests')
  BY <1>3, <1>4, AppliedType
<1> HIDE DEF new
<1>6. api' \in Objects /\ api'.adapter = new /\ api'.rbg = api.rbg /\ queued' \in BOOLEAN
  BY <1>2, <1>3, <1>5, WrittenAdapter
<1>7. /\ pass' \in Passes /\ pass'.at = "bindStatus"
      /\ pass'.adapter = pass.adapter /\ pass'.rbg = pass.rbg
  BY <1>2, <1>3 DEF Passes, Stages
<1>8. ObjectsOK' /\ StageOK' /\ Sized(api.rbg)' /\ Sized(cache.rbg)' /\ Sized(pass.rbg)'
  BY <1>2, <1>6, <1>7 DEF TypeOK, ObjectsOK, StageOK, Sized
<1>9. QueuesOK'
  BY <1>2, <1>6 DEF TypeOK, QueuesOK
<1>10. NumbersOK'
  BY <1>2, <1>4, <1>5, <1>6, <1>7 DEF TypeOK, NumbersOK, Numbered
<1> QED
  BY <1>8, <1>9, <1>10 DEF TypeOK

\* The group with the role scaled: all but the size is as it was.
LEMMA ResizedType ==
  ASSUME TypeOK, pass.at = "scale"
  PROVE  /\ Resized(pass.rbg) \in Rbg /\ Sized(Resized(pass.rbg))
         /\ Resized(pass.rbg).edits = pass.rbg.edits
         /\ \/ Resized(pass.rbg) = pass.rbg
            \/ Resized(pass.rbg).size = requests[pass.adapter.spec]
<1> DEFINE n == requests[pass.adapter.spec]
<1>1. pass.rbg \in Rbg /\ Sized(pass.rbg)
  BY Parts DEF TypeOK
<1>2. n \in Sizes
  BY NumberType DEF TypeOK, NumbersOK, Numbered, StageOK
<1>3. Resized(pass.rbg) = IF pass.rbg.role = "absent" THEN pass.rbg
                          ELSE [pass.rbg EXCEPT !.size = n]
  BY DEF Resized
<1> HIDE DEF n
<1>4. CASE pass.rbg.role = "absent"
  BY <1>1, <1>3, <1>4
<1>5. CASE pass.rbg.role # "absent"
  <2>1. /\ Resized(pass.rbg) \in Rbg /\ Resized(pass.rbg).size = n
        /\ Resized(pass.rbg).edits = pass.rbg.edits
    BY <1>1, <1>2, <1>3, <1>5 DEF Rbg
  <2> QED
    BY <1>2, <2>1 DEF Sized, n
<1> QED
  BY <1>4, <1>5

LEMMA TypeScaleRole ==
  ASSUME TypeOK, ScaleRole
  PROVE  TypeOK'
<1> DEFINE new == Resized(pass.rbg)
<1>1. pass \in Passes /\ pass.at = "scale" /\ api \in Objects
  BY DEF ScaleRole, TypeOK, ObjectsOK
<1>2. new \in Rbg /\ Sized(new)
  BY <1>1, ResizedType
<1>3. /\ pass' \in Passes /\ pass'.at = "scaleStatus"
      /\ pass'.adapter = pass.adapter /\ pass'.rbg = pass.rbg
  BY <1>1 DEF ScaleRole, Passes, Stages
<1>4. UNCHANGED <<cache, queued, groupPass, requests, asked, budget>>
  BY DEF ScaleRole
<1>5. \/ UNCHANGED <<api, groupQueued, applied>>
      \/ WriteRbg(new) /\ applied' = pass.adapter.spec
  BY DEF ScaleRole
<1> HIDE DEF new
<1>6. /\ api' \in Objects /\ api'.adapter = api.adapter /\ Sized(api.rbg)'
      /\ groupQueued' \in BOOLEAN
  <2>1. CASE UNCHANGED <<api, groupQueued, applied>>
    BY <2>1 DEF TypeOK, ObjectsOK, QueuesOK, Sized
  <2>2. CASE WriteRbg(new)
    <3>1. /\ api' \in Objects /\ api'.adapter = api.adapter /\ groupQueued' \in BOOLEAN
          /\ api'.rbg = [new EXCEPT !.version = api.rbg.version + 1]
      BY <1>1, <1>2, <2>2, WrittenRbg
    <3> QED
      BY <1>2, <3>1 DEF Sized, Rbg
  <2> QED
    BY <1>5, <2>1, <2>2
<1>7. ObjectsOK' /\ StageOK' /\ Sized(cache.rbg)' /\ Sized(pass.rbg)'
  BY <1>1, <1>3, <1>4, <1>6 DEF TypeOK, ObjectsOK, StageOK, Sized
<1>8. QueuesOK'
  BY <1>4, <1>6 DEF TypeOK, QueuesOK
<1>9. applied' \in 0 .. Len(requests)
  BY <1>5 DEF TypeOK, NumbersOK, Numbered
<1>10. NumbersOK'
  BY <1>3, <1>4, <1>6, <1>9 DEF TypeOK, NumbersOK, Numbered
<1> QED
  BY <1>6, <1>7, <1>8, <1>10 DEF TypeOK

LEMMA TypeRetryScale ==
  ASSUME TypeOK, RetryScale
  PROVE  TypeOK'
<1>1. Read("rbg") \in Rbg /\ Sized(Read("rbg"))
  BY ReadType
<1>2. /\ pass' \in Passes /\ pass'.at = pass.at
      /\ pass'.adapter = pass.adapter /\ pass'.rbg = Read("rbg")
  BY <1>1 DEF RetryScale, Passes, TypeOK, ObjectsOK
<1>3. StageOK' /\ Sized(pass.rbg)' /\ Numbered(pass.adapter)'
  BY <1>1, <1>2 DEF RetryScale, TypeOK, NumbersOK, Numbered, StageOK, Sized
<1> QED
  BY <1>2, <1>3, TypePassMoves DEF RetryScale, TypeOK, QueuesOK

LEMMA TypeAdapterController ==
  ASSUME TypeOK, AdapterController
  PROVE  TypeOK'
<1>1. /\ api.adapter \in Adapter /\ pass.adapter \in Adapter
      /\ pass.rbg.size \in Sizes \cup {0}
  BY Parts DEF TypeOK, Rbg
<1>2. CASE Unbind
  <2> DEFINE new == IF api.adapter.exists
                      THEN Status(api.adapter, "NotBound", pass.adapter.reported)
                      ELSE api.adapter
  <2>1. new \in Adapter /\ new.spec = api.adapter.spec
    <3>1. pass.adapter.reported \in Sizes \cup {0}
      BY <1>1 DEF Adapter
    <3>2. /\ Status(api.adapter, "NotBound", pass.adapter.reported) \in Adapter
          /\ Status(api.adapter, "NotBound", pass.adapter.reported).spec = api.adapter.spec
      BY <1>1, <3>1, StatusType
    <3> QED
      BY <1>1, <3>2
  <2>2. WriteAdapter(new, TRUE)
    BY <1>2 DEF Unbind
  <2> HIDE DEF new
  <2> QED
    BY <1>2, <2>1, <2>2, TypeStatusWritten DEF Unbind
<1>3. CASE BindStatus
  <2> DEFINE new == Status(api.adapter, "Bound", pass.rbg.size)
  <2>1. new \in Adapter /\ new.spec = api.adapter.spec
    BY <1>1, StatusType
  <2>2. WriteAdapter(new, TRUE)
    BY <1>3 DEF BindStatus
  <2> HIDE DEF new
  <2> QED
    BY <1>3, <2>1, <2>2, TypeStatusWritten DEF BindStatus
<1>4. CASE ScaleStatus
  <2> DEFINE n == requests[pass.adapter.spec]
             new == Status(api.adapter, pass.adapter.phase, n)
  <2>1. n \in Sizes
    BY <1>4, NumberType DEF ScaleStatus, TypeOK, NumbersOK, Numbered, StageOK
  <2>2. WriteAdapter(new, queued)
    BY <1>4 DEF ScaleStatus
  <2>3. pass.adapter.phase \in {"", "Bound", "NotBound"}
    BY <1>1 DEF Adapter
  <2> HIDE DEF n
  <2>4. n \in Sizes \cup {0}
    BY <2>1
  <2>5. new \in Adapter /\ new.spec = api.adapter.spec
    BY Zenon, <1>1, <2>3, <2>4, StatusType
  <2> HIDE DEF new
  <2> QED
    BY <1>4, <2>2, <2>5, TypeStatusWritten DEF ScaleStatus
<1>5. CASE GiveUp
  <2>1. pass' = NoPass /\ queued' \in BOOLEAN
    BY <1>5 DEF GiveUp, Retried
  <2>2. Numbered(pass.adapter)'
    BY <1>5, <2>1, PassEnds DEF GiveUp, TypeOK, NumbersOK, Numbered
  <2> QED
    BY <1>5, <2>1, <2>2, PassEnds, TypePassMoves DEF GiveUp, TypeOK, QueuesOK
<1> QED
  BY <1>2, <1>3, <1>4, <1>5, TypeBegin, TypeBindSpec, TypeScaleRole, TypeRetryScale
     DEF AdapterController

LEMMA TypeFailures ==
  ASSUME TypeOK, PassFails \/ ManagerRestarts
  PROVE  TypeOK'
<1>1. CASE PassFails
  <2>1. /\ pass' = NoPass /\ queued' \in BOOLEAN
        /\ budget' \in [edit : Nat, request : Nat, failure : Nat]
    BY <1>1 DEF PassFails, Retried, TypeOK, QueuesOK
  <2>2. Numbered(pass.adapter)'
    BY <1>1, <2>1, PassEnds DEF PassFails, TypeOK, NumbersOK, Numbered
  <2> QED
    BY <1>1, <2>1, <2>2, PassEnds, TypePassMoves DEF PassFails
<1>2. CASE ManagerRestarts
  <2>1. cache' = api /\ pass' = NoPass
    BY <1>2 DEF ManagerRestarts
  <2>2. ObjectsOK' /\ StageOK' /\ Sized(api.rbg)' /\ Sized(cache.rbg)' /\ Sized(pass.rbg)'
    BY <1>2, <2>1, PassEnds DEF ManagerRestarts, TypeOK, ObjectsOK, Sized
  <2>3. api.adapter.exists \in BOOLEAN
    BY Parts DEF TypeOK, Adapter
  <2>4. QueuesOK'
    BY <1>2, <2>3 DEF ManagerRestarts, TypeOK, QueuesOK
  <2>5. NumbersOK'
    BY <1>2, <2>1, PassEnds DEF ManagerRestarts, TypeOK, NumbersOK, Numbered
  <2> QED
    BY <2>2, <2>4, <2>5 DEF TypeOK
<1> QED
  BY <1>1, <1>2

LEMMA TypeStep == TypeOK /\ [Next]_vars => TypeOK'
<1> SUFFICES ASSUME TypeOK, [Next]_vars
             PROVE  TypeOK'
  OBVIOUS
<1>1. CASE UNCHANGED vars
  BY <1>1 DEF vars, TypeOK, ObjectsOK, QueuesOK, NumbersOK, Numbered, StageOK, Sized
<1> QED
  BY <1>1, TypeEnvironment, TypeGroupController, TypeAdapterController, TypeFailures DEF Next

\* Every reachable state is well typed: in particular, a pass that scales has a
\* number to scale to, and the adapter's numbers are those that were written.
THEOREM AdapterTypeCorrect == Spec => []TypeOK
<1> QED
  BY TypeInit, TypeStep, PTL DEF Spec

-----------------------------------------------------------------------------
(* The versions of the group. *)

LEMMA VersionsInit == Init => VersionsTell
<1> SUFFICES ASSUME Init PROVE VersionsTell
  OBVIOUS
<1>1. PICK n \in Sizes :
        api = [rbg |-> [version |-> 1, role |-> "enabled", size |-> n, edits |-> 0],
               adapter |-> NoAdapter]
  BY DEF Init
<1>2. cache = api /\ pass.rbg.version = 0
  BY DEF Init, NoPass, NoRbg
<1> QED
  BY <1>1, <1>2 DEF VersionsTell, Tells

\* A group that is written has a version of its own.
LEMMA VersionsWritten ==
  ASSUME TypeOK, VersionsTell, NEW new \in Rbg, WriteRbg(new),
         cache'.rbg = cache.rbg, pass'.rbg = pass.rbg
  PROVE  VersionsTell'
<1>1. api'.rbg = [new EXCEPT !.version = api.rbg.version + 1]
  BY WrittenRbg DEF TypeOK, ObjectsOK
<1>2. api'.rbg.version = api.rbg.version + 1
  BY <1>1 DEF Rbg
<1>3. api.rbg.version \in Nat /\ cache.rbg.version \in Nat /\ pass.rbg.version \in Nat
  BY Parts DEF TypeOK, Rbg
<1> QED
  BY <1>2, <1>3 DEF VersionsTell, Tells

\* The group is not written, and the copies come from it or from the cache.
LEMMA VersionsKept ==
  ASSUME TypeOK, VersionsTell, api'.rbg = api.rbg,
         cache'.rbg \in {cache.rbg, api.rbg},
         pass'.rbg \in {pass.rbg, cache.rbg, api.rbg, NoRbg}
  PROVE  VersionsTell'
<1>1. api.rbg.version \in Nat
  BY Parts DEF TypeOK, Rbg
<1>2. NoRbg.version = 0
  BY DEF NoRbg
<1> QED
  BY <1>1, <1>2 DEF VersionsTell, Tells

LEMMA AdapterOnly ==
  ASSUME TypeOK, NEW new, NEW requeue, WriteAdapter(new, requeue)
  PROVE  api'.rbg = api.rbg /\ api'.adapter = new
  BY DEF TypeOK, ObjectsOK, Objects, WriteAdapter

LEMMA VersionsStep == TypeOK /\ VersionsTell /\ [Next]_vars => VersionsTell'
<1> SUFFICES ASSUME TypeOK, VersionsTell, [Next]_vars
             PROVE  VersionsTell'
  OBVIOUS
<1> USE DEF NoPass
<1>1. ASSUME NEW role \in RoleStates, NEW n \in Sizes \cup {0}, Edit(role, n)
      PROVE  VersionsTell'
  <2>1. Edited(api.rbg, role, n) \in Rbg
    BY Parts, EditedType DEF TypeOK
  <2> QED
    BY <1>1, <2>1, VersionsWritten DEF Edit
<1>2. CASE UserEdits
  BY <1>1, <1>2 DEF UserEdits, RoleStates
<1>3. CASE ScaleRole
  <2>1. pass'.rbg = pass.rbg /\ cache' = cache
    BY <1>3 DEF ScaleRole, TypeOK, ObjectsOK, Passes
  <2>2. Resized(pass.rbg) \in Rbg
    BY <1>3, ResizedType DEF ScaleRole
  <2>3. CASE WriteRbg(Resized(pass.rbg))
    BY <2>1, <2>2, <2>3, VersionsWritten
  <2>4. CASE api' = api
    BY <2>1, <2>4, VersionsKept
  <2> QED
    BY <1>3, <2>3, <2>4 DEF ScaleRole
<1>4. ASSUME NEW n \in Sizes, Request(n) PROVE VersionsTell'
  BY <1>4, AdapterOnly, VersionsKept DEF Request
<1>5. CASE SeeRbg \/ SeeAdapter
  <2>1. cache'.rbg \in {cache.rbg, api.rbg}
    BY <1>5 DEF SeeRbg, SeeAdapter, TypeOK, ObjectsOK, Objects
  <2> QED
    BY <1>5, <2>1, VersionsKept DEF SeeRbg, SeeAdapter
<1>6. CASE GroupController
  <2>1. api'.rbg = api.rbg
    BY <1>6, AdapterOnly DEF GroupController, BeginGroupPass, CreateAdapter, DeleteAdapter,
                             GroupPassFails, LookUpAdapter
  <2>2. UNCHANGED <<cache, pass>>
    BY <1>6 DEF GroupController, BeginGroupPass, CreateAdapter, DeleteAdapter,
                GroupPassFails, LookUpAdapter
  <2> QED
    BY <2>1, <2>2, VersionsKept
<1>7. CASE Begin
  <2>1. Read("rbg") \in {api.rbg, cache.rbg}
    BY DEF TypeOK, ObjectsOK, Objects, Read
  <2>2. pass'.rbg \in {NoRbg, Read("rbg")}
    BY <1>7 DEF Begin
  <2> QED
    BY <1>7, <2>1, <2>2, VersionsKept DEF Begin
<1>8. CASE RetryScale
  <2>1. Read("rbg") \in {api.rbg, cache.rbg}
    BY DEF TypeOK, ObjectsOK, Objects, Read
  <2>2. pass'.rbg = Read("rbg")
    BY <1>8 DEF RetryScale, TypeOK, ObjectsOK, Passes
  <2> QED
    BY <1>8, <2>1, <2>2, VersionsKept DEF RetryScale
<1>9. CASE BindSpec
  <2>1. pass'.rbg = pass.rbg
    BY <1>9 DEF BindSpec, TypeOK, ObjectsOK, Passes
  <2>2. api'.rbg = api.rbg
    BY <1>9, AdapterOnly DEF BindSpec
  <2> QED
    BY <1>9, <2>1, <2>2, VersionsKept DEF BindSpec
<1>10. CASE Unbind \/ BindStatus \/ ScaleStatus
  <2>1. api'.rbg = api.rbg
    BY <1>10, AdapterOnly DEF Unbind, BindStatus, ScaleStatus
  <2>2. cache' = cache /\ pass' = NoPass
    BY <1>10, Zenon DEF Unbind, BindStatus, ScaleStatus
  <2> QED
    BY <2>1, <2>2, VersionsKept
<1>11. CASE GiveUp \/ PassFails \/ ManagerRestarts
  <2>1. api' = api /\ cache'.rbg \in {cache.rbg, api.rbg} /\ pass'.rbg = NoRbg
    BY <1>11 DEF GiveUp, PassFails, ManagerRestarts
  <2> QED
    BY <2>1, VersionsKept
<1>12. CASE UNCHANGED vars
  BY <1>12, VersionsKept DEF vars
<1> QED
  BY <1>2, <1>3, <1>4, <1>5, <1>6, <1>7, <1>8, <1>9, <1>10, <1>11, <1>12
     DEF Next, AdapterController

-----------------------------------------------------------------------------
(* The order of the numbers. *)

LEMMA OrderInit == Init => NumbersInOrder
<1> SUFFICES ASSUME Init PROVE NumbersInOrder
  OBVIOUS
<1>1. api.adapter = NoAdapter /\ cache.adapter = NoAdapter
  BY DEF Init
<1> QED
  BY <1>1, NewAdapterType, NoPassType DEF Init, NumbersInOrder

\* The log grows or stays, the adapter asks for its end or for nothing; nothing
\* is applied, and no pass comes to scale.
LEMMA OrderWritten ==
  ASSUME TypeOK, NumbersInOrder,
         Len(requests') \in Nat, Len(requests') >= Len(requests),
         api'.adapter.spec \in {0, Len(requests')},
         UNCHANGED <<cache, applied>>,
         pass' = pass \/ pass'.at # "scale"
  PROVE  NumbersInOrder'
  BY DEF NumbersInOrder

\* The log and the adapter stay.
LEMMA OrderKept ==
  ASSUME TypeOK, NumbersInOrder, UNCHANGED <<requests, applied>>,
         api'.adapter.spec \in {0, api.adapter.spec},
         cache' = cache,
         pass' = pass \/ pass'.at # "scale"
  PROVE  NumbersInOrder'
  BY DEF NumbersInOrder

LEMMA OrderBegin ==
  ASSUME TypeOK, NumbersInOrder, Begin
  PROVE  NumbersInOrder'
<1> DEFINE a == Read("adapter")
           g == Read("rbg")
<1>1. /\ UNCHANGED <<api, cache, requests, applied>>
      /\ \/ pass' = NoPass
         \/ pass' = [at |-> Stage(a, g), adapter |-> a, rbg |-> g]
  BY DEF Begin
<1>2. CASE pass' = NoPass
  BY <1>1, <1>2, NoPassType, OrderKept
<1>3. CASE pass' = [at |-> Stage(a, g), adapter |-> a, rbg |-> g]
  <2>1. pass'.at = Stage(a, g) /\ pass'.adapter = a
    BY <1>3
  <2>2. Stage(a, g) = "scale" => a.spec # 0
    BY DEF Stage, ToScale
  <2>3. a = IF "adapter" \in Lag THEN cache.adapter ELSE api.adapter
    BY DEF Read, TypeOK, ObjectsOK, Objects
  <2>4. /\ Len(requests) \in Nat /\ applied \in 0 .. Len(requests)
        /\ a.spec \in Nat
    <3>1. Len(requests) \in Nat /\ applied \in 0 .. Len(requests)
      BY DEF TypeOK, NumbersOK
    <3>2. a.spec \in Nat
      BY ReadType DEF Adapter
    <3> QED
      BY <3>1, <3>2
  <2> HIDE DEF a, g
  <2>5. a.spec # 0 => applied <= a.spec
    BY <2>3, <2>4 DEF NumbersInOrder
  <2> QED
    BY <1>1, <2>1, <2>2, <2>3, <2>4, <2>5 DEF NumbersInOrder
<1> QED
  BY <1>1, <1>2, <1>3

LEMMA OrderStep == TypeOK /\ NumbersInOrder /\ [Next]_vars => NumbersInOrder'
<1> SUFFICES ASSUME TypeOK, NumbersInOrder, [Next]_vars
             PROVE  NumbersInOrder'
  OBVIOUS
<1>1. /\ Len(requests) \in Nat /\ applied \in 0 .. Len(requests)
      /\ api.adapter.spec \in Nat /\ cache.adapter.spec \in Nat
      /\ pass.adapter.spec \in 0 .. Len(requests)
  <2>1. /\ Len(requests) \in Nat /\ applied \in 0 .. Len(requests)
        /\ pass.adapter.spec \in 0 .. Len(requests)
    BY DEF TypeOK, NumbersOK, Numbered
  <2>2. api.adapter.spec \in Nat /\ cache.adapter.spec \in Nat
    BY Parts DEF TypeOK, Adapter
  <2> QED
    BY <2>1, <2>2
<1>2. CASE UserEdits
  <2>1. ASSUME NEW role, NEW n, Edit(role, n)
        PROVE  api'.adapter = api.adapter /\ UNCHANGED <<cache, pass, requests, applied>>
    BY <2>1 DEF Edit, WriteRbg, TypeOK, ObjectsOK, Objects
  <2>2. api'.adapter = api.adapter /\ UNCHANGED <<cache, pass, requests, applied>>
    BY <1>2, <2>1 DEF UserEdits
  <2> QED
    BY <2>2, OrderKept
<1>3. ASSUME NEW n \in Sizes, Request(n) PROVE NumbersInOrder'
  <2>1. Len(requests') = Len(requests) + 1
    BY <1>3, AppendType DEF Request, TypeOK
  <2>2. api'.adapter = Applied(api.adapter, Len(requests'))
    BY <1>3, AdapterOnly DEF Request
  <2>3. api.adapter \in Adapter /\ Len(requests') \in Nat
    BY <1>1, <2>1, Parts DEF TypeOK
  <2>4. api'.adapter.spec = Len(requests')
    BY <2>2, <2>3, AppliedType
  <2> QED
    BY <1>1, <1>3, <2>1, <2>3, <2>4, OrderWritten DEF Request
<1>4. CASE SeeRbg
  <2>1. cache'.adapter = cache.adapter
    BY <1>4 DEF SeeRbg, TypeOK, ObjectsOK, Objects
  <2> QED
    BY <1>4, <2>1 DEF SeeRbg, NumbersInOrder
<1>5. CASE SeeAdapter \/ ManagerRestarts
  <2>1. /\ cache'.adapter = api.adapter
        /\ UNCHANGED <<api, requests, applied>>
        /\ pass' = pass \/ pass'.at = "idle"
    BY <1>5, NoPassType DEF SeeAdapter, ManagerRestarts, TypeOK, ObjectsOK, Objects
  <2> QED
    BY <1>1, <2>1 DEF NumbersInOrder
<1>6. CASE GroupController
  <2>1. /\ api'.adapter \in {api.adapter, NewAdapter, NoAdapter}
        /\ UNCHANGED <<cache, pass, requests, applied>>
    BY <1>6, AdapterOnly DEF GroupController, BeginGroupPass, CreateAdapter, DeleteAdapter,
                             GroupPassFails, LookUpAdapter
  <2> QED
    BY <2>1, NewAdapterType, OrderKept
<1>7. CASE BindSpec
  <2> DEFINE n == pass.rbg.size
             kept == api.adapter.spec # 0 /\ requests[api.adapter.spec] = n
  <2>1. n \in Sizes
    BY <1>7 DEF BindSpec, TypeOK, StageOK, Sized
  <2>2. requests' = IF kept THEN requests ELSE Append(requests, n)
    BY <1>7 DEF BindSpec
  <2> HIDE DEF kept, n
  <2>3. Len(requests') \in Nat /\ Len(requests') >= Len(requests)
    BY <1>1, <2>1, <2>2, AppendType DEF TypeOK
  <2>4. api'.adapter = Applied(api.adapter, Len(requests'))
    BY <1>7, AdapterOnly DEF BindSpec
  <2>5. api'.adapter.spec = Len(requests')
    BY <2>3, <2>4, Parts, AppliedType DEF TypeOK
  <2>6. pass'.at = "bindStatus" /\ UNCHANGED <<cache, applied>>
    BY <1>7 DEF BindSpec, TypeOK, ObjectsOK, Passes
  <2> QED
    BY <2>3, <2>5, <2>6, OrderWritten
<1>8. CASE Unbind \/ BindStatus \/ ScaleStatus
  <2>1. UNCHANGED <<cache, requests, applied>> /\ pass' = NoPass
    BY <1>8, Zenon DEF Unbind, BindStatus, ScaleStatus
  <2>2. \/ api'.adapter = api.adapter
        \/ \E phase, n : api'.adapter = Status(api.adapter, phase, n)
    BY <1>8, AdapterOnly, Zenon DEF Unbind, BindStatus, ScaleStatus
  <2>3. ASSUME NEW phase, NEW n
        PROVE  Status(api.adapter, phase, n).spec = api.adapter.spec
    BY DEF Status
  <2>4. api'.adapter.spec = api.adapter.spec
    BY <2>2, <2>3
  <2> QED
    BY <2>1, <2>4, NoPassType, OrderKept
<1>9. CASE ScaleRole
  <2>1. /\ pass.at = "scale" /\ pass'.at = "scaleStatus"
        /\ UNCHANGED <<cache, requests>>
        /\ applied' \in {applied, pass.adapter.spec}
    BY <1>9 DEF ScaleRole, TypeOK, ObjectsOK, Passes
  <2>2. api'.adapter = api.adapter
    BY <1>9 DEF ScaleRole, WriteRbg, TypeOK, ObjectsOK, Objects
  <2> QED
    BY <1>1, <2>1, <2>2 DEF NumbersInOrder
<1>10. CASE RetryScale
  <2>1. /\ pass'.at = pass.at /\ pass'.adapter = pass.adapter
        /\ UNCHANGED <<api, cache, requests, applied>>
    BY <1>10 DEF RetryScale, TypeOK, ObjectsOK, Passes
  <2> QED
    BY <2>1 DEF NumbersInOrder
<1>11. CASE GiveUp \/ PassFails
  BY <1>11, NoPassType, OrderKept DEF GiveUp, PassFails
<1>12. CASE UNCHANGED vars
  BY <1>12, OrderKept DEF vars
<1> QED
  BY <1>2, <1>3, <1>4, <1>5, <1>6, <1>7, <1>8, <1>9, <1>10, <1>11, <1>12, OrderBegin
     DEF Next, AdapterController

-----------------------------------------------------------------------------
(* The refinement. *)

LEMMA InvInit == Init => IInv
  BY TypeInit, VersionsInit, OrderInit DEF IInv

LEMMA InvStep == IInv /\ [Next]_vars => IInv'
  BY TypeStep, VersionsStep, OrderStep DEF IInv

LEMMA TargetInit == Init => Target!Init
<1> SUFFICES ASSUME Init PROVE Target!Init
  OBVIOUS
<1>1. PICK n \in Sizes :
        api = [rbg |-> [version |-> 1, role |-> "enabled", size |-> n, edits |-> 0],
               adapter |-> NoAdapter]
  BY DEF Init
<1>2. api.rbg.size \in Sizes /\ api.rbg.edits = 0
  BY <1>1
<1> QED
  BY <1>2 DEF Init, Target!Init

targetVars == <<requests, applied, api.rbg.size, api.rbg.edits>>

\* A step that writes neither the group nor a number.
LEMMA TargetStutters ==
  ASSUME UNCHANGED <<requests, applied>>, api'.rbg = api.rbg
  PROVE  UNCHANGED targetVars
  BY DEF targetVars

LEMMA TargetStep == IInv /\ [Next]_vars => [Target!Next]_targetVars
<1> SUFFICES ASSUME IInv, [Next]_vars
             PROVE  Target!Next \/ UNCHANGED targetVars
  OBVIOUS
<1>1. TypeOK
  BY DEF IInv
<1>2. CASE UserEdits
  <2>1. ASSUME NEW role \in RoleStates, NEW n \in Sizes \cup {0}, Edit(role, n)
        PROVE  Target!Next
    <3> DEFINE new == Edited(api.rbg, role, n)
    <3>1. /\ new \in Rbg /\ new.size = n /\ new.edits = api.rbg.edits + 1
      BY <1>1, Parts, EditedType DEF TypeOK
    <3>2. WriteRbg(new) /\ UNCHANGED <<requests, applied>>
      BY <2>1 DEF Edit
    <3> HIDE DEF new
    <3>3. api'.rbg = [new EXCEPT !.version = api.rbg.version + 1]
      BY <1>1, <3>1, <3>2, WrittenRbg DEF TypeOK, ObjectsOK
    <3>4. api'.rbg.size = n /\ api'.rbg.edits = api.rbg.edits + 1
      BY <3>1, <3>3 DEF Rbg
    <3> QED
      BY <3>2, <3>4 DEF Target!Next, Target!Edit
  <2> QED
    BY <1>2, <2>1 DEF UserEdits, RoleStates
<1>3. ASSUME NEW n \in Sizes, Request(n) PROVE Target!Next
  <2>1. api'.rbg = api.rbg /\ requests' = Append(requests, n) /\ applied' = applied
    BY <1>1, <1>3, AdapterOnly DEF Request
  <2> QED
    BY <2>1 DEF Target!Next, Target!Ask
<1>4. CASE BindSpec
  <2>1. pass.rbg.size \in Sizes
    BY <1>1, <1>4 DEF BindSpec, TypeOK, StageOK, Sized
  <2>2. api'.rbg = api.rbg /\ applied' = applied
    BY <1>1, <1>4, AdapterOnly DEF BindSpec
  <2>3. requests' = requests \/ requests' = Append(requests, pass.rbg.size)
    BY <1>4 DEF BindSpec
  <2>4. CASE requests' = requests
    BY <2>2, <2>4, TargetStutters
  <2>5. CASE requests' = Append(requests, pass.rbg.size)
    BY <2>1, <2>2, <2>5 DEF Target!Next, Target!Ask
  <2> QED
    BY <2>3, <2>4, <2>5
<1>5. CASE ScaleRole
  <2> DEFINE new == Resized(pass.rbg)
             i   == pass.adapter.spec
  <2>1. /\ pass.at = "scale" /\ requests' = requests
        /\ pass.rbg.version = api.rbg.version
        /\ \/ api' = api /\ applied' = applied
           \/ new # pass.rbg /\ WriteRbg(new) /\ applied' = i
    BY <1>5 DEF ScaleRole, Conflicts
  <2>2. pass.rbg = api.rbg
    BY <2>1 DEF IInv, VersionsTell, Tells
  <2>3. CASE api' = api /\ applied' = applied
    BY <2>1, <2>3, TargetStutters
  <2>4. CASE new # pass.rbg /\ WriteRbg(new) /\ applied' = i
    <3>1. new \in Rbg /\ new.edits = api.rbg.edits /\ new.size = requests[i]
      BY <1>1, <2>1, <2>2, <2>4, ResizedType
    <3>2. i \in DOMAIN requests /\ applied <= i
      BY <1>1, <2>1, NumberType DEF IInv, NumbersInOrder, TypeOK, NumbersOK, Numbered, StageOK
    <3> HIDE DEF new, i
    <3>3. api'.rbg = [new EXCEPT !.version = api.rbg.version + 1]
      BY <1>1, <2>4, <3>1, WrittenRbg DEF TypeOK, ObjectsOK
    <3>4. api'.rbg.size = requests[i] /\ api'.rbg.edits = api.rbg.edits
      BY <3>1, <3>3 DEF Rbg
    <3>5. Target!Apply(i)
      BY <2>1, <2>4, <3>2, <3>4 DEF Target!Apply
    <3> QED
      BY <3>2, <3>5 DEF Target!Next
  <2> QED
    BY <2>1, <2>3, <2>4
<1>6. CASE SeeRbg \/ SeeAdapter \/ Begin \/ RetryScale \/ GiveUp \/ PassFails
             \/ ManagerRestarts \/ UNCHANGED vars
  BY <1>6, TargetStutters
     DEF SeeRbg, SeeAdapter, Begin, RetryScale, GiveUp, PassFails, ManagerRestarts, vars
<1>7. CASE GroupController
  <2>1. api'.rbg = api.rbg /\ UNCHANGED <<requests, applied>>
    BY <1>1, <1>7, AdapterOnly
       DEF GroupController, BeginGroupPass, CreateAdapter, DeleteAdapter, GroupPassFails,
           LookUpAdapter
  <2> QED
    BY <2>1, TargetStutters
<1>8. CASE Unbind \/ BindStatus \/ ScaleStatus
  <2>1. api'.rbg = api.rbg
    BY <1>1, <1>8, AdapterOnly DEF Unbind, BindStatus, ScaleStatus
  <2>2. UNCHANGED <<requests, applied>>
    BY <1>8, Zenon DEF Unbind, BindStatus, ScaleStatus
  <2> QED
    BY <2>1, <2>2, TargetStutters
<1> QED
  BY <1>2, <1>3, <1>4, <1>5, <1>6, <1>7, <1>8 DEF Next, AdapterController

\* The adapter controller implements ScaleTarget: scaling follows the adapter's
\* numbers in their order and undoes no edit but of the size, whatever is behind
\* or fails.
THEOREM ImplementsTarget == Spec => ScalesTarget
<1>1. Init => IInv
  BY InvInit
<1>2. IInv /\ [Next]_vars => IInv'
  BY InvStep
<1>3. Init => Target!Init
  BY TargetInit
<1>4. IInv /\ [Next]_vars => [Target!Next]_<<requests, applied, api.rbg.size, api.rbg.edits>>
  BY TargetStep DEF targetVars
<1> QED
  BY <1>1, <1>2, <1>3, <1>4, PTL DEF Spec, ScalesTarget, Target!Spec
-----------------------------------------------------------------------------
(* The spec of a bound adapter. *)

\* A pass that is going to initialise spec.replicas is about an adapter that is
\* not bound.
BindsUnbound == pass.at = "bindSpec" => api.adapter.phase # "Bound"

\* A new adapter is not bound.
LEMMA NewAdapterPhase ==
  /\ NewAdapter.phase # "Bound" /\ NewAdapter.exists
  /\ NoAdapter.phase # "Bound" /\ ~NoAdapter.exists
<1>1. NoAdapter \in Adapter /\ NoAdapter.phase = "" /\ ~NoAdapter.exists
  BY DEF NoAdapter, Adapter
<1>2. NewAdapter.phase = NoAdapter.phase /\ NewAdapter.exists
  BY <1>1 DEF NewAdapter, Adapter
<1> QED
  BY <1>1, <1>2

\* The spec of an adapter that is there is applied without touching its phase.
LEMMA AppliedKeeps ==
  ASSUME NEW a \in Adapter, a.exists, NEW i
  PROVE  Applied(a, i).phase = a.phase
  BY DEF Adapter, Applied

\* At the start no pass is under way.
LEMMA BindsUnboundInit == Init => BindsUnbound
  BY DEF Init, NoPass, BindsUnbound

\* With an informer of the adapters that keeps up, the pass binds an adapter
\* that it has just seen unbound.
LEMMA BindsUnboundStep ==
  ASSUME "adapter" \notin Lag
  PROVE  TypeOK /\ BindsUnbound /\ [Next]_vars => BindsUnbound'
<1> SUFFICES ASSUME TypeOK, BindsUnbound, [Next]_vars PROVE BindsUnbound'
  OBVIOUS
<1>1. CASE Begin
  <2>1. Read("adapter") = api.adapter
    BY DEF Read
  <2>2. CASE pass'.at = "bindSpec"
    <3>1. Stage(api.adapter, Read("rbg")) = "bindSpec"
      BY <1>1, <2>1, <2>2 DEF Begin, NoPass
    <3>2. api.adapter.phase # "Bound"
      BY <3>1 DEF Stage, ToBind
    <3> QED
      BY <1>1, <3>2 DEF Begin, BindsUnbound
  <2> QED
    BY <2>2 DEF BindsUnbound
<1>2. ASSUME NEW n \in Sizes, Request(n) PROVE BindsUnbound'
  <2> DEFINE new == Applied(api.adapter, Len(requests'))
  <2>1. api.adapter.exists /\ pass' = pass /\ WriteAdapter(new, queued)
    BY <1>2 DEF Request
  <2>2. new.phase = api.adapter.phase
    BY <2>1, AppliedKeeps, Parts DEF TypeOK, ObjectsOK
  <2> HIDE DEF new
  <2>3. api'.adapter = new
    BY <2>1, AdapterOnly
  <2> QED
    BY <2>1, <2>2, <2>3 DEF BindsUnbound
<1>3. CASE UserEdits
  BY <1>3, WrittenRbg DEF UserEdits, Edit, WriteRbg, BindsUnbound, TypeOK, ObjectsOK, Objects
<1>4. CASE CreateAdapter \/ DeleteAdapter
  BY <1>4, AdapterOnly, NewAdapterPhase DEF CreateAdapter, DeleteAdapter, BindsUnbound
<1>5. CASE BeginGroupPass \/ LookUpAdapter \/ GroupPassFails \/ SeeRbg \/ SeeAdapter
  BY <1>5 DEF BeginGroupPass, LookUpAdapter, GroupPassFails, SeeRbg, SeeAdapter, BindsUnbound
<1>6. CASE ScaleRole \/ RetryScale
  <2>1. pass' \in {[pass EXCEPT !.at = "scaleStatus"], [pass EXCEPT !.rbg = Read("rbg")]}
        /\ pass.at = "scale"
    BY <1>6 DEF ScaleRole, RetryScale
  <2>2. pass'.at # "bindSpec"
    BY <2>1 DEF TypeOK, ObjectsOK, Passes
  <2> QED
    BY <2>2 DEF BindsUnbound
<1>7. CASE BindSpec
  <2>1. pass' = [pass EXCEPT !.at = "bindStatus"]
    BY <1>7 DEF BindSpec
  <2>2. pass'.at # "bindSpec"
    BY <2>1 DEF TypeOK, ObjectsOK, Passes
  <2> QED
    BY <2>2 DEF BindsUnbound
<1>8. CASE Unbind \/ BindStatus \/ ScaleStatus \/ GiveUp \/ PassFails \/ ManagerRestarts
  <2>1. pass' = NoPass
    BY <1>8, Zenon DEF Unbind, BindStatus, ScaleStatus, GiveUp, PassFails, ManagerRestarts
  <2> QED
    BY <2>1 DEF NoPass, BindsUnbound
<1>9. CASE UNCHANGED vars
  BY <1>9 DEF vars, BindsUnbound
<1> QED
  BY <1>1, <1>2, <1>3, <1>4, <1>5, <1>6, <1>7, <1>8, <1>9
     DEF Next, AdapterController, GroupController

\* spec.replicas of a bound adapter gets another value.
SpecOverwritten ==
  /\ api.adapter.exists /\ api'.adapter.exists /\ api.adapter.phase = "Bound"
  /\ api.adapter.spec # api'.adapter.spec

\* The only step that does it is a request.
LEMMA KeptStep ==
  ASSUME TypeOK, BindsUnbound, [Next]_vars, SpecOverwritten
  PROVE  \E n \in Sizes : Request(n)
<1> USE DEF SpecOverwritten
<1>1. ~BindSpec
  <2> SUFFICES ASSUME BindSpec PROVE FALSE
    OBVIOUS
  <2> QED
    BY DEF BindSpec, BindsUnbound
<1>2. ~(Unbind \/ BindStatus \/ ScaleStatus)
  <2> SUFFICES ASSUME Unbind \/ BindStatus \/ ScaleStatus PROVE FALSE
    OBVIOUS
  <2>1. \E phase, n : api'.adapter = Status(api.adapter, phase, n)
    BY AdapterOnly DEF Unbind, BindStatus, ScaleStatus
  <2> QED
    BY <2>1 DEF Status
<1>3. ~(CreateAdapter \/ DeleteAdapter)
  BY AdapterOnly, NewAdapterPhase DEF CreateAdapter, DeleteAdapter
<1>4. ~UserEdits
  BY DEF UserEdits, Edit, WriteRbg, TypeOK, ObjectsOK, Objects
<1>5. ~ScaleRole
  BY DEF ScaleRole, WriteRbg, TypeOK, ObjectsOK, Objects
<1>6. ~(BeginGroupPass \/ LookUpAdapter \/ GroupPassFails \/ SeeRbg \/ SeeAdapter)
  BY DEF BeginGroupPass, LookUpAdapter, GroupPassFails, SeeRbg, SeeAdapter
<1>7. ~(Begin \/ RetryScale \/ GiveUp \/ PassFails \/ ManagerRestarts)
  BY DEF Begin, RetryScale, GiveUp, PassFails, ManagerRestarts
<1>8. ~UNCHANGED vars
  BY DEF vars
<1> QED
  BY <1>1, <1>2, <1>3, <1>4, <1>5, <1>6, <1>7, <1>8
     DEF Next, AdapterController, GroupController

\* With an informer of the adapters that keeps up, only a request changes the
\* spec.replicas of a bound adapter: a pass that initialises it has read
\* the adapter unbound, and nobody else binds it before that pass does.
THEOREM BoundSpecStays ==
  ASSUME "adapter" \notin Lag
  PROVE  Spec => BoundSpecKept
<1>1. Init => TypeOK /\ BindsUnbound
  BY TypeInit, BindsUnboundInit
<1>2. TypeOK /\ BindsUnbound /\ [Next]_vars => (TypeOK /\ BindsUnbound)'
  BY TypeStep, BindsUnboundStep
<1>3. TypeOK /\ BindsUnbound /\ [Next]_vars =>
        (SpecOverwritten => \E n \in Sizes : Request(n))
  BY KeptStep
<1> QED
  BY <1>1, <1>2, <1>3, PTL DEF Spec, BoundSpecKept, SpecOverwritten
=============================================================================
