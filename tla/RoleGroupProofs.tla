--------------------------- MODULE RoleGroupProofs ---------------------------
(***************************************************************************)
(* Theorems about RoleGroup, for any role names, specs, informers that lag *)
(* and bounds.                                                             *)
(***************************************************************************)
EXTENDS RoleGroup, DependencyOrderProofs

-----------------------------------------------------------------------------
(***************************************************************************)
(* The order of the roles of a spec.                                       *)
(***************************************************************************)
\* The names are finitely many.
LEMMA RolesFinite ==
  IsFiniteSet(Roles)
<1>1. Len(Names) \in Nat /\ DOMAIN Names = 1 .. Len(Names)
  BY GroupAssumption
<1>2. Names \in Surjection(1 .. Len(Names), Roles)
  BY <1>1, GroupAssumption DEF Surjection, Roles, Range
<1>3. IsFiniteSet(1 .. Len(Names))
  BY <1>1, FS_Interval
<1> QED
  BY <1>2, <1>3, FS_Surjection

\* The places of two names tell them apart.
Place(r) == CHOOSE i \in DOMAIN Names : Names[i] = r

LEMMA PlaceOf ==
  ASSUME NEW r \in Roles
  PROVE  /\ Place(r) \in DOMAIN Names /\ Names[Place(r)] = r
         /\ Place(r) \in Int
         /\ \A i \in DOMAIN Names : Names[i] = r => i = Place(r)
<1>1. \E i \in DOMAIN Names : Names[i] = r
  BY DEF Roles, Range
<1>2. Place(r) \in DOMAIN Names /\ Names[Place(r)] = r
  BY <1>1 DEF Place
<1>3. DOMAIN Names = 1 .. Len(Names) /\ Len(Names) \in Nat
  BY GroupAssumption
<1> QED
  BY <1>2, <1>3, GroupAssumption DEF IsInjective

\* The sorted keys of a role map are its names, each of them once.
LEMMA KeysCorrect ==
  ASSUME NEW g, DOMAIN g.roles \subseteq Roles
  PROVE  /\ KeysOf(g) \in Seq(DOMAIN g.roles)
         /\ Range(KeysOf(g)) = DOMAIN g.roles
         /\ IsInjective(KeysOf(g))
<1> DEFINE D == DOMAIN g.roles
           n == Cardinality(D)
           Before(r) == {x \in D : \E i, j \in DOMAIN Names : i < j /\ Names[i] = x /\ Names[j] = r}
           rank == [r \in D |-> Cardinality(Before(r)) + 1]
           K == [i \in 1 .. n |-> CHOOSE r \in D : Cardinality(Before(r)) = i - 1]
<1>1. IsFiniteSet(D) /\ n \in Nat
  BY RolesFinite, FS_Subset, FS_CardinalityType
<1>2. ASSUME NEW r \in D
      PROVE  Before(r) = {x \in D : Place(x) < Place(r)}
  <2>1. ASSUME NEW x \in D, NEW i \in DOMAIN Names, NEW j \in DOMAIN Names,
               i < j, Names[i] = x, Names[j] = r
        PROVE  Place(x) < Place(r)
    <3>1. i = Place(x) /\ j = Place(r)
      BY <2>1, PlaceOf
    <3> QED
      BY <2>1, <3>1
  <2>2. ASSUME NEW x \in D, Place(x) < Place(r)
        PROVE  \E i, j \in DOMAIN Names : i < j /\ Names[i] = x /\ Names[j] = r
    BY <2>2, PlaceOf
  <2> QED
    BY <2>1, <2>2
<1> HIDE DEF Before
<1>3. ASSUME NEW r \in D
      PROVE  /\ IsFiniteSet(Before(r)) /\ Cardinality(Before(r)) \in Nat
             /\ Cardinality(Before(r)) + 1 \in 1 .. n
  <2>1. Before(r) \in SUBSET D /\ r \notin Before(r)
    BY <1>2, PlaceOf
  <2>2. IsFiniteSet(Before(r)) /\ Cardinality(Before(r)) <= n /\ Cardinality(Before(r)) # n
    BY <1>1, <2>1, FS_Subset
  <2>3. Cardinality(Before(r)) \in Nat
    BY <2>2, FS_CardinalityType
  <2> QED
    BY <1>1, <2>2, <2>3
<1>4. ASSUME NEW q \in D, NEW r \in D, Place(q) < Place(r)
      PROVE  Cardinality(Before(q)) # Cardinality(Before(r))
  <2>1. Before(q) \in SUBSET Before(r) /\ q \in Before(r) /\ q \notin Before(q)
    BY <1>2, <1>4, PlaceOf
  <2> QED
    BY <1>3, <2>1, FS_Subset
<1>5. rank \in Injection(D, 1 .. n)
  <2>1. ASSUME NEW q \in D, NEW r \in D, rank[q] = rank[r]
        PROVE  q = r
    <3>1. Cardinality(Before(q)) = Cardinality(Before(r))
      BY <1>3, <2>1
    <3>2. Place(q) = Place(r)
      BY <1>4, <3>1, PlaceOf
    <3> QED
      BY <3>2, PlaceOf
  <2> QED
    BY <1>3, <2>1 DEF Injection, IsInjective
<1>6. IsFiniteSet(1 .. n) /\ Cardinality(1 .. n) = n
  BY <1>1, FS_Interval
<1>7. rank \in Surjection(D, 1 .. n)
  BY <1>1, <1>5, <1>6, FS_Injection
<1>8. ASSUME NEW i \in 1 .. n
      PROVE  K[i] \in D /\ rank[K[i]] = i
  <2>1. PICK r \in D : rank[r] = i
    BY <1>7 DEF Surjection
  <2>2. Cardinality(Before(r)) = i - 1
    BY <1>3, <2>1
  <2>3. K[i] \in D /\ Cardinality(Before(K[i])) = i - 1
    BY <2>2
  <2> QED
    BY <1>3, <2>3
<1> HIDE DEF K, rank
<1>9. K \in Seq(D) /\ DOMAIN K = 1 .. n
  <2>1. K = [i \in 1 .. n |-> K[i]]
    BY DEF K
  <2> QED
    BY <1>1, <1>8, <2>1
<1>10. Range(K) = D
  <2>1. ASSUME NEW r \in D
        PROVE  rank[r] \in 1 .. n /\ K[rank[r]] = r
    BY <1>5, <1>8 DEF Injection, IsInjective
  <2> QED
    BY <1>8, <1>9, <2>1 DEF Range
<1>11. IsInjective(K)
  BY <1>8, <1>9 DEF IsInjective
<1>12. KeysOf(g) = K
  BY DEF KeysOf, K, Before
<1> QED
  BY <1>9, <1>10, <1>11, <1>12

\* The order a pass follows through the roles of g.
OrderOf(g) == SortResult(KeysOf(g), DepsOf(g)).order

Sortable(g) == DependenciesKnown(DepsOf(g)) /\ ~SortResult(KeysOf(g), DepsOf(g)).cycle

\* The order of a spec lists each of its roles after those it depends on.
LEMMA OrderCorrect ==
  ASSUME NEW g \in Specs, Sortable(g)
  PROVE  /\ OrderOf(g) \in Seq(DOMAIN g.roles)
         /\ OrderOf(g) \in Seq(Roles)
         /\ Range(OrderOf(g)) = DOMAIN g.roles
         /\ \A r \in DOMAIN g.roles : Range(g.roles[r].deps) \subseteq DOMAIN g.roles
         /\ \A i \in DOMAIN OrderOf(g) :
              Range(g.roles[OrderOf(g)[i]].deps) \subseteq Range(SubSeq(OrderOf(g), 1, i-1))
<1> DEFINE D == DOMAIN g.roles
           deps == DepsOf(g)
<1>1. /\ D \subseteq Roles
      /\ \A r \in D : g.roles[r].deps \in Seq(Roles)
  BY GroupAssumption DEF RoleSpec
<1>2. DOMAIN deps = D /\ \A r \in D : deps[r] = g.roles[r].deps
  BY DEF DepsOf
<1>3. \A r \in D : Range(g.roles[r].deps) \subseteq D
  BY <1>2 DEF Sortable, DependenciesKnown
<1>4. ASSUME NEW r \in D
      PROVE  deps[r] \in Seq(D)
  <2> DEFINE q == g.roles[r].deps
  <2>1. q \in Seq(Roles) /\ DOMAIN q = 1 .. Len(q)
    BY <1>1
  <2>2. \A i \in 1 .. Len(q) : q[i] \in D
    BY <1>3, <2>1 DEF Range
  <2> HIDE DEF q
  <2>3. q \in Seq(D)
    BY <2>1, <2>2
  <2> QED
    BY <1>2, <2>3 DEF q
<1>5. deps \in [DOMAIN deps -> Seq(DOMAIN deps)]
  BY <1>2, <1>4 DEF DepsOf
<1>6. /\ KeysOf(g) \in Seq(DOMAIN deps) /\ Range(KeysOf(g)) = DOMAIN deps
      /\ IsInjective(KeysOf(g)) /\ IsFiniteSet(DOMAIN deps)
  BY <1>1, <1>2, KeysCorrect, RolesFinite, FS_Subset
<1>7. SortedWell(KeysOf(g), deps) /\ OrderOf(g) \in Seq(D)
  BY <1>2, <1>5, <1>6, SortCorrect DEF SortInput, OrderOf
<1>8. Range(OrderOf(g)) = D /\ RespectsDependencies(OrderOf(g), deps)
  BY <1>2, <1>7 DEF SortedWell, Sortable, OrderOf
<1>9. \A i \in DOMAIN OrderOf(g) : OrderOf(g)[i] \in D
  BY <1>8 DEF Range
<1>10. OrderOf(g) \in Seq(Roles)
  BY <1>1, <1>7
<1> QED
  BY <1>2, <1>3, <1>7, <1>8, <1>9, <1>10 DEF RespectsDependencies

-----------------------------------------------------------------------------
(***************************************************************************)
(* The inductive invariant.                                                *)
(***************************************************************************)
Passes ==
  [at : Stages, spec : Specs \cup {NoPass.spec}, order : Seq(Roles), next : Nat,
   status : GroupStatus, fresh : [Roles -> Status], update : BOOLEAN]

TypeInv ==
  /\ {api, cache} \subseteq ObjectStates
  /\ queued \in BOOLEAN
  /\ pass \in Passes
  /\ everReady \in [Kinds \X Roles -> BOOLEAN]
  /\ budget \in [edit : Nat, failure : Nat, blip : Nat]

\* A pass goes through the roles of its spec in their order.
Underway ==
  /\ pass.at # "idle" =>
       /\ pass.spec \in Specs /\ Sortable(pass.spec)
       /\ pass.order = OrderOf(pass.spec)
       /\ pass.next \in 1 .. Len(pass.order) + 1
  /\ pass.at = "podGroup" => pass.next = 1
  /\ pass.at \in {"role", "report"} => pass.next <= Len(pass.order)
  /\ pass.at \in {"status", "cleanup"} => pass.next = Len(pass.order) + 1

\* The roles a pass has been through, and the one whose workload it has just
\* written.
Through == {pass.order[i] : i \in 1 .. (IF pass.at = "report" THEN pass.next ELSE pass.next - 1)}

Reported == {pass.order[i] : i \in 1 .. pass.next - 1}

WorkloadKey(r) == <<pass.spec.roles[r].kind, r>>

\* The controller sees the PodGroup as it is, and has brought it in line.
GangReady ==
  ("podGroup" \notin Lag /\ pass.at \in {"role", "report"} /\ pass.spec.gang)
    => api.podGroup = GroupSize(pass.spec)

\* The controller sees the workloads as they are, and has created them.
Created ==
  ("workloads" \notin Lag /\ pass.at # "idle")
    => \A r \in Through : api.workloads[WorkloadKey(r)].exists

\* A workload that every spec asks for is never deleted.
Steady(kr) == \A g \in Specs : kr[2] \in DOMAIN g.roles /\ g.roles[kr[2]].kind = kr[1]

Whole(w) == w.exists /\ w.ready = w.replicas

\* What has all its replicas ready has had them ready.  A cache remembers only
\* what has been deleted since.
Remembered ==
  \A kr \in Kinds \X Roles :
    /\ everReady[kr] => api.workloads[kr].exists
    /\ Whole(api.workloads[kr]) => everReady[kr]
    /\ Steady(kr) /\ Whole(cache.workloads[kr]) => everReady[kr]

\* A role status that counts as ready is that of a workload that was.
Reliable(kr) == "workloads" \notin Lag \/ Steady(kr)

FreshEarned ==
  pass.at # "idle" =>
    \A r \in Reported :
      (/\ pass.spec.roles[r].kind \in Measured
       /\ Reliable(WorkloadKey(r))
       /\ pass.fresh[r].ready = pass.fresh[r].replicas) => everReady[WorkloadKey(r)]

\* What a pass needs of the state to run at all.
PassInv == TypeInv /\ Underway

GroupInv == PassInv /\ GangReady /\ Created /\ Remembered /\ FreshEarned

-----------------------------------------------------------------------------
(***************************************************************************)
(* Updates of the objects and of the pass.                                 *)
(***************************************************************************)
\* A write of the spec or of the status of the group.
LEMMA GroupWritten ==
  ASSUME NEW o \in ObjectStates, NEW g \in Specs, NEW s \in GroupStatus
  PROVE  /\ [o EXCEPT !.group.spec = g] \in ObjectStates
         /\ [o EXCEPT !.group.spec = g].workloads = o.workloads
         /\ [o EXCEPT !.group.spec = g].podGroup = o.podGroup
         /\ [o EXCEPT !.group.spec = g].group.status = o.group.status
         /\ [o EXCEPT !.group.status = s] \in ObjectStates
         /\ [o EXCEPT !.group.status = s].workloads = o.workloads
         /\ [o EXCEPT !.group.status = s].podGroup = o.podGroup
         /\ [o EXCEPT !.group.status = s].group.spec = o.group.spec
<1>1. /\ [o.group EXCEPT !.spec = g] \in [spec : Specs, status : GroupStatus]
      /\ [o.group EXCEPT !.status = s] \in [spec : Specs, status : GroupStatus]
  BY DEF ObjectStates
<1>2. /\ [o EXCEPT !.group.spec = g] = [o EXCEPT !.group = [o.group EXCEPT !.spec = g]]
      /\ [o EXCEPT !.group.status = s] = [o EXCEPT !.group = [o.group EXCEPT !.status = s]]
  BY DEF ObjectStates
<1>3. ASSUME NEW x \in [spec : Specs, status : GroupStatus]
      PROVE  /\ [o EXCEPT !.group = x] \in ObjectStates
             /\ [o EXCEPT !.group = x].workloads = o.workloads
             /\ [o EXCEPT !.group = x].podGroup = o.podGroup
             /\ [o EXCEPT !.group = x].group = x
  BY DEF ObjectStates
<1>4. /\ [o.group EXCEPT !.spec = g].status = o.group.status
      /\ [o.group EXCEPT !.status = s].spec = o.group.spec
  BY DEF ObjectStates
<1> QED
  BY <1>1, <1>2, <1>3, <1>4

\* A write of the PodGroup, or of the scaling adapters.
LEMMA ObjectWritten ==
  ASSUME NEW o \in ObjectStates, NEW n \in Nat \cup {None}, NEW A \in SUBSET Roles
  PROVE  /\ [o EXCEPT !.podGroup = n] \in ObjectStates
         /\ [o EXCEPT !.podGroup = n].workloads = o.workloads
         /\ [o EXCEPT !.podGroup = n].podGroup = n
         /\ [o EXCEPT !.podGroup = n].group = o.group
         /\ [o EXCEPT !.adapters = A] \in ObjectStates
         /\ [o EXCEPT !.adapters = A].workloads = o.workloads
         /\ [o EXCEPT !.adapters = A].podGroup = o.podGroup
         /\ [o EXCEPT !.adapters = A].group = o.group
  BY DEF ObjectStates

\* A write of a config.
LEMMA ConfigWritten ==
  ASSUME NEW o \in ObjectStates, NEW r \in Roles,
         NEW c \in {Topology(g) : g \in Specs} \cup {None}
  PROVE  /\ [o EXCEPT !.configs[r] = c] \in ObjectStates
         /\ [o EXCEPT !.configs[r] = c].workloads = o.workloads
         /\ [o EXCEPT !.configs[r] = c].podGroup = o.podGroup
         /\ [o EXCEPT !.configs[r] = c].group = o.group
<1> DEFINE x == [o.configs EXCEPT ![r] = c]
<1>1. x \in [Roles -> {Topology(g) : g \in Specs} \cup {None}]
  BY DEF ObjectStates
<1>2. [o EXCEPT !.configs[r] = c] = [o EXCEPT !.configs = x]
  BY DEF ObjectStates
<1> HIDE DEF x
<1> QED
  BY <1>1, <1>2 DEF ObjectStates

\* A write of a workload.
LEMMA WorkloadWritten ==
  ASSUME NEW o \in ObjectStates, NEW kr \in Kinds \X Roles, NEW w \in Workload
  PROVE  LET new == WithWorkload(o, kr, w)
         IN  /\ new \in ObjectStates
             /\ new.podGroup = o.podGroup /\ new.group = o.group
             /\ new.workloads[kr] = w
             /\ \A x \in Kinds \X Roles : x # kr => new.workloads[x] = o.workloads[x]
<1> DEFINE x == [o.workloads EXCEPT ![kr] = w]
<1>1. x \in [Kinds \X Roles -> Workload] /\ o.workloads \in [Kinds \X Roles -> Workload]
  BY DEF ObjectStates
<1>2. WithWorkload(o, kr, w) = [o EXCEPT !.workloads = x]
  BY DEF ObjectStates, WithWorkload
<1>3. x[kr] = w /\ \A y \in Kinds \X Roles : y # kr => x[y] = o.workloads[y]
  BY <1>1
<1> HIDE DEF x
<1>4. [o EXCEPT !.workloads = x] \in ObjectStates
  BY <1>1 DEF ObjectStates
<1>5. /\ [o EXCEPT !.workloads = x].podGroup = o.podGroup
      /\ [o EXCEPT !.workloads = x].group = o.group
      /\ [o EXCEPT !.workloads = x].workloads = x
  BY DEF ObjectStates
<1> QED
  BY <1>2, <1>3, <1>4, <1>5

\* What a write does to the state.
LEMMA Written ==
  ASSUME TypeInv, NEW new \in ObjectStates, NEW requeue \in BOOLEAN, Write(new, requeue)
  PROVE  /\ api' \in ObjectStates
         /\ queued' \in BOOLEAN
         /\ everReady' \in [Kinds \X Roles -> BOOLEAN]
         /\ \A kr \in Kinds \X Roles :
              everReady'[kr] <=> /\ new.workloads[kr].exists
                                 /\ \/ everReady[kr]
                                    \/ new.workloads[kr].ready = new.workloads[kr].replicas
<1>1. api' = new /\ queued' \in BOOLEAN
  BY Zenon DEF Write, Event, WorkloadEvent, Notifies
<1> DEFINE e == [kr \in Kinds \X Roles |->
                   LET w == new.workloads[kr]
                   IN  w.exists /\ (everReady[kr] \/ w.ready = w.replicas)]
<1>2. everReady' = e
  BY Zenon DEF Write, Remember
<1>3. \A kr \in Kinds \X Roles : new.workloads[kr].exists \in BOOLEAN
  BY DEF ObjectStates, Workload
<1> QED
  BY <1>1, <1>2, <1>3

\* The moves of a pass.
LEMMA PassMoves ==
  ASSUME NEW p \in Passes, NEW a \in Stages
  PROVE  LET new == [p EXCEPT !.at = a]
         IN  /\ new \in Passes /\ new.at = a
             /\ new.spec = p.spec /\ new.order = p.order /\ new.next = p.next
             /\ new.status = p.status /\ new.fresh = p.fresh /\ new.update = p.update
  BY DEF Passes

\* No pass is in progress.
LEMMA NoPassType ==
  NoPass \in Passes /\ NoPass.at = "idle"
<1>1. NoGroupStatus \in GroupStatus /\ [r \in Roles |-> NoStatus] \in [Roles -> Status]
  BY DEF NoGroupStatus, GroupStatus, NoStatus, Status, ConditionStatus
<1>2. <<>> \in Seq(Roles) /\ "idle" \in Stages
  BY DEF Stages
<1> QED
  BY <1>1, <1>2 DEF NoPass, Passes

\* The PodGroup of a spec asks for a number of pods.
LEMMA GroupSizeType ==
  ASSUME NEW g \in Specs
  PROVE  GroupSize(g) \in Nat /\ PodGroupWanted(g) \in Nat \cup {None}
<1> DEFINE D == DOMAIN g.roles
           p == [r \in D |-> {r} \X (1 .. g.roles[r].size) \X (1 .. g.roles[r].width)]
           P == {{r} \X (1 .. g.roles[r].size) \X (1 .. g.roles[r].width) : r \in D}
<1>1. /\ D \subseteq Roles
      /\ \A r \in D : g.roles[r].size \in Nat /\ g.roles[r].width \in Nat
  BY GroupAssumption DEF RoleSpec
<1>2. IsFiniteSet(D)
  BY <1>1, RolesFinite, FS_Subset
<1>3. p \in Surjection(D, P)
  BY DEF Surjection
<1>4. IsFiniteSet(P)
  BY ONLY <1>2, <1>3, FS_Surjection
<1>5. ASSUME NEW r \in D
      PROVE  IsFiniteSet({r} \X (1 .. g.roles[r].size) \X (1 .. g.roles[r].width))
  <2> DEFINE X == 1 .. g.roles[r].size
             Y == 1 .. g.roles[r].width
  <2>1. {1, g.roles[r].size, g.roles[r].width} \subseteq Int
    BY <1>1
  <2>2. IsFiniteSet({r}) /\ IsFiniteSet(X) /\ IsFiniteSet(Y)
    BY ONLY <2>1, FS_Singleton, FS_Interval
  <2> HIDE DEF X, Y
  <2>3. IsFiniteSet({r} \X X \X Y)
    <3>1. IsFiniteSet({r} \X X) /\ IsFiniteSet(({r} \X X) \X Y)
      BY ONLY <2>2, FS_Product
    <3> DEFINE f == [t \in ({r} \X X) \X Y |-> <<t[1][1], t[1][2], t[2]>>]
    <3>2. f \in Surjection(({r} \X X) \X Y, {r} \X X \X Y)
      <4>1. \A t \in ({r} \X X) \X Y : f[t] \in {r} \X X \X Y
        OBVIOUS
      <4>2. \A u \in {r} \X X \X Y : f[<< <<u[1], u[2]>>, u[3] >>] = u /\ << <<u[1], u[2]>>, u[3] >> \in ({r} \X X) \X Y
        OBVIOUS
      <4> QED
        BY <4>1, <4>2 DEF Surjection
    <3> QED
      BY ONLY <3>1, <3>2, FS_Surjection
  <2> QED
    BY <2>3 DEF X, Y
<1>6. \A T \in P : IsFiniteSet(T)
  BY <1>5
<1> HIDE DEF P
<1>7. IsFiniteSet(UNION P)
  BY ONLY <1>4, <1>6, FS_UNION
<1>8. Cardinality(UNION P) \in Nat
  BY <1>7, FS_CardinalityType
<1> QED
  BY <1>8 DEF GroupSize, PodGroupWanted, P

-----------------------------------------------------------------------------
(***************************************************************************)
(* What a step leaves alone.                                               *)
(***************************************************************************)
\* No workload is created, none is deleted; the spec and the status stay.
NoneCreated == \A kr \in Kinds \X Roles : api'.workloads[kr].exists => api.workloads[kr].exists
NoneDeleted == \A kr \in Kinds \X Roles : api.workloads[kr].exists => api'.workloads[kr].exists
SpecKept == api'.group.spec = api.group.spec
StatusKept == api'.group.status = api.group.status

Quiet == NoneCreated /\ NoneDeleted /\ SpecKept /\ StatusKept

\* A pass that is in progress afterwards was so before, with the same spec.
SamePass == pass'.at # "idle" => pass.at # "idle" /\ pass'.spec = pass.spec

\* Both invariants are kept, the first one without the second.
Keeps == PassInv' /\ (GroupInv => GroupInv')

\* The history forgets only what is deleted.
LEMMA HistoryKept ==
  ASSUME TypeInv, NEW new \in ObjectStates, NEW requeue \in BOOLEAN, Write(new, requeue)
  PROVE  /\ \A kr \in Kinds \X Roles :
              /\ everReady'[kr] => api'.workloads[kr].exists
              /\ Whole(api'.workloads[kr]) => everReady'[kr]
              /\ everReady[kr] /\ api'.workloads[kr].exists => everReady'[kr]
         /\ (Remembered /\ NoneDeleted) =>
              /\ \A kr \in Kinds \X Roles : everReady[kr] => everReady'[kr]
              /\ UNCHANGED cache => Remembered'
<1>1. api' = new
  BY DEF Write
<1>2. \A kr \in Kinds \X Roles :
        everReady'[kr] <=> /\ new.workloads[kr].exists
                           /\ \/ everReady[kr]
                              \/ new.workloads[kr].ready = new.workloads[kr].replicas
  BY Written
<1>3. ASSUME Remembered, NoneDeleted
      PROVE  \A kr \in Kinds \X Roles : everReady[kr] => everReady'[kr]
  BY <1>1, <1>2, <1>3 DEF Remembered, NoneDeleted
<1>4. ASSUME Remembered, NoneDeleted, UNCHANGED cache
      PROVE  Remembered'
  BY <1>1, <1>2, <1>3, <1>4 DEF Remembered, NoneDeleted, Whole
<1> QED
  BY <1>1, <1>2, <1>3, <1>4 DEF Whole

\* A step of somebody else, who neither deletes a workload nor touches the
\* PodGroup, does not disturb a pass.
LEMMA PassStays ==
  ASSUME PassInv, UNCHANGED pass, TypeInv'
  PROVE  /\ PassInv' /\ SamePass
         /\ (/\ GroupInv /\ Remembered' /\ NoneDeleted
             /\ api'.podGroup = api.podGroup
             /\ \A kr \in Kinds \X Roles : everReady[kr] => everReady'[kr]) => GroupInv'
<1>1. PassInv' /\ SamePass
  BY DEF PassInv, Underway, SamePass
<1> SUFFICES ASSUME GroupInv, Remembered', NoneDeleted,
                    api'.podGroup = api.podGroup,
                    \A kr \in Kinds \X Roles : everReady[kr] => everReady'[kr]
             PROVE  GroupInv'
  BY <1>1
<1>2. GangReady'
  BY DEF GroupInv, GangReady
<1>3. /\ Through' = Through /\ Reported' = Reported
      /\ \A r : WorkloadKey(r)' = WorkloadKey(r)
  BY DEF Through, Reported, WorkloadKey
<1>4. pass.at # "idle" =>
        /\ \A r \in Through : WorkloadKey(r) \in Kinds \X Roles
        /\ \A r \in Reported : WorkloadKey(r) \in Kinds \X Roles
  <2>1. ASSUME pass.at # "idle"
        PROVE  \A i \in 1 .. Len(pass.order) : WorkloadKey(pass.order[i]) \in Kinds \X Roles
    <3>1. /\ pass.spec \in Specs /\ pass.order \in Seq(DOMAIN pass.spec.roles)
      BY <2>1, OrderCorrect DEF PassInv, Underway
    <3>2. \A r \in DOMAIN pass.spec.roles : r \in Roles /\ pass.spec.roles[r].kind \in Kinds
      BY <3>1, GroupAssumption DEF RoleSpec
    <3> QED
      BY <3>1, <3>2 DEF WorkloadKey
  <2>2. pass.at # "idle" => /\ pass.next \in 1 .. Len(pass.order) + 1
                            /\ pass.at = "report" => pass.next <= Len(pass.order)
    BY DEF PassInv, Underway
  <2>3. Len(pass.order) \in Nat
    BY DEF PassInv, TypeInv, Passes
  <2>4. ASSUME pass.at # "idle"
        PROVE  /\ \A i \in 1 .. pass.next - 1 : i \in 1 .. Len(pass.order)
               /\ pass.at = "report" => \A i \in 1 .. pass.next : i \in 1 .. Len(pass.order)
    BY <2>2, <2>3, <2>4
  <2> QED
    BY <2>1, <2>4 DEF Through, Reported
<1>5. Created'
  BY <1>3, <1>4 DEF GroupInv, Created, NoneDeleted
<1>6. FreshEarned'
  BY <1>3, <1>4 DEF GroupInv, FreshEarned
<1> QED
  BY <1>1, <1>2, <1>5, <1>6 DEF GroupInv

\* A pass that has ended has nothing to keep.
LEMMA PassEnds ==
  ASSUME TypeInv', Abort
  PROVE  PassInv' /\ SamePass /\ (Remembered' => GroupInv')
<1>1. pass'.at = "idle"
  BY NoPassType DEF Abort
<1> QED
  BY <1>1 DEF PassInv, SamePass, GroupInv, Underway, GangReady, Created, FreshEarned

-----------------------------------------------------------------------------
(***************************************************************************)
(* The user, the informers and the workload controllers.                   *)
(***************************************************************************)
\* An edit changes the spec; a pass in progress keeps the one it has read.
LEMMA EditStep ==
  ASSUME PassInv, NEW g \in Specs, Edit(g)
  PROVE  Keeps /\ SamePass /\ NoneCreated /\ NoneDeleted /\ StatusKept
<1> DEFINE new == [api EXCEPT !.group.spec = g]
<1>1. api \in ObjectStates /\ queued \in BOOLEAN /\ api.group.status \in GroupStatus
  BY DEF PassInv, TypeInv, ObjectStates
<1>2. /\ new \in ObjectStates /\ new.workloads = api.workloads
      /\ new.podGroup = api.podGroup /\ new.group.status = api.group.status
  BY <1>1, GroupWritten
<1> HIDE DEF new
<1>3. Write(new, queued) /\ api' = new /\ UNCHANGED <<cache, pass>>
  BY DEF Edit, Write, new
<1>4. NoneCreated /\ NoneDeleted /\ StatusKept
  BY <1>2, <1>3 DEF NoneCreated, NoneDeleted, StatusKept
<1>5. budget' \in [edit : Nat, failure : Nat, blip : Nat]
  BY DEF Edit, PassInv, TypeInv
<1>6. TypeInv'
  BY <1>1, <1>2, <1>3, <1>5, Written DEF PassInv, TypeInv
<1>7. GroupInv => /\ Remembered'
                  /\ \A kr \in Kinds \X Roles : everReady[kr] => everReady'[kr]
  BY <1>1, <1>2, <1>3, <1>4, HistoryKept DEF PassInv, GroupInv
<1> QED
  BY <1>2, <1>3, <1>4, <1>6, <1>7, PassStays DEF Keeps

\* A workload controller changes the counts of a workload, and no more.
LEMMA SetWorkloadStep ==
  ASSUME PassInv, NEW k \in Kinds, NEW r \in Roles, NEW w \in Workload,
         w.exists = api.workloads[<<k, r>>].exists,
         SetWorkload(k, r, w),
         budget' \in [edit : Nat, failure : Nat, blip : Nat]
  PROVE  Keeps /\ SamePass /\ Quiet
<1> DEFINE new == WithWorkload(api, <<k, r>>, w)
<1>1. api \in ObjectStates /\ queued \in BOOLEAN /\ <<k, r>> \in Kinds \X Roles
  BY DEF PassInv, TypeInv
<1>2. /\ new \in ObjectStates /\ new.podGroup = api.podGroup /\ new.group = api.group
      /\ new.workloads[<<k, r>>] = w
      /\ \A x \in Kinds \X Roles : x # <<k, r>> => new.workloads[x] = api.workloads[x]
  BY <1>1, WorkloadWritten
<1> HIDE DEF new
<1>3. Write(new, queued) /\ api' = new /\ UNCHANGED <<cache, pass>>
  BY DEF SetWorkload, Write, new
<1>4. Quiet
  BY <1>2, <1>3 DEF Quiet, NoneCreated, NoneDeleted, SpecKept, StatusKept
<1>5. TypeInv'
  BY <1>1, <1>2, <1>3, Written DEF PassInv, TypeInv
<1>6. GroupInv => /\ Remembered'
                  /\ \A kr \in Kinds \X Roles : everReady[kr] => everReady'[kr]
  BY <1>1, <1>2, <1>3, <1>4, HistoryKept DEF PassInv, Quiet, GroupInv
<1> QED
  BY <1>2, <1>3, <1>4, <1>5, <1>6, PassStays DEF Quiet, Keeps

\* The workload controllers and the events of the PodGroup.
LEMMA ClusterStep ==
  ASSUME PassInv, Cluster
  PROVE  Keeps /\ SamePass /\ Quiet
<1>1. /\ budget \in [edit : Nat, failure : Nat, blip : Nat]
      /\ \A kr \in Kinds \X Roles : api.workloads[kr] \in Workload
  BY DEF PassInv, TypeInv, ObjectStates
<1>2. ASSUME NEW k \in Kinds, NEW r \in Roles, Observe(k, r)
      PROVE  Keeps /\ SamePass /\ Quiet
  <2> DEFINE v == api.workloads[<<k, r>>]
             w == [v EXCEPT !.reported = v.replicas,
                            !.ready = IF @ > v.replicas THEN v.replicas ELSE @]
  <2>1. v \in Workload
    BY <1>1
  <2>2. w \in Workload /\ w.exists = v.exists
    BY <2>1 DEF Workload
  <2>3. SetWorkload(k, r, w) /\ UNCHANGED budget
    BY <1>2 DEF Observe
  <2> QED
    BY <1>1, <2>2, <2>3, SetWorkloadStep
<1>3. ASSUME NEW k \in Kinds, NEW r \in Roles, ReplicaReady(k, r)
      PROVE  Keeps /\ SamePass /\ Quiet
  <2> DEFINE v == api.workloads[<<k, r>>]
             w == [v EXCEPT !.ready = @ + 1]
  <2>1. v \in Workload
    BY <1>1
  <2>2. w \in Workload /\ w.exists = v.exists
    BY <2>1 DEF Workload
  <2>3. SetWorkload(k, r, w) /\ UNCHANGED budget
    BY <1>3 DEF ReplicaReady
  <2> QED
    BY <1>1, <2>2, <2>3, SetWorkloadStep
<1>4. ASSUME NEW k \in Kinds, NEW r \in Roles, ReplicaUnready(k, r)
      PROVE  Keeps /\ SamePass /\ Quiet
  <2> DEFINE v == api.workloads[<<k, r>>]
             w == [v EXCEPT !.ready = @ - 1]
  <2>1. v \in Workload /\ v.ready > 0
    BY <1>1, <1>4 DEF ReplicaUnready
  <2>2. w \in Workload /\ w.exists = v.exists
    BY <2>1 DEF Workload
  <2>3. SetWorkload(k, r, w) /\ budget.blip > 0 /\ budget' = [budget EXCEPT !.blip = @ - 1]
    BY <1>4 DEF ReplicaUnready
  <2>4. budget' \in [edit : Nat, failure : Nat, blip : Nat]
    BY <1>1, <2>3
  <2> QED
    BY <2>2, <2>3, <2>4, SetWorkloadStep
<1>5. ASSUME PodGroupEvent
      PROVE  Keeps /\ SamePass /\ Quiet
  <2>1. UNCHANGED <<api, cache, pass, everReady, budget>> /\ queued' = TRUE
    BY <1>5 DEF PodGroupEvent
  <2>2. TypeInv' /\ Quiet
    BY <2>1 DEF PassInv, TypeInv, Quiet, NoneCreated, NoneDeleted, SpecKept, StatusKept
  <2>3. GroupInv => Remembered'
    BY <2>1 DEF GroupInv, Remembered
  <2> QED
    BY <2>1, <2>2, <2>3, PassStays DEF Quiet, Keeps
<1> QED
  BY <1>2, <1>3, <1>4, <1>5 DEF Cluster

\* A delivery of objects from the API server.
LEMMA DeliverStep ==
  ASSUME PassInv, NEW new \in ObjectStates, NEW event \in BOOLEAN, Deliver(new, event),
         \A kr \in Kinds \X Roles : new.workloads[kr] \in {api.workloads[kr], cache.workloads[kr]}
  PROVE  Keeps /\ SamePass /\ Quiet
<1>1. UNCHANGED <<api, pass, everReady, budget>> /\ cache' = new /\ queued' = (queued \/ event)
  BY DEF Deliver
<1>2. TypeInv'
  BY <1>1 DEF PassInv, TypeInv
<1>3. Quiet
  BY <1>1 DEF Quiet, NoneCreated, NoneDeleted, SpecKept, StatusKept
<1>4. GroupInv => Remembered'
  BY <1>1 DEF GroupInv, Remembered
<1> QED
  BY <1>1, <1>2, <1>3, <1>4, PassStays DEF Quiet, Keeps

\* The informers.
LEMMA InformersStep ==
  ASSUME PassInv, Informers
  PROVE  Keeps /\ SamePass /\ Quiet
<1>1. api \in ObjectStates /\ cache \in ObjectStates
  BY DEF PassInv, TypeInv
<1>2. CASE SyncGroup
  <2> DEFINE new == [cache EXCEPT !.group = api.group]
  <2>1. new \in ObjectStates /\ new.workloads = cache.workloads
    BY <1>1 DEF ObjectStates
  <2> QED
    BY <1>2, <2>1, DeliverStep DEF SyncGroup
<1>3. ASSUME NEW k \in Kinds, SyncWorkloads(k)
      PROVE  Keeps /\ SamePass /\ Quiet
  <2> DEFINE W == [kr \in Kinds \X Roles |->
                     IF kr[1] = k THEN api.workloads[kr] ELSE cache.workloads[kr]]
             new == [cache EXCEPT !.workloads = W]
  <2>1. W \in [Kinds \X Roles -> Workload]
    BY <1>1 DEF ObjectStates
  <2>2. \A kr \in Kinds \X Roles : W[kr] \in {api.workloads[kr], cache.workloads[kr]}
    OBVIOUS
  <2>3. Deliver(new, WorkloadEvent(cache.workloads, W))
    BY <1>3 DEF SyncWorkloads
  <2>4. WorkloadEvent(cache.workloads, W) \in BOOLEAN
    BY Zenon DEF WorkloadEvent
  <2> HIDE DEF W
  <2>5. new \in ObjectStates /\ new.workloads = W
    BY <1>1, <2>1 DEF ObjectStates
  <2> QED
    BY <2>2, <2>3, <2>4, <2>5, DeliverStep
<1>4. CASE SyncConfigs
  <2> DEFINE new == [cache EXCEPT !.configs = api.configs]
  <2>1. new \in ObjectStates /\ new.workloads = cache.workloads
    BY <1>1 DEF ObjectStates
  <2> QED
    BY <1>4, <2>1, DeliverStep DEF SyncConfigs
<1>5. CASE SyncAdapters
  <2> DEFINE new == [cache EXCEPT !.adapters = api.adapters]
  <2>1. new \in ObjectStates /\ new.workloads = cache.workloads
    BY <1>1 DEF ObjectStates
  <2> QED
    BY <1>5, <2>1, DeliverStep DEF SyncAdapters
<1>6. CASE SyncPodGroup
  <2> DEFINE new == [cache EXCEPT !.podGroup = api.podGroup]
  <2>1. new \in ObjectStates /\ new.workloads = cache.workloads
    BY <1>1 DEF ObjectStates
  <2> QED
    BY <1>6, <2>1, DeliverStep DEF SyncPodGroup
<1> QED
  BY <1>2, <1>3, <1>4, <1>5, <1>6 DEF Informers

-----------------------------------------------------------------------------
(***************************************************************************)
(* The steps of a pass.                                                    *)
(***************************************************************************)
\* What a pass in progress works on.
LEMMA PassFacts ==
  ASSUME PassInv, pass.at # "idle"
  PROVE  /\ pass \in Passes /\ pass.spec \in Specs
         /\ pass.order = OrderOf(pass.spec)
         /\ pass.order \in Seq(Roles) /\ DOMAIN pass.order = 1 .. Len(pass.order)
         /\ Len(pass.order) \in Nat /\ pass.next \in Nat /\ pass.next >= 1
         /\ Range(pass.order) = DOMAIN pass.spec.roles
         /\ \A r \in DOMAIN pass.spec.roles :
              /\ r \in Roles
              /\ pass.spec.roles[r] \in RoleSpec
              /\ Range(pass.spec.roles[r].deps) \subseteq DOMAIN pass.spec.roles
              /\ WorkloadKey(r) \in Kinds \X Roles
<1>1. pass \in Passes /\ pass.spec \in Specs /\ Sortable(pass.spec) /\ pass.order = OrderOf(pass.spec)
  BY DEF PassInv, TypeInv, Underway
<1>2. pass.next \in 1 .. Len(pass.order) + 1
  BY DEF PassInv, Underway
<1>3. /\ pass.order \in Seq(Roles) /\ Range(pass.order) = DOMAIN pass.spec.roles
      /\ \A r \in DOMAIN pass.spec.roles : Range(pass.spec.roles[r].deps) \subseteq DOMAIN pass.spec.roles
  BY <1>1, OrderCorrect
<1>4. \A r \in DOMAIN pass.spec.roles : r \in Roles /\ pass.spec.roles[r] \in RoleSpec
  BY <1>1, GroupAssumption
<1>5. \A r \in DOMAIN pass.spec.roles : WorkloadKey(r) \in Kinds \X Roles
  BY <1>4 DEF WorkloadKey, RoleSpec
<1>6. DOMAIN pass.order = 1 .. Len(pass.order) /\ Len(pass.order) \in Nat
  BY <1>3
<1> QED
  BY <1>1, <1>2, <1>3, <1>4, <1>5, <1>6

\* The role whose turn it is.
LEMMA RoleFacts ==
  ASSUME PassInv, pass.at \in {"role", "report"}
  PROVE  /\ pass.next \in 1 .. Len(pass.order) /\ pass.next \in DOMAIN pass.order
         /\ Role \in DOMAIN pass.spec.roles
<1>1. pass.next \in 1 .. Len(pass.order) /\ pass.at # "idle"
  BY DEF PassInv, Underway
<1> QED
  BY <1>1, PassFacts DEF Role, Range

\* A read sees an object of its type.
LEMMA ReadType ==
  ASSUME TypeInv
  PROVE  /\ Read("workloads") \in [Kinds \X Roles -> Workload]
         /\ Read("podGroup") \in Nat \cup {None}
         /\ Read("adapters") \in SUBSET Roles
         /\ Read("group").spec \in Specs /\ Read("group").status \in GroupStatus
<1>1. api \in ObjectStates /\ cache \in ObjectStates
  BY DEF TypeInv
<1> QED
  BY <1>1 DEF Read, ObjectStates

\* A pass begins with the spec it reads, if the roles can be sorted.
LEMMA BeginStep ==
  ASSUME PassInv, Begin
  PROVE  Keeps /\ Quiet /\ pass'.at = "podGroup" /\ pass'.spec = Read("group").spec
<1> DEFINE g == Read("group").spec
           s == SortResult(KeysOf(g), DepsOf(g))
<1>1. /\ DependenciesKnown(DepsOf(g)) /\ ~s.cycle
      /\ pass' = [NoPass EXCEPT !.at = "podGroup", !.spec = g, !.order = s.order,
                                !.next = 1, !.status = Read("group").status]
      /\ queued' = FALSE /\ UNCHANGED <<api, cache, everReady, budget>>
  BY DEF Begin
<1>2. g \in Specs /\ Read("group").status \in GroupStatus
  BY ReadType DEF PassInv
<1>3. Sortable(g) /\ s.order = OrderOf(g)
  BY <1>1 DEF Sortable, OrderOf
<1>4. OrderOf(g) \in Seq(Roles)
  BY <1>2, <1>3, OrderCorrect
<1> HIDE DEF g, s
<1>5. /\ pass' \in Passes
      /\ pass'.at = "podGroup" /\ pass'.spec = g /\ pass'.order = OrderOf(g) /\ pass'.next = 1
  <2>1. "podGroup" \in Stages
    BY DEF Stages
  <2> QED
    BY <1>1, <1>2, <1>3, <1>4, <2>1, NoPassType DEF Passes
<1>6. Len(OrderOf(g)) \in Nat
  BY <1>4
<1>7. TypeInv' /\ (GroupInv => Remembered')
  BY <1>1, <1>5 DEF PassInv, GroupInv, TypeInv, Remembered
<1>8. Underway'
  BY <1>2, <1>3, <1>5, <1>6 DEF Underway
<1>9. Through' = {} /\ Reported' = {}
  BY <1>5 DEF Through, Reported
<1>10. GangReady' /\ Created' /\ FreshEarned'
  BY <1>5, <1>9 DEF GangReady, Created, FreshEarned
<1>11. Quiet
  BY <1>1 DEF Quiet, NoneCreated, NoneDeleted, SpecKept, StatusKept
<1> QED
  BY <1>5, <1>7, <1>8, <1>10, <1>11 DEF PassInv, GroupInv, Keeps, g

\* The stage after the pod group or a role.
LEMMA AdvanceType ==
  ASSUME NEW n \in Nat
  PROVE  /\ Advance(n) \in Stages /\ Advance(n) \in {"role", "status"}
         /\ Advance(n) = "role" <=> n <= Len(pass.order)
  BY DEF Advance, Stages

\* The PodGroup is brought in line before the roles.
LEMMA PodGroupStep ==
  ASSUME PassInv, ReconcilePodGroup
  PROVE  Keeps /\ SamePass /\ Quiet
<1> DEFINE wanted == PodGroupWanted(pass.spec)
           seen == Read("podGroup")
           new == [api EXCEPT !.podGroup = wanted]
           moved == [pass EXCEPT !.at = Advance(1)]
<1>1. pass.at = "podGroup" /\ pass.next = 1 /\ UNCHANGED <<cache, budget>>
  BY DEF ReconcilePodGroup, PassInv, Underway
<1>2. /\ wanted \in Nat \cup {None} /\ api \in ObjectStates /\ queued \in BOOLEAN
      /\ Advance(1) \in {"role", "status"} /\ Advance(1) \in Stages
      /\ Advance(1) = "role" <=> 1 <= Len(pass.order)
  BY <1>1, PassFacts, GroupSizeType, AdvanceType DEF PassInv, TypeInv
<1>3. /\ new \in ObjectStates /\ new.workloads = api.workloads
      /\ new.podGroup = wanted /\ new.group = api.group
  BY <1>2, ObjectWritten
<1>4. \/ Abort /\ queued' = TRUE /\ UNCHANGED <<api, everReady>>
      \/ /\ pass' = moved /\ seen = wanted
         /\ UNCHANGED <<api, queued, everReady>>
      \/ /\ pass' = moved /\ Write(new, queued)
  BY DEF ReconcilePodGroup, PodGroupAgrees
<1>5. /\ moved \in Passes /\ moved.at = Advance(1) /\ moved.spec = pass.spec
      /\ moved.order = pass.order /\ moved.next = pass.next /\ moved.fresh = pass.fresh
  BY <1>1, <1>2, PassFacts, PassMoves
<1> HIDE DEF wanted, new, moved
<1>6. CASE Abort /\ queued' = TRUE /\ UNCHANGED <<api, everReady>>
  <2>1. TypeInv' /\ (GroupInv => Remembered')
    BY <1>1, <1>6, NoPassType DEF PassInv, GroupInv, TypeInv, Remembered, Abort
  <2>2. Quiet
    BY <1>6 DEF Quiet, NoneCreated, NoneDeleted, SpecKept, StatusKept
  <2> QED
    BY <1>6, <2>1, <2>2, PassEnds DEF Keeps
<1>7. CASE /\ pass' = moved
           /\ \/ seen = wanted /\ UNCHANGED <<api, queued, everReady>>
              \/ Write(new, queued)
  <2>1. Quiet
    BY <1>3, <1>7 DEF Quiet, NoneCreated, NoneDeleted, SpecKept, StatusKept, Write
  <2>2. GroupInv => Remembered'
    <3>1. CASE UNCHANGED <<api, everReady>>
      BY <1>1, <3>1 DEF GroupInv, Remembered
    <3>2. CASE Write(new, queued)
      BY <1>1, <1>2, <1>3, <2>1, <3>2, HistoryKept DEF PassInv, GroupInv, Quiet
    <3> QED
      BY <1>7, <3>1, <3>2
  <2>3. TypeInv'
    <3>1. CASE UNCHANGED <<api, queued, everReady>>
      BY <1>1, <1>5, <1>7, <3>1 DEF PassInv, TypeInv
    <3>2. CASE Write(new, queued)
      BY <1>1, <1>2, <1>3, <1>5, <1>7, <3>2, Written DEF PassInv, TypeInv
    <3> QED
      BY <1>7, <3>1, <3>2
  <2>4. Underway'
    <3>1. Len(pass.order) \in Nat
      BY <1>1, PassFacts
    <3> QED
      BY <1>1, <1>2, <1>5, <1>7, <3>1 DEF PassInv, Underway
  <2>5. GangReady'
    <3>1. ASSUME "podGroup" \notin Lag, pass.spec.gang
          PROVE  api'.podGroup = GroupSize(pass.spec)
      <4>1. seen = api.podGroup /\ wanted = GroupSize(pass.spec)
        BY <3>1 DEF Read, wanted, PodGroupWanted
      <4> QED
        BY <1>3, <1>7, <4>1 DEF Write
    <3> QED
      BY <1>5, <1>7, <3>1 DEF GangReady
  <2>6. Through' = {} /\ Reported' = {}
    BY <1>1, <1>2, <1>5, <1>7 DEF Through, Reported
  <2>7. Created' /\ FreshEarned'
    BY <2>6 DEF Created, FreshEarned
  <2> QED
    BY <1>1, <1>5, <1>7, <2>1, <2>2, <2>3, <2>4, <2>5, <2>7 DEF PassInv, GroupInv, Keeps, SamePass
<1> QED
  BY <1>4, <1>6, <1>7

\* What ReconcileWorkload writes.
LEMMA WorkloadObjects ==
  ASSUME PassInv, pass.at = "role"
  PROVE  LET key == <<RoleKind, Role>>
             conf == [api EXCEPT !.configs[Role] = ConfigAfter]
             new == WithWorkload(conf, key, WorkloadAfter)
         IN  /\ key = WorkloadKey(Role) /\ key \in Kinds \X Roles
             /\ conf \in ObjectStates /\ conf.workloads = api.workloads
             /\ conf.podGroup = api.podGroup /\ conf.group = api.group
             /\ new \in ObjectStates
             /\ new.podGroup = api.podGroup /\ new.group = api.group
             /\ new.workloads[key] = WorkloadAfter
             /\ \A x \in Kinds \X Roles : x # key => new.workloads[x] = api.workloads[x]
             /\ api.workloads[key].exists => WorkloadAfter.exists
             /\ "workloads" \notin Lag => WorkloadAfter.exists
<1> DEFINE key == <<RoleKind, Role>>
           conf == [api EXCEPT !.configs[Role] = ConfigAfter]
           new == WithWorkload(conf, key, WorkloadAfter)
           v == api.workloads[key]
<1>1. /\ key = WorkloadKey(Role) /\ key \in Kinds \X Roles
      /\ Role \in Roles /\ pass.spec \in Specs /\ pass.spec.roles[Role].size \in Nat
  BY PassFacts, RoleFacts DEF WorkloadKey, RoleKind, RoleSpec
<1>2. api \in ObjectStates /\ api.configs \in [Roles -> {Topology(g) : g \in Specs} \cup {None}]
      /\ v \in Workload
  BY <1>1 DEF PassInv, TypeInv, ObjectStates
<1>3. ConfigAfter \in {Topology(g) : g \in Specs} \cup {None}
  BY <1>1, <1>2, Zenon DEF ConfigAfter
<1>4. /\ conf \in ObjectStates /\ conf.workloads = api.workloads
      /\ conf.podGroup = api.podGroup /\ conf.group = api.group
  BY <1>1, <1>2, <1>3, ConfigWritten
<1> DEFINE size == pass.spec.roles[Role].size
           up == [v EXCEPT !.exists = TRUE, !.replicas = size]
<1>5. up \in Workload /\ up.exists
  BY <1>1, <1>2 DEF Workload
<1>6. \/ WorkloadAfter = v /\ Seen(Role).exists
      \/ WorkloadAfter = up
  BY Zenon DEF WorkloadAfter
<1>7. "workloads" \notin Lag => Seen(Role) = v
  BY DEF Seen, Read, RoleKind
<1> HIDE DEF up, v, conf
<1>8. /\ WorkloadAfter \in Workload
      /\ v.exists => WorkloadAfter.exists
      /\ "workloads" \notin Lag => WorkloadAfter.exists
  BY <1>2, <1>5, <1>6, <1>7
<1> HIDE DEF key
<1>9. /\ new \in ObjectStates
      /\ new.podGroup = conf.podGroup /\ new.group = conf.group
      /\ new.workloads[key] = WorkloadAfter
      /\ \A x \in Kinds \X Roles : x # key => new.workloads[x] = conf.workloads[x]
  BY <1>1, <1>4, <1>8, WorkloadWritten
<1> QED
  BY <1>1, <1>4, <1>8, <1>9 DEF key, conf, v

\* The workload of the role is there afterwards.
LEMMA WorkloadStep ==
  ASSUME PassInv, ReconcileWorkload
  PROVE  Keeps /\ SamePass /\ NoneDeleted /\ SpecKept /\ StatusKept
<1> DEFINE key == WorkloadKey(Role)
           new == WithWorkload([api EXCEPT !.configs[Role] = ConfigAfter], <<RoleKind, Role>>, WorkloadAfter)
           moved == [pass EXCEPT !.at = "report"]
<1>1. /\ pass.at = "role" /\ Write(new, queued) /\ pass' = moved /\ UNCHANGED <<cache, budget>>
      /\ api' = new
  BY DEF ReconcileWorkload, Write
<1>2. /\ key \in Kinds \X Roles
      /\ new \in ObjectStates
      /\ new.podGroup = api.podGroup /\ new.group = api.group
      /\ new.workloads[key] = WorkloadAfter
      /\ \A x \in Kinds \X Roles : x # key => new.workloads[x] = api.workloads[x]
      /\ api.workloads[key].exists => WorkloadAfter.exists
      /\ "workloads" \notin Lag => WorkloadAfter.exists
  BY <1>1, WorkloadObjects
<1>3. /\ moved \in Passes /\ moved.at = "report" /\ moved.spec = pass.spec
      /\ moved.order = pass.order /\ moved.next = pass.next /\ moved.fresh = pass.fresh
  <2>1. "report" \in Stages
    BY DEF Stages
  <2> QED
    BY <1>1, <2>1, PassFacts, PassMoves
<1> HIDE DEF new, moved
<1>4. queued \in BOOLEAN
  BY DEF PassInv, TypeInv
<1>5. NoneDeleted /\ SpecKept /\ StatusKept /\ SamePass
  BY <1>1, <1>2, <1>3 DEF NoneDeleted, SpecKept, StatusKept, SamePass
<1>6. TypeInv'
  BY <1>1, <1>2, <1>3, <1>4, Written DEF PassInv, TypeInv
<1>7. GroupInv => /\ Remembered'
                  /\ \A kr \in Kinds \X Roles : everReady[kr] => everReady'[kr]
  BY <1>1, <1>2, <1>4, <1>5, HistoryKept DEF PassInv, GroupInv
<1>8. /\ pass.next \in 1 .. Len(pass.order) /\ Len(pass.order) \in Nat
      /\ \A r : WorkloadKey(r)' = WorkloadKey(r)
  BY <1>1, <1>3, PassFacts, RoleFacts DEF WorkloadKey
<1>9. Underway' /\ (GroupInv => GangReady')
  BY <1>1, <1>2, <1>3, <1>8 DEF PassInv, GroupInv, Underway, GangReady
<1>10. Reported' = Reported /\ Through' = Through \cup {Role}
  <2>1. /\ Reported' = Reported
        /\ Through' = {pass.order[i] : i \in 1 .. pass.next}
        /\ Through = {pass.order[i] : i \in 1 .. pass.next - 1}
    BY <1>1, <1>3 DEF Reported, Through
  <2>2. \A i : i \in 1 .. pass.next <=> i \in 1 .. pass.next - 1 \/ i = pass.next
    BY <1>8
  <2> QED
    BY <2>1, <2>2 DEF Role
<1>11. /\ \A r \in Through : WorkloadKey(r) \in Kinds \X Roles
       /\ \A r \in Reported : WorkloadKey(r) \in Kinds \X Roles
  <2>1. \A i \in 1 .. pass.next - 1 : i \in DOMAIN pass.order
    BY <1>1, <1>8, PassFacts
  <2> QED
    BY <1>1, <2>1, PassFacts DEF Through, Reported, Range
<1>12. GroupInv => Created'
  BY <1>1, <1>2, <1>3, <1>5, <1>8, <1>10, <1>11 DEF GroupInv, Created, NoneDeleted
<1>13. GroupInv => FreshEarned'
  BY <1>1, <1>3, <1>7, <1>8, <1>10, <1>11 DEF GroupInv, FreshEarned
<1> QED
  BY <1>5, <1>6, <1>7, <1>9, <1>12, <1>13 DEF PassInv, GroupInv, Keeps

\* A role status that counts as ready is that of a workload that was ready.
LEMMA StatusEarned ==
  ASSUME GroupInv, pass.at = "report", RoleKind \in Measured, Reliable(WorkloadKey(Role)),
         Seen(Role).exists,
         NEW status, status = RoleStatus(RoleKind, Seen(Role)), status.ready = status.replicas
  PROVE  everReady[WorkloadKey(Role)]
<1>1. WorkloadKey(Role) \in Kinds \X Roles
  BY PassFacts, RoleFacts DEF GroupInv
<1>2. Whole(Seen(Role))
  BY DEF RoleStatus, Desired, Whole, Measured
<1>3. \/ Seen(Role) = api.workloads[WorkloadKey(Role)]
      \/ Steady(WorkloadKey(Role)) /\ Seen(Role) = cache.workloads[WorkloadKey(Role)]
  BY DEF Seen, Read, WorkloadKey, Reliable
<1> QED
  BY <1>1, <1>2, <1>3 DEF GroupInv, Remembered

\* The role is reported, and the pass goes on to the next.
LEMMA ReportStep ==
  ASSUME PassInv, ReportRole
  PROVE  Keeps /\ SamePass /\ Quiet
<1> DEFINE status == RoleStatus(RoleKind, Seen(Role))
           early == AdapterRefused \/ (RoleKind = "StatefulSet" /\ ~Seen(Role).exists)
           up == pass.update \/ pass.status.roles[Role] # status
           moved == [pass EXCEPT !.at = Advance(pass.next + 1), !.next = @ + 1,
                                 !.fresh[Role] = status, !.update = up]
           new == [api EXCEPT !.adapters = AdaptersAfter]
<1>1. /\ pass.at = "report" /\ pass.at # "idle" /\ UNCHANGED <<cache, everReady, budget>>
      /\ api' = IF early THEN api ELSE new
  BY Zenon DEF ReportRole
<1>2. \/ Abort /\ queued' = TRUE
      \/ Seen(Role).exists /\ pass' = moved /\ UNCHANGED queued
  BY Zenon DEF ReportRole
<1>3. Role \in Roles /\ Role \in DOMAIN pass.spec.roles
  BY <1>1, PassFacts, RoleFacts
<1>4. AdaptersAfter \in SUBSET Roles
  BY <1>3 DEF AdaptersAfter, PassInv, TypeInv, ObjectStates
<1>5. /\ api' \in ObjectStates /\ api'.workloads = api.workloads
      /\ api'.podGroup = api.podGroup /\ api'.group = api.group
  <2>1. api \in ObjectStates
    BY DEF PassInv, TypeInv
  <2>2. /\ new \in ObjectStates /\ new.workloads = api.workloads
        /\ new.podGroup = api.podGroup /\ new.group = api.group
    BY <1>4, <2>1, ObjectWritten
  <2> HIDE DEF new
  <2> QED
    BY <1>1, <2>1, <2>2
<1>6. Quiet
  BY <1>5 DEF Quiet, NoneCreated, NoneDeleted, SpecKept, StatusKept
<1>7. GroupInv => Remembered'
  BY <1>1, <1>5 DEF GroupInv, Remembered
<1>8. CASE Abort /\ queued' = TRUE
  <2>1. TypeInv'
    BY <1>1, <1>5, <1>8, NoPassType DEF PassInv, TypeInv, Abort
  <2> QED
    BY <1>6, <1>7, <1>8, <2>1, PassEnds DEF Keeps
<1>9. CASE Seen(Role).exists /\ pass' = moved /\ UNCHANGED queued
  <2>1. status \in Status /\ up \in BOOLEAN
    <3>1. RoleKind \in Kinds /\ Seen(Role) \in Workload
      BY <1>1, <1>3, PassFacts, ReadType DEF PassInv, Seen, RoleKind, RoleSpec
    <3>2. pass.update \in BOOLEAN
      BY <1>1, PassFacts DEF Passes
    <3> QED
      BY <3>1, <3>2 DEF RoleStatus, Status, Desired, Workload
  <2>2. /\ pass \in Passes /\ pass.fresh \in [Roles -> Status] /\ pass.next \in Nat
        /\ Advance(pass.next + 1) \in Stages /\ Advance(pass.next + 1) \in {"role", "status"}
        /\ Advance(pass.next + 1) = "role" <=> pass.next + 1 <= Len(pass.order)
    <3>1. pass.next + 1 \in Nat
      BY <1>1, PassFacts
    <3> QED
      BY <1>1, <3>1, PassFacts, AdvanceType DEF Passes
  <2> DEFINE fresh == [pass.fresh EXCEPT ![Role] = status]
             to == Advance(pass.next + 1)
  <2>3. /\ fresh \in [Roles -> Status] /\ fresh[Role] = status
        /\ \A r \in Roles : r # Role => fresh[r] = pass.fresh[r]
    BY <1>3, <2>1, <2>2
  <2>4. moved = [pass EXCEPT !.at = to, !.next = @ + 1, !.fresh = fresh, !.update = up]
    BY <2>2 DEF Passes
  <2> HIDE DEF fresh, to, up, moved, status
  <2>5. /\ moved \in Passes /\ moved.at = to /\ moved.spec = pass.spec /\ moved.order = pass.order
        /\ moved.next = pass.next + 1 /\ moved.fresh = fresh
    <3>1. to \in Stages /\ pass.next + 1 \in Nat
      BY <2>2 DEF to
    <3>2. moved = [pass EXCEPT !.at = to, !.next = pass.next + 1, !.fresh = fresh, !.update = up]
      BY <2>4
    <3> QED
      BY ONLY <2>1, <2>2, <2>3, <3>1, <3>2 DEF Passes
  <2>6. TypeInv'
    BY <1>1, <1>5, <1>9, <2>5 DEF PassInv, TypeInv
  <2>7. /\ pass.next \in 1 .. Len(pass.order) /\ Len(pass.order) \in Nat
        /\ \A r : WorkloadKey(r)' = WorkloadKey(r)
    BY <1>1, <1>9, <2>5, PassFacts, RoleFacts DEF WorkloadKey
  <2>8. Underway'
    BY <1>1, <1>9, <2>2, <2>5, <2>7 DEF PassInv, Underway, to
  <2>9. GroupInv => GangReady'
    BY <1>1, <1>5, <1>9, <2>5 DEF GroupInv, GangReady
  <2>10. Through' = Through /\ Reported' = Reported \cup {Role}
    <3>1. pass'.next - 1 = pass.next /\ pass'.at # "report"
      BY <1>9, <2>2, <2>5 DEF to
    <3>2. /\ Reported' = {pass.order[i] : i \in 1 .. pass.next}
          /\ Through' = {pass.order[i] : i \in 1 .. pass.next}
          /\ Through = {pass.order[i] : i \in 1 .. pass.next}
      BY <1>1, <1>9, <2>5, <3>1 DEF Reported, Through
    <3>3. \A i : i \in 1 .. pass.next <=> i \in 1 .. pass.next - 1 \/ i = pass.next
      BY <2>7
    <3> QED
      BY <3>2, <3>3 DEF Role, Reported
  <2>11. GroupInv => Created'
    BY <1>1, <1>5, <1>9, <2>5, <2>7, <2>10 DEF GroupInv, Created
  <2>12. \A r \in Reported : r \in Roles
    <3>1. \A i \in 1 .. pass.next - 1 : i \in DOMAIN pass.order
      BY <1>1, <2>7, PassFacts
    <3> QED
      BY <1>1, <3>1, PassFacts DEF Reported, Range
  <2>13. GroupInv => FreshEarned'
    <3> SUFFICES ASSUME GroupInv
                 PROVE  FreshEarned'
      OBVIOUS
    <3>1. ASSUME NEW r \in Reported \cup {Role},
                 pass.spec.roles[r].kind \in Measured, Reliable(WorkloadKey(r)),
                 fresh[r].ready = fresh[r].replicas
          PROVE  everReady[WorkloadKey(r)]
      <4>1. CASE r = Role
        <5>1. RoleKind \in Measured /\ fresh[r] = status
          BY <2>3, <3>1, <4>1 DEF RoleKind
        <5> QED
          BY <1>1, <1>9, <3>1, <4>1, <5>1, StatusEarned DEF status
      <4>2. CASE r # Role
        BY <1>1, <2>3, <2>12, <3>1, <4>2 DEF GroupInv, FreshEarned
      <4> QED
        BY <4>1, <4>2
    <3> QED
      BY <1>1, <1>9, <2>5, <2>7, <2>10, <3>1 DEF FreshEarned
  <2> QED
    BY <1>1, <1>6, <1>7, <1>9, <2>5, <2>6, <2>8, <2>9, <2>11, <2>13
       DEF PassInv, GroupInv, Keeps, SamePass
<1> QED
  BY <1>2, <1>8, <1>9

\* The status is written after all roles have been reported.
LEMMA StatusStep ==
  ASSUME PassInv, UpdateStatus
  PROVE  Keeps /\ SamePass /\ NoneCreated /\ NoneDeleted /\ SpecKept
<1> DEFINE moved == [pass EXCEPT !.at = "cleanup"]
           new == [api EXCEPT !.group.status = StatusAfter]
<1>1. /\ pass.at = "status" /\ pass.at # "idle" /\ pass' = moved
      /\ api' = (IF pass.update THEN new ELSE api)
      /\ UNCHANGED <<cache, queued, everReady, budget>>
  BY Zenon DEF UpdateStatus
<1>2. StatusAfter \in GroupStatus
  <2>1. pass.status \in GroupStatus /\ pass.fresh \in [Roles -> Status]
    BY <1>1, PassFacts DEF Passes
  <2> DEFINE R == [r \in Roles |-> IF pass.fresh[r].known THEN pass.fresh[r] ELSE pass.status.roles[r]]
             v == IF AllReady THEN "True" ELSE "False"
  <2>2. R \in [Roles -> Status] /\ v \in ConditionStatus
    BY <2>1 DEF GroupStatus, ConditionStatus
  <2>3. StatusAfter = [pass.status EXCEPT !.roles = R, !.ready = v]
    BY Zenon DEF StatusAfter
  <2> HIDE DEF R, v
  <2> QED
    BY <2>1, <2>2, <2>3 DEF GroupStatus
<1>3. /\ api' \in ObjectStates /\ api'.workloads = api.workloads /\ api'.podGroup = api.podGroup
      /\ api'.group.spec = api.group.spec
  <2>1. api \in ObjectStates /\ api.group.spec \in Specs
    BY DEF PassInv, TypeInv, ObjectStates
  <2>2. /\ new \in ObjectStates /\ new.workloads = api.workloads /\ new.podGroup = api.podGroup
        /\ new.group.spec = api.group.spec
    BY <1>2, <2>1, GroupWritten
  <2> HIDE DEF new
  <2> QED
    BY <1>1, <2>1, <2>2
<1>4. /\ moved \in Passes /\ moved.at = "cleanup" /\ moved.spec = pass.spec
      /\ moved.order = pass.order /\ moved.next = pass.next /\ moved.fresh = pass.fresh
  <2>1. "cleanup" \in Stages
    BY DEF Stages
  <2> QED
    BY <1>1, <2>1, PassFacts, PassMoves
<1> HIDE DEF moved, new
<1>5. TypeInv'
  BY <1>1, <1>3, <1>4 DEF PassInv, TypeInv
<1>6. GroupInv => Remembered'
  BY <1>1, <1>3 DEF GroupInv, Remembered
<1>7. Underway' /\ GangReady'
  BY <1>1, <1>4 DEF PassInv, Underway, GangReady
<1>8. /\ Through' = Through /\ Reported' = Reported
      /\ \A r : WorkloadKey(r)' = WorkloadKey(r)
  BY <1>1, <1>4 DEF Through, Reported, WorkloadKey
<1>9. GroupInv => Created'
  BY <1>1, <1>3, <1>4, <1>8 DEF GroupInv, Created
<1>10. GroupInv => FreshEarned'
  BY <1>1, <1>4, <1>8 DEF GroupInv, FreshEarned
<1>11. NoneCreated /\ NoneDeleted /\ SpecKept /\ SamePass
  BY <1>1, <1>3, <1>4 DEF NoneCreated, NoneDeleted, SpecKept, SamePass
<1> QED
  BY <1>5, <1>6, <1>7, <1>9, <1>10, <1>11 DEF PassInv, GroupInv, Keeps

\* A pass ends by deleting what its spec has no role for.
LEMMA CleanupStep ==
  ASSUME PassInv, Cleanup
  PROVE  /\ Keeps /\ SamePass /\ NoneCreated /\ SpecKept /\ StatusKept
         /\ \A k \in Kinds, r \in Roles :
              api.workloads[<<k, r>>].exists /\ ~api'.workloads[<<k, r>>].exists => Orphan(k, r)
<1> DEFINE there == {kr \in Kinds \X Roles : api.workloads[kr].exists}
           orphans == {kr \in Kinds \X Roles :
                         Read("workloads")[kr].exists /\ Orphan(kr[1], kr[2])}
           failed == ~(orphans \subseteq there /\ UnownedAdapters \subseteq api.adapters)
           W(deleted) ==
             [kr \in Kinds \X Roles |-> IF kr \in deleted THEN NoWorkload ELSE api.workloads[kr]]
           changed(deleted, adapters) ==
             [api EXCEPT !.workloads = W(deleted), !.adapters = api.adapters \ adapters]
<1>1. pass.at = "cleanup" /\ Abort /\ UNCHANGED <<cache, budget>>
  BY Zenon DEF Cleanup
<1>2. \E deleted \in SUBSET orphans, adapters \in Deletions(UnownedAdapters, api.adapters) :
        Write(changed(deleted, adapters), queued \/ failed)
  BY Zenon DEF Cleanup
<1> HIDE DEF changed, failed
<1>3. PICK deleted \in SUBSET orphans, adapters \in Deletions(UnownedAdapters, api.adapters) :
         Write(changed(deleted, adapters), queued \/ failed)
  BY <1>2
<1> DEFINE V == W(deleted)
           A == api.adapters \ adapters
           new == [api EXCEPT !.workloads = V, !.adapters = A]
<1>4. Write(new, queued \/ failed)
  BY <1>3 DEF changed
<1>5. \A kr \in deleted : Orphan(kr[1], kr[2])
  OBVIOUS
<1>6. api \in ObjectStates /\ (queued \/ failed) \in BOOLEAN
  BY DEF PassInv, TypeInv, failed
<1>7. V \in [Kinds \X Roles -> Workload] /\ A \in SUBSET Roles
  BY <1>6 DEF ObjectStates, NoWorkload, Workload
<1>8. /\ \A kr \in Kinds \X Roles : kr \in deleted => ~V[kr].exists
      /\ \A kr \in Kinds \X Roles : kr \notin deleted => V[kr] = api.workloads[kr]
  BY DEF NoWorkload
<1> HIDE DEF V, W, A, orphans, there
<1>9. /\ new \in ObjectStates /\ new.workloads = V /\ new.group = api.group
  BY <1>6, <1>7 DEF ObjectStates
<1> HIDE DEF new
<1>10. api' = new
  BY <1>4 DEF Write
<1>11. NoneCreated /\ SpecKept /\ StatusKept
  BY <1>8, <1>9, <1>10 DEF NoneCreated, SpecKept, StatusKept
<1>12. ASSUME NEW kr \in Kinds \X Roles,
             api.workloads[kr].exists, ~api'.workloads[kr].exists
      PROVE  Orphan(kr[1], kr[2])
  BY <1>8, <1>9, <1>10, <1>12, <1>5
<1>13. TypeInv'
  BY <1>1, <1>4, <1>6, <1>9, <1>10, NoPassType, Written DEF PassInv, TypeInv, Abort
<1>14. \A kr \in Kinds \X Roles : Steady(kr) => ~Orphan(kr[1], kr[2])
  BY <1>1, PassFacts DEF Steady, Orphan
<1>15. GroupInv => Remembered'
  <2> SUFFICES ASSUME GroupInv
               PROVE  Remembered'
    OBVIOUS
  <2>1. ASSUME NEW kr \in Kinds \X Roles
        PROVE  /\ everReady'[kr] => api'.workloads[kr].exists
               /\ Whole(api'.workloads[kr]) => everReady'[kr]
    BY <1>1, <1>4, <1>6, <1>9, HistoryKept DEF PassInv
  <2>2. ASSUME NEW kr \in Kinds \X Roles, Steady(kr), Whole(cache.workloads[kr])
        PROVE  everReady'[kr]
    <3>1. everReady[kr] /\ api.workloads[kr].exists
      BY <2>2 DEF GroupInv, Remembered
    <3>2. api'.workloads[kr].exists
      BY <1>12, <1>14, <2>2, <3>1
    <3> QED
      BY <1>1, <1>4, <1>6, <1>9, <3>1, <3>2, HistoryKept DEF PassInv
  <2> QED
    BY <1>1, <2>1, <2>2 DEF Remembered
<1>16. Keeps /\ SamePass
  BY <1>1, <1>13, <1>15, PassEnds DEF Keeps
<1> QED
  BY <1>11, <1>12, <1>16

\* A pass that waits or fails is begun anew; a failed one may have written the
\* config of a role.
LEMMA EarlyEndStep ==
  ASSUME PassInv, WaitForDependencies \/ PassFails \/ WorkloadFails
  PROVE  Keeps /\ SamePass /\ Quiet
<1>1. /\ Abort /\ queued' = TRUE /\ UNCHANGED <<cache, everReady>>
      /\ budget' \in [edit : Nat, failure : Nat, blip : Nat]
  <2>1. budget \in [edit : Nat, failure : Nat, blip : Nat]
    BY DEF PassInv, TypeInv
  <2>2. CASE WaitForDependencies
    BY <2>1, <2>2 DEF WaitForDependencies
  <2>3. CASE Fail
    BY <2>1, <2>3 DEF Fail
  <2> QED
    BY <2>2, <2>3 DEF PassFails, WorkloadFails
<1>2. /\ api' \in ObjectStates /\ api'.workloads = api.workloads /\ api'.group = api.group
  <2>1. api \in ObjectStates
    BY DEF PassInv, TypeInv
  <2>2. CASE UNCHANGED api
    BY <2>1, <2>2
  <2>3. CASE WorkloadFails
    BY <2>3, WorkloadObjects DEF WorkloadFails
  <2> QED
    BY <2>2, <2>3 DEF WaitForDependencies, PassFails
<1>3. TypeInv' /\ (GroupInv => Remembered')
  BY <1>1, <1>2, NoPassType DEF PassInv, GroupInv, TypeInv, Remembered, Abort
<1>4. Quiet
  BY <1>2 DEF Quiet, NoneCreated, NoneDeleted, SpecKept, StatusKept
<1> QED
  BY <1>1, <1>3, <1>4, PassEnds DEF Keeps

-----------------------------------------------------------------------------
(***************************************************************************)
(* The invariant of the specification.                                     *)
(***************************************************************************)
\* It holds of a group that has just been created.
LEMMA InitInv ==
  ASSUME Init
  PROVE  GroupInv
<1>1. PICK g \in Specs :
        api = [group |-> [spec |-> g, status |-> NoGroupStatus],
               workloads |-> [kr \in Kinds \X Roles |-> NoWorkload],
               configs |-> [r \in Roles |-> None],
               adapters |-> {},
               podGroup |-> None]
  BY DEF Init
<1>2. cache = api /\ queued = TRUE /\ pass = NoPass
  BY DEF Init
<1>3. NoGroupStatus \in GroupStatus /\ NoWorkload \in Workload /\ ~NoWorkload.exists
  BY DEF NoGroupStatus, GroupStatus, NoStatus, Status, ConditionStatus, NoWorkload, Workload
<1> DEFINE W == [kr \in Kinds \X Roles |-> NoWorkload]
<1>4. W \in [Kinds \X Roles -> Workload] /\ \A kr \in Kinds \X Roles : W[kr] = NoWorkload
  BY <1>3
<1> HIDE DEF W
<1>5. api \in ObjectStates /\ api.workloads = W
  BY <1>1, <1>3, <1>4 DEF ObjectStates, W
<1>6. /\ everReady \in [Kinds \X Roles -> BOOLEAN]
      /\ \A kr \in Kinds \X Roles : ~everReady[kr]
  BY DEF Init
<1>7. budget \in [edit : Nat, failure : Nat, blip : Nat]
  BY GroupAssumption DEF Init
<1>8. TypeInv
  BY <1>2, <1>5, <1>6, <1>7, NoPassType DEF TypeInv
<1>9. pass.at = "idle"
  BY <1>2, NoPassType
<1>10. Remembered
  BY <1>2, <1>3, <1>4, <1>5, <1>6 DEF Remembered, Whole
<1> QED
  BY <1>8, <1>9, <1>10 DEF PassInv, GroupInv, Underway, GangReady, Created, FreshEarned

\* What the steps of the controller do.
LEMMA ControllerStep ==
  ASSUME PassInv, Controller
  PROVE  /\ Keeps /\ SpecKept
         /\ SamePass \/ (pass'.at = "podGroup" /\ pass'.spec = Read("group").spec)
         /\ NoneCreated \/ ReconcileWorkload
         /\ NoneDeleted \/ Cleanup
         /\ StatusKept \/ UpdateStatus
  BY BeginStep, PodGroupStep, EarlyEndStep, WorkloadStep, ReportStep, StatusStep, CleanupStep
     DEF Controller, Quiet

\* Every step keeps both invariants; who creates workloads, who deletes them,
\* and who writes the status.
LEMMA NextStep ==
  ASSUME PassInv, [Next]_vars
  PROVE  /\ Keeps
         /\ NoneCreated \/ ReconcileWorkload
         /\ NoneDeleted \/ Cleanup
         /\ StatusKept \/ UpdateStatus
<1>1. CASE \E g \in Specs : Edit(g)
  BY <1>1, EditStep
<1>2. CASE Controller
  BY <1>2, ControllerStep
<1>3. CASE PassFails \/ WorkloadFails
  BY <1>3, EarlyEndStep DEF Quiet
<1>4. CASE Informers
  BY <1>4, InformersStep DEF Quiet
<1>5. CASE Cluster
  BY <1>5, ClusterStep DEF Quiet
<1>6. CASE UNCHANGED vars
  <2>1. TypeInv' /\ NoneCreated /\ NoneDeleted /\ StatusKept
    BY <1>6 DEF vars, PassInv, TypeInv, NoneCreated, NoneDeleted, StatusKept
  <2>2. GroupInv => Remembered'
    BY <1>6 DEF vars, GroupInv, Remembered
  <2> QED
    BY <1>6, <2>1, <2>2, PassStays DEF vars, Keeps
<1> QED
  BY <1>1, <1>2, <1>3, <1>4, <1>5, <1>6 DEF Next

\* The inductive invariant of the group controller.
THEOREM GroupInvariant ==
  Spec => []GroupInv
<1>1. GroupInv /\ [Next]_vars => GroupInv'
  BY NextStep DEF GroupInv, Keeps
<1> QED
  BY InitInv, <1>1, PTL DEF Spec
-----------------------------------------------------------------------------
(***************************************************************************)
(* What the group controller promises.                                     *)
(***************************************************************************)
\* A workload is created for the role whose turn it is, after its dependencies
\* have been found ready.
LEMMA Creation ==
  ASSUME GroupInv, [Next]_vars, NEW kr \in Kinds \X Roles,
         api'.workloads[kr].exists, ~api.workloads[kr].exists
  PROVE  pass.at = "role" /\ DependenciesReady /\ kr = WorkloadKey(Role)
<1>1. ReconcileWorkload
  BY NextStep DEF GroupInv, NoneCreated
<1>2. pass.at = "role" /\ DependenciesReady
  BY <1>1 DEF ReconcileWorkload
<1> DEFINE new == WithWorkload([api EXCEPT !.configs[Role] = ConfigAfter], <<RoleKind, Role>>, WorkloadAfter)
<1>3. api' = new
  BY <1>1 DEF ReconcileWorkload, Write
<1>4. <<RoleKind, Role>> = WorkloadKey(Role)
      /\ \A x \in Kinds \X Roles : x # <<RoleKind, Role>> => new.workloads[x] = api.workloads[x]
  BY <1>2, WorkloadObjects DEF GroupInv
<1> HIDE DEF new
<1> QED
  BY <1>2, <1>3, <1>4

\* What a pass needs includes the types.
LEMMA PassType ==
  ASSUME PassInv
  PROVE  TypeOK
  BY RoleFacts DEF PassInv, TypeInv, TypeOK, Passes

\* The objects, the pass and the history are what the code declares.
THEOREM TypeCorrect ==
  Spec => []TypeOK
<1>1. GroupInv => TypeOK
  BY PassType DEF GroupInv
<1> QED
  BY <1>1, GroupInvariant, PTL

\* PodGroupScheduler.Reconcile comes before the roles: if the controller sees
\* the PodGroup as it is, a gang-scheduled group creates a workload only when
\* the PodGroup asks for exactly the pods of all its roles.
THEOREM GangComesFirst ==
  ASSUME "podGroup" \notin Lag
  PROVE  Spec => GangFirst
<1> DEFINE First ==
      (\E k \in Kinds, r \in Roles : api'.workloads[k, r].exists /\ ~api.workloads[k, r].exists)
        => (pass.spec.gang => api.podGroup = GroupSize(pass.spec))
<1>1. ASSUME GroupInv, [Next]_vars
      PROVE  First
  <2> SUFFICES ASSUME NEW k \in Kinds, NEW r \in Roles,
                      api'.workloads[<<k, r>>].exists, ~api.workloads[<<k, r>>].exists,
                      pass.spec.gang
               PROVE  api.podGroup = GroupSize(pass.spec)
    OBVIOUS
  <2>1. pass.at = "role"
    BY <1>1, Creation
  <2> QED
    BY <1>1, <2>1 DEF GroupInv, GangReady
<1>2. Spec => [][First]_vars
  BY <1>1, GroupInvariant, PTL DEF Spec
<1> QED
  BY <1>2 DEF GangFirst

\* Every role that another one depends on is a Deployment or a StatefulSet, and
\* the controller sees its workload as it is or never loses it.
DependenciesReliable ==
  \A g \in Specs : \A r \in DOMAIN g.roles : \A d \in Range(g.roles[r].deps) \cap DOMAIN g.roles :
    g.roles[d].kind \in Measured /\ Reliable(<<g.roles[d].kind, d>>)

\* CheckDependencyReady: the workload of a role is created only after the
\* workloads of its dependencies have had all their replicas ready.
THEOREM DependenciesComeFirst ==
  ASSUME DependenciesReliable
  PROVE  Spec => StartsInOrder
<1> DEFINE Ordered ==
      \A r \in Roles :
        (\E k \in Kinds : api'.workloads[k, r].exists /\ ~api.workloads[k, r].exists)
          => \A d \in Range(pass.spec.roles[r].deps) : everReady[pass.spec.roles[d].kind, d]
<1>1. ASSUME GroupInv, [Next]_vars
      PROVE  Ordered
  <2> SUFFICES ASSUME NEW r \in Roles, NEW k \in Kinds,
                      api'.workloads[<<k, r>>].exists, ~api.workloads[<<k, r>>].exists,
                      NEW d \in Range(pass.spec.roles[r].deps)
               PROVE  everReady[<<pass.spec.roles[d].kind, d>>]
    OBVIOUS
  <2>1. pass.at = "role" /\ pass.at # "idle" /\ DependenciesReady /\ r = Role
    BY <1>1, Creation DEF WorkloadKey
  <2>2. /\ pass.spec \in Specs /\ r \in DOMAIN pass.spec.roles
        /\ d \in DOMAIN pass.spec.roles
        /\ WorkloadKey(d) \in Kinds \X Roles
    BY <1>1, <2>1, PassFacts, RoleFacts DEF GroupInv
  <2>3. pass.spec.roles[d].kind \in Measured /\ Reliable(WorkloadKey(d))
    BY <2>2 DEF DependenciesReliable, WorkloadKey
  <2>4. Whole(Seen(d))
    BY <2>1, <2>3 DEF DependenciesReady, WorkloadReady, Desired, Whole, Measured
  <2>5. \/ Seen(d) = api.workloads[WorkloadKey(d)]
        \/ Steady(WorkloadKey(d)) /\ Seen(d) = cache.workloads[WorkloadKey(d)]
    BY <2>3 DEF Seen, Read, WorkloadKey, Reliable
  <2>6. everReady[WorkloadKey(d)]
    BY <1>1, <2>2, <2>4, <2>5 DEF GroupInv, Remembered
  <2> QED
    BY <2>6 DEF WorkloadKey
<1>2. Spec => [][Ordered]_vars
  BY <1>1, GroupInvariant, PTL DEF Spec
<1> QED
  BY <1>2 DEF StartsInOrder

\* The controller sees the Deployments and StatefulSets of all roles as they
\* are, or never loses them.
StatusReliable ==
  \A g \in Specs : \A r \in DOMAIN g.roles :
    g.roles[r].kind \in Measured => Reliable(<<g.roles[r].kind, r>>)

\* updateRBGStatus: the Ready condition becomes True only when every Deployment
\* and StatefulSet of the group has had all its replicas ready.
THEOREM ReadyIsEarned ==
  ASSUME StatusReliable
  PROVE  Spec => ReadyEarned
<1> DEFINE Earned ==
      (api.group.status.ready # "True" /\ api'.group.status.ready = "True") =>
        \A r \in DOMAIN pass.spec.roles :
          pass.spec.roles[r].kind \in Measured => everReady[pass.spec.roles[r].kind, r]
<1>1. ASSUME GroupInv, [Next]_vars
      PROVE  Earned
  <2> SUFFICES ASSUME api.group.status.ready # "True", api'.group.status.ready = "True",
                      NEW r \in DOMAIN pass.spec.roles, pass.spec.roles[r].kind \in Measured
               PROVE  everReady[<<pass.spec.roles[r].kind, r>>]
    OBVIOUS
  <2>1. UpdateStatus
    BY <1>1, NextStep DEF GroupInv, StatusKept
  <2>2. /\ pass.at = "status" /\ pass.at # "idle"
        /\ api' = (IF pass.update THEN [api EXCEPT !.group.status = StatusAfter] ELSE api)
    BY <2>1, Zenon DEF UpdateStatus
  <2>3. AllReady
    <3>1. StatusAfter.ready = IF AllReady THEN "True" ELSE "False"
      <4>1. pass.status \in GroupStatus
        BY <1>1, <2>2, PassFacts DEF GroupInv, Passes
      <4> DEFINE R == [x \in Roles |-> IF pass.fresh[x].known THEN pass.fresh[x] ELSE pass.status.roles[x]]
                 v == IF AllReady THEN "True" ELSE "False"
      <4>2. StatusAfter = [pass.status EXCEPT !.roles = R, !.ready = v]
        BY Zenon DEF StatusAfter
      <4> HIDE DEF R, v
      <4>3. StatusAfter.ready = v
        BY <4>1, <4>2 DEF GroupStatus
      <4> QED
        BY <4>3 DEF v
    <3>2. api'.group.status = StatusAfter
      <4>1. api \in ObjectStates
        BY <1>1 DEF GroupInv, PassInv, TypeInv
      <4>2. [api EXCEPT !.group.status = StatusAfter].group.status = StatusAfter
        BY <4>1 DEF ObjectStates
      <4> QED
        BY <2>2, <4>2
    <3> QED
      BY <3>1, <3>2
  <2>4. /\ pass.spec \in Specs /\ r \in Range(pass.order)
        /\ pass.next = Len(pass.order) + 1
        /\ DOMAIN pass.order = 1 .. Len(pass.order) /\ Len(pass.order) \in Nat
    BY <1>1, <2>2, PassFacts DEF GroupInv, PassInv, Underway
  <2>5. r \in Reported
    BY <2>4 DEF Reported, Range
  <2>6. Reliable(WorkloadKey(r))
    BY <2>4 DEF StatusReliable, WorkloadKey
  <2>7. everReady[WorkloadKey(r)]
    BY <1>1, <2>2, <2>3, <2>4, <2>5, <2>6 DEF GroupInv, FreshEarned, AllReady
  <2> QED
    BY <2>7 DEF WorkloadKey
<1>2. Spec => [][Earned]_vars
  BY <1>1, GroupInvariant, PTL DEF Spec
<1> QED
  BY <1>2 DEF ReadyEarned

\* deleteRoles runs last: if the controller sees the workloads as they are, a
\* role whose kind has changed loses its old workload only when it has the new
\* one.
THEOREM NewBeforeOld ==
  ASSUME "workloads" \notin Lag
  PROVE  Spec => ReplacedBeforeRemoved
<1> DEFINE Replaced ==
      \A k \in Kinds, r \in DOMAIN pass.spec.roles :
        (api.workloads[k, r].exists /\ ~api'.workloads[k, r].exists)
          => api.workloads[pass.spec.roles[r].kind, r].exists
<1>1. ASSUME GroupInv, [Next]_vars
      PROVE  Replaced
  <2> SUFFICES ASSUME NEW k \in Kinds, NEW r \in DOMAIN pass.spec.roles,
                      api.workloads[<<k, r>>].exists, ~api'.workloads[<<k, r>>].exists
               PROVE  api.workloads[<<pass.spec.roles[r].kind, r>>].exists
    OBVIOUS
  <2>1. r \in Roles
    <3>1. CASE pass.spec \in Specs
      BY <3>1, GroupAssumption
    <3>2. CASE pass.spec = NoPass.spec
      BY <3>2 DEF NoPass
    <3> QED
      BY <1>1, <3>1, <3>2 DEF GroupInv, PassInv, TypeInv, Passes
  <2>2. Cleanup
    BY <1>1, <2>1, NextStep DEF GroupInv, NoneDeleted
  <2>3. pass.at = "cleanup" /\ pass.at # "idle"
    BY <2>2 DEF Cleanup
  <2>4. /\ r \in Range(pass.order) /\ pass.next = Len(pass.order) + 1
        /\ DOMAIN pass.order = 1 .. Len(pass.order) /\ Len(pass.order) \in Nat
    BY <1>1, <2>3, PassFacts DEF GroupInv, PassInv, Underway
  <2>5. r \in Through
    BY <2>3, <2>4 DEF Through, Range
  <2>6. api.workloads[WorkloadKey(r)].exists
    BY <1>1, <2>3, <2>5 DEF GroupInv, Created
  <2> QED
    BY <2>6 DEF WorkloadKey
<1>2. Spec => [][Replaced]_vars
  BY <1>1, GroupInvariant, PTL DEF Spec
<1> QED
  BY <1>2 DEF ReplacedBeforeRemoved
=============================================================================
