----------------------------- MODULE MCRoleGroup -----------------------------
(* Instances of RoleGroup for TLC. *)
EXTENDS RoleGroup

\* Two roles, the second one after the first.
NamesAB == <<"a", "b">>

R(kind, size, deps, adapter) ==
  [kind |-> kind, size |-> size, width |-> IF kind = "LeaderWorkerSet" THEN 2 ELSE 1,
   deps |-> deps, adapter |-> adapter]

G(roles, gang) == [roles |-> roles, gang |-> gang]

Pair(a, b) == [r \in {"a", "b"} |-> IF r = "a" THEN a ELSE b]
One(a) == [r \in {"a"} |-> a]

\* b as a Deployment, as a LeaderWorkerSet, and without b.
EvolvingSpecs ==
  {G(Pair(R("StatefulSet", 1, <<>>, FALSE), R("Deployment", 1, <<"a">>, TRUE)), TRUE),
   G(Pair(R("StatefulSet", 1, <<>>, FALSE), R("LeaderWorkerSet", 2, <<"a">>, FALSE)), TRUE),
   G(One(R("StatefulSet", 1, <<>>, TRUE)), FALSE)}

\* The first two of them.
KindChange == {g \in EvolvingSpecs : DOMAIN g.roles = Roles}

\* A role that starts after another one.
AfterStatefulSet ==
  {G(Pair(R("StatefulSet", 2, <<>>, FALSE), R("Deployment", 1, <<"a">>, FALSE)), FALSE)}

NoLag == {}
LagAll == Objects

\* The sort, over every dependency map of three roles with lists of at most
\* two entries.
ThreeNames == <<"x", "y", "z">>
ShortLists == UNION {[1 .. n -> Range(ThreeNames)] : n \in 0 .. 2}
ASSUME SortChecked ==
  \A deps \in [Range(ThreeNames) -> ShortLists] : SortedWell(ThreeNames, deps)
=============================================================================
