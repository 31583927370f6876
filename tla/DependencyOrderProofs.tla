------------------------ MODULE DependencyOrderProofs ------------------------
(***************************************************************************)
(* Theorems about DependencyOrder, for every finite set of roles and every *)
(* map of dependencies among them: the sort of pkg/dependency/dependency.go*)
(* comes to an end, and what it returns is right.                          *)
(*                                                                         *)
(* SortResult is a recursive function over the states of the sort.  It is  *)
(* reasoned about without an induction scheme: a nonempty set of states    *)
(* has one whose measure, a finite set, is minimal for strict inclusion.   *)
(***************************************************************************)
EXTENDS DependencyOrder, FiniteSets, FiniteSetTheorems, SequenceTheorems,
        WellFoundedInduction, TLAPS

-----------------------------------------------------------------------------
(***************************************************************************)
(* The invariant of the sort.                                              *)
(***************************************************************************)
\* A role on the path has been entered through the one before it.
Chained(s, deps) ==
  /\ IsInjective(s.path)
  /\ \A i \in 1 .. Len(s.path) - 1 : s.path[i+1] \in Range(deps[s.path[i]])

\* A visit in progress is not a completed one.
Open(s) == \A i \in 1 .. Len(s.path) : s.path[i] \notin s.completed

\* A dependency has still to be looked at, is completed, or is being visited.
Accounted(s, deps) ==
  \A r \in DOMAIN deps :
    /\ Range(s.rest[r]) \subseteq Range(deps[r])
    /\ \A d \in Range(deps[r]) :
         \/ d \in Range(s.rest[r])
         \/ d \in s.completed
         \/ \E i \in 1 .. Len(s.path) - 1 : s.path[i] = r /\ s.path[i+1] = d

\* The completed roles are listed once each, after their dependencies.
Listed(s, deps) ==
  /\ s.completed = Range(s.order)
  /\ IsInjective(s.order)
  /\ RespectsDependencies(s.order, deps)

\* No role is forgotten.
Reached(s, deps) == DOMAIN deps \subseteq Range(s.todo) \cup s.completed \cup Range(s.path)

CycleFound(s, deps) ==
  s.cycle => \E C \in SUBSET DOMAIN deps : Cyclic(C, deps)

SortInv(s, deps) ==
  /\ s \in SortState(DOMAIN deps)
  /\ Chained(s, deps)
  /\ Open(s)
  /\ Accounted(s, deps)
  /\ Listed(s, deps)
  /\ Reached(s, deps)
  /\ CycleFound(s, deps)

-----------------------------------------------------------------------------
(***************************************************************************)
(* The recursion of SortResult.  A function that satisfies its equation    *)
(* exists: it maps a state to one that every relation closed under the     *)
(* steps of the sort relates it to.                                        *)
(***************************************************************************)
IsRun(f, S) == f = [s \in S |-> IF SortDone(s) THEN s ELSE f[SortStep(s)]]

ClosedUnderSteps(G, S) ==
  /\ \A s \in S : SortDone(s) => <<s, s>> \in G
  /\ \A s, t \in S : (~SortDone(s) /\ <<SortStep(s), t>> \in G) => <<s, t>> \in G

Ends(s, S) == {t \in S : \A G \in SUBSET (S \X S) : ClosedUnderSteps(G, S) => <<s, t>> \in G}

Pick(T) == CHOOSE t : t \in T

LEMMA EndOfDone ==
  ASSUME NEW S, NEW s \in S, SortDone(s)
  PROVE  Pick(Ends(s, S)) = s
<1> DEFINE G == {st \in S \X S : SortDone(st[1]) => st[2] = st[1]}
<1>1. ClosedUnderSteps(G, S)
  BY DEF ClosedUnderSteps
<1>2. G \in SUBSET (S \X S)
  OBVIOUS
<1>3. \A t \in Ends(s, S) : <<s, t>> \in G
  BY <1>1, <1>2 DEF Ends
<1>4. \A t \in Ends(s, S) : t = s
  BY <1>3 DEF Ends
<1>5. s \in Ends(s, S)
  BY DEF Ends, ClosedUnderSteps
<1>6. Ends(s, S) = {s}
  BY <1>4, <1>5
<1> QED
  BY <1>6 DEF Pick

LEMMA EndOfStep ==
  ASSUME NEW S, NEW s \in S, ~SortDone(s), SortStep(s) \in S
  PROVE  Ends(s, S) = Ends(SortStep(s), S)
<1>1. ASSUME NEW t \in Ends(SortStep(s), S)
      PROVE  t \in Ends(s, S)
  BY <1>1 DEF Ends, ClosedUnderSteps
<1>2. ASSUME NEW t \in Ends(s, S), NEW G \in SUBSET (S \X S), ClosedUnderSteps(G, S)
      PROVE  <<SortStep(s), t>> \in G
  <2> DEFINE H == {st \in G : SortDone(st[1]) \/ <<SortStep(st[1]), st[2]>> \in G}
  <2>1. ClosedUnderSteps(H, S)
    BY <1>2 DEF ClosedUnderSteps
  <2>2. H \in SUBSET (S \X S)
    BY <1>2
  <2>3. <<s, t>> \in H
    BY <1>2, <2>1, <2>2 DEF Ends
  <2> QED
    BY <2>3
<1>3. ASSUME NEW t \in Ends(s, S)
      PROVE  t \in Ends(SortStep(s), S)
  BY <1>2, <1>3 DEF Ends
<1> QED
  BY <1>1, <1>3

LEMMA RunExists ==
  ASSUME NEW S, \A s \in S : ~SortDone(s) => SortStep(s) \in S
  PROVE  \E f : IsRun(f, S)
<1> DEFINE f == [s \in S |-> Pick(Ends(s, S))]
<1>1. ASSUME NEW s \in S
      PROVE  f[s] = IF SortDone(s) THEN s ELSE f[SortStep(s)]
  <2>1. CASE SortDone(s)
    BY <2>1, EndOfDone
  <2>2. CASE ~SortDone(s)
    BY <2>2, EndOfStep
  <2> QED
    BY <2>1, <2>2
<1>2. f = [s \in S |-> IF SortDone(s) THEN s ELSE f[SortStep(s)]]
  BY <1>1
<1>3. IsRun(f, S)
  BY <1>2 DEF IsRun
<1> QED
  BY <1>3

LEMMA SortRuns ==
  ASSUME NEW keys, NEW deps,
         \E f : IsRun(f, SortState(DOMAIN deps))
  PROVE  \E f : /\ IsRun(f, SortState(DOMAIN deps))
               /\ SortResult(keys, deps) = f[SortStart(keys, deps)]
<1> DEFINE f == CHOOSE run : IsRun(run, SortState(DOMAIN deps))
<1>1. IsRun(f, SortState(DOMAIN deps))
  BY Zenon
<1>2. SortResult(keys, deps) = f[SortStart(keys, deps)]
  BY Zenon DEF SortResult, IsRun
<1> QED
  BY Zenon, <1>1, <1>2

-----------------------------------------------------------------------------
(***************************************************************************)
(* The sequences the sort builds.                                          *)
(***************************************************************************)
\* A sequence is its head and its tail.
LEMMA TailOf ==
  ASSUME NEW S, NEW q \in Seq(S), q # <<>>
  PROVE  /\ Head(q) \in S /\ Tail(q) \in Seq(S)
         /\ Len(Tail(q)) = Len(q) - 1
         /\ Range(q) = {Head(q)} \cup Range(Tail(q))
<1>1. /\ Len(q) \in Nat \ {0} /\ DOMAIN q = 1 .. Len(q) /\ Head(q) = q[1]
      /\ DOMAIN Tail(q) = 1 .. Len(q) - 1
      /\ \A i \in 1 .. Len(q) - 1 : Tail(q)[i] = q[i+1]
  BY EmptySeq
<1>2. Range(q) \subseteq {Head(q)} \cup Range(Tail(q))
  <2>1. ASSUME NEW i \in DOMAIN q, i # 1
        PROVE  i - 1 \in DOMAIN Tail(q) /\ Tail(q)[i-1] = q[i]
    BY <1>1, <2>1
  <2> QED
    BY <1>1, <2>1 DEF Range
<1>3. {Head(q)} \cup Range(Tail(q)) \subseteq Range(q)
  BY <1>1 DEF Range
<1> QED
  BY <1>1, <1>2, <1>3

\* A sequence is its front and its last element.
LEMMA FrontOf ==
  ASSUME NEW S, NEW q \in Seq(S), q # <<>>
  PROVE  /\ Last(q) = q[Len(q)] /\ Last(q) \in S /\ Len(q) \in Nat \ {0}
         /\ Front(q) \in Seq(S)
         /\ Len(Front(q)) = Len(q) - 1
         /\ \A i \in 1 .. Len(q) - 1 : Front(q)[i] = q[i]
<1>1. Len(q) \in Nat \ {0}
  BY EmptySeq
<1>2. \A i \in 1 .. Len(q) - 1 : q[i] \in S
  BY <1>1
<1> DEFINE f == SubSeq(q, 1, Len(q) - 1)
<1>3. /\ f \in Seq(S)
      /\ Len(f) = IF 1 <= Len(q) - 1 THEN (Len(q) - 1) - 1 + 1 ELSE 0
      /\ \A i \in 1 .. (Len(q) - 1) - 1 + 1 : f[i] = q[1 + i - 1]
  BY ONLY <1>1, <1>2, SubSeqProperties
<1>4. Len(f) = Len(q) - 1 /\ \A i \in 1 .. Len(q) - 1 : f[i] = q[i]
  <2> HIDE DEF f
  <2>1. Len(f) = Len(q) - 1
    <3> DEFINE n == Len(q)
    <3>1. n \in Nat /\ n # 0 /\ Len(f) = IF 1 <= n - 1 THEN (n - 1) - 1 + 1 ELSE 0
      BY <1>1, <1>3
    <3> HIDE DEF n
    <3>2. Len(f) = n - 1
      BY <3>1
    <3> QED
      BY <3>2 DEF n
  <2>2. ASSUME NEW i \in 1 .. Len(q) - 1
        PROVE  f[i] = q[i]
    <3>1. i \in 1 .. (Len(q) - 1) - 1 + 1 /\ 1 + i - 1 = i
      BY <1>1
    <3> QED
      BY <1>3, <3>1
  <2> QED
    BY <2>1, <2>2
<1>5. Front(q) = f /\ Last(q) = q[Len(q)]
  BY DEF Last, Front
<1>6. q[Len(q)] \in S
  BY <1>1
<1> HIDE DEF f
<1> QED
  BY <1>1, <1>3, <1>4, <1>5, <1>6

\* What Append adds.
LEMMA AppendTo ==
  ASSUME NEW S, NEW q \in Seq(S), NEW x \in S
  PROVE  /\ Append(q, x) \in Seq(S)
         /\ Len(q) \in Nat
         /\ Len(Append(q, x)) = Len(q) + 1
         /\ \A i \in 1 .. Len(q) : Append(q, x)[i] = q[i]
         /\ Append(q, x)[Len(q) + 1] = x
         /\ Range(Append(q, x)) = Range(q) \cup {x}
<1>1. /\ Append(q, x) \in Seq(S)
      /\ Len(q) \in Nat
      /\ Len(Append(q, x)) = Len(q) + 1
      /\ \A i \in 1 .. Len(q) : Append(q, x)[i] = q[i]
      /\ Append(q, x)[Len(q) + 1] = x
  OBVIOUS
<1>2. DOMAIN q = 1 .. Len(q) /\ DOMAIN Append(q, x) = 1 .. Len(q) + 1
  BY <1>1
<1>3. ASSUME NEW i \in 1 .. Len(q) + 1
      PROVE  i \in 1 .. Len(q) \/ i = Len(q) + 1
  BY <1>1
<1>4. Range(Append(q, x)) = Range(q) \cup {x}
  BY <1>1, <1>2, <1>3 DEF Range
<1> QED
  BY <1>1, <1>4

\* The elements of a prefix.
LEMMA PrefixOf ==
  ASSUME NEW S, NEW q \in Seq(S), NEW i \in 1 .. Len(q)
  PROVE  Range(SubSeq(q, 1, i-1)) = {q[j] : j \in 1 .. i-1}
<1>1. \A j \in 1 .. i-1 : q[j] \in S
  OBVIOUS
<1> DEFINE f == SubSeq(q, 1, i-1)
<1>2. /\ f \in Seq(S)
      /\ Len(f) = IF 1 <= i - 1 THEN (i - 1) - 1 + 1 ELSE 0
      /\ \A j \in 1 .. (i - 1) - 1 + 1 : f[j] = q[1 + j - 1]
  BY <1>1, SubSeqProperties
<1>3. DOMAIN f = 1 .. i-1 /\ \A j \in 1 .. i-1 : f[j] = q[j]
  BY <1>2
<1> HIDE DEF f
<1>4. Range(f) = {q[j] : j \in 1 .. i-1}
  BY <1>3 DEF Range
<1> QED
  BY <1>4 DEF f

\* The order respects the dependencies when each one has an earlier place.
Earlier(q, deps) ==
  \A i \in 1 .. Len(q) : \A d \in Range(deps[q[i]]) : \E j \in 1 .. i-1 : q[j] = d

LEMMA Respects ==
  ASSUME NEW R, NEW deps, NEW q \in Seq(R)
  PROVE  RespectsDependencies(q, deps) <=> Earlier(q, deps)
<1>1. DOMAIN q = 1 .. Len(q)
  OBVIOUS
<1>2. \A i \in 1 .. Len(q) : Range(SubSeq(q, 1, i-1)) = {q[j] : j \in 1 .. i-1}
  BY PrefixOf
<1>3. RespectsDependencies(q, deps)
        <=> \A i \in 1 .. Len(q) : Range(deps[q[i]]) \subseteq {q[j] : j \in 1 .. i-1}
  BY <1>1, <1>2, Zenon DEF RespectsDependencies
<1> QED
  BY <1>3 DEF Earlier

-----------------------------------------------------------------------------
(***************************************************************************)
(* The sort keeps its invariant.                                           *)
(***************************************************************************)
\* The lists a sort starts from: the roles of a group, each with dependencies
\* among them, and the names in some order.
SortInput(keys, deps) ==
  /\ deps \in [DOMAIN deps -> Seq(DOMAIN deps)]
  /\ keys \in Seq(DOMAIN deps)
  /\ Range(keys) = DOMAIN deps

\* The sort starts with the invariant: no visit is in progress.
LEMMA StartInv ==
  ASSUME NEW keys, NEW deps, SortInput(keys, deps)
  PROVE  SortInv(SortStart(keys, deps), deps)
<1> DEFINE s == SortStart(keys, deps)
<1>1. /\ s.todo = keys /\ s.path = <<>> /\ s.rest = deps
      /\ s.completed = {} /\ s.order = <<>> /\ s.cycle = FALSE
  BY DEF SortStart
<1>2. s \in SortState(DOMAIN deps)
  BY DEF SortStart, SortState, SortInput
<1>3. \A e \in {<<>>} : DOMAIN e = {} /\ Len(e) = 0 /\ Range(e) = {}
  BY DEF Range
<1> HIDE DEF s
<1>4. Chained(s, deps) /\ Open(s)
  BY <1>1, <1>3 DEF Chained, Open, IsInjective
<1>5. Accounted(s, deps)
  BY <1>1 DEF Accounted
<1>6. Listed(s, deps)
  BY <1>1, <1>3 DEF Listed, IsInjective, RespectsDependencies
<1>7. Reached(s, deps) /\ CycleFound(s, deps)
  BY <1>1 DEF Reached, CycleFound, SortInput
<1> QED
  BY <1>2, <1>4, <1>5, <1>6, <1>7 DEF SortInv, s

\* The outer loop enters a visit, or passes over a role that is completed.
LEMMA NextKeyInv ==
  ASSUME NEW s, NEW deps, SortInv(s, deps), s.path = <<>>, s.todo # <<>>
  PROVE  SortInv(NextKey(s), deps)
<1> DEFINE R == DOMAIN deps
           r == Head(s.todo)
           t == NextKey(s)
<1>1. /\ s.todo \in Seq(R) /\ s.rest \in [R -> Seq(R)] /\ s.completed \in SUBSET R
      /\ s.order \in Seq(R) /\ s.cycle \in BOOLEAN /\ s \in SortState(R)
  BY DEF SortInv, SortState
<1>2. /\ t.todo = Tail(s.todo) /\ t.path = (IF r \in s.completed THEN <<>> ELSE <<r>>)
      /\ t.rest = s.rest /\ t.completed = s.completed /\ t.order = s.order
      /\ t.cycle = s.cycle
  BY <1>1 DEF NextKey, SortState
<1>3. r \in R /\ Tail(s.todo) \in Seq(R) /\ Range(s.todo) = {r} \cup Range(Tail(s.todo))
  BY <1>1, TailOf
<1>4. t \in SortState(R)
  <2>1. s.path \in Seq(R) /\ <<r>> \in Seq(R)
    BY <1>1, <1>3 DEF SortState
  <2>2. \A p \in Seq(R), q \in Seq(R) : [s EXCEPT !.todo = q, !.path = p] \in SortState(R)
    BY <1>1 DEF SortState
  <2> QED
    BY <1>3, <2>1, <2>2 DEF NextKey
<1>5. /\ \A e \in {<<>>} : DOMAIN e = {} /\ Len(e) = 0 /\ Range(e) = {}
      /\ \A e \in {<<r>>} : DOMAIN e = {1} /\ Len(e) = 1 /\ e[1] = r /\ Range(e) = {r}
  BY DEF Range
<1>6. \/ t.path = <<>> /\ r \in s.completed
      \/ t.path = <<r>> /\ r \notin s.completed
  BY <1>2
<1> HIDE DEF t, r
<1>7. Chained(t, deps)
  BY <1>5, <1>6 DEF Chained, IsInjective
<1>8. Open(t)
  BY <1>2, <1>5, <1>6 DEF Open
<1>9. Accounted(t, deps)
  <2>1. \A x \in R : \A d \in Range(deps[x]) : d \in Range(s.rest[x]) \/ d \in s.completed
    BY <1>5 DEF SortInv, Accounted
  <2> QED
    BY <1>2, <2>1 DEF SortInv, Accounted
<1>10. Listed(t, deps)
  BY <1>2 DEF SortInv, Listed
<1>11. Reached(t, deps)
  BY <1>2, <1>3, <1>5, <1>6 DEF SortInv, Reached
<1>12. CycleFound(t, deps)
  BY <1>2 DEF SortInv, CycleFound
<1> QED
  BY <1>4, <1>7, <1>8, <1>9, <1>10, <1>11, <1>12 DEF SortInv, t

\* A visit that has seen its dependencies ends: they are all completed.
LEMMA CompleteInv ==
  ASSUME NEW s, NEW deps, SortInv(s, deps), s.path # <<>>, s.rest[Last(s.path)] = <<>>
  PROVE  SortInv(Complete(s), deps)
<1> DEFINE R == DOMAIN deps
           r == Last(s.path)
           n == Len(s.path)
           t == Complete(s)
<1>1. /\ s.todo \in Seq(R) /\ s.path \in Seq(R) /\ s.rest \in [R -> Seq(R)]
      /\ s.completed \in SUBSET R /\ s.order \in Seq(R) /\ s.cycle \in BOOLEAN
      /\ s \in SortState(R)
  BY DEF SortInv, SortState
<1>2. /\ t.todo = s.todo /\ t.path = Front(s.path) /\ t.rest = s.rest
      /\ t.completed = s.completed \cup {r} /\ t.order = Append(s.order, r)
      /\ t.cycle = s.cycle
  BY <1>1 DEF Complete, SortState
<1>3. /\ r = s.path[n] /\ r \in R /\ n \in Nat \ {0} /\ Front(s.path) \in Seq(R)
      /\ Len(Front(s.path)) = n - 1
      /\ \A i \in 1 .. n - 1 : Front(s.path)[i] = s.path[i]
      /\ DOMAIN s.path = 1 .. n /\ DOMAIN Front(s.path) = 1 .. n - 1
  <2>1. s.path \in Seq(R) /\ s.path # <<>>
    BY <1>1
  <2>2. /\ r = s.path[n] /\ r \in R /\ n \in Nat \ {0} /\ Front(s.path) \in Seq(R)
        /\ Len(Front(s.path)) = n - 1
        /\ \A i \in 1 .. n - 1 : Front(s.path)[i] = s.path[i]
    BY Zenon, <2>1, FrontOf
  <2>3. DOMAIN s.path = 1 .. n /\ DOMAIN Front(s.path) = 1 .. Len(Front(s.path))
    BY <2>1, <2>2
  <2> QED
    BY Zenon, <2>2, <2>3
<1>4. /\ Append(s.order, r) \in Seq(R)
      /\ Len(s.order) \in Nat
      /\ Len(Append(s.order, r)) = Len(s.order) + 1
      /\ \A i \in 1 .. Len(s.order) : Append(s.order, r)[i] = s.order[i]
      /\ Append(s.order, r)[Len(s.order) + 1] = r
      /\ Range(Append(s.order, r)) = Range(s.order) \cup {r}
      /\ DOMAIN s.order = 1 .. Len(s.order)
      /\ DOMAIN Append(s.order, r) = 1 .. Len(s.order) + 1
  BY <1>1, <1>3, AppendTo
<1>5. t \in SortState(R)
  BY <1>1, <1>3, <1>4 DEF Complete, SortState
<1>6. Range(s.path) = {r} \cup Range(Front(s.path))
  <2>1. \A i \in 1 .. n : i = n \/ i \in 1 .. n - 1
    BY <1>3
  <2> HIDE DEF n, r
  <2> QED
    BY <1>3, <2>1 DEF Range
<1>7. r \notin s.completed
  BY <1>3 DEF SortInv, Open
<1>8. ASSUME NEW i \in 1 .. n - 1
      PROVE  s.path[i] # r
  <2>1. i \in 1 .. n /\ n \in 1 .. n /\ i # n
    BY <1>3
  <2>2. IsInjective(s.path)
    BY DEF SortInv, Chained
  <2> HIDE DEF n, r
  <2> QED
    BY <1>3, <2>1, <2>2 DEF IsInjective
<1>9. Range(deps[r]) \subseteq s.completed
  <2>1. s.rest[r] = <<>> /\ Range(s.rest[r]) = {}
    BY DEF Range
  <2> QED
    BY <1>3, <1>8, <2>1 DEF SortInv, Accounted
<1>10. Range(s.order) = s.completed
  BY DEF SortInv, Listed
<1>17. Earlier(s.order, deps)
  <2>1. s.order \in Seq(R)
    BY <1>1
  <2>2. RespectsDependencies(s.order, deps)
    BY DEF SortInv, Listed
  <2> QED
    BY <2>1, <2>2, Respects
<1> HIDE DEF t, r, n
<1>11. Chained(t, deps)
  <2>1. IsInjective(t.path)
    BY <1>2, <1>3 DEF SortInv, Chained, IsInjective
  <2>2. ASSUME NEW i \in 1 .. Len(t.path) - 1
        PROVE  t.path[i+1] \in Range(deps[t.path[i]])
    <3>1. i \in 1 .. n - 1 /\ i + 1 \in 1 .. n - 1 /\ i \in 1 .. Len(s.path) - 1
      BY <1>2, <1>3 DEF n
    <3> QED
      BY <1>2, <1>3, <3>1 DEF SortInv, Chained
  <2> QED
    BY <2>1, <2>2 DEF Chained
<1>12. Open(t)
  <2>1. ASSUME NEW i \in 1 .. Len(t.path)
        PROVE  t.path[i] \notin t.completed
    <3>1. i \in 1 .. n - 1 /\ i \in 1 .. Len(s.path)
      BY <1>2, <1>3 DEF n
    <3> QED
      BY <1>2, <1>3, <1>8, <3>1 DEF SortInv, Open
  <2> QED
    BY <2>1 DEF Open
<1>13. Accounted(t, deps)
  <2>1. ASSUME NEW x \in R, NEW d \in Range(deps[x]),
               NEW i \in 1 .. Len(s.path) - 1, s.path[i] = x, s.path[i+1] = d
        PROVE  d \in t.completed \/ \E j \in 1 .. Len(t.path) - 1 : t.path[j] = x /\ t.path[j+1] = d
    <3>1. CASE i = n - 1
      <4>1. i + 1 = n
        BY <1>3, <3>1
      <4> QED
        BY <1>2, <1>3, <2>1, <4>1
    <3>2. CASE i # n - 1
      <4>1. i \in 1 .. n - 1 /\ i + 1 \in 1 .. n - 1 /\ i \in 1 .. Len(t.path) - 1
        BY <1>2, <1>3, <3>2 DEF n
      <4> QED
        BY <1>2, <1>3, <2>1, <4>1
    <3> QED
      BY <3>1, <3>2
  <2> QED
    BY <1>2, <2>1 DEF SortInv, Accounted
<1>14. Listed(t, deps)
  <2>1. IsInjective(t.order)
    <3>1. ASSUME NEW i \in 1 .. Len(s.order) + 1
          PROVE  \/ i = Len(s.order) + 1 /\ t.order[i] = r
                 \/ i \in 1 .. Len(s.order) /\ t.order[i] = s.order[i] /\ t.order[i] # r
      <4>1. i = Len(s.order) + 1 \/ i \in 1 .. Len(s.order)
        BY <1>4
      <4>2. \A j \in 1 .. Len(s.order) : s.order[j] # r
        BY <1>4, <1>7, <1>10 DEF Range
      <4> QED
        BY <1>2, <1>4, <4>1, <4>2
    <3> QED
      BY <1>2, <1>4, <3>1 DEF SortInv, Listed, IsInjective
  <2>2. ASSUME NEW i \in 1 .. Len(t.order), NEW d \in Range(deps[t.order[i]])
        PROVE  \E j \in 1 .. i-1 : t.order[j] = d
    <3>1. CASE i = Len(s.order) + 1
      <4>1. d \in Range(s.order)
        BY <1>2, <1>4, <1>9, <1>10, <2>2, <3>1
      <4>2. PICK j \in 1 .. Len(s.order) : s.order[j] = d
        BY <1>4, <4>1 DEF Range
      <4>3. j \in 1 .. i-1
        BY <1>4, <3>1
      <4> QED
        BY <1>2, <1>4, <4>2, <4>3
    <3>2. CASE i # Len(s.order) + 1
      <4>1. i \in 1 .. Len(s.order) /\ t.order[i] = s.order[i]
        BY <1>2, <1>4, <3>2
      <4>3. PICK j \in 1 .. i-1 : s.order[j] = d
        BY <1>17, <2>2, <4>1 DEF Earlier
      <4>4. j \in 1 .. Len(s.order)
        BY <1>4, <4>1
      <4> QED
        BY <1>2, <1>4, <4>3, <4>4
    <3> QED
      BY <3>1, <3>2
  <2>3. RespectsDependencies(t.order, deps)
    <3>1. t.order \in Seq(R)
      BY <1>2, <1>4
    <3> QED
      BY <2>2, <3>1, Respects DEF Earlier
  <2> QED
    BY <1>2, <1>4, <1>10, <2>1, <2>3 DEF Listed
<1>15. Reached(t, deps)
  BY <1>2, <1>6 DEF SortInv, Reached
<1>16. CycleFound(t, deps)
  BY <1>2 DEF SortInv, CycleFound
<1> QED
  BY <1>5, <1>11, <1>12, <1>13, <1>14, <1>15, <1>16 DEF SortInv, t

\* A visit looks at its next dependency: it closes a cycle, or passes over a
\* completed role, or enters its visit.
LEMMA NextDependencyInv ==
  ASSUME NEW s, NEW deps, SortInv(s, deps), s.path # <<>>, s.rest[Last(s.path)] # <<>>
  PROVE  SortInv(NextDependency(s), deps)
<1> DEFINE R == DOMAIN deps
           r == Last(s.path)
           n == Len(s.path)
           d == Head(s.rest[r])
           t == NextDependency(s)
<1>1. /\ s.todo \in Seq(R) /\ s.path \in Seq(R) /\ s.rest \in [R -> Seq(R)]
      /\ s.completed \in SUBSET R /\ s.order \in Seq(R) /\ s.cycle \in BOOLEAN
      /\ s \in SortState(R)
  BY DEF SortInv, SortState
<1>2. r = s.path[n] /\ r \in R /\ n \in Nat \ {0} /\ DOMAIN s.path = 1 .. n
  <2>1. s.path \in Seq(R)
    BY <1>1
  <2>2. r = s.path[n] /\ r \in R /\ n \in Nat \ {0}
    BY Zenon, <2>1, FrontOf
  <2>3. DOMAIN s.path = 1 .. n
    BY <2>1
  <2> QED
    BY <2>2, <2>3
<1>3. /\ d \in R /\ Tail(s.rest[r]) \in Seq(R)
      /\ Range(s.rest[r]) = {d} \cup Range(Tail(s.rest[r]))
  BY <1>1, <1>2, TailOf
<1>4. d \in Range(deps[r])
  BY <1>2, <1>3 DEF SortInv, Accounted
<1>5. CASE d \in Range(s.path)
  <2>1. /\ t.todo = s.todo /\ t.path = s.path /\ t.rest = s.rest
        /\ t.completed = s.completed /\ t.order = s.order
        /\ t \in SortState(R)
    BY <1>1, <1>5 DEF NextDependency, SortState
  <2>2. PICK k \in 1 .. n : s.path[k] = d
    BY <1>2, <1>5 DEF Range
  <2> DEFINE C == {s.path[i] : i \in k .. n}
  <2>3. C \in SUBSET DOMAIN deps /\ d \in C
    <3>1. \A i \in k .. n : i \in 1 .. n
      BY <1>2, <2>2
    <3>2. k \in k .. n
      BY <1>2, <2>2
    <3>3. \A i \in 1 .. n : s.path[i] \in R
      BY <1>1
    <3> HIDE DEF n
    <3> QED
      BY <2>2, <3>1, <3>2, <3>3
  <2>4. ASSUME NEW i \in k .. n
        PROVE  Range(deps[s.path[i]]) \cap C # {}
    <3>1. CASE i = n
      BY <1>2, <1>4, <2>3, <3>1
    <3>2. CASE i # n
      <4>1. i + 1 \in k .. n /\ i \in 1 .. Len(s.path) - 1
        BY <1>2, <2>2, <3>2
      <4>2. s.path[i+1] \in Range(deps[s.path[i]])
        BY <4>1 DEF SortInv, Chained
      <4> QED
        BY <4>1, <4>2
    <3> QED
      BY <3>1, <3>2
  <2>5. \E K \in SUBSET DOMAIN deps : Cyclic(K, deps)
    <3>1. \A x \in C : Range(deps[x]) \cap C # {}
      BY <2>4
    <3> HIDE DEF C
    <3> QED
      BY <2>3, <3>1 DEF Cyclic
  <2> HIDE DEF t
  <2>6. Chained(t, deps) /\ Open(t) /\ Accounted(t, deps)
    BY <2>1 DEF SortInv, Chained, Open, Accounted
  <2>7. Listed(t, deps) /\ Reached(t, deps)
    BY <2>1 DEF SortInv, Listed, Reached
  <2> QED
    BY <2>1, <2>5, <2>6, <2>7 DEF SortInv, CycleFound, t
<1>6. CASE d \notin Range(s.path)
  <2> DEFINE p == IF d \in s.completed THEN s.path ELSE Append(s.path, d)
  <2>1. /\ Append(s.path, d) \in Seq(R)
        /\ Len(Append(s.path, d)) = n + 1
        /\ \A i \in 1 .. n : Append(s.path, d)[i] = s.path[i]
        /\ Append(s.path, d)[n + 1] = d
        /\ Range(Append(s.path, d)) = Range(s.path) \cup {d}
        /\ DOMAIN Append(s.path, d) = 1 .. n + 1
    BY <1>1, <1>3, AppendTo
  <2>2. t = [s EXCEPT !.rest[r] = Tail(@), !.path = p]
    BY Zenon, <1>6 DEF NextDependency
  <2>3. p \in Seq(R) /\ Tail(s.rest[r]) \in Seq(R) /\ s \in SortState(R) /\ r \in R
    BY <1>1, <1>2, <1>3, <2>1
  <2> DEFINE u == [s.rest EXCEPT ![r] = Tail(@)]
  <2> HIDE DEF p, t, r
  <2>13. /\ t.todo = s.todo /\ t.path = p /\ t.rest = u
         /\ t.completed = s.completed /\ t.order = s.order /\ t.cycle = s.cycle
    BY <2>2, <2>3 DEF SortState
  <2>14. u \in [R -> Seq(R)]
    BY <1>1, <2>3
  <2>15. t = [s EXCEPT !.rest = u, !.path = p]
    BY <2>2, <2>3 DEF SortState
  <2> HIDE DEF u
  <2>16. t \in SortState(R)
    BY <1>1, <2>3, <2>14, <2>15 DEF SortState
  <2>4. /\ t.todo = s.todo /\ t.path = p /\ t.rest = [s.rest EXCEPT ![r] = Tail(@)]
        /\ t.completed = s.completed /\ t.order = s.order /\ t.cycle = s.cycle
        /\ t \in SortState(R)
    BY <2>13, <2>16 DEF u
  <2>5. \/ d \in s.completed /\ p = s.path
        \/ d \notin s.completed /\ p = Append(s.path, d)
    BY DEF p
  <2>17. /\ p = s.path => Len(p) = n
         /\ p = Append(s.path, d) => Len(p) = n + 1
    BY <2>1
  <2>18. n \in Nat /\ n # 0
    BY <1>2
  <2>19. n \in 1 .. n
    BY ONLY <2>18
  <2>6. Range(s.path) \subseteq Range(p) /\ \A i \in 1 .. n : p[i] = s.path[i]
    BY <2>1, <2>5
  <2>7. Chained(t, deps)
    <3>1. CASE p = s.path
      BY <2>4, <3>1 DEF SortInv, Chained
    <3>2. CASE p = Append(s.path, d)
      <4>1. ASSUME NEW i \in 1 .. n + 1
            PROVE  \/ i = n + 1 /\ p[i] = d
                   \/ i \in 1 .. n /\ p[i] = s.path[i] /\ p[i] # d
        <5>1. i = n + 1 \/ i \in 1 .. n
          BY <1>2
        <5>2. \A j \in 1 .. n : s.path[j] # d
          BY <1>2, <1>6 DEF Range
        <5> QED
          BY <2>1, <3>2, <5>1, <5>2
      <4>2. IsInjective(s.path)
        BY DEF SortInv, Chained
      <4>3. IsInjective(p)
        <5> HIDE DEF d, n
        <5> QED
          BY <1>2, <2>1, <3>2, <4>1, <4>2 DEF IsInjective
      <4>4. ASSUME NEW i \in 1 .. Len(p) - 1
            PROVE  p[i+1] \in Range(deps[p[i]])
        <5>1. CASE i = n
          <6>1. p[n] = r /\ p[n + 1] = d
            BY ONLY <1>2, <2>1, <3>2, <2>19
          <6> QED
            BY <1>4, <5>1, <6>1
        <5>2. CASE i # n
          <6>1. i \in 1 .. Len(s.path) - 1 /\ i \in 1 .. n /\ i + 1 \in 1 .. n
            BY ONLY <2>17, <2>18, <3>2, <5>2, i \in 1 .. Len(p) - 1
          <6>2. s.path[i+1] \in Range(deps[s.path[i]])
            BY <6>1 DEF SortInv, Chained
          <6> QED
            BY <2>6, <6>1, <6>2
        <5> QED
          BY <5>1, <5>2
      <4> QED
        BY <2>4, <4>3, <4>4 DEF Chained
    <3> QED
      BY <2>5, <3>1, <3>2
  <2>8. Open(t)
    <3>1. ASSUME NEW i \in 1 .. Len(p)
          PROVE  p[i] \notin s.completed
      <4>1. \A j \in 1 .. n : s.path[j] \notin s.completed
        BY DEF SortInv, Open
      <4>2. CASE p = s.path
        BY <4>1, <4>2
      <4>3. CASE p = Append(s.path, d) /\ d \notin s.completed
        <5>1. i = n + 1 \/ i \in 1 .. n
          BY ONLY <2>17, <2>18, <4>3, i \in 1 .. Len(p)
        <5> QED
          BY <2>1, <4>1, <4>3, <5>1
      <4> QED
        BY <2>5, <4>2, <4>3
    <3> QED
      BY <2>4, <3>1 DEF Open
  <2>9. Accounted(t, deps)
    <3>1. ASSUME NEW x \in R
          PROVE  Range(t.rest[x]) \subseteq Range(deps[x])
      BY <1>1, <1>2, <1>3, <2>4 DEF SortInv, Accounted
    <3>2. ASSUME NEW x \in R, NEW e \in Range(deps[x])
          PROVE  \/ e \in Range(t.rest[x])
                 \/ e \in t.completed
                 \/ \E i \in 1 .. Len(t.path) - 1 : t.path[i] = x /\ t.path[i+1] = e
      <4>1. CASE \E i \in 1 .. Len(s.path) - 1 : s.path[i] = x /\ s.path[i+1] = e
        <5>1. PICK i \in 1 .. Len(s.path) - 1 : s.path[i] = x /\ s.path[i+1] = e
          BY <4>1
        <5>2. i \in 1 .. n /\ i + 1 \in 1 .. n /\ i \in 1 .. Len(p) - 1
          BY ONLY <2>17, <2>18, <2>5, i \in 1 .. Len(s.path) - 1
        <5> QED
          BY <2>4, <2>6, <5>1, <5>2
      <4>2. CASE e \in s.completed
        BY <2>4, <4>2
      <4>3. CASE e \in Range(s.rest[x]) /\ e \notin Range(t.rest[x]) /\ e \notin s.completed
        <5>1. x = r /\ e = d
          BY <1>1, <1>2, <1>3, <2>4, <4>3
        <5>2. p = Append(s.path, d)
          BY <2>5, <4>3, <5>1
        <5>3. p[n] = r /\ p[n + 1] = d
          BY ONLY <1>2, <2>1, <2>19, <5>2
        <5>4. n \in 1 .. Len(p) - 1
          BY ONLY <2>17, <2>18, <5>2
        <5> QED
          BY <2>4, <5>1, <5>3, <5>4
      <4> QED
        BY <4>1, <4>2, <4>3 DEF SortInv, Accounted
    <3> QED
      BY <3>1, <3>2 DEF Accounted
  <2>10. Listed(t, deps)
    BY <2>4 DEF SortInv, Listed
  <2>11. Reached(t, deps)
    BY <2>4, <2>6 DEF SortInv, Reached
  <2>12. CycleFound(t, deps)
    BY <2>4 DEF SortInv, CycleFound
  <2> QED
    BY <2>4, <2>7, <2>8, <2>9, <2>10, <2>11, <2>12 DEF SortInv, t
<1> QED
  BY <1>5, <1>6

\* Every step of a sort that is not done keeps the invariant.
LEMMA StepInv ==
  ASSUME NEW s, NEW deps, SortInv(s, deps), ~SortDone(s)
  PROVE  SortInv(SortStep(s), deps)
<1>1. CASE s.path = <<>>
  BY <1>1, NextKeyInv DEF SortStep, SortDone
<1>2. CASE s.path # <<>> /\ s.rest[Last(s.path)] = <<>>
  BY <1>2, CompleteInv DEF SortStep
<1>3. CASE s.path # <<>> /\ s.rest[Last(s.path)] # <<>>
  BY <1>3, NextDependencyInv DEF SortStep
<1> QED
  BY <1>1, <1>2, <1>3

\* A step of the sort leads from a state to a state, whatever the state.
LEMMA StepType ==
  ASSUME NEW R, NEW s \in SortState(R), ~SortDone(s)
  PROVE  SortStep(s) \in SortState(R)
<1>1. /\ s.todo \in Seq(R) /\ s.path \in Seq(R) /\ s.rest \in [R -> Seq(R)]
      /\ s.completed \in SUBSET R /\ s.order \in Seq(R)
  BY DEF SortState
<1>2. CASE s.path = <<>>
  <2> DEFINE r == Head(s.todo)
  <2>1. s.todo # <<>>
    BY <1>2 DEF SortDone
  <2>2. r \in R /\ Tail(s.todo) \in Seq(R)
    BY <1>1, <2>1, TailOf
  <2>3. <<r>> \in Seq(R)
    BY <2>2
  <2>4. \A p, q \in Seq(R) : [s EXCEPT !.todo = q, !.path = p] \in SortState(R)
    BY DEF SortState
  <2>5. NextKey(s) \in SortState(R)
    BY <1>1, <2>2, <2>3, <2>4 DEF NextKey
  <2> QED
    BY <1>2, <2>5 DEF SortStep
<1>3. CASE s.path # <<>>
  <2> DEFINE r == Last(s.path)
             d == Head(s.rest[r])
  <2>1. r \in R /\ Front(s.path) \in Seq(R)
    BY Zenon, <1>1, <1>3, FrontOf
  <2>2. ASSUME s.rest[r] = <<>>
        PROVE  Complete(s) \in SortState(R)
    <3>1. Append(s.order, r) \in Seq(R) /\ s.completed \cup {r} \in SUBSET R
      BY <1>1, <2>1
    <3> QED
      BY <2>1, <3>1 DEF Complete, SortState
  <2>3. ASSUME s.rest[r] # <<>>
        PROVE  NextDependency(s) \in SortState(R)
    <3>1. s.rest[r] \in Seq(R)
      BY <1>1, <2>1
    <3>2. d \in R /\ Tail(s.rest[r]) \in Seq(R)
      BY <2>3, <3>1, TailOf
    <3>3. [s EXCEPT !.cycle = TRUE] \in SortState(R)
      BY DEF SortState
    <3>4. ASSUME NEW p \in Seq(R), NEW q \in Seq(R)
          PROVE  [s EXCEPT !.rest[r] = q, !.path = p] \in SortState(R)
      <4> DEFINE u == [s.rest EXCEPT ![r] = q]
      <4>1. u \in [R -> Seq(R)]
        BY <1>1, <2>1
      <4>2. [s EXCEPT !.rest[r] = q, !.path = p] = [s EXCEPT !.rest = u, !.path = p]
        BY <2>1 DEF SortState
      <4> HIDE DEF u
      <4> QED
        BY <4>1, <4>2 DEF SortState
    <3>5. CASE d \in Range(s.path)
      BY Zenon, <3>3, <3>5 DEF NextDependency
    <3>6. CASE d \notin Range(s.path)
      <4> DEFINE p == IF d \in s.completed THEN s.path ELSE Append(s.path, d)
      <4>1. p \in Seq(R)
        BY <1>1, <3>2
      <4>2. NextDependency(s) = [s EXCEPT !.rest[r] = Tail(@), !.path = p]
        BY Zenon, <3>6 DEF NextDependency
      <4> HIDE DEF p, r
      <4> QED
        BY <3>2, <3>4, <4>1, <4>2
    <3> QED
      BY <3>5, <3>6
  <2> QED
    BY <1>3, <2>2, <2>3 DEF SortStep
<1> QED
  BY <1>2, <1>3

-----------------------------------------------------------------------------
(***************************************************************************)
(* The sort comes to an end.                                               *)
(***************************************************************************)
\* What is left to do in a state, as a finite set that every step shrinks.
TodoLeft(s) == {<<"todo", "todo">>} \X (1 .. Len(s.todo))
RestLeft(s, R) == UNION {({"rest"} \X {r}) \X (1 .. Len(s.rest[r])) : r \in R}
OpenLeft(s, R) == ({"open"} \X (R \ s.completed)) \X {0}
GoingLeft(s) == IF s.cycle THEN {} ELSE {<<<<"going", "going">>, 0>>}

Remaining(s, R) == TodoLeft(s) \cup RestLeft(s, R) \cup OpenLeft(s, R) \cup GoingLeft(s)

\* The measure of a state is a finite set, when the roles are finitely many.
LEMMA RemainingFinite ==
  ASSUME NEW R, IsFiniteSet(R), NEW s \in SortState(R)
  PROVE  IsFiniteSet(Remaining(s, R))
<1>1. /\ Len(s.todo) \in Nat
      /\ \A r \in R : Len(s.rest[r]) \in Nat
  BY DEF SortState
<1>2. IsFiniteSet({0}) /\ IsFiniteSet({"open"}) /\ IsFiniteSet({<<"todo", "todo">>})
  BY FS_Singleton
<1>3. IsFiniteSet(TodoLeft(s))
  <2>1. IsFiniteSet(1 .. Len(s.todo))
    BY <1>1, FS_Interval
  <2> QED
    BY <1>2, <2>1, FS_Product DEF TodoLeft
<1>4. IsFiniteSet(OpenLeft(s, R))
  <2>1. IsFiniteSet(R \ s.completed)
    BY FS_Subset
  <2>2. IsFiniteSet({"open"} \X (R \ s.completed))
    BY <1>2, <2>1, FS_Product
  <2> QED
    BY <1>2, <2>2, FS_Product DEF OpenLeft
<1>5. IsFiniteSet(GoingLeft(s))
  BY FS_Singleton, FS_EmptySet DEF GoingLeft
<1>6. IsFiniteSet(RestLeft(s, R))
  <2> DEFINE w == [r \in R |-> ({"rest"} \X {r}) \X (1 .. Len(s.rest[r]))]
             W == {({"rest"} \X {r}) \X (1 .. Len(s.rest[r])) : r \in R}
  <2>1. w \in Surjection(R, W)
    BY DEF Surjection
  <2>2. IsFiniteSet(W)
    BY ONLY <2>1, IsFiniteSet(R), FS_Surjection
  <2>3. ASSUME NEW r \in R
        PROVE  IsFiniteSet(({"rest"} \X {r}) \X (1 .. Len(s.rest[r])))
    <3>1. IsFiniteSet(1 .. Len(s.rest[r]))
      <4>1. 1 \in Int /\ Len(s.rest[r]) \in Int
        BY <1>1
      <4> QED
        BY ONLY <4>1, FS_Interval
    <3>2. IsFiniteSet({"rest"} \X {r})
      BY FS_Singleton, FS_Product
    <3> QED
      BY ONLY <3>1, <3>2, FS_Product
  <2>4. \A T \in W : IsFiniteSet(T)
    BY <2>3
  <2> HIDE DEF W
  <2>5. IsFiniteSet(UNION W)
    BY ONLY <2>2, <2>4, FS_UNION
  <2> QED
    BY <2>5 DEF RestLeft, W
<1> HIDE DEF TodoLeft, RestLeft, OpenLeft, GoingLeft
<1> QED
  BY <1>3, <1>4, <1>5, <1>6, FS_Union DEF Remaining

\* A sequence loses an element, a set grows, or the flag is set: each shrinks
\* the measure.
LEMMA RemainingShrinks ==
  ASSUME NEW R, NEW s \in SortState(R), NEW t \in SortState(R),
         Len(t.todo) <= Len(s.todo),
         \A r \in R : Len(t.rest[r]) <= Len(s.rest[r]),
         s.completed \subseteq t.completed,
         s.cycle => t.cycle,
         \/ Len(t.todo) < Len(s.todo)
         \/ \E r \in R : Len(t.rest[r]) < Len(s.rest[r])
         \/ s.completed # t.completed
         \/ ~s.cycle /\ t.cycle
  PROVE  Remaining(t, R) \subseteq Remaining(s, R) /\ Remaining(t, R) # Remaining(s, R)
<1>1. /\ Len(s.todo) \in Nat /\ Len(t.todo) \in Nat
      /\ \A r \in R : Len(s.rest[r]) \in Nat /\ Len(t.rest[r]) \in Nat
      /\ s.completed \in SUBSET R /\ t.completed \in SUBSET R
  BY DEF SortState
<1>2. TodoLeft(t) \subseteq TodoLeft(s)
  BY <1>1 DEF TodoLeft
<1>3. RestLeft(t, R) \subseteq RestLeft(s, R)
  <2>1. ASSUME NEW r \in R
        PROVE  ({"rest"} \X {r}) \X (1 .. Len(t.rest[r])) \subseteq ({"rest"} \X {r}) \X (1 .. Len(s.rest[r]))
    <3>1. 1 .. Len(t.rest[r]) \subseteq 1 .. Len(s.rest[r])
      BY <1>1
    <3> QED
      BY <3>1
  <2>2. ASSUME NEW x \in RestLeft(t, R)
        PROVE  x \in RestLeft(s, R)
    <3>1. PICK r \in R : x \in ({"rest"} \X {r}) \X (1 .. Len(t.rest[r]))
      BY Zenon DEF RestLeft
    <3>2. x \in ({"rest"} \X {r}) \X (1 .. Len(s.rest[r]))
      BY Zenon, <2>1, <3>1
    <3> QED
      BY Zenon, <3>2 DEF RestLeft
  <2> QED
    BY <2>2
<1>4. OpenLeft(t, R) \subseteq OpenLeft(s, R)
  BY DEF OpenLeft
<1>5. GoingLeft(t) \subseteq GoingLeft(s)
  BY DEF GoingLeft
<1>6. \A x \in RestLeft(t, R) : \E r \in R : \E i \in 1 .. Len(t.rest[r]) : x = << <<"rest", r>>, i >>
  BY DEF RestLeft
<1>7. /\ \A x \in TodoLeft(t) : x[1][1] = "todo" /\ x[2] \in 1 .. Len(t.todo)
      /\ \A x \in OpenLeft(t, R) : x[1][1] = "open" /\ x[1][2] \notin t.completed
      /\ \A x \in GoingLeft(t) : x[1][1] = "going" /\ ~t.cycle
      /\ \A x \in RestLeft(t, R) : x[1][1] = "rest" /\ x[2] \in 1 .. Len(t.rest[x[1][2]])
  BY <1>6 DEF TodoLeft, OpenLeft, GoingLeft
<1>8. \E x \in Remaining(s, R) : x \notin Remaining(t, R)
  <2>1. CASE Len(t.todo) < Len(s.todo)
    <3> DEFINE x == << <<"todo", "todo">>, Len(s.todo) >>
    <3>1. x \in TodoLeft(s)
      BY <1>1, <2>1 DEF TodoLeft
    <3>2. x[1][1] = "todo" /\ x[2] \notin 1 .. Len(t.todo)
      BY <1>1, <2>1
    <3> HIDE DEF x
    <3> QED
      BY <1>7, <3>1, <3>2 DEF Remaining
  <2>2. ASSUME NEW r \in R, Len(t.rest[r]) < Len(s.rest[r])
        PROVE  \E x \in Remaining(s, R) : x \notin Remaining(t, R)
    <3> DEFINE x == << <<"rest", r>>, Len(s.rest[r]) >>
    <3>1. x \in RestLeft(s, R)
      <4>1. x \in ({"rest"} \X {r}) \X (1 .. Len(s.rest[r]))
        BY <1>1, <2>2
      <4> QED
        BY ONLY <4>1, r \in R, Zenon DEF RestLeft
    <3>2. x[1][1] = "rest" /\ x[1][2] = r /\ x[2] \notin 1 .. Len(t.rest[r])
      BY <1>1, <2>2
    <3> HIDE DEF x
    <3> QED
      BY <1>7, <3>1, <3>2 DEF Remaining
  <2>3. CASE s.completed # t.completed
    <3>1. PICK r \in t.completed : r \notin s.completed
      BY <2>3
    <3> DEFINE x == << <<"open", r>>, 0 >>
    <3>2. x \in OpenLeft(s, R)
      BY <1>1, <3>1 DEF OpenLeft
    <3>3. x[1][1] = "open" /\ x[1][2] \in t.completed
      BY <3>1
    <3> HIDE DEF x
    <3> QED
      BY <1>7, <3>2, <3>3 DEF Remaining
  <2>4. CASE ~s.cycle /\ t.cycle
    <3> DEFINE x == << <<"going", "going">>, 0 >>
    <3>1. x \in GoingLeft(s)
      BY <2>4 DEF GoingLeft
    <3>2. x[1][1] = "going"
      OBVIOUS
    <3> HIDE DEF x
    <3> QED
      BY <1>7, <2>4, <3>1, <3>2 DEF Remaining
  <2> QED
    BY <2>1, <2>2, <2>3, <2>4
<1> HIDE DEF TodoLeft, RestLeft, OpenLeft, GoingLeft
<1> QED
  BY <1>2, <1>3, <1>4, <1>5, <1>8 DEF Remaining

\* Every step of a sort that is not done shrinks the measure.
LEMMA StepShrinks ==
  ASSUME NEW s, NEW deps, SortInv(s, deps), ~SortDone(s)
  PROVE  LET R == DOMAIN deps
         IN  Remaining(SortStep(s), R) \subseteq Remaining(s, R) /\ Remaining(SortStep(s), R) # Remaining(s, R)
<1> DEFINE R == DOMAIN deps
           t == SortStep(s)
<1>1. /\ s \in SortState(R)
      /\ s.todo \in Seq(R) /\ s.path \in Seq(R) /\ s.rest \in [R -> Seq(R)]
      /\ Len(s.todo) \in Nat /\ \A r \in R : Len(s.rest[r]) \in Nat
      /\ ~s.cycle
  BY DEF SortInv, SortState, SortDone
<1>2. t \in SortState(R)
  BY <1>1, StepType
<1>3. CASE s.path = <<>>
  <2>1. s.todo # <<>>
    BY <1>3 DEF SortDone
  <2>2. t.todo = Tail(s.todo) /\ t.rest = s.rest /\ t.completed = s.completed
    BY <1>1, <1>3 DEF SortStep, NextKey, SortState
  <2>3. Len(t.todo) < Len(s.todo)
    BY <1>1, <2>1, <2>2, TailOf
  <2> HIDE DEF t
  <2>4. /\ Len(t.todo) \in Nat /\ Len(t.todo) <= Len(s.todo)
        /\ \A x \in R : Len(t.rest[x]) <= Len(s.rest[x])
        /\ s.completed \subseteq t.completed
        /\ s.cycle => t.cycle
    BY <1>1, <1>2, <2>2, <2>3 DEF SortState
  <2> QED
    BY ONLY <1>1, <1>2, <2>3, <2>4, RemainingShrinks DEF t
<1>4. CASE s.path # <<>> /\ s.rest[Last(s.path)] = <<>>
  <2> DEFINE r == Last(s.path)
  <2>1. r = s.path[Len(s.path)] /\ Len(s.path) \in Nat \ {0}
    BY Zenon, <1>1, <1>4, FrontOf
  <2>2. t.todo = s.todo /\ t.rest = s.rest /\ t.completed = s.completed \cup {r}
    BY <1>1, <1>4 DEF SortStep, Complete, SortState
  <2>3. r \notin s.completed
    BY <2>1 DEF SortInv, Open
  <2> HIDE DEF t, r
  <2>4. /\ Len(t.todo) <= Len(s.todo)
        /\ \A x \in R : Len(t.rest[x]) <= Len(s.rest[x])
        /\ s.completed \subseteq t.completed /\ s.completed # t.completed
        /\ s.cycle => t.cycle
    BY <1>1, <2>2, <2>3
  <2> QED
    BY ONLY <1>1, <1>2, <2>4, RemainingShrinks DEF t
<1>5. CASE s.path # <<>> /\ s.rest[Last(s.path)] # <<>>
  <2> DEFINE r == Last(s.path)
             d == Head(s.rest[r])
             p == IF d \in s.completed THEN s.path ELSE Append(s.path, d)
  <2>1. r \in R
    BY Zenon, <1>1, <1>5, FrontOf
  <2>2. t = NextDependency(s)
    BY Zenon, <1>5 DEF SortStep
  <2>3. CASE d \in Range(s.path)
    <3>1. t = [s EXCEPT !.cycle = TRUE]
      BY Zenon, <2>2, <2>3 DEF NextDependency
    <3>2. t.todo = s.todo /\ t.rest = s.rest /\ t.completed = s.completed /\ t.cycle
      BY <1>1, <3>1 DEF SortState
    <3> HIDE DEF t
    <3> QED
      BY <1>1, <1>2, <3>2, RemainingShrinks DEF t
  <2>4. CASE d \notin Range(s.path)
    <3>1. t = [s EXCEPT !.rest[r] = Tail(@), !.path = p]
      BY Zenon, <2>2, <2>4 DEF NextDependency
    <3>2. s.rest[r] \in Seq(R) /\ s.rest[r] # <<>>
      BY <1>1, <1>5, <2>1
    <3>3. Len(Tail(s.rest[r])) = Len(s.rest[r]) - 1
      BY <3>2, TailOf
    <3> HIDE DEF t, p, r
    <3>4. /\ t.todo = s.todo /\ t.completed = s.completed /\ t.cycle = s.cycle
          /\ \A x \in R : t.rest[x] = IF x = r THEN Tail(s.rest[r]) ELSE s.rest[x]
      BY <1>1, <2>1, <3>1 DEF SortState
    <3>5. /\ \A x \in R : Len(t.rest[x]) <= Len(s.rest[x])
          /\ Len(t.rest[r]) < Len(s.rest[r])
      <4>1. ASSUME NEW x \in R
            PROVE  Len(t.rest[x]) <= Len(s.rest[x])
        <5>1. CASE x = r
          <6>1. t.rest[x] = Tail(s.rest[r])
            BY <3>4, <5>1
          <6> QED
            BY <1>1, <2>1, <3>3, <5>1, <6>1
        <5>2. CASE x # r
          BY <1>1, <3>4, <5>2
        <5> QED
          BY <5>1, <5>2
      <4>2. t.rest[r] = Tail(s.rest[r]) /\ Len(s.rest[r]) \in Nat
        BY <1>1, <2>1, <3>4
      <4>3. Len(t.rest[r]) < Len(s.rest[r])
        BY ONLY <3>3, <4>2
      <4> QED
        BY <4>1, <4>3
    <3>6. Len(t.todo) <= Len(s.todo)
      BY <1>1, <3>4
    <3> QED
      BY <1>1, <1>2, <2>1, <3>4, <3>5, <3>6, RemainingShrinks DEF t
  <2> QED
    BY <2>3, <2>4
<1> QED
  BY <1>3, <1>4, <1>5

-----------------------------------------------------------------------------
(***************************************************************************)
(* What the sort returns.                                                  *)
(***************************************************************************)
\* From a state with the invariant, the recursion of SortResult ends in a
\* state that is done and has it.
LEMMA RunEnds ==
  ASSUME NEW deps, IsFiniteSet(DOMAIN deps), NEW f, IsRun(f, SortState(DOMAIN deps)),
         NEW s, SortInv(s, deps)
  PROVE  SortDone(f[s]) /\ SortInv(f[s], deps)
<1> DEFINE R == DOMAIN deps
           Good(t) == SortDone(f[t]) /\ SortInv(f[t], deps)
           Bad == {t \in SortState(R) : SortInv(t, deps) /\ ~Good(t)}
           T == {Remaining(t, R) : t \in Bad}
           U == UNION T
<1>1. SUFFICES ASSUME Bad # {} PROVE FALSE
  BY DEF SortInv
<1>2. T # {}
  BY <1>1
<1>3. \A t \in Bad : IsFiniteSet(Remaining(t, R))
  BY RemainingFinite
<1>4. T \subseteq FiniteSubsetsOf(U)
  BY <1>3 DEF FiniteSubsetsOf
<1>5. IsWellFoundedOn(StrictSubsetOrdering(U), FiniteSubsetsOf(U))
  BY FS_StrictSubsetOrderingWellFounded
<1> HIDE DEF T, U
<1>6. \E x \in T : \A y \in T : ~ (<<y, x>> \in StrictSubsetOrdering(U))
  BY <1>2, <1>4, <1>5, WFMin
<1>7. PICK t \in Bad : \A y \in T : ~ (<<y, Remaining(t, R)>> \in StrictSubsetOrdering(U))
  BY <1>6 DEF T
<1>8. f[t] = IF SortDone(t) THEN t ELSE f[SortStep(t)]
  BY Zenon, <1>7 DEF IsRun
<1>9. ~SortDone(t)
  BY <1>7, <1>8
<1>10. SortInv(SortStep(t), deps)
  BY <1>7, <1>9, StepInv
<1>11. SortStep(t) \in SortState(R)
  BY <1>10 DEF SortInv
<1>12. SortStep(t) \in Bad
  BY <1>7, <1>8, <1>9, <1>10, <1>11
<1>13. <<Remaining(SortStep(t), R), Remaining(t, R)>> \in StrictSubsetOrdering(U)
  <2>1. Remaining(SortStep(t), R) \in SUBSET U /\ Remaining(t, R) \in SUBSET U
    BY <1>7, <1>12 DEF T, U
  <2>2. Remaining(SortStep(t), R) \subseteq Remaining(t, R) /\ Remaining(SortStep(t), R) # Remaining(t, R)
    BY <1>7, <1>9, StepShrinks
  <2> QED
    BY <2>1, <2>2 DEF StrictSubsetOrdering
<1> QED
  BY <1>7, <1>12, <1>13 DEF T

\* What is returned without a cycle lists every role, once.
LEMMA SortEnds ==
  ASSUME NEW keys, NEW deps, IsFiniteSet(DOMAIN deps), SortInput(keys, deps)
  PROVE  LET s == SortResult(keys, deps)
         IN  SortDone(s) /\ SortInv(s, deps)
<1>1. \E f : IsRun(f, SortState(DOMAIN deps))
  BY StepType, RunExists
<1>2. PICK f : /\ IsRun(f, SortState(DOMAIN deps))
               /\ SortResult(keys, deps) = f[SortStart(keys, deps)]
  BY Zenon, <1>1, SortRuns
<1>3. SortInv(SortStart(keys, deps), deps)
  BY StartInv
<1> QED
  BY <1>2, <1>3, RunEnds

\* Two lists of the same roles, each role once, are equally long.
LEMMA SameLength ==
  ASSUME NEW R, NEW p \in Seq(R), NEW q \in Seq(R),
         IsInjective(p), IsInjective(q), Range(p) = Range(q)
  PROVE  Len(p) = Len(q)
<1>1. ASSUME NEW x \in Seq(R), IsInjective(x)
      PROVE  Len(x) \in Nat /\ Cardinality(Range(x)) = Len(x)
  <2>1. Len(x) \in Nat /\ DOMAIN x = 1 .. Len(x) /\ x = [i \in 1 .. Len(x) |-> x[i]]
    OBVIOUS
  <2>2. x \in Bijection(1 .. Len(x), Range(x))
    BY <1>1, <2>1 DEF Range, IsInjective, Bijection, Injection, Surjection
  <2>3. ExistsBijection(1 .. Len(x), Range(x))
    BY <2>2 DEF ExistsBijection
  <2> QED
    BY <2>1, <2>3, FS_CountingElements
<1> QED
  BY <1>1

\* The order a reconcile pass follows is right, whatever the roles and their
\* dependencies: a cycle is reported only when there is one, and otherwise
\* every role is listed once, after the roles it depends on.
THEOREM SortCorrect ==
  ASSUME NEW keys, NEW deps, IsFiniteSet(DOMAIN deps), SortInput(keys, deps), IsInjective(keys)
  PROVE  SortedWell(keys, deps) /\ SortResult(keys, deps).order \in Seq(DOMAIN deps)
<1> DEFINE R == DOMAIN deps
           s == SortResult(keys, deps)
<1>1. SortDone(s) /\ SortInv(s, deps)
  BY SortEnds
<1>2. s.order \in Seq(R)
  BY <1>1 DEF SortInv, SortState
<1>3. CASE s.cycle
  BY <1>1, <1>2, <1>3 DEF SortInv, CycleFound, SortedWell
<1>4. CASE ~s.cycle
  <2>1. s.todo = <<>> /\ s.path = <<>> /\ Range(<<>>) = {}
    BY <1>1, <1>4 DEF SortDone, Range
  <2>2. Range(s.order) = R
    <3>1. s.completed \in SUBSET R /\ s.completed = Range(s.order)
      BY <1>1 DEF SortInv, SortState, Listed
    <3> HIDE DEF s
    <3> QED
      BY <1>1, <2>1, <3>1 DEF SortInv, Reached
  <2>3. Len(s.order) = Len(keys)
    BY <1>1, <1>2, <2>2, SameLength DEF SortInv, Listed, SortInput
  <2>4. RespectsDependencies(s.order, deps)
    BY <1>1 DEF SortInv, Listed
  <2> QED
    BY <1>2, <1>4, <2>2, <2>3, <2>4 DEF SortedWell
<1> QED
  BY <1>3, <1>4
=============================================================================
