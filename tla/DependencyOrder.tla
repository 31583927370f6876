--------------------------- MODULE DependencyOrder ---------------------------
(***************************************************************************)
(* The order in which a reconcile pass visits the roles of a group: the    *)
(* depth-first sort of pkg/dependency/dependency.go.                       *)
(*                                                                         *)
(* keys is the sequence of the role names in string order, deps maps each  *)
(* name to the sequence of its dependencies.  The recursion of the code is *)
(* a state with an explicit stack and one step per iteration of its loops, *)
(* so that the sort can be run here and reasoned about step by step.       *)
(***************************************************************************)
EXTENDS Integers, Sequences, SequencesExt, Functions

\* todo: names the outer loop has not reached; path: the visits in progress;
\* rest: dependencies a visit has still to look at.  temp[r] of the code says
\* that r is on the path.
SortStart(keys, deps) ==
  [todo |-> keys, path |-> <<>>, rest |-> deps,
   completed |-> {}, order |-> <<>>, cycle |-> FALSE]

SortDone(s) == s.cycle \/ (s.path = <<>> /\ s.todo = <<>>)

\* The outer loop.
NextKey(s) ==
  LET r == Head(s.todo)
  IN  [s EXCEPT !.todo = Tail(@),
                !.path = IF r \in s.completed THEN @ ELSE <<r>>]

\* visit(r) has seen all its dependencies.
Complete(s) ==
  LET r == Last(s.path)
  IN  [s EXCEPT !.path = Front(@), !.completed = @ \cup {r}, !.order = Append(@, r)]

\* visit(r) calls visit(d) for its next dependency d.
NextDependency(s) ==
  LET r == Last(s.path)
      d == Head(s.rest[r])
  IN  IF d \in Range(s.path)
        THEN [s EXCEPT !.cycle = TRUE]
        ELSE [s EXCEPT !.rest[r] = Tail(@),
                       !.path = IF d \in s.completed THEN @ ELSE Append(@, d)]

\* Faulty variant: a role is entered in the order before its dependencies.
NextDependencyPreorder(s) ==
  LET r == Last(s.path)
  IN  [s EXCEPT !.rest[r] = Tail(@)]

SortStep(s) ==
  IF s.path = <<>> THEN NextKey(s)
  ELSE IF s.rest[Last(s.path)] = <<>> THEN Complete(s)
  ELSE NextDependency(s)

SortState(R) ==
  [todo : Seq(R), path : Seq(R), rest : [R -> Seq(R)],
   completed : SUBSET R, order : Seq(R), cycle : BOOLEAN]

\* dependencyOrder: the last state of the sort.
SortResult(keys, deps) ==
  LET run[s \in SortState(DOMAIN deps)] == IF SortDone(s) THEN s ELSE run[SortStep(s)]
  IN  run[SortStart(keys, deps)]

\* SortRoles refuses a dependency that is not a role of the group.
DependenciesKnown(deps) == \A r \in DOMAIN deps : Range(deps[r]) \subseteq DOMAIN deps

-----------------------------------------------------------------------------
\* What the order is for: each role comes after its dependencies.
RespectsDependencies(order, deps) ==
  \A i \in DOMAIN order : Range(deps[order[i]]) \subseteq Range(SubSeq(order, 1, i-1))

\* A cycle of dependencies among the roles of C.
Cyclic(C, deps) == C # {} /\ \A r \in C : Range(deps[r]) \cap C # {}

\* The sort reports a cycle when there is one, and otherwise lists every role
\* once, after its dependencies.
SortedWell(keys, deps) ==
  LET s == SortResult(keys, deps)
  IN  IF s.cycle
        THEN \E C \in SUBSET DOMAIN deps : Cyclic(C, deps)
        ELSE /\ Range(s.order) = DOMAIN deps
             /\ Len(s.order) = Len(keys)
             /\ RespectsDependencies(s.order, deps)
=============================================================================
