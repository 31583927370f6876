--------------------------- MODULE GroupSetProofs ---------------------------
(***************************************************************************)
(* Theorems about GroupSet, for every set of sizes and any budget of       *)
(* edits, deletions and failures, and whichever informer is behind.  What  *)
(* a List that is behind costs rests on how the informer follows the API   *)
(* server: one creation or deletion at a time, in their order.             *)
(***************************************************************************)
EXTENDS GroupSet, TLAPS

-----------------------------------------------------------------------------
\* A pass never creates a negative number of groups, and no more than are
\* missing from what it has listed.
LEMMA MissingRange ==
  ASSUME NEW n \in Nat, NEW listed \in Nat
  PROVE  /\ Missing(n, listed) \in Nat
         /\ Missing(n, listed) = 0 \/ listed + Missing(n, listed) = n
  BY DEF Missing

LEMMA SizesType == Sizes \subseteq Nat
  BY SetAssumption

\* What the cached client returns.
LEMMA ReadType ==
  ASSUME TypeOK
  PROVE  Replicas \in Nat /\ Listed \in Nat /\ Unseen \in Nat
<1>1. want.stored \in Nat /\ want.cached \in Nat
  BY SizesType DEF TypeOK
<1>2. groups.stored \in Nat /\ groups.cached \in Nat /\ Len(news) \in Nat
  BY DEF TypeOK
<1> QED
  BY <1>1, <1>2 DEF Replicas, Listed, Unseen

\* A group that comes or goes.
LEMMA CountType ==
  ASSUME TypeOK, NEW delta \in Int, Count(delta)
  PROVE  /\ groups' \in [stored : Nat, cached : Nat]
         /\ news' \in Seq(Nat)
         /\ queued' \in BOOLEAN
         /\ groups'.stored = groups.stored + delta
<1>2. groups.stored + delta \in Nat
  BY DEF TypeOK, Count
<1>1. groups' \in [stored : Nat, cached : Nat] /\ groups'.stored = groups.stored + delta
  <2> DEFINE n == groups.stored + delta
  <2>1. groups' = [groups EXCEPT !.stored = n] /\ n \in Nat
    BY <1>2 DEF Count
  <2> HIDE DEF n
  <2>2. groups' \in [stored : Nat, cached : Nat] /\ groups'.stored = n
    BY <2>1 DEF TypeOK
  <2> QED
    BY <2>2 DEF n
<1>3. news' \in Seq(Nat)
  BY <1>2 DEF TypeOK, Count
<1>4. queued' \in BOOLEAN
  BY DEF TypeOK, Count
<1> QED
  BY <1>1, <1>3, <1>4

\* What is left of the budget after an edit, a deletion, or a failure.
LEMMA BudgetFalls ==
  ASSUME NEW b \in [edit : Nat, delete : Nat, failure : Nat]
  PROVE  /\ b.edit > 0 =>
              [b EXCEPT !.edit = @ - 1] \in [edit : Nat, delete : Nat, failure : Nat]
         /\ b.delete > 0 =>
              [b EXCEPT !.delete = @ - 1] \in [edit : Nat, delete : Nat, failure : Nat]
         /\ b.failure > 0 =>
              [b EXCEPT !.failure = @ - 1] \in [edit : Nat, delete : Nat, failure : Nat]
  OBVIOUS

LEMMA TypeInit == Init => TypeOK
  BY SetAssumption DEF Init, TypeOK

LEMMA TypeStep == TypeOK /\ [Next]_vars => TypeOK'
<1> SUFFICES ASSUME TypeOK, [Next]_vars
             PROVE  TypeOK'
  OBVIOUS
<1> USE SizesType DEF TypeOK
<1>1. ASSUME NEW n \in Sizes, Resize(n) PROVE TypeOK'
  <2>1. want' \in [stored : Sizes, cached : Sizes]
    BY <1>1 DEF Resize
  <2>2. budget' \in [edit : Nat, delete : Nat, failure : Nat]
    BY <1>1, BudgetFalls DEF Resize
  <2>3. queued' \in BOOLEAN /\ most' \in Nat
    BY <1>1 DEF Resize
  <2> QED
    BY <1>1, <2>1, <2>2, <2>3 DEF Resize
<1>2. CASE DeleteGroup
  <2>1. Count(-1) /\ -1 \in Int
    BY <1>2 DEF DeleteGroup
  <2>2. /\ groups' \in [stored : Nat, cached : Nat]
        /\ news' \in Seq(Nat)
        /\ queued' \in BOOLEAN
    BY <2>1, CountType
  <2>3. budget \in [edit : Nat, delete : Nat, failure : Nat]
    OBVIOUS
  <2>4. budget' \in [edit : Nat, delete : Nat, failure : Nat]
    BY ONLY <1>2, <2>3, BudgetFalls DEF DeleteGroup
  <2> QED
    BY <1>2, <2>2, <2>4 DEF DeleteGroup
<1>3. CASE SeeSet
  BY <1>3 DEF SeeSet
<1>4. CASE SeeGroup
  <2>1. Head(news) \in Nat /\ Tail(news) \in Seq(Nat)
    BY <1>4 DEF SeeGroup
  <2> QED
    BY <1>4, <2>1 DEF SeeGroup
<1>5. CASE Resync
  BY <1>5 DEF Resync
<1>6. CASE Begin
  <2>1. Missing(Replicas, Listed) \in Nat
    BY ReadType, MissingRange
  <2>2. missed' \in Nat
    BY <1>6, ReadType DEF Begin
  <2> QED
    BY <1>6, <2>1, <2>2 DEF Begin
<1>7. CASE CreateRBG
  <2>1. Count(1) /\ 1 \in Int
    BY <1>7 DEF CreateRBG
  <2>2. /\ groups' \in [stored : Nat, cached : Nat]
        /\ news' \in Seq(Nat)
        /\ queued' \in BOOLEAN
    BY <2>1, CountType
  <2>3. left' \in Nat /\ UNCHANGED <<want, most, missed, budget>>
    BY <1>7 DEF CreateRBG
  <2> QED
    BY <2>2, <2>3
<1>8. CASE CreateFails
  <2>1. budget' \in [edit : Nat, delete : Nat, failure : Nat]
    BY <1>8, BudgetFalls DEF CreateFails
  <2>2. left' \in Nat /\ UNCHANGED <<want, groups, news, queued, most, missed>>
    BY <1>8 DEF CreateFails
  <2> QED
    BY <2>1, <2>2
<1>9. CASE ManagerRestarts
  <2>1. /\ want \in [stored : Sizes, cached : Sizes]
        /\ groups \in [stored : Nat, cached : Nat]
        /\ budget \in [edit : Nat, delete : Nat, failure : Nat]
    OBVIOUS
  <2>2. /\ want' \in [stored : Sizes, cached : Sizes]
        /\ groups' \in [stored : Nat, cached : Nat]
    BY ONLY <1>9, <2>1 DEF ManagerRestarts
  <2>3. budget' \in [edit : Nat, delete : Nat, failure : Nat]
    BY ONLY <1>9, <2>1, BudgetFalls DEF ManagerRestarts
  <2>4. /\ news' \in Seq(Nat) /\ queued' \in BOOLEAN
        /\ left' \in Nat /\ most' \in Nat /\ missed' \in Nat
    BY <1>9 DEF ManagerRestarts
  <2> QED
    BY <2>2, <2>3, <2>4
<1>10. CASE UNCHANGED vars
  BY <1>10 DEF vars
<1> QED
  BY <1>1, <1>2, <1>3, <1>4, <1>5, <1>6, <1>7, <1>8, <1>9, <1>10 DEF Next, Controller

\* The state of the controller and its informers is well typed, behind or not.
THEOREM SetTypeCorrect == Spec => []TypeOK
<1> QED
  BY TypeInit, TypeStep, PTL DEF Spec

-----------------------------------------------------------------------------
\* What the set asks for, and what the cache takes it to ask for, was asked for.
Asked == want.stored <= most /\ want.cached <= most

\* The cache is behind by no more groups than there are events it has yet to
\* see, and will be after each of them.
Follows ==
  /\ groups.stored - groups.cached <= Len(news)
  /\ \A i \in 1 .. Len(news) : groups.stored - news[i] <= Len(news) - i

SurplusInv == TypeOK /\ Asked /\ Follows /\ SurplusBounded

LEMMA SurplusInit == Init => SurplusInv
  BY TypeInit, SetAssumption
  DEF Init, SurplusInv, Asked, Follows, SurplusBounded

LEMMA AskedStep == TypeOK /\ Asked /\ [Next]_vars => Asked'
<1> SUFFICES ASSUME TypeOK, Asked, [Next]_vars
             PROVE  Asked'
  OBVIOUS
<1> USE SizesType DEF TypeOK, Asked
<1>1. ASSUME NEW n \in Sizes, Resize(n) PROVE Asked'
  BY <1>1 DEF Resize
<1>2. CASE SeeSet \/ ManagerRestarts
  BY <1>2 DEF SeeSet, ManagerRestarts
<1>3. CASE DeleteGroup \/ SeeGroup \/ Resync \/ Begin \/ CreateRBG \/ CreateFails
             \/ UNCHANGED vars
  BY <1>3 DEF DeleteGroup, SeeGroup, Resync, Begin, CreateRBG, CreateFails, vars
<1> QED
  BY <1>1, <1>2, <1>3 DEF Next, Controller

\* A group that comes or goes is one more event to see.
LEMMA CountFollows ==
  ASSUME TypeOK, Follows, NEW delta \in {-1, 1}, Count(delta)
  PROVE  Follows'
<1> DEFINE n == groups.stored + delta
<1>1. /\ groups.stored \in Nat /\ groups.cached \in Nat /\ n \in Nat
      /\ groups'.stored = n /\ groups'.cached = groups.cached
  BY DEF TypeOK, Count
<1>2. news \in Seq(Nat) /\ news' = Append(news, n)
  BY DEF TypeOK, Count
<1> HIDE DEF n
<1>3. /\ Len(news') = Len(news) + 1 /\ news'[Len(news) + 1] = n
      /\ \A i \in 1 .. Len(news) : news'[i] = news[i] /\ news[i] \in Nat
  BY <1>1, <1>2
<1>4. n <= groups.stored + 1
  BY <1>1 DEF n
<1>5. n - groups.cached <= Len(news')
  BY <1>1, <1>2, <1>3, <1>4 DEF Follows
<1>6. ASSUME NEW i \in 1 .. Len(news')
      PROVE  n - news'[i] <= Len(news') - i
  <2>1. CASE i = Len(news) + 1
    BY <1>1, <1>2, <1>3, <2>1
  <2>2. CASE i \in 1 .. Len(news)
    <3>1. groups.stored - news[i] <= Len(news) - i
      BY <2>2 DEF Follows
    <3> QED
      BY <1>1, <1>2, <1>3, <1>4, <2>2, <3>1
  <2> QED
    BY <1>2, <1>3, <2>1, <2>2
<1> QED
  BY <1>1, <1>5, <1>6 DEF Follows

\* An event that is seen is one less.
LEMMA SeeFollows ==
  ASSUME TypeOK, Follows, SeeGroup
  PROVE  Follows'
<1>1. news \in Seq(Nat) /\ news # <<>> /\ news' = Tail(news)
  BY DEF TypeOK, SeeGroup
<1>2. /\ groups.stored \in Nat
      /\ groups'.stored = groups.stored /\ groups'.cached = Head(news)
  BY DEF TypeOK, SeeGroup
<1>3. /\ Len(news) \in Nat /\ Len(news) >= 1
      /\ Head(news) = news[1] /\ Len(news') = Len(news) - 1
      /\ \A i \in 1 .. Len(news') : news'[i] = news[i + 1]
  BY <1>1
<1>4. \A i \in 1 .. Len(news) : news[i] \in Nat
  BY <1>1
<1>5. groups.stored - news[1] <= Len(news) - 1
  BY <1>3 DEF Follows
<1>6. ASSUME NEW i \in 1 .. Len(news')
      PROVE  groups.stored - news'[i] <= Len(news') - i
  <2>1. i + 1 \in 1 .. Len(news)
    BY <1>3
  <2>2. groups.stored - news[i + 1] <= Len(news) - (i + 1)
    BY <2>1 DEF Follows
  <2> QED
    BY <1>2, <1>3, <1>4, <2>1, <2>2
<1> QED
  BY <1>2, <1>3, <1>5, <1>6 DEF Follows

LEMMA FollowsStep == TypeOK /\ Follows /\ [Next]_vars => Follows'
<1> SUFFICES ASSUME TypeOK, Follows, [Next]_vars
             PROVE  Follows'
  OBVIOUS
<1>1. CASE DeleteGroup
  BY <1>1, CountFollows DEF DeleteGroup
<1>2. CASE CreateRBG
  BY <1>2, CountFollows DEF CreateRBG
<1>3. CASE SeeGroup
  BY <1>3, SeeFollows
<1>4. CASE ManagerRestarts
  BY <1>4 DEF ManagerRestarts, Follows, TypeOK
<1>5. CASE UNCHANGED <<groups, news>>
  BY <1>5 DEF Follows
<1>6. (\E n \in Sizes : Resize(n)) \/ SeeSet \/ Resync \/ Begin \/ CreateFails
        \/ UNCHANGED vars
        => UNCHANGED <<groups, news>>
  BY DEF Resize, SeeSet, Resync, Begin, CreateFails, vars
<1> QED
  BY <1>1, <1>2, <1>3, <1>4, <1>5, <1>6 DEF Next, Controller

LEMMA SurplusStep == SurplusInv /\ [Next]_vars => SurplusInv'
<1> SUFFICES ASSUME SurplusInv, [Next]_vars
             PROVE  SurplusBounded'
  BY TypeStep, AskedStep, FollowsStep DEF SurplusInv
<1> USE SizesType DEF SurplusInv, TypeOK, SurplusBounded
<1>1. ASSUME NEW n \in Sizes, Resize(n) PROVE SurplusBounded'
  BY <1>1 DEF Resize
<1>2. CASE DeleteGroup
  <2>1. groups'.stored = groups.stored + (-1)
    BY <1>2, CountType DEF DeleteGroup
  <2> QED
    BY <1>2, <2>1 DEF DeleteGroup
<1>3. CASE SeeSet \/ SeeGroup \/ Resync \/ UNCHANGED vars
  BY <1>3 DEF SeeSet, SeeGroup, Resync, vars
<1>4. CASE Begin
  <2>1. Replicas \in Nat /\ Listed \in Nat /\ Unseen \in Nat
    BY ReadType
  <2>2. Replicas <= most
    BY DEF Replicas, Asked
  <2>3. groups.stored - Listed <= Unseen
    BY DEF Listed, Unseen, Follows
  <2>4. /\ Missing(Replicas, Listed) \in Nat
        /\ \/ Missing(Replicas, Listed) = 0
           \/ Listed + Missing(Replicas, Listed) = Replicas
    BY <2>1, MissingRange
  <2>5. missed' \in Nat /\ missed' >= missed /\ missed' >= Unseen
    BY <1>4, <2>1 DEF Begin
  <2>6. /\ groups' = groups /\ most' = most
        /\ left' = Missing(Replicas, Listed) /\ left = 0
    BY <1>4 DEF Begin
  <2>7. groups.stored \in Nat /\ most \in Nat /\ missed \in Nat
    OBVIOUS
  <2>8. groups.stored <= most + missed
    BY <2>6
  <2>9. groups.stored + Missing(Replicas, Listed) <= most + missed'
    BY ONLY <2>1, <2>2, <2>3, <2>4, <2>5, <2>7, <2>8
  <2> QED
    BY <2>6, <2>9
<1>5. CASE CreateRBG
  BY <1>5 DEF CreateRBG, Count
<1>6. CASE CreateFails \/ ManagerRestarts
  <2>1. /\ groups'.stored = groups.stored
        /\ left' <= left /\ left' \in Nat
        /\ UNCHANGED <<most, missed>>
    BY <1>6 DEF CreateFails, ManagerRestarts
  <2> QED
    BY <2>1
<1> QED
  BY <1>1, <1>2, <1>3, <1>4, <1>5, <1>6 DEF Next, Controller

\* Whatever lags, fails or is deleted, and however often, a set has no more
\* groups above what it has asked for than there were events of its groups that
\* the List of one pass lacked.
THEOREM SurplusIsMissed == Spec => []SurplusBounded
<1>1. SurplusInv => SurplusBounded
  BY DEF SurplusInv
<1> QED
  BY <1>1, SurplusInit, SurplusStep, PTL DEF Spec
=============================================================================
