-------------------------- MODULE ExploreBrainProofs --------------------------
(***************************************************************************)
(* Lemmas about searches over finite sets, and what they show of the        *)
(* autopilot's search in ExploreBrain, for every map of finitely many cells *)
(* and every set of goals.                                                  *)
(***************************************************************************)
EXTENDS ExploreBrain, FiniteSetTheorems, NaturalsInduction, WellFoundedInduction,
        TLAPS

(* Induction, stated for sets: a set of numbers has a least one, so a set     *)
(* that has 0 and the successors of its members has them all.                 *)
LEMMA LeastOf ==
  ASSUME NEW T \in SUBSET Nat, T # {}
  PROVE  \E x \in T : \A y \in T : x <= y
<1>1. IsWellFoundedOn(OpToRel(<,Nat), Nat)
  BY NatLessThanWellFounded
<1> DEFINE R == OpToRel(<,Nat)
<1>2. \A x, y \in Nat : x < y => <<x, y>> \in R
  BY DEF OpToRel
<1>3. IsWellFoundedOn(R, Nat)
  BY <1>1
<1> HIDE DEF R
<1>4. PICK x \in T : \A y \in T : ~(<<y, x>> \in R)
  BY <1>3, WFMin
<1>5. x \in Nat /\ \A y \in T : y \in Nat /\ ~(y < x)
  BY <1>2, <1>4, Zenon
<1> QED BY <1>5

LEMMA StepByStep ==
  ASSUME NEW n \in Nat, NEW P \in SUBSET (0..n), 0 \in P,
         \A i \in 0..n : i < n /\ i \in P => i + 1 \in P
  PROVE  P = 0..n
<1> SUFFICES ASSUME (0..n) \ P # {} PROVE FALSE
  OBVIOUS
<1>1. PICK x \in (0..n) \ P : \A y \in (0..n) \ P : x <= y
  <2> (0..n) \ P \in SUBSET Nat
    OBVIOUS
  <2> QED BY LeastOf
<1>2. x - 1 \in P /\ x - 1 < n /\ x - 1 \in 0..n
  BY <1>1
<1> QED BY <1>1, <1>2

-------------------------------------------------------------------------------
(* A search that grows a set until it may stop, and must where nothing more   *)
(* is found.                                                                  *)
Grows(U, Stop, More) ==
  /\ IsFiniteSet(U)
  /\ \A x \in SUBSET U : /\ More[x] \in SUBSET U /\ x \subseteq More[x]
                         /\ More[x] = x => x \in Stop
Searches(f, U, Stop, More) ==
  f = [x \in SUBSET U |-> IF x \in Stop THEN x ELSE f[More[x]]]

LEMMA FewerAreLeft ==
  ASSUME NEW U, NEW Stop, NEW More, Grows(U, Stop, More),
         NEW x \in SUBSET U
  PROVE  /\ Cardinality(U \ x) \in Nat /\ Cardinality(U \ x) <= Cardinality(U)
         /\ Cardinality(U) \in Nat
         /\ x \notin Stop => Cardinality(U \ More[x]) < Cardinality(U \ x)
<1> DEFINE y == More[x]
<1>1. IsFiniteSet(U) /\ y \in SUBSET U /\ x \subseteq y /\ (y = x => x \in Stop)
  BY DEF Grows
<1> HIDE DEF y
<1>2. /\ IsFiniteSet(U \ x) /\ Cardinality(U \ x) <= Cardinality(U)
  BY <1>1, FS_Subset
<1>3. /\ IsFiniteSet(U \ y) /\ Cardinality(U \ y) <= Cardinality(U \ x)
      /\ Cardinality(U \ x) = Cardinality(U \ y) => U \ x = U \ y
  <2>1. U \ y \in SUBSET (U \ x)
    BY <1>1
  <2> QED BY <1>2, <2>1, FS_Subset
<1>4. /\ Cardinality(U \ x) \in Nat /\ Cardinality(U \ y) \in Nat
      /\ Cardinality(U) \in Nat
  BY <1>1, <1>2, <1>3, FS_CardinalityType
<1>5. U \ x = U \ y => x \in Stop
  BY <1>1
<1>6. x \notin Stop => Cardinality(U \ y) < Cardinality(U \ x)
  BY <1>3, <1>4, <1>5
<1> QED BY <1>2, <1>4, <1>6 DEF y

LEMMA SearchExists ==
  ASSUME NEW U, NEW Stop, NEW More, Grows(U, Stop, More)
  PROVE  \E f : Searches(f, U, Stop, More)
<1> DEFINE n == Cardinality(U)
           Left(x) == Cardinality(U \ x)
           Next1(g, x) == IF x \in Stop THEN x ELSE g[More[x]]
           Upto(g, k) == \A x \in SUBSET U : Left(x) <= k => g[x] = Next1(g, x)
           P == {k \in 0..n : \E g : Upto(g, k)}
<1>1. /\ n \in Nat
      /\ \A x \in SUBSET U : /\ Left(x) \in Nat /\ Left(x) <= n
                             /\ More[x] \in SUBSET U
                             /\ x \notin Stop => Left(More[x]) < Left(x)
  <2>1. ASSUME NEW x \in SUBSET U
        PROVE  /\ Left(x) \in Nat /\ Left(x) <= n /\ n \in Nat
               /\ x \notin Stop => Left(More[x]) < Left(x)
    BY FewerAreLeft
  <2>2. n \in Nat
    BY <2>1
  <2>3. \A x \in SUBSET U : More[x] \in SUBSET U
    BY DEF Grows
  <2> HIDE DEF n, Left
  <2> QED BY <2>1, <2>2, <2>3
<1> HIDE DEF n, Left
<1>2. 0 \in P
  <2> DEFINE g == [x \in SUBSET U |-> x]
  <2>1. \A x \in SUBSET U : Left(x) <= 0 => x \in Stop
    <3>1. ASSUME NEW x \in SUBSET U, Left(x) <= 0, x \notin Stop PROVE FALSE
      <4>1. Left(x) \in Nat /\ Left(More[x]) \in Nat /\ Left(More[x]) < Left(x)
        BY <1>1, <3>1
      <4> QED BY <3>1, <4>1
    <3> QED BY <3>1
  <2>2. Upto(g, 0)
    BY <2>1
  <2> HIDE DEF g, Upto
  <2> QED BY <1>1, <2>2
<1>3. ASSUME NEW k \in 0..n, k < n, k \in P
      PROVE  k + 1 \in P
  <2>1. PICK g : Upto(g, k)
    BY <1>3
  <2> DEFINE h == [x \in SUBSET U |-> IF Left(x) <= k THEN g[x] ELSE Next1(g, x)]
  <2>2. ASSUME NEW x \in SUBSET U, Left(x) <= k + 1
        PROVE  h[x] = Next1(h, x)
    <3>1. h[x] = Next1(g, x)
      BY <2>1
    <3>2. ASSUME x \notin Stop PROVE h[More[x]] = g[More[x]]
      <4>1. More[x] \in SUBSET U /\ Left(More[x]) < Left(x)
            /\ Left(x) \in Nat /\ Left(More[x]) \in Nat
        BY <1>1, <3>2
      <4>2. Left(More[x]) <= k
        BY <1>3, <2>2, <4>1
      <4> QED BY <4>1, <4>2
    <3> HIDE DEF h
    <3> QED BY <3>1, <3>2
  <2>3. Upto(h, k + 1)
    <3> HIDE DEF h, Next1
    <3> QED BY <2>2
  <2> HIDE DEF h, Upto
  <2> QED BY <1>1, <1>3, <2>3
<1>4. P = 0..n
  <2> HIDE DEF P
  <2>1. P \in SUBSET (0..n)
    BY DEF P
  <2> QED BY <1>1, <1>2, <1>3, <2>1, StepByStep
<1>5. PICK g : Upto(g, n)
  <2>1. n \in P
    <3> HIDE DEF P
    <3> QED BY <1>1, <1>4
  <2> QED BY <2>1
<1> DEFINE f == [x \in SUBSET U |-> g[x]]
<1>6. \A x \in SUBSET U : g[x] = IF x \in Stop THEN x ELSE f[More[x]]
  <2>1. ASSUME NEW x \in SUBSET U PROVE g[x] = IF x \in Stop THEN x ELSE f[More[x]]
    <3>1. g[x] = Next1(g, x) /\ More[x] \in SUBSET U
      BY <1>1, <1>5
    <3> QED BY <3>1
  <2> QED BY <2>1
<1>7. f = [x \in SUBSET U |-> IF x \in Stop THEN x ELSE f[More[x]]]
  BY <1>6
<1> HIDE DEF f
<1> QED BY <1>7 DEF Searches

LEMMA SearchEnds ==
  ASSUME NEW U, NEW Stop, NEW More, Grows(U, Stop, More),
         NEW f, Searches(f, U, Stop, More),
         NEW Fam, \A y \in SUBSET U : y \in Fam /\ y \notin Stop => More[y] \in Fam,
         NEW x \in SUBSET U, x \in Fam
  PROVE  f[x] \in Stop /\ f[x] \in Fam
<1> DEFINE Left(y) == Cardinality(U \ y)
           Bad(y) == y \in Fam /\ ~(f[y] \in Stop /\ f[y] \in Fam)
           T == {k \in Nat : \E y \in SUBSET U : Left(y) = k /\ Bad(y)}
<1>1. \A y \in SUBSET U : /\ Left(y) \in Nat
                          /\ More[y] \in SUBSET U
                          /\ y \notin Stop => Left(More[y]) < Left(y)
  <2>1. \A y \in SUBSET U : /\ Left(y) \in Nat
                            /\ y \notin Stop => Left(More[y]) < Left(y)
    BY FewerAreLeft
  <2>2. \A y \in SUBSET U : More[y] \in SUBSET U
    BY DEF Grows
  <2> HIDE DEF Left
  <2> QED BY <2>1, <2>2
<1>2. \A y \in SUBSET U : f[y] = IF y \in Stop THEN y ELSE f[More[y]]
  BY DEF Searches
<1> HIDE DEF Left
<1>3. SUFFICES ASSUME Bad(x) PROVE FALSE
  OBVIOUS
<1>4. T # {} /\ T \in SUBSET Nat
  <2>1. Left(x) \in T
    BY <1>1, <1>3
  <2> QED BY <2>1
<1>5. PICK k \in T : \A j \in T : k <= j
  <2> HIDE DEF T
  <2> QED BY <1>4, LeastOf
<1>6. PICK y \in SUBSET U : Left(y) = k /\ Bad(y)
  BY <1>5
<1>7. y \notin Stop
  BY <1>2, <1>6
<1>8. /\ More[y] \in SUBSET U /\ Left(More[y]) \in Nat /\ Left(More[y]) < k
      /\ More[y] \in Fam /\ f[y] = f[More[y]]
  BY <1>1, <1>2, <1>6, <1>7
<1>9. Bad(More[y])
  BY <1>6, <1>8
<1>10. Left(More[y]) \in T
  <2> HIDE DEF Bad
  <2> QED BY <1>8, <1>9
<1> QED BY <1>5, <1>8, <1>10

LEMMA ImageIsFinite ==
  ASSUME NEW S, IsFiniteSet(S), NEW f
  PROVE  IsFiniteSet({f[x] : x \in S})
<1> DEFINE T == {f[x] : x \in S}
           g == [x \in S |-> f[x]]
<1>1. g \in Surjection(S, T)
  BY DEF Surjection
<1> HIDE DEF T, g
<1>2. IsFiniteSet(T)
  BY <1>1, FS_Surjection
<1> QED BY <1>2 DEF T

-------------------------------------------------------------------------------
(* What the directions do, and that the autopilot answers nothing else.       *)
LEMMA Deltas ==
  ASSUME NEW d \in Directions
  PROVE  /\ Delta[d][1] \in {-1, 0, 1} /\ Delta[d][2] \in {-1, 0, 1}
         /\ d \in {"up", "down"} => Delta[d][1] = 0 /\ Delta[d][2] \in {-1, 1}
         /\ d \notin {"up", "down"} => Delta[d][2] = 0 /\ Delta[d][1] \in {-1, 1}
<1>1. d \in {"up", "down", "left", "right"}
  BY DEF Directions, Order
<1> QED BY <1>1 DEF Delta

LEMMA FirstStepsAreDirections ==
  ASSUME NEW walls, NEW cells, NEW cur, NEW goals
  PROVE  FirstSteps(walls, cells, cur, goals) \subseteq Directions
<1> QED BY DEF FirstSteps, Open

LEMMA UnexploredIsDirection ==
  ASSUME NEW walls, NEW c, NEW avoided
  PROVE  UnexploredDir(walls, c, avoided) \subseteq Directions
<1> DEFINE leads == {i \in 1..4 : /\ Order[i] \in Open(walls, c)
                                 /\ Neighbour(c, Order[i])
                                      \notin DOMAIN walls \cup avoided}
           first == CHOOSE i \in leads : \A j \in leads : i <= j
<1>1. leads \subseteq 1..4
  OBVIOUS
<1>2. UnexploredDir(walls, c, avoided) = IF leads = {} THEN {} ELSE {Order[first]}
  BY DEF UnexploredDir
<1> HIDE DEF leads
<1>3. leads # {} => first \in 1..4
  <2>1. SUFFICES ASSUME leads # {} PROVE \E i \in leads : \A j \in leads : i <= j
    BY <1>1
  <2> QED BY <1>1, <2>1, LeastOf
<1> HIDE DEF first
<1> QED BY <1>2, <1>3 DEF Directions

LEMMA ExploreDirsAreDirections ==
  ASSUME NEW walls, NEW cur, NEW frontiers, NEW predicted, NEW goto
  PROVE  ExploreDirs(walls, cur, frontiers, predicted, goto) \subseteq Directions
<1>1. \A avoided : Pass(walls, cur, frontiers, avoided) \subseteq Directions
  BY FirstStepsAreDirections, UnexploredIsDirection DEF Pass
<1> QED BY <1>1, FirstStepsAreDirections DEF ExploreDirs

-------------------------------------------------------------------------------
(* What the autopilot's search does at each stage: the steps from cur into    *)
(* the cells found so far, and the cells that lead into these.                *)
Meets(walls, cur, near) == {d \in Open(walls, cur) : Neighbour(cur, d) \in near}
OneMore(walls, cells, cur, near) ==
  near \cup {c \in cells \ {cur} : \E d \in Open(walls, c) : Neighbour(c, d) \in near}
Goals(cells, cur, goals) == (goals \cap cells) \ {cur}
StopsWell(walls, cells, cur, goals, Fam) ==
  \E near \in SUBSET cells :
    /\ near \in Fam
    /\ FirstSteps(walls, cells, cur, goals) = Meets(walls, cur, near)
    /\ Meets(walls, cur, near) # {} \/ OneMore(walls, cells, cur, near) = near

(* Its answer is that of a stage at which it may stop; what holds of the      *)
(* goals and is kept from stage to stage holds there.                         *)
LEMMA SearchAnswers ==
  ASSUME NEW walls, NEW cells, IsFiniteSet(cells), NEW cur, NEW goals,
         NEW Fam, Goals(cells, cur, goals) \in Fam,
         \A near \in SUBSET cells :
           near \in Fam /\ Meets(walls, cur, near) = {} => OneMore(walls, cells, cur, near) \in Fam
  PROVE  StopsWell(walls, cells, cur, goals, Fam)
<1> DEFINE meets(near) == Meets(walls, cur, near)
           more(near) == OneMore(walls, cells, cur, near)
           More == [near \in SUBSET cells |-> more(near)]
           Stop == {near \in SUBSET cells : meets(near) # {} \/ more(near) = near}
           grow(g) == [near \in SUBSET cells |->
                         IF meets(near) # {} \/ more(near) = near THEN near
                         ELSE g[more(near)]]
           f == CHOOSE g : g = grow(g)
           start == Goals(cells, cur, goals)
<1>1. \A near \in SUBSET cells : more(near) \in SUBSET cells /\ near \subseteq more(near)
  BY DEF OneMore
<1>2. \A near \in SUBSET cells : /\ more(near) \in SUBSET cells /\ near \subseteq more(near)
                                 /\ More[near] = more(near)
                                 /\ near \in Stop <=> meets(near) # {} \/ more(near) = near
  <2> HIDE DEF more, meets
  <2> QED BY <1>1
<1>3. Grows(cells, Stop, More)
  <2> HIDE DEF more, More, Stop, meets
  <2> QED BY <1>2 DEF Grows
<1>4. ASSUME NEW g PROVE grow(g) = [near \in SUBSET cells |->
                                      IF near \in Stop THEN near ELSE g[More[near]]]
  <2> HIDE DEF More, Stop, meets, more
  <2> QED BY <1>2
<1>5. f = grow(f)
  <2>1. PICK g : Searches(g, cells, Stop, More)
    <3> HIDE DEF More, Stop, more, meets
    <3> QED BY <1>3, SearchExists
  <2>2. g = grow(g)
    <3> HIDE DEF More, Stop, grow
    <3> QED BY <1>4, <2>1 DEF Searches
  <2>3. \E h : h = grow(h)
    <3> HIDE DEF grow
    <3> QED BY <2>2
  <2> HIDE DEF grow
  <2> QED BY <2>3
<1>6. FirstSteps(walls, cells, cur, goals) = meets(f[start])
  BY DEF FirstSteps, Meets, OneMore, Goals
<1>7. Searches(f, cells, Stop, More)
  <2> HIDE DEF f, grow, Stop, More
  <2> QED BY <1>4, <1>5 DEF Searches
<1>8. start \in SUBSET cells /\ start \in Fam
  BY DEF Goals
<1>9. \A y \in SUBSET cells : y \in Fam /\ y \notin Stop => More[y] \in Fam
  <2> HIDE DEF Stop, More
  <2> QED BY <1>2
<1>10. f[start] \in Stop /\ f[start] \in Fam
  <2> HIDE DEF f, Stop, More, start
  <2> QED BY <1>3, <1>7, <1>8, <1>9, SearchEnds
<1>11. f[start] \in SUBSET cells /\ (meets(f[start]) # {} \/ more(f[start]) = f[start])
  <2> HIDE DEF f, meets, more
  <2> QED BY <1>10
<1> HIDE DEF f
<1> QED BY <1>6, <1>10, <1>11 DEF StopsWell

(* No way leads from cur over cells into the set far: no step from a cell     *)
(* outside it does.                                                           *)
Apart(walls, cells, cur, far) ==
  /\ far \subseteq cells \ {cur}
  /\ \A c \in cells \ far : \A d \in Open(walls, c) : Neighbour(c, d) \notin far
  /\ \A d \in Open(walls, cur) : Neighbour(cur, d) \notin far

(* The search of the autopilot is exact: it answers no first step when no way *)
(* over the cells leads from cur to a goal, and only then (brains.py's        *)
(* _bfs_first_step).                                                          *)
THEOREM NoStepNoWay ==
  ASSUME NEW walls, NEW cells, IsFiniteSet(cells), NEW cur, NEW goals
  PROVE  FirstSteps(walls, cells, cur, goals) = {} <=>
           \E far : /\ Apart(walls, cells, cur, far)
                    /\ (goals \cap cells) \ {cur} \subseteq far
<1>1. ASSUME NEW far, Apart(walls, cells, cur, far), Goals(cells, cur, goals) \subseteq far
      PROVE  FirstSteps(walls, cells, cur, goals) = {}
  <2>1. /\ far \subseteq cells
        /\ \A c \in cells \ far : \A d \in Open(walls, c) : Neighbour(c, d) \notin far
        /\ \A d \in Open(walls, cur) : Neighbour(cur, d) \notin far
    BY <1>1 DEF Apart
  <2>2. ASSUME NEW near \in SUBSET far PROVE OneMore(walls, cells, cur, near) \in SUBSET far
    BY <2>1 DEF OneMore
  <2>3. StopsWell(walls, cells, cur, goals, SUBSET far)
    BY <1>1, <2>2, SearchAnswers
  <2>4. PICK near \in SUBSET far : FirstSteps(walls, cells, cur, goals) = Meets(walls, cur, near)
    BY <2>3 DEF StopsWell
  <2> QED BY <2>1, <2>4 DEF Meets
<1>2. ASSUME FirstSteps(walls, cells, cur, goals) = {}
      PROVE  \E far : Apart(walls, cells, cur, far) /\ Goals(cells, cur, goals) \subseteq far
  <2> DEFINE Fam == {near \in SUBSET (cells \ {cur}) : Goals(cells, cur, goals) \subseteq near}
  <2>1. Goals(cells, cur, goals) \in Fam
    BY DEF Goals
  <2>2. ASSUME NEW near \in SUBSET cells, near \in Fam PROVE OneMore(walls, cells, cur, near) \in Fam
    BY <2>2 DEF OneMore
  <2>3. StopsWell(walls, cells, cur, goals, Fam)
    <3> HIDE DEF Fam
    <3> QED BY <2>1, <2>2, SearchAnswers
  <2>4. PICK far \in Fam : /\ Meets(walls, cur, far) = {}
                           /\ OneMore(walls, cells, cur, far) = far
    <3> HIDE DEF Fam
    <3> QED BY <1>2, <2>3 DEF StopsWell
  <2>5. \A d \in Open(walls, cur) : Neighbour(cur, d) \notin far
    BY <2>4 DEF Meets
  <2>6. ASSUME NEW c \in cells \ far, NEW d \in Open(walls, c), Neighbour(c, d) \in far
        PROVE  FALSE
    <3>1. CASE c = cur
      BY <2>5, <2>6, <3>1
    <3>2. CASE c # cur
      <4>1. c \in OneMore(walls, cells, cur, far)
        BY <2>6, <3>2 DEF OneMore
      <4> QED BY <2>4, <2>6, <4>1
    <3> QED BY <3>1, <3>2
  <2>7. Apart(walls, cells, cur, far)
    BY <2>4, <2>5, <2>6 DEF Apart
  <2> QED BY <2>4, <2>7
<1> QED BY <1>1, <1>2 DEF Goals

(* W[i] has the cells from which a goal is at most i steps away, over cells   *)
(* and not through cur.                                                       *)
Stages(W, n, walls, cells, cur, goals) ==
  /\ W \in [0..n -> SUBSET cells] /\ W[0] = Goals(cells, cur, goals)
  /\ \A i \in 1..n : W[i] = OneMore(walls, cells, cur, W[i - 1])
\* n steps from cur are too few to reach a goal
TooFew(W, n, walls, cur) == \A i \in 0..n - 1 : Meets(walls, cur, W[i]) = {}
Shortest(walls, cells, cur, goals) ==
  \E n \in Nat : \E W :
    /\ Stages(W, n, walls, cells, cur, goals) /\ TooFew(W, n, walls, cur)
    /\ FirstSteps(walls, cells, cur, goals) = Meets(walls, cur, W[n])

(* What the autopilot's search answers are the first steps of the shortest    *)
(* ways, all of them and no others: the steps from cur into the first stage   *)
(* that any step leads into (brains.py's _bfs_first_step).                    *)
THEOREM FirstStepsAreShortest ==
  ASSUME NEW walls, NEW cells, IsFiniteSet(cells), NEW cur, NEW goals
  PROVE  Shortest(walls, cells, cur, goals)
<1> DEFINE Reached(near, n, W) == /\ Stages(W, n, walls, cells, cur, goals)
                                  /\ TooFew(W, n, walls, cur) /\ W[n] = near
           Fam == {near \in SUBSET cells : \E n \in Nat : \E W : Reached(near, n, W)}
<1>1. Goals(cells, cur, goals) \in Fam
  <2> DEFINE W == [i \in 0..0 |-> Goals(cells, cur, goals)]
  <2>1. Goals(cells, cur, goals) \in SUBSET cells
    BY DEF Goals
  <2>2. Stages(W, 0, walls, cells, cur, goals)
    BY <2>1 DEF Stages
  <2>3. TooFew(W, 0, walls, cur) /\ W[0] = Goals(cells, cur, goals)
    BY DEF TooFew
  <2> HIDE DEF W
  <2> QED BY <2>1, <2>2, <2>3
<1>2. ASSUME NEW near \in SUBSET cells, near \in Fam, Meets(walls, cur, near) = {}
      PROVE  OneMore(walls, cells, cur, near) \in Fam
  <2> DEFINE more == OneMore(walls, cells, cur, near)
  <2>1. PICK n \in Nat : \E W : Reached(near, n, W)
    BY <1>2
  <2>2. PICK W : Reached(near, n, W)
    BY <2>1
  <2>3. more \in SUBSET cells
    BY DEF OneMore
  <2> DEFINE V == [i \in 0..n + 1 |-> IF i = n + 1 THEN more ELSE W[i]]
  <2>4. V[n + 1] = more /\ \A i \in 0..n : V[i] = W[i]
    BY <2>1
  <2>5. /\ W \in [0..n -> SUBSET cells] /\ W[0] = Goals(cells, cur, goals)
        /\ \A i \in 1..n : W[i] = OneMore(walls, cells, cur, W[i - 1])
        /\ W[n] = near /\ \A i \in 0..n - 1 : Meets(walls, cur, W[i]) = {}
    BY <2>2 DEF Stages, TooFew
  <2>6. V \in [0..n + 1 -> SUBSET cells]
    <3> HIDE DEF more
    <3> QED BY <2>3, <2>5
  <2> HIDE DEF V, Reached
  <2>7. \A i \in 1..n + 1 : V[i] = OneMore(walls, cells, cur, V[i - 1])
    <3>1. ASSUME NEW i \in 1..n PROVE V[i] = OneMore(walls, cells, cur, V[i - 1])
      <4>1. i - 1 \in 0..n /\ i \in 0..n
        BY <2>1
      <4> QED BY <2>4, <2>5, <4>1
    <3>2. V[n + 1] = OneMore(walls, cells, cur, V[n + 1 - 1])
      <4>1. n + 1 - 1 = n /\ n \in 0..n
        BY <2>1
      <4> QED BY <2>4, <2>5, <4>1
    <3> QED BY <3>1, <3>2
  <2>8. Stages(V, n + 1, walls, cells, cur, goals)
    BY <2>4, <2>5, <2>6, <2>7 DEF Stages
  <2>9. TooFew(V, n + 1, walls, cur)
    <3>1. ASSUME NEW i \in 0..n PROVE Meets(walls, cur, V[i]) = {}
      <4>1. V[i] = W[i]
        BY <2>4
      <4>2. CASE i = n
        BY <1>2, <2>5, <4>1, <4>2
      <4>3. CASE i # n
        <5>1. i \in 0..n - 1
          BY <2>1, <4>3
        <5> QED BY <2>5, <4>1, <5>1
      <4> QED BY <4>2, <4>3
    <3>2. n + 1 - 1 = n
      BY <2>1
    <3> QED BY <3>1, <3>2 DEF TooFew
  <2>10. Reached(more, n + 1, V)
    BY <2>4, <2>8, <2>9 DEF Reached
  <2> HIDE DEF more
  <2> QED BY <2>3, <2>10 DEF more
<1>3. StopsWell(walls, cells, cur, goals, Fam)
  <2> HIDE DEF Fam
  <2> QED BY <1>1, <1>2, SearchAnswers
<1>4. PICK near \in Fam : FirstSteps(walls, cells, cur, goals) = Meets(walls, cur, near)
  <2> HIDE DEF Fam
  <2> QED BY <1>3 DEF StopsWell
<1> QED BY <1>4 DEF Shortest
===============================================================================
