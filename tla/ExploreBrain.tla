----------------------------- MODULE ExploreBrain -----------------------------
(***************************************************************************)
(* The free autopilot of core/brains.py as a function of what it observes: *)
(* the visited cells with the directions that are walls, the perceiver's   *)
(* frontiers, the cells it predicts to be blocked, and a destination.      *)
(* Of several equally short ways any may be taken; the code's search takes *)
(* the one it queued first.                                                *)
(***************************************************************************)
EXTENDS Integers

Order == <<"up", "down", "left", "right">>
Directions == {Order[i] : i \in 1..4}
Delta == [up |-> <<0, -1>>, down |-> <<0, 1>>, left |-> <<-1, 0>>,
          right |-> <<1, 0>>]
Neighbour(c, d) == <<c[1] + Delta[d][1], c[2] + Delta[d][2]>>

\* walls is a function on the visited cells; of any other cell none is known
Open(walls, c) ==
  IF c \in DOMAIN walls THEN Directions \ walls[c] ELSE Directions

\* _bfs_first_step: the first steps of the shortest ways over cells from cur
\* to one of goals.  near is the set of cells that a way of some length leads
\* from; it grows until it meets cur, or no more.
FirstSteps(walls, cells, cur, goals) ==
  LET meets(near) == {d \in Open(walls, cur) : Neighbour(cur, d) \in near}
      grown[near \in SUBSET cells] ==
        LET more == near \cup {c \in cells \ {cur} : \E d \in Open(walls, c) :
                                                 Neighbour(c, d) \in near}
        IN  IF meets(near) # {} \/ more = near THEN near ELSE grown[more]
  IN  meets(grown[(goals \cap cells) \ {cur}])

\* _unexplored_dir: the first direction that leads to a cell not visited and
\* not avoided
UnexploredDir(walls, c, avoided) ==
  LET leads == {i \in 1..4 : /\ Order[i] \in Open(walls, c)
                             /\ Neighbour(c, Order[i])
                                  \notin DOMAIN walls \cup avoided}
  IN  IF leads = {} THEN {}
      ELSE {Order[CHOOSE i \in leads : \A j \in leads : i <= j]}

\* one pass of decide() over the frontiers
Pass(walls, cur, frontiers, avoided) ==
  LET useful == {f \in frontiers : UnexploredDir(walls, f, avoided) # {}}
  IN  IF UnexploredDir(walls, cur, avoided) # {}
      THEN UnexploredDir(walls, cur, avoided)
      ELSE FirstSteps(walls, DOMAIN walls, cur, useful)

(* Mutant: the second pass, which forgets the predictions, is missing. *)
ExploreDirsCareful(walls, cur, frontiers, predicted, goto) ==
  LET steered == FirstSteps(walls, DOMAIN walls, cur, {goto})
  IN  IF steered # {} THEN steered ELSE Pass(walls, cur, frontiers, predicted)

\* decide() with a known pose: to the destination if there is a way, else to a
\* frontier, avoiding predicted walls if that is possible; empty when it
\* returns None.  (Portals and probes are off in this configuration.)
ExploreDirs(walls, cur, frontiers, predicted, goto) ==
  LET steered == FirstSteps(walls, DOMAIN walls, cur, {goto})
      careful == Pass(walls, cur, frontiers, predicted)
  IN  IF steered # {} THEN steered
      ELSE IF careful # {} THEN careful
      ELSE Pass(walls, cur, frontiers, {})
=============================================================================
