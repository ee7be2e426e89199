------------------------------ MODULE GateWorld ------------------------------
(***************************************************************************)
(* The gating probe: run_episode drives HybridBrain, with ExploreBrain as  *)
(* its autopilot and ScriptedReasoner as the model it wakes, through       *)
(* GateWorld, a grid whose far side lies behind a gate that opens only     *)
(* with an item found elsewhere.  A press in a new direction only turns;   *)
(* the autopilot and the reasoner press a direction twice, so that they    *)
(* move one cell after a turn and two cells straight ahead.                *)
(***************************************************************************)
EXTENDS HybridBrain, ExploreBrain

CONSTANTS
  Maps,         \* records [floor, start, gate, item, goal]; NoPose for none
  MaxSteps,     \* decisions of an episode
  Predictions   \* sets of cells a perceiver may predict to be blocked

ASSUME MapsAssumption ==
  \A m \in Maps : /\ m.floor \subseteq Int \X Int /\ IsFiniteSet(m.floor)
                  /\ m.start \in m.floor \ {m.gate}
                  /\ \A c \in m.floor :
                       [ctx |-> "overworld", pose |-> c, text |-> NoText] \in Frames

VARIABLES
  map, predicted,   \* chosen once
  world,            \* the rest of GateWorld's attributes
  taken             \* decisions taken

worldVars == <<map, predicted, world, taken>>

-----------------------------------------------------------------------------
(* games/gateworld/world.py                                                 *)

Passable(w, c) == c \in map.floor /\ (c = map.gate => w.gateOpen)
WallsAt(w, c) == {d \in Directions : ~Passable(w, Neighbour(c, d))}
Near(c) == {c} \cup {Neighbour(c, d) : d \in Directions}
Reveal(w) ==
  [w EXCEPT !.revealed =
     @ \cup (Near(w.pos) \cap {map.gate, map.goal,
                               IF w.itemThere THEN map.item ELSE NoPose})]

\* _apply of a direction: turn, or step, or bump
Press(w, d) ==
  LET target == Neighbour(w.pos, d)
  IN  IF w.facing # d THEN [w EXCEPT !.facing = d]
      ELSE IF ~Passable(w, target) THEN w
      ELSE Reveal([w EXCEPT !.pos = target, !.visited = @ \cup {target},
                            !.solved = @ \/ target = map.goal])

\* _interact
Interact(w) ==
  IF w.itemThere /\ w.pos = map.item /\ ~w.hasItem
  THEN [w EXCEPT !.hasItem = TRUE, !.itemThere = FALSE]
  ELSE IF ~w.gateOpen /\ map.gate \in Near(w.pos) \ {w.pos} /\ w.hasItem
  THEN [w EXCEPT !.gateOpen = TRUE, !.hasItem = FALSE]
  ELSE w

\* handle(): a direction is pressed twice (_move of either brain), "a" once
Handle(w, action) ==
  IF action = "a" THEN Interact(w) ELSE Press(Press(w, action), action)

\* what observe() shows
Shown == [ctx |-> "overworld", pose |-> world.pos, text |-> NoText]
Known == [c \in world.visited |-> WallsAt(world, c)]
Frontiers ==
  {c \in world.visited : \E d \in Directions :
     Passable(world, Neighbour(c, d)) /\ Neighbour(c, d) \notin world.visited}

-----------------------------------------------------------------------------
(* games/gateworld/solver.py                                                *)

\* a step of a shortest way to a target, else the first open direction
Toward(targets) ==
  LET steps == FirstSteps(Known, world.visited \cup targets, world.pos, targets)
      open == {i \in 1..4 : Order[i] \in Open(Known, world.pos)}
  IN  IF world.pos \notin targets /\ steps # {} THEN steps
      ELSE IF open = {} THEN {"down"}
      ELSE {Order[CHOOSE i \in open : \A j \in open : i <= j]}

(* Mutant: the gate comes before the item. *)
ReasonerGateFirst ==
  IF map.gate \in world.revealed \ {NoPose} /\ ~world.gateOpen
  THEN IF map.gate \in Near(world.pos) \ {world.pos} THEN {"a"}
       ELSE Toward((Near(map.gate) \ {map.gate}) \cap world.visited)
  ELSE IF ~world.hasItem /\ world.itemThere /\ map.item \in world.revealed
  THEN IF world.pos = map.item THEN {"a"} ELSE Toward({map.item})
  ELSE IF map.goal = NoPose \/ world.pos = map.goal THEN {"down"}
  ELSE Toward({map.goal})

Reasoner ==
  IF ~world.hasItem /\ world.itemThere /\ map.item \in world.revealed
  THEN IF world.pos = map.item THEN {"a"} ELSE Toward({map.item})
  ELSE IF map.gate \in world.revealed \ {NoPose} /\ ~world.gateOpen
  THEN IF map.gate \in Near(world.pos) \ {world.pos} THEN {"a"}
       ELSE Toward((Near(map.gate) \ {map.gate}) \cap world.visited)
  ELSE IF map.goal = NoPose \/ world.pos = map.goal THEN {"down"}
  ELSE Toward({map.goal})

-----------------------------------------------------------------------------
(* core/runner.py: observe, decide, execute                                 *)

Autopiloted == ExploreDirs(Known, world.pos, Frontiers, predicted,
                           Goto(Shown))

Explores ==
  /\ Autopiloted # {}
  /\ Autopilot(Shown)
  /\ lastAction' \in Autopiloted

Reasons ==
  /\ \/ Autopiloted = {} /\ WakeStuck(Shown)
     \/ WakeNoMove(Shown)
  /\ apiErrors' = 0
  /\ lastAction' \in Reasoner

GateInit ==
  /\ Init
  /\ config = FALSE
  /\ map \in Maps /\ predicted \in Predictions
  /\ world = Reveal([pos |-> map.start, facing |-> "down", hasItem |-> FALSE,
                     itemThere |-> map.item # NoPose, gateOpen |-> FALSE,
                     solved |-> FALSE, visited |-> {map.start},
                     revealed |-> {}])
  /\ taken = 0

RunStep ==
  /\ taken < MaxSteps
  /\ taken' = taken + 1
  /\ (Explores \/ Reasons)
  /\ History(Shown)
  /\ world' = Handle(world, lastAction')
  /\ UNCHANGED <<map, predicted>>

GateVars == <<vars, worldVars>>
GateSpec == GateInit /\ [][RunStep]_GateVars

-----------------------------------------------------------------------------
(* Properties.                                                              *)

\* the cells of the floor that can be reached from the start
Reach(floor) ==
  LET grown[some \in SUBSET floor] ==
        LET more == some \cup (floor \cap UNION {Near(c) : c \in some})
        IN  IF more = some THEN some ELSE grown[more]
  IN  grown[{map.start}]
NearSide == Reach(map.floor \ {map.gate})
Solvable ==
  \/ map.goal \in NearSide
  \/ /\ map.item \in NearSide
     /\ \E c \in NearSide : map.gate \in Near(c)
     /\ map.goal \in Reach(map.floor)

\* The model is woken by an autopilot with nothing left to do only when every
\* cell that can be reached through the gates opened so far was visited,
\* whatever was predicted about the cells: a wrong prediction delays a path
\* and never hides one (brains.py 198-201).
WokenWhenExplored ==
  [][mode' = "stuck" =>
       world.visited =
         Reach(map.floor \ (IF world.gateOpen THEN {} ELSE {map.gate}))]_GateVars

\* An episode leaves no cell unvisited that can be reached without the gate,
\* though straight moves overshoot by a cell and a predicted wall is avoided
\* at first, and it solves every map that has a solution: fetch the item,
\* carry it to the gate, open it, explore on (tests/test_gateworld.py 103).
EpisodeSucceeds ==
  taken = MaxSteps =>
    /\ NearSide \subseteq world.visited
    /\ Solvable => world.solved
=============================================================================
