-------------------------- MODULE OverworldPerceiver --------------------------
(***************************************************************************)
(* The mapping half of games/pokemon_red/perceiver.py: what perceive() does *)
(* with its memory for one frame of the overworld or of a text screen, and *)
(* what it tells the autopilot.  A frame is the spot <<room, x, y>> that   *)
(* the player really stands on; two frames of one room are aligned by the  *)
(* shift between their spots, two frames of different rooms by none.       *)
(*                                                                         *)
(* A memory is a record of                                                 *)
(*   places   for each place in the order of minting, its visited cells    *)
(*            with the directions recorded as walls                        *)
(*   sealed   the <<place, cell>> pairs marked as portals                  *)
(*   edges    a door <<place, cell>> -> where it leads, and pressing what  *)
(*   place, cursor, lost, resync   as in the code                          *)
(*   prev     the last frame                                               *)
(***************************************************************************)
EXTENDS ExploreBrain, Sequences, TLC

Back == [up |-> "down", down |-> "up", left |-> "right", right |-> "left"]
Away(c, d, n) == <<c[1] + n * Delta[d][1], c[2] + n * Delta[d][2]>>

\* the initial memory; the first frame has no predecessor, as after a resync
NewMap(spot) ==
  [places |-> << <<>> >>, sealed |-> {}, edges |-> <<>>, place |-> 1,
   cursor |-> <<0, 0>>, lost |-> FALSE, resync |-> TRUE, prev |-> spot]

\* _single_dir: the direction of a press sequence if there is just one
SingleDir(buttons) ==
  IF \E d \in Directions : Len(buttons) > 0 /\ \A i \in 1..Len(buttons) :
                                                  buttons[i] = d
  THEN buttons[1] ELSE "none"

SceneCut(prev, spot) == prev[1] # spot[1]
Scrolled(prev, spot, d) ==
  LET axis == IF d \in {"up", "down"} THEN 3 ELSE 2
      by == spot[axis] - prev[axis]
  IN  IF by < 0 THEN -by ELSE by

\* cells.setdefault(...)["visited"] = True
Visit(cells, new) ==
  [c \in DOMAIN cells \cup new |-> IF c \in DOMAIN cells THEN cells[c] ELSE {}]
Here(m) == m.places[m.place]

(* Mutant: the pose is found again in the old place. *)
ReAnchorHere(m) == [m EXCEPT !.cursor = <<0, 0>>, !.lost = FALSE]
\* recovery: a fresh place at <<0, 0>>
ReAnchor(m) ==
  [m EXCEPT !.places = Append(@, <<>>), !.place = Len(m.places) + 1,
            !.cursor = <<0, 0>>, !.lost = FALSE]

\* the frame kept and the cell under the cursor visited
Seen(m, spot) ==
  [m EXCEPT !.places[m.place] = Visit(@, {m.cursor}),
            !.resync = FALSE, !.prev = spot]

(* Mutant: the way back is not recorded. *)
TransitOneWay(m, d) ==
  LET door == <<m.place, m.cursor>>
      known == door \in DOMAIN m.edges
      exit == IF known THEN m.edges[door]
              ELSE [to |-> Len(m.places) + 1, entry |-> <<0, 0>>, dir |-> d]
      back == Neighbour(exit.entry, Back[d])
      places == IF known THEN m.places ELSE Append(m.places, <<>>)
  IN  [m EXCEPT
         !.places = [places EXCEPT ![exit.to] = Visit(@, {exit.entry, back})],
         !.edges = IF known THEN @ ELSE (door :> exit) @@ @,
         !.sealed = @ \cup {door, <<exit.to, back>>},
         !.place = exit.to, !.cursor = exit.entry, !.resync = TRUE]

\* the doors with one more and the way back
Linked(edges, door, exit, way, return) ==
  [k \in {door, way} \cup DOMAIN edges |->
     IF k = door THEN exit ELSE IF k = way THEN return ELSE edges[k]]

\* _transit: through the door at the cursor to the known place behind it, or to
\* a fresh one with a way back; the door and the cell behind the arrival sealed
Transit(m, d) ==
  LET door == <<m.place, m.cursor>>
      known == door \in DOMAIN m.edges
      exit == IF known THEN m.edges[door]
              ELSE [to |-> Len(m.places) + 1, entry |-> <<0, 0>>, dir |-> d]
      return == [to |-> m.place, entry |-> m.cursor, dir |-> Back[d]]
      back == Neighbour(exit.entry, Back[d])
      places == IF known THEN m.places ELSE Append(m.places, <<>>)
  IN  [m EXCEPT
         !.places = [places EXCEPT ![exit.to] = Visit(@, {exit.entry, back})],
         !.edges = IF known THEN @
                   ELSE Linked(@, door, exit, <<exit.to, exit.entry>>, return),
         !.sealed = @ \cup {door, <<exit.to, back>>},
         !.place = exit.to, !.cursor = exit.entry, !.resync = TRUE]

(* Mutant: a press is one tile, however far the screen scrolled. *)
WalkedOne(m, d, tiles) ==
  IF tiles = 0
  THEN [m EXCEPT !.places[m.place][m.cursor] = @ \cup {d}]
  ELSE LET to == Neighbour(m.cursor, d)
       IN  [m EXCEPT
              !.places[m.place] = [Visit(@, {to})
                EXCEPT ![m.cursor] = @ \ {d}, ![to] = @ \ {Back[d]}],
              !.cursor = to]

\* a move visits the cells it goes over and clears the walls it went through
Trail(cells, c, d, tiles) ==
  [Visit(cells, {Away(c, d, n) : n \in 1..tiles})
     EXCEPT ![c] = @ \ {d}, ![Away(c, d, tiles)] = @ \ {Back[d]}]

\* a press in direction d scrolled the screen by so many tiles, none being a wall,
\* and never more than the search range of four (RangeAssumption)
Walked(m, d, tiles) ==
  IF tiles = 0
  THEN [m EXCEPT !.places[m.place][m.cursor] = @ \cup {d}]
  ELSE [m EXCEPT !.places[m.place] = Trail(@, m.cursor, d, tiles),
                 !.cursor = Away(@, d, tiles)]

(* Mutant: the frame seen while lost is not compared with the next one. *)
StayLostStale(m, spot) ==
  [m EXCEPT !.lost = TRUE, !.resync = TRUE, !.prev = spot]
StayLost(m, spot) ==
  [m EXCEPT !.lost = TRUE, !.resync = FALSE, !.prev = spot]

\* the pose is lost at a scene change that no press explains, and stays lost
\* until a single step is seen without one; did is the context the plugin hands
\* over: the buttons of the last action, whether a fade was seen, and whether
\* the emulator ran since the last observation
StillLost(m, spot, did) ==
  LET d == SingleDir(did.buttons)
      sceneChange == did.fade \/ (~m.resync /\ SceneCut(m.prev, spot))
  IN  \/ sceneChange /\ ~(did.fade /\ d # "none")
      \/ m.lost /\ (m.resync \/ sceneChange \/ d = "none" \/ ~did.advanced)

\* perceive() of an overworld frame
Perceive(m, spot, did) ==
  LET d == SingleDir(did.buttons)
      seen == Seen(IF m.lost THEN ReAnchor(m) ELSE m, spot)
  IN  IF StillLost(m, spot, did) THEN StayLost(m, spot)
      ELSE IF did.fade /\ d # "none" THEN Transit(seen, d)
      ELSE IF ~m.resync /\ d # "none"
      THEN Walked(seen, d, Scrolled(m.prev, spot, d))
      ELSE seen

\* a menu, a text or a battle is not walked on
PerceiveText(m) == [m EXCEPT !.resync = TRUE]

\* the places that known doors lead to from here: no set of places that has
\* this one and all that doors lead to from its places goes without them
Closed(m, some) ==
  /\ m.place \in some
  /\ \A k \in DOMAIN m.edges : k[1] \in some => m.edges[k].to \in some
Reachable(m) ==
  LET closed == {some \in SUBSET (1..Len(m.places)) : Closed(m, some)}
  IN  {p \in 1..Len(m.places) : \A some \in closed : p \in some}

\* _has_frontier, and the cells it is about
FrontierCells(m, p) ==
  {c \in DOMAIN m.places[p] : /\ <<p, c>> \notin m.sealed
                              /\ UnexploredDir(m.places[p], c, {}) # {}}
PlaceFrontiers(m) == {p \in Reachable(m) : FrontierCells(m, p) # {}}

\* _route_first_portal: the doors out of this place that lead to a nearest one
\* of the wanted places
HopsInto(m, wanted) ==
  LET out(near) == {k \in DOMAIN m.edges : k[1] = m.place /\ m.edges[k].to \in near}
      grown[near \in SUBSET (1..Len(m.places))] ==
        LET more == near \cup {k[1] : k \in {k \in DOMAIN m.edges :
                                 k[1] # m.place /\ m.edges[k].to \in near}}
        IN  IF out(near) # {} \/ more = near THEN near ELSE grown[more]
  IN  out(grown[wanted])

\* _cross_place for one of these doors: walk to it, or step through it
StepsToward(m, door) ==
  IF m.cursor = door[2] THEN {m.edges[door].dir}
  ELSE FirstSteps(Here(m), DOMAIN Here(m), m.cursor, {door[2]})

\* what decide() answers on a text screen or with a lost pose: the map it is
\* given is empty
DecideBlind(m) == UnexploredDir(<<>>, m.cursor, {})

OrNone(dirs) == IF dirs = {} THEN {"none"} ELSE dirs

(* Mutant: the way over another room is missing. *)
DecideHere(m, goal) ==
  LET local == ExploreDirs(Here(m), m.cursor, FrontierCells(m, m.place), {}, goal)
  IN  IF m.lost THEN DecideBlind(m) ELSE OrNone(local)

\* decide() with this memory's observation: a direction to press, or none
Decide(m, goal) ==
  LET local == ExploreDirs(Here(m), m.cursor, FrontierCells(m, m.place), {}, goal)
      wanted == PlaceFrontiers(m)
      doors == IF m.place \in wanted THEN {} ELSE HopsInto(m, wanted)
  IN  IF m.lost THEN DecideBlind(m)
      ELSE IF local # {} THEN local
      ELSE IF doors = {} THEN {"none"}
      ELSE UNION {OrNone(StepsToward(m, door)) : door \in doors}
=============================================================================
