------------------------------- MODULE FreeWalk -------------------------------
(***************************************************************************)
(* The walking half of world_mcp.py's World on Pokemon Red: its tools, the *)
(* perception plugin between them and the perceiver, and the free autopilot *)
(* of explore and goto.  The game is what it does to a press: a step, a    *)
(* bump, a door with or without a fade that is seen, a text that opens or  *)
(* closes, a cutscene that leaves the player in another room.              *)
(***************************************************************************)
EXTENDS OverworldPerceiver, FiniteSets

CONSTANTS
  Tiles,       \* the spots <<room, x, y>> that can be stood on
  Doors,       \* <<spot, direction>> -> the spot behind the door
  Commands,    \* the button sequences a model may press; <<>> is waiting or A
  MaxCalls, MaxJumps, MaxTexts,   \* bounds of the instance
  MaxSteps     \* the autopilot's max_steps

ASSUME WalkAssumption ==
  /\ \A t \in Tiles : t = <<t[1], t[2], t[3]>> /\ {t[2], t[3]} \subseteq Int
  /\ \A k \in DOMAIN Doors : k[1] \in Tiles /\ Doors[k] \in Tiles
  /\ Commands \subseteq Seq(Directions)

\* A room is a set of tiles whose frames align by a shift; no run of doors in
\* one direction, crossed by one press, leads back to the room it began in.
ASSUME RoomAssumption ==
  \A k \in DOMAIN Doors : \E beyond \in SUBSET {t[1] : t \in Tiles} :
    /\ k[1][1] \notin beyond /\ Doors[k][1] \in beyond
    /\ \A l \in DOMAIN Doors :
         l[2] = k[2] /\ l[1][1] \in beyond => Doors[l][1] \in beyond

\* _SHIFT_RANGE: frames that are more than four tiles apart are not aligned.
ASSUME RangeAssumption == \A buttons \in Commands : Len(buttons) <= 4

NoGoal == <<>>

VARIABLES
  spot,      \* where the player really is
  text,      \* what covers the overworld: "none", "menu" (or a battle's),
             \* "dialog", or "stuck", a dialog whose free presses are spent
  did,       \* what the next observation is told: _last_action, _fade_seen and
             \* whether the emulator ran since the last one
  mem,       \* PerceptMemory
  tool,      \* "none", "auto" in _run_autopilot, "render" before the trailing
             \* observe
  goal, left, why,   \* the autopilot's target, steps left and last answer
  calls, jumps, texts,
  \* history
  anchor,    \* the place minted by the last re-anchor, the first one before it
  calm,      \* observed single steps since something else happened, up to 2
  bumped     \* the last press left the player where it was
vars == <<spot, text, did, mem, tool, goal, left, why, calls, jumps, texts,
          anchor, calm, bumped>>
auto == <<goal, left, why>>

Init ==
  /\ spot \in {t \in Tiles : t[1] = 1}
  /\ text = "none"
  /\ did = [buttons |-> <<>>, fade |-> FALSE, advanced |-> FALSE]
  /\ mem = NewMap(spot)
  /\ tool = "none" /\ goal = NoGoal /\ left = 0 /\ why = "none"
  /\ calls = 0 /\ jumps = 0 /\ texts = 0
  /\ anchor = 1 /\ calm = 0 /\ bumped = FALSE

-------------------------------------------------------------------------------
\* one button of a press on free ground
Step(at, d) ==
  LET to == <<at.spot[1], at.spot[2] + Delta[d][1], at.spot[3] + Delta[d][2]>>
  IN  IF <<at.spot, d>> \in DOMAIN Doors
      THEN [spot |-> Doors[<<at.spot, d>>], crossed |-> TRUE]
      ELSE [at EXCEPT !.spot = IF to \in Tiles THEN to ELSE @]
Walk(buttons) ==
  LET at[i \in 0..Len(buttons)] ==
        IF i = 0 THEN [spot |-> spot, crossed |-> FALSE]
        ELSE Step(at[i - 1], buttons[i])
  IN  at[Len(buttons)]

Told(buttons, fade) ==
  did' = [buttons |-> buttons, fade |-> fade, advanced |-> TRUE]

Walks(buttons) ==
  LET end == Walk(buttons)
  IN  /\ text = "none"
      /\ spot' = end.spot
      /\ bumped' = (end.spot = spot)
      /\ \E fade \in IF end.crossed THEN BOOLEAN ELSE {FALSE} : Told(buttons, fade)
      /\ \/ text' = "none" /\ UNCHANGED texts
         \/ text' \in {"menu", "dialog"} /\ texts < MaxTexts /\ texts' = texts + 1
      /\ UNCHANGED jumps
Reads(buttons) ==
  /\ text # "none"
  /\ text' \in {"none", "menu", "dialog", "stuck"}
  /\ bumped' = FALSE
  /\ Told(buttons, FALSE)
  /\ UNCHANGED <<spot, jumps, texts>>
Jumps(buttons) ==
  /\ jumps < MaxJumps
  /\ jumps' = jumps + 1
  /\ spot' \in {t \in Tiles : t[1] # spot[1]}
  /\ text' = "none"
  /\ bumped' = FALSE
  /\ \E fade \in BOOLEAN : Told(buttons, fade)
  /\ UNCHANGED texts
Presses(buttons) == Walks(buttons) \/ Reads(buttons) \/ Jumps(buttons)

\* an observation of a dialog begins with free presses, until something else is
\* shown or the budget is spent; what they leave is observed next
Advance ==
  /\ tool # "none" /\ text = "dialog"
  /\ mem' = PerceiveText(mem)
  /\ \/ Jumps(<<>>)
     \/ /\ text' \in {"none", "menu", "stuck"}
        /\ bumped' = FALSE
        /\ Told(<<>>, FALSE)
        /\ UNCHANGED <<spot, jumps, texts>>
  /\ UNCHANGED <<tool, auto, calls, anchor, calm>>

\* _perceive_once: the frame and the context go to the perceiver, which uses
\* them up
Observe ==
  /\ text # "dialog"
  /\ mem' = IF text = "none" THEN Perceive(mem, spot, did) ELSE PerceiveText(mem)
  /\ anchor' = IF mem.lost /\ ~mem'.lost THEN Len(mem.places) + 1 ELSE anchor
  /\ calm' =
       IF text # "none" \/ did.fade THEN 0
       ELSE IF ~did.advanced THEN calm
       ELSE IF SingleDir(did.buttons) = "none" \/ SceneCut(mem.prev, spot) THEN 0
       ELSE IF calm < 2 THEN calm + 1 ELSE calm
UsedUp ==
  /\ did' = [did EXCEPT !.fade = FALSE, !.advanced = FALSE]
  /\ bumped' = FALSE
WorldUntouched == UNCHANGED <<spot, text, calls, jumps, texts>>

-------------------------------------------------------------------------------
\* World.call: a direct action, and the observation that ends every tool call
Call == tool = "none" /\ calls < MaxCalls /\ calls' = calls + 1
Act ==
  /\ Call
  /\ \E buttons \in Commands : Presses(buttons)
  /\ tool' = "render"
  /\ UNCHANGED <<mem, auto, anchor, calm>>
Render ==
  /\ tool = "render"
  /\ Observe /\ UsedUp
  /\ tool' = "none"
  /\ goal' = NoGoal /\ left' = 0 /\ why' = "none"
  /\ WorldUntouched
\* the tools observe and remember
Look ==
  /\ tool = "none"
  /\ Observe /\ UsedUp
  /\ WorldUntouched /\ UNCHANGED <<auto, tool>>

\* the tools explore and goto; a goto names a frontier that was shown
Explore ==
  /\ Call
  /\ tool' = "auto" /\ left' = MaxSteps /\ why' = "none"
  /\ goal' \in {NoGoal} \cup
       IF text # "none" \/ mem.lost THEN {} ELSE FrontierCells(mem, mem.place)
  /\ UNCHANGED <<spot, text, did, mem, jumps, texts, anchor, calm, bumped>>

\* one pass of _run_autopilot's loop
Arrive ==
  /\ tool = "auto"
  /\ Observe
  /\ goal # NoGoal /\ mem'.cursor = goal
  /\ why' = "arrived"
  /\ tool' = "render"
  /\ UsedUp
  /\ WorldUntouched /\ UNCHANGED <<goal, left>>
Answers == IF text = "none" THEN Decide(mem', goal) ELSE DecideBlind(mem')
GiveUp ==
  /\ tool = "auto"
  /\ Observe
  /\ goal # NoGoal => mem'.cursor # goal
  /\ "none" \in Answers
  /\ why' = IF goal = NoGoal THEN "exhausted" ELSE "no path"
  /\ tool' = "render"
  /\ UsedUp
  /\ WorldUntouched /\ UNCHANGED <<goal, left>>
Go ==
  /\ tool = "auto"
  /\ Observe
  /\ goal # NoGoal => mem'.cursor # goal
  /\ \E d \in Answers \ {"none"} : Presses(<<d>>)
  /\ left' = left - 1
  /\ IF left = 1 THEN why' = "step cap" /\ tool' = "render"
     ELSE UNCHANGED <<why, tool>>
  /\ UNCHANGED <<goal, calls>>

Next == Advance \/ Act \/ Render \/ Look \/ Explore \/ Arrive \/ GiveUp \/ Go
Spec == Init /\ [][Next]_vars

-------------------------------------------------------------------------------
(* Properties *)

\* The places that known doors lead to from here are exactly those minted
\* since the pose was last lost and found: nothing from before a cutscene is
\* reached or advertised again, and nothing found since is cut off.
NavigableSinceAnchor == Reachable(mem) = anchor..Len(mem.places)

\* While the pose is known, what a press in one direction did to the cursor is
\* what it did to the player, except for the first frame after a door or text.
PoseTracksMoves ==
  [][~mem.lost /\ ~mem'.lost /\ ~mem.resync /\ ~mem'.resync /\ mem' # mem
       /\ SingleDir(did.buttons) # "none"
     => /\ mem'.cursor[1] - mem.cursor[1] = spot[2] - mem.prev[2]
        /\ mem'.cursor[2] - mem.cursor[2] = spot[3] - mem.prev[3]]_vars

\* Two single steps with nothing in between find a lost pose again.
LostIsShort == calm = 2 => ~mem.lost

\* When the autopilot reports that it is out of reachable frontiers, no way
\* over the recorded map leads to one, but for the two the code does not try:
\* to a frontier of another room while this one has a frontier that cannot be
\* reached, and, when the nearest door that leads on cannot be walked to,
\* through a farther one.
Onward(m) ==
  LET cells == UNION {{<<p, c>> : c \in DOMAIN m.places[p]} : p \in DOMAIN m.places}
      walks(p) == {<<p[1], Neighbour(p[2], d)>> : d \in Directions \ m.places[p[1]][p[2]]}
      doors(p) == IF p \in DOMAIN m.edges
                  THEN {<<m.edges[p].to, m.edges[p].entry>>} ELSE {}
      onward[at \in SUBSET cells] ==
        LET more == at \cup (cells \cap UNION {walks(p) \cup doors(p) : p \in at})
        IN  IF more = at THEN at ELSE onward[more]
  IN  onward[{<<m.place, m.cursor>>}]
DoorBlocked(m) ==
  /\ FrontierCells(m, m.place) = {}
  /\ \E door \in HopsInto(m, PlaceFrontiers(m)) : StepsToward(m, door) = {}
GivesUpOnlyWhenDone ==
  [][tool = "auto" /\ tool' = "render" /\ why' = "exhausted" =>
       \/ DoorBlocked(mem')
       \/ \A p \in Onward(mem') :
            \/ p[2] \notin FrontierCells(mem', p[1])
            \/ p[1] # mem'.place /\ FrontierCells(mem', mem'.place) # {}]_vars

\* What the documentation says, and the code does not do.
\* perceiver.py: two looks at one frame are "not evidence of anything".  A wall
\* is recorded only in the direction of a press that has moved nothing, at the
\* first look after it.
Recorded(m) ==
  UNION {UNION {{<<p, c, d>> : d \in m.places[p][c]} :
                  c \in DOMAIN m.places[p]} : p \in DOMAIN m.places}
NewWalls == Recorded(mem') \ Recorded(mem)
PressedTowards(w) ==
  /\ did.buttons # <<>>
  /\ \A i \in 1..Len(did.buttons) : did.buttons[i] = w[3]
=============================================================================
