-------------------------- MODULE GateWorldProofs --------------------------
(***************************************************************************)
(* Theorems about HybridBrain, for every set of frames, moves and actions   *)
(* and every value of the thresholds, and about its play in GateWorld, for  *)
(* every finite map and every prediction.                                   *)
(***************************************************************************)
EXTENDS GateWorld, ExploreBrainProofs

(* The types the arguments below rest on. *)
TypeInv ==
  /\ frame \in Frames \cup {NoFrame}
  /\ beat \in {0, 1}
  /\ streak \in 0..ReplanAfter
  /\ still \in 0..ReplanAfter
  /\ sinceNudge \in 0..ReplanAfter
  /\ surprised \in BOOLEAN
  /\ transcript \in Seq(Texts)
  /\ Len(transcript) <= TranscriptCap

(* The detector's streak is the shorter of two histories: the decisions in a *)
(* row that achieved nothing, and those since the last note.                 *)
SinceNote == IF surprised THEN 0 ELSE sinceNudge
StreakIsHistory == streak = IF still < SinceNote THEN still ELSE SinceNote

IInv == TypeInv /\ StreakIsHistory /\ TranscriptIsWhatWasSkipped

-----------------------------------------------------------------------------
(* The frame is remembered whatever is decided. *)
LEMMA DecideRemembers ==
  ASSUME NEW f \in Frames, Decide(f)
  PROVE  frame' = f /\ beat' = 1 - beat
BY DEF Decide, FreeAdvance, Autopilot, WakeScreen, WakeNoMove, WakeStuck, Wake,
       Remember

(* Every decision is a free press, a move of the autopilot or a wake. *)
LEMMA DecideCases ==
  ASSUME NEW f \in Frames, Decide(f)
  PROVE  \/ FreeAdvance(f)
         \/ Autopilot(f)
         \/ \E why \in Woken : Wake(f, why)
<1>1. CASE WakeScreen(f)
  <2> DEFINE why == IF Cycling(f) THEN "cycle"
                    ELSE IF CanAdvance(f) THEN "fuse" ELSE "mode"
  <2>1. Wake(f, why)
    BY <1>1 DEF WakeScreen
  <2>2. why \in Woken
    BY DEF Woken
  <2> QED BY <2>1, <2>2
<1>2. CASE WakeNoMove(f)
  BY <1>2 DEF WakeNoMove, Woken
<1>3. CASE WakeStuck(f)
  BY <1>3 DEF WakeStuck, Woken
<1> QED BY <1>1, <1>2, <1>3 DEF Decide

-----------------------------------------------------------------------------
(* The destination changes only by being reached or by a reply that parsed:  *)
(* LLMButtonBrain's safe default names none (brains.py _wake).               *)
THEOREM DestinationIsEarned == Spec => GotoIsNamedOrReached
<1>1. ASSUME NEW f \in Frames, Decide(f), goto' # goto
      PROVE  \/ goto' = NoPose /\ frame'.pose = goto
             \/ WokenNow /\ apiErrors' = 0
  <2>1. frame' = f
    BY <1>1, DecideRemembers
  <2>2. CASE goto' = Goto(f)
    BY <1>1, <2>1, <2>2 DEF Goto
  <2>3. CASE \E why \in Woken : Wake(f, why)
    <3>1. PICK why \in Woken : Wake(f, why)
      BY <2>3
    <3>2. PICK r \in Replies :
            /\ goto' = IF r.goto = NoPose THEN Goto(f) ELSE r.goto
            /\ apiErrors' = IF r.ok THEN 0 ELSE UpTo(apiErrors + 1, MaxErrors)
            /\ mode' = why
      BY <3>1 DEF Wake
    <3>3. r.goto # NoPose => r.ok
      BY DEF Replies
    <3> QED BY <2>2, <3>2, <3>3 DEF WokenNow
  <2> QED BY <1>1, <2>2, <2>3, DecideCases DEF FreeAdvance, Autopilot
<1>2. ASSUME [Next]_vars
      PROVE  goto' # goto => \/ goto' = NoPose /\ frame'.pose = goto
                             \/ WokenNow /\ apiErrors' = 0
  BY <1>1, <1>2 DEF Next, vars
<1> QED BY <1>2, PTL DEF Spec, GotoIsNamedOrReached

-----------------------------------------------------------------------------
LEMMA InitInv == Init => IInv
<1> SUFFICES ASSUME Init PROVE IInv
  OBVIOUS
<1>1. ReplanAfter \in Nat \ {0} /\ TranscriptCap \in Nat \ {0}
  BY ThresholdAssumption DEF ThresholdAssumption
<1>2. TypeInv
  <2>1. <<>> \in Seq(Texts) /\ Len(<<>>) = 0
    OBVIOUS
  <2>2. transcript = <<>> /\ frame = NoFrame /\ beat = 0 /\ streak = 0 /\ still = 0
        /\ surprised = FALSE /\ sinceNudge = ReplanAfter
    BY DEF Init
  <2>3. frame \in Frames \cup {NoFrame} /\ surprised \in BOOLEAN
    BY <2>2
  <2>4. transcript \in Seq(Texts) /\ Len(transcript) <= TranscriptCap
    BY <1>1, <2>1, <2>2
  <2> QED BY <1>1, <2>2, <2>3, <2>4 DEF TypeInv
<1>3. StreakIsHistory
  BY <1>1 DEF Init, StreakIsHistory, SinceNote
<1>4. TranscriptIsWhatWasSkipped
  BY DEF Init, TranscriptIsWhatWasSkipped
<1> QED BY <1>2, <1>3, <1>4 DEF IInv

(* What a step makes of the streak and of its two histories; the note is     *)
(* raised exactly when both are long enough.                                 *)
LEMMA StreakStep ==
  ASSUME IInv, NEW f \in Frames, Decide(f), History(f)
  PROVE  /\ streak' \in 0..ReplanAfter /\ still' \in 0..ReplanAfter
         /\ sinceNudge' \in 0..ReplanAfter /\ surprised' \in BOOLEAN
         /\ StreakIsHistory'
         /\ WokenNow => (surprised' <=> still' >= ReplanAfter
                                        /\ sinceNudge' >= ReplanAfter)
<1>1. /\ ReplanAfter \in Nat \ {0}
      /\ streak \in 0..ReplanAfter /\ still \in 0..ReplanAfter
      /\ sinceNudge \in 0..ReplanAfter /\ surprised \in BOOLEAN
      /\ SinceNote \in 0..ReplanAfter
      /\ streak = IF still < SinceNote THEN still ELSE SinceNote
  BY ThresholdAssumption DEF ThresholdAssumption, IInv, TypeInv, StreakIsHistory,
     SinceNote
<1>2. /\ still' = IF mode' = "advance" \/ InBattle(f) \/ Progressed(f) THEN 0
                  ELSE UpTo(still + 1, ReplanAfter)
      /\ sinceNudge' = UpTo(SinceNote + 1, ReplanAfter)
  BY DEF History, SinceNote
<1>3. sinceNudge' \in 0..ReplanAfter /\ still' \in 0..ReplanAfter
  BY <1>1, <1>2 DEF UpTo
<1>4. CASE FreeAdvance(f)
  <2>1. streak' = 0 /\ still' = 0 /\ surprised' = FALSE /\ ~WokenNow
    BY <1>4, <1>2 DEF FreeAdvance, Remember, WokenNow, Woken
  <2>2. SinceNote' = sinceNudge'
    BY <2>1 DEF SinceNote
  <2>3. StreakIsHistory' /\ streak' \in 0..ReplanAfter
    BY <1>1, <1>3, <2>1, <2>2 DEF StreakIsHistory
  <2>4. surprised' \in BOOLEAN
    BY <2>1
  <2> QED BY <1>3, <2>1, <2>3, <2>4
<1> DEFINE short == IF still' < sinceNudge' THEN still' ELSE sinceNudge'
<1>5. ASSUME mode' # "advance"
      PROVE  Streak(f) = short
  <2>1. CASE InBattle(f) \/ Progressed(f)
    BY <1>1, <1>2, <1>3, <1>5, <2>1 DEF Streak
  <2>2. CASE ~(InBattle(f) \/ Progressed(f))
    <3>1. Streak(f) = UpTo(streak + 1, ReplanAfter)
      BY <2>2 DEF Streak
    <3>2. still' = UpTo(still + 1, ReplanAfter)
      BY <1>2, <1>5, <2>2
    <3> QED BY <1>1, <1>2, <3>1, <3>2 DEF UpTo
  <2> QED BY <2>1, <2>2
<1>6. CASE Autopilot(f)
  <2>1. streak' = short /\ surprised' = FALSE /\ ~WokenNow
    BY <1>5, <1>6 DEF Autopilot, Remember, WokenNow, Woken
  <2>2. SinceNote' = sinceNudge'
    BY <2>1 DEF SinceNote
  <2>3. StreakIsHistory' /\ streak' \in 0..ReplanAfter
    BY <1>1, <1>3, <2>1, <2>2 DEF StreakIsHistory
  <2>4. surprised' \in BOOLEAN
    BY <2>1
  <2> QED BY <1>3, <2>1, <2>3, <2>4
<1>7. ASSUME NEW why \in Woken, Wake(f, why)
      PROVE  /\ streak' = IF short >= ReplanAfter THEN 0 ELSE short
             /\ surprised' = (short >= ReplanAfter)
  <2>1. /\ streak' = IF Streak(f) >= ReplanAfter THEN 0 ELSE Streak(f)
        /\ surprised' = (Streak(f) >= ReplanAfter)
        /\ mode' = why
    BY <1>7 DEF Wake, Remember
  <2>2. Streak(f) = short
    BY <1>5, <2>1 DEF Woken
  <2> QED BY <2>1, <2>2
<1>8. CASE \E why \in Woken : Wake(f, why)
  <2>1. /\ streak' = IF short >= ReplanAfter THEN 0 ELSE short
        /\ surprised' = (short >= ReplanAfter)
    BY <1>7, <1>8
  <2>2. short >= ReplanAfter <=> still' >= ReplanAfter /\ sinceNudge' >= ReplanAfter
    BY <1>1, <1>3
  <2>3. surprised' <=> short >= ReplanAfter
    BY <2>1
  <2>4. surprised' \in BOOLEAN
    BY <2>1
  <2>5. StreakIsHistory' /\ streak' \in 0..ReplanAfter
    <3>1. CASE short >= ReplanAfter
      <4>1. streak' = 0 /\ SinceNote' = 0
        BY <2>1, <2>3, <3>1 DEF SinceNote
      <4> QED BY <1>1, <1>3, <4>1 DEF StreakIsHistory
    <3>2. CASE ~(short >= ReplanAfter)
      <4>1. streak' = short /\ SinceNote' = sinceNudge'
        BY <2>1, <2>3, <3>2 DEF SinceNote
      <4> QED BY <1>1, <1>3, <4>1 DEF StreakIsHistory
    <3> QED BY <3>1, <3>2
  <2> QED BY <1>3, <2>2, <2>3, <2>4, <2>5
<1> QED BY <1>4, <1>6, <1>8, DecideCases

(* The transcript holds what was skipped since the last wake, no line twice  *)
(* in a row, the oldest dropped at the cap.                                  *)
LEMMA TranscriptStep ==
  ASSUME IInv, NEW f \in Frames, Decide(f), History(f)
  PROVE  /\ transcript' \in Seq(Texts)
         /\ Len(transcript') <= TranscriptCap
         /\ TranscriptIsWhatWasSkipped'
<1>1. /\ TranscriptCap \in Nat \ {0}
      /\ transcript \in Seq(Texts) /\ Len(transcript) <= TranscriptCap
      /\ TranscriptIsWhatWasSkipped
  BY ThresholdAssumption DEF ThresholdAssumption, IInv, TypeInv
<1>2. skipped' = IF WokenNow THEN {}
                 ELSE IF mode' = "advance" /\ f.text # NoText
                 THEN skipped \cup {f.text} ELSE skipped
  BY DEF History
<1>3. CASE transcript' = transcript /\ skipped' = skipped
  BY <1>1, <1>3 DEF TranscriptIsWhatWasSkipped
<1>4. CASE Autopilot(f)
  <2>1. transcript' = transcript /\ mode' = "autopilot"
    BY <1>4 DEF Autopilot
  <2> QED BY <1>2, <1>3, <2>1 DEF WokenNow, Woken
<1>5. CASE \E why \in Woken : Wake(f, why)
  <2>1. transcript' = <<>> /\ mode' \in Woken
    BY <1>5 DEF Wake
  <2>2. skipped' = {}
    BY <1>2, <2>1 DEF WokenNow
  <2>3. <<>> \in Seq(Texts) /\ Len(<<>>) = 0
    OBVIOUS
  <2>4. TranscriptIsWhatWasSkipped'
    BY <2>1, <2>2, <2>3 DEF TranscriptIsWhatWasSkipped
  <2> QED BY <1>1, <2>1, <2>3, <2>4
<1>6. CASE FreeAdvance(f)
  <2>1. /\ mode' = "advance"
        /\ transcript' = IF f.text = NoText THEN transcript ELSE Noted(f.text)
    BY <1>6 DEF FreeAdvance
  <2>2. skipped' = IF f.text # NoText THEN skipped \cup {f.text} ELSE skipped
    BY <1>2, <2>1 DEF WokenNow, Woken
  <2> DEFINE lines == {transcript[i] : i \in 1..Len(transcript)}
  <2>3. /\ lines \subseteq skipped
        /\ Len(transcript) < TranscriptCap => lines = skipped
        /\ \A i \in 2..Len(transcript) : transcript[i] # transcript[i - 1]
    BY <1>1 DEF TranscriptIsWhatWasSkipped
  <2>4. CASE f.text = NoText
    BY <1>3, <2>1, <2>2, <2>4
  <2>5. CASE f.text # NoText
    <3> DEFINE t == f.text
               all == Append(transcript, t)
    <3>1. t \in Texts
      BY <2>5 DEF Texts
    <3>2. CASE transcript # <<>> /\ transcript[Len(transcript)] = t
      <4>1. transcript' = transcript
        BY <2>1, <2>5, <3>2 DEF Noted
      <4>2. t \in lines
        BY <1>1, <3>2
      <4>3. skipped' = skipped
        BY <2>2, <2>3, <2>5, <4>2
      <4> QED BY <1>3, <4>1, <4>3
    <3>3. CASE ~(transcript # <<>> /\ transcript[Len(transcript)] = t)
      <4>1. /\ all \in Seq(Texts) /\ Len(all) = Len(transcript) + 1
            /\ all[Len(all)] = t
            /\ \A i \in 1..Len(transcript) : all[i] = transcript[i]
        BY <1>1, <3>1
      <4>2. \A i \in 2..Len(all) : all[i] # all[i - 1]
        BY <1>1, <2>3, <3>3, <4>1
      <4>3. \A i \in 1..Len(all) : all[i] \in lines \cup {t}
        BY <1>1, <4>1
      <4>4. transcript' = SubSeq(all, IF Len(all) > TranscriptCap THEN 2 ELSE 1,
                                 Len(all))
        BY <2>1, <2>5, <3>3 DEF Noted
      <4>5. skipped' = skipped \cup {t}
        BY <2>2, <2>5
      <4>6. CASE Len(all) > TranscriptCap
        <5>1. Len(all) = TranscriptCap + 1
          BY <1>1, <4>1, <4>6
        <5>2. /\ transcript' = SubSeq(all, 2, Len(all))
              /\ transcript' \in Seq(Texts)
              /\ Len(transcript') = TranscriptCap
              /\ \A i \in 1..Len(transcript') : transcript'[i] = all[i + 1]
          BY <1>1, <4>1, <4>4, <4>6, <5>1
        <5> HIDE DEF all
        <5>3. {transcript'[i] : i \in 1..Len(transcript')} \subseteq skipped'
          BY <1>1, <2>3, <4>3, <4>5, <5>1, <5>2
        <5>4. \A i \in 2..Len(transcript') : transcript'[i] # transcript'[i - 1]
          BY <1>1, <4>2, <5>1, <5>2
        <5> QED BY <1>1, <5>2, <5>3, <5>4 DEF TranscriptIsWhatWasSkipped
      <4>7. CASE ~(Len(all) > TranscriptCap)
        <5>1. Len(transcript) < TranscriptCap
          BY <1>1, <4>1, <4>7
        <5>2. transcript' = all
          BY <1>1, <4>1, <4>4, <4>7
        <5> HIDE DEF all
        <5>3. {all[i] : i \in 1..Len(all)} = lines \cup {t}
          BY <1>1, <4>1
        <5>4. {transcript'[i] : i \in 1..Len(transcript')} = skipped'
          BY <2>3, <4>5, <5>1, <5>2, <5>3
        <5> QED BY <1>1, <4>1, <4>2, <4>7, <5>2, <5>4
                DEF TranscriptIsWhatWasSkipped
      <4> QED BY <4>6, <4>7
    <3> QED BY <3>2, <3>3
  <2> QED BY <2>4, <2>5
<1> QED BY <1>4, <1>5, <1>6, DecideCases

LEMMA StepInv == IInv /\ [Next]_vars => IInv'
<1> SUFFICES ASSUME IInv, [Next]_vars PROVE IInv'
  OBVIOUS
<1>1. ASSUME NEW f \in Frames, Decide(f), History(f)
      PROVE  IInv'
  <2>1. frame' \in Frames \cup {NoFrame} /\ beat' \in {0, 1}
    BY <1>1, DecideRemembers DEF IInv, TypeInv
  <2> QED BY <1>1, <2>1, StreakStep, TranscriptStep DEF IInv, TypeInv
<1>2. CASE UNCHANGED vars
  BY <1>2 DEF vars, memory, IInv, TypeInv, StreakIsHistory, SinceNote,
     TranscriptIsWhatWasSkipped
<1> QED BY <1>1, <1>2 DEF Next

THEOREM Invariance == Spec => []IInv
BY InitInv, StepInv, PTL DEF Spec

(* At a wake the model is handed what free play pressed past, nothing else.  *)
THEOREM TranscriptIsFaithful == Spec => []TranscriptIsWhatWasSkipped
<1>1. IInv => TranscriptIsWhatWasSkipped
  BY DEF IInv
<1> QED BY <1>1, Invariance, PTL

(* A wake carries a surprise note exactly when ReplanAfter decisions in a row *)
(* achieved nothing and none of them followed an earlier note.               *)
THEOREM SurpriseIsJustified == Spec => SurpriseIsEarned
<1>1. ASSUME IInv, [Next]_vars
      PROVE  WokenNow /\ beat' # beat =>
               (surprised' <=> still' >= ReplanAfter /\ sinceNudge' >= ReplanAfter)
  BY <1>1, StreakStep DEF Next, vars
<1> QED BY <1>1, Invariance, PTL DEF Spec, SurpriseIsEarned
-----------------------------------------------------------------------------
(* The play in GateWorld.                                                    *)

WorldFields == {"pos", "facing", "hasItem", "itemThere", "gateOpen", "solved",
                "visited", "revealed"}

(* The visited cells hang together: only all of them contain the start and   *)
(* the visited neighbours of all they contain.                               *)
Joined(visited) ==
  \A some \in SUBSET visited :
    /\ map.start \in some
    /\ \A c \in some : \A d \in Directions :
         Neighbour(c, d) \in visited => Neighbour(c, d) \in some
    => some = visited

Sound(w) ==
  /\ w = [f \in WorldFields |-> w[f]]
  /\ w.visited \subseteq map.floor
  /\ map.start \in w.visited /\ w.pos \in w.visited
  /\ map.gate \in w.visited => w.gateOpen
  /\ Joined(w.visited)

GateInv == map \in Maps /\ Sound(world)

LEMMA RevealSound ==
  ASSUME NEW w, Sound(w)
  PROVE  Sound(Reveal(w))
<1> DEFINE shown == w.revealed \cup (Near(w.pos) \cap {map.gate, map.goal,
                               IF w.itemThere THEN map.item ELSE NoPose})
           v == [w EXCEPT !.revealed = shown]
<1>1. Reveal(w) = v
  BY DEF Reveal
<1>2. w = [f \in WorldFields |-> w[f]]
  BY DEF Sound
<1> HIDE DEF shown
<1>3. /\ v = [f \in WorldFields |-> v[f]] /\ v.visited = w.visited
      /\ v.pos = w.pos /\ v.gateOpen = w.gateOpen
  BY <1>2 DEF WorldFields
<1> HIDE DEF v
<1> QED BY <1>1, <1>3 DEF Sound

(* A cell next to a visited one joins them. *)
LEMMA JoinedGrows ==
  ASSUME NEW visited, Joined(visited), map.start \in visited,
         NEW c \in visited, NEW d \in Directions
  PROVE  Joined(visited \cup {Neighbour(c, d)})
<1> DEFINE all == visited \cup {Neighbour(c, d)}
<1>1. SUFFICES ASSUME NEW some \in SUBSET all, map.start \in some,
                      \A e \in some : \A h \in Directions :
                        Neighbour(e, h) \in all => Neighbour(e, h) \in some
               PROVE  some = all
  BY DEF Joined
<1>2. some \cap visited \in SUBSET visited /\ map.start \in some \cap visited
  BY <1>1
<1>3. \A e \in some \cap visited : \A h \in Directions :
        Neighbour(e, h) \in visited => Neighbour(e, h) \in some \cap visited
  BY <1>1
<1>4. some \cap visited = visited
  BY <1>2, <1>3 DEF Joined
<1>5. Neighbour(c, d) \in some
  BY <1>1, <1>4
<1> QED BY <1>4, <1>5

LEMMA PressSound ==
  ASSUME NEW w, Sound(w), NEW d \in Directions
  PROVE  Sound(Press(w, d))
<1> DEFINE target == Neighbour(w.pos, d)
<1>1. w = [f \in WorldFields |-> w[f]]
  BY DEF Sound
<1>2. CASE w.facing # d
  <2> DEFINE v == [w EXCEPT !.facing = d]
  <2>1. Press(w, d) = v
    BY <1>2 DEF Press
  <2>2. /\ v = [f \in WorldFields |-> v[f]] /\ v.visited = w.visited
        /\ v.pos = w.pos /\ v.gateOpen = w.gateOpen
    BY <1>1 DEF WorldFields
  <2> HIDE DEF v
  <2> QED BY <2>1, <2>2 DEF Sound
<1>3. CASE w.facing = d /\ ~Passable(w, target)
  BY <1>3 DEF Press
<1>4. CASE w.facing = d /\ Passable(w, target)
  <2> DEFINE v == [w EXCEPT !.pos = target, !.visited = @ \cup {target},
                            !.solved = @ \/ target = map.goal]
  <2>1. Press(w, d) = Reveal(v)
    BY <1>4 DEF Press
  <2>2. target \in map.floor /\ (target = map.gate => w.gateOpen)
    BY <1>4 DEF Passable
  <2>3. Joined(w.visited \cup {target})
    BY JoinedGrows DEF Sound
  <2> HIDE DEF target
  <2>4. /\ v = [f \in WorldFields |-> v[f]] /\ v.visited = w.visited \cup {target}
        /\ v.pos = target /\ v.gateOpen = w.gateOpen
    BY <1>1 DEF WorldFields
  <2> HIDE DEF v
  <2>5. Sound(v)
    BY <2>2, <2>3, <2>4 DEF Sound
  <2> QED BY <2>1, <2>5, RevealSound
<1> QED BY <1>2, <1>3, <1>4

LEMMA HandleSound ==
  ASSUME NEW w, Sound(w), NEW action \in Directions \cup {"a"}
  PROVE  Sound(Handle(w, action))
<1>1. CASE action = "a"
  <2>1. w = [f \in WorldFields |-> w[f]]
    BY DEF Sound
  <2>2. Sound([w EXCEPT !.hasItem = TRUE, !.itemThere = FALSE])
    <3> DEFINE v == [w EXCEPT !.hasItem = TRUE, !.itemThere = FALSE]
    <3>1. /\ v = [f \in WorldFields |-> v[f]] /\ v.visited = w.visited
          /\ v.pos = w.pos /\ v.gateOpen = w.gateOpen
      BY <2>1 DEF WorldFields
    <3> HIDE DEF v
    <3>2. Sound(v)
      BY <3>1 DEF Sound
    <3> QED BY <3>2 DEF v
  <2>3. Sound([w EXCEPT !.gateOpen = TRUE, !.hasItem = FALSE])
    <3> DEFINE v == [w EXCEPT !.gateOpen = TRUE, !.hasItem = FALSE]
    <3>1. /\ v = [f \in WorldFields |-> v[f]] /\ v.visited = w.visited
          /\ v.pos = w.pos /\ v.gateOpen = TRUE
      BY <2>1 DEF WorldFields
    <3> HIDE DEF v
    <3>2. Sound(v)
      BY <3>1 DEF Sound
    <3> QED BY <3>2 DEF v
  <2> QED BY <1>1, <2>2, <2>3 DEF Handle, Interact
<1>2. CASE action # "a"
  BY <1>2, PressSound DEF Handle
<1> QED BY <1>1, <1>2

LEMMA TowardIsDirection ==
  ASSUME NEW targets
  PROVE  Toward(targets) \subseteq Directions
<1> DEFINE steps == FirstSteps(Known, world.visited \cup targets, world.pos, targets)
           open == {i \in 1..4 : Order[i] \in Open(Known, world.pos)}
           first == CHOOSE i \in open : \A j \in open : i <= j
<1>1. steps \subseteq Directions
  BY FirstStepsAreDirections
<1>2. open \subseteq 1..4
  OBVIOUS
<1>3. Toward(targets) = IF world.pos \notin targets /\ steps # {} THEN steps
                        ELSE IF open = {} THEN {"down"} ELSE {Order[first]}
  BY DEF Toward
<1> HIDE DEF open
<1>4. open # {} => first \in 1..4
  <2>1. SUFFICES ASSUME open # {} PROVE \E i \in open : \A j \in open : i <= j
    BY <1>2
  <2> QED BY <1>2, <2>1, LeastOf
<1>5. "down" \in Directions
  BY DEF Directions, Order
<1>6. open # {} => Order[first] \in Directions
  BY <1>4 DEF Directions
<1> HIDE DEF first, steps
<1> QED BY <1>1, <1>3, <1>5, <1>6

LEMMA ActionsPlayed ==
  ASSUME Explores \/ Reasons
  PROVE  lastAction' \in Directions \cup {"a"}
<1>1. Autopiloted \subseteq Directions
  BY ExploreDirsAreDirections DEF Autopiloted
<1>2. Reasoner \subseteq Directions \cup {"a"}
  <2>1. "down" \in Directions
    BY DEF Directions, Order
  <2> QED BY <2>1, TowardIsDirection DEF Reasoner
<1> QED BY <1>1, <1>2 DEF Explores, Reasons

LEMMA GateInitInv == GateInit => GateInv
<1> SUFFICES ASSUME GateInit PROVE GateInv
  OBVIOUS
<1> DEFINE w == [pos |-> map.start, facing |-> "down", hasItem |-> FALSE,
                 itemThere |-> map.item # NoPose, gateOpen |-> FALSE,
                 solved |-> FALSE, visited |-> {map.start}, revealed |-> {}]
<1>1. map \in Maps /\ world = Reveal(w)
  BY DEF GateInit
<1>2. map.start \in map.floor /\ map.start # map.gate
  BY <1>1, MapsAssumption DEF MapsAssumption
<1>3. /\ w = [f \in WorldFields |-> w[f]] /\ w.visited = {map.start}
      /\ w.pos = map.start
  BY DEF WorldFields
<1> HIDE DEF w
<1>4. Joined({map.start})
  BY DEF Joined
<1>5. Sound(w)
  BY <1>2, <1>3, <1>4 DEF Sound
<1> QED BY <1>1, <1>5, RevealSound DEF GateInv

LEMMA GateStepInv == GateInv /\ [RunStep]_GateVars => GateInv'
<1> SUFFICES ASSUME GateInv, [RunStep]_GateVars PROVE GateInv'
  OBVIOUS
<1>1. CASE RunStep
  <2>1. map' = map /\ world' = Handle(world, lastAction')
        /\ lastAction' \in Directions \cup {"a"}
    BY <1>1, ActionsPlayed DEF RunStep
  <2>2. Sound(Handle(world, lastAction'))
    BY <2>1, HandleSound DEF GateInv
  <2> QED BY <2>1, <2>2 DEF GateInv, Sound, Joined
<1>2. CASE UNCHANGED GateVars
  BY <1>2 DEF GateVars, worldVars, GateInv, Sound, Joined
<1> QED BY <1>1, <1>2

(* The world the autopilot explores is sound, whatever is pressed in it: the *)
(* visited cells are floor, the gate is among them only when open, and they  *)
(* hang together (games/gateworld/world.py).                                 *)
THEOREM GateInvariance == GateSpec => []GateInv
BY GateInitInv, GateStepInv, PTL DEF GateSpec

(* The play in GateWorld is play of HybridBrain: every episode is one of its  *)
(* behaviours, so what was shown of the transcript, the surprise notes and    *)
(* the destination holds of every episode (core/runner.py's loop).            *)
THEOREM EpisodesArePlay == GateSpec => Spec
<1>1. GateInit => Init
  BY DEF GateInit
<1>2. ASSUME GateInv, [RunStep]_GateVars
      PROVE  [Next]_vars
  <2>1. CASE RunStep
    <3>1. Shown \in Frames
      <4>1. map \in Maps /\ world.pos \in map.floor
        BY <1>2 DEF GateInv, Sound
      <4>2. \A c \in map.floor :
              [ctx |-> "overworld", pose |-> c, text |-> NoText] \in Frames
        BY <4>1, MapsAssumption DEF MapsAssumption
      <4>3. [ctx |-> "overworld", pose |-> world.pos, text |-> NoText] \in Frames
        BY <4>1, <4>2, Zenon
      <4> QED BY <4>3 DEF Shown
    <3>2. Decide(Shown)
      <4>1. CASE Explores
        BY <4>1 DEF Explores, Decide
      <4>2. CASE Reasons
        BY <4>2 DEF Reasons, Decide
      <4> QED BY <2>1, <4>1, <4>2 DEF RunStep
    <3>3. History(Shown)
      BY <2>1 DEF RunStep
    <3> QED BY <3>1, <3>2, <3>3 DEF Next
  <2>2. CASE UNCHANGED GateVars
    BY <2>2 DEF GateVars
  <2> QED BY <1>2, <2>1, <2>2
<1> QED BY <1>1, <1>2, GateInvariance, PTL DEF GateSpec, Spec

-----------------------------------------------------------------------------
(* When the model is woken because nothing is left to do.                    *)

(* Every direction leads back.                                               *)
LEMMA TurnBack ==
  ASSUME NEW c \in Int \X Int, NEW d \in Directions
  PROVE  /\ Neighbour(c, d) \in Int \X Int
         /\ \E e \in Directions : Neighbour(Neighbour(c, d), e) = c
<1>1. PICK x \in Int, y \in Int : c = <<x, y>>
  OBVIOUS
<1>2. {"up", "down", "left", "right"} = Directions
  BY DEF Directions, Order
<1>3. /\ Neighbour(c, "up") = <<x, y - 1>> /\ Neighbour(c, "down") = <<x, y + 1>>
      /\ Neighbour(c, "left") = <<x - 1, y>> /\ Neighbour(c, "right") = <<x + 1, y>>
  BY <1>1 DEF Neighbour, Delta
<1>4. ASSUME NEW a \in Int, NEW b \in Int
      PROVE  /\ Neighbour(<<a, b>>, "up") = <<a, b - 1>>
             /\ Neighbour(<<a, b>>, "down") = <<a, b + 1>>
             /\ Neighbour(<<a, b>>, "left") = <<a - 1, b>>
             /\ Neighbour(<<a, b>>, "right") = <<a + 1, b>>
  BY <1>4 DEF Neighbour, Delta
<1>5. CASE d = "up"
  <2>1. Neighbour(Neighbour(c, d), "down") = c
    <3>1. Neighbour(c, d) = <<x, y - 1>>
      BY <1>3, <1>5
    <3>2. x \in Int /\ y - 1 \in Int /\ y - 1 + 1 = y
      OBVIOUS
    <3>3. Neighbour(<<x, y - 1>>, "down") = <<x, y - 1 + 1>>
      BY <1>4, <3>2
    <3> QED BY <1>1, <3>1, <3>2, <3>3
  <2> QED BY <1>2, <1>3, <1>5, <2>1
<1>6. CASE d = "down"
  <2>1. Neighbour(Neighbour(c, d), "up") = c
    <3>1. Neighbour(c, d) = <<x, y + 1>>
      BY <1>3, <1>6
    <3>2. x \in Int /\ y + 1 \in Int /\ y + 1 - 1 = y
      OBVIOUS
    <3>3. Neighbour(<<x, y + 1>>, "up") = <<x, y + 1 - 1>>
      BY <1>4, <3>2
    <3> QED BY <1>1, <3>1, <3>2, <3>3
  <2> QED BY <1>2, <1>3, <1>6, <2>1
<1>7. CASE d = "left"
  <2>1. Neighbour(Neighbour(c, d), "right") = c
    <3>1. Neighbour(c, d) = <<x - 1, y>>
      BY <1>3, <1>7
    <3>2. x - 1 \in Int /\ y \in Int /\ x - 1 + 1 = x
      OBVIOUS
    <3>3. Neighbour(<<x - 1, y>>, "right") = <<x - 1 + 1, y>>
      BY <1>4, <3>2
    <3> QED BY <1>1, <3>1, <3>2, <3>3
  <2> QED BY <1>2, <1>3, <1>7, <2>1
<1>8. CASE d = "right"
  <2>1. Neighbour(Neighbour(c, d), "left") = c
    <3>1. Neighbour(c, d) = <<x + 1, y>>
      BY <1>3, <1>8
    <3>2. x + 1 \in Int /\ y \in Int /\ x + 1 - 1 = x
      OBVIOUS
    <3>3. Neighbour(<<x + 1, y>>, "left") = <<x + 1 - 1, y>>
      BY <1>4, <3>2
    <3> QED BY <1>1, <3>1, <3>2, <3>3
  <2> QED BY <1>2, <1>3, <1>8, <2>1
<1> QED BY <1>2, <1>5, <1>6, <1>7, <1>8

(* A frontier has a direction to explore.                                    *)
LEMMA FrontierLeadsOn ==
  ASSUME NEW f \in Frontiers
  PROVE  UnexploredDir(Known, f, {}) # {}
<1>1. PICK d \in Directions : /\ Passable(world, Neighbour(f, d))
                              /\ Neighbour(f, d) \notin world.visited
  BY DEF Frontiers
<1>2. f \in world.visited /\ DOMAIN Known = world.visited
      /\ Known[f] = WallsAt(world, f)
  BY DEF Frontiers, Known
<1>3. d \in Open(Known, f)
  BY <1>1, <1>2 DEF Open, WallsAt
<1>4. PICK i \in 1..4 : Order[i] = d
  BY DEF Directions
<1> DEFINE leads == {j \in 1..4 : /\ Order[j] \in Open(Known, f)
                                 /\ Neighbour(f, Order[j])
                                      \notin DOMAIN Known \cup {}}
<1>5. i \in leads
  BY <1>1, <1>2, <1>3, <1>4
<1>6. UnexploredDir(Known, f, {}) =
        IF leads = {} THEN {}
        ELSE {Order[CHOOSE a \in leads : \A b \in leads : a <= b]}
  BY DEF UnexploredDir
<1> HIDE DEF leads
<1> QED BY <1>5, <1>6

(* An autopilot without an answer has no frontier left.                      *)
LEMMA NothingLeft ==
  ASSUME GateInv, Autopiloted = {}
  PROVE  Frontiers = {}
<1>1. /\ map \in Maps /\ map.floor \subseteq Int \X Int /\ IsFiniteSet(map.floor)
      /\ world.visited \subseteq map.floor
      /\ map.start \in world.visited /\ world.pos \in world.visited
      /\ map.gate \in world.visited => world.gateOpen
      /\ Joined(world.visited)
  BY MapsAssumption DEF MapsAssumption, GateInv, Sound
<1> DEFINE useful == {f \in Frontiers : UnexploredDir(Known, f, {}) # {}}
<1>2. /\ UnexploredDir(Known, world.pos, {}) = {}
      /\ FirstSteps(Known, DOMAIN Known, world.pos, useful) = {}
  <2>1. Pass(Known, world.pos, Frontiers, {}) = {}
    BY DEF Autopiloted, ExploreDirs, Shown
  <2> QED BY <2>1 DEF Pass
<1>3. useful = Frontiers
  BY FrontierLeadsOn
<1>4. DOMAIN Known = world.visited /\ IsFiniteSet(world.visited)
  BY <1>1, FS_Subset DEF Known
<1> HIDE DEF useful
<1>5. PICK far : /\ Apart(Known, world.visited, world.pos, far)
                 /\ (Frontiers \cap world.visited) \ {world.pos} \subseteq far
  BY <1>2, <1>3, <1>4, NoStepNoWay
<1>6. Frontiers \subseteq far
  <2>1. world.pos \notin Frontiers
    BY <1>2, FrontierLeadsOn
  <2>2. Frontiers \subseteq world.visited
    BY DEF Frontiers
  <2> QED BY <1>5, <2>1, <2>2
<1>7. far \subseteq world.visited \ {world.pos}
  BY <1>5 DEF Apart
<1>8. ASSUME NEW c \in world.visited, c \notin far, NEW d \in Directions,
             Neighbour(c, d) \in world.visited
      PROVE  Neighbour(c, d) \notin far
  <2>1. Passable(world, Neighbour(c, d))
    BY <1>1, <1>8 DEF Passable
  <2>2. d \in Open(Known, c)
    BY <1>4, <1>8, <2>1 DEF Open, Known, WallsAt
  <2> QED BY <1>5, <1>8, <2>2 DEF Apart
<1>9. ASSUME NEW c \in far, NEW d \in Directions,
             Neighbour(c, d) \in world.visited, Neighbour(c, d) \notin far
      PROVE  FALSE
  <2>1. c \in Int \X Int /\ c \in world.visited
    BY <1>1, <1>7
  <2>2. PICK e \in Directions : Neighbour(Neighbour(c, d), e) = c
    BY <2>1, TurnBack
  <2> DEFINE b == Neighbour(c, d)
  <2>3. b \in world.visited /\ b \notin far /\ Neighbour(b, e) = c
    BY <1>9, <2>2
  <2> HIDE DEF b
  <2> QED BY <1>8, <1>9, <2>1, <2>3
<1>10. CASE map.start \in far
  <2>1. far = world.visited
    <3>1. \A c \in far : \A d \in Directions :
            Neighbour(c, d) \in world.visited => Neighbour(c, d) \in far
      BY <1>9
    <3> QED BY <1>1, <1>7, <1>10, <3>1 DEF Joined
  <2> QED BY <1>1, <1>7, <2>1
<1>11. CASE map.start \notin far
  <2> DEFINE near == world.visited \ far
  <2>1. near = world.visited
    <3>1. near \in SUBSET world.visited /\ map.start \in near
      BY <1>1, <1>11
    <3>2. \A c \in near : \A d \in Directions :
            Neighbour(c, d) \in world.visited => Neighbour(c, d) \in near
      BY <1>8
    <3> HIDE DEF near
    <3> QED BY <1>1, <3>1, <3>2 DEF Joined
  <2> QED BY <1>6, <1>7, <2>1
<1> QED BY <1>10, <1>11

(* What Reach computes: a set that has the start, is closed under steps over *)
(* the floor, and is part of every set of cells that is.                     *)
LEMMA WhatIsReached ==
  ASSUME NEW floor, IsFiniteSet(floor), map.start \in floor
  PROVE  /\ Reach(floor) \subseteq floor /\ map.start \in Reach(floor)
         /\ \A c \in Reach(floor) : Near(c) \cap floor \subseteq Reach(floor)
         /\ \A all : /\ map.start \in all
                     /\ \A c \in all : Near(c) \cap floor \subseteq all
                     => Reach(floor) \subseteq all
<1> DEFINE more(some) == some \cup (floor \cap UNION {Near(c) : c \in some})
           More == [some \in SUBSET floor |-> more(some)]
           Stop == {some \in SUBSET floor : more(some) = some}
           grow(g) == [some \in SUBSET floor |->
                         IF more(some) = some THEN some ELSE g[more(some)]]
           f == CHOOSE g : g = grow(g)
<1>1. Grows(floor, Stop, More)
  BY DEF Grows
<1>2. \A some \in SUBSET floor : /\ more(some) \in SUBSET floor
                                 /\ More[some] = more(some)
                                 /\ some \in Stop <=> more(some) = some
  OBVIOUS
<1>3. ASSUME NEW g PROVE grow(g) = [some \in SUBSET floor |->
                                      IF some \in Stop THEN some ELSE g[More[some]]]
  <2> HIDE DEF More, Stop, more
  <2> QED BY <1>2
<1>4. \E g : g = grow(g)
  <2>1. PICK g : Searches(g, floor, Stop, More)
    <3> HIDE DEF More, Stop, more
    <3> QED BY <1>1, SearchExists
  <2>2. g = grow(g)
    <3> HIDE DEF More, Stop, grow
    <3> QED BY <1>3, <2>1 DEF Searches
  <2> HIDE DEF grow
  <2> QED BY <2>2
<1>5. f = grow(f)
  <2> HIDE DEF grow
  <2> QED BY <1>4
<1>6. Reach(floor) = f[{map.start}]
  BY DEF Reach
<1>7. Searches(f, floor, Stop, More)
  <2> HIDE DEF f, grow, Stop, More
  <2> QED BY <1>3, <1>5 DEF Searches
<1>8. ASSUME NEW all, map.start \in all,
             \A c \in all : Near(c) \cap floor \subseteq all
      PROVE  Reach(floor) \in Stop /\ map.start \in Reach(floor)
             /\ Reach(floor) \subseteq all
  <2> DEFINE Fam == {some \in SUBSET floor : map.start \in some /\ some \subseteq all}
  <2>1. {map.start} \in SUBSET floor /\ {map.start} \in Fam
    BY <1>8
  <2>2. \A y \in SUBSET floor : y \in Fam /\ y \notin Stop => More[y] \in Fam
    <3>1. ASSUME NEW y \in SUBSET floor, y \in Fam PROVE more(y) \in Fam
      BY <1>8, <3>1
    <3> HIDE DEF more, More, Stop, Fam
    <3> QED BY <1>2, <3>1
  <2>3. f[{map.start}] \in Stop /\ f[{map.start}] \in Fam
    <3> HIDE DEF f, Stop, More, Fam
    <3> QED BY <1>1, <1>7, <2>1, <2>2, SearchEnds
  <2> HIDE DEF f, Stop
  <2> QED BY <1>6, <2>3
<1> HIDE DEF f
<1>9. /\ Reach(floor) \in Stop /\ map.start \in Reach(floor)
      /\ Reach(floor) \subseteq floor
  <2>1. \A c \in floor : Near(c) \cap floor \subseteq floor
    OBVIOUS
  <2> HIDE DEF Stop
  <2> QED BY <1>8, <2>1
<1>10. \A c \in Reach(floor) : Near(c) \cap floor \subseteq Reach(floor)
  <2>1. more(Reach(floor)) = Reach(floor)
    BY <1>9
  <2> QED BY <2>1
<1> HIDE DEF Stop, more, More, grow
<1> QED BY <1>8, <1>9, <1>10

(* With no frontier left, the visited cells are those that can be reached.   *)
LEMMA AllIsVisited ==
  ASSUME GateInv, Frontiers = {}
  PROVE  world.visited =
           Reach(map.floor \ (IF world.gateOpen THEN {} ELSE {map.gate}))
<1> DEFINE shut == IF world.gateOpen THEN {} ELSE {map.gate}
           floor == map.floor \ shut
<1>1. /\ IsFiniteSet(map.floor) /\ world.visited \subseteq map.floor
      /\ map.start \in world.visited
      /\ map.gate \in world.visited => world.gateOpen
      /\ Joined(world.visited)
  BY MapsAssumption DEF MapsAssumption, GateInv, Sound
<1>2. IsFiniteSet(floor)
  BY <1>1, FS_Subset
<1>3. world.visited \subseteq floor /\ \A c : Passable(world, c) <=> c \in floor
  BY <1>1 DEF Passable
<1> HIDE DEF floor
<1>4. /\ Reach(floor) \subseteq floor /\ map.start \in Reach(floor)
      /\ \A c \in Reach(floor) : Near(c) \cap floor \subseteq Reach(floor)
      /\ \A all : /\ map.start \in all
                  /\ \A c \in all : Near(c) \cap floor \subseteq all
                  => Reach(floor) \subseteq all
  <2>1. map.start \in floor
    BY <1>1, <1>3
  <2> QED BY <1>2, <2>1, WhatIsReached
<1>5. Reach(floor) \subseteq world.visited
  <2>1. \A c \in world.visited : Near(c) \cap floor \subseteq world.visited
    BY <1>3 DEF Near, Frontiers
  <2> QED BY <1>1, <1>4, <2>1
<1>6. Reach(floor) = world.visited
  <2>1. \A c \in Reach(floor) : \A d \in Directions :
          Neighbour(c, d) \in world.visited => Neighbour(c, d) \in Reach(floor)
    BY <1>3, <1>4 DEF Near
  <2> QED BY <1>1, <1>4, <1>5, <2>1 DEF Joined
<1> QED BY <1>6 DEF floor

(* The model is woken by an autopilot with nothing left to do only when      *)
(* every cell that can be reached through the gates opened so far was        *)
(* visited, for every map and every prediction (brains.py 198-201).          *)
THEOREM WokenIsExplored == GateSpec => WokenWhenExplored
<1>1. ASSUME GateInv, RunStep, mode' = "stuck"
      PROVE  Autopiloted = {}
  <2>1. CASE Explores
    BY <1>1, <2>1 DEF Explores, Autopilot
  <2>2. CASE WakeNoMove(Shown)
    BY <1>1, <2>2 DEF WakeNoMove, Wake
  <2> QED BY <1>1, <2>1, <2>2 DEF RunStep, Reasons
<1>2. ASSUME GateInv, [RunStep]_GateVars
      PROVE  [mode' = "stuck" =>
                world.visited =
                  Reach(map.floor \ (IF world.gateOpen THEN {} ELSE {map.gate}))]_GateVars
  BY <1>1, <1>2, NothingLeft, AllIsVisited
<1> QED BY <1>2, GateInvariance, PTL DEF GateSpec, WokenWhenExplored
=============================================================================
