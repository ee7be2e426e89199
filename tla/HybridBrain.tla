----------------------------- MODULE HybridBrain -----------------------------
(***************************************************************************)
(* The router of core/brains.py: a free autopilot plays by default, plain  *)
(* text is confirmed for free, and a paid model is woken when there is a   *)
(* decision to make or when free play has stopped getting anywhere.  Four  *)
(* memories decide which: the visits of a textbox (core/novelty.py), the   *)
(* screens seen so far, the streak of decisions without progress           *)
(* (core/disconfirm.py) and what each action achieved (core/outcome.py).   *)
(* The world may show any frame next; the model may reply anything or fail.*)
(***************************************************************************)
EXTENDS Naturals, Sequences, FiniteSets

CONSTANTS
  Frames,         \* what observe() can show: [ctx, pose, text]
  NoPose, NoText, \* a pose or a text the perceiver did not find
  Moves,          \* what the autopilot may do
  Actions,        \* what the model may do, "a" among them
  Destinations,   \* poses the model may name in a GOTO line
  Watched,        \* the situation and action whose outcomes are followed
  AdvanceFuse, CycleRevisits, StuckStale, NoMoveStall,  \* brains.py
  ReplanAfter, DeadAfter, TranscriptCap,
  MaxCalls,       \* calls the VisionEscalator may make
  MaxErrors       \* bound: failed model calls in a row that are told apart

Contexts == {"overworld", "dialog", "battle_text", "battle", "menu"}
Plain == {"dialog", "battle_text"}
Poses == {f.pose : f \in Frames} \ {NoPose}
Texts == {f.text : f \in Frames} \ {NoText}

ASSUME FramesAssumption ==
  /\ Frames \subseteq [ctx : Contexts, pose : Poses \cup {NoPose},
                       text : Texts \cup {NoText}]
  /\ Frames # {}
ASSUME ActionsAssumption ==
  /\ "a" \in Actions /\ Moves # {}
  /\ Destinations \subseteq Poses
ASSUME ThresholdAssumption ==
  /\ {AdvanceFuse, CycleRevisits, StuckStale, NoMoveStall, ReplanAfter,
      DeadAfter, TranscriptCap} \subseteq Nat \ {0}
  /\ {MaxCalls, MaxErrors} \subseteq Nat

NoFrame == [ctx |-> "none", pose |-> NoPose, text |-> NoText]
Woken == {"mode", "cycle", "fuse", "nomove", "stuck"}

VARIABLES
  config,        \* advance_on_dialog
  frame,         \* the last frame decided on: _last_sig, _last_pose, and
                 \* NoveltyMemory._last all come from it
  beat,          \* total, modulo two
  visits,        \* NoveltyMemory._counts, up to CycleRevisits
  seen,          \* _seen_states
  sinceNovel,    \* _since_novel, up to StuckStale
  streak,        \* DisconfirmDetector._streak, up to ReplanAfter
  tally,         \* no-effects in a row of Watched, up to DeadAfter
  lastAction,    \* _last_action
  consecAdvance, consecNoMove,
  goto, transcript,
  grounded,      \* the VisionEscalator's cached states; calls is their number
  apiErrors,     \* consec_api_errors of the model's brain, up to MaxErrors
  mode,          \* "advance", "autopilot" or why the model was woken
  surprised,     \* the model was handed a surprise note
  skipped,       \* history: texts advanced past since the last wake
  still,         \* history: decisions in a row that achieved nothing visible
  sinceNudge     \* history: decisions since a surprise note, both up to
                 \* ReplanAfter

memory == <<visits, seen, sinceNovel, streak, tally>>
vars == <<config, frame, beat, memory, lastAction, consecAdvance, consecNoMove,
          goto, transcript, grounded, apiErrors, mode, surprised, skipped,
          still, sinceNudge>>

Init ==
  /\ config \in BOOLEAN
  /\ frame = NoFrame /\ beat = 0
  /\ visits = [f \in Frames |-> 0] /\ seen = {} /\ sinceNovel = 0
  /\ streak = 0 /\ tally = 0 /\ lastAction = "none"
  /\ consecAdvance = 0 /\ consecNoMove = 0 /\ goto = NoPose
  /\ transcript = <<>> /\ grounded = {} /\ apiErrors = 0
  /\ mode = "start" /\ surprised = FALSE /\ skipped = {}
  /\ still = 0 /\ sinceNudge = ReplanAfter

-----------------------------------------------------------------------------
(* The memories, as decide() updates them before it branches.               *)

UpTo(n, cap) == IF n < cap THEN n ELSE cap

\* state_signature, and whether the situation changed since the last decision
Signature(f) == <<f.ctx, f.pose>>
Progressed(f) == frame # NoFrame /\ Signature(f) # Signature(frame)

\* NoveltyMemory.observe: a textbox is visited when it comes up, not while held
HasKey(f) == f.ctx \in Plain /\ f.text # NoText
(* Mutant: the frames on which it is held are counted, not the visits. *)
VisitedHeld(f) ==
  IF HasKey(f) /\ f = frame
  THEN [visits EXCEPT ![f] = UpTo(@ + 1, CycleRevisits)] ELSE visits
Visited(f) ==
  IF HasKey(f) /\ f # frame
  THEN [visits EXCEPT ![f] = UpTo(@ + 1, CycleRevisits)] ELSE visits
Cycling(f) == config /\ HasKey(f) /\ Visited(f)[f] >= CycleRevisits

\* the general stuck-breaker: non-overworld decisions with no new screen
SinceNovel(f) ==
  IF f.ctx # "overworld" /\ f \in seen THEN UpTo(sinceNovel + 1, StuckStale)
  ELSE 0
Stuck(f) == SinceNovel(f) >= StuckStale

\* DisconfirmDetector.record, or its reset on a battle screen
InBattle(f) == f.ctx \in {"battle", "battle_text"}
(* Mutant: a battle screen, whose signature never changes, counts. *)
StreakInBattle(f) ==
  IF Progressed(f) THEN 0 ELSE UpTo(streak + 1, ReplanAfter)
Streak(f) ==
  IF InBattle(f) \/ Progressed(f) THEN 0 ELSE UpTo(streak + 1, ReplanAfter)

\* OutcomeMemory.record grades the previous action, except on a battle screen
Tally(f) ==
  IF InBattle(f) \/ frame = NoFrame
     \/ <<Signature(frame), lastAction>> # Watched THEN tally
  ELSE IF Progressed(f) THEN 0 ELSE UpTo(tally + 1, DeadAfter)

(* Mutant: the comparison is inverted. *)
NoMoveInverted(f) ==
  IF /\ f.ctx = "overworld"
     /\ f.pose # NoPose
     /\ frame # NoFrame
     /\ f.pose # frame.pose
  THEN UpTo(consecNoMove + 1, NoMoveStall) ELSE 0

\* overworld decisions in a row with the same known pose
NoMove(f) ==
  IF /\ f.ctx = "overworld"
     /\ f.pose # NoPose
     /\ frame # NoFrame
     /\ f.pose = frame.pose
  THEN UpTo(consecNoMove + 1, NoMoveStall) ELSE 0

\* goto is consumed on arrival
Goto(f) == IF goto = f.pose THEN NoPose ELSE goto

Remember(f, newStreak) ==
  /\ frame' = f
  /\ beat' = 1 - beat
  /\ visits' = Visited(f)
  /\ seen' = IF f.ctx = "overworld" THEN seen ELSE seen \cup {f}
  /\ sinceNovel' = SinceNovel(f)
  /\ streak' = newStreak
  /\ tally' = Tally(f)
  /\ UNCHANGED config

-----------------------------------------------------------------------------
(* Free play.                                                               *)

CanAdvance(f) == config /\ f.ctx \in Plain
(* Mutant: a line that is still shown is noted again. *)
NotedAgain(t) ==
  LET all == Append(transcript, t)
  IN  SubSeq(all, IF Len(all) > TranscriptCap THEN 2 ELSE 1, Len(all))
Noted(t) ==
  IF transcript # <<>> /\ transcript[Len(transcript)] = t THEN transcript
  ELSE LET all == Append(transcript, t)
       IN  SubSeq(all, IF Len(all) > TranscriptCap THEN 2 ELSE 1, Len(all))

\* A plain textbox is confirmed without the model.
FreeAdvance(f) ==
  /\ CanAdvance(f)
  /\ ~Cycling(f)
  /\ consecAdvance < AdvanceFuse
  /\ Remember(f, 0)
  /\ consecAdvance' = consecAdvance + 1
  /\ consecNoMove' = NoMove(f)
  /\ goto' = Goto(f)
  /\ transcript' = IF f.text = NoText THEN transcript ELSE Noted(f.text)
  /\ mode' = "advance" /\ surprised' = FALSE /\ lastAction' = "a"
  /\ UNCHANGED <<grounded, apiErrors>>

\* The autopilot moves; what it does is the subject of ExploreBrain.
Autopilot(f) ==
  /\ f.ctx = "overworld"
  /\ NoMove(f) < NoMoveStall
  /\ Remember(f, Streak(f))
  /\ consecAdvance' = 0
  /\ consecNoMove' = NoMove(f)
  /\ goto' = Goto(f)
  /\ lastAction' \in Moves
  /\ mode' = "autopilot" /\ surprised' = FALSE
  /\ UNCHANGED <<transcript, grounded, apiErrors>>

-----------------------------------------------------------------------------
(* Waking the model.                                                        *)

(* Mutant: a failed call leaves the destination of an earlier reply. *)
RepliesStale ==
  [ok : BOOLEAN, action : Actions, goto : Destinations \cup {NoPose}]

\* LLMButtonBrain.decide: a parsed reply, or the safe default of a failed call
Replies ==
  [ok : {TRUE}, action : Actions, goto : Destinations \cup {NoPose}]
    \cup [ok : {FALSE}, action : {"a"}, goto : {NoPose}]

\* VisionEscalator.ground: one call per state, MaxCalls per run, with an image
Grounded(f, why) ==
  IF (why = "cycle" \/ Stuck(f)) /\ Cardinality(grounded) < MaxCalls
  THEN grounded \cup {f} ELSE grounded

\* _wake: the notes are consumed, the transcript is handed over, the model acts
Wake(f, why) ==
  \E r \in Replies :
    /\ Remember(f, IF Streak(f) >= ReplanAfter THEN 0 ELSE Streak(f))
    /\ surprised' = (Streak(f) >= ReplanAfter)
    /\ grounded' = Grounded(f, why)
    /\ transcript' = <<>>
    /\ goto' = IF r.goto = NoPose THEN Goto(f) ELSE r.goto
    /\ apiErrors' = IF r.ok THEN 0 ELSE UpTo(apiErrors + 1, MaxErrors)
    /\ lastAction' = r.action
    /\ consecAdvance' = 0
    /\ mode' = why

WakeScreen(f) ==
  /\ f.ctx # "overworld"
  /\ ~(CanAdvance(f) /\ ~Cycling(f) /\ consecAdvance < AdvanceFuse)
  /\ consecNoMove' = NoMove(f)
  /\ Wake(f, IF Cycling(f) THEN "cycle"
             ELSE IF CanAdvance(f) THEN "fuse" ELSE "mode")

WakeNoMove(f) ==
  /\ f.ctx = "overworld"
  /\ NoMove(f) >= NoMoveStall
  /\ consecNoMove' = 0
  /\ Wake(f, "nomove")

\* the autopilot has nothing left to explore (it moves while it has no pose)
WakeStuck(f) ==
  /\ f.ctx = "overworld"
  /\ f.pose # NoPose
  /\ NoMove(f) < NoMoveStall
  /\ consecNoMove' = NoMove(f)
  /\ Wake(f, "stuck")

Decide(f) ==
  \/ FreeAdvance(f)
  \/ Autopilot(f)
  \/ WakeScreen(f)
  \/ WakeNoMove(f)
  \/ WakeStuck(f)

-----------------------------------------------------------------------------
(* Histories, read by properties only, and the specification.               *)

WokenNow == mode' \in Woken

History(f) ==
  /\ skipped' = IF WokenNow THEN {}
                ELSE IF mode' = "advance" /\ f.text # NoText
                THEN skipped \cup {f.text} ELSE skipped
  /\ still' = IF mode' = "advance" \/ InBattle(f) \/ Progressed(f) THEN 0
              ELSE UpTo(still + 1, ReplanAfter)
  /\ sinceNudge' = UpTo((IF surprised THEN 0 ELSE sinceNudge) + 1, ReplanAfter)

Next == \E f \in Frames : Decide(f) /\ History(f)

Spec == Init /\ [][Next]_vars

\* The driver's loop asks for the next decision as long as it runs.
Fairness == WF_vars(Next)
FairSpec == Spec /\ Fairness

-----------------------------------------------------------------------------
(* Properties.                                                              *)

\* What the model is handed at a wake is the text it missed: nothing else,
\* all of it unless more than TranscriptCap lines went by, no line twice in
\* a row.  (The transcript is added to by free presses, over any number of
\* overworld frames, and cleared by every kind of wake.)
TranscriptIsWhatWasSkipped ==
  LET lines == {transcript[i] : i \in 1..Len(transcript)}
  IN  /\ lines \subseteq skipped
      /\ Len(transcript) < TranscriptCap => lines = skipped
      /\ \A i \in 2..Len(transcript) : transcript[i] # transcript[i - 1]

\* A wake carries a surprise note exactly when the last ReplanAfter decisions
\* all left the situation as it was, none of them a battle or a free press,
\* and none of them followed an earlier note: battles and dialogs, whose
\* progress the signature cannot see, never raise it, and it is not repeated
\* at every wake (disconfirm.py 55-57, brains.py 436-442).
SurpriseIsEarned ==
  [][WokenNow /\ beat' # beat =>
       (surprised' <=> still' >= ReplanAfter /\ sinceNudge' >= ReplanAfter)]_vars

\* The autopilot's destination changes only by being reached or by being named
\* in a reply that parsed; a failed call never brings an old one back.
GotoIsNamedOrReached ==
  [][goto' # goto =>
       \/ goto' = NoPose /\ frame'.pose = goto
       \/ WokenNow /\ apiErrors' = 0]_vars

\* A textbox that the confirm button cannot dismiss wakes the model again and
\* again, whether it is held, alternates with others or keeps coming back
\* between overworld frames: where the fuse is reset, the visits add up, and
\* where the visits stand still, the fuse burns (brains.py 41-53, 474).
\* There are finitely many texts, which is what makes it endless.
EndlessTextWakes ==
  []<>(HasKey(frame)) => []<>(mode \in Woken)

\* A screen that stays for ever wakes the model again and again, unless the
\* perceiver has lost the pose on the overworld, where the autopilot keeps
\* pressing down and no counter counts.
FrozenScreenWakes ==
  /\ <>[][frame' = frame]_vars
  /\ <>[](frame.ctx = "overworld" => frame.pose # NoPose)
  => []<>(mode \in Woken)
=============================================================================
