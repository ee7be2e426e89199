--------------------------- MODULE DoomDtcSession ---------------------------
(***************************************************************************)
(* world_mcp.py, class DoomDtcSession: one MCP session over the pinned      *)
(* seeds of the defend-the-center gate, on core/vizdoom_world.py.           *)
(*                                                                          *)
(* An action call runs up to ten sub-steps, each with its own grounding and *)
(* oracle row; new_episode closes the running attempt and opens the next    *)
(* seed's.  Frames are named by the sub-step they were taken after; a       *)
(* reading of P1 by the two frames it compares.  Tool results, lessons and  *)
(* the oracle's health and ammunition are left out.                         *)
(***************************************************************************)
EXTENDS Integers, Sequences, FiniteSetsExt

CONSTANTS Seeds,       \* _seeds: the pinned seeds, in order
          MaxSteps,    \* sub-steps until the scenario's timeout
          MaxRepeat,   \* bound on `repeat` (10 in the code)
          MaxIdx       \* bound on _seed_idx, past the end of the list

N == Len(Seeds)

ASSUME DoomAssumption ==
  /\ N \in Nat \ {0} /\ MaxSteps \in Nat \ {0} /\ MaxRepeat \in Nat /\ MaxIdx \in Nat

VARIABLES idx,         \* _seed_idx
          world,       \* the episode vizdoom runs
          step,        \* _episode_step
          prev,        \* _prev_gray
          reading,     \* _last_p1_reading
          pair,        \* _last_pair_gray
          todo,        \* sub-steps left of the call being served
          oracle,      \* oracle.jsonl
          grounding,   \* grounding.jsonl
          reply        \* how the last call was answered

vars == <<idx, world, step, prev, reading, pair, todo, oracle, grounding,
          reply>>
views == <<prev, reading, pair>>

NoFrame == -1                \* screen is None
NoPair == <<NoFrame, NoFrame>>
Unread == -1                 \* game_variables() is None

(* external: one ViZDoom episode. *)
Episode(s) == [seed |-> s, tics |-> 0, kills |-> 0, over |-> FALSE]
Ticked(w, k, end) == [w EXCEPT !.tics = @ + 1, !.kills = @ + k, !.over = end]
Frame(w) == IF w.over THEN NoFrame ELSE w.tics

(* _log_oracle: there is no reading of a game that is over. *)
OracleRow(e, w, s, finished, abandoned) ==
  [episode |-> e, seed |-> Seeds[e + 1], step |-> s,
   kills |-> IF w.over THEN Unread ELSE w.kills,
   finished |-> finished, abandoned |-> abandoned]

-----------------------------------------------------------------------------
Init ==
  /\ idx = 0
  /\ world = Episode(Seeds[1])
  /\ step = 0
  /\ prev = 0 /\ reading = NoPair /\ pair = NoPair
  /\ todo = 0
  /\ oracle = <<OracleRow(0, Episode(Seeds[1]), 0, FALSE, FALSE)>>
  /\ grounding = <<>>
  /\ reply = "ok"

(* turn_left, turn_right, attack: repeat is clamped to 1..10. *)
CallAction(repeat) ==
  /\ todo = 0
  /\ todo' = repeat
  /\ reply' = "ok"
  /\ UNCHANGED <<idx, world, step, views, oracle, grounding>>

(* The loop of _do_action ends at once on a finished episode, and the       *)
(* observation that closes the call names the seed (see Observe).           *)
SubStepOver ==
  /\ todo > 0
  /\ world.over
  /\ todo' = 0
  /\ reply' = IF idx >= N THEN "error" ELSE reply
  /\ UNCHANGED <<idx, world, step, views, oracle, grounding>>

Compared(w) == IF NoFrame \in {prev, Frame(w)} THEN NoPair ELSE <<prev, Frame(w)>>

GroundingRow(w) ==
  [episode |-> idx, seed |-> Seeds[idx + 1], step |-> step + 1,
   frames |-> Compared(w)]

(* Mutants of the three definitions below: the frames do not roll forward;  *)
(* observe() is left to diff the frames that did; a row only for the last   *)
(* sub-step of a call; a row written before the world steps.                *)
NextPrevStale(w) == prev
NextPairRolling(w) == IF Compared(w) = NoPair THEN pair ELSE <<Frame(w), Frame(w)>>
StepRowsLast(w) == IF todo = 1 \/ w.over
                   THEN <<OracleRow(idx, w, step + 1, w.over, FALSE)>> ELSE <<>>
StepRowsEarly(w) == <<OracleRow(idx, world, step + 1, w.over, FALSE)>>

(* What the frame, the pair and the oracle log become after a sub-step.     *)
NextPrev(w) == Frame(w)
NextPair(w) == IF Compared(w) = NoPair THEN pair ELSE Compared(w)
StepRows(w) == <<OracleRow(idx, w, step + 1, w.over, FALSE)>>

(* external: one tic of the world.  The scenario's own timeout is MaxSteps. *)
Tic(k, end) ==
  /\ todo > 0
  /\ ~world.over
  /\ world.tics + 1 = MaxSteps => end
  /\ world' = Ticked(world, k, end)
  /\ step' = step + 1

(* One sub-step: the world steps, P1 compares the frames around it, both    *)
(* logs get a row, and the frames roll forward.                             *)
SubStep(k, end) ==
  /\ Tic(k, end)
  /\ idx < N
  /\ grounding' = Append(grounding, GroundingRow(world'))
  /\ reading' = Compared(world')
  /\ pair' = NextPair(world')
  /\ prev' = NextPrev(world')
  /\ oracle' = oracle \o StepRows(world')
  /\ todo' = IF end THEN 0 ELSE todo - 1
  /\ UNCHANGED <<idx, reply>>

(* The same with the seeds used up: the world has stepped when the row's    *)
(* self._seeds[self._seed_idx] raises IndexError, and the call ends there.  *)
SubStepPastEnd(k, end) ==
  /\ Tic(k, end)
  /\ idx >= N
  /\ todo' = 0
  /\ reply' = "error"
  /\ UNCHANGED <<idx, views, oracle, grounding>>

(* _start_episode for seed number i, on a log that may have been extended. *)
StartEpisode(i, log) ==
  /\ world' = Episode(Seeds[i + 1])
  /\ step' = 0
  /\ prev' = 0 /\ reading' = NoPair /\ pair' = NoPair
  /\ oracle' = Append(log, OracleRow(i, Episode(Seeds[i + 1]), 0, FALSE, FALSE))

(* Mutant: an unfinished attempt is left without its closing row. *)
AbandonedLogNever == oracle

(* The log once the running attempt is closed. *)
AbandonedLog ==
  IF world.over THEN oracle
  ELSE Append(oracle, OracleRow(idx, world, step, TRUE, TRUE))

(* new_episode with a seed left. *)
NewEpisode ==
  /\ todo = 0
  /\ idx + 1 < N
  /\ idx' = idx + 1
  /\ StartEpisode(idx', AbandonedLog)
  /\ reply' = "ok"
  /\ UNCHANGED <<todo, grounding>>

(* new_episode on the last seed, or again after it. *)
NewEpisodeExhausted ==
  /\ todo = 0
  /\ idx + 1 >= N /\ idx < MaxIdx
  /\ idx < N \/ world.over
  /\ idx' = idx + 1
  /\ oracle' = AbandonedLog
  /\ reply' = "exhausted"
  /\ UNCHANGED <<world, step, views, todo, grounding>>

(* new_episode after the last attempt was abandoned: the row that would     *)
(* close it once more raises IndexError.                                    *)
NewEpisodePastEnd ==
  /\ todo = 0
  /\ idx >= N /\ ~world.over
  /\ reply' = "error"
  /\ UNCHANGED <<idx, world, step, views, todo, oracle, grounding>>

(* observe of a finished episode names its seed: IndexError past the end. *)
Observe ==
  /\ todo = 0
  /\ reply' = IF world.over /\ idx >= N THEN "error" ELSE "ok"
  /\ UNCHANGED <<idx, world, step, views, todo, oracle, grounding>>

Steps(k, end) == SubStep(k, end) \/ SubStepPastEnd(k, end)

Next ==
  \/ \E r \in 1..MaxRepeat : CallAction(r)
  \/ SubStepOver
  \/ \E k \in {0, 1}, end \in BOOLEAN : Steps(k, end)
  \/ NewEpisode \/ NewEpisodeExhausted \/ NewEpisodePastEnd
  \/ Observe

Spec == Init /\ [][Next]_vars

-----------------------------------------------------------------------------
Rows(e) == {i \in 1..Len(oracle) : oracle[i].episode = e}
ClosingRows(e) == {i \in Rows(e) : oracle[i].finished}

(* Every sub-step that the world of a pinned attempt took is in the oracle  *)
(* log, once and in order, and nothing is logged behind an attempt's closing*)
(* row ("its own P1 computation and its own oracle.jsonl row").             *)
OracleIsComplete ==
  idx < N =>
    /\ \A e \in 0..idx : Cardinality(ClosingRows(e)) <= 1
    /\ \A e \in 0..idx : \A i \in Rows(e), j \in ClosingRows(e) : i <= j
    /\ {oracle[i].step : i \in Rows(idx)} = 0..world.tics
    /\ step = world.tics

(* Each grounding row compares the two frames around its own sub-step, never*)
(* frames several sub-steps apart or of two episodes.                       *)
GroundingIsAdjacent ==
  \A i \in 1..Len(grounding) : LET g == grounding[i] IN
    g.frames # NoPair => g.frames = <<g.step - 1, g.step>>

(* What observe() diffs is exactly what the shown reading was computed on,  *)
(* and that is the last sub-step of the running episode.                    *)
ObserveIsFresh ==
  reading # NoPair /\ idx < N =>
    pair = reading /\ reading = <<world.tics - 1, world.tics>>

(* eval/score_gate3d.py takes the last readable row as an attempt's final   *)
(* kill count: it is the world's for an attempt that was abandoned, and     *)
(* behind it by the kills of one sub-step at most for one that ended, since *)
(* the engine no longer answers on the sub-step that ends it.               *)
Readable(e) == {i \in Rows(e) : oracle[i].kills # Unread}
ScoredKills(e) == oracle[Max(Readable(e))].kills
ScoreIsFaithful ==
  idx < N =>
    IF world.over THEN world.kills - ScoredKills(idx) \in {0, 1}
                  ELSE ScoredKills(idx) = world.kills

(* The session keeps the promise of PinnedSeeds to its scorer: what counts  *)
(* as closed is what the oracle log shows closed.                           *)
Seedwise == INSTANCE PinnedSeeds WITH
  at <- IF idx < N THEN idx ELSE N,
  closed <- {e \in 0..(N - 1) : ClosingRows(e) # {}}
ImplementsPinnedSeeds == Seedwise!Spec
=============================================================================
