----------------------------- MODULE SkillRunner -----------------------------
(***************************************************************************)
(* Skills: a model defines a macro, a list of steps and of loops           *)
(* repeat_until(steps, stop_when, max_iters), and runs it with one call.   *)
(* world_mcp.py has three ports of the interpreter: ArcAgi3Session (arc)   *)
(* plays a game on a remote server, World._run_skill (kirby) presses       *)
(* buttons and observes after each, World._run_nds_skill (nds) counts      *)
(* emulator frames and samples the screen while they pass.  One session    *)
(* has one port; its tool calls are served one at a time.  What the world  *)
(* answers to a step is arbitrary, and the remote server's answer may be   *)
(* lost.  What a step is called matters to none of the ports.              *)
(***************************************************************************)
EXTENDS Naturals, FiniteSets, SequencesExt

CONSTANTS
  Hosts,        \* ports: "arc", "kirby", "nds"
  Candidates,   \* what a model may try to define: sequences of blocks
  NoLoop,       \* the stop_when of a plain step
  Ceiling,      \* _SKILL_MAX_WORLD_STEPS, in the unit of each port
  MaxIters, MaxThreshold,           \* caps of max_iters and of a threshold
  Settle, Stride,                   \* nds: frames after a press, per sample
  MinSteps, MinIterations,          \* the scorer's guard
  MaxRows, MaxRuns                  \* bounds: oracle rows, run_skill calls

\* A plain step is a block of one step that is passed once.
Plain(b) == b.when = NoLoop
Kinds == [arc |-> {"elapsed", "unchanged", "region"},
          kirby |-> {"elapsed", "moved", "region"},
          nds |-> {"elapsed", "idle"}]

ASSUME HostAssumption ==
  /\ Hosts \subseteq {"arc", "kirby", "nds"}
  /\ Ceiling \in [Hosts -> Nat \ {0}]
\* What a step and a block may look like before anything is validated.
Steps == [held : BOOLEAN, frames : Nat]
Blocks == [body : Seq(Steps), when : {NoLoop} \cup [kind : STRING, n : Nat],
           iters : Nat]
ASSUME CandidateAssumption == Candidates \subseteq Seq(Blocks)
\* QUALIFYING_MIN_ITERATIONS is 2 (score_entity_gate_v3.py)
ASSUME NumberAssumption ==
  /\ {MaxIters, MaxThreshold, Stride} \subseteq Nat \ {0}
  /\ {Settle, MinSteps, MaxRows, MaxRuns} \subseteq Nat
  /\ MinIterations \in Nat \ {0, 1}

VARIABLES
  host,
  skill,      \* the skill stored under the one name; << >> for none
  running,
  run,        \* the locals of a run_skill call
  step,       \* _step_count (arc) or the plugin's _obs_count
  unchanged,  \* arc: _unchanged_run
  legal,      \* arc: the last answer allows the game's actions
  rows,       \* oracle.jsonl: [step, by], by the number of a run or 0
  log,        \* skills.jsonl: the last run_skill record, at most one
  runs,       \* calls of run_skill
  trail       \* history: the world steps of the last run and the few before
              \* it: what each did (outs), and what the run had cost (total)
              \* and the outs it had seen (heard) when it was done

vars == <<host, skill, running, run, step, unchanged, legal, rows, log, runs,
          trail>>

FreshRun ==
  [top |-> 1, inner |-> 1, iter |-> 0,
   used |-> 0, idle |-> 0,        \* of the current loop
   budget |-> Ceiling[host], ok |-> 0, loops |-> <<>>, stop |-> "going",
   from |-> Len(trail),           \* history: where the loop began
   activity |-> 0]                \* history: what the world was made to do

Init ==
  /\ host \in Hosts
  /\ skill = <<>> /\ running = FALSE
  /\ trail = <<>> /\ run = FreshRun
  /\ unchanged = 0 /\ legal \in BOOLEAN
  /\ runs = 0 /\ log = <<>>
  /\ IF host = "arc" THEN step = 0 /\ rows = <<[step |-> 0, by |-> 0]>>
     ELSE step = 0 /\ rows = <<>>

-----------------------------------------------------------------------------
(* define_skill.                                                            *)

\* _parse_stop_when and its ports; n is the threshold
WhenOK(w) ==
  /\ w.kind \in Kinds[host]
  /\ w.n >= 1
  /\ w.n <= IF host = "nds" THEN Ceiling[host] ELSE MaxThreshold
  /\ w.kind = "idle" => w.n * Stride <= Ceiling[host]

\* _validate_step_list and its ports; blocks do not nest
Valid(s) ==
  /\ s # <<>>
  /\ \A i \in 1..Len(s) :
       /\ s[i].body # <<>>
       /\ ~Plain(s[i]) => s[i].iters \in 1..MaxIters /\ WhenOK(s[i].when)

Define(s) ==
  /\ ~running
  /\ Valid(s)
  /\ skill' = s
  /\ UNCHANGED <<host, running, run, step, unchanged, legal, rows, log, runs,
                 trail>>

-----------------------------------------------------------------------------
(* What one step does to the world, and what its stop_when reads of it.     *)

Row(n, by) == rows' = Append(rows, [step |-> n, by |-> by])
TotalAt(steps, i) == IF i = 0 THEN 0 ELSE steps[i].total
HeardAt(steps, i) == IF i = 0 THEN <<>> ELSE steps[i].heard
Trailed(outs, cost) ==
  trail' = Append(trail, [outs |-> outs,
                          total |-> TotalAt(trail, Len(trail)) + cost,
                          heard |-> HeardAt(trail, Len(trail)) \o outs])

\* arc: _act_raw and _apply_frame with an answer; a grid of another shape
\* counts as changed
ArcAnswered(out, by) ==
  /\ step' = step + 1
  /\ Row(step + 1, by)
  /\ unchanged' = IF out = "same" THEN unchanged + 1 ELSE 0
  /\ legal' \in BOOLEAN
  /\ Trailed(<<out>>, 1)

\* kirby: a press through the gateway, then one observation
KirbyPressed(out, by) ==
  /\ step' = step + 1
  /\ Row(step + 1, by)
  /\ Trailed(<<out>>, 1)
  /\ UNCHANGED <<unchanged, legal>>

\* nds: frames pass, without an observation
NdsPassed(samples, frames) ==
  /\ Trailed(samples, frames)
  /\ UNCHANGED <<step, unchanged, legal, rows>>

\* Tool calls between skills: a step of the player's own, or an observation
Manual ==
  /\ ~running
  /\ Len(rows) < MaxRows
  /\ \/ /\ host = "arc" /\ legal
        /\ \E out \in {"same", "elsewhere"} : ArcAnswered(out, 0)
     \/ /\ host # "arc"
        /\ step' = step + 1
        /\ Row(step + 1, 0)
        /\ UNCHANGED <<unchanged, legal, trail>>
  /\ UNCHANGED <<host, skill, running, run, log, runs>>

\* reset_game
Reset ==
  /\ host = "arc" /\ ~running
  /\ Len(rows) < MaxRows
  /\ step' = 0 /\ Row(0, 0) /\ unchanged' = 0
  /\ legal' \in BOOLEAN
  /\ Trailed(<<"reset">>, 0)
  /\ UNCHANGED <<host, skill, running, run, log, runs>>

-----------------------------------------------------------------------------
(* run_skill.                                                               *)

\* the last few steps, those a session's streak may reach back to
Kept == IF Len(trail) > MaxThreshold THEN MaxThreshold ELSE Len(trail)
Forgotten ==
  trail' = [i \in 1..Kept |-> [outs |-> trail[Len(trail) - Kept + i].outs,
                               total |-> 0, heard |-> <<>>]]

Start ==
  /\ ~running
  /\ skill # <<>>
  /\ runs < MaxRuns
  /\ runs' = runs + 1
  /\ running' = TRUE
  /\ Forgotten
  /\ run' = [FreshRun EXCEPT !.from = Kept]
  /\ log' = <<>>
  /\ UNCHANGED <<host, skill, step, unchanged, legal, rows>>

Block == skill[run.top]
Current == Block.body[run.inner]
Unit == running /\ run.stop = "going"

\* the next block, or the end of the list
NextBlock(r) ==
  IF r.top = Len(skill) THEN [r EXCEPT !.stop = "end"]
  ELSE [r EXCEPT !.top = @ + 1, !.inner = 1, !.iter = 0, !.used = 0,
                 !.idle = 0, !.from = Len(trail')]

\* the loop ends and leaves its summary in executed
Summarised(r, fired) ==
  NextBlock([r EXCEPT !.loops =
    Append(@, [block |-> Block, fired |-> fired, iterations |-> r.iter + 1,
               from |-> r.from, to |-> Len(trail'), spent |-> r.budget = 0])])

(* Mutant: every step counts as a pass. *)
NextInLoopCounting(r) ==
  IF host = "nds" /\ r.budget = 0 THEN Summarised(r, FALSE)
  ELSE IF r.inner < Len(Block.body)
  THEN [r EXCEPT !.inner = @ + 1, !.iter = @ + 1]
  ELSE IF r.iter + 1 < Block.iters
  THEN [r EXCEPT !.inner = 1, !.iter = @ + 1]
  ELSE Summarised(r, FALSE)

\* the next step of a loop whose stop_when has not fired
NextInLoop(r) ==
  IF host = "nds" /\ r.budget = 0 THEN Summarised(r, FALSE)
  ELSE IF r.inner < Len(Block.body) THEN [r EXCEPT !.inner = @ + 1]
  ELSE IF r.iter + 1 < Block.iters
  THEN [r EXCEPT !.inner = 1, !.iter = @ + 1]
  ELSE Summarised(r, FALSE)

\* a step succeeded at this cost; idle is the streak it leaves
Counted(cost, idle) ==
  [run EXCEPT !.budget = @ - cost, !.ok = @ + 1, !.used = @ + cost,
              !.idle = idle, !.activity = @ + cost]
After(r, fires) ==
  run' = IF Plain(Block) THEN NextBlock(r)
         ELSE IF fires THEN Summarised(r, TRUE) ELSE NextInLoop(r)

Abort(why) == run' = [run EXCEPT !.stop = why]
Untouched == UNCHANGED <<host, skill, running, log, runs>>
WorldUntouched == UNCHANGED <<step, unchanged, legal, rows, trail>>

(* Mutant: the frames after a press are forgotten. *)
TooDearUnsettled ==
  \/ run.budget = 0
  \/ host = "nds" /\ Current.held /\ Current.frames > run.budget

\* the budget is gone before the step; a press that would overshoot the frame
\* ceiling is not issued
TooDear ==
  \/ run.budget = 0
  \/ host = "nds" /\ Current.held /\ Current.frames + Settle > run.budget
Exhausted ==
  /\ Unit /\ TooDear
  /\ Abort("ceiling")
  /\ Untouched /\ WorldUntouched

\* a step that is refused before anything is sent: not legal now, or malformed
Refused ==
  /\ Unit /\ ~TooDear
  /\ host = "kirby" \/ host = "arc"
  /\ Abort("refused")
  /\ Untouched /\ WorldUntouched

\* _check_stop_when
ArcFires(out, r) ==
  \/ Block.when.kind = "region" /\ out = "inside"
  \/ Block.when.kind = "unchanged" /\ unchanged' >= Block.when.n
  \/ Block.when.kind = "elapsed" /\ r.used >= Block.when.n
ArcStep ==
  /\ Unit /\ ~TooDear /\ host = "arc" /\ legal
  /\ \E out \in {"same", "inside", "elsewhere"} :
       /\ ArcAnswered(out, runs)
       /\ LET r == Counted(1, 0) IN After(r, ArcFires(out, r))
  /\ Untouched

\* the server acts and the answer does not arrive
ArcLost ==
  /\ Unit /\ ~TooDear /\ host = "arc" /\ legal
  /\ run' = [run EXCEPT !.stop = "lost", !.activity = @ + 1]
  /\ Untouched /\ WorldUntouched

\* _check_kirby_stop_when: a press moved (or was blocked), or changed a region
\* between the last two frames
KirbyFires(out, r) ==
  \/ Block.when.kind \in {"moved", "region"} /\ out = "hit"
  \/ Block.when.kind = "elapsed" /\ r.used >= Block.when.n
KirbyOuts ==
  IF ~Plain(Block) /\ Block.when.kind = "region" /\ rows = <<>> THEN {"miss"}
  ELSE {"hit", "miss"}
KirbyStep ==
  /\ Unit /\ ~TooDear /\ host = "kirby"
  /\ \E out \in KirbyOuts :
       /\ KirbyPressed(out, runs)
       /\ LET r == Counted(1, 0) IN After(r, KirbyFires(out, r))
  /\ Untouched

\* _nds_step_and_sample: a press is one sample, waiting one for every Stride
\* frames that are left to it
NdsCost ==
  IF Current.held THEN Current.frames + Settle
  ELSE IF Current.frames < run.budget THEN Current.frames ELSE run.budget
NdsSamples ==
  IF Current.held THEN 1 ELSE (NdsCost + Stride - 1) \div Stride
(* Mutant: low samples add up, in a row or not. *)
StreaksTotal(samples, before) ==
  [i \in 0..Len(samples) |->
     before + Cardinality({k \in 1..i : samples[k] = "low"})]
\* the streak after each sample: the low ones at the end, and the streak the
\* loop brought along when there were no others
Streaks(samples, before) ==
  [i \in 0..Len(samples) |->
     LET streak == {k \in 1..i : \A j \in k..i : samples[j] = "low"}
     IN  Cardinality(streak) + IF Cardinality(streak) = i THEN before ELSE 0]
NdsFires(streaks, r) ==
  \/ Block.when.kind = "elapsed" /\ r.used >= Block.when.n
  \/ /\ Block.when.kind = "idle"
     /\ \E i \in DOMAIN streaks \ {0} : streaks[i] >= Block.when.n
NdsStep ==
  /\ Unit /\ ~TooDear /\ host = "nds"
  /\ \E samples \in [1..NdsSamples -> {"low", "high"}] :
       LET streaks == Streaks(samples, run.idle)
       IN  /\ NdsPassed(samples, NdsCost)
           /\ LET r == Counted(NdsCost, streaks[NdsSamples])
              IN  After(r, NdsFires(streaks, r))
  /\ Untouched

(* Mutant: the record is logged after the trailing observation. *)
FinishRendered ==
  /\ running /\ run.stop # "going"
  /\ IF host = "arc" THEN UNCHANGED <<step, rows>>
     ELSE step' = step + 1 /\ Row(step + 1, 0)
  /\ log' = <<[step |-> step', used |-> Ceiling[host] - run.budget,
                         ok |-> run.ok, loops |-> run.loops,
                         stop |-> run.stop,
                         call |-> runs, at |-> Len(rows')]>>
  /\ running' = FALSE
  /\ run' = FreshRun
  /\ UNCHANGED <<host, skill, unchanged, legal, runs, trail>>

\* the record is logged first, then a trailing observation is rendered (arc
\* renders what it holds)
Finish ==
  /\ running /\ run.stop # "going"
  /\ log' = <<[step |-> step, used |-> Ceiling[host] - run.budget,
                         ok |-> run.ok, loops |-> run.loops,
                         stop |-> run.stop,
                         call |-> runs, at |-> Len(rows)]>>
  /\ running' = FALSE
  /\ run' = FreshRun
  /\ IF host = "arc" THEN UNCHANGED <<step, rows>>
     ELSE step' = step + 1 /\ Row(step + 1, 0)
  /\ UNCHANGED <<host, skill, unchanged, legal, runs, trail>>

Next ==
  \/ \E s \in Candidates : Define(s)
  \/ Manual \/ Reset \/ Start
  \/ Exhausted \/ Refused \/ ArcStep \/ ArcLost \/ KirbyStep \/ NdsStep
  \/ Finish

Spec == Init /\ [][Next]_vars

-----------------------------------------------------------------------------
(* What the scorers read of the log.                                        *)

\* is_qualifying_conditional_call, which knows the predicates of kirby
WorldReading == {"moved", "region"}
Qualifies(r) ==
  /\ host = "kirby"
  /\ r.ok >= MinSteps
  /\ r.loops # <<>>
  /\ LET l == Last(r.loops)
     IN  /\ l.fired /\ l.block.when.kind \in WorldReading
         /\ l.iterations >= MinIterations
\* stop_when_fired, which nds logs for its scorer
StopWhenFired(r) == \E i \in 1..Len(r.loops) : r.loops[i].fired

-----------------------------------------------------------------------------
(* Properties.                                                              *)

\* What stop_when means, over the steps from + 1 to upto.
LowUpto(heard, i, n) == \A j \in i - n + 1..i : heard[j] = "low"
MeansIn(steps, w, from, upto) ==
  \/ /\ w.kind = "elapsed"
     /\ steps[upto].total >= TotalAt(steps, from) + w.n
  \/ /\ w.kind = "unchanged"
     /\ upto >= w.n
     /\ \A i \in upto - w.n + 1..upto : steps[i].outs = <<"same">>
  \/ /\ w.kind \in {"region", "moved"}
     /\ steps[upto].outs \in {<<"inside">>, <<"hit">>}
  \/ /\ w.kind = "idle"
     /\ \E i \in Len(HeardAt(steps, from)) + w.n..Len(steps[upto].heard) :
          LowUpto(steps[upto].heard, i, w.n)
Means(w, from, upto) == MeansIn(trail, w, from, upto)

\* A loop ends with the first step after which its stop_when holds of what the
\* world did, in the middle of its body too; it says that it fired exactly
\* then, and ends without only after all its passes or, on nds, when no frame
\* is left.  The counters it reads live on different scales: the streak of
\* unchanged grids is the session's, the idle streak and the count of steps
\* are the loop's.
LoopEndsAtFirstHit ==
  \A i \in 1..Len(log) : \A k \in 1..Len(log[i].loops) :
    LET l == log[i].loops[k]
        w == l.block.when
    IN  /\ l.fired <=> Means(w, l.from, l.to)
        /\ \A j \in l.from + 1..l.to - 1 : ~Means(w, l.from, j)
        /\ ~l.fired =>
             \/ l.to - l.from = l.block.iters * Len(l.block.body)
             \/ host = "nds" /\ l.spent

\* The steps a record claims are the oracle rows of its run, all of them and no
\* others, although a run may end with a refused step, with a lost answer or at
\* the ceiling and a rendering may follow: the scorer excludes what was claimed
\* about the inside of this span (score_entity_gate_v3.py 238).
SpanIsTheMacro ==
  host # "nds" =>
    \A i \in 1..Len(log) :
      LET r == log[i]
          mine == {j \in 1..Len(rows) : rows[j].by = r.call}
      IN  /\ mine = r.at - r.used + 1..r.at
          /\ \A j \in mine : rows[j].step = r.step - (r.at - j)

\* One run_skill makes the world act no more than its ceiling allows, whatever
\* its loops ask for and although an answer was lost or a press costs more
\* frames than it holds the button.
CeilingHolds == run.activity <= Ceiling[host]

\* A call counts as evidence that a skill branched on the world only if it did:
\* on nds some loop of it stopped because its condition came true, on kirby its
\* last loop did so, by a condition that reads the world, and only after a
\* whole pass on which it had not.
EvidenceIsReal ==
  \A i \in 1..Len(log) :
    LET loops == log[i].loops
        came(l) == Means(l.block.when, l.from, l.to)
    IN  IF host = "nds"
        THEN StopWhenFired(log[i]) =>
               \E k \in 1..Len(loops) : came(loops[k])
        ELSE Qualifies(log[i]) =>
               LET l == Last(loops)
               IN  /\ came(l) /\ l.block.when.kind # "elapsed"
                   /\ l.to - l.from > Len(l.block.body)
                   /\ ~Means(l.block.when, l.from, l.from + Len(l.block.body))
=============================================================================
