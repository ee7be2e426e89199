------------------------------ MODULE Patience ------------------------------
(***************************************************************************)
(* core/patience.py, classes AdvanceLearner and Patience, as                *)
(* core/perception_plugin.py drives them: observe() presses a plain text    *)
(* screen forward for free before the brain sees it, within a budget, with  *)
(* a button it learns per screen context.                                   *)
(*                                                                          *)
(* A screen is its context label.  What a press does to the game, and       *)
(* whether the plugin sees a change, is any outcome.                        *)
(***************************************************************************)
EXTENDS Integers, Sequences

CONSTANTS Contexts,     \* SymbolicState.context labels
          Gated,        \* gated_contexts: the labels that may be advanced
          Candidates,   \* the candidate ladder
          Actions,      \* what the brain commands
          Budget,       \* free presses per gated episode
          UnlockFails,  \* UNLOCK_FAILS
          NoButton,     \* a missing dictionary entry
          NoAction,     \* _last_brain_action is None
          Watched       \* the context whose presses the history follows

Buttons == {Candidates[i] : i \in 1..Len(Candidates)}

ASSUME PatienceAssumption ==
  /\ Gated \subseteq Contexts
  /\ Watched \in Gated
  /\ Candidates \in Seq(Buttons) /\ Candidates # <<>>
  /\ NoButton \notin Buttons
  /\ NoAction \notin Actions
  /\ Budget \in Nat
  /\ UnlockFails \in Nat /\ UnlockFails >= 2

VARIABLES screen,    \* context of the frame perceived last
          mind,      \* the learner's memory, per gated context
          spent,     \* _spent
          command,   \* _last_brain_action
          busy,      \* advance() is in its loop
          stretch,   \* history: free presses since the screen was no gated
                     \* one or the brain tried something else
          row,       \* history: the last presses in Watched that were alike
          dull       \* history: the last presses in Watched without effect

vars == <<screen, mind, spent, command, busy, stretch, row, dull>>

(* _learned, _pending, _tried_idx (modulo the ladder), _locked_fails.       *)
Blank == [learned |-> NoButton, pending |-> NoButton, rung |-> 0, fails |-> 0]
Minds == [learned : Buttons \cup {NoButton}, pending : Buttons \cup {NoButton},
          rung : 0..(Len(Candidates) - 1), fails : 0..(UnlockFails - 1)]

-----------------------------------------------------------------------------
(* next_candidate: the locked button, else the one that worked once, else   *)
(* the next rung of the ladder.                                             *)
OnLadder(m) == m.learned = NoButton /\ m.pending = NoButton
Chosen(m) == IF m.learned # NoButton THEN m.learned
             ELSE IF m.pending # NoButton THEN m.pending
             ELSE Candidates[m.rung + 1]

Climbed(m) ==
  IF OnLadder(m) THEN [m EXCEPT !.rung = (@ + 1) % Len(Candidates)] ELSE m

(* record: an effect of the locked button, or none.                         *)
Unlocked(m) == [learned |-> NoButton, pending |-> m.pending, rung |-> m.rung, fails |-> 0]
LockedOutcome(m, changed) ==
  IF changed THEN [m EXCEPT !.fails = 0]
  ELSE IF m.fails + 1 < UnlockFails THEN [m EXCEPT !.fails = @ + 1]
  ELSE Unlocked(m)

(* record: the first effect of a button is a hypothesis, the second in a row *)
(* locks it.                                                                 *)
Locked(m, b) == [learned |-> b, pending |-> NoButton, rung |-> m.rung, fails |-> 0]
Dropped(m, b) == IF m.pending = b THEN [m EXCEPT !.pending = NoButton] ELSE m

(* Mutants: one effect locks; a button without a second effect stays        *)
(* pending.                                                                 *)
TrialOutcomeAtOnce(m, b, changed) ==
  IF changed THEN Locked(m, b) ELSE Dropped(m, b)
TrialOutcomeKept(m, b, changed) ==
  IF ~changed THEN m
  ELSE IF m.pending = b THEN Locked(m, b) ELSE [m EXCEPT !.pending = b]

TrialOutcome(m, b, changed) ==
  IF ~changed THEN Dropped(m, b)
  ELSE IF m.pending = b THEN Locked(m, b) ELSE [m EXCEPT !.pending = b]

Recorded(m, b, changed) ==
  IF m.learned = b THEN LockedOutcome(m, changed) ELSE TrialOutcome(m, b, changed)

(* The history of one press: the presses of the episode, how many in a row   *)
(* were alike, and what was pressed since the screen last changed.  The      *)
(* counts are capped one past the budget, at UnlockFails and at Enough.      *)
StretchAfter(c) ==
  IF c \notin Gated THEN 0 ELSE IF stretch > Budget THEN stretch ELSE stretch + 1
Enough == UnlockFails + Len(Candidates)
RowAfter(b, changed) ==
  IF row.button = b /\ row.changed = changed
  THEN [row EXCEPT !.n = IF @ < UnlockFails THEN @ + 1 ELSE @]
  ELSE [button |-> b, changed |-> changed, n |-> 1]
DullAfter(b, changed) ==
  IF changed THEN [n |-> 0, tried |-> {}]
  ELSE [n |-> IF dull.n < Enough THEN dull.n + 1 ELSE dull.n,
        tried |-> dull.tried \cup {b}]

-----------------------------------------------------------------------------
Init ==
  /\ screen \in Contexts
  /\ mind = [c \in Gated |-> Blank]
  /\ spent = 0 /\ command = NoAction /\ busy = FALSE /\ stretch = 0
  /\ row = [button |-> NoButton, changed |-> FALSE, n |-> 0]
  /\ dull = [n |-> 0, tried |-> {}]

(* The loop condition of advance(). *)
Advances(c, n) == c \in Gated /\ n < Budget

(* Mutant: every observe() has the whole budget. *)
ObserveRearmed(c) ==
  /\ ~busy
  /\ screen' = c
  /\ spent' = 0
  /\ stretch' = IF c \in Gated THEN stretch ELSE 0
  /\ busy' = Advances(c, spent')
  /\ UNCHANGED <<mind, command, row, dull>>

(* observe() perceives its entry frame, whose class may end the episode, and *)
(* enters advance().                                                         *)
Observe(c) ==
  /\ ~busy
  /\ screen' = c
  /\ spent' = IF c \in Gated THEN spent ELSE 0
  /\ stretch' = IF c \in Gated THEN stretch ELSE 0
  /\ busy' = Advances(c, spent')
  /\ UNCHANGED <<mind, command, row, dull>>

(* Mutant: presses that changed the screen are free. *)
PressUncounted(c, changed) ==
  /\ busy
  /\ LET b == Chosen(mind[screen]) IN
       /\ mind' = [mind EXCEPT ![screen] = Recorded(Climbed(@), b, changed)]
       /\ row' = IF screen = Watched THEN RowAfter(b, changed) ELSE row
       /\ dull' = IF screen = Watched THEN DullAfter(b, changed) ELSE dull
  /\ screen' = c
  /\ spent' = IF changed THEN spent ELSE spent + 1
  /\ stretch' = StretchAfter(c)
  /\ busy' = Advances(c, spent')
  /\ UNCHANGED command

(* One turn of advance(): press, perceive, and record the outcome under the  *)
(* context that was pressed on.                                              *)
Press(c, changed) ==
  /\ busy
  /\ LET b == Chosen(mind[screen]) IN
       /\ mind' = [mind EXCEPT ![screen] = Recorded(Climbed(@), b, changed)]
       /\ row' = IF screen = Watched THEN RowAfter(b, changed) ELSE row
       /\ dull' = IF screen = Watched THEN DullAfter(b, changed) ELSE dull
  /\ screen' = c
  /\ spent' = spent + 1
  /\ stretch' = StretchAfter(c)
  /\ busy' = Advances(c, spent')
  /\ UNCHANGED command

(* A command of the brain is carried out (_post_action): one that differs    *)
(* from the last re-arms the budget.                                         *)
BrainActs(a) ==
  /\ ~busy
  /\ spent' = IF a = command THEN spent ELSE 0
  /\ stretch' = IF a = command THEN stretch ELSE 0
  /\ command' = a
  /\ UNCHANGED <<screen, mind, busy, row, dull>>

Presses == \E c \in Contexts, changed \in BOOLEAN : Press(c, changed)

Next ==
  \/ \E c \in Contexts : Observe(c)
  \/ Presses
  \/ \E a \in Actions : BrainActs(a)

(* advance() runs in the caller's thread until it returns. *)
Spec == Init /\ [][Next]_vars /\ WF_vars(Presses)

-----------------------------------------------------------------------------
TypeOK ==
  /\ screen \in Contexts
  /\ mind \in [Gated -> Minds]
  /\ spent \in 0..Budget
  /\ command \in Actions \cup {NoAction}
  /\ busy \in BOOLEAN
  /\ stretch \in 0..(Budget + 1)
  /\ row \in [button : Buttons \cup {NoButton}, changed : BOOLEAN, n : 0..UnlockFails]
  /\ dull \in [n : 0..Enough, tried : SUBSET Buttons]

(* A stuck gated screen costs at most the budget in free presses, over all   *)
(* the observe() calls the brain makes while it repeats itself (Patience:    *)
(* "at most `budget` free presses total, not `budget` per observe()          *)
(* forever").                                                                *)
StuckIsBounded == stretch <= Budget

(* A button is locked in only by its second effect in a row, and a locked    *)
(* one is given up only when its last UNLOCK_FAILS presses in a row failed   *)
(* on that context, however the presses of other contexts, other episodes    *)
(* and the brain's own actions lie in between.                               *)
Learned(m) == m[Watched].learned
LearnsFromRows ==
  [][Learned(mind') # Learned(mind) =>
       IF Learned(mind') # NoButton
       THEN row'.button = Learned(mind') /\ row'.changed /\ row'.n >= 2
       ELSE row'.button = Learned(mind) /\ ~row'.changed /\ row'.n = UnlockFails]_vars

(* A context that does not react has every candidate tried, whatever had     *)
(* been locked or was on trial before (next_candidate: "a persistent screen  *)
(* keeps cycling rather than getting stuck").                                *)
LadderIsClimbed == dull.n = Enough => dull.tried = Buttons

(* observe() always returns to the brain, even from a screen that changes at *)
(* every press for ever.                                                     *)
BrainIsWoken == busy ~> ~busy
=============================================================================
