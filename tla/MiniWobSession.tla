---------------------------- MODULE MiniWobSession ----------------------------
(***************************************************************************)
(* world_mcp.py, class MiniWobSession, on core/miniwob_world.py, with the   *)
(* pinned seeds of click-checkboxes: one attempt per seed, reset_episode    *)
(* moves on, an unfinished attempt is logged as abandoned.                  *)
(*                                                                          *)
(* A click, a typed text and a key press are one action here: they differ   *)
(* in what they do to the page.  Rejected arguments change nothing and are  *)
(* left out, and so are the frames and the texts of the results.            *)
(***************************************************************************)
EXTENDS Integers, Sequences, FiniteSetsExt

CONSTANTS Seeds,    \* _pinned_seeds, in order
          MaxRows   \* bound on the oracle log

N == Len(Seeds)

ASSUME MiniWobAssumption ==
  /\ N \in Nat \ {0} /\ MaxRows \in Nat
  /\ \A i, j \in 1..N : Seeds[i] = Seeds[j] => i = j

VARIABLES idx,         \* _episode_idx
          exhausted,   \* _exhausted
          over,        \* _episode_over
          seed,        \* mw.current_seed
          reward,      \* mw.last_info's reward
          page,        \* the episode the browser shows
          oracle,      \* oracle.jsonl
          failed       \* history: the browser has failed a reset

vars == <<idx, exhausted, over, seed, reward, page, oracle, failed>>

(* external: a MiniWoB page, which once it is done stays done, with the     *)
(* reward it ended with.                                                    *)
Rewards == {0, 1}
Fresh(s) == [seed |-> s, done |-> FALSE, reward |-> 0]
Outcomes(p) ==
  IF p.done THEN {p}
  ELSE {p} \cup {[p EXCEPT !.done = TRUE, !.reward = r] : r \in Rewards}

(* _log_oracle *)
OracleRow(e, s, r, done, abandoned) ==
  [episode |-> e, seed |-> s, reward |-> r, done |-> done, abandoned |-> abandoned]

-----------------------------------------------------------------------------
Init ==
  /\ idx = 0 /\ exhausted = FALSE /\ over = FALSE
  /\ seed = Seeds[1] /\ page = Fresh(Seeds[1])
  /\ reward = 0 /\ failed = FALSE
  /\ oracle = <<OracleRow(0, Seeds[1], 0, FALSE, FALSE)>>

(* click, type_text, press_key *)
Act ==
  /\ ~exhausted
  /\ Len(oracle) < MaxRows
  /\ page' \in Outcomes(page)
  /\ reward' = page'.reward
  /\ over' = page'.done
  /\ oracle' = Append(oracle, OracleRow(idx, seed, reward', over', FALSE))
  /\ UNCHANGED <<idx, exhausted, seed, failed>>

(* The page is acted on, and reading the result back from it raises.        *)
ActFails ==
  /\ ~exhausted
  /\ page' \in Outcomes(page)
  /\ UNCHANGED <<idx, exhausted, over, seed, reward, oracle, failed>>

(* Mutants: an attempt is closed although it ended; none is closed.         *)
ClosedAlways == Append(oracle, OracleRow(idx, seed, reward, TRUE, TRUE))
ClosedNever == oracle

(* _advance_pinned_seed: an attempt that did not end is logged abandoned.   *)
Closed ==
  IF over THEN oracle
  ELSE Append(oracle, OracleRow(idx, seed, reward, TRUE, TRUE))

(* reset_episode on the last seed. *)
ResetExhausts ==
  /\ ~exhausted
  /\ idx + 1 >= N
  /\ Len(oracle) < MaxRows
  /\ oracle' = Closed
  /\ exhausted' = TRUE /\ over' = TRUE
  /\ UNCHANGED <<idx, seed, reward, page, failed>>

(* reset_episode once the seeds are used up. *)
ResetRefused ==
  /\ exhausted
  /\ UNCHANGED vars

(* reset_episode with a seed left; the index moves before the browser does. *)
MoveOn ==
  /\ ~exhausted
  /\ idx + 1 < N
  /\ Len(oracle) + 1 < MaxRows
  /\ idx' = idx + 1
  /\ seed' = Seeds[idx' + 1]
  /\ UNCHANGED exhausted

Reset ==
  /\ MoveOn
  /\ page' = Fresh(seed')
  /\ reward' = 0 /\ over' = FALSE
  /\ oracle' = Append(Closed, OracleRow(idx', seed', 0, FALSE, FALSE))
  /\ UNCHANGED failed

(* The browser raises on the way, before or after it loaded the page; the   *)
(* brain is told reset_episode failed.                                      *)
ResetFails ==
  /\ MoveOn
  /\ failed' = TRUE
  /\ page' \in {page, Fresh(seed')}
  /\ oracle' = Closed
  /\ UNCHANGED <<reward, over>>

Next == Act \/ ActFails \/ ResetExhausts \/ ResetRefused \/ Reset \/ ResetFails

Spec == Init /\ [][Next]_vars

-----------------------------------------------------------------------------
Rows(e) == {i \in 1..Len(oracle) : oracle[i].episode = e}
Terminal(e) == {i \in Rows(e) : oracle[i].done}

(* An abandonment is the one terminal row of its attempt, and its last:     *)
(* eval/score_gate0.py counts an attempt with any other number of terminal  *)
(* rows, or with rows behind them, as malformed.  Whatever fails.           *)
AbandonedIsFinal ==
  \A e \in 0..(N - 1) : \A i \in Rows(e) :
    oracle[i].abandoned => Terminal(e) = {i} /\ i = Max(Rows(e))

(* What eval/score_gate0.py accepts as solved (_miniwob_success). *)
Success(e) ==
  \E i \in Rows(e) :
    /\ Terminal(e) = {i} /\ i = Max(Rows(e))
    /\ ~oracle[i].abandoned /\ oracle[i].reward = 1

(* While no reset has failed, the running attempt is scored solved only if its   *)
(* page ended solved and an action read that, and every attempt that was    *)
(* left has a terminal row to be scored by.                                 *)
ScoredAsPlayed ==
  ~failed =>
    /\ \A e \in 0..(idx - 1) : Terminal(e) # {}
    /\ Success(idx) => page.done /\ page.reward = 1 /\ page.seed = seed /\ over
    /\ exhausted => Terminal(idx) # {}

(* One seed after the other, each closed before the next, as PinnedSeeds    *)
(* has it, for as long as no reset has failed.                              *)
Seedwise == INSTANCE PinnedSeeds WITH
  at <- IF exhausted THEN N ELSE idx,
  closed <- {e \in 0..(N - 1) : Terminal(e) # {}}
SeedsInOrder ==
  Seedwise!Init /\ [][~failed' => [Seedwise!Next]_(Seedwise!vars)]_vars
=============================================================================
