------------------------ MODULE MiniWobSessionProofs ------------------------
(***************************************************************************)
(* Theorems about MiniWobSession, for every list of distinct pinned seeds   *)
(* and every length of the log.                                             *)
(***************************************************************************)
EXTENDS MiniWobSession, TLAPS

SeedSet == {Seeds[i] : i \in 1..N}
Pages == [seed : SeedSet, done : BOOLEAN, reward : Rewards]
LogRows == [episode : 0..(N - 1), seed : SeedSet, reward : Rewards,
            done : BOOLEAN, abandoned : BOOLEAN]

TypeInv ==
  /\ idx \in 0..(N - 1) /\ seed = Seeds[idx + 1]
  /\ exhausted \in BOOLEAN /\ over \in BOOLEAN /\ failed \in BOOLEAN
  /\ reward \in Rewards /\ page \in Pages
  /\ oracle \in Seq(LogRows)

(* Nothing is logged for an attempt to come; an abandonment is terminal and  *)
(* of an attempt that was left; it is its attempt's one terminal row, and    *)
(* its last.                                                                 *)
LogInOrder ==
  \A i \in 1..Len(oracle) :
    /\ oracle[i].episode <= idx
    /\ oracle[i].abandoned =>
         /\ oracle[i].done
         /\ oracle[i].episode < idx \/ exhausted
         /\ \A j \in 1..Len(oracle) :
              oracle[j].episode = oracle[i].episode =>
                j <= i /\ (oracle[j].done => j = i)

(* An end that the running attempt's log claims is the end its page came to. *)
EndIsReal ==
  \A i \in 1..Len(oracle) :
    oracle[i].episode = idx /\ oracle[i].done /\ ~oracle[i].abandoned =>
      page.done /\ page.reward = oracle[i].reward /\ over

(* Until a reset fails: the page is the running seed's, an attempt that is   *)
(* over has its terminal row, and so has every attempt that was left.        *)
Ended(e) == \E i \in 1..Len(oracle) : oracle[i].episode = e /\ oracle[i].done
EndIsLogged ==
  /\ exhausted => over
  /\ ~failed => /\ page.seed = seed
                /\ over => Ended(idx)
                /\ \A e \in 0..(idx - 1) : Ended(e)

IInv == TypeInv /\ LogInOrder /\ EndIsReal /\ EndIsLogged

-----------------------------------------------------------------------------
(* The list of seeds is not empty, and each has its place.                   *)
LEMMA SeedFacts ==
  /\ N \in Nat \ {0}
  /\ \A i \in 0..(N - 1) : Seeds[i + 1] \in SeedSet
BY MiniWobAssumption DEF MiniWobAssumption, SeedSet

(* The greatest element of a set of integers is what Max chooses.            *)
LEMMA MaxIs ==
  ASSUME NEW S \in SUBSET Int, NEW i \in S, \A j \in S : j <= i
  PROVE  Max(S) = i
<1>1. \A x \in S : (\A y \in S : x >= y) <=> x = i
  OBVIOUS
<1> QED BY <1>1 DEF Max

(* A page moves only to pages of its seed, and not at all once it is done.   *)
LEMMA OutcomeFacts ==
  ASSUME page \in Pages, page' \in Outcomes(page)
  PROVE  /\ page' \in Pages /\ page'.seed = page.seed
         /\ page.done => page' = page
<1>1. CASE page.done
  BY <1>1 DEF Outcomes
<1>2. CASE ~page.done
  <2>1. CASE page' = page
    BY <2>1
  <2>2. CASE page' \in {[page EXCEPT !.done = TRUE, !.reward = r] : r \in Rewards}
    BY <1>2, <2>2 DEF Pages
  <2> QED BY <1>2, <2>1, <2>2 DEF Outcomes
<1> QED BY <1>1, <1>2

(* The attempts that a log names are numbered.                               *)
LEMMA EpisodeNumbers ==
  ASSUME NEW log \in Seq(LogRows), NEW i \in 1..Len(log)
  PROVE  log[i].episode \in Int
<1>1. log[i] \in LogRows
  OBVIOUS
<1> QED BY <1>1, SeedFacts DEF LogRows

(* A row behind the log.                                                     *)
LEMMA Appended ==
  ASSUME NEW log \in Seq(LogRows), NEW row \in LogRows
  PROVE  /\ Append(log, row) \in Seq(LogRows)
         /\ Len(Append(log, row)) = Len(log) + 1
         /\ Append(log, row)[Len(log) + 1] = row
         /\ \A i \in 1..Len(log) : Append(log, row)[i] = log[i]
OBVIOUS

(* _advance_pinned_seed: the log with the running attempt closed.            *)
LEMMA ClosedFacts ==
  ASSUME IInv, ~exhausted
  PROVE  /\ Closed \in Seq(LogRows)
         /\ Len(Closed) = IF over THEN Len(oracle) ELSE Len(oracle) + 1
         /\ \A i \in 1..Len(oracle) : Closed[i] = oracle[i]
         /\ ~over => Closed[Len(oracle) + 1] = OracleRow(idx, seed, reward, TRUE, TRUE)
<1>1. OracleRow(idx, seed, reward, TRUE, TRUE) \in LogRows
  BY SeedFacts DEF IInv, TypeInv, OracleRow, LogRows
<1>2. oracle \in Seq(LogRows)
  BY DEF IInv, TypeInv
<1> QED BY <1>1, <1>2, Appended DEF Closed

(* Closing keeps the log in order: an attempt that is not over has no        *)
(* terminal row yet.                                                         *)
LEMMA ClosedInOrder ==
  ASSUME IInv, ~exhausted
  PROVE  \A i \in 1..Len(Closed) :
           /\ Closed[i].episode <= idx
           /\ Closed[i].abandoned =>
                /\ Closed[i].done
                /\ \A j \in 1..Len(Closed) :
                     Closed[j].episode = Closed[i].episode =>
                       j <= i /\ (Closed[j].done => j = i)
<1>1. CASE over
  BY <1>1 DEF IInv, LogInOrder, Closed
<1>2. CASE ~over
  <2> DEFINE row == OracleRow(idx, seed, reward, TRUE, TRUE)
             log == Closed
  <2>1. /\ Len(log) = Len(oracle) + 1
        /\ \A i \in 1..Len(oracle) : log[i] = oracle[i]
        /\ log[Len(oracle) + 1] = row
    BY <1>2, ClosedFacts
  <2>2. row.episode = idx /\ row.abandoned /\ row.done
    BY DEF OracleRow
  <2>3. Len(oracle) \in Nat /\ idx \in Nat
    BY SeedFacts DEF IInv, TypeInv
  <2>4. LogInOrder /\ \A i \in 1..Len(oracle) : oracle[i].episode = idx => ~oracle[i].done
    BY <1>2, <2>3 DEF IInv, LogInOrder, EndIsReal
  <2> HIDE DEF row, log
  <2>5. \A i \in 1..Len(log) :
           /\ log[i].episode <= idx
           /\ log[i].abandoned =>
                /\ log[i].done
                /\ \A j \in 1..Len(log) :
                     log[j].episode = log[i].episode =>
                       j <= i /\ (log[j].done => j = i)
    BY <2>1, <2>2, <2>3, <2>4 DEF LogInOrder
  <2> QED BY <2>5 DEF log
<1> QED BY <1>1, <1>2

(* Closing gives the running attempt its terminal row.                       *)
LEMMA ClosedEnds ==
  ASSUME IInv, ~exhausted
  PROVE  /\ (over => Ended(idx)) =>
              \E i \in 1..Len(Closed) : Closed[i].episode = idx /\ Closed[i].done
         /\ \A e \in Int : Ended(e) =>
              \E i \in 1..Len(Closed) : Closed[i].episode = e /\ Closed[i].done
         /\ \A i \in 1..Len(Closed) : Closed[i].done =>
              Ended(Closed[i].episode) \/ Closed[i].episode = idx
<1>1. CASE over
  BY <1>1 DEF Closed, Ended
<1>2. CASE ~over
  <2> DEFINE row == OracleRow(idx, seed, reward, TRUE, TRUE)
             log == Closed
  <2>1. /\ Len(log) = Len(oracle) + 1
        /\ \A i \in 1..Len(oracle) : log[i] = oracle[i]
        /\ log[Len(oracle) + 1] = row
    BY <1>2, ClosedFacts
  <2>2. row.episode = idx /\ row.done
    BY DEF OracleRow
  <2>3. Len(oracle) \in Nat
    BY DEF IInv, TypeInv
  <2> HIDE DEF row, log
  <2>4. \E i \in 1..Len(log) : log[i].episode = idx /\ log[i].done
    BY <2>1, <2>2, <2>3
  <2>5. \A e \in Int : Ended(e) =>
          \E i \in 1..Len(log) : log[i].episode = e /\ log[i].done
    BY <2>1, <2>3 DEF Ended
  <2>6. \A i \in 1..Len(log) : log[i].done => Ended(log[i].episode) \/ log[i].episode = idx
    BY <2>1, <2>2, <2>3 DEF Ended
  <2> QED BY <2>4, <2>5, <2>6 DEF log
<1> QED BY <1>1, <1>2

LEMMA InitInv == Init => IInv
<1> SUFFICES ASSUME Init PROVE IInv
  OBVIOUS
<1>1. Seeds[1] \in SeedSet /\ 0 \in 0..(N - 1) /\ 0 \in Rewards
  BY SeedFacts DEF SeedSet, Rewards
<1> DEFINE row == OracleRow(0, Seeds[1], 0, FALSE, FALSE)
<1>2. row \in LogRows /\ row.episode = 0 /\ ~row.done /\ ~row.abandoned
  BY <1>1 DEF OracleRow, LogRows
<1>3. oracle = <<row>>
  BY DEF Init
<1> HIDE DEF row
<1>4. oracle \in Seq(LogRows) /\ Len(oracle) = 1 /\ oracle[1] = row
  BY <1>2, <1>3
<1>9. /\ idx = 0 /\ exhausted = FALSE /\ over = FALSE /\ failed = FALSE
      /\ seed = Seeds[1] /\ page = Fresh(Seeds[1]) /\ reward = 0
  BY DEF Init
<1>5. LogInOrder /\ EndIsReal
  <2>1. \A i \in 1..Len(oracle) : oracle[i] = row
    BY <1>4
  <2> QED BY <1>2, <1>9, <2>1 DEF LogInOrder, EndIsReal
<1>7. Fresh(Seeds[1]) \in Pages
  BY <1>1 DEF Fresh, Pages
<1>8. TypeInv
  <2>1. idx \in 0..(N - 1) /\ idx + 1 = 1
    BY <1>1, <1>9
  <2>2. seed = Seeds[idx + 1]
    BY <1>9, <2>1
  <2> QED BY <1>1, <1>4, <1>7, <1>9, <2>1, <2>2 DEF TypeInv
<1>6. EndIsLogged
  BY <1>1 DEF Init, EndIsLogged, Fresh
<1> QED BY <1>5, <1>6, <1>8 DEF IInv

-----------------------------------------------------------------------------
(* One lemma per operation of the session.                                   *)

LEMMA ActInv == ASSUME IInv, Act PROVE IInv'
<1> DEFINE row == OracleRow(idx, seed, reward', over', FALSE)
<1>1. /\ page' \in Pages /\ page'.seed = page.seed
      /\ page.done => page' = page
  BY OutcomeFacts DEF IInv, TypeInv, Act
<1>2. /\ reward' = page'.reward /\ over' = page'.done
      /\ ~exhausted
      /\ UNCHANGED <<idx, exhausted, seed, failed>>
      /\ oracle' = Append(oracle, row)
  BY DEF Act
<1>3. reward' \in Rewards /\ over' \in BOOLEAN
  BY <1>1, <1>2 DEF Pages
<1>4. row \in LogRows
  BY <1>3, SeedFacts DEF IInv, TypeInv, OracleRow, LogRows
<1>6. /\ row.episode = idx /\ ~row.abandoned
      /\ row.done = over' /\ row.reward = reward'
  BY DEF OracleRow
<1> HIDE DEF row
<1>5. /\ oracle' \in Seq(LogRows) /\ Len(oracle') = Len(oracle) + 1
      /\ oracle'[Len(oracle) + 1] = row
      /\ \A i \in 1..Len(oracle) : oracle'[i] = oracle[i]
      /\ Len(oracle) \in Nat
  BY <1>2, <1>4 DEF IInv, TypeInv
<1>7. TypeInv'
  BY <1>1, <1>2, <1>3, <1>5 DEF IInv, TypeInv
<1>8. LogInOrder'
  BY <1>2, <1>5, <1>6 DEF IInv, TypeInv, LogInOrder
<1>9. EndIsReal'
  BY <1>1, <1>2, <1>5, <1>6 DEF IInv, EndIsReal
<1>10. EndIsLogged'
  BY <1>1, <1>2, <1>5, <1>6 DEF IInv, TypeInv, EndIsLogged, Ended
<1> QED BY <1>7, <1>8, <1>9, <1>10 DEF IInv

LEMMA ActFailsInv == ASSUME IInv, ActFails PROVE IInv'
<1>1. /\ page' \in Pages /\ page'.seed = page.seed
      /\ page.done => page' = page
  BY OutcomeFacts DEF IInv, TypeInv, ActFails
<1>2. UNCHANGED <<idx, exhausted, over, seed, reward, oracle, failed>>
  BY DEF ActFails
<1> QED BY <1>1, <1>2 DEF IInv, TypeInv, LogInOrder, EndIsReal, EndIsLogged, Ended

LEMMA ResetExhaustsInv == ASSUME IInv, ResetExhausts PROVE IInv'
<1>1. /\ ~exhausted /\ exhausted' = TRUE /\ over' = TRUE
      /\ oracle' = Closed /\ UNCHANGED <<idx, seed, reward, page, failed>>
  BY DEF ResetExhausts
<1>2. TypeInv'
  BY <1>1, ClosedFacts DEF IInv, TypeInv
<1>3. LogInOrder'
  BY <1>1, ClosedInOrder DEF LogInOrder
<1>4. EndIsReal'
  <2>1. CASE over
    BY <1>1, <2>1 DEF IInv, EndIsReal, Closed
  <2>2. CASE ~over
    <3>1. /\ Len(oracle') = Len(oracle) + 1
          /\ \A i \in 1..Len(oracle) : oracle'[i] = oracle[i]
          /\ oracle'[Len(oracle) + 1].abandoned
      BY <1>1, <2>2, ClosedFacts DEF OracleRow
    <3>2. Len(oracle) \in Nat
      BY DEF IInv, TypeInv
    <3> QED BY <1>1, <2>2, <3>1, <3>2 DEF IInv, EndIsReal
  <2> QED BY <2>1, <2>2
<1>5. EndIsLogged'
  <2>1. ~failed => Ended(idx)'
    BY <1>1, ClosedEnds DEF IInv, EndIsLogged, Ended
  <2>2. \A e \in 0..(idx - 1) : Ended(e) => Ended(e)'
    BY <1>1, ClosedEnds DEF Ended
  <2> QED BY <1>1, <2>1, <2>2 DEF IInv, EndIsLogged
<1> QED BY <1>2, <1>3, <1>4, <1>5 DEF IInv

LEMMA ResetInv == ASSUME IInv, Reset PROVE IInv'
<1> DEFINE row == OracleRow(idx', seed', 0, FALSE, FALSE)
           log == Closed
<1>1. /\ ~exhausted /\ exhausted' = exhausted /\ idx' = idx + 1 /\ idx + 1 < N
      /\ seed' = Seeds[idx' + 1] /\ page' = Fresh(seed') /\ reward' = 0
      /\ over' = FALSE /\ failed' = failed
  BY DEF Reset, MoveOn
<1>2. oracle' = Append(log, row)
  BY DEF Reset
<1>3. /\ idx \in Nat /\ idx' \in 0..(N - 1) /\ seed' \in SeedSet /\ N \in Nat
  BY <1>1, SeedFacts DEF IInv, TypeInv
<1>4. row \in LogRows /\ row.episode = idx' /\ ~row.done /\ ~row.abandoned
  BY <1>3 DEF OracleRow, LogRows, Rewards
<1>5. log \in Seq(LogRows)
  BY <1>1, ClosedFacts
<1>6. \A i \in 1..Len(log) :
        /\ log[i].episode <= idx
        /\ log[i].abandoned =>
             /\ log[i].done
             /\ \A j \in 1..Len(log) :
                  log[j].episode = log[i].episode =>
                    j <= i /\ (log[j].done => j = i)
  BY <1>1, ClosedInOrder
<1>7. /\ ~failed => \E i \in 1..Len(log) : log[i].episode = idx /\ log[i].done
      /\ \A e \in Int : Ended(e) =>
           \E i \in 1..Len(log) : log[i].episode = e /\ log[i].done
  BY <1>1, ClosedEnds DEF IInv, EndIsLogged
<1> HIDE DEF row, log
<1>8. /\ oracle' \in Seq(LogRows) /\ Len(oracle') = Len(log) + 1
      /\ oracle'[Len(log) + 1] = row
      /\ \A i \in 1..Len(log) : oracle'[i] = log[i]
      /\ Len(log) \in Nat
  BY <1>2, <1>4, <1>5
<1>9. TypeInv'
  BY <1>1, <1>3, <1>8 DEF IInv, TypeInv, Fresh, Pages, Rewards
<1>10. LogInOrder'
  <2>1. \A i \in 1..Len(log) : log[i].episode \in Int
    BY <1>5, EpisodeNumbers
  <2> QED BY <1>1, <1>3, <1>4, <1>6, <1>8, <2>1 DEF LogInOrder
<1>11. EndIsReal'
  BY <1>1, <1>3, <1>4, <1>6, <1>8 DEF EndIsReal
<1>12. EndIsLogged'
  <2>1. \A e \in 0..(idx - 1) : Ended(e) => Ended(e)'
    BY <1>7, <1>8 DEF Ended
  <2>2. ~failed => \A e \in {idx} : Ended(e)'
    BY <1>1, <1>7, <1>8 DEF Ended
  <2>3. \A e \in 0..(idx' - 1) : e \in 0..(idx - 1) \/ e \in {idx}
    BY <1>1, <1>3
  <2>4. ~failed => \A e \in 0..(idx - 1) : Ended(e)
    BY DEF IInv, EndIsLogged
  <2>5. ~failed => \A e \in 0..(idx' - 1) : Ended(e)'
    BY <2>1, <2>2, <2>3, <2>4
  <2>6. page'.seed = seed'
    BY <1>1 DEF Fresh
  <2> QED BY <1>1, <2>5, <2>6 DEF EndIsLogged
<1> QED BY <1>9, <1>10, <1>11, <1>12 DEF IInv

LEMMA ResetFailsInv == ASSUME IInv, ResetFails PROVE IInv'
<1>1. /\ ~exhausted /\ exhausted' = exhausted /\ idx' = idx + 1 /\ idx + 1 < N
      /\ seed' = Seeds[idx' + 1] /\ page' \in {page, Fresh(seed')}
      /\ failed' = TRUE /\ oracle' = Closed /\ UNCHANGED <<reward, over>>
  BY DEF ResetFails, MoveOn
<1>2. /\ idx \in Nat /\ idx' \in 0..(N - 1) /\ seed' \in SeedSet
  BY <1>1, SeedFacts DEF IInv, TypeInv
<1>3. Fresh(seed') \in Pages
  BY <1>2 DEF Fresh, Pages, Rewards
<1>4. TypeInv'
  BY <1>1, <1>2, <1>3, ClosedFacts DEF IInv, TypeInv
<1>5. \A i \in 1..Len(oracle') : oracle'[i].episode <= idx
  BY <1>1, ClosedInOrder
<1>6. LogInOrder'
  <2>1. \A i \in 1..Len(oracle') : oracle'[i].episode \in Int
    BY <1>4, EpisodeNumbers DEF TypeInv
  <2> QED BY <1>1, <1>2, <2>1, ClosedInOrder DEF LogInOrder
<1>7. EndIsReal'
  BY <1>1, <1>2, <1>5 DEF EndIsReal
<1>8. EndIsLogged'
  BY <1>1 DEF IInv, EndIsLogged
<1> QED BY <1>4, <1>6, <1>7, <1>8 DEF IInv

LEMMA StepInv == IInv /\ [Next]_vars => IInv'
<1> SUFFICES ASSUME IInv, [Next]_vars PROVE IInv'
  OBVIOUS
<1>1. CASE UNCHANGED vars
  BY <1>1 DEF vars, IInv, TypeInv, LogInOrder, EndIsReal, EndIsLogged, Ended
<1> QED BY <1>1, ActInv, ActFailsInv, ResetExhaustsInv, ResetInv, ResetFailsInv
        DEF Next, ResetRefused

THEOREM Invariance == Spec => []IInv
BY InitInv, StepInv, PTL DEF Spec

-----------------------------------------------------------------------------
(* An abandonment is the one terminal row of its attempt, and its last,      *)
(* whatever fails (_advance_pinned_seed, score_gate0.py).                    *)
THEOREM AbandonmentIsFinal == Spec => []AbandonedIsFinal
<1>1. ASSUME IInv PROVE AbandonedIsFinal
  <2> SUFFICES ASSUME NEW e \in 0..(N - 1), NEW i \in Rows(e), oracle[i].abandoned
               PROVE  Terminal(e) = {i} /\ i = Max(Rows(e))
    BY DEF AbandonedIsFinal
  <2>1. i \in 1..Len(oracle) /\ oracle[i].episode = e
    BY DEF Rows
  <2>2. /\ oracle[i].done
        /\ \A j \in 1..Len(oracle) :
             oracle[j].episode = e => j <= i /\ (oracle[j].done => j = i)
    BY <1>1, <2>1 DEF IInv, LogInOrder
  <2>3. Terminal(e) = {i}
    BY <2>1, <2>2 DEF Terminal, Rows
  <2>4. Rows(e) \in SUBSET Int /\ \A j \in Rows(e) : j <= i
    BY <2>2 DEF Rows
  <2> QED BY <2>3, <2>4, MaxIs
<1> QED BY <1>1, Invariance, PTL

(* As long as no reset has failed, what the scorer counts as solved was      *)
(* solved on the page of the running seed, and no attempt that was left is   *)
(* without its terminal row.                                                 *)
THEOREM ScoreIsEarned == Spec => []ScoredAsPlayed
<1>1. ASSUME IInv PROVE ScoredAsPlayed
  <2>1. \A e \in 0..idx : Ended(e) => Terminal(e) # {}
    BY DEF Ended, Terminal, Rows
  <2>2. idx \in Nat
    BY <1>1, SeedFacts DEF IInv, TypeInv
  <2>3. ~failed => /\ \A e \in 0..(idx - 1) : Terminal(e) # {}
                   /\ exhausted => Terminal(idx) # {}
    BY <1>1, <2>1, <2>2 DEF IInv, EndIsLogged
  <2>4. ASSUME Success(idx)
        PROVE  page.done /\ page.reward = 1 /\ over
    <3>1. PICK i \in Rows(idx) : /\ Terminal(idx) = {i}
                                 /\ ~oracle[i].abandoned /\ oracle[i].reward = 1
      BY <2>4 DEF Success
    <3>2. i \in Terminal(idx)
      BY <3>1
    <3>3. /\ i \in 1..Len(oracle) /\ oracle[i].episode = idx /\ oracle[i].done
      BY <3>2 DEF Terminal, Rows
    <3> QED BY <1>1, <3>1, <3>3 DEF IInv, EndIsReal
  <2> QED BY <1>1, <2>3, <2>4 DEF ScoredAsPlayed, IInv, EndIsLogged
<1> QED BY <1>1, Invariance, PTL

-----------------------------------------------------------------------------
(* The refinement of PinnedSeeds: the attempt in progress, and the attempts  *)
(* whose log ended.                                                          *)
At == IF exhausted THEN N ELSE idx
ClosedSet == {e \in 0..(N - 1) : Ended(e)}

LEMMA Mapping ==
  /\ {e \in 0..(N - 1) : Terminal(e) # {}} = ClosedSet
  /\ {e \in 0..(N - 1) : Terminal(e) # {}}' = ClosedSet'
<1>1. ASSUME NEW e \in 0..(N - 1)
      PROVE  /\ e \in {x \in 0..(N - 1) : Terminal(x) # {}} <=> e \in ClosedSet
             /\ e \in {x \in 0..(N - 1) : Terminal(x) # {}}' <=> e \in ClosedSet'
  BY DEF ClosedSet, Ended, Terminal, Rows
<1>2. /\ {e \in 0..(N - 1) : Terminal(e) # {}} \subseteq 0..(N - 1)
      /\ {e \in 0..(N - 1) : Terminal(e) # {}}' \subseteq 0..(N - 1)
      /\ ClosedSet \subseteq 0..(N - 1) /\ ClosedSet' \subseteq 0..(N - 1)
  BY DEF ClosedSet
<1> QED BY <1>1, <1>2

(* A step of PinnedSeeds, or none, in terms of the session's own state.      *)
SeedStep ==
  \/ At' = At /\ ClosedSet' = ClosedSet
  \/ At < N /\ At' = At /\ ClosedSet' = ClosedSet \cup {At}
  \/ /\ At < N /\ At' = At + 1 /\ At \in ClosedSet'
     /\ ClosedSet' \in {ClosedSet, ClosedSet \cup {At}}

LEMMA SeedStepRefines ==
  ASSUME SeedStep
  PROVE  [Seedwise!Next]_(Seedwise!vars)
BY Mapping DEF SeedStep, At, Seedwise!Next, Seedwise!Close, Seedwise!Advance,
   Seedwise!vars

LEMMA ActSeeds == ASSUME IInv, Act PROVE SeedStep
<1> DEFINE row == OracleRow(idx, seed, reward', over', FALSE)
<1>1. /\ oracle' = Append(oracle, row) /\ ~exhausted
      /\ UNCHANGED <<idx, exhausted>>
  BY DEF Act
<1>2. row.episode = idx /\ row.done = over'
  BY DEF OracleRow
<1> HIDE DEF row
<1>3. /\ Len(oracle') = Len(oracle) + 1 /\ Len(oracle) \in Nat
      /\ oracle'[Len(oracle) + 1] = row
      /\ \A i \in 1..Len(oracle) : oracle'[i] = oracle[i]
  BY <1>1 DEF IInv, TypeInv
<1>4. \A e \in 0..(N - 1) : Ended(e)' <=> Ended(e) \/ (e = idx /\ over')
  BY <1>2, <1>3 DEF Ended
<1>5. idx \in 0..(N - 1) /\ idx < N
  BY SeedFacts DEF IInv, TypeInv
<1>6. At = idx /\ At' = idx
  BY <1>1 DEF At
<1>7. ClosedSet' = ClosedSet \/ ClosedSet' = ClosedSet \cup {idx}
  BY <1>4, <1>5 DEF ClosedSet
<1> QED BY <1>5, <1>6, <1>7 DEF SeedStep

(* Leaving an attempt: what Closed adds to the ended attempts.               *)
LEMMA LeavingSeeds ==
  ASSUME IInv, ~exhausted, ~failed, At' = idx + 1,
         \A e \in 0..(N - 1) : Ended(e)' <=>
            \E i \in 1..Len(Closed) : Closed[i].episode = e /\ Closed[i].done
  PROVE  SeedStep
<1>1. idx \in 0..(N - 1) /\ idx < N /\ At = idx
  BY SeedFacts DEF IInv, TypeInv, At
<1>3. \A e \in 0..(N - 1) : Ended(e)' <=> Ended(e) \/ e = idx
  BY <1>1, ClosedEnds DEF IInv, EndIsLogged
<1>4. ClosedSet' = ClosedSet \cup {idx}
  BY <1>1, <1>3 DEF ClosedSet
<1> QED BY <1>1, <1>4 DEF SeedStep

LEMMA ResetExhaustsSeeds == ASSUME IInv, ResetExhausts, ~failed PROVE SeedStep
<1>1. ~exhausted /\ exhausted' /\ idx + 1 >= N /\ oracle' = Closed
  BY DEF ResetExhausts
<1>2. At' = idx + 1
  BY <1>1, SeedFacts DEF At, IInv, TypeInv
<1>3. \A e \in 0..(N - 1) : Ended(e)' <=>
        \E i \in 1..Len(Closed) : Closed[i].episode = e /\ Closed[i].done
  BY <1>1 DEF Ended
<1> QED BY <1>1, <1>2, <1>3, LeavingSeeds

LEMMA ResetSeeds == ASSUME IInv, Reset, ~failed PROVE SeedStep
<1> DEFINE row == OracleRow(idx', seed', 0, FALSE, FALSE)
           log == Closed
<1>1. ~exhausted /\ exhausted' = exhausted /\ idx' = idx + 1
  BY DEF Reset, MoveOn
<1>2. oracle' = Append(log, row) /\ log \in Seq(LogRows) /\ ~row.done
  BY <1>1, ClosedFacts DEF Reset, OracleRow
<1> HIDE DEF row, log
<1>3. /\ Len(oracle') = Len(log) + 1 /\ oracle'[Len(log) + 1] = row
      /\ \A i \in 1..Len(log) : oracle'[i] = log[i]
      /\ Len(log) \in Nat
  BY <1>2
<1>4. \A e \in 0..(N - 1) : Ended(e)' <=>
        \E i \in 1..Len(log) : log[i].episode = e /\ log[i].done
  BY <1>2, <1>3 DEF Ended
<1>5. At' = idx + 1
  BY <1>1 DEF At
<1> QED BY <1>1, <1>4, <1>5, LeavingSeeds DEF log

(* One seed after the other, each closed before the next: what PinnedSeeds   *)
(* promises the scorer, for as long as no reset has failed.                  *)
THEOREM SeedsRefinement == Spec => SeedsInOrder
<1>1. ASSUME Init PROVE Seedwise!Init
  <2> DEFINE row == OracleRow(0, Seeds[1], 0, FALSE, FALSE)
  <2>1. oracle = <<row>> /\ ~row.done /\ At = 0
    BY <1>1 DEF Init, OracleRow, At
  <2> HIDE DEF row
  <2>2. ClosedSet = {}
    BY <2>1 DEF ClosedSet, Ended
  <2> QED BY <2>1, <2>2, Mapping DEF Seedwise!Init, At
<1>2. ASSUME IInv, [Next]_vars, ~failed'
      PROVE  [Seedwise!Next]_(Seedwise!vars)
  <2>1. ASSUME UNCHANGED <<idx, exhausted, oracle>> PROVE SeedStep
    BY <2>1 DEF SeedStep, At, ClosedSet, Ended
  <2>2. CASE Act
    BY <1>2, <2>2, ActSeeds, SeedStepRefines
  <2>3. CASE ActFails
    BY <2>1, <2>3, SeedStepRefines DEF ActFails
  <2>4. CASE ResetExhausts
    BY <1>2, <2>4, ResetExhaustsSeeds, SeedStepRefines DEF ResetExhausts
  <2>5. CASE Reset
    BY <1>2, <2>5, ResetSeeds, SeedStepRefines DEF Reset
  <2>6. CASE ResetFails
    BY <1>2, <2>6 DEF ResetFails
  <2>7. CASE UNCHANGED vars
    BY <2>1, <2>7, SeedStepRefines DEF vars
  <2> QED BY <1>2, <2>2, <2>3, <2>4, <2>5, <2>6, <2>7 DEF Next, ResetRefused
<1> QED BY <1>1, <1>2, Invariance, PTL DEF Spec, SeedsInOrder
=============================================================================
