------------------------ MODULE DoomDtcSessionProofs ------------------------
(***************************************************************************)
(* Theorems about DoomDtcSession, for every list of pinned seeds, every     *)
(* length of an episode and of a call, and any number of calls behind the   *)
(* last seed.                                                               *)
(***************************************************************************)
EXTENDS DoomDtcSession, FiniteSetTheorems, TLAPS

SeedSet == {Seeds[i] : i \in 1..N}
Worlds == [seed : SeedSet, tics : Nat, kills : Nat, over : BOOLEAN]
LogRows == [episode : 0..(N - 1), seed : SeedSet, step : Nat,
            kills : Nat \cup {Unread}, finished : BOOLEAN, abandoned : BOOLEAN]
Pairs == Int \X Int
GroundingRows == [episode : 0..(N - 1), seed : SeedSet, step : Nat, frames : Pairs]

TypeInv ==
  /\ idx \in Nat /\ step \in Nat /\ todo \in Nat
  /\ world \in Worlds
  /\ prev \in Int /\ reading \in Pairs /\ pair \in Pairs
  /\ oracle \in Seq(LogRows) /\ grounding \in Seq(GroundingRows)
  /\ reply \in {"ok", "error", "exhausted"}

(* Nothing is logged for an attempt to come; a closing row is of an attempt  *)
(* that is over or was left, and its last.                                   *)
LogInOrder ==
  \A i \in 1..Len(oracle) :
    /\ oracle[i].episode <= idx
    /\ oracle[i].finished =>
         /\ oracle[i].episode < idx \/ world.over
         /\ \A j \in 1..Len(oracle) :
              oracle[j].episode = oracle[i].episode => j <= i

(* An attempt that was left, or whose world is over, has its closing row.    *)
Ended(e) == \E i \in 1..Len(oracle) : oracle[i].episode = e /\ oracle[i].finished
EndIsLogged ==
  /\ \A e \in 0..(N - 1) : e < idx => Ended(e)
  /\ idx < N /\ world.over => Ended(idx)

(* The running attempt's rows are its world's tics.                          *)
StepsLogged ==
  idx < N =>
    /\ step = world.tics
    /\ \A i \in 1..Len(oracle) :
         oracle[i].episode = idx => oracle[i].step \in 0..world.tics
    /\ \A t \in 0..world.tics :
         \E i \in 1..Len(oracle) : oracle[i].episode = idx /\ oracle[i].step = t

(* The running attempt's last readable row knows the kills, but for those of *)
(* the sub-step that ended it.                                               *)
LastReadable(i) ==
  /\ oracle[i].episode = idx /\ oracle[i].kills # Unread
  /\ \A j \in 1..Len(oracle) :
       oracle[j].episode = idx /\ oracle[j].kills # Unread => j <= i
KillsLogged ==
  idx < N =>
    \E i \in 1..Len(oracle) :
      /\ LastReadable(i)
      /\ IF world.over THEN world.kills - oracle[i].kills \in {0, 1}
                       ELSE oracle[i].kills = world.kills

(* The frame that rolls is the running world's.                              *)
FrameRolls == idx < N => prev = Frame(world)

IInv == /\ TypeInv /\ LogInOrder /\ EndIsLogged /\ StepsLogged /\ KillsLogged
        /\ FrameRolls /\ ObserveIsFresh /\ GroundingIsAdjacent

-----------------------------------------------------------------------------
(* The list of seeds is not empty, and each has its place.                   *)
LEMMA SeedFacts ==
  /\ N \in Nat \ {0}
  /\ \A i \in 0..(N - 1) : Seeds[i + 1] \in SeedSet
BY DoomAssumption DEF DoomAssumption, SeedSet

(* The greatest element of a set of integers is what Max chooses.            *)
LEMMA MaxIs ==
  ASSUME NEW S \in SUBSET Int, NEW i \in S, \A j \in S : j <= i
  PROVE  Max(S) = i
<1>1. \A x \in S : (\A y \in S : x >= y) <=> x = i
  OBVIOUS
<1> QED BY <1>1 DEF Max

(* The attempts that a log names are numbered.                               *)
LEMMA EpisodeNumbers ==
  ASSUME NEW log \in Seq(LogRows), NEW i \in 1..Len(log)
  PROVE  log[i].episode \in Int /\ log[i].step \in Int /\ log[i].kills \in Int
<1>1. log[i] \in LogRows
  OBVIOUS
<1> QED BY <1>1, SeedFacts DEF LogRows, Unread

(* An episode begins at tic 0, without a kill.                               *)
LEMMA EpisodeFacts ==
  ASSUME NEW s \in SeedSet
  PROVE  /\ Episode(s) \in Worlds /\ ~Episode(s).over
         /\ Episode(s).tics = 0 /\ Episode(s).kills = 0 /\ Episode(s).seed = s
BY DEF Episode, Worlds

(* One tic of the world.                                                     *)
LEMMA TickFacts ==
  ASSUME world \in Worlds, NEW k \in {0, 1}, NEW end \in BOOLEAN,
         world' = Ticked(world, k, end)
  PROVE  /\ world' \in Worlds
         /\ world'.tics = world.tics + 1 /\ world'.kills = world.kills + k
         /\ world'.over = end
<1>1. world' = [[[world EXCEPT !.tics = world.tics + 1]
                          EXCEPT !.kills = world.kills + k] EXCEPT !.over = end]
  BY DEF Ticked, Worlds
<1> DEFINE w1 == [world EXCEPT !.tics = world.tics + 1]
           w2 == [w1 EXCEPT !.kills = world.kills + k]
           w3 == [w2 EXCEPT !.over = end]
<1>2. w1 \in Worlds /\ w1.tics = world.tics + 1 /\ w1.kills = world.kills
  BY DEF Worlds
<1> HIDE DEF w1
<1>3. w2 \in Worlds /\ w2.tics = world.tics + 1 /\ w2.kills = world.kills + k
  BY <1>2 DEF Worlds
<1> HIDE DEF w2
<1>4. w3 \in Worlds /\ w3.tics = w2.tics /\ w3.kills = w2.kills /\ w3.over = end
  BY <1>3 DEF Worlds
<1>5. world' = w3
  BY <1>1 DEF w1, w2
<1> QED BY <1>3, <1>4, <1>5

(* A row behind the log.                                                     *)
LEMMA Appended ==
  ASSUME NEW log \in Seq(LogRows), NEW row \in LogRows
  PROVE  /\ Append(log, row) \in Seq(LogRows)
         /\ Len(Append(log, row)) = Len(log) + 1
         /\ Append(log, row)[Len(log) + 1] = row
         /\ \A i \in 1..Len(log) : Append(log, row)[i] = log[i]
OBVIOUS

(* new_episode's close of the running attempt: it has not ended before, so   *)
(* its row is the only closing one and the last.                             *)
LEMMA AbandonedFacts ==
  ASSUME IInv, idx < N
  PROVE  /\ AbandonedLog \in Seq(LogRows)
         /\ \A i \in 1..Len(AbandonedLog) :
              /\ AbandonedLog[i].episode <= idx
              /\ AbandonedLog[i].finished =>
                   \A j \in 1..Len(AbandonedLog) :
                     AbandonedLog[j].episode = AbandonedLog[i].episode => j <= i
         /\ \E i \in 1..Len(AbandonedLog) :
              AbandonedLog[i].episode = idx /\ AbandonedLog[i].finished
         /\ \A e \in Int : Ended(e) =>
              \E i \in 1..Len(AbandonedLog) :
                AbandonedLog[i].episode = e /\ AbandonedLog[i].finished
         /\ \A i \in 1..Len(AbandonedLog) : AbandonedLog[i].finished =>
              Ended(AbandonedLog[i].episode) \/ AbandonedLog[i].episode = idx
<1>1. CASE world.over
  BY <1>1 DEF IInv, TypeInv, LogInOrder, EndIsLogged, AbandonedLog, Ended
<1>2. CASE ~world.over
  <2> DEFINE row == OracleRow(idx, world, step, TRUE, TRUE)
             log == AbandonedLog
  <2>1. idx \in 0..(N - 1) /\ oracle \in Seq(LogRows) /\ Len(oracle) \in Nat
    BY SeedFacts DEF IInv, TypeInv
  <2>2. row \in LogRows /\ row.episode = idx /\ row.finished
    BY <1>2, <2>1, SeedFacts DEF IInv, TypeInv, Worlds, OracleRow, LogRows
  <2>3. log = Append(oracle, row)
    BY <1>2 DEF AbandonedLog
  <2> HIDE DEF row, log
  <2>4. /\ log \in Seq(LogRows) /\ Len(log) = Len(oracle) + 1
        /\ \A i \in 1..Len(oracle) : log[i] = oracle[i]
        /\ log[Len(oracle) + 1] = row
    BY <2>1, <2>2, <2>3, Appended
  <2>5. LogInOrder /\ \A i \in 1..Len(oracle) : oracle[i].finished => oracle[i].episode < idx
    BY <1>2, <2>1 DEF IInv, LogInOrder
  <2>6. \A i \in 1..Len(oracle) : oracle[i].episode \in Int
    BY <2>1, EpisodeNumbers
  <2>7. \A i \in 1..Len(log) :
           /\ log[i].episode <= idx
           /\ log[i].finished =>
                \A j \in 1..Len(log) : log[j].episode = log[i].episode => j <= i
    BY <2>1, <2>2, <2>4, <2>5, <2>6 DEF LogInOrder
  <2>8. \E i \in 1..Len(log) : log[i].episode = idx /\ log[i].finished
    BY <2>1, <2>2, <2>4
  <2>9. \A e \in Int : Ended(e) =>
          \E i \in 1..Len(log) : log[i].episode = e /\ log[i].finished
    BY <2>1, <2>4 DEF Ended
  <2>10. \A i \in 1..Len(log) : log[i].finished =>
           Ended(log[i].episode) \/ log[i].episode = idx
    BY <2>1, <2>2, <2>4 DEF Ended
  <2> QED BY <2>4, <2>7, <2>8, <2>9, <2>10 DEF log
<1> QED BY <1>1, <1>2 DEF IInv, TypeInv, Worlds

(* An attempt's first row, behind a log that leaves its number free.         *)
LEMMA OpeningRow ==
  ASSUME NEW e \in 0..(N - 1), NEW log \in Seq(LogRows), NEW row \in LogRows,
         \A i \in 1..Len(log) : log[i].episode < e,
         row.episode = e, row.step = 0, row.kills = 0, ~row.finished,
         idx' = e, step' = 0, prev' = 0, reading' = NoPair,
         ~world'.over, world'.tics = 0, world'.kills = 0,
         oracle' = Append(log, row)
  PROVE  /\ StepsLogged' /\ KillsLogged' /\ FrameRolls' /\ ObserveIsFresh'
         /\ oracle' \in Seq(LogRows) /\ Len(oracle') = Len(log) + 1
         /\ \A i \in 1..Len(log) : oracle'[i] = log[i]
         /\ oracle'[Len(log) + 1] = row
<1>1. ~world'.over /\ world'.tics = 0 /\ world'.kills = 0
  OBVIOUS
<1>2. row.episode = e /\ row.step = 0 /\ row.kills = 0
  OBVIOUS
<1>3. /\ oracle' \in Seq(LogRows) /\ Len(oracle') = Len(log) + 1
      /\ oracle'[Len(log) + 1] = row
      /\ \A i \in 1..Len(log) : oracle'[i] = log[i]
      /\ Len(log) \in Nat
  BY Appended
<1>4. \A i \in 1..Len(log) : oracle'[i].episode # idx'
  BY <1>3, EpisodeNumbers, SeedFacts
<1>5. \A i \in 1..Len(oracle') : oracle'[i].episode = idx' => i = Len(log) + 1
  BY <1>3, <1>4
<1>6. Len(log) + 1 \in 1..Len(oracle')
  BY <1>3
<1>7. StepsLogged'
  <2>1. \A i \in 1..Len(oracle') :
          oracle'[i].episode = idx' => oracle'[i].step \in 0..world'.tics
    BY <1>1, <1>2, <1>3, <1>5
  <2>2. \A t \in 0..world'.tics :
          \E i \in 1..Len(oracle') : oracle'[i].episode = idx' /\ oracle'[i].step = t
    BY <1>1, <1>2, <1>3, <1>6
  <2> QED BY <1>1, <2>1, <2>2 DEF StepsLogged
<1>8. KillsLogged'
  BY <1>1, <1>2, <1>3, <1>5, <1>6 DEF KillsLogged, LastReadable, Unread
<1>9. FrameRolls' /\ ObserveIsFresh'
  BY <1>1 DEF FrameRolls, Frame, ObserveIsFresh
<1> QED BY <1>1, <1>2, <1>3, <1>7, <1>8, <1>9

LEMMA InitInv == Init => IInv
<1> SUFFICES ASSUME Init PROVE IInv
  OBVIOUS
<1>1. /\ N \in Nat \ {0} /\ 0 \in 0..(N - 1) /\ 0 + 1 = 1 /\ Seeds[1] \in SeedSet
  BY SeedFacts
<1> DEFINE row == OracleRow(0, Episode(Seeds[1]), 0, FALSE, FALSE)
<1>2. /\ world \in Worlds /\ ~world.over /\ world.tics = 0 /\ world.kills = 0
  BY <1>1, EpisodeFacts DEF Init
<1>3. /\ row \in LogRows /\ row.episode = 0 /\ row.step = 0 /\ row.kills = 0
      /\ ~row.finished
  BY <1>1, EpisodeFacts DEF OracleRow, LogRows
<1>4. /\ oracle = <<row>> /\ grounding = <<>> /\ idx = 0 /\ step = 0 /\ todo = 0
      /\ prev = 0 /\ reading = NoPair /\ pair = NoPair /\ reply = "ok"
  BY DEF Init
<1> HIDE DEF row
<1>5. /\ oracle \in Seq(LogRows) /\ Len(oracle) = 1
      /\ \A i \in 1..Len(oracle) : i = 1 /\ oracle[i] = row
  BY <1>3, <1>4
<1>6. TypeInv
  BY <1>2, <1>4, <1>5 DEF TypeInv, NoPair, NoFrame, Pairs
<1>7. LogInOrder
  BY <1>3, <1>4, <1>5 DEF LogInOrder
<1>8. StepsLogged
  <2>1. \A t \in 0..world.tics : t = 0
    BY <1>2
  <2>2. 1 \in 1..Len(oracle)
    BY <1>5
  <2> QED BY <1>2, <1>3, <1>4, <1>5, <2>1, <2>2 DEF StepsLogged
<1>9. KillsLogged
  <2>1. 1 \in 1..Len(oracle)
    BY <1>5
  <2>2. LastReadable(1)
    BY <1>3, <1>4, <1>5, <2>1 DEF LastReadable, Unread
  <2> QED BY <1>2, <1>3, <1>5, <2>1, <2>2 DEF KillsLogged
<1>10. /\ EndIsLogged /\ FrameRolls /\ ObserveIsFresh /\ GroundingIsAdjacent
  BY <1>1, <1>2, <1>4
  DEF EndIsLogged, FrameRolls, Frame, ObserveIsFresh, GroundingIsAdjacent
<1> QED BY <1>6, <1>7, <1>8, <1>9, <1>10 DEF IInv

-----------------------------------------------------------------------------
(* One lemma per operation of the session.                                   *)

(* What leaves the world and the logs alone keeps the invariant.             *)
LEMMA ReplyInv ==
  ASSUME IInv, UNCHANGED <<idx, world, step, views, oracle, grounding>>,
         todo' \in Nat, reply' \in {"ok", "error", "exhausted"}
  PROVE  IInv'
<1> USE DEF IInv, views
<1>1. TypeInv'
  BY DEF TypeInv
<1>2. LogInOrder' /\ EndIsLogged' /\ StepsLogged'
  BY DEF LogInOrder, EndIsLogged, Ended, StepsLogged
<1>3. KillsLogged' /\ FrameRolls' /\ ObserveIsFresh' /\ GroundingIsAdjacent'
  BY DEF KillsLogged, LastReadable, FrameRolls, Frame, ObserveIsFresh,
     GroundingIsAdjacent
<1> QED BY <1>1, <1>2, <1>3

(* A sub-step's rows, behind both logs.                                      *)
LEMMA SubStepRows ==
  ASSUME IInv, idx < N, ~world.over,
         NEW row \in LogRows, row.episode = idx, row.step = step + 1,
         row.finished <=> world'.over,
         row.kills = IF world'.over THEN Unread ELSE world'.kills,
         world' \in Worlds, world'.tics = world.tics + 1,
         world'.kills - world.kills \in {0, 1},
         idx' = idx, step' = step + 1, prev' = Frame(world'),
         oracle' = Append(oracle, row)
  PROVE  /\ oracle' \in Seq(LogRows) /\ LogInOrder' /\ EndIsLogged'
         /\ StepsLogged' /\ KillsLogged' /\ FrameRolls'
<1>1. /\ world \in Worlds /\ idx \in 0..(N - 1) /\ idx \in Nat
      /\ world.tics \in Nat /\ world.kills \in Nat /\ world'.kills \in Nat
      /\ oracle \in Seq(LogRows) /\ step = world.tics
  <2>1. TypeInv /\ idx \in 0..(N - 1)
    BY SeedFacts DEF IInv, TypeInv
  <2>2. step = world.tics
    BY DEF IInv, StepsLogged
  <2> QED BY <2>1, <2>2 DEF TypeInv, Worlds
<1>2. /\ oracle' \in Seq(LogRows) /\ Len(oracle') = Len(oracle) + 1
      /\ oracle'[Len(oracle) + 1] = row
      /\ \A i \in 1..Len(oracle) : oracle'[i] = oracle[i]
      /\ Len(oracle) \in Nat
  BY <1>1, Appended
<1>3. \A i \in 1..Len(oracle) : /\ oracle[i].episode \in Int /\ oracle[i].step \in Int
                                /\ oracle[i].kills \in Int
  BY <1>1, EpisodeNumbers
<1>4. LogInOrder'
  <2>1. \A i \in 1..Len(oracle) : oracle[i].episode <= idx
                                 /\ (oracle[i].finished => oracle[i].episode < idx)
    BY DEF IInv, LogInOrder
  <2>2. \A i, j \in 1..Len(oracle) :
          oracle[i].finished /\ oracle[j].episode = oracle[i].episode => j <= i
    BY DEF IInv, LogInOrder
  <2> QED BY <1>1, <1>2, <1>3, <2>1, <2>2 DEF LogInOrder
<1>5. EndIsLogged'
  <2>1. \A e \in 0..(N - 1) : Ended(e) => Ended(e)'
    BY <1>2 DEF Ended
  <2>2. world'.over => \A e \in {idx} : Ended(e)'
    BY <1>2 DEF Ended
  <2> QED BY <2>1, <2>2 DEF IInv, EndIsLogged
<1>6. StepsLogged'
  <2>1. \A i \in 1..Len(oracle') :
          oracle'[i].episode = idx' => oracle'[i].step \in 0..world'.tics
    BY <1>1, <1>2, <1>3 DEF IInv, StepsLogged
  <2>2. ASSUME NEW t \in 0..world'.tics
        PROVE  \E i \in 1..Len(oracle') : oracle'[i].episode = idx' /\ oracle'[i].step = t
    <3>1. CASE t = world.tics + 1
      BY <1>1, <1>2, <3>1
    <3>2. CASE t # world.tics + 1
      <4>1. t \in 0..world.tics
        BY <1>1, <3>2
      <4>2. PICK i \in 1..Len(oracle) : oracle[i].episode = idx /\ oracle[i].step = t
        BY <4>1 DEF IInv, StepsLogged
      <4> QED BY <1>2, <4>2
    <3> QED BY <3>1, <3>2
  <2> QED BY <1>1, <2>1, <2>2 DEF StepsLogged
<1>7. KillsLogged'
  <2>1. PICK i \in 1..Len(oracle) : LastReadable(i) /\ oracle[i].kills = world.kills
    BY DEF IInv, KillsLogged
  <2>2. CASE world'.over
    <3>1. i \in 1..Len(oracle') /\ oracle'[i] = oracle[i]
      BY <1>2
    <3>2. \A j \in {i} : LastReadable(j)'
      BY <1>2, <2>1, <2>2, <3>1 DEF LastReadable
    <3>3. world'.kills - oracle'[i].kills \in {0, 1}
      BY <2>1, <3>1
    <3> QED BY <2>2, <3>1, <3>2, <3>3 DEF KillsLogged
  <2>3. CASE ~world'.over
    <3> DEFINE n == Len(oracle) + 1
    <3>1. n \in 1..Len(oracle') /\ oracle'[n] = row /\ \A j \in 1..Len(oracle') : j <= n
      BY <1>2
    <3>2. row.kills = world'.kills /\ row.kills # Unread
      BY <1>1, <2>3 DEF Unread
    <3> HIDE DEF n
    <3>3. \A j \in {n} : LastReadable(j)'
      BY <3>1, <3>2 DEF LastReadable
    <3> QED BY <2>3, <3>1, <3>2, <3>3 DEF KillsLogged
  <2> QED BY <2>2, <2>3
<1>8. FrameRolls'
  BY DEF FrameRolls
<1> QED BY <1>2, <1>4, <1>5, <1>6, <1>7, <1>8

LEMMA SubStepInv ==
  ASSUME IInv, NEW k \in {0, 1}, NEW end \in BOOLEAN, SubStep(k, end)
  PROVE  IInv'
<1> DEFINE row == OracleRow(idx, world', step + 1, world'.over, FALSE)
           g == GroundingRow(world')
<1>1. /\ ~world.over /\ idx < N /\ idx' = idx /\ step' = step + 1 /\ reply' = reply
      /\ todo > 0 /\ todo' \in {0, todo - 1}
      /\ reading' = Compared(world') /\ pair' = NextPair(world')
      /\ prev' = Frame(world')
      /\ grounding' = Append(grounding, g)
  BY DEF SubStep, Tic, NextPrev
<1>2. /\ world \in Worlds /\ idx \in 0..(N - 1) /\ step \in Nat /\ todo \in Nat
      /\ world.tics \in Nat /\ world.kills \in Nat /\ prev \in Int
      /\ oracle \in Seq(LogRows) /\ grounding \in Seq(GroundingRows)
      /\ step = world.tics /\ prev = world.tics
  <2>1. TypeInv /\ idx \in 0..(N - 1)
    BY <1>1, SeedFacts DEF IInv, TypeInv
  <2>2. step = world.tics /\ prev = world.tics
    BY <1>1 DEF IInv, StepsLogged, FrameRolls, Frame
  <2> QED BY <2>1, <2>2 DEF TypeInv, Worlds
<1>3. /\ world' \in Worlds /\ world'.tics = world.tics + 1
      /\ world'.kills = world.kills + k
  <2>1. world' = Ticked(world, k, end)
    BY DEF SubStep, Tic
  <2> QED BY <1>2, <2>1, TickFacts
<1>4. world'.kills - world.kills \in {0, 1} /\ world'.over \in BOOLEAN
      /\ world'.kills \in Nat
  BY <1>2, <1>3 DEF Worlds
<1>5. oracle' = oracle \o <<row>>
  BY DEF SubStep, StepRows
<1>6. /\ row \in LogRows /\ row.episode = idx /\ row.step = step + 1
      /\ row.finished <=> world'.over
      /\ row.kills = IF world'.over THEN Unread ELSE world'.kills
  BY <1>2, <1>4, SeedFacts DEF OracleRow, LogRows
<1>7. Compared(world') = IF world'.over THEN NoPair ELSE <<world.tics, world.tics + 1>>
  BY <1>2, <1>3 DEF Compared, Frame, NoFrame
<1>8. NoPair \in Pairs /\ Compared(world') \in Pairs
  BY <1>2, <1>7 DEF Pairs, NoPair, NoFrame
<1>9. g \in GroundingRows /\ (g.frames # NoPair => g.frames = <<g.step - 1, g.step>>)
  <2>1. /\ g.frames = Compared(world') /\ g.step = step + 1
    BY DEF GroundingRow
  <2>2. g \in GroundingRows
    BY <1>2, <1>8, SeedFacts DEF GroundingRow, GroundingRows
  <2> QED BY <1>2, <1>7, <2>1, <2>2
<1> HIDE DEF row, g
<1>10. /\ oracle' \in Seq(LogRows) /\ LogInOrder' /\ EndIsLogged'
       /\ StepsLogged' /\ KillsLogged' /\ FrameRolls'
  <2>1. oracle' = Append(oracle, row)
    BY <1>2, <1>5, <1>6
  <2> QED BY <1>1, <1>3, <1>4, <1>6, <2>1, SubStepRows
<1>11. /\ grounding' \in Seq(GroundingRows) /\ Len(grounding') = Len(grounding) + 1
       /\ grounding'[Len(grounding) + 1] = g
       /\ \A i \in 1..Len(grounding) : grounding'[i] = grounding[i]
       /\ Len(grounding) \in Nat
  BY <1>1, <1>2, <1>9
<1>12. TypeInv'
  <2>1. reading' \in Pairs /\ pair' \in Pairs
    BY <1>1, <1>8 DEF IInv, TypeInv, NextPair
  <2>2. prev' \in Int
    BY <1>1, <1>2, <1>3 DEF Frame, NoFrame
  <2>3. todo' \in Nat /\ step' \in Nat /\ idx' \in Nat
    BY <1>1, <1>2
  <2> QED BY <1>1, <1>3, <1>10, <1>11, <2>1, <2>2, <2>3 DEF IInv, TypeInv
<1>13. ObserveIsFresh'
  <2>1. reading' # NoPair => pair' = reading'
    BY <1>1 DEF NextPair
  <2>2. reading' # NoPair => reading' = <<world'.tics - 1, world'.tics>>
    BY <1>1, <1>2, <1>3, <1>7
  <2> QED BY <2>1, <2>2 DEF ObserveIsFresh
<1>14. GroundingIsAdjacent'
  <2>1. \A i \in 1..Len(grounding') :
          grounding'[i].frames # NoPair =>
            grounding'[i].frames = <<grounding'[i].step - 1, grounding'[i].step>>
    BY <1>9, <1>11 DEF IInv, GroundingIsAdjacent
  <2> QED BY <2>1 DEF GroundingIsAdjacent
<1> QED BY <1>10, <1>12, <1>13, <1>14 DEF IInv

(* Behind the last seed the logs no longer move.                             *)
LEMMA PastEndInv ==
  ASSUME IInv, idx' >= N, idx' \in Nat, idx <= idx', oracle \in Seq(LogRows),
         \A e \in 0..(N - 1) : Ended(e),
         world' \in Worlds, step' \in Nat, todo' \in Nat, 
         reply' \in {"ok", "error", "exhausted"},
         UNCHANGED <<views, oracle, grounding>>
  PROVE  IInv'
<1>1. N \in Nat /\ idx \in Nat
  BY SeedFacts DEF IInv, TypeInv
<1>2. TypeInv'
  BY DEF IInv, TypeInv, views
<1>3. \A i \in 1..Len(oracle) : oracle[i].episode \in Int /\ oracle[i].episode < idx'
  <2> SUFFICES ASSUME NEW i \in 1..Len(oracle)
               PROVE  oracle[i].episode \in Int /\ oracle[i].episode < idx'
    OBVIOUS
  <2>1. oracle[i] \in LogRows
    OBVIOUS
  <2> QED BY <1>1, <2>1 DEF LogRows
<1>4. LogInOrder'
  BY <1>1, <1>3 DEF IInv, LogInOrder
<1>5. EndIsLogged'
  BY <1>1 DEF EndIsLogged, Ended
<1>6. StepsLogged' /\ KillsLogged' /\ FrameRolls' /\ ObserveIsFresh'
  BY <1>1 DEF StepsLogged, KillsLogged, FrameRolls, ObserveIsFresh
<1>7. GroundingIsAdjacent'
  BY DEF IInv, GroundingIsAdjacent
<1> QED BY <1>2, <1>4, <1>5, <1>6, <1>7 DEF IInv

LEMMA SubStepPastEndInv ==
  ASSUME IInv, NEW k \in {0, 1}, NEW end \in BOOLEAN, SubStepPastEnd(k, end)
  PROVE  IInv'
<1>1. /\ idx >= N /\ todo' = 0 /\ reply' = "error" /\ step' = step + 1
      /\ UNCHANGED <<idx, views, oracle, grounding>>
  BY DEF SubStepPastEnd, Tic
<1>2. world' \in Worlds
  <2>1. world' = Ticked(world, k, end) /\ world \in Worlds
    BY DEF SubStepPastEnd, Tic, IInv, TypeInv
  <2> QED BY <2>1, TickFacts
<1>3. /\ idx \in Nat /\ step' \in Nat /\ oracle \in Seq(LogRows) /\ N \in Nat
  BY <1>1, SeedFacts DEF IInv, TypeInv
<1>4. \A e \in 0..(N - 1) : Ended(e)
  BY <1>1, <1>3 DEF IInv, EndIsLogged
<1> QED BY <1>1, <1>2, <1>3, <1>4, PastEndInv

LEMMA NewEpisodeInv == ASSUME IInv, NewEpisode PROVE IInv'
<1> DEFINE w == Episode(Seeds[idx' + 1])
           row == OracleRow(idx', w, 0, FALSE, FALSE)
           log == AbandonedLog
<1>1. /\ idx + 1 < N /\ idx' = idx + 1 /\ world' = w
      /\ step' = 0 /\ prev' = 0 /\ reading' = NoPair /\ pair' = NoPair
      /\ reply' = "ok" /\ UNCHANGED <<todo, grounding>>
  BY DEF NewEpisode, StartEpisode
<1>2. oracle' = Append(log, row)
  BY DEF NewEpisode, StartEpisode
<1>3. idx \in Nat /\ N \in Nat /\ idx < N /\ idx' \in 0..(N - 1)
  BY <1>1, SeedFacts DEF IInv, TypeInv
<1>4. /\ world' \in Worlds /\ ~world'.over /\ world'.tics = 0 /\ world'.kills = 0
      /\ ~w.over /\ w.kills = 0
  BY <1>1, <1>3, SeedFacts, EpisodeFacts
<1> HIDE DEF w
<1>5. /\ row \in LogRows /\ row.episode = idx' /\ row.step = 0 /\ row.kills = 0
      /\ ~row.finished
  BY <1>1, <1>3, <1>4, SeedFacts DEF OracleRow, LogRows
<1> HIDE DEF row
<1>6. /\ log \in Seq(LogRows)
      /\ \A i \in 1..Len(log) :
           /\ log[i].episode <= idx
           /\ log[i].finished =>
                \A j \in 1..Len(log) : log[j].episode = log[i].episode => j <= i
      /\ \E i \in 1..Len(log) : log[i].episode = idx /\ log[i].finished
      /\ \A e \in Int : Ended(e) =>
           \E i \in 1..Len(log) : log[i].episode = e /\ log[i].finished
  BY <1>3, AbandonedFacts
<1> HIDE DEF log
<1>7. \A i \in 1..Len(log) : log[i].episode \in Int /\ log[i].episode < idx'
  BY <1>1, <1>3, <1>6, EpisodeNumbers
<1>8. /\ StepsLogged' /\ KillsLogged' /\ FrameRolls' /\ ObserveIsFresh'
      /\ oracle' \in Seq(LogRows) /\ Len(oracle') = Len(log) + 1
      /\ \A i \in 1..Len(log) : oracle'[i] = log[i]
      /\ oracle'[Len(log) + 1] = row
      /\ Len(log) \in Nat
  <2>1. \A e \in {idx'} :
          /\ StepsLogged' /\ KillsLogged' /\ FrameRolls' /\ ObserveIsFresh'
          /\ oracle' \in Seq(LogRows) /\ Len(oracle') = Len(log) + 1
          /\ \A i \in 1..Len(log) : oracle'[i] = log[i]
          /\ oracle'[Len(log) + 1] = row
    BY <1>1, <1>2, <1>3, <1>4, <1>5, <1>6, <1>7, OpeningRow
  <2> QED BY <1>6, <2>1
<1>9. TypeInv'
  BY <1>1, <1>3, <1>4, <1>8 DEF IInv, TypeInv, NoPair, NoFrame, Pairs
<1>10. LogInOrder'
  <2>1. \A i \in 1..Len(oracle') : i \in 1..Len(log) \/ i = Len(log) + 1
    BY <1>8
  <2>2. \A i \in 1..Len(log) :
          /\ oracle'[i].episode < idx' /\ oracle'[i].episode # idx'
          /\ oracle'[i].episode <= idx'
    BY <1>3, <1>7, <1>8
  <2>3. oracle'[Len(log) + 1].episode = idx' /\ ~oracle'[Len(log) + 1].finished
    BY <1>5, <1>8
  <2>4. \A i, j \in 1..Len(log) :
          oracle'[i].finished /\ oracle'[j].episode = oracle'[i].episode => j <= i
    BY <1>6, <1>8
  <2>5. ASSUME NEW i \in 1..Len(oracle'), oracle'[i].finished,
               NEW j \in 1..Len(oracle'), oracle'[j].episode = oracle'[i].episode
        PROVE  j <= i
    <3>1. i \in 1..Len(log) /\ j \in 1..Len(log)
      BY <2>1, <2>2, <2>3, <2>5
    <3> QED BY <2>4, <2>5, <3>1
  <2>6. \A i \in 1..Len(oracle') :
          /\ oracle'[i].episode <= idx'
          /\ oracle'[i].finished => oracle'[i].episode < idx'
    BY <1>3, <2>1, <2>2, <2>3
  <2> QED BY <2>5, <2>6 DEF LogInOrder
<1>11. EndIsLogged'
  <2>1. \A e \in 0..(N - 1) : Ended(e) \/ e = idx => Ended(e)'
    <3>1. \A e \in 0..(N - 1) : Ended(e) \/ e = idx =>
            \E i \in 1..Len(log) : log[i].episode = e /\ log[i].finished
      BY <1>6
    <3>2. \A i \in 1..Len(log) : i \in 1..Len(oracle') /\ oracle'[i] = log[i]
      BY <1>8
    <3> QED BY <3>1, <3>2 DEF Ended
  <2>2. \A e \in 0..(N - 1) : e < idx' => e < idx \/ e = idx
    BY <1>1, <1>3
  <2> QED BY <1>4, <2>1, <2>2 DEF IInv, EndIsLogged
<1>12. GroundingIsAdjacent'
  BY <1>1 DEF IInv, GroundingIsAdjacent
<1> QED BY <1>8, <1>9, <1>10, <1>11, <1>12 DEF IInv

LEMMA ExhaustedInv == ASSUME IInv, NewEpisodeExhausted PROVE IInv'
<1>1. /\ idx + 1 >= N /\ idx' = idx + 1 /\ reply' = "exhausted"
      /\ oracle' = AbandonedLog /\ UNCHANGED <<world, step, views, todo, grounding>>
      /\ idx < N \/ world.over
  BY DEF NewEpisodeExhausted
<1>2. /\ idx \in Nat /\ N \in Nat /\ idx' \in Nat /\ idx' >= N /\ oracle \in Seq(LogRows)
      /\ idx <= idx'
  BY <1>1, SeedFacts DEF IInv, TypeInv
<1>3. CASE idx >= N
  <2>1. oracle' = oracle
    <3>1. world.over
      BY <1>1, <1>2, <1>3
    <3> QED BY <1>1, <3>1, Zenon DEF AbandonedLog
  <2>2. \A e \in 0..(N - 1) : Ended(e)
    BY <1>2, <1>3 DEF IInv, EndIsLogged
  <2>3. world' \in Worlds /\ step' \in Nat /\ todo' \in Nat
    BY <1>1 DEF IInv, TypeInv
  <2> QED BY <1>1, <1>2, <2>1, <2>2, <2>3, PastEndInv
<1>4. CASE idx < N
  <2>1. idx = N - 1
    BY <1>1, <1>2, <1>4
  <2>2. /\ oracle' \in Seq(LogRows)
        /\ \A i \in 1..Len(oracle') :
             /\ oracle'[i].episode <= idx
             /\ oracle'[i].finished =>
                  \A j \in 1..Len(oracle') :
                    oracle'[j].episode = oracle'[i].episode => j <= i
        /\ \E i \in 1..Len(oracle') : oracle'[i].episode = idx /\ oracle'[i].finished
        /\ \A e \in Int : Ended(e) =>
             \E i \in 1..Len(oracle') : oracle'[i].episode = e /\ oracle'[i].finished
    BY <1>1, <1>4, AbandonedFacts
  <2>3. \A i \in 1..Len(oracle') : oracle'[i].episode \in Int
    BY <2>2, EpisodeNumbers
  <2>4. TypeInv'
    BY <1>1, <1>2, <2>2 DEF IInv, TypeInv, views
  <2>5. LogInOrder'
    BY <1>1, <1>2, <2>2, <2>3 DEF LogInOrder
  <2>6. EndIsLogged'
    <3>1. \A e \in 0..(N - 1) : Ended(e) \/ e = idx => Ended(e)'
      BY <1>2, <2>2 DEF Ended
    <3>2. \A e \in 0..(N - 1) : e < idx \/ e = idx
      BY <1>2, <2>1
    <3> QED BY <1>2, <3>1, <3>2 DEF IInv, EndIsLogged
  <2>7. StepsLogged' /\ KillsLogged' /\ FrameRolls' /\ ObserveIsFresh'
    BY <1>2 DEF StepsLogged, KillsLogged, FrameRolls, ObserveIsFresh
  <2>8. GroundingIsAdjacent'
    BY <1>1 DEF IInv, GroundingIsAdjacent
  <2> QED BY <2>4, <2>5, <2>6, <2>7, <2>8 DEF IInv
<1> QED BY <1>2, <1>3, <1>4

LEMMA StepInv == IInv /\ [Next]_vars => IInv'
<1> SUFFICES ASSUME IInv, [Next]_vars PROVE IInv'
  OBVIOUS
<1>1. ASSUME NEW r \in 1..MaxRepeat, CallAction(r) PROVE IInv'
  <2>1. r \in Nat
    BY DoomAssumption DEF DoomAssumption
  <2> QED BY <1>1, <2>1, ReplyInv DEF CallAction
<1>2. CASE SubStepOver \/ NewEpisodePastEnd \/ Observe \/ UNCHANGED vars
  <2>1. /\ UNCHANGED <<idx, world, step, views, oracle, grounding>>
        /\ todo' \in {0, todo} /\ reply' \in {"ok", "error", reply}
    BY <1>2 DEF SubStepOver, NewEpisodePastEnd, Observe, vars, views
  <2>2. todo' \in Nat /\ reply' \in {"ok", "error", "exhausted"}
    BY <2>1 DEF IInv, TypeInv
  <2> QED BY <2>1, <2>2, ReplyInv
<1>3. ASSUME NEW k \in {0, 1}, NEW end \in BOOLEAN, Steps(k, end) PROVE IInv'
  BY <1>3, SubStepInv, SubStepPastEndInv DEF Steps
<1>4. CASE NewEpisode \/ NewEpisodeExhausted
  BY <1>4, NewEpisodeInv, ExhaustedInv
<1> QED BY <1>1, <1>2, <1>3, <1>4 DEF Next

THEOREM Invariance == Spec => []IInv
BY InitInv, StepInv, PTL DEF Spec

-----------------------------------------------------------------------------
(* A grounding row compares the two frames around its own sub-step.          *)
THEOREM GroundingAdjacent == Spec => []GroundingIsAdjacent
<1>1. IInv => GroundingIsAdjacent
  BY DEF IInv
<1> QED BY <1>1, Invariance, PTL

(* What observe() diffs is what the shown reading was computed on.           *)
THEOREM ObserveFresh == Spec => []ObserveIsFresh
<1>1. IInv => ObserveIsFresh
  BY DEF IInv
<1> QED BY <1>1, Invariance, PTL

(* Every sub-step of a pinned attempt is logged, once and in order, and its  *)
(* closing row is its only one and the last.                                 *)
THEOREM OracleComplete == Spec => []OracleIsComplete
<1>1. ASSUME IInv, idx < N PROVE OracleIsComplete
  <2>0. idx \in Nat /\ oracle \in Seq(LogRows) /\ Len(oracle) \in Nat
    BY <1>1 DEF IInv, TypeInv
  <2>1. ASSUME NEW e \in 0..idx, NEW i \in Rows(e), NEW j \in ClosingRows(e)
        PROVE  i <= j
    BY <1>1 DEF IInv, LogInOrder, Rows, ClosingRows
  <2>2. ASSUME NEW e \in 0..idx PROVE Cardinality(ClosingRows(e)) <= 1
    <3>1. CASE ClosingRows(e) = {}
      BY <3>1, FS_EmptySet
    <3>2. ASSUME NEW i \in ClosingRows(e) PROVE Cardinality(ClosingRows(e)) = 1
      <4>1. \A j \in ClosingRows(e) : j \in Rows(e) /\ j \in Int
        BY <2>0 DEF ClosingRows, Rows
      <4>2. \A j \in ClosingRows(e) : j <= i /\ i <= j
        BY <2>1, <4>1
      <4>3. ClosingRows(e) = {i}
        BY <4>1, <4>2
      <4> QED BY <4>3, FS_Singleton
    <3> QED BY <3>1, <3>2
  <2>3. /\ step = world.tics
        /\ {oracle[i].step : i \in Rows(idx)} = 0..world.tics
    BY <1>1 DEF IInv, StepsLogged, Rows
  <2> QED BY <2>1, <2>2, <2>3 DEF OracleIsComplete
<1>2. IInv => OracleIsComplete
  BY <1>1 DEF OracleIsComplete
<1> QED BY <1>2, Invariance, PTL

(* The last readable row of the running attempt, which the scorer takes for  *)
(* its final count, is behind the world by one sub-step's kills at most.     *)
THEOREM ScoreFaithful == Spec => []ScoreIsFaithful
<1>1. ASSUME IInv, idx < N PROVE ScoreIsFaithful
  <2>1. PICK i \in 1..Len(oracle) :
          /\ LastReadable(i)
          /\ IF world.over THEN world.kills - oracle[i].kills \in {0, 1}
                           ELSE oracle[i].kills = world.kills
    BY <1>1 DEF IInv, KillsLogged
  <2>2. /\ i \in Readable(idx) /\ \A j \in Readable(idx) : j <= i
        /\ Readable(idx) \in SUBSET Int
    BY <2>1 DEF LastReadable, Readable, Rows
  <2>3. Max(Readable(idx)) = i
    BY <2>2, MaxIs
  <2> QED BY <2>1, <2>3 DEF ScoreIsFaithful, ScoredKills
<1>2. IInv => ScoreIsFaithful
  BY <1>1 DEF ScoreIsFaithful
<1> QED BY <1>2, Invariance, PTL

-----------------------------------------------------------------------------
(* The refinement of PinnedSeeds: the attempt in progress, and the attempts  *)
(* whose log was closed.                                                     *)
At == IF idx < N THEN idx ELSE N
ClosedSet == {e \in 0..(N - 1) : Ended(e)}

LEMMA Mapping ==
  /\ {e \in 0..(N - 1) : ClosingRows(e) # {}} = ClosedSet
  /\ {e \in 0..(N - 1) : ClosingRows(e) # {}}' = ClosedSet'
<1>1. ASSUME NEW e \in 0..(N - 1)
      PROVE  /\ e \in {x \in 0..(N - 1) : ClosingRows(x) # {}} <=> e \in ClosedSet
             /\ e \in {x \in 0..(N - 1) : ClosingRows(x) # {}}' <=> e \in ClosedSet'
  BY DEF ClosedSet, Ended, ClosingRows, Rows
<1>2. /\ {e \in 0..(N - 1) : ClosingRows(e) # {}} \subseteq 0..(N - 1)
      /\ {e \in 0..(N - 1) : ClosingRows(e) # {}}' \subseteq 0..(N - 1)
      /\ ClosedSet \subseteq 0..(N - 1) /\ ClosedSet' \subseteq 0..(N - 1)
  BY DEF ClosedSet
<1> QED BY <1>1, <1>2

(* A step of PinnedSeeds, or none, in terms of the session's own state.      *)
SeedStep ==
  \/ At' = At /\ ClosedSet' = ClosedSet
  \/ At < N /\ At' = At /\ ClosedSet' = ClosedSet \cup {At}
  \/ /\ At < N /\ At' = At + 1 /\ At \in ClosedSet'
     /\ ClosedSet' \in {ClosedSet, ClosedSet \cup {At}}

LEMMA SeedStepRefines ==
  ASSUME SeedStep
  PROVE  [Seedwise!Next]_(Seedwise!vars)
BY Mapping DEF SeedStep, At, Seedwise!Next, Seedwise!Close, Seedwise!Advance,
   Seedwise!vars

(* A sub-step closes the attempt when it ends it.                            *)
LEMMA SubStepSeeds ==
  ASSUME IInv, NEW k \in {0, 1}, NEW end \in BOOLEAN, SubStep(k, end)
  PROVE  SeedStep
<1> DEFINE row == OracleRow(idx, world', step + 1, world'.over, FALSE)
<1>1. oracle' = oracle \o <<row>> /\ idx < N /\ idx' = idx
  BY DEF SubStep, StepRows
<1>2. row.episode = idx
  BY DEF OracleRow
<1>3. row \in LogRows
  <2>1. world' = Ticked(world, k, end) /\ world \in Worlds /\ step \in Nat
        /\ idx \in 0..(N - 1)
    BY <1>1, SeedFacts DEF SubStep, Tic, IInv, TypeInv
  <2>2. world' \in Worlds
    BY <2>1, TickFacts
  <2> QED BY <2>1, <2>2, SeedFacts DEF OracleRow, LogRows, Worlds
<1>4. oracle \in Seq(LogRows) /\ Len(oracle) \in Nat
  BY DEF IInv, TypeInv
<1> HIDE DEF row
<1>5. /\ Len(oracle') = Len(oracle) + 1 /\ oracle'[Len(oracle) + 1] = row
      /\ \A i \in 1..Len(oracle) : oracle'[i] = oracle[i]
  BY <1>1, <1>3, <1>4
<1>6. \A e \in 0..(N - 1) : Ended(e)' <=> Ended(e) \/ (e = idx /\ row.finished)
  BY <1>2, <1>4, <1>5 DEF Ended
<1>7. idx \in 0..(N - 1) /\ At = idx /\ At' = idx
  BY <1>1, SeedFacts DEF At, IInv, TypeInv
<1>8. ClosedSet' = ClosedSet \/ ClosedSet' = ClosedSet \cup {idx}
  BY <1>6, <1>7 DEF ClosedSet
<1> QED BY <1>1, <1>7, <1>8 DEF SeedStep

(* Leaving an attempt: what AbandonedLog adds to the closed attempts.        *)
LEMMA LeavingSeeds ==
  ASSUME IInv, idx < N, At' = idx + 1,
         \A e \in 0..(N - 1) : Ended(e)' <=>
            \E i \in 1..Len(AbandonedLog) :
              AbandonedLog[i].episode = e /\ AbandonedLog[i].finished
  PROVE  SeedStep
<1>1. idx \in 0..(N - 1) /\ At = idx
  BY SeedFacts DEF IInv, TypeInv, At
<1>2. \A e \in 0..(N - 1) : Ended(e)' <=> Ended(e) \/ e = idx
  BY <1>1, AbandonedFacts
<1>3. ClosedSet' = ClosedSet \cup {idx}
  BY <1>1, <1>2 DEF ClosedSet
<1> QED BY <1>1, <1>3 DEF SeedStep

LEMMA NewEpisodeSeeds == ASSUME IInv, NewEpisode PROVE SeedStep
<1> DEFINE row == OracleRow(idx', Episode(Seeds[idx' + 1]), 0, FALSE, FALSE)
           log == AbandonedLog
<1>1. idx + 1 < N /\ idx' = idx + 1
  BY DEF NewEpisode
<1>2. idx < N /\ At' = idx + 1
  BY <1>1, SeedFacts DEF IInv, TypeInv, At
<1>3. oracle' = Append(log, row) /\ log \in Seq(LogRows) /\ ~row.finished
  BY <1>2, AbandonedFacts DEF NewEpisode, StartEpisode, OracleRow
<1> HIDE DEF row, log
<1>4. /\ Len(oracle') = Len(log) + 1 /\ oracle'[Len(log) + 1] = row
      /\ \A i \in 1..Len(log) : oracle'[i] = log[i]
      /\ Len(log) \in Nat
  BY <1>3
<1>5. \A e \in 0..(N - 1) : Ended(e)' <=>
        \E i \in 1..Len(log) : log[i].episode = e /\ log[i].finished
  BY <1>3, <1>4 DEF Ended
<1> QED BY <1>2, <1>5, LeavingSeeds DEF log

LEMMA ExhaustedSeeds == ASSUME IInv, NewEpisodeExhausted PROVE SeedStep
<1>1. /\ idx + 1 >= N /\ idx' = idx + 1 /\ oracle' = AbandonedLog
      /\ idx < N \/ world.over
  BY DEF NewEpisodeExhausted
<1>2. idx \in Nat /\ N \in Nat
  BY SeedFacts DEF IInv, TypeInv
<1>3. CASE idx < N
  <2>1. At' = idx + 1
    BY <1>1, <1>2, <1>3 DEF At
  <2>2. \A e \in 0..(N - 1) : Ended(e)' <=>
          \E i \in 1..Len(AbandonedLog) :
            AbandonedLog[i].episode = e /\ AbandonedLog[i].finished
    BY <1>1 DEF Ended
  <2> QED BY <1>3, <2>1, <2>2, LeavingSeeds
<1>4. CASE ~(idx < N)
  <2>1. oracle' = oracle
    BY <1>1, <1>4, Zenon DEF AbandonedLog
  <2>2. At = N /\ At' = N
    BY <1>1, <1>2, <1>4 DEF At
  <2>3. ClosedSet' = ClosedSet
    BY <2>1 DEF ClosedSet, Ended
  <2> QED BY <2>2, <2>3 DEF SeedStep
<1> QED BY <1>3, <1>4

(* The session takes its seeds in order and closes each before the next.     *)
THEOREM SeedsRefinement == Spec => ImplementsPinnedSeeds
<1>1. ASSUME Init PROVE Seedwise!Init
  <2> DEFINE row == OracleRow(0, Episode(Seeds[1]), 0, FALSE, FALSE)
  <2>1. oracle = <<row>> /\ ~row.finished /\ idx = 0
    BY <1>1 DEF Init, OracleRow
  <2> HIDE DEF row
  <2>2. ClosedSet = {}
    BY <2>1 DEF ClosedSet, Ended
  <2>3. At = 0
    BY <2>1, SeedFacts DEF At
  <2> QED BY <2>2, <2>3, Mapping DEF Seedwise!Init, At
<1>2. ASSUME IInv, [Next]_vars
      PROVE  [Seedwise!Next]_(Seedwise!vars)
  <2> SUFFICES SeedStep
    BY SeedStepRefines
  <2>1. ASSUME UNCHANGED <<idx, oracle>> PROVE SeedStep
    BY <2>1 DEF SeedStep, At, ClosedSet, Ended
  <2>2. ASSUME NEW k \in {0, 1}, NEW end \in BOOLEAN, Steps(k, end) PROVE SeedStep
    BY <1>2, <2>1, <2>2, SubStepSeeds DEF Steps, SubStepPastEnd
  <2>3. CASE NewEpisode \/ NewEpisodeExhausted
    BY <1>2, <2>3, NewEpisodeSeeds, ExhaustedSeeds
  <2>4. CASE (\E r \in 1..MaxRepeat : CallAction(r)) \/ SubStepOver
             \/ NewEpisodePastEnd \/ Observe \/ UNCHANGED vars
    BY <2>1, <2>4 DEF CallAction, SubStepOver, NewEpisodePastEnd, Observe, vars
  <2> QED BY <1>2, <2>2, <2>3, <2>4 DEF Next
<1> QED BY <1>1, <1>2, Invariance, PTL DEF Spec, ImplementsPinnedSeeds, Seedwise!Spec
=============================================================================
