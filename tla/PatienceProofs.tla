--------------------------- MODULE PatienceProofs ---------------------------
(***************************************************************************)
(* Theorems about Patience, for every set of contexts, every candidate      *)
(* ladder, every budget and every UNLOCK_FAILS of at least two.             *)
(***************************************************************************)
EXTENDS Patience, TLAPS

(* While advance() loops, it stands on a gated screen with presses left.    *)
Looping == busy => screen \in Gated /\ spent < Budget

(* What the learner remembers of the watched context is what the history of *)
(* its presses says.                                                        *)
Remembers ==
  LET m == mind[Watched] IN
  /\ m.pending # NoButton =>
       /\ m.learned = NoButton
       /\ row.button = m.pending /\ row.changed /\ row.n >= 1
       /\ dull.n = 0
  /\ m.learned # NoButton => dull.n = m.fails
  /\ m.learned # NoButton /\ m.fails > 0 =>
       row.button = m.learned /\ ~row.changed /\ row.n >= m.fails

(* The button pressed i rungs ago, and: once the lock's failures are behind, *)
(* the dull presses took the last rungs of the ladder.                       *)
RungAgo(i) ==
  LET r == mind[Watched].rung
  IN  Candidates[IF i <= r THEN r - i + 1 ELSE r + Len(Candidates) - i + 1]
Climbing == \A i \in 1..Len(Candidates) :
              UnlockFails + i <= dull.n => RungAgo(i) \in dull.tried

IInv == TypeOK /\ Looping /\ Remembers /\ Climbing /\ stretch <= spent

-----------------------------------------------------------------------------
(* The ladder has a rung. *)
LEMMA LadderLength ==
  /\ Len(Candidates) \in Nat \ {0}
  /\ \A i \in 1..Len(Candidates) : Candidates[i] \in Buttons
<1>1. Candidates \in Seq(Buttons) /\ Candidates # <<>>
  BY PatienceAssumption DEF PatienceAssumption
<1> QED BY <1>1

(* The next rung is one up, or the first again. *)
LEMMA NextRung ==
  ASSUME NEW r \in 0..(Len(Candidates) - 1)
  PROVE  (r + 1) % Len(Candidates) = IF r + 1 = Len(Candidates) THEN 0 ELSE r + 1
<1> DEFINE L == Len(Candidates)
<1>1. L \in Nat \ {0} /\ r \in 0..(L - 1)
  BY LadderLength
<1> HIDE DEF L
<1>2. CASE r + 1 = L
  BY <1>1, <1>2
<1>3. CASE r + 1 # L
  <2>1. r + 1 \in 0..(L - 1)
    BY <1>1, <1>3
  <2> QED BY <1>1, <1>3, <2>1
<1>4. (r + 1) % L = IF r + 1 = L THEN 0 ELSE r + 1
  BY <1>2, <1>3, <1>1
<1> QED BY <1>4 DEF L

(* next_candidate returns a button and only climbs the ladder. *)
LEMMA ChosenButton ==
  ASSUME NEW m \in Minds
  PROVE  /\ Chosen(m) \in Buttons
         /\ Climbed(m) \in Minds
         /\ Climbed(m).learned = m.learned /\ Climbed(m).pending = m.pending
         /\ Climbed(m).fails = m.fails
<1>1. /\ m.learned \in Buttons \cup {NoButton} /\ m.pending \in Buttons \cup {NoButton}
      /\ m.rung \in 0..(Len(Candidates) - 1)
      /\ m = [learned |-> m.learned, pending |-> m.pending, rung |-> m.rung, fails |-> m.fails]
  BY DEF Minds
<1>2. m.rung + 1 \in 1..Len(Candidates)
  BY <1>1, LadderLength
<1>3. Chosen(m) \in Buttons
  BY <1>1, <1>2, LadderLength DEF Chosen
<1>4. (m.rung + 1) % Len(Candidates) \in 0..(Len(Candidates) - 1)
  BY <1>1, LadderLength, NextRung
<1> QED BY <1>1, <1>3, <1>4 DEF Climbed, Minds

(* record keeps the memory well formed and never moves on the ladder. *)
LEMMA RecordedMind ==
  ASSUME NEW m \in Minds, NEW b \in Buttons, NEW changed \in BOOLEAN
  PROVE  Recorded(m, b, changed) \in Minds /\ Recorded(m, b, changed).rung = m.rung
<1>1. /\ UnlockFails \in Nat /\ UnlockFails >= 2
      /\ m.fails \in 0..(UnlockFails - 1)
      /\ m.learned \in Buttons \cup {NoButton} /\ m.pending \in Buttons \cup {NoButton}
      /\ m.rung \in 0..(Len(Candidates) - 1)
      /\ m = [learned |-> m.learned, pending |-> m.pending, rung |-> m.rung, fails |-> m.fails]
  BY PatienceAssumption DEF PatienceAssumption, Minds
<1>2. LockedOutcome(m, changed) \in Minds /\ LockedOutcome(m, changed).rung = m.rung
  BY <1>1 DEF LockedOutcome, Unlocked, Minds
<1>3. TrialOutcome(m, b, changed) \in Minds /\ TrialOutcome(m, b, changed).rung = m.rung
  BY <1>1 DEF TrialOutcome, Locked, Dropped, Minds
<1> QED BY <1>2, <1>3 DEF Recorded

(* The two histories keep their types. *)
LEMMA HistoryTypes ==
  ASSUME TypeOK, NEW b \in Buttons, NEW changed \in BOOLEAN
  PROVE  /\ RowAfter(b, changed) \in [button : Buttons \cup {NoButton},
                                      changed : BOOLEAN, n : 0..UnlockFails]
         /\ DullAfter(b, changed) \in [n : 0..Enough, tried : SUBSET Buttons]
<1>1. /\ UnlockFails \in Nat /\ UnlockFails >= 2
  BY PatienceAssumption DEF PatienceAssumption
<1>2. Enough \in Nat
  BY <1>1, LadderLength DEF Enough
<1>3. RowAfter(b, changed) \in [button : Buttons \cup {NoButton},
                                changed : BOOLEAN, n : 0..UnlockFails]
  BY <1>1 DEF TypeOK, RowAfter
<1>4. DullAfter(b, changed) \in [n : 0..Enough, tried : SUBSET Buttons]
  BY <1>2 DEF TypeOK, DullAfter
<1> QED BY <1>3, <1>4

(* One press rewrites the memory of the screen it was made on, and no other.*)
LEMMA PressMind ==
  ASSUME TypeOK, Looping, NEW c \in Contexts, NEW changed \in BOOLEAN,
         Press(c, changed)
  PROVE  LET m == mind[screen] IN
         /\ screen \in Gated /\ m \in Minds /\ Chosen(m) \in Buttons
         /\ mind' \in [Gated -> Minds]
         /\ mind'[screen] = Recorded(Climbed(m), Chosen(m), changed)
         /\ \A g \in Gated \ {screen} : mind'[g] = mind[g]
<1> DEFINE m == mind[screen]
<1>1. screen \in Gated /\ mind \in [Gated -> Minds] /\ m \in Minds
  BY DEF Press, Looping, TypeOK
<1>2. Chosen(m) \in Buttons /\ Climbed(m) \in Minds
  BY <1>1, ChosenButton
<1> DEFINE next == Recorded(Climbed(m), Chosen(m), changed)
<1>3. next \in Minds
  BY <1>2, RecordedMind
<1>4. mind' = [mind EXCEPT ![screen] = next]
  BY DEF Press
<1> HIDE DEF next, m
<1>5. /\ mind' \in [Gated -> Minds] /\ mind'[screen] = next
      /\ \A g \in Gated \ {screen} : mind'[g] = mind[g]
  BY <1>1, <1>3, <1>4
<1> QED BY <1>1, <1>2, <1>5 DEF m, next

-----------------------------------------------------------------------------
(* The learner starts with an empty memory. *)
LEMMA InitIInv == Init => IInv
<1> SUFFICES ASSUME Init PROVE IInv
  OBVIOUS
<1> USE PatienceAssumption DEF PatienceAssumption
<1>1. Blank \in Minds
  BY LadderLength DEF Blank, Minds
<1>2. Enough \in Nat
  BY LadderLength DEF Enough
<1>3. TypeOK
  <2>1. row \in [button : Buttons \cup {NoButton}, changed : BOOLEAN, n : 0..UnlockFails]
    BY DEF Init
  <2>2. dull \in [n : 0..Enough, tried : SUBSET Buttons]
    BY <1>2 DEF Init
  <2>3. mind \in [Gated -> Minds]
    BY <1>1 DEF Init
  <2>4. screen \in Contexts /\ spent \in 0..Budget /\ stretch \in 0..(Budget + 1)
    BY DEF Init
  <2>5. command \in Actions \cup {NoAction} /\ busy \in BOOLEAN
    BY Zenon DEF Init
  <2> QED BY <2>1, <2>2, <2>3, <2>4, <2>5 DEF TypeOK
<1>4. mind[Watched] = Blank
  BY DEF Init
<1>5. Looping /\ Remembers
  BY <1>4 DEF Init, Looping, Remembers, Blank
<1>6. Climbing /\ stretch <= spent
  <2>1. dull.n = 0
    BY DEF Init
  <2>2. Climbing
    BY <2>1 DEF Climbing
  <2> QED BY <2>2 DEF Init
<1> QED BY <1>3, <1>5, <1>6 DEF IInv

(* What a press leaves in the memory of the watched context agrees with the *)
(* history of its presses.                                                  *)
LEMMA PressRemembers ==
  ASSUME IInv, NEW c \in Contexts, NEW changed \in BOOLEAN, Press(c, changed)
  PROVE  Remembers'
<1> DEFINE m == mind[screen]
           b == Chosen(m)
           k == Climbed(m)
<1>1. /\ screen \in Gated /\ m \in Minds /\ b \in Buttons
      /\ mind'[screen] = Recorded(k, b, changed)
      /\ \A g \in Gated \ {screen} : mind'[g] = mind[g]
  BY PressMind DEF IInv
<1>2. /\ Watched \in Gated /\ NoButton \notin Buttons
      /\ UnlockFails \in Nat /\ UnlockFails >= 2
  BY PatienceAssumption DEF PatienceAssumption
<1>3. CASE screen # Watched
  BY <1>1, <1>2, <1>3 DEF IInv, Remembers, Press
<1>4. CASE screen = Watched
  <2>1. /\ k.learned = m.learned /\ k.pending = m.pending /\ k.fails = m.fails
        /\ m.fails \in 0..(UnlockFails - 1) /\ k \in Minds
    BY <1>1, ChosenButton DEF Minds
  <2>2. row' = RowAfter(b, changed) /\ dull' = DullAfter(b, changed)
    BY <1>4 DEF Press
  <2>3. row.n \in 0..UnlockFails /\ dull.n \in 0..Enough /\ Enough \in Nat
        /\ Enough > UnlockFails /\ row.changed \in BOOLEAN
    BY <1>2, LadderLength DEF IInv, TypeOK, Enough
  <2>4. /\ m.pending # NoButton =>
             /\ m.learned = NoButton
             /\ row.button = m.pending /\ row.changed /\ row.n >= 1
             /\ dull.n = 0
        /\ m.learned # NoButton => dull.n = m.fails
        /\ m.learned # NoButton /\ m.fails > 0 =>
             row.button = m.learned /\ ~row.changed /\ row.n >= m.fails
    BY <1>4 DEF IInv, Remembers
  <2>5. /\ m.learned # NoButton => b = m.learned
        /\ m.learned = NoButton /\ m.pending # NoButton => b = m.pending
    BY DEF Chosen
  <2> DEFINE x == Recorded(k, b, changed)
             y == row'
             z == dull'
             Agrees == /\ x.pending # NoButton =>
                            /\ x.learned = NoButton
                            /\ y.button = x.pending /\ y.changed /\ y.n >= 1
                            /\ z.n = 0
                       /\ x.learned # NoButton => z.n = x.fails
                       /\ x.learned # NoButton /\ x.fails > 0 =>
                            y.button = x.learned /\ ~y.changed /\ y.n >= x.fails
  <2>6. y.button = b /\ y.changed = changed /\ y.n >= 1 /\ y.n \in Nat
        /\ (row.button = b /\ row.changed = changed => y.n >= row.n)
        /\ (row.button = b /\ row.changed = changed /\ row.n < UnlockFails
              => y.n = row.n + 1)
    BY <1>2, <2>2, <2>3 DEF RowAfter, IInv, TypeOK
  <2>7. z.n = IF changed THEN 0 ELSE IF dull.n < Enough THEN dull.n + 1 ELSE dull.n
    BY <2>2 DEF DullAfter
  <2> HIDE DEF b, k, m, x, y, z
  <2>8. ASSUME m.learned # NoButton PROVE Agrees
    <3>1. x = LockedOutcome(k, changed) /\ b = m.learned
      BY <2>1, <2>5, <2>8 DEF Recorded, x
    <3>2. m.pending = NoButton
      BY <2>4, <2>8
    <3>3. /\ x.pending = NoButton /\ (x.learned # NoButton => x.learned = b)
          /\ x.learned # NoButton =>
               x.fails = (IF changed THEN 0 ELSE m.fails + 1) /\ x.fails < UnlockFails
      BY <1>2, <2>1, <2>8, <3>1, <3>2 DEF LockedOutcome, Unlocked, Minds
    <3>4. CASE changed
      BY <2>6, <2>7, <3>3, <3>4
    <3>5. CASE ~changed
      <4>1. m.fails > 0 => row.button = b /\ row.changed = changed /\ row.n >= m.fails
        BY <2>3, <2>4, <2>8, <3>1, <3>5
      <4>2. x.learned # NoButton => y.n >= x.fails
        BY <1>2, <2>1, <2>3, <2>6, <3>3, <3>5, <4>1
      <4>3. x.learned # NoButton => z.n = x.fails
        BY <1>2, <2>1, <2>3, <2>4, <2>7, <2>8, <3>3, <3>5
      <4>4. ~y.changed
        BY <2>6, <3>5
      <4> QED BY <2>6, <3>3, <4>2, <4>3, <4>4
    <3> QED BY <3>4, <3>5
  <2>9. ASSUME m.learned = NoButton PROVE Agrees
    <3>1. x = TrialOutcome(k, b, changed)
      BY <1>1, <1>2, <2>1, <2>9 DEF Recorded, x
    <3> QED BY <1>1, <1>2, <2>1, <2>3, <2>4, <2>5, <2>6, <2>7, <2>9, <3>1
            DEF TrialOutcome, Locked, Dropped
  <2> QED BY <1>1, <1>4, <2>8, <2>9 DEF Remembers, x, y, z
<1> QED BY <1>3, <1>4

(* A press without effect on the watched context adds its rung to those the *)
(* dull presses took.                                                       *)
LEMMA PressClimbs ==
  ASSUME IInv, NEW c \in Contexts, NEW changed \in BOOLEAN, Press(c, changed)
  PROVE  Climbing'
<1> DEFINE m == mind[screen]
           b == Chosen(m)
           L == Len(Candidates)
<1>1. /\ screen \in Gated /\ m \in Minds /\ b \in Buttons
      /\ mind'[screen] = Recorded(Climbed(m), b, changed)
      /\ \A g \in Gated \ {screen} : mind'[g] = mind[g]
  BY PressMind DEF IInv
<1>2. /\ Watched \in Gated /\ UnlockFails \in Nat /\ L \in Nat \ {0}
      /\ Enough = UnlockFails + L
  BY PatienceAssumption, LadderLength DEF PatienceAssumption, Enough
<1>3. CASE screen # Watched
  BY <1>1, <1>2, <1>3 DEF IInv, Climbing, RungAgo, Press
<1>4. CASE screen = Watched /\ changed
  <2>1. dull'.n = 0
    BY <1>4 DEF Press, DullAfter
  <2> QED BY <1>2, <2>1 DEF Climbing
<1>5. CASE screen = Watched /\ ~changed
  <2>1. /\ dull'.n = IF dull.n < Enough THEN dull.n + 1 ELSE dull.n
        /\ dull'.tried = dull.tried \cup {b}
        /\ dull.n \in 0..Enough
    BY <1>5 DEF Press, DullAfter, IInv, TypeOK
  <2>2. CASE ~OnLadder(m)
    <3>1. dull.n < UnlockFails
      BY <1>1, <1>2, <1>5, <2>2, PatienceAssumption
         DEF PatienceAssumption, OnLadder, IInv, Remembers, Minds
    <3> QED BY <1>2, <2>1, <3>1 DEF Climbing
  <2>3. CASE OnLadder(m)
    <3> DEFINE r == m.rung
               s == mind'[screen].rung
    <3>1. /\ r \in 0..(L - 1) /\ b = Candidates[r + 1]
          /\ s = IF r + 1 = L THEN 0 ELSE r + 1
      <4>1. r \in 0..(L - 1) /\ b = Candidates[r + 1]
        BY <1>1, <2>3 DEF Minds, OnLadder, Chosen
      <4>2. Climbed(m).rung = (r + 1) % L
        BY <1>1, <2>3 DEF Climbed, Minds
      <4>3. s = Climbed(m).rung
        BY <1>1, ChosenButton, RecordedMind
      <4> QED BY <4>1, <4>2, <4>3, NextRung
    <3> SUFFICES ASSUME NEW i \in 1..L, UnlockFails + i <= dull'.n
                 PROVE  RungAgo(i)' \in dull'.tried
      BY DEF Climbing
    <3>2. RungAgo(i)' = Candidates[IF i <= s THEN s - i + 1 ELSE s + L - i + 1]
      BY <1>5 DEF RungAgo
    <3> HIDE DEF s, r, b, m, L
    <3>3. CASE i = 1
      <4>1. (IF i <= s THEN s - i + 1 ELSE s + L - i + 1) = r + 1
        BY <1>2, <3>1, <3>3
      <4> QED BY <2>1, <3>1, <3>2, <4>1
    <3>4. CASE i # 1
      <4>1. i - 1 \in 1..L /\ UnlockFails + (i - 1) <= dull.n
        BY <1>2, <2>1, <3>4
      <4>2. RungAgo(i - 1) \in dull.tried
        BY <4>1 DEF IInv, Climbing, L
      <4>3. RungAgo(i - 1)
              = Candidates[IF i - 1 <= r THEN r - (i - 1) + 1 ELSE r + L - (i - 1) + 1]
        BY <1>5 DEF RungAgo, r, m, L
      <4>4. (IF i <= s THEN s - i + 1 ELSE s + L - i + 1)
              = IF i - 1 <= r THEN r - (i - 1) + 1 ELSE r + L - (i - 1) + 1
        BY <1>2, <3>1, <3>4
      <4> QED BY <2>1, <3>2, <4>2, <4>3, <4>4
    <3> QED BY <3>3, <3>4
  <2> QED BY <2>2, <2>3
<1> QED BY <1>3, <1>4, <1>5

(* Every step keeps the invariant. *)
LEMMA StepIInv ==
  ASSUME IInv, [Next]_vars
  PROVE  IInv'
<1> USE PatienceAssumption DEF PatienceAssumption
<1>1. ASSUME NEW c \in Contexts, Observe(c)
      PROVE  IInv'
  <2>1. TypeOK' /\ Looping' /\ (stretch <= spent)'
    BY <1>1 DEF Observe, Advances, IInv, TypeOK, Looping
  <2>2. Remembers' /\ Climbing'
    BY <1>1 DEF Observe, IInv, Remembers, Climbing, RungAgo
  <2> QED BY <2>1, <2>2 DEF IInv
<1>2. ASSUME NEW c \in Contexts, NEW changed \in BOOLEAN, Press(c, changed)
      PROVE  IInv'
  <2>1. screen \in Gated /\ spent < Budget /\ spent \in 0..Budget
        /\ stretch \in 0..(Budget + 1) /\ stretch <= spent
    BY <1>2 DEF Press, IInv, Looping, TypeOK
  <2>2. /\ spent' \in 0..Budget /\ stretch' \in 0..(Budget + 1) /\ stretch' <= spent'
        /\ screen' \in Contexts /\ command' \in Actions \cup {NoAction}
        /\ busy' \in BOOLEAN /\ Looping'
    <3>1. /\ spent' = spent + 1
          /\ stretch' = StretchAfter(c)
          /\ screen' = c /\ command' = command
          /\ busy' = Advances(c, spent')
      BY <1>2 DEF Press
    <3>2. spent' \in 0..Budget /\ stretch' \in 0..(Budget + 1) /\ stretch' <= spent'
      BY <2>1, <3>1 DEF StretchAfter
    <3>3. busy' \in BOOLEAN /\ Looping'
      BY <3>1, Zenon DEF Advances, Looping
    <3> QED BY <3>1, <3>2, <3>3 DEF IInv, TypeOK
  <2>3. mind' \in [Gated -> Minds] /\ Chosen(mind[screen]) \in Buttons
    BY <1>2, PressMind DEF IInv
  <2>4. /\ row' \in [button : Buttons \cup {NoButton}, changed : BOOLEAN,
                     n : 0..UnlockFails]
        /\ dull' \in [n : 0..Enough, tried : SUBSET Buttons]
    BY <1>2, <2>3, HistoryTypes DEF Press, IInv, TypeOK
  <2>5. TypeOK'
    BY <2>2, <2>3, <2>4 DEF TypeOK
  <2>6. Remembers' /\ Climbing'
    BY <1>2, PressRemembers, PressClimbs
  <2> QED BY <2>2, <2>5, <2>6 DEF IInv
<1>3. ASSUME NEW a \in Actions, BrainActs(a)
      PROVE  IInv'
  <2>1. TypeOK' /\ Looping' /\ (stretch <= spent)'
    BY <1>3 DEF BrainActs, IInv, TypeOK, Looping
  <2>2. Remembers' /\ Climbing'
    BY <1>3 DEF BrainActs, IInv, Remembers, Climbing, RungAgo
  <2> QED BY <2>1, <2>2 DEF IInv
<1>4. CASE UNCHANGED vars
  BY <1>4 DEF vars, IInv, TypeOK, Looping, Remembers, Climbing, RungAgo
<1> QED BY <1>1, <1>2, <1>3, <1>4 DEF Next, Presses

-----------------------------------------------------------------------------
(* The invariant holds in every reachable state. *)
THEOREM Invariance == Spec => []IInv
  BY InitIInv, StepIInv, PTL DEF Spec

(* Every variable of Patience and of its learner keeps its type: the budget  *)
(* is never overspent and the ladder position never leaves the ladder.       *)
THEOREM TypeCorrect == Spec => []TypeOK
<1>1. IInv => TypeOK
  BY DEF IInv
<1> QED BY <1>1, Invariance, PTL

(* A screen the brain cannot leave is pressed at most Budget times, whatever *)
(* the number of observe() calls.                                            *)
THEOREM BudgetHolds == Spec => []StuckIsBounded
<1>1. IInv => StuckIsBounded
  BY PatienceAssumption DEF PatienceAssumption, IInv, TypeOK, StuckIsBounded
<1> QED BY <1>1, Invariance, PTL

(* A ladder of any length is climbed to the end on a screen that does not    *)
(* react, whatever was locked or on trial before.                            *)
THEOREM WholeLadder == Spec => []LadderIsClimbed
<1>1. IInv => LadderIsClimbed
  <2> SUFFICES ASSUME IInv, dull.n = Enough, NEW j \in 1..Len(Candidates)
               PROVE  Candidates[j] \in dull.tried
    BY DEF LadderIsClimbed, IInv, TypeOK, Buttons
  <2> DEFINE r == mind[Watched].rung
             L == Len(Candidates)
             i == IF j - 1 < r THEN r - (j - 1) ELSE r + L - (j - 1)
  <2>1. r \in 0..(L - 1) /\ L \in Nat \ {0} /\ UnlockFails \in Nat
        /\ Enough = UnlockFails + L
    BY PatienceAssumption, LadderLength
       DEF PatienceAssumption, IInv, TypeOK, Minds, Enough
  <2>2. /\ i \in 1..L /\ UnlockFails + i <= dull.n
        /\ (IF i <= r THEN r - i + 1 ELSE r + L - i + 1) = j
    <3> HIDE DEF r, L
    <3>1. CASE j - 1 < r
      <4>1. i = r - (j - 1) /\ j \in 1..L
        BY <3>1 DEF L
      <4> QED BY <2>1, <4>1
    <3>2. CASE ~(j - 1 < r)
      <4>1. i = r + L - (j - 1) /\ j \in 1..L
        BY <3>2 DEF L
      <4> QED BY <2>1, <3>2, <4>1
    <3> QED BY <3>1, <3>2
  <2>3. RungAgo(i) \in dull.tried
    BY <2>2 DEF IInv, Climbing
  <2> QED BY <2>2, <2>3 DEF RungAgo
<1> QED BY <1>1, Invariance, PTL

(* A button is locked in by two effects in a row and given up after          *)
(* UNLOCK_FAILS failures in a row, never otherwise.                          *)
THEOREM LearnsSoundly == Spec => LearnsFromRows
<1> DEFINE Step == Learned(mind') # Learned(mind) =>
              IF Learned(mind') # NoButton
              THEN row'.button = Learned(mind') /\ row'.changed /\ row'.n >= 2
              ELSE row'.button = Learned(mind) /\ ~row'.changed /\ row'.n = UnlockFails
<1>1. ASSUME IInv, NEW c \in Contexts, NEW changed \in BOOLEAN, Press(c, changed),
             Learned(mind') # Learned(mind)
      PROVE  Step
  <2> DEFINE m == mind[screen]
             b == Chosen(m)
             k == Climbed(m)
             x == mind'[screen]
  <2>1. /\ screen \in Gated /\ m \in Minds /\ b \in Buttons
        /\ x = Recorded(k, b, changed)
        /\ \A g \in Gated \ {screen} : mind'[g] = mind[g]
    BY <1>1, PressMind DEF IInv
  <2>2. /\ Watched \in Gated /\ NoButton \notin Buttons
        /\ UnlockFails \in Nat /\ UnlockFails >= 2
    BY PatienceAssumption DEF PatienceAssumption
  <2>3. screen = Watched
    BY <1>1, <2>1, <2>2 DEF Learned
  <2>4. /\ k.learned = m.learned /\ k.pending = m.pending /\ k.fails = m.fails
        /\ m.fails \in 0..(UnlockFails - 1) /\ k \in Minds
    BY <2>1, ChosenButton DEF Minds
  <2>5. /\ row' = RowAfter(b, changed) /\ row.n \in 0..UnlockFails
        /\ row.changed \in BOOLEAN
    BY <1>1, <2>3 DEF Press, IInv, TypeOK
  <2>6. /\ m.pending # NoButton => row.button = m.pending /\ row.changed /\ row.n >= 1
        /\ m.learned # NoButton /\ m.fails > 0 =>
             row.button = m.learned /\ ~row.changed /\ row.n >= m.fails
    BY <1>1, <2>3 DEF IInv, Remembers
  <2>7. /\ m.learned # NoButton => b = m.learned
        /\ x.learned # m.learned
    BY <1>1, <2>3 DEF Chosen, Learned
  <2>8. Learned(mind) = m.learned /\ Learned(mind') = x.learned
    BY <2>3 DEF Learned
  <2> HIDE DEF x, b, k, m
  <2>9. CASE m.learned # NoButton
    <3>1. x.learned = NoButton /\ ~changed /\ m.fails + 1 >= UnlockFails
      BY <2>1, <2>2, <2>4, <2>7, <2>9 DEF Recorded, LockedOutcome, Unlocked, Minds
    <3>2. row.button = b /\ row.changed = changed /\ row.n >= UnlockFails - 1
      BY <2>2, <2>4, <2>5, <2>6, <2>7, <2>9, <3>1
    <3>3. row'.button = b /\ row'.changed = changed /\ row'.n = UnlockFails
      BY <2>2, <2>5, <3>2 DEF RowAfter, IInv, TypeOK
    <3> QED BY <2>7, <2>8, <2>9, <3>1, <3>3
  <2>10. CASE m.learned = NoButton
    <3>1. x.learned = b /\ changed /\ m.pending = b
      BY <2>1, <2>2, <2>4, <2>7, <2>10
         DEF Recorded, TrialOutcome, Locked, Dropped, Minds
    <3>2. row.button = b /\ row.changed = changed /\ row.n >= 1
      BY <2>1, <2>2, <2>5, <2>6, <3>1
    <3>3. row'.button = b /\ row'.changed = changed /\ row'.n >= 2
      BY <2>2, <2>5, <3>2 DEF RowAfter, IInv, TypeOK
    <3> QED BY <2>1, <2>2, <2>8, <3>1, <3>3
  <2> QED BY <2>9, <2>10
<1>2. IInv /\ [Next]_vars => [Step]_vars
  <2> SUFFICES ASSUME IInv, Next, Learned(mind') # Learned(mind)
               PROVE  Step
    BY DEF vars
  <2>1. CASE \E c \in Contexts : Observe(c)
    BY <2>1 DEF Observe, Learned
  <2>2. CASE \E a \in Actions : BrainActs(a)
    BY <2>2 DEF BrainActs, Learned
  <2> QED BY <1>1, <2>1, <2>2 DEF Next, Presses
<1> QED BY <1>2, Invariance, PTL DEF Spec, LearnsFromRows

=============================================================================
