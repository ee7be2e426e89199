-------------------------- MODULE SkillRunnerProofs --------------------------
(***************************************************************************)
(* Theorems about SkillRunner, for every port, ceiling, cap and settling    *)
(* time and every set of skills a model may try to define.                  *)
(***************************************************************************)
EXTENDS SkillRunner, FiniteSetTheorems, TLAPS

Stops == {"going", "end", "ceiling", "refused", "lost"}
LoopRecords == [block : Blocks, fired : BOOLEAN, iterations : Nat, from : Nat,
                to : Nat, spent : BOOLEAN]
Loops == Seq(LoopRecords)
Runs == [top : Nat, inner : Nat, iter : Nat, used : Nat, idle : Nat,
         budget : Nat, ok : Nat, loops : Loops, stop : Stops,
         from : Nat, activity : Nat]
Records == [step : Nat, used : Nat, ok : Nat, loops : Loops,
            stop : Stops, call : Nat, at : Nat]
Outcomes == {"same", "inside", "elsewhere", "reset", "hit", "miss", "low", "high"}
Entries == [outs : Seq(Outcomes), total : Nat, heard : Seq(Outcomes)]
Rows == [step : Nat, by : Nat]

TypeInv ==
  /\ host \in Hosts /\ skill \in Seq(Blocks) /\ running \in BOOLEAN
  /\ run \in Runs
  /\ step \in Nat /\ unchanged \in Nat /\ legal \in BOOLEAN
  /\ rows \in Seq(Rows)
  /\ log \in Seq(Records)
  /\ runs \in Nat
  /\ trail \in Seq(Entries)

(* The interpreter stands at a step of a stored skill.                       *)
At(r) == r.top \in 1..Len(skill) /\ r.inner \in 1..Len(skill[r.top].body)
Placed ==
  /\ \A i \in 1..Len(skill) : skill[i].body # <<>>
  /\ running => skill # <<>>
  /\ Unit => At(run)

(* What is spent and what is left make up the ceiling; a lost answer spent   *)
(* one unit that was still there.                                            *)
Balance ==
  IF run.stop = "lost"
  THEN /\ run.budget \in 1..Ceiling[host]
       /\ run.activity + run.budget = Ceiling[host] + 1
  ELSE run.activity + run.budget = Ceiling[host]

(* In rs, the rows of call c are the `used` rows up to row number `at`, on   *)
(* steps that count up to n.                                                 *)
Span(rs, c, at, used, n) ==
  /\ at <= Len(rs) /\ used <= at
  /\ \A j \in 1..Len(rs) :
       /\ rs[j].by = c <=> at - used < j /\ j <= at
       /\ rs[j].by = c => rs[j].step = n - (at - j)
Spans ==
  /\ \A j \in 1..Len(rows) : rows[j].by <= runs
  /\ running => runs > 0 /\ log = <<>>
  /\ running /\ host # "nds" =>
       Span(rows, runs, Len(rows), Ceiling[host] - run.budget, step)
  /\ \A i \in 1..Len(log) :
       /\ runs > 0 /\ log[i].call = runs
       /\ host # "nds" =>
            Span(rows, log[i].call, log[i].at, log[i].used, log[i].step)

IInv == TypeInv /\ Placed /\ Balance /\ Spans

-----------------------------------------------------------------------------
(* The interpreter's way through a skill.                                    *)

LEMMA SkillFacts ==
  ASSUME IInv
  PROVE  /\ Len(skill) \in Nat
         /\ \A i \in 1..Len(skill) :
              /\ skill[i] \in Blocks /\ skill[i].body \in Seq(Steps)
              /\ Len(skill[i].body) \in Nat \ {0}
<1>1. skill \in Seq(Blocks) /\ \A i \in 1..Len(skill) : skill[i].body # <<>>
  BY DEF IInv, TypeInv, Placed
<1>2. \A i \in 1..Len(skill) : skill[i] \in Blocks
  BY <1>1
<1>3. \A b \in Blocks : b.body \in Seq(Steps)
  BY DEF Blocks
<1> QED BY <1>1, <1>2, <1>3

(* A move of the interpreter from r to q: it spends nothing, and comes to a  *)
(* step of the skill or to its end.                                          *)
Moved(r, q) ==
  /\ q \in Runs /\ q.budget = r.budget /\ q.activity = r.activity
  /\ q.stop \in {"going", "end"}
  /\ q.stop = "going" => At(q)

(* One field, or a few fields, of a run at a time.                           *)
LEMMA SetFields ==
  ASSUME NEW r \in Runs, NEW a \in Nat, NEW b \in Nat, NEW c \in Nat
  PROVE  /\ [r EXCEPT !.inner = a] \in Runs
         /\ [r EXCEPT !.inner = a, !.iter = b] \in Runs
         /\ [r EXCEPT !.top = a, !.inner = b, !.iter = c] \in Runs
         /\ [r EXCEPT !.used = a, !.idle = b, !.from = c] \in Runs
         /\ [r EXCEPT !.budget = a, !.ok = b] \in Runs
         /\ [r EXCEPT !.used = a, !.idle = b, !.activity = c] \in Runs
<1>1. [r EXCEPT !.inner = a] \in Runs
  BY DEF Runs
<1>2. [r EXCEPT !.inner = a, !.iter = b] \in Runs
  BY DEF Runs
<1>3. [r EXCEPT !.top = a, !.inner = b, !.iter = c] \in Runs
  BY DEF Runs
<1>4. [r EXCEPT !.used = a, !.idle = b, !.from = c] \in Runs
  BY DEF Runs
<1>5. [r EXCEPT !.budget = a, !.ok = b] \in Runs
  BY DEF Runs
<1>6. [r EXCEPT !.used = a, !.idle = b, !.activity = c] \in Runs
  BY DEF Runs
<1> QED BY <1>1, <1>2, <1>3, <1>4, <1>5, <1>6

LEMMA SetStop ==
  ASSUME NEW r \in Runs, NEW why \in Stops, NEW a \in Nat
  PROVE  /\ [r EXCEPT !.stop = why] \in Runs
         /\ [r EXCEPT !.stop = why, !.activity = a] \in Runs
<1>1. [r EXCEPT !.stop = why] \in Runs
  BY DEF Runs
<1>2. [r EXCEPT !.stop = why, !.activity = a] \in Runs
  BY DEF Runs
<1> QED BY <1>1, <1>2

LEMMA SetLoops ==
  ASSUME NEW r \in Runs, NEW loops \in Loops
  PROVE  [r EXCEPT !.loops = loops] \in Runs
  BY DEF Runs

LEMMA RunFields ==
  ASSUME NEW r \in Runs
  PROVE  /\ r.top \in Nat /\ r.inner \in Nat /\ r.iter \in Nat /\ r.used \in Nat
         /\ r.idle \in Nat /\ r.budget \in Nat /\ r.ok \in Nat /\ r.from \in Nat
         /\ r.activity \in Nat /\ r.loops \in Loops /\ r.stop \in Stops
  BY DEF Runs

LEMMA NextBlockMoves ==
  ASSUME IInv, Len(trail') \in Nat,
         NEW r \in Runs, r.stop = "going", r.top \in 1..Len(skill)
  PROVE  Moved(r, NextBlock(r))
<1>1. CASE r.top = Len(skill)
  <2> DEFINE q == [r EXCEPT !.stop = "end"]
  <2>1. "end" \in Stops
    BY DEF Stops
  <2>2. q \in Runs
    BY <2>1, SetStop
  <2>3. q.budget = r.budget /\ q.activity = r.activity /\ q.stop = "end"
    BY DEF Runs
  <2>4. NextBlock(r) = q
    BY <1>1 DEF NextBlock
  <2> QED BY <2>2, <2>3, <2>4 DEF Moved
<1>2. CASE r.top # Len(skill)
  <2> DEFINE h == [r EXCEPT !.top = r.top + 1, !.inner = 1, !.iter = 0]
             q == [h EXCEPT !.used = 0, !.idle = 0, !.from = Len(trail')]
  <2>1. r.top + 1 \in Nat /\ Len(trail') \in Nat
    BY RunFields
  <2>2. h \in Runs
    BY <2>1, SetFields
  <2>3. q \in Runs
    BY <2>1, <2>2, SetFields
  <2>4. /\ q.budget = r.budget /\ q.activity = r.activity /\ q.stop = r.stop
        /\ q.top = r.top + 1 /\ q.inner = 1
    BY DEF Runs
  <2>5. NextBlock(r) = [r EXCEPT !.top = @ + 1, !.inner = 1, !.iter = 0,
                                 !.used = 0, !.idle = 0, !.from = Len(trail')]
    BY <1>2 DEF NextBlock
  <2>6. NextBlock(r) = q
    BY <2>5
  <2> HIDE DEF h, q
  <2>7. q.top \in 1..Len(skill)
    BY <1>2, <2>4, SkillFacts
  <2>8. At(q)
    BY <2>4, <2>7, SkillFacts DEF At
  <2> QED BY <2>3, <2>4, <2>6, <2>8 DEF Moved
<1> QED BY <1>1, <1>2

LEMMA SummarisedMoves ==
  ASSUME IInv, Unit, Len(trail') \in Nat,
         NEW r \in Runs, r.stop = "going", r.top \in 1..Len(skill),
         NEW fired \in BOOLEAN
  PROVE  Moved(r, Summarised(r, fired))
<1> DEFINE spent == (r.budget = 0)
           l == [block |-> Block, fired |-> fired, iterations |-> r.iter + 1,
                 from |-> r.from, to |-> Len(trail'), spent |-> spent]
           q == [r EXCEPT !.loops = Append(r.loops, l)]
<1>0. spent \in BOOLEAN
  BY Zenon
<1>1. /\ r.iter + 1 \in Nat /\ r.from \in Nat /\ Len(trail') \in Nat
      /\ r.loops \in Loops
  BY RunFields
<1>2. Block \in Blocks
  BY SkillFacts DEF IInv, Placed, At, Block
<1>3. Summarised(r, fired) = NextBlock(q)
  BY Zenon DEF Summarised
<1> HIDE DEF spent
<1>4. l \in LoopRecords
  BY <1>0, <1>1, <1>2 DEF LoopRecords
<1> HIDE DEF l
<1>5. Append(r.loops, l) \in Loops
  BY <1>1, <1>4 DEF Loops
<1>6. /\ q \in Runs /\ q.stop = "going" /\ q.top = r.top
      /\ q.budget = r.budget /\ q.activity = r.activity
  <2> DEFINE loops == Append(r.loops, l)
  <2>1. loops \in Loops
    BY <1>5
  <2> HIDE DEF loops
  <2>2. [r EXCEPT !.loops = loops] \in Runs
    BY <2>1, SetLoops
  <2>3. [r EXCEPT !.loops = loops].stop = r.stop /\ [r EXCEPT !.loops = loops].top = r.top
    BY DEF Runs
  <2>4. [r EXCEPT !.loops = loops].budget = r.budget
    BY DEF Runs
  <2>5. [r EXCEPT !.loops = loops].activity = r.activity
    BY DEF Runs
  <2> QED BY <2>2, <2>3, <2>4, <2>5 DEF loops
<1> HIDE DEF q
<1>7. Moved(q, NextBlock(q))
  BY <1>6, NextBlockMoves
<1> QED BY <1>3, <1>6, <1>7 DEF Moved

LEMMA NextInLoopMoves ==
  ASSUME IInv, Unit, Len(trail') \in Nat,
         NEW r \in Runs, r.stop = "going", r.top = run.top, r.inner = run.inner
  PROVE  Moved(r, NextInLoop(r))
<1>1. /\ At(run) /\ r.top \in 1..Len(skill) /\ Block = skill[r.top]
      /\ r.inner \in 1..Len(Block.body) /\ Len(Block.body) \in Nat \ {0}
  BY SkillFacts DEF IInv, Placed, At, Block
<1>2. Moved(r, Summarised(r, FALSE))
  <2>1. \A fired \in BOOLEAN : Moved(r, Summarised(r, fired))
    BY <1>1, SummarisedMoves
  <2> QED BY <2>1, Zenon
<1>3. CASE host = "nds" /\ r.budget = 0
  <2>1. NextInLoop(r) = Summarised(r, FALSE)
    BY <1>3, Zenon DEF NextInLoop
  <2> QED BY <1>2, <2>1, Zenon
<1>4. CASE ~(host = "nds" /\ r.budget = 0) /\ r.inner < Len(Block.body)
  <2> DEFINE q == [r EXCEPT !.inner = @ + 1]
  <2>a. r.inner + 1 \in Nat
    BY RunFields
  <2>b. q \in Runs
    BY <2>a, SetFields
  <2>1. /\ q \in Runs /\ q.stop = "going" /\ q.top = r.top /\ q.inner = r.inner + 1
        /\ q.budget = r.budget /\ q.activity = r.activity
    BY <2>b DEF Runs
  <2>2. NextInLoop(r) = q
    BY <1>4, Zenon DEF NextInLoop
  <2> HIDE DEF q
  <2>3. At(q)
    BY <1>1, <1>4, <2>1 DEF At
  <2> QED BY <2>1, <2>2, <2>3 DEF Moved
<1>5. CASE /\ ~(host = "nds" /\ r.budget = 0) /\ ~(r.inner < Len(Block.body))
           /\ r.iter + 1 < Block.iters
  <2> DEFINE q == [r EXCEPT !.inner = 1, !.iter = @ + 1]
  <2>a. r.iter + 1 \in Nat
    BY RunFields
  <2>b. q \in Runs
    BY <2>a, SetFields
  <2>1. /\ q \in Runs /\ q.stop = "going" /\ q.top = r.top /\ q.inner = 1
        /\ q.budget = r.budget /\ q.activity = r.activity
    BY <2>b DEF Runs
  <2>2. NextInLoop(r) = q
    BY <1>5, Zenon DEF NextInLoop
  <2> HIDE DEF q
  <2>3. At(q)
    BY <1>1, <2>1 DEF At
  <2> QED BY <2>1, <2>2, <2>3 DEF Moved
<1>6. CASE /\ ~(host = "nds" /\ r.budget = 0) /\ ~(r.inner < Len(Block.body))
           /\ ~(r.iter + 1 < Block.iters)
  <2>1. NextInLoop(r) = Summarised(r, FALSE)
    BY <1>6, Zenon DEF NextInLoop
  <2> QED BY <1>2, <2>1, Zenon
<1> QED BY <1>3, <1>4, <1>5, <1>6

(* A step that succeeded at a cost leads on from where it left the run.      *)
LEMMA AfterMoves ==
  ASSUME IInv, Unit, Len(trail') \in Nat,
         NEW cost \in 0..run.budget, NEW idle \in Nat, NEW fires \in BOOLEAN,
         After(Counted(cost, idle), fires)
  PROVE  /\ run' \in Runs /\ run'.budget = run.budget - cost
         /\ run'.activity = run.activity + cost
         /\ run'.stop \in {"going", "end"}
         /\ run'.stop = "going" => At(run')
<1> DEFINE r == Counted(cost, idle)
<1>1. run \in Runs /\ run.stop = "going" /\ run.budget \in Nat
  BY RunFields DEF IInv, TypeInv, Unit
<1>2. /\ r \in Runs /\ r.stop = "going" /\ r.top = run.top /\ r.inner = run.inner
      /\ r.budget = run.budget - cost /\ r.activity = run.activity + cost
  <2> DEFINE h == [run EXCEPT !.budget = run.budget - cost, !.ok = run.ok + 1]
             q == [h EXCEPT !.used = run.used + cost, !.idle = idle,
                            !.activity = run.activity + cost]
  <2>1. /\ run.budget - cost \in Nat /\ run.ok + 1 \in Nat
        /\ run.used + cost \in Nat /\ run.activity + cost \in Nat
    BY <1>1, RunFields
  <2>2. h \in Runs
    BY <1>1, <2>1, SetFields
  <2>3. q \in Runs
    BY <2>1, <2>2, SetFields
  <2>4. r = q
    BY DEF Counted
  <2>5. /\ q.stop = run.stop /\ q.top = run.top /\ q.inner = run.inner
        /\ q.budget = run.budget - cost /\ q.activity = run.activity + cost
    BY <1>1 DEF Runs
  <2> QED BY <1>1, <2>3, <2>4, <2>5
<1>3. \/ run' = NextBlock(r) \/ run' = NextInLoop(r)
      \/ run' = Summarised(r, TRUE)
  BY Zenon DEF After
<1> HIDE DEF r
<1>4. run.top \in 1..Len(skill)
  BY DEF IInv, Placed, At
<1>5. \A fired \in BOOLEAN : Moved(r, Summarised(r, fired))
  BY <1>2, <1>4, SummarisedMoves
<1>6. Moved(r, Summarised(r, TRUE))
  BY <1>5, Zenon
<1>7. Moved(r, NextBlock(r)) /\ Moved(r, NextInLoop(r))
  BY <1>2, <1>4, NextBlockMoves, NextInLoopMoves
<1>8. Moved(r, run')
  BY <1>3, <1>6, <1>7, Zenon
<1>9. \A q : Moved(r, q) =>
        /\ q \in Runs /\ q.budget = run.budget - cost
        /\ q.activity = run.activity + cost
        /\ q.stop \in {"going", "end"} /\ (q.stop = "going" => At(q))
  BY <1>2 DEF Moved
<1> QED BY <1>8, <1>9

-----------------------------------------------------------------------------
(* The records.                                                              *)

LEMMA Ceilings ==
  ASSUME IInv
  PROVE  /\ Ceiling[host] \in Nat \ {0}
         /\ run.budget \in 0..Ceiling[host] /\ run.activity \in Nat
<1>1. Ceiling[host] \in Nat \ {0}
  BY HostAssumption DEF IInv, TypeInv
<1>2. run.budget \in Nat /\ run.activity \in Nat
  BY RunFields DEF IInv, TypeInv
<1> QED BY <1>1, <1>2 DEF IInv, Balance

(* A row is added and the earlier ones stay.                                 *)
LEMMA RowAdded ==
  ASSUME rows \in Seq(Rows), NEW n \in Nat, NEW by \in Nat, Row(n, by)
  PROVE  /\ rows' \in Seq(Rows) /\ Len(rows') = Len(rows) + 1
         /\ rows'[Len(rows) + 1].step = n /\ rows'[Len(rows) + 1].by = by
         /\ \A j \in 1..Len(rows) : rows'[j] = rows[j]
<1> DEFINE e == [step |-> n, by |-> by]
<1>1. e \in Rows /\ e.step = n /\ e.by = by
  BY DEF Rows
<1>2. rows' = Append(rows, e)
  BY DEF Row
<1> HIDE DEF e
<1>3. /\ rows' \in Seq(Rows) /\ Len(rows') = Len(rows) + 1
      /\ rows'[Len(rows) + 1] = e
      /\ \A j \in 1..Len(rows) : rows'[j] = rows[j]
  BY <1>1, <1>2
<1> QED BY <1>1, <1>3

LEMMA AtFacts ==
  ASSUME NEW t \in Seq(Entries), NEW i \in 0..Len(t)
  PROVE  TotalAt(t, i) \in Nat /\ HeardAt(t, i) \in Seq(Outcomes)
<1>1. CASE i = 0
  BY <1>1 DEF TotalAt, HeardAt
<1>2. CASE i # 0
  <2>1. t[i] \in Entries
    BY <1>2
  <2> QED BY <1>2, <2>1 DEF TotalAt, HeardAt, Entries
<1> QED BY <1>1, <1>2

(* A step is added to the trail and the earlier ones stay.                   *)
LEMMA TrailAdded ==
  ASSUME trail \in Seq(Entries), NEW outs \in Seq(Outcomes), NEW cost \in Nat,
         Trailed(outs, cost)
  PROVE  /\ trail' \in Seq(Entries) /\ Len(trail') \in Nat
         /\ Len(trail') = Len(trail) + 1
         /\ \A i \in 1..Len(trail) : trail'[i] = trail[i]
         /\ trail'[Len(trail) + 1].outs = outs
         /\ trail'[Len(trail) + 1].total = TotalAt(trail, Len(trail)) + cost
         /\ trail'[Len(trail) + 1].heard = HeardAt(trail, Len(trail)) \o outs
<1> DEFINE total == TotalAt(trail, Len(trail)) + cost
           heard == HeardAt(trail, Len(trail)) \o outs
           e == [outs |-> outs, total |-> total, heard |-> heard]
<1>1. Len(trail) \in Nat
  OBVIOUS
<1>2. total \in Nat /\ heard \in Seq(Outcomes)
  BY <1>1, AtFacts
<1>3. trail' = Append(trail, e)
  BY DEF Trailed
<1>4. e.outs = outs /\ e.total = total /\ e.heard = heard
  OBVIOUS
<1> HIDE DEF total, heard
<1>5. e \in Entries
  BY <1>2 DEF Entries
<1> HIDE DEF e
<1>6. /\ trail' \in Seq(Entries) /\ Len(trail') = Len(trail) + 1
      /\ trail'[Len(trail) + 1] = e
      /\ \A i \in 1..Len(trail) : trail'[i] = trail[i]
  BY <1>1, <1>3, <1>5
<1> QED BY <1>1, <1>4, <1>6 DEF total, heard

(* What is kept of a trail when a run starts.                                *)
LEMMA TrailKept ==
  ASSUME trail \in Seq(Entries), Forgotten
  PROVE  /\ Kept \in 0..Len(trail) /\ Kept \in Nat /\ trail' \in Seq(Entries)
         /\ Len(trail') = Kept
         /\ \A i \in 1..Kept : trail'[i].outs = trail[Len(trail) - Kept + i].outs
<1>1. Kept \in 0..Len(trail) /\ Len(trail) \in Nat
  BY NumberAssumption DEF Kept
<1> DEFINE k == Kept
           n == Len(trail)
           e(i) == [outs |-> trail[n - k + i].outs, total |-> 0, heard |-> <<>>]
<1>2. trail' = [i \in 1..k |-> e(i)]
  BY DEF Forgotten
<1>3. k \in 0..n /\ n \in Nat
  BY <1>1
<1> HIDE DEF k
<1>4. ASSUME NEW i \in 1..k
      PROVE  e(i) \in Entries /\ e(i).outs = trail[n - k + i].outs
  <2> DEFINE outs == trail[n - k + i].outs
             none == <<>>
             d == [outs |-> outs, total |-> 0, heard |-> none]
  <2>1. trail[n - k + i] \in Entries
    BY <1>3
  <2>2. outs \in Seq(Outcomes)
    BY <2>1 DEF Entries
  <2>3. none \in Seq(Outcomes)
    OBVIOUS
  <2>4. e(i) = d
    OBVIOUS
  <2> HIDE DEF outs, none
  <2>5. d \in Entries /\ d.outs = outs
    BY <2>2, <2>3 DEF Entries
  <2> QED BY <2>4, <2>5 DEF outs
<1> HIDE DEF e
<1>5. trail' \in [1..k -> Entries]
  BY <1>2, <1>4
<1>6. trail' \in Seq(Entries) /\ Len(trail') = k
  BY <1>3, <1>5
<1>7. \A i \in 1..k : trail'[i].outs = trail[n - k + i].outs
  BY <1>2, <1>4
<1> QED BY <1>1, <1>3, <1>6, <1>7 DEF k

(* A row of the current run is one more of its span.                         *)
LEMMA SpanGrows ==
  ASSUME rows \in Seq(Rows), NEW s \in Nat, NEW c \in Nat, Row(s + 1, c),
         NEW used \in Nat, Span(rows, c, Len(rows), used, s)
  PROVE  Span(rows', c, Len(rows'), used + 1, s + 1)
<1>1. Len(rows) \in Nat
  OBVIOUS
<1>2. /\ Len(rows') = Len(rows) + 1
      /\ rows'[Len(rows) + 1].step = s + 1 /\ rows'[Len(rows) + 1].by = c
      /\ \A j \in 1..Len(rows) : rows'[j] = rows[j]
  BY RowAdded
<1>3. /\ used <= Len(rows)
      /\ \A j \in 1..Len(rows) :
           /\ rows[j].by = c <=> Len(rows) - used < j /\ j <= Len(rows)
           /\ rows[j].by = c => rows[j].step = s - (Len(rows) - j)
  BY DEF Span
<1>4. ASSUME NEW j \in 1..Len(rows')
      PROVE  /\ rows'[j].by = c <=> Len(rows') - (used + 1) < j /\ j <= Len(rows')
             /\ rows'[j].by = c => rows'[j].step = s + 1 - (Len(rows') - j)
  <2>1. CASE j = Len(rows) + 1
    BY <1>1, <1>2, <1>3, <2>1
  <2>2. CASE j \in 1..Len(rows)
    BY <1>1, <1>2, <1>3, <2>2
  <2> QED BY <1>1, <1>2, <2>1, <2>2
<1> QED BY <1>1, <1>2, <1>3, <1>4 DEF Span

(* A row of another run, or of none, changes no span.                        *)
LEMMA SpanStays ==
  ASSUME rows \in Seq(Rows), NEW n \in Nat, NEW by \in Nat, Row(n, by),
         NEW c \in Nat, c # by, NEW at \in Nat, NEW used \in Nat, NEW s \in Nat,
         Span(rows, c, at, used, s)
  PROVE  Span(rows', c, at, used, s)
<1>1. Len(rows) \in Nat
  OBVIOUS
<1>2. /\ Len(rows') = Len(rows) + 1 /\ rows'[Len(rows) + 1].by = by
      /\ \A j \in 1..Len(rows) : rows'[j] = rows[j]
  BY RowAdded
<1>3. /\ at <= Len(rows) /\ used <= at
      /\ \A j \in 1..Len(rows) :
           /\ rows[j].by = c <=> at - used < j /\ j <= at
           /\ rows[j].by = c => rows[j].step = s - (at - j)
  BY DEF Span
<1>4. ASSUME NEW j \in 1..Len(rows')
      PROVE  /\ rows'[j].by = c <=> at - used < j /\ j <= at
             /\ rows'[j].by = c => rows'[j].step = s - (at - j)
  <2>1. CASE j = Len(rows) + 1
    BY <1>1, <1>2, <1>3, <2>1
  <2>2. CASE j \in 1..Len(rows)
    BY <1>1, <1>2, <1>3, <2>2
  <2> QED BY <1>1, <1>2, <2>1, <2>2
<1> QED BY <1>1, <1>2, <1>3, <1>4 DEF Span

-----------------------------------------------------------------------------
(* The actions.                                                              *)

(* A step of a run that costs this much: outside nds it costs one and leaves *)
(* one row.                                                                  *)
LEMMA StepTaken ==
  ASSUME IInv, Unit, Untouched, NEW cost \in 0..run.budget,
         run' \in Runs, run'.budget = run.budget - cost,
         run'.activity = run.activity + cost, run'.stop \in {"going", "end"},
         run'.stop = "going" => At(run'),
         step' \in Nat, unchanged' \in Nat, legal' \in BOOLEAN, trail' \in Seq(Entries),
         IF host = "nds" THEN rows' = rows
         ELSE cost = 1 /\ step' = step + 1 /\ Row(step + 1, runs)
  PROVE  IInv'
<1>1. /\ TypeInv /\ host' = host /\ skill' = skill /\ running' = running
      /\ log' = log /\ runs' = runs /\ running = TRUE /\ run.stop = "going"
  BY DEF IInv, Untouched, Unit, TypeInv
<1>2. /\ runs \in Nat \ {0} /\ step \in Nat /\ rows \in Seq(Rows) /\ log = <<>>
      /\ Ceiling[host] \in Nat /\ run.budget \in 0..Ceiling[host]
      /\ run.activity \in Nat
  BY <1>1, Ceilings DEF IInv, TypeInv, Spans
<1>3. rows' \in Seq(Rows)
  <2>1. CASE host = "nds"
    BY <1>2, <2>1
  <2>2. CASE host # "nds"
    <3>1. Row(step + 1, runs)
      BY <2>2
    <3> QED BY <1>2, <3>1, RowAdded
  <2> QED BY <2>1, <2>2
<1>4. TypeInv'
  BY <1>1, <1>3 DEF TypeInv
<1>5. Placed'
  BY <1>1 DEF IInv, Placed, Unit, At
<1>6. Balance'
  BY <1>1, <1>2 DEF IInv, Balance
<1>7. Spans'
  <2>1. \A j \in 1..Len(rows') : rows'[j].by <= runs
    <3>1. \A j \in 1..Len(rows) : rows[j].by <= runs
      BY DEF IInv, Spans
    <3>2. CASE host = "nds"
      BY <3>1, <3>2
    <3>3. CASE host # "nds"
      <4>1. Row(step + 1, runs)
        BY <3>3
      <4>2. /\ Len(rows') = Len(rows) + 1 /\ rows'[Len(rows) + 1].by = runs
            /\ \A j \in 1..Len(rows) : rows'[j] = rows[j]
        BY <1>2, <4>1, RowAdded
      <4>3. Len(rows) \in Nat
        BY <1>2
      <4>4. ASSUME NEW j \in 1..Len(rows')
            PROVE  rows'[j].by <= runs
        <5>1. j \in 1..Len(rows) \/ j = Len(rows) + 1
          BY <4>2, <4>3
        <5> QED BY <1>2, <3>1, <4>2, <5>1
      <4> QED BY <4>4
    <3> QED BY <3>2, <3>3
  <2>2. ASSUME host # "nds"
        PROVE  Span(rows', runs, Len(rows'), Ceiling[host] - run'.budget, step')
    <3>1. Span(rows, runs, Len(rows), Ceiling[host] - run.budget, step)
      BY <1>1, <2>2 DEF IInv, Spans
    <3>2. Ceiling[host] - run.budget \in Nat /\ cost = 1 /\ step' = step + 1
      BY <1>2, <2>2
    <3>3. Row(step + 1, runs)
      BY <2>2
    <3>4. Span(rows', runs, Len(rows'), Ceiling[host] - run.budget + 1, step + 1)
      BY <1>2, <3>1, <3>2, <3>3, SpanGrows
    <3>5. Ceiling[host] - run'.budget = Ceiling[host] - run.budget + 1
      BY <1>2, <3>2
    <3> QED BY <3>2, <3>4, <3>5
  <2> QED BY <1>1, <1>2, <2>1, <2>2 DEF Spans
<1> QED BY <1>4, <1>5, <1>6, <1>7 DEF IInv

(* A run stops without a step: refused, at its ceiling, or with an answer    *)
(* that was lost.                                                            *)
LEMMA Stopped ==
  ASSUME IInv, Unit, Untouched, WorldUntouched, run' \in Runs,
         run'.budget = run.budget,
         \/ /\ run'.stop \in {"ceiling", "refused"}
            /\ run'.activity = run.activity
         \/ /\ run'.stop = "lost" /\ run.budget # 0
            /\ run'.activity = run.activity + 1
  PROVE  IInv'
<1>1. /\ TypeInv /\ host' = host /\ skill' = skill /\ running' = running
      /\ log' = log /\ runs' = runs /\ running = TRUE /\ run.stop = "going"
      /\ step' = step /\ unchanged' = unchanged /\ legal' = legal
      /\ rows' = rows /\ trail' = trail
  BY DEF IInv, Untouched, WorldUntouched, Unit, TypeInv
<1>2. /\ Ceiling[host] \in Nat /\ run.budget \in 0..Ceiling[host]
      /\ run.activity \in Nat
  BY Ceilings
<1>3. TypeInv'
  BY <1>1 DEF TypeInv
<1>4. Placed'
  BY <1>1 DEF IInv, Placed, Unit
<1>5. Balance'
  BY <1>1, <1>2 DEF IInv, Balance
<1>6. Spans'
  BY <1>1 DEF IInv, Spans
<1> QED BY <1>3, <1>4, <1>5, <1>6 DEF IInv

(* The player defines a skill or plays on between two runs.                  *)
LEMMA BetweenRuns ==
  ASSUME IInv, ~running, UNCHANGED <<host, running, run, log, runs>>,
         skill' \in Seq(Blocks), \A i \in 1..Len(skill') : skill'[i].body # <<>>,
         step' \in Nat, unchanged' \in Nat, legal' \in BOOLEAN, trail' \in Seq(Entries),
         NEW n \in Nat, rows' = rows \/ Row(n, 0)
  PROVE  IInv'
<1>1. /\ TypeInv /\ host' = host /\ running' = running /\ run' = run
      /\ log' = log /\ runs' = runs /\ running = FALSE
  BY DEF IInv, TypeInv
<1>2. runs \in Nat /\ rows \in Seq(Rows) /\ log \in Seq(Records) /\ Len(rows) \in Nat
  BY <1>1 DEF TypeInv
<1>3. rows' \in Seq(Rows)
  BY <1>2, RowAdded
<1>4. TypeInv'
  BY <1>1, <1>3 DEF TypeInv
<1>5. Placed'
  BY <1>1 DEF Placed, Unit
<1>6. Balance'
  BY <1>1 DEF IInv, Balance
<1>7. \A j \in 1..Len(rows') : rows'[j].by <= runs
  <2>1. \A j \in 1..Len(rows) : rows[j].by <= runs
    BY DEF IInv, Spans
  <2>2. CASE rows' = rows
    BY <2>1, <2>2
  <2>3. CASE Row(n, 0)
    <3>1. /\ Len(rows') = Len(rows) + 1 /\ rows'[Len(rows) + 1].by = 0
          /\ \A j \in 1..Len(rows) : rows'[j] = rows[j]
      BY <1>2, <2>3, RowAdded
    <3>2. ASSUME NEW j \in 1..Len(rows')
          PROVE  rows'[j].by <= runs
      <4>1. j \in 1..Len(rows) \/ j = Len(rows) + 1
        BY <1>2, <3>1
      <4> QED BY <1>2, <2>1, <3>1, <4>1
    <3> QED BY <3>2
  <2> QED BY <2>2, <2>3
<1>8. ASSUME NEW i \in 1..Len(log)
      PROVE  /\ runs > 0 /\ log[i].call = runs
             /\ host # "nds" =>
                  Span(rows', log[i].call, log[i].at, log[i].used, log[i].step)
  <2>1. /\ runs > 0 /\ log[i].call = runs
        /\ host # "nds" =>
             Span(rows, log[i].call, log[i].at, log[i].used, log[i].step)
    BY DEF IInv, Spans
  <2>2. log[i] \in Records
    BY <1>2
  <2>3. log[i].at \in Nat /\ log[i].used \in Nat /\ log[i].step \in Nat
    BY <2>2 DEF Records
  <2>4. CASE rows' = rows
    BY <2>1, <2>4
  <2>5. CASE host # "nds" /\ Row(n, 0)
    <3> DEFINE c == log[i].call
               at == log[i].at
               used == log[i].used
               upto == log[i].step
    <3>1. /\ c \in Nat /\ c # 0 /\ at \in Nat /\ used \in Nat /\ upto \in Nat
          /\ Span(rows, c, at, used, upto)
      BY <1>2, <2>1, <2>3, <2>5
    <3> HIDE DEF c, at, used, upto
    <3>2. Span(rows', c, at, used, upto)
      BY <1>2, <2>5, <3>1, SpanStays
    <3> QED BY <2>1, <3>2 DEF c, at, used, upto
  <2> QED BY <2>1, <2>4, <2>5
<1>9. Spans'
  BY <1>1, <1>7, <1>8 DEF Spans
<1> QED BY <1>4, <1>5, <1>6, <1>9 DEF IInv

LEMMA DefineKeeps ==
  ASSUME IInv, NEW s \in Candidates, Define(s)
  PROVE  IInv'
<1>1. /\ ~running /\ UNCHANGED <<host, running, run, log, runs>>
      /\ skill' = s /\ Valid(s)
      /\ UNCHANGED <<step, unchanged, legal, rows, trail>>
  BY DEF Define
<1>2. skill' \in Seq(Blocks)
  BY <1>1, CandidateAssumption
<1>3. \A i \in 1..Len(skill') : skill'[i].body # <<>>
  BY <1>1 DEF Valid
<1>4. step' \in Nat /\ unchanged' \in Nat /\ legal' \in BOOLEAN /\ trail' \in Seq(Entries)
  BY <1>1 DEF IInv, TypeInv
<1> QED BY <1>1, <1>2, <1>3, <1>4, BetweenRuns

LEMMA ArcAnswers ==
  ASSUME IInv, NEW out \in Outcomes, NEW by \in Nat, ArcAnswered(out, by)
  PROVE  /\ step' = step + 1 /\ Row(step + 1, by)
         /\ step' \in Nat /\ unchanged' \in Nat /\ legal' \in BOOLEAN
         /\ trail' \in Seq(Entries) /\ Len(trail') \in Nat
<1>1. step \in Nat /\ unchanged \in Nat /\ trail \in Seq(Entries)
  BY DEF IInv, TypeInv
<1>2. <<out>> \in Seq(Outcomes)
  OBVIOUS
<1>3. Trailed(<<out>>, 1)
  BY DEF ArcAnswered
<1>4. trail' \in Seq(Entries) /\ Len(trail') \in Nat
  BY <1>1, <1>2, <1>3, TrailAdded
<1> QED BY <1>1, <1>4 DEF ArcAnswered

LEMMA ManualKeeps ==
  ASSUME IInv, Manual
  PROVE  IInv'
<1>1. /\ ~running /\ UNCHANGED <<host, running, run, log, runs>> /\ skill' = skill
  BY DEF Manual
<1>2. skill' \in Seq(Blocks) /\ \A i \in 1..Len(skill') : skill'[i].body # <<>>
  BY <1>1 DEF IInv, TypeInv, Placed
<1>3. step + 1 \in Nat
  BY DEF IInv, TypeInv
<1>4. /\ step' \in Nat /\ unchanged' \in Nat /\ legal' \in BOOLEAN
      /\ trail' \in Seq(Entries) /\ Row(step + 1, 0)
  <2>1. ASSUME NEW out \in {"same", "elsewhere"}, ArcAnswered(out, 0)
        PROVE  /\ step' \in Nat /\ unchanged' \in Nat /\ legal' \in BOOLEAN
               /\ trail' \in Seq(Entries) /\ Row(step + 1, 0)
    <3>1. out \in Outcomes
      BY DEF Outcomes
    <3> QED BY <2>1, <3>1, ArcAnswers
  <2>2. CASE step' = step + 1 /\ Row(step + 1, 0) /\ UNCHANGED <<unchanged, legal, trail>>
    BY <1>3, <2>2 DEF IInv, TypeInv
  <2> QED BY <2>1, <2>2 DEF Manual
<1> QED BY <1>1, <1>2, <1>3, <1>4, BetweenRuns

LEMMA ResetKeeps ==
  ASSUME IInv, Reset
  PROVE  IInv'
<1>1. /\ ~running /\ UNCHANGED <<host, running, run, log, runs>> /\ skill' = skill
      /\ step' = 0 /\ Row(0, 0) /\ unchanged' = 0 /\ legal' \in BOOLEAN
      /\ Trailed(<<"reset">>, 0)
  BY DEF Reset
<1>2. skill' \in Seq(Blocks) /\ \A i \in 1..Len(skill') : skill'[i].body # <<>>
  BY <1>1 DEF IInv, TypeInv, Placed
<1>3. <<"reset">> \in Seq(Outcomes)
  BY DEF Outcomes
<1>4. trail' \in Seq(Entries)
  BY <1>1, <1>3, TrailAdded DEF IInv, TypeInv
<1> QED BY <1>1, <1>2, <1>4, BetweenRuns

LEMMA FreshFacts ==
  ASSUME host \in Hosts, NEW n \in Nat
  PROVE  LET r == [FreshRun EXCEPT !.from = n]
         IN  /\ r \in Runs /\ r.budget = Ceiling[host] /\ r.activity = 0
             /\ r.top = 1 /\ r.inner = 1 /\ r.stop = "going"
<1> DEFINE loops == <<>>
           c == Ceiling[host]
           r == [top |-> 1, inner |-> 1, iter |-> 0, used |-> 0, idle |-> 0,
                 budget |-> c, ok |-> 0, loops |-> loops, stop |-> "going",
                 from |-> n, activity |-> 0]
<1>1. loops \in Loops
  BY DEF Loops
<1>2. c \in Nat
  BY HostAssumption
<1>3. "going" \in Stops
  BY DEF Stops
<1>4. [FreshRun EXCEPT !.from = n] = r
  BY DEF FreshRun
<1> HIDE DEF loops, c
<1>5. /\ r \in Runs /\ r.budget = c /\ r.activity = 0 /\ r.top = 1 /\ r.inner = 1
      /\ r.stop = "going"
  BY <1>1, <1>2, <1>3 DEF Runs
<1> HIDE DEF r
<1> QED BY <1>4, <1>5 DEF c

LEMMA StartKeeps ==
  ASSUME IInv, Start
  PROVE  IInv'
<1> DEFINE r == [FreshRun EXCEPT !.from = Kept]
<1>1. /\ ~running /\ skill # <<>> /\ runs' = runs + 1 /\ running' = TRUE
      /\ Forgotten /\ run' = r /\ log' = <<>>
      /\ UNCHANGED <<host, skill, step, unchanged, legal, rows>>
  BY DEF Start
<1>2. trail \in Seq(Entries)
  BY DEF IInv, TypeInv
<1>3. Kept \in Nat /\ trail' \in Seq(Entries)
  BY <1>1, <1>2, TrailKept
<1>4. host \in Hosts /\ runs \in Nat
  BY DEF IInv, TypeInv
<1>5. /\ r \in Runs /\ r.budget = Ceiling[host] /\ r.activity = 0
      /\ r.top = 1 /\ r.inner = 1 /\ r.stop = "going"
  BY <1>3, <1>4, FreshFacts
<1> HIDE DEF r
<1>6. TypeInv'
  BY <1>1, <1>3, <1>4, <1>5 DEF IInv, TypeInv
<1>7. Placed'
  <2>1. \A i \in 1..Len(skill) : skill[i].body # <<>>
    BY DEF IInv, Placed
  <2>2. Len(skill) \in Nat \ {0}
    BY <1>1 DEF IInv, TypeInv
  <2>3. 1 \in 1..Len(skill[1].body)
    BY <2>2, SkillFacts
  <2> QED BY <1>1, <1>5, <2>1, <2>2, <2>3 DEF Placed, Unit, At
<1>8. Ceiling[host] \in Nat
  BY <1>4, HostAssumption
<1>9. Balance'
  BY <1>1, <1>5, <1>8 DEF Balance
<1>10. Spans'
  <2>1. \A j \in 1..Len(rows) : rows[j].by \in Nat /\ rows[j].by <= runs
    <3>1. rows \in Seq(Rows)
      BY DEF IInv, TypeInv
    <3>2. ASSUME NEW j \in 1..Len(rows)
          PROVE  rows[j].by \in Nat
      <4>1. rows[j] \in Rows
        BY <3>1
      <4> QED BY <4>1 DEF Rows
    <3> QED BY <3>2 DEF IInv, Spans
  <2>2. Len(rows) \in Nat
    BY DEF IInv, TypeInv
  <2>3. Span(rows, runs + 1, Len(rows), 0, step)
    BY <1>4, <2>1, <2>2 DEF Span
  <2>4. Ceiling[host] - r.budget = 0
    BY <1>5, <1>8
  <2> QED BY <1>1, <1>4, <2>1, <2>3, <2>4 DEF Spans
<1> QED BY <1>6, <1>7, <1>9, <1>10 DEF IInv

LEMMA ExhaustedKeeps ==
  ASSUME IInv, Exhausted
  PROVE  IInv'
<1>1. Unit /\ Untouched /\ WorldUntouched /\ run' = [run EXCEPT !.stop = "ceiling"]
  BY DEF Exhausted, Abort
<1>2. run \in Runs /\ "ceiling" \in Stops
  BY DEF IInv, TypeInv, Stops
<1>3. run' \in Runs
  BY <1>1, <1>2, SetStop
<1>4. /\ run'.budget = run.budget /\ run'.activity = run.activity
      /\ run'.stop = "ceiling"
  BY <1>1, <1>2 DEF Runs
<1> QED BY <1>1, <1>3, <1>4, Stopped

LEMMA RefusedKeeps ==
  ASSUME IInv, Refused
  PROVE  IInv'
<1>1. Unit /\ Untouched /\ WorldUntouched /\ run' = [run EXCEPT !.stop = "refused"]
  BY DEF Refused, Abort
<1>2. run \in Runs /\ "refused" \in Stops
  BY DEF IInv, TypeInv, Stops
<1>3. run' \in Runs
  BY <1>1, <1>2, SetStop
<1>4. /\ run'.budget = run.budget /\ run'.activity = run.activity
      /\ run'.stop = "refused"
  BY <1>1, <1>2 DEF Runs
<1> QED BY <1>1, <1>3, <1>4, Stopped

LEMMA ArcLostKeeps ==
  ASSUME IInv, ArcLost
  PROVE  IInv'
<1> DEFINE a == run.activity + 1
<1>1. /\ Unit /\ Untouched /\ WorldUntouched
      /\ run' = [run EXCEPT !.stop = "lost", !.activity = a]
  BY DEF ArcLost
<1>2. run \in Runs /\ "lost" \in Stops
  BY DEF IInv, TypeInv, Stops
<1>3. a \in Nat
  BY <1>2, RunFields
<1>4. run.budget # 0
  BY DEF ArcLost, TooDear
<1> HIDE DEF a
<1>5. run' \in Runs
  BY <1>1, <1>2, <1>3, SetStop
<1>6. run'.budget = run.budget /\ run'.activity = a /\ run'.stop = "lost"
  BY <1>1, <1>2 DEF Runs
<1> QED BY <1>1, <1>4, <1>5, <1>6, Stopped DEF a

LEMMA ArcStepKeeps ==
  ASSUME IInv, ArcStep
  PROVE  IInv'
<1>1. PICK out \in {"same", "inside", "elsewhere"} :
        /\ ArcAnswered(out, runs)
        /\ After(Counted(1, 0), ArcFires(out, Counted(1, 0)))
  BY Zenon DEF ArcStep
<1> DEFINE fires == ArcFires(out, Counted(1, 0))
<1>2. Unit /\ Untouched /\ ~TooDear /\ host = "arc"
  BY DEF ArcStep
<1>3. out \in Outcomes /\ runs \in Nat
  BY DEF Outcomes, IInv, TypeInv
<1>4. /\ step' = step + 1 /\ Row(step + 1, runs)
      /\ step' \in Nat /\ unchanged' \in Nat /\ legal' \in BOOLEAN
      /\ trail' \in Seq(Entries) /\ Len(trail') \in Nat
  BY <1>1, <1>3, ArcAnswers
<1>5. fires \in BOOLEAN
  BY Zenon DEF ArcFires
<1>6. After(Counted(1, 0), fires)
  BY <1>1
<1> HIDE DEF fires
<1>7. 1 \in 0..run.budget
  BY <1>2, Ceilings DEF TooDear
<1>8. /\ run' \in Runs /\ run'.budget = run.budget - 1
      /\ run'.activity = run.activity + 1 /\ run'.stop \in {"going", "end"}
      /\ run'.stop = "going" => At(run')
  BY <1>2, <1>4, <1>5, <1>6, <1>7, AfterMoves
<1> QED BY <1>2, <1>4, <1>7, <1>8, StepTaken

LEMMA KirbyStepKeeps ==
  ASSUME IInv, KirbyStep
  PROVE  IInv'
<1>1. PICK out \in KirbyOuts :
        /\ KirbyPressed(out, runs)
        /\ After(Counted(1, 0), KirbyFires(out, Counted(1, 0)))
  BY Zenon DEF KirbyStep
<1> DEFINE fires == KirbyFires(out, Counted(1, 0))
<1>2. Unit /\ Untouched /\ ~TooDear /\ host = "kirby"
  BY DEF KirbyStep
<1>3. out \in Outcomes
  BY DEF Outcomes, KirbyOuts
<1>4. /\ step' = step + 1 /\ Row(step + 1, runs) /\ Trailed(<<out>>, 1)
      /\ unchanged' = unchanged /\ legal' = legal
  BY <1>1 DEF KirbyPressed
<1>5. step \in Nat /\ unchanged \in Nat /\ legal \in BOOLEAN /\ trail \in Seq(Entries)
  BY DEF IInv, TypeInv
<1>6. <<out>> \in Seq(Outcomes)
  BY <1>3
<1>7. trail' \in Seq(Entries) /\ Len(trail') \in Nat
  BY <1>4, <1>5, <1>6, TrailAdded
<1>8. step' \in Nat /\ unchanged' \in Nat /\ legal' \in BOOLEAN
  BY <1>4, <1>5
<1>9. fires \in BOOLEAN
  BY Zenon DEF KirbyFires
<1>10. After(Counted(1, 0), fires)
  BY <1>1
<1> HIDE DEF fires
<1>11. 1 \in 0..run.budget
  BY <1>2, Ceilings DEF TooDear
<1>12. /\ run' \in Runs /\ run'.budget = run.budget - 1
       /\ run'.activity = run.activity + 1 /\ run'.stop \in {"going", "end"}
       /\ run'.stop = "going" => At(run')
  BY <1>2, <1>7, <1>9, <1>10, <1>11, AfterMoves
<1> QED BY <1>2, <1>4, <1>7, <1>8, <1>11, <1>12, StepTaken

(* A press that fits and a wait that is cut short cost no more than is left. *)
LEMMA NdsCosts ==
  ASSUME IInv, Unit, ~TooDear, host = "nds"
  PROVE  NdsCost \in 0..run.budget /\ NdsSamples \in Nat
<1>1. At(run) /\ Block = skill[run.top] /\ Block.body \in Seq(Steps)
  BY SkillFacts DEF IInv, Placed, At, Block
<1>2. Current \in Steps
  BY <1>1 DEF Current, At
<1>3. Current.frames \in Nat /\ Current.held \in BOOLEAN
  BY <1>2 DEF Steps
<1>4. run.budget \in Nat /\ Settle \in Nat /\ Stride \in Nat \ {0}
  BY Ceilings, NumberAssumption
<1>5. NdsCost \in 0..run.budget
  <2>1. CASE Current.held
    <3>1. NdsCost = Current.frames + Settle
      BY <2>1 DEF NdsCost
    <3>2. ~(Current.frames + Settle > run.budget)
      BY <2>1 DEF TooDear
    <3> QED BY <1>3, <1>4, <3>1, <3>2
  <2>2. CASE ~Current.held
    <3>1. NdsCost = IF Current.frames < run.budget THEN Current.frames ELSE run.budget
      BY <2>2 DEF NdsCost
    <3> QED BY <1>3, <1>4, <3>1
  <2> QED BY <2>1, <2>2
<1>6. NdsSamples \in Nat
  <2>1. NdsCost + Stride - 1 \in Nat
    BY <1>4, <1>5
  <2>2. \A a \in Nat, b \in Nat \ {0} : a \div b \in Nat
    OBVIOUS
  <2>3. (NdsCost + Stride - 1) \div Stride \in Nat
    BY <1>4, <2>1, <2>2
  <2>4. NdsSamples = 1 \/ NdsSamples = (NdsCost + Stride - 1) \div Stride
    BY DEF NdsSamples
  <2> QED BY <2>3, <2>4
<1> QED BY <1>5, <1>6

(* A streak is a number of samples, and perhaps the streak before them.      *)
LEMMA StreakFacts ==
  ASSUME NEW n \in Nat, NEW samples \in [1..n -> {"low", "high"}], NEW before \in Nat
  PROVE  Streaks(samples, before)[n] \in Nat
<1> DEFINE streak == {k \in 1..n : \A j \in k..n : samples[j] = "low"}
<1>1. Len(samples) = n
  OBVIOUS
<1>2. IsFiniteSet(1..n) /\ streak \subseteq 1..n
  BY FS_Interval
<1>3. Cardinality(streak) \in Nat
  BY <1>2, FS_Subset, FS_CardinalityType
<1>4. Streaks(samples, before)[n] =
        Cardinality(streak) + IF Cardinality(streak) = n THEN before ELSE 0
  BY <1>1 DEF Streaks
<1> HIDE DEF streak
<1> QED BY <1>3, <1>4

LEMMA NdsStepKeeps ==
  ASSUME IInv, NdsStep
  PROVE  IInv'
<1>1. Unit /\ ~TooDear /\ host = "nds" /\ Untouched
  BY DEF NdsStep
<1>2. PICK samples \in [1..NdsSamples -> {"low", "high"}] :
        /\ NdsPassed(samples, NdsCost)
        /\ After(Counted(NdsCost, Streaks(samples, run.idle)[NdsSamples]),
                 NdsFires(Streaks(samples, run.idle),
                          Counted(NdsCost, Streaks(samples, run.idle)[NdsSamples])))
  BY Zenon DEF NdsStep
<1> DEFINE cost == NdsCost
           n == NdsSamples
           idle == Streaks(samples, run.idle)[n]
           fires == NdsFires(Streaks(samples, run.idle), Counted(cost, idle))
<1>3. cost \in 0..run.budget /\ n \in Nat
  BY <1>1, NdsCosts
<1>4. samples \in [1..n -> {"low", "high"}] /\ run.idle \in Nat
  BY RunFields DEF IInv, TypeInv
<1>5. fires \in BOOLEAN
  BY Zenon DEF NdsFires
<1>6. Trailed(samples, cost) /\ UNCHANGED <<step, unchanged, legal, rows>>
  BY <1>2 DEF NdsPassed
<1>7. After(Counted(cost, idle), fires)
  BY <1>2
<1> HIDE DEF cost, n, fires
<1>8. idle \in Nat
  BY <1>3, <1>4, StreakFacts
<1> HIDE DEF idle
<1>9. samples \in Seq(Outcomes)
  <2>1. {"low", "high"} \subseteq Outcomes
    BY DEF Outcomes
  <2>2. samples \in Seq({"low", "high"})
    BY <1>3, <1>4
  <2> QED BY <2>1, <2>2
<1>10. cost \in Nat
  BY <1>3, Ceilings
<1>11. step \in Nat /\ unchanged \in Nat /\ legal \in BOOLEAN /\ trail \in Seq(Entries)
  BY DEF IInv, TypeInv
<1>12. trail' \in Seq(Entries) /\ Len(trail') \in Nat
  BY <1>6, <1>9, <1>10, <1>11, TrailAdded
<1>13. /\ run' \in Runs /\ run'.budget = run.budget - cost
       /\ run'.activity = run.activity + cost /\ run'.stop \in {"going", "end"}
       /\ run'.stop = "going" => At(run')
  BY <1>1, <1>3, <1>5, <1>7, <1>8, <1>12, AfterMoves
<1>14. step' \in Nat /\ unchanged' \in Nat /\ legal' \in BOOLEAN /\ rows' = rows
  BY <1>6, <1>11
<1> QED BY <1>1, <1>3, <1>12, <1>13, <1>14, StepTaken

LEMMA FinishKeeps ==
  ASSUME IInv, Finish
  PROVE  IInv'
<1> DEFINE used == Ceiling[host] - run.budget
           at == Len(rows)
           e == [step |-> step, used |-> used, ok |-> run.ok, loops |-> run.loops,
                 stop |-> run.stop, call |-> runs, at |-> at]
<1>1. /\ running /\ log' = <<e>> /\ running' = FALSE /\ run' = FreshRun
      /\ UNCHANGED <<host, skill, unchanged, legal, runs, trail>>
  BY DEF Finish
<1>2. IF host = "arc" THEN UNCHANGED <<step, rows>>
      ELSE step' = step + 1 /\ Row(step + 1, 0)
  BY DEF Finish
<1>3. /\ host \in Hosts /\ run \in Runs /\ step \in Nat /\ rows \in Seq(Rows)
      /\ runs \in Nat \ {0} /\ trail \in Seq(Entries) /\ Len(trail) \in Nat
      /\ Ceiling[host] \in Nat /\ used \in Nat /\ at \in Nat
  BY <1>1, Ceilings DEF IInv, TypeInv, Spans
<1>4. /\ e.step = step /\ e.used = used /\ e.call = runs /\ e.at = at
  OBVIOUS
<1>5. e \in Records
  <2> HIDE DEF used, at
  <2> QED BY <1>3, RunFields DEF Records
<1>6. log' \in Seq(Records) /\ Len(log') = 1 /\ log'[1] = e
  <2> HIDE DEF e
  <2> QED BY <1>1, <1>5
<1>7. host # "nds" => Span(rows, runs, at, used, step)
  BY <1>1 DEF IInv, Spans
<1> HIDE DEF e, used, at
<1>8. /\ run' \in Runs /\ run'.budget = Ceiling[host] /\ run'.activity = 0
      /\ run'.stop = "going"
  <2> DEFINE r == [FreshRun EXCEPT !.from = Len(trail)]
  <2>1. FreshRun = r
    BY DEF FreshRun
  <2>2. r \in Runs /\ r.budget = Ceiling[host] /\ r.activity = 0 /\ r.stop = "going"
    BY <1>3, FreshFacts
  <2> QED BY <1>1, <2>1, <2>2
<1>9. step' \in Nat /\ rows' \in Seq(Rows)
  <2>1. CASE host = "arc"
    BY <1>2, <1>3, <2>1
  <2>2. CASE host # "arc"
    <3>1. step' = step + 1 /\ Row(step + 1, 0)
      BY <1>2, <2>2
    <3> QED BY <1>3, <3>1, RowAdded
  <2> QED BY <2>1, <2>2
<1>10. TypeInv'
  BY <1>1, <1>6, <1>8, <1>9 DEF IInv, TypeInv
<1>11. Placed'
  BY <1>1 DEF IInv, Placed, Unit
<1>12. Balance'
  BY <1>1, <1>3, <1>8 DEF Balance
<1>13. \A j \in 1..Len(rows') : rows'[j].by <= runs
  <2>1. \A j \in 1..Len(rows) : rows[j].by <= runs
    BY DEF IInv, Spans
  <2>2. CASE host = "arc"
    BY <1>2, <2>1, <2>2
  <2>3. CASE host # "arc"
    <3>1. Row(step + 1, 0)
      BY <1>2, <2>3
    <3>2. /\ Len(rows') = Len(rows) + 1 /\ rows'[Len(rows) + 1].by = 0
          /\ \A j \in 1..Len(rows) : rows'[j] = rows[j]
      BY <1>3, <3>1, RowAdded
    <3>3. ASSUME NEW j \in 1..Len(rows')
          PROVE  rows'[j].by <= runs
      <4>1. j \in 1..Len(rows) \/ j = Len(rows) + 1
        BY <1>3, <3>2
      <4> QED BY <1>3, <2>1, <3>2, <4>1
    <3> QED BY <3>3
  <2> QED BY <2>2, <2>3
<1>14. host # "nds" => Span(rows', runs, at, used, step)
  <2>1. CASE host = "arc"
    BY <1>2, <1>7, <2>1
  <2>2. CASE host # "arc" /\ host # "nds"
    <3>1. Row(step + 1, 0) /\ step + 1 \in Nat /\ runs # 0 /\ runs \in Nat
      BY <1>2, <1>3, <2>2
    <3>2. Span(rows, runs, at, used, step)
      BY <1>7, <2>2
    <3> QED BY <1>3, <3>1, <3>2, SpanStays
  <2> QED BY <2>1, <2>2
<1>15. Spans'
  BY <1>1, <1>3, <1>4, <1>6, <1>13, <1>14 DEF Spans, e
<1> QED BY <1>10, <1>11, <1>12, <1>15 DEF IInv

LEMMA InitKeeps == Init => IInv
<1> SUFFICES ASSUME Init
             PROVE  IInv
  OBVIOUS
<1>1. /\ host \in Hosts /\ skill = <<>> /\ running = FALSE /\ trail = <<>>
      /\ run = FreshRun /\ unchanged = 0 /\ legal \in BOOLEAN /\ runs = 0
      /\ log = <<>> /\ step = 0
  BY DEF Init
<1>2. rows \in Seq(Rows) /\ \A j \in 1..Len(rows) : rows[j].by = 0
  <2> DEFINE e == [step |-> 0, by |-> 0]
  <2>1. e \in Rows /\ e.by = 0
    BY DEF Rows
  <2>2. rows = <<e>> \/ rows = <<>>
    BY DEF Init
  <2> HIDE DEF e
  <2>3. CASE rows = <<e>>
    <3>1. Len(rows) = 1 /\ rows[1] = e
      BY <2>3
    <3>2. rows \in Seq(Rows)
      BY <2>1, <2>3
    <3> QED BY <2>1, <3>1, <3>2
  <2>4. CASE rows = <<>>
    BY <2>4
  <2> QED BY <2>2, <2>3, <2>4
<1>3. run \in Runs /\ run.budget = Ceiling[host] /\ run.activity = 0 /\ run.stop = "going"
  <2> DEFINE r == [FreshRun EXCEPT !.from = Len(trail)]
  <2>1. FreshRun = r
    BY DEF FreshRun
  <2>2. Len(trail) \in Nat
    BY <1>1
  <2>3. r \in Runs /\ r.budget = Ceiling[host] /\ r.activity = 0 /\ r.stop = "going"
    BY <1>1, <2>2, FreshFacts
  <2> QED BY <1>1, <2>1, <2>3
<1>4. Ceiling[host] \in Nat
  BY <1>1, HostAssumption
<1>5. TypeInv
  <2>1. skill \in Seq(Blocks) /\ log \in Seq(Records) /\ trail \in Seq(Entries)
    BY <1>1
  <2>2. running \in BOOLEAN /\ legal \in BOOLEAN
    BY <1>1
  <2> QED BY <1>1, <1>2, <1>3, <2>1, <2>2 DEF TypeInv
<1>6. Placed
  BY <1>1 DEF Placed, Unit
<1>7. Balance
  BY <1>3, <1>4 DEF Balance
<1>8. Spans
  BY <1>1, <1>2 DEF Spans
<1> QED BY <1>5, <1>6, <1>7, <1>8 DEF IInv

(* A stuttering step keeps it.                                               *)
LEMMA StutterKeeps ==
  ASSUME IInv, UNCHANGED vars
  PROVE  IInv'
<1>1. /\ host' = host /\ skill' = skill /\ running' = running /\ run' = run
      /\ step' = step /\ unchanged' = unchanged /\ legal' = legal
      /\ rows' = rows /\ log' = log /\ runs' = runs /\ trail' = trail
  BY DEF vars
<1>2. TypeInv' /\ Placed'
  BY <1>1 DEF IInv, TypeInv, Placed, Unit, At
<1>3. Balance' /\ Spans'
  BY <1>1 DEF IInv, Balance, Spans
<1> QED BY <1>2, <1>3 DEF IInv

-----------------------------------------------------------------------------
(* The theorems.                                                             *)

(* A run is always at a step of the skill that is stored, what it made the   *)
(* world do and what it may still do add up to the ceiling, and the oracle's *)
(* rows that it caused stand together.                                       *)
THEOREM Invariance == Spec => []IInv
<1>1. Init => IInv
  BY InitKeeps
<1>2. IInv /\ [Next]_vars => IInv'
  <2> SUFFICES ASSUME IInv, [Next]_vars
               PROVE  IInv'
    OBVIOUS
  <2>1. ASSUME NEW s \in Candidates, Define(s)
        PROVE  IInv'
    BY <2>1, DefineKeeps
  <2>2. CASE Manual
    BY <2>2, ManualKeeps
  <2>3. CASE Reset
    BY <2>3, ResetKeeps
  <2>4. CASE Start
    BY <2>4, StartKeeps
  <2>5. CASE Exhausted
    BY <2>5, ExhaustedKeeps
  <2>6. CASE Refused
    BY <2>6, RefusedKeeps
  <2>7. CASE ArcStep
    BY <2>7, ArcStepKeeps
  <2>8. CASE ArcLost
    BY <2>8, ArcLostKeeps
  <2>9. CASE KirbyStep
    BY <2>9, KirbyStepKeeps
  <2>10. CASE NdsStep
    BY <2>10, NdsStepKeeps
  <2>11. CASE Finish
    BY <2>11, FinishKeeps
  <2>12. CASE UNCHANGED vars
    BY <2>12, StutterKeeps
  <2> QED BY <2>1, <2>2, <2>3, <2>4, <2>5, <2>6, <2>7, <2>8, <2>9, <2>10, <2>11,
             <2>12 DEF Next
<1> QED BY <1>1, <1>2, PTL DEF Spec

(* One run_skill never makes the world act more than the ceiling of its port *)
(* allows, for every ceiling, settling time and skill: also when the answer  *)
(* to a step was lost and so nothing was charged for it.                     *)
THEOREM CeilingKept == Spec => []CeilingHolds
<1>1. IInv => CeilingHolds
  <2> SUFFICES ASSUME IInv
               PROVE  CeilingHolds
    OBVIOUS
  <2>1. /\ Ceiling[host] \in Nat /\ run.budget \in 0..Ceiling[host]
        /\ run.activity \in Nat
    BY Ceilings
  <2> QED BY <2>1 DEF IInv, Balance, CeilingHolds
<1> QED BY <1>1, Invariance, PTL

(* The oracle rows that the log's record of a run claims, by its count of    *)
(* steps and the row it was written at, are exactly the rows of that run, on *)
(* the step numbers the record implies, whatever ended the run.              *)
THEOREM SpanFaithful == Spec => []SpanIsTheMacro
<1>1. IInv => SpanIsTheMacro
  <2> SUFFICES ASSUME IInv, host # "nds", NEW i \in 1..Len(log)
               PROVE  LET r == log[i]
                          mine == {j \in 1..Len(rows) : rows[j].by = r.call}
                      IN  /\ mine = r.at - r.used + 1..r.at
                          /\ \A j \in mine : rows[j].step = r.step - (r.at - j)
    BY DEF SpanIsTheMacro
  <2> DEFINE c == log[i].call
             at == log[i].at
             used == log[i].used
             upto == log[i].step
  <2>1. log[i] \in Records /\ Len(rows) \in Nat
    BY DEF IInv, TypeInv
  <2>2. at \in Nat /\ used \in Nat /\ upto \in Nat
    BY <2>1 DEF Records
  <2>3. Span(rows, c, at, used, upto)
    BY DEF IInv, Spans
  <2> HIDE DEF c, at, used, upto
  <2>4. /\ {j \in 1..Len(rows) : rows[j].by = c} = at - used + 1..at
        /\ \A j \in {k \in 1..Len(rows) : rows[k].by = c} :
             rows[j].step = upto - (at - j)
    BY <2>1, <2>2, <2>3 DEF Span
  <2> QED BY <2>4 DEF c, at, used, upto
<1> QED BY <1>1, Invariance, PTL

-----------------------------------------------------------------------------
(* What the loops' counters say of the trail.                                *)
Whens == [kind : STRING, n : Nat \ {0}]

(* The streak of the session, as far as a threshold may ask for it.          *)
Streak ==
  host = "arc" =>
    \A n \in 1..MaxThreshold :
      unchanged >= n <=>
        /\ Len(trail) >= n
        /\ \A i \in Len(trail) - n + 1..Len(trail) : trail[i].outs = <<"same">>

(* Of what a loop has heard since from, the last idle samples upto q were    *)
(* low and no others just before them.                                       *)
Idles(heard, from, q, idle) ==
  /\ idle \in Nat /\ from + idle <= q
  /\ LowUpto(heard, q, idle)
  /\ from + idle < q => heard[q - idle] # "low"
HeardIdle(steps, from, idle) ==
  Idles(HeardAt(steps, Len(steps)), Len(HeardAt(steps, from)),
        Len(HeardAt(steps, Len(steps))), idle)

(* The loop that run r stands in began at r.from and has not ended since.    *)
InLoop(steps, r, b) ==
  /\ r.from + r.iter * Len(b.body) + r.inner = Len(steps) + 1
  /\ r.iter < b.iters
  /\ TotalAt(steps, Len(steps)) = TotalAt(steps, r.from) + r.used
  /\ host = "nds" => HeardIdle(steps, r.from, r.idle)
  /\ \A j \in r.from + 1..Len(steps) : ~MeansIn(steps, b.when, r.from, j)

(* A loop that has ended, ended at the first hit or after its passes.        *)
Ended(steps, l) ==
  /\ l.block.when \in Whens /\ Len(l.block.body) > 0
  /\ l.from < l.to /\ l.to <= Len(steps)
  /\ l.iterations > 0
  /\ l.from + (l.iterations - 1) * Len(l.block.body) < l.to
  /\ l.fired <=> MeansIn(steps, l.block.when, l.from, l.to)
  /\ \A j \in l.from + 1..l.to - 1 : ~MeansIn(steps, l.block.when, l.from, j)
  /\ ~l.fired =>
       \/ l.to = l.from + l.block.iters * Len(l.block.body)
       \/ host = "nds" /\ l.spent
AllEnded(steps, loops) == \A k \in 1..Len(loops) : Ended(steps, loops[k])

LoopInv ==
  /\ skill # <<>> => Valid(skill)
  /\ Streak
  /\ Unit /\ ~Plain(Block) => InLoop(trail, run, Block)
  /\ running => AllEnded(trail, run.loops)
  /\ \A i \in 1..Len(log) : AllEnded(trail, log[i].loops)

Extends(u, t) == Len(t) <= Len(u) /\ \A i \in 1..Len(t) : u[i] = t[i]

(* What a stop_when meant stays so while the trail grows.                    *)
LEMMA MeansStays ==
  ASSUME NEW t \in Seq(Entries), NEW u \in Seq(Entries), Extends(u, t),
         NEW w, w.n \in Nat, NEW upto \in 1..Len(t), NEW from \in 0..upto
  PROVE  MeansIn(u, w, from, upto) <=> MeansIn(t, w, from, upto)
<1>1. u[upto] = t[upto] /\ Len(t) \in Nat
  BY DEF Extends
<1>2. TotalAt(u, from) = TotalAt(t, from) /\ HeardAt(u, from) = HeardAt(t, from)
  <2>1. CASE from = 0
    BY <2>1 DEF TotalAt, HeardAt
  <2>2. CASE from # 0
    <3>1. u[from] = t[from]
      BY <1>1, <2>2 DEF Extends
    <3> QED BY <2>2, <3>1 DEF TotalAt, HeardAt
  <2> QED BY <2>1, <2>2
<1>3. ASSUME upto >= w.n
      PROVE  \A i \in upto - w.n + 1..upto : u[i] = t[i]
  BY <1>1, <1>3 DEF Extends
<1>4. (upto >= w.n /\ \A i \in upto - w.n + 1..upto : u[i].outs = <<"same">>)
      <=> (upto >= w.n /\ \A i \in upto - w.n + 1..upto : t[i].outs = <<"same">>)
  BY <1>3
<1> QED BY <1>1, <1>2, <1>4, Zenon DEF MeansIn

LEMMA EndedStays ==
  ASSUME NEW t \in Seq(Entries), NEW u \in Seq(Entries), Extends(u, t),
         NEW l \in LoopRecords, Ended(t, l)
  PROVE  Ended(u, l)
<1> DEFINE w == l.block.when
           from == l.from
           to == l.to
<1>1. /\ w \in Whens /\ from \in Nat /\ to \in Nat /\ from < to /\ to <= Len(t)
      /\ Len(t) \in Nat /\ Len(u) \in Nat /\ Len(t) <= Len(u)
  BY DEF Ended, LoopRecords, Extends
<1>2. w.n \in Nat
  BY <1>1 DEF Whens
<1>3. /\ l.fired <=> MeansIn(t, w, from, to)
      /\ \A j \in from + 1..to - 1 : ~MeansIn(t, w, from, j)
  BY DEF Ended
<1> HIDE DEF w, from, to
<1>4. ASSUME NEW j \in from + 1..to
      PROVE  MeansIn(u, w, from, j) <=> MeansIn(t, w, from, j)
  <2>1. j \in 1..Len(t) /\ from \in 0..j
    BY <1>1
  <2> QED BY <1>2, <2>1, MeansStays
<1>5. l.fired <=> MeansIn(u, w, from, to)
  <2>1. to \in from + 1..to
    BY <1>1
  <2> QED BY <1>3, <1>4, <2>1
<1>6. \A j \in from + 1..to - 1 : ~MeansIn(u, w, from, j)
  <2>1. \A j \in from + 1..to - 1 : j \in from + 1..to
    BY <1>1
  <2> QED BY <1>3, <1>4, <2>1
<1>7. to <= Len(u)
  BY <1>1
<1> QED BY <1>5, <1>6, <1>7 DEF Ended, w, from, to

LEMMA AllEndedStays ==
  ASSUME NEW t \in Seq(Entries), NEW u \in Seq(Entries), Extends(u, t),
         NEW loops \in Loops, AllEnded(t, loops)
  PROVE  AllEnded(u, loops)
<1>1. ASSUME NEW k \in 1..Len(loops)
      PROVE  Ended(u, loops[k])
  <2>1. loops[k] \in LoopRecords
    BY DEF Loops
  <2>2. Ended(t, loops[k])
    BY DEF AllEnded
  <2> QED BY <2>1, <2>2, EndedStays
<1> QED BY <1>1 DEF AllEnded

LEMMA AllEndedAppended ==
  ASSUME NEW t, NEW loops \in Loops, NEW l \in LoopRecords,
         AllEnded(t, loops), Ended(t, l)
  PROVE  AllEnded(t, Append(loops, l))
<1>1. loops \in Seq(LoopRecords) /\ Len(loops) \in Nat
  BY DEF Loops
<1>2. /\ Len(Append(loops, l)) = Len(loops) + 1
      /\ Append(loops, l)[Len(loops) + 1] = l
      /\ \A k \in 1..Len(loops) : Append(loops, l)[k] = loops[k]
  BY <1>1
<1>3. ASSUME NEW k \in 1..Len(Append(loops, l))
      PROVE  Ended(t, Append(loops, l)[k])
  <2>1. k = Len(loops) + 1 \/ k \in 1..Len(loops)
    BY <1>1, <1>2
  <2>2. CASE k = Len(loops) + 1
    BY <1>2, <2>2
  <2>3. CASE k \in 1..Len(loops)
    <3>1. Ended(t, loops[k])
      BY <2>3 DEF AllEnded
    <3> QED BY <1>2, <2>3, <3>1
  <2> QED BY <2>1, <2>2, <2>3
<1> QED BY <1>3 DEF AllEnded

(* What validation has made sure of in a stored skill.                       *)
LEMMA BlockFacts ==
  ASSUME IInv, LoopInv, NEW i \in 1..Len(skill), ~Plain(skill[i])
  PROVE  /\ skill[i].when \in Whens /\ skill[i].when.kind \in Kinds[host]
         /\ skill[i].iters \in Nat \ {0}
         /\ host # "nds" => skill[i].when.n <= MaxThreshold
<1> DEFINE b == skill[i]
<1>1. b \in Blocks /\ b.body \in Seq(Steps)
  BY SkillFacts
<1>2. skill # <<>>
  BY DEF IInv, TypeInv
<1>3. Valid(skill)
  BY <1>2 DEF LoopInv
<1>4. b.iters \in 1..MaxIters /\ WhenOK(b.when)
  BY <1>3 DEF Valid
<1>5. b.when # NoLoop
  BY DEF Plain
<1>6. b.when \in {NoLoop} \cup [kind : STRING, n : Nat] /\ b.iters \in Nat
  BY <1>1 DEF Blocks
<1> HIDE DEF b
<1>7. b.when \in [kind : STRING, n : Nat]
  BY <1>5, <1>6
<1>8. b.when.kind \in Kinds[host] /\ b.when.n >= 1
      /\ (host # "nds" => b.when.n <= MaxThreshold)
  BY <1>4 DEF WhenOK
<1>9. b.when \in Whens
  BY <1>7, <1>8 DEF Whens
<1>10. b.iters \in Nat \ {0}
  BY <1>4, <1>6
<1> QED BY <1>8, <1>9, <1>10 DEF b

(* A loop begins.                                                            *)
LEMMA LoopBegins ==
  ASSUME IInv, LoopInv, NEW t \in Seq(Entries), NEW r \in Runs,
         r.top \in 1..Len(skill), ~Plain(skill[r.top]), r.from = Len(t),
         r.inner = 1, r.iter = 0, r.used = 0, r.idle = 0
  PROVE  InLoop(t, r, skill[r.top])
<1> DEFINE b == skill[r.top]
           n == Len(b.body)
<1>1. b.iters \in Nat \ {0} /\ Len(t) \in Nat
  BY BlockFacts
<1>2. n \in Nat
  BY SkillFacts
<1> HIDE DEF b, n
<1>3. r.from + r.iter * n + r.inner = Len(t) + 1 /\ r.iter < b.iters
  BY <1>1, <1>2
<1>4. /\ TotalAt(t, Len(t)) \in Nat /\ HeardAt(t, Len(t)) \in Seq(Outcomes)
      /\ Len(HeardAt(t, Len(t))) \in Nat
  BY <1>1, AtFacts
<1>5. TotalAt(t, Len(t)) = TotalAt(t, r.from) + r.used
  BY <1>4
<1>6. HeardIdle(t, r.from, r.idle)
  BY <1>4 DEF HeardIdle, Idles, LowUpto
<1>7. \A j \in r.from + 1..Len(t) : ~MeansIn(t, b.when, r.from, j)
  BY <1>1
<1> QED BY <1>3, <1>5, <1>6, <1>7 DEF InLoop, b, n

(* The interpreter goes on to a block with the loops that have ended.        *)
Goes(t, q) ==
  /\ q.stop = "going" /\ ~Plain(skill[q.top]) => InLoop(t, q, skill[q.top])
  /\ AllEnded(t, q.loops)

LEMMA NextBlockGoes ==
  ASSUME IInv, LoopInv, trail' \in Seq(Entries),
         NEW r \in Runs, r.stop = "going", r.top \in 1..Len(skill),
         AllEnded(trail', r.loops)
  PROVE  Goes(trail', NextBlock(r))
<1>1. CASE r.top = Len(skill)
  <2> DEFINE q == [r EXCEPT !.stop = "end"]
  <2>1. q.stop = "end" /\ q.loops = r.loops
    BY DEF Runs
  <2>2. NextBlock(r) = q
    BY <1>1 DEF NextBlock
  <2> QED BY <2>1, <2>2 DEF Goes
<1>2. CASE r.top # Len(skill)
  <2> DEFINE h == [r EXCEPT !.top = r.top + 1, !.inner = 1, !.iter = 0]
             q == [h EXCEPT !.used = 0, !.idle = 0, !.from = Len(trail')]
  <2>1. r.top + 1 \in Nat /\ Len(trail') \in Nat
    BY RunFields
  <2>2. h \in Runs
    BY <2>1, SetFields
  <2>3. q \in Runs
    BY <2>1, <2>2, SetFields
  <2>4. /\ q.loops = r.loops /\ q.stop = r.stop /\ q.top = r.top + 1
        /\ q.inner = 1 /\ q.iter = 0
    BY DEF Runs
  <2>5. q.used = 0 /\ q.idle = 0 /\ q.from = Len(trail')
    BY <2>1 DEF Runs
  <2>6. NextBlock(r) = [r EXCEPT !.top = @ + 1, !.inner = 1, !.iter = 0,
                                 !.used = 0, !.idle = 0, !.from = Len(trail')]
    BY <1>2 DEF NextBlock
  <2>7. NextBlock(r) = q
    BY <2>6
  <2> HIDE DEF h, q
  <2>8. q.top \in 1..Len(skill)
    BY <1>2, <2>4, SkillFacts
  <2>9. ~Plain(skill[q.top]) => InLoop(trail', q, skill[q.top])
    BY <2>3, <2>4, <2>5, <2>8, LoopBegins
  <2> QED BY <2>4, <2>7, <2>9 DEF Goes
<1> QED BY <1>1, <1>2

(* A loop ends for a reason: its stop_when holds for the first time, or its  *)
(* passes, or on nds the frames, are used up.                                *)
LEMMA SummarisedGoes ==
  ASSUME IInv, LoopInv, Unit, ~Plain(Block), trail' \in Seq(Entries),
         NEW r \in Runs, r.stop = "going", r.top \in 1..Len(skill),
         AllEnded(trail', r.loops), NEW fired \in BOOLEAN,
         r.from < Len(trail'),
         r.from + r.iter * Len(Block.body) < Len(trail'),
         fired <=> MeansIn(trail', Block.when, r.from, Len(trail')),
         \A j \in r.from + 1..Len(trail') - 1 :
           ~MeansIn(trail', Block.when, r.from, j),
         ~fired => \/ Len(trail') = r.from + Block.iters * Len(Block.body)
                   \/ host = "nds" /\ r.budget = 0
  PROVE  Goes(trail', Summarised(r, fired))
<1> DEFINE spent == (r.budget = 0)
           upto == Len(trail')
           i == r.iter + 1
           l == [block |-> Block, fired |-> fired, iterations |-> i,
                 from |-> r.from, to |-> upto, spent |-> spent]
           loops == Append(r.loops, l)
           q == [r EXCEPT !.loops = loops]
<1>0. spent \in BOOLEAN /\ (spent <=> r.budget = 0)
  BY Zenon
<1>1. /\ i \in Nat /\ i > 0 /\ i - 1 = r.iter /\ r.from \in Nat /\ upto \in Nat
      /\ r.loops \in Loops /\ r.iter \in Nat
  BY RunFields
<1>2. Block = skill[run.top] /\ run.top \in 1..Len(skill)
  BY DEF IInv, Placed, At, Block
<1>3. Block \in Blocks /\ Block.when \in Whens /\ Len(Block.body) > 0
  BY <1>2, SkillFacts, BlockFacts
<1>4. Summarised(r, fired) = NextBlock(q)
  BY Zenon DEF Summarised
<1>5. ~fired => \/ upto = r.from + Block.iters * Len(Block.body)
                \/ host = "nds" /\ spent
  BY <1>0
<1>a. fired <=> MeansIn(trail', Block.when, r.from, upto)
  BY Zenon
<1> HIDE DEF spent, upto, i
<1>6. l \in LoopRecords
  BY <1>0, <1>1, <1>3 DEF LoopRecords
<1>7. /\ l.block = Block /\ l.iterations = i
      /\ l.from = r.from /\ l.to = upto
  BY <1>0
<1>8. (l.fired <=> fired) /\ (l.spent <=> spent)
  BY <1>0
<1> HIDE DEF l
<1>9. Ended(trail', l)
  <2>1. r.from + (i - 1) * Len(Block.body) < upto
    BY <1>1 DEF upto
  <2>2. l.from < l.to /\ l.to <= Len(trail')
    BY <1>1, <1>7 DEF upto
  <2>3. l.fired <=> MeansIn(trail', l.block.when, l.from, l.to)
    BY <1>7, <1>8, <1>a, Zenon
  <2>4. \A j \in l.from + 1..l.to - 1 : ~MeansIn(trail', l.block.when, l.from, j)
    BY <1>7 DEF upto
  <2>5. ~l.fired =>
          \/ l.to = l.from + l.block.iters * Len(l.block.body)
          \/ host = "nds" /\ l.spent
    BY <1>5, <1>7, <1>8
  <2>6. l.iterations > 0 /\ l.from + (l.iterations - 1) * Len(l.block.body) < l.to
    BY <1>1, <1>7, <2>1
  <2> QED BY <1>3, <1>7, <2>2, <2>3, <2>4, <2>5, <2>6 DEF Ended
<1>10. AllEnded(trail', loops) /\ loops \in Loops
  <2>1. AllEnded(trail', loops)
    BY <1>1, <1>6, <1>9, AllEndedAppended
  <2>2. loops \in Loops
    BY <1>1, <1>6 DEF Loops
  <2> QED BY <2>1, <2>2
<1> HIDE DEF loops
<1>11. q \in Runs
  BY <1>10, SetLoops
<1>12. q.stop = "going" /\ q.top = r.top /\ q.loops = loops
  BY DEF Runs
<1> HIDE DEF q
<1> QED BY <1>4, <1>10, <1>11, <1>12, NextBlockGoes

(* A step in a loop that leaves its stop_when unmet.                         *)
LEMMA NextInLoopGoes ==
  ASSUME IInv, LoopInv, Unit, ~Plain(Block), trail' \in Seq(Entries),
         NEW r \in Runs, r.stop = "going", r.top = run.top,
         r.inner = run.inner, r.iter < Block.iters,
         AllEnded(trail', r.loops),
         r.from + r.iter * Len(Block.body) + r.inner = Len(trail'),
         TotalAt(trail', Len(trail')) = TotalAt(trail', r.from) + r.used,
         host = "nds" =>
           HeardIdle(trail', r.from, r.idle),
         \A j \in r.from + 1..Len(trail') : ~MeansIn(trail', Block.when, r.from, j)
  PROVE  Goes(trail', NextInLoop(r))
<1> DEFINE n == Len(Block.body)
           p == r.iter * n
<1>1. /\ r.top \in 1..Len(skill) /\ Block = skill[r.top]
      /\ r.inner \in 1..n /\ n \in Nat \ {0}
  BY SkillFacts DEF IInv, Placed, At, Block
<1>2. /\ Block.iters \in Nat \ {0} /\ r.iter \in Nat /\ r.from \in Nat
      /\ Len(trail') \in Nat /\ r.budget \in Nat
  BY <1>1, RunFields, BlockFacts
<1>3. p \in Nat /\ (r.iter + 1) * n = p + n /\ r.from + p + r.inner = Len(trail')
  <2>1. \A a \in Nat, c \in Nat : a * c \in Nat /\ (a + 1) * c = a * c + c
    OBVIOUS
  <2> QED BY <1>1, <1>2, <2>1
<1>4. r.from < Len(trail') /\ r.from + r.iter * n < Len(trail')
  BY <1>1, <1>2, <1>3
<1>5. ~MeansIn(trail', Block.when, r.from, Len(trail'))
  <2> DEFINE upto == Len(trail')
  <2>1. upto \in r.from + 1..upto
    BY <1>2, <1>4
  <2>2. \A j \in r.from + 1..upto : ~MeansIn(trail', Block.when, r.from, j)
    OBVIOUS
  <2> HIDE DEF upto
  <2>3. ~MeansIn(trail', Block.when, r.from, upto)
    BY <2>1, <2>2
  <2> QED BY <2>3 DEF upto
<1>6. \A j \in r.from + 1..Len(trail') - 1 :
        ~MeansIn(trail', Block.when, r.from, j)
  BY <1>2
<1>7. ASSUME \/ Len(trail') = r.from + Block.iters * n
             \/ host = "nds" /\ r.budget = 0
      PROVE  Goes(trail', Summarised(r, FALSE))
  <2>1. \A fired \in BOOLEAN : fired = FALSE => Goes(trail', Summarised(r, fired))
    <3> SUFFICES ASSUME NEW fired \in BOOLEAN, ~fired
                 PROVE  Goes(trail', Summarised(r, fired))
      OBVIOUS
    <3> QED BY <1>1, <1>4, <1>5, <1>6, <1>7, SummarisedGoes
  <2> QED BY <2>1, Zenon
<1>8. CASE host = "nds" /\ r.budget = 0
  <2>1. NextInLoop(r) = Summarised(r, FALSE)
    BY <1>8, Zenon DEF NextInLoop
  <2> QED BY <1>7, <1>8, <2>1
<1>9. ASSUME NEW q \in Runs, q.stop = "going", q.top = r.top, q.from = r.from,
             q.used = r.used, q.idle = r.idle, q.loops = r.loops,
             q.from + q.iter * n + q.inner = Len(trail') + 1, q.iter < Block.iters
      PROVE  Goes(trail', q)
  <2>1. q.from + q.iter * Len(Block.body) + q.inner = Len(trail') + 1
    BY <1>9
  <2>2. InLoop(trail', q, Block)
    BY <1>9, <2>1, Zenon DEF InLoop
  <2>3. skill[q.top] = Block
    BY <1>1, <1>9
  <2> QED BY <1>9, <2>2, <2>3, Zenon DEF Goes
<1>10. CASE ~(host = "nds" /\ r.budget = 0) /\ r.inner < n
  <2> DEFINE q == [r EXCEPT !.inner = r.inner + 1]
  <2>1. r.inner + 1 \in Nat
    BY RunFields
  <2>2. q \in Runs
    BY <2>1, SetFields
  <2>3. /\ q.stop = "going" /\ q.top = r.top /\ q.from = r.from
        /\ q.used = r.used /\ q.idle = r.idle /\ q.loops = r.loops
    BY DEF Runs
  <2>4. q.iter = r.iter /\ q.inner = r.inner + 1
    BY DEF Runs
  <2>5. NextInLoop(r) = q
    BY <1>10, Zenon DEF NextInLoop
  <2> HIDE DEF q
  <2>6. q.from + q.iter * n + q.inner = Len(trail') + 1
    <3>1. q.iter * n = p /\ p \in Nat /\ r.from + p + r.inner = Len(trail')
      BY <1>3, <2>4
    <3> HIDE DEF p, n
    <3>2. p \in Nat /\ r.from \in Nat /\ r.inner \in Nat
      BY <3>1, RunFields
    <3>3. q.from = r.from /\ q.inner = r.inner + 1
      BY <2>3, <2>4
    <3>4. q.from + p + q.inner = Len(trail') + 1
      BY <3>1, <3>2, <3>3
    <3> QED BY <3>1, <3>4 DEF n
  <2> QED BY <1>9, <2>2, <2>3, <2>4, <2>5, <2>6
<1>11. CASE /\ ~(host = "nds" /\ r.budget = 0) /\ ~(r.inner < n)
            /\ r.iter + 1 < Block.iters
  <2> DEFINE q == [r EXCEPT !.inner = 1, !.iter = r.iter + 1]
  <2>1. r.iter + 1 \in Nat
    BY RunFields
  <2>2. q \in Runs
    BY <2>1, SetFields
  <2>3. /\ q.stop = "going" /\ q.top = r.top /\ q.from = r.from
        /\ q.used = r.used /\ q.idle = r.idle /\ q.loops = r.loops
    BY DEF Runs
  <2>4. q.iter = r.iter + 1 /\ q.inner = 1
    BY DEF Runs
  <2>5. NextInLoop(r) = q
    BY <1>11, Zenon DEF NextInLoop
  <2> HIDE DEF q
  <2>6. q.from + q.iter * n + q.inner = Len(trail') + 1
    <3>1. q.iter * n = p + n
      BY <1>3, <2>4
    <3>2. r.inner = n
      BY <1>1, <1>11
    <3>3. r.from + p + n = Len(trail') /\ p \in Nat /\ n \in Nat
      BY <1>1, <1>3, <3>2
    <3> HIDE DEF p, n
    <3>4. q.from + (p + n) + q.inner = Len(trail') + 1
      BY <1>2, <2>3, <2>4, <3>3
    <3> QED BY <3>1, <3>4 DEF n
  <2>7. q.iter < Block.iters
    BY <1>11, <2>4
  <2> QED BY <1>9, <2>2, <2>3, <2>5, <2>6, <2>7
<1>12. CASE /\ ~(host = "nds" /\ r.budget = 0) /\ ~(r.inner < n)
            /\ ~(r.iter + 1 < Block.iters)
  <2>1. NextInLoop(r) = Summarised(r, FALSE)
    BY <1>12, Zenon DEF NextInLoop
  <2>2. r.inner = n /\ r.iter + 1 = Block.iters
    BY <1>1, <1>2, <1>12
  <2>3. Block.iters * n = p + n
    BY <1>3, <2>2
  <2>4. Len(trail') = r.from + Block.iters * n
    <3>1. r.from + p + n = Len(trail') /\ p \in Nat /\ n \in Nat
      BY <1>1, <1>3, <2>2
    <3> HIDE DEF p, n
    <3>2. Len(trail') = r.from + (p + n)
      BY <1>2, <3>1
    <3> QED BY <2>3, <3>2
  <2> QED BY <1>7, <2>1, <2>4
<1> QED BY <1>8, <1>10, <1>11, <1>12

(* A step that succeeded, with what the port reads of it.                    *)
LEMMA AfterGoes ==
  ASSUME IInv, LoopInv, Unit, trail' \in Seq(Entries), Extends(trail', trail),
         Len(trail') = Len(trail) + 1,
         NEW cost \in 0..run.budget, NEW idle \in Nat, NEW fires \in BOOLEAN,
         After(Counted(cost, idle), fires),
         TotalAt(trail', Len(trail')) = TotalAt(trail, Len(trail)) + cost,
         ~Plain(Block) =>
           /\ fires <=> MeansIn(trail', Block.when, run.from, Len(trail'))
           /\ host = "nds" => HeardIdle(trail', run.from, idle)
  PROVE  Goes(trail', run')
<1> DEFINE r == Counted(cost, idle)
           n == Len(Block.body)
<1>1. /\ run \in Runs /\ run.stop = "going" /\ running /\ run.budget \in Nat
      /\ trail \in Seq(Entries) /\ Len(trail) \in Nat
  BY RunFields DEF IInv, TypeInv, Unit
<1>2. /\ r \in Runs /\ r.stop = "going" /\ r.top = run.top /\ r.inner = run.inner
      /\ r.iter = run.iter /\ r.from = run.from /\ r.loops = run.loops
      /\ r.used = run.used + cost /\ r.idle = idle
  <2> DEFINE h == [run EXCEPT !.budget = run.budget - cost, !.ok = run.ok + 1]
             q == [h EXCEPT !.used = run.used + cost, !.idle = idle,
                            !.activity = run.activity + cost]
  <2>1. /\ run.budget - cost \in Nat /\ run.ok + 1 \in Nat
        /\ run.used + cost \in Nat /\ run.activity + cost \in Nat
    BY <1>1, RunFields
  <2>2. h \in Runs
    BY <1>1, <2>1, SetFields
  <2>3. q \in Runs
    BY <2>1, <2>2, SetFields
  <2>4. r = q
    BY DEF Counted
  <2>5. q.stop = run.stop /\ q.top = run.top /\ q.inner = run.inner
    BY <1>1 DEF Runs
  <2>6. q.iter = run.iter /\ q.from = run.from /\ q.loops = run.loops
    BY <1>1 DEF Runs
  <2>7. q.used = run.used + cost /\ q.idle = idle
    BY <1>1 DEF Runs
  <2> QED BY <1>1, <2>3, <2>4, <2>5, <2>6, <2>7
<1>3. run' = IF Plain(Block) THEN NextBlock(r)
             ELSE IF fires THEN Summarised(r, TRUE) ELSE NextInLoop(r)
  BY Zenon DEF After
<1> HIDE DEF r
<1>4. /\ run.top \in 1..Len(skill) /\ Block = skill[run.top]
      /\ run.inner \in 1..n /\ n \in Nat \ {0}
  BY SkillFacts DEF IInv, Placed, At, Block
<1>5. AllEnded(trail', run.loops)
  <2>1. AllEnded(trail, run.loops) /\ run.loops \in Loops
    BY <1>1, RunFields DEF LoopInv
  <2> QED BY <1>1, <2>1, AllEndedStays
<1>6. CASE Plain(Block)
  <2>1. run' = NextBlock(r)
    BY <1>3, <1>6
  <2> QED BY <1>2, <1>4, <1>5, <2>1, NextBlockGoes
<1>7. CASE ~Plain(Block)
  <2> DEFINE w == Block.when
             from == run.from
  <2>1. InLoop(trail, run, Block)
    BY <1>7 DEF LoopInv
  <2>2. /\ from \in Nat /\ run.iter \in Nat /\ run.used \in Nat
        /\ run.iter * n \in Nat
    <3>1. \A a \in Nat, c \in Nat : a * c \in Nat
      OBVIOUS
    <3> QED BY <1>1, <1>4, <3>1, RunFields
  <2>3. /\ from + run.iter * n + run.inner = Len(trail')
        /\ run.iter < Block.iters
    BY <1>1, <2>1 DEF InLoop
  <2>4. from <= Len(trail) /\ from < Len(trail') /\ from + run.iter * n < Len(trail')
    <3> DEFINE p == run.iter * n
    <3>1. p \in Nat /\ from + p + run.inner = Len(trail) + 1
      BY <1>1, <2>2, <2>3
    <3>2. run.inner \in Nat /\ run.inner >= 1 /\ from \in Nat
      BY <1>4, <2>2
    <3> HIDE DEF p, from
    <3>3. from <= Len(trail) /\ from < Len(trail') /\ from + p < Len(trail')
      BY <1>1, <3>1, <3>2
    <3> QED BY <3>3 DEF p, from
  <2>5. w \in Whens /\ w.n \in Nat
    BY <1>4, <1>7, BlockFacts DEF Whens
  <2>6. \A j \in from + 1..Len(trail) : ~MeansIn(trail', w, from, j)
    <3> SUFFICES ASSUME NEW j \in from + 1..Len(trail)
                 PROVE  ~MeansIn(trail', w, from, j)
      OBVIOUS
    <3>1. ~MeansIn(trail, w, from, j)
      BY <2>1 DEF InLoop
    <3>2. j \in 1..Len(trail) /\ from \in 0..j
      BY <1>1, <2>2
    <3> HIDE DEF w, from
    <3> QED BY <1>1, <2>5, <3>1, <3>2, MeansStays
  <2>7. /\ fires <=> MeansIn(trail', w, from, Len(trail'))
        /\ host = "nds" => HeardIdle(trail', from, idle)
    BY <1>7
  <2>8. CASE fires
    <3>1. run' = Summarised(r, TRUE)
      BY <1>3, <1>7, <2>8
    <3>2. \A fired \in BOOLEAN : fired = TRUE => Goes(trail', Summarised(r, fired))
      <4> SUFFICES ASSUME NEW fired \in BOOLEAN, fired
                   PROVE  Goes(trail', Summarised(r, fired))
        OBVIOUS
      <4>1. fired <=> MeansIn(trail', Block.when, r.from, Len(trail'))
        BY <1>2, <2>7, <2>8
      <4>2. \A j \in r.from + 1..Len(trail') - 1 :
              ~MeansIn(trail', Block.when, r.from, j)
        BY <1>1, <1>2, <2>6
      <4>3. r.top \in 1..Len(skill) /\ AllEnded(trail', r.loops)
        BY <1>2, <1>4, <1>5
      <4>4. /\ r.from < Len(trail')
            /\ r.from + r.iter * Len(Block.body) < Len(trail')
        BY <1>2, <2>4
      <4> QED BY <1>2, <1>7, <4>1, <4>2, <4>3, <4>4, SummarisedGoes
    <3> QED BY <3>1, <3>2, Zenon
  <2>9. CASE ~fires
    <3>1. run' = NextInLoop(r)
      BY <1>3, <1>7, <2>9
    <3>2. \A j \in r.from + 1..Len(trail') : ~MeansIn(trail', Block.when, r.from, j)
      <4>1. ~MeansIn(trail', w, from, Len(trail'))
        BY <2>7, <2>9
      <4>2. \A j \in from + 1..Len(trail') : j \in from + 1..Len(trail) \/ j = Len(trail')
        BY <1>1, <2>2
      <4> QED BY <1>2, <2>6, <4>1, <4>2
    <3>3. TotalAt(trail', Len(trail')) = TotalAt(trail', r.from) + r.used
      <4>1. TotalAt(trail', from) = TotalAt(trail, from)
        <5>1. CASE from = 0
          BY <5>1 DEF TotalAt
        <5>2. CASE from # 0
          <6>1. trail'[from] = trail[from]
            BY <2>2, <2>4, <5>2 DEF Extends
          <6> QED BY <5>2, <6>1 DEF TotalAt
        <5> QED BY <5>1, <5>2
      <4>2. TotalAt(trail, Len(trail)) = TotalAt(trail, from) + run.used
        BY <2>1 DEF InLoop
      <4>3. TotalAt(trail, from) \in Nat
        BY <1>1, <2>2, <2>4, AtFacts
      <4> QED BY <1>1, <1>2, <2>2, <4>1, <4>2, <4>3
    <3>4. host = "nds" => HeardIdle(trail', r.from, r.idle)
      BY <1>2, <2>7
    <3>5. /\ r.iter < Block.iters /\ AllEnded(trail', r.loops)
          /\ r.from + r.iter * Len(Block.body) + r.inner = Len(trail')
      BY <1>2, <1>5, <2>3
    <3>6. Goes(trail', NextInLoop(r))
      BY <1>2, <1>7, <3>2, <3>3, <3>4, <3>5, NextInLoopGoes
    <3> QED BY <3>1, <3>6
  <2> QED BY <2>8, <2>9
<1> QED BY <1>6, <1>7

LEMMA LowAt ==
  ASSUME NEW heard, NEW q, NEW n, LowUpto(heard, q, n), NEW j \in q - n + 1..q
  PROVE  heard[j] = "low"
BY DEF LowUpto

LEMMA LowLess ==
  ASSUME NEW heard, NEW q \in Nat, NEW n \in Nat, LowUpto(heard, q, n),
         NEW k \in 0..n
  PROVE  LowUpto(heard, q, k)
BY DEF LowUpto

(* The streak after sample i is the number of low samples that end there,    *)
(* with the streak before them if these are all the samples there were.      *)
IsStreak(samples, before, i, streak) ==
  \E m \in 0..i :
    /\ \A k \in i - m + 1..i : samples[k] = "low"
    /\ m < i => samples[i - m] # "low"
    /\ streak = m + IF m = i THEN before ELSE 0

LEMMA StreakFound ==
  ASSUME NEW n \in Nat, NEW samples \in [1..n -> {"low", "high"}],
         NEW before \in Nat, NEW i \in 0..n
  PROVE  IsStreak(samples, before, i, Streaks(samples, before)[i])
<1> DEFINE S == {k \in 1..i : \A j \in k..i : samples[j] = "low"}
           m == Cardinality(S)
           T == i - m + 1..i
<1>1. Len(samples) = n
  OBVIOUS
<1>2. Streaks(samples, before)[i] = m + IF m = i THEN before ELSE 0
  BY <1>1 DEF Streaks
<1>3. /\ IsFiniteSet(1..i) /\ Cardinality(1..i) = i
  BY FS_Interval
<1>4. S \subseteq 1..i
  OBVIOUS
<1>5. IsFiniteSet(S) /\ m \in 0..i
  <2>1. IsFiniteSet(S) /\ Cardinality(S) <= Cardinality(1..i)
    BY <1>3, <1>4, FS_Subset
  <2>2. m \in Nat
    BY <2>1, FS_CardinalityType
  <2> QED BY <1>3, <2>1, <2>2
<1>6. ASSUME NEW k \in S
      PROVE  k \in T
  <2>1. k \in 1..i /\ \A j \in k..i : samples[j] = "low"
    BY <1>6
  <2>2. k..i \subseteq S
    BY <2>1
  <2>3. Cardinality(k..i) = i - k + 1
    BY <2>1, FS_Interval
  <2>4. Cardinality(k..i) <= m
    BY <1>5, <2>2, FS_Subset
  <2> HIDE DEF m
  <2> QED BY <1>5, <2>1, <2>3, <2>4
<1>7. S = T
  <2>1. IsFiniteSet(T) /\ Cardinality(T) = m
    <3> HIDE DEF m
    <3>1. i - m + 1 \in Int /\ i \in Int
      BY <1>5
    <3>2. /\ IsFiniteSet(i - m + 1..i)
          /\ Cardinality(i - m + 1..i) =
               IF i - m + 1 > i THEN 0 ELSE i - (i - m + 1) + 1
      BY <3>1, FS_Interval
    <3> QED BY <1>5, <3>2
  <2>2. S \in SUBSET T
    BY <1>6
  <2>3. Cardinality(S) = Cardinality(T) <=> T = S
    BY <2>1, <2>2, FS_Subset
  <2> QED BY <2>1, <2>3
<1> HIDE DEF m
<1>8. \A k \in i - m + 1..i : samples[k] = "low"
  BY <1>5, <1>7
<1>9. m < i => samples[i - m] # "low"
  <2> SUFFICES ASSUME m < i, samples[i - m] = "low"
               PROVE  FALSE
    OBVIOUS
  <2>1. \A j \in i - m..i : samples[j] = "low"
    <3>1. \A j \in i - m..i : j = i - m \/ j \in i - m + 1..i
      BY <1>5
    <3> QED BY <1>8, <3>1
  <2>2. i - m \in 1..i
    BY <1>5
  <2>3. i - m \in S
    BY <2>1, <2>2
  <2>4. i - m \notin T
    BY <1>5
  <2> QED BY <1>7, <2>3, <2>4
<1> QED BY <1>2, <1>5, <1>8, <1>9 DEF IsStreak

(* What a loop has heard, with the samples of one more step: after each of   *)
(* them the streak is the number of low ones at the end, and it reaches n    *)
(* just when the last n of the loop were low.                                *)
LEMMA StreakHeard ==
  ASSUME NEW H \in Seq(Outcomes), NEW n \in Nat,
         NEW samples \in [1..n -> {"low", "high"}],
         NEW from \in Nat, NEW idle \in Nat, Idles(H, from, Len(H), idle),
         NEW i \in 0..n
  PROVE  Idles(H \o samples, from, Len(H) + i, Streaks(samples, idle)[i])
<1> DEFINE s == Streaks(samples, idle)[i]
           h == Len(H)
           q == h + i
           G == H \o samples
<1>1. /\ h \in Nat /\ from + idle <= h /\ LowUpto(H, h, idle)
      /\ from + idle < h => H[h - idle] # "low"
  BY DEF Idles
<1>2. samples \in Seq(Outcomes) /\ Len(samples) = n
  <2>1. {"low", "high"} \subseteq Outcomes
    BY DEF Outcomes
  <2>2. samples \in Seq({"low", "high"}) /\ Len(samples) = n
    OBVIOUS
  <2> QED BY <2>1, <2>2
<1>3. /\ \A j \in 1..h : G[j] = H[j]
      /\ \A j \in 1..n : G[h + j] = samples[j]
  BY <1>2
<1>a. IsStreak(samples, idle, i, s)
  BY StreakFound
<1>4. PICK m \in 0..i :
        /\ \A k \in i - m + 1..i : samples[k] = "low"
        /\ m < i => samples[i - m] # "low"
        /\ s = m + IF m = i THEN idle ELSE 0
  BY <1>a, Zenon DEF IsStreak
<1> HIDE DEF s, G, h
<1>5. \A j \in h + (i - m) + 1..h + i : G[j] = "low"
  <2> SUFFICES ASSUME NEW j \in h + (i - m) + 1..h + i
               PROVE  G[j] = "low"
    OBVIOUS
  <2>1. j - h \in i - m + 1..i /\ j - h \in 1..n /\ h + (j - h) = j
    BY <1>1
  <2> QED BY <1>3, <1>4, <2>1
<1>6. CASE m < i
  <2>1. s = m
    BY <1>4, <1>6
  <2>2. s \in Nat /\ from + s <= q
    BY <1>1, <1>6, <2>1
  <2>3. LowUpto(G, q, s)
    BY <1>1, <1>5, <2>1 DEF LowUpto
  <2>4. G[q - s] # "low"
    <3>1. i - m \in 1..n /\ q - s = h + (i - m)
      BY <1>1, <1>6, <2>1
    <3> QED BY <1>3, <1>4, <1>6, <3>1
  <2> QED BY <2>2, <2>3, <2>4 DEF Idles, s, G, h
<1>7. CASE m = i
  <2>1. s = i + idle
    BY <1>4, <1>7
  <2>2. s \in Nat /\ from + s <= q /\ q - s = h - idle
    BY <1>1, <2>1
  <2>3. LowUpto(G, q, s)
    <3> SUFFICES ASSUME NEW j \in q - s + 1..q
                 PROVE  G[j] = "low"
      BY DEF LowUpto
    <3>1. CASE j <= h
      <4>1. j \in 1..h /\ j \in h - idle + 1..h
        BY <1>1, <2>2, <3>1
      <4> QED BY <1>1, <1>3, <4>1 DEF LowUpto
    <3>2. CASE j > h
      <4>1. j \in h + (i - m) + 1..h + i
        BY <1>1, <1>7, <2>2, <3>2
      <4> QED BY <1>5, <4>1
    <3> QED BY <1>1, <2>2, <3>1, <3>2
  <2>4. ASSUME from + s < q
        PROVE  G[q - s] # "low"
    <3>1. from + idle < h /\ h - idle \in 1..h
      BY <1>1, <2>1, <2>4
    <3> QED BY <1>1, <1>3, <2>2, <3>1
  <2> QED BY <2>2, <2>3, <2>4 DEF Idles, s, G, h
<1> QED BY <1>6, <1>7

LEMMA IdlesReach ==
  ASSUME NEW heard, NEW from \in Nat, NEW q \in Nat, NEW idle,
         Idles(heard, from, q, idle), NEW k \in Nat
  PROVE  idle >= k <=> from + k <= q /\ LowUpto(heard, q, k)
<1>1. /\ idle \in Nat /\ from + idle <= q /\ LowUpto(heard, q, idle)
      /\ from + idle < q => heard[q - idle] # "low"
  BY DEF Idles
<1>2. ASSUME idle >= k
      PROVE  from + k <= q /\ LowUpto(heard, q, k)
  <2>1. k \in 0..idle
    BY <1>1, <1>2
  <2> QED BY <1>1, <2>1, LowLess
<1>3. ASSUME from + k <= q, LowUpto(heard, q, k), idle < k
      PROVE  FALSE
  <2>1. heard[q - idle] # "low"
    BY <1>1, <1>3
  <2>2. q - idle \in q - k + 1..q
    BY <1>1, <1>3
  <2> QED BY <1>3, <2>1, <2>2, LowAt
<1> QED BY <1>1, <1>2, <1>3

(* Some streak of a step reaches the threshold just when, in what the loop   *)
(* has heard, the threshold is reached with a sample of this step.           *)
LEMMA StreaksReach ==
  ASSUME NEW H \in Seq(Outcomes), NEW n \in Nat,
         NEW samples \in [1..n -> {"low", "high"}],
         NEW from \in Nat, NEW idle \in Nat, Idles(H, from, Len(H), idle),
         NEW k \in Nat \ {0},
         \A q \in from + k..Len(H) : ~LowUpto(H, q, k)
  PROVE  LET G == H \o samples
             streaks == Streaks(samples, idle)
         IN  /\ Idles(G, from, Len(G), streaks[n])
             /\ (\E i \in DOMAIN streaks \ {0} : streaks[i] >= k)
                  <=> \E q \in from + k..Len(G) : LowUpto(G, q, k)
<1> DEFINE streaks == Streaks(samples, idle)
           h == Len(H)
           G == H \o samples
<1>1. samples \in Seq(Outcomes) /\ Len(samples) = n
  <2>1. {"low", "high"} \subseteq Outcomes
    BY DEF Outcomes
  <2>2. samples \in Seq({"low", "high"}) /\ Len(samples) = n
    OBVIOUS
  <2> QED BY <2>1, <2>2
<1>2. h \in Nat /\ Len(G) = h + n /\ \A j \in 1..h : G[j] = H[j]
  BY <1>1
<1>3. DOMAIN streaks = 0..n
  BY <1>1 DEF Streaks
<1>4. ASSUME NEW i \in 0..n
      PROVE  Idles(G, from, h + i, streaks[i])
  BY StreakHeard
<1> HIDE DEF streaks, h, G
<1>5. Idles(G, from, Len(G), streaks[n])
  BY <1>2, <1>4
<1>6. ASSUME NEW i \in 0..n
      PROVE  streaks[i] >= k <=> from + k <= h + i /\ LowUpto(G, h + i, k)
  <2>1. Idles(G, from, h + i, streaks[i]) /\ h + i \in Nat
    BY <1>2, <1>4
  <2> QED BY <2>1, IdlesReach
<1>7. ASSUME NEW i \in DOMAIN streaks \ {0}, streaks[i] >= k
      PROVE  \E q \in from + k..Len(G) : LowUpto(G, q, k)
  <2>1. i \in 0..n
    BY <1>3
  <2>2. from + k <= h + i /\ LowUpto(G, h + i, k)
    BY <1>6, <1>7, <2>1
  <2>3. h + i \in from + k..Len(G)
    BY <1>2, <2>1, <2>2
  <2> QED BY <2>2, <2>3
<1>8. ASSUME NEW q \in from + k..Len(G), LowUpto(G, q, k)
      PROVE  \E i \in DOMAIN streaks \ {0} : streaks[i] >= k
  <2>1. q > h
    <3> SUFFICES ASSUME q <= h
                 PROVE  FALSE
      BY <1>2
    <3>1. q \in from + k..h
      BY <1>2
    <3>2. LowUpto(H, q, k)
      BY <1>2, <1>8, <3>1 DEF LowUpto
    <3> QED BY <3>1, <3>2 DEF h
  <2>2. q - h \in 0..n /\ q - h # 0 /\ h + (q - h) = q /\ from + k <= q
    BY <1>2, <2>1
  <2>3. streaks[q - h] >= k
    BY <1>6, <1>8, <2>2
  <2> QED BY <1>3, <2>2, <2>3
<1> QED BY <1>5, <1>7, <1>8 DEF streaks, G, h

(* A step is added to the trail.                                             *)
LEMMA TrailGrows ==
  ASSUME IInv, NEW outs \in Seq(Outcomes), NEW cost \in Nat, Trailed(outs, cost)
  PROVE  /\ trail' \in Seq(Entries) /\ Extends(trail', trail)
         /\ Len(trail) \in Nat /\ Len(trail') = Len(trail) + 1
         /\ trail'[Len(trail')].outs = outs
         /\ trail'[Len(trail')].total = TotalAt(trail, Len(trail)) + cost
         /\ trail'[Len(trail')].heard = HeardAt(trail, Len(trail)) \o outs
         /\ TotalAt(trail', Len(trail')) = TotalAt(trail, Len(trail)) + cost
         /\ HeardAt(trail', Len(trail')) = HeardAt(trail, Len(trail)) \o outs
         /\ \A i \in 0..Len(trail) : /\ TotalAt(trail', i) = TotalAt(trail, i)
                                     /\ HeardAt(trail', i) = HeardAt(trail, i)
<1>1. trail \in Seq(Entries) /\ Len(trail) \in Nat
  BY DEF IInv, TypeInv
<1>2. /\ trail' \in Seq(Entries) /\ Len(trail') = Len(trail) + 1
      /\ \A i \in 1..Len(trail) : trail'[i] = trail[i]
      /\ trail'[Len(trail) + 1].outs = outs
      /\ trail'[Len(trail) + 1].total = TotalAt(trail, Len(trail)) + cost
      /\ trail'[Len(trail) + 1].heard = HeardAt(trail, Len(trail)) \o outs
  BY <1>1, TrailAdded
<1>3. Extends(trail', trail)
  BY <1>1, <1>2 DEF Extends
<1>4. /\ TotalAt(trail', Len(trail')) = trail'[Len(trail')].total
      /\ HeardAt(trail', Len(trail')) = trail'[Len(trail')].heard
  <2>1. Len(trail') # 0
    BY <1>1, <1>2
  <2> QED BY <2>1 DEF TotalAt, HeardAt
<1>5. ASSUME NEW i \in 0..Len(trail)
      PROVE  /\ TotalAt(trail', i) = TotalAt(trail, i)
             /\ HeardAt(trail', i) = HeardAt(trail, i)
  <2>1. i # 0 => trail'[i] = trail[i]
    BY <1>2
  <2> QED BY <2>1 DEF TotalAt, HeardAt
<1> QED BY <1>1, <1>2, <1>3, <1>4, <1>5

(* The session's streak after an answer, or after a reset.                   *)
LEMMA StreakGrows ==
  ASSUME IInv, LoopInv, UNCHANGED host, NEW out \in Outcomes, NEW cost \in Nat,
         Trailed(<<out>>, cost),
         unchanged' = IF out = "same" THEN unchanged + 1 ELSE 0
  PROVE  Streak'
<1>1. <<out>> \in Seq(Outcomes)
  OBVIOUS
<1>2. /\ Len(trail) \in Nat /\ Len(trail') = Len(trail) + 1
      /\ trail'[Len(trail')].outs = <<out>> /\ Extends(trail', trail)
  BY <1>1, TrailGrows
<1>3. unchanged \in Nat /\ MaxThreshold \in Nat
  BY NumberAssumption DEF IInv, TypeInv
<1> SUFFICES ASSUME host = "arc", NEW n \in 1..MaxThreshold
             PROVE  unchanged' >= n <=>
                      /\ Len(trail') >= n
                      /\ \A i \in Len(trail') - n + 1..Len(trail') :
                           trail'[i].outs = <<"same">>
  BY DEF Streak
<1>4. \A k \in 1..MaxThreshold :
        unchanged >= k <=>
          /\ Len(trail) >= k
          /\ \A i \in Len(trail) - k + 1..Len(trail) : trail[i].outs = <<"same">>
  BY DEF LoopInv, Streak
<1>5. n \in Nat /\ n >= 1
  BY <1>3
<1>6. CASE out # "same"
  <2>1. unchanged' = 0 /\ <<out>> # <<"same">>
    BY <1>6
  <2>2. Len(trail') \in Len(trail') - n + 1..Len(trail')
    BY <1>2, <1>5
  <2> QED BY <1>2, <1>5, <2>1, <2>2
<1>7. CASE out = "same"
  <2> DEFINE L == Len(trail)
             M == Len(trail')
  <2>1. unchanged' = unchanged + 1 /\ M = L + 1 /\ L \in Nat
    BY <1>2, <1>7
  <2>2. trail'[M].outs = <<"same">> /\ \A i \in 1..L : trail'[i] = trail[i]
    BY <1>2, <1>7 DEF Extends
  <2> HIDE DEF M, L
  <2>3. CASE n = 1
    <3>1. unchanged' >= n /\ M >= n
      BY <1>3, <2>1, <2>3
    <3>2. \A i \in M - n + 1..M : i = M
      BY <2>1, <2>3
    <3> QED BY <2>2, <3>1, <3>2 DEF M
  <2>4. CASE n # 1
    <3>1. n - 1 \in 1..MaxThreshold
      BY <1>3, <2>4
    <3>2. unchanged >= n - 1 <=>
            /\ L >= n - 1
            /\ \A i \in L - (n - 1) + 1..L : trail[i].outs = <<"same">>
      BY <1>4, <3>1 DEF L
    <3>3. unchanged' >= n <=> unchanged >= n - 1
      BY <1>3, <1>5, <2>1
    <3>4. M >= n <=> L >= n - 1
      BY <1>5, <2>1
    <3>5. ASSUME L >= n - 1
          PROVE  (\A i \in L - (n - 1) + 1..L : trail[i].outs = <<"same">>)
                   <=> \A i \in M - n + 1..M : trail'[i].outs = <<"same">>
      <4>1. \A i \in M - n + 1..M : i = M \/ i \in L - (n - 1) + 1..L
        BY <1>5, <2>1
      <4>2. \A i \in L - (n - 1) + 1..L : i \in 1..L /\ i \in M - n + 1..M
        BY <1>5, <2>1, <3>5
      <4> QED BY <2>2, <4>1, <4>2
    <3>6. unchanged' >= n <=>
            M >= n /\ \A i \in M - n + 1..M : trail'[i].outs = <<"same">>
      BY <3>2, <3>3, <3>4, <3>5
    <3> QED BY <3>6 DEF M
  <2> QED BY <2>3, <2>4
<1> QED BY <1>6, <1>7

(* The count of a loop's cost and the total say the same of a threshold.     *)
LEMMA ElapsedAgrees ==
  ASSUME IInv, LoopInv, Unit, ~Plain(Block), NEW outs \in Seq(Outcomes),
         NEW cost \in Nat, NEW idle \in Nat, Trailed(outs, cost)
  PROVE  /\ Counted(cost, idle).used >= Block.when.n
              <=> trail'[Len(trail')].total >= TotalAt(trail', run.from) + Block.when.n
         /\ run.from \in 0..Len(trail)
<1>1. /\ run \in Runs /\ run.used \in Nat /\ run.from \in Nat /\ run.iter \in Nat
      /\ trail \in Seq(Entries)
  BY RunFields DEF IInv, TypeInv
<1>2. /\ Block = skill[run.top] /\ run.top \in 1..Len(skill)
      /\ run.inner \in 1..Len(Block.body) /\ Len(Block.body) \in Nat
  BY SkillFacts DEF IInv, Placed, At, Block
<1>3. Block.when.n \in Nat
  BY <1>2, BlockFacts DEF Whens
<1>4. /\ run.from + run.iter * Len(Block.body) + run.inner = Len(trail) + 1
      /\ TotalAt(trail, Len(trail)) = TotalAt(trail, run.from) + run.used
  BY DEF LoopInv, InLoop
<1>5. /\ Len(trail) \in Nat
      /\ trail'[Len(trail')].total = TotalAt(trail, Len(trail)) + cost
      /\ \A i \in 0..Len(trail) : TotalAt(trail', i) = TotalAt(trail, i)
  BY TrailGrows
<1>6. run.from \in 0..Len(trail)
  <2> DEFINE p == run.iter * Len(Block.body)
  <2>1. p \in Nat
    <3>1. \A a \in Nat, c \in Nat : a * c \in Nat
      OBVIOUS
    <3> QED BY <1>1, <1>2, <3>1
  <2>2. run.from + p + run.inner = Len(trail) + 1 /\ run.inner \in Nat /\ run.inner >= 1
    BY <1>2, <1>4
  <2> HIDE DEF p
  <2> QED BY <1>1, <1>5, <2>1, <2>2
<1>7. Counted(cost, idle).used = run.used + cost
  BY <1>1 DEF Counted, Runs
<1>8. TotalAt(trail, run.from) \in Nat
  BY <1>1, <1>6, AtFacts
<1> DEFINE used == run.used
           n == Block.when.n
           t == TotalAt(trail, run.from)
           now == trail'[Len(trail')].total
<1>9. now = t + used + cost /\ TotalAt(trail', run.from) = t
  BY <1>4, <1>5, <1>6
<1>10. used \in Nat /\ n \in Nat /\ t \in Nat
  BY <1>1, <1>3, <1>8
<1> HIDE DEF used, n, t, now
<1>11. used + cost >= n <=> now >= t + n
  BY <1>9, <1>10
<1> QED BY <1>6, <1>7, <1>9, <1>11 DEF used, n, t, now

(* What each port reads is what its stop_when means.                         *)
LEMMA ArcFiresRight ==
  ASSUME IInv, LoopInv, Unit, ~Plain(Block), host = "arc", UNCHANGED host,
         NEW out \in {"same", "inside", "elsewhere"}, ArcAnswered(out, runs)
  PROVE  ArcFires(out, Counted(1, 0))
           <=> MeansIn(trail', Block.when, run.from, Len(trail'))
<1> DEFINE w == Block.when
           L == Len(trail')
<1>1. out \in Outcomes /\ <<out>> \in Seq(Outcomes) /\ Trailed(<<out>>, 1)
      /\ unchanged' = IF out = "same" THEN unchanged + 1 ELSE 0
  BY DEF Outcomes, ArcAnswered
<1>2. Streak'
  BY <1>1, StreakGrows
<1>3. Block = skill[run.top] /\ run.top \in 1..Len(skill)
  BY DEF IInv, Placed, At, Block
<1>4. w \in Whens /\ w.kind \in Kinds[host] /\ w.n <= MaxThreshold
  BY <1>3, BlockFacts
<1>5. w.n \in 1..MaxThreshold
  BY <1>4, NumberAssumption DEF Whens
<1>6. w.kind \in {"elapsed", "unchanged", "region"}
  BY <1>4 DEF Kinds
<1>7. trail'[L].outs = <<out>>
  BY <1>1, TrailGrows
<1>8. CASE w.kind = "elapsed"
  <2>1. Counted(1, 0).used >= w.n <=> trail'[L].total >= TotalAt(trail', run.from) + w.n
    BY <1>1, ElapsedAgrees
  <2> HIDE DEF L
  <2>2. ArcFires(out, Counted(1, 0)) <=> Counted(1, 0).used >= w.n
    BY <1>8, Zenon DEF ArcFires
  <2>3. MeansIn(trail', w, run.from, L)
          <=> trail'[L].total >= TotalAt(trail', run.from) + w.n
    BY <1>8 DEF MeansIn
  <2> QED BY <2>1, <2>2, <2>3, Zenon DEF L
<1>9. CASE w.kind = "unchanged"
  <2>1. unchanged' >= w.n <=>
          L >= w.n /\ \A i \in L - w.n + 1..L : trail'[i].outs = <<"same">>
    BY <1>2, <1>5 DEF Streak
  <2> HIDE DEF L
  <2>2. ArcFires(out, Counted(1, 0)) <=> unchanged' >= w.n
    BY <1>9, Zenon DEF ArcFires
  <2>3. MeansIn(trail', w, run.from, L)
          <=> L >= w.n /\ \A i \in L - w.n + 1..L : trail'[i].outs = <<"same">>
    BY <1>9 DEF MeansIn
  <2> QED BY <2>1, <2>2, <2>3, Zenon DEF L
<1>10. CASE w.kind = "region"
  <2>1. trail'[L].outs \in {<<"inside">>, <<"hit">>} <=> out = "inside"
    BY <1>7
  <2> HIDE DEF L
  <2>2. ArcFires(out, Counted(1, 0)) <=> out = "inside"
    BY <1>10, Zenon DEF ArcFires
  <2>3. MeansIn(trail', w, run.from, L)
          <=> trail'[L].outs \in {<<"inside">>, <<"hit">>}
    BY <1>10 DEF MeansIn
  <2> QED BY <2>1, <2>2, <2>3, Zenon DEF L
<1> QED BY <1>6, <1>8, <1>9, <1>10

LEMMA KirbyFiresRight ==
  ASSUME IInv, LoopInv, Unit, ~Plain(Block), host = "kirby",
         NEW out \in {"hit", "miss"}, KirbyPressed(out, runs)
  PROVE  KirbyFires(out, Counted(1, 0))
           <=> MeansIn(trail', Block.when, run.from, Len(trail'))
<1> DEFINE w == Block.when
           L == Len(trail')
<1>1. out \in Outcomes /\ <<out>> \in Seq(Outcomes) /\ Trailed(<<out>>, 1)
  BY DEF Outcomes, KirbyPressed
<1>2. Block = skill[run.top] /\ run.top \in 1..Len(skill)
  BY DEF IInv, Placed, At, Block
<1>3. w.kind \in Kinds[host]
  BY <1>2, BlockFacts
<1>4. w.kind \in {"elapsed", "moved", "region"}
  BY <1>3 DEF Kinds
<1>5. trail'[L].outs = <<out>>
  BY <1>1, TrailGrows
<1>6. CASE w.kind = "elapsed"
  <2>1. Counted(1, 0).used >= w.n <=> trail'[L].total >= TotalAt(trail', run.from) + w.n
    BY <1>1, ElapsedAgrees
  <2> HIDE DEF L
  <2>2. KirbyFires(out, Counted(1, 0)) <=> Counted(1, 0).used >= w.n
    BY <1>6, Zenon DEF KirbyFires
  <2>3. MeansIn(trail', w, run.from, L)
          <=> trail'[L].total >= TotalAt(trail', run.from) + w.n
    BY <1>6 DEF MeansIn
  <2> QED BY <2>1, <2>2, <2>3, Zenon DEF L
<1>7. CASE w.kind \in {"moved", "region"}
  <2>1. trail'[L].outs \in {<<"inside">>, <<"hit">>} <=> out = "hit"
    BY <1>5
  <2> HIDE DEF L
  <2>2. w.kind # "elapsed" /\ w.kind # "unchanged" /\ w.kind # "idle"
    BY <1>7
  <2>3. KirbyFires(out, Counted(1, 0)) <=> out = "hit"
    BY <1>7, <2>2, Zenon DEF KirbyFires
  <2>4. MeansIn(trail', w, run.from, L)
          <=> trail'[L].outs \in {<<"inside">>, <<"hit">>}
    BY <1>7, <2>2, Zenon DEF MeansIn
  <2> QED BY <2>1, <2>3, <2>4, Zenon DEF L
<1> QED BY <1>4, <1>6, <1>7

LEMMA NdsFiresRight ==
  ASSUME IInv, LoopInv, Unit, ~Plain(Block), host = "nds", NEW n \in Nat,
         NEW samples \in [1..n -> {"low", "high"}], NEW cost \in Nat,
         NdsPassed(samples, cost)
  PROVE  LET streaks == Streaks(samples, run.idle)
         IN  /\ NdsFires(streaks, Counted(cost, streaks[n]))
                  <=> MeansIn(trail', Block.when, run.from, Len(trail'))
             /\ HeardIdle(trail', run.from, streaks[n])
<1> DEFINE streaks == Streaks(samples, run.idle)
           w == Block.when
           L == Len(trail')
           H == HeardAt(trail, Len(trail))
           G == H \o samples
           F == Len(HeardAt(trail, run.from))
<1>1. samples \in Seq(Outcomes) /\ Len(samples) = n
  <2>1. {"low", "high"} \subseteq Outcomes
    BY DEF Outcomes
  <2>2. samples \in Seq({"low", "high"}) /\ Len(samples) = n
    OBVIOUS
  <2> QED BY <2>1, <2>2
<1>2. Trailed(samples, cost)
  BY DEF NdsPassed
<1>3. /\ trail \in Seq(Entries) /\ Len(trail) \in Nat /\ L = Len(trail) + 1
      /\ trail'[L].heard = G /\ HeardAt(trail', L) = G
      /\ \A i \in 0..Len(trail) : HeardAt(trail', i) = HeardAt(trail, i)
  BY <1>1, <1>2, TrailGrows DEF IInv, TypeInv
<1>4. streaks[n] \in Nat
  BY StreakFacts, RunFields DEF IInv, TypeInv
<1>5. /\ run.from \in 0..Len(trail) /\ run.idle \in Nat
  BY <1>1, <1>2, ElapsedAgrees, RunFields DEF IInv, TypeInv
<1>6. HeardAt(trail', run.from) = HeardAt(trail, run.from)
  BY <1>3, <1>5
<1>7. H \in Seq(Outcomes) /\ F \in Nat
  <2>1. H \in Seq(Outcomes)
    BY <1>3, AtFacts
  <2>2. HeardAt(trail, run.from) \in Seq(Outcomes)
    BY <1>3, <1>5, AtFacts
  <2> QED BY <2>1, <2>2
<1>8. InLoop(trail, run, Block)
  BY DEF LoopInv
<1>9. Idles(H, F, Len(H), run.idle)
  BY <1>8, Zenon DEF InLoop, HeardIdle
<1>10. Block = skill[run.top] /\ run.top \in 1..Len(skill)
  BY DEF IInv, Placed, At, Block
<1>11. w \in Whens /\ w.kind \in Kinds[host] /\ w.n \in Nat \ {0}
  BY <1>10, BlockFacts DEF Whens
<1>12. w.kind \in {"elapsed", "idle"}
  BY <1>11 DEF Kinds
<1>13. HeardIdle(trail', run.from, streaks[n])
  <2>1. n \in 0..n /\ Len(G) = Len(H) + n
    BY <1>1, <1>7
  <2>2. Idles(G, F, Len(H) + n, streaks[n])
    <3> HIDE DEF H, F
    <3> QED BY <1>5, <1>7, <1>9, <2>1, StreakHeard
  <2> HIDE DEF streaks, G, H
  <2>3. Idles(G, F, Len(G), streaks[n])
    BY <2>1, <2>2
  <2> QED BY <1>3, <1>6, <2>3 DEF HeardIdle
<1>14. CASE w.kind = "elapsed"
  <2>1. Counted(cost, streaks[n]).used >= w.n
          <=> trail'[L].total >= TotalAt(trail', run.from) + w.n
    BY <1>1, <1>2, <1>4, ElapsedAgrees
  <2> HIDE DEF L, streaks
  <2>2. NdsFires(streaks, Counted(cost, streaks[n]))
          <=> Counted(cost, streaks[n]).used >= w.n
    BY <1>14, Zenon DEF NdsFires
  <2>3. MeansIn(trail', w, run.from, L)
          <=> trail'[L].total >= TotalAt(trail', run.from) + w.n
    BY <1>14 DEF MeansIn
  <2> QED BY <1>13, <2>1, <2>2, <2>3, Zenon DEF L, streaks
<1>15. CASE w.kind = "idle"
  <2>1. \A q \in F + w.n..Len(H) : ~LowUpto(H, q, w.n)
    <3>1. CASE run.from = Len(trail)
      <4>1. F = Len(H)
        BY <3>1
      <4> HIDE DEF F, H
      <4>2. F + w.n > Len(H) /\ F \in Nat
        BY <1>7, <1>11, <4>1
      <4> QED BY <1>7, <1>11, <4>1, <4>2
    <3>2. CASE run.from # Len(trail)
      <4>1. Len(trail) \in run.from + 1..Len(trail)
        BY <1>3, <1>5, <3>2
      <4>2. ~MeansIn(trail, w, run.from, Len(trail))
        BY <1>8, <4>1 DEF InLoop
      <4>3. trail[Len(trail)].heard = H
        BY <1>3, <1>5, <3>2 DEF HeardAt
      <4>4. ~\E q \in F + w.n..Len(trail[Len(trail)].heard) :
               LowUpto(trail[Len(trail)].heard, q, w.n)
        BY <1>15, <4>2, Zenon DEF MeansIn
      <4> HIDE DEF H, F
      <4> QED BY <4>3, <4>4
    <3> QED BY <3>1, <3>2
  <2>2. (\E i \in DOMAIN streaks \ {0} : streaks[i] >= w.n)
          <=> \E q \in F + w.n..Len(G) : LowUpto(G, q, w.n)
    <3> HIDE DEF H, F
    <3> QED BY <1>5, <1>7, <1>9, <1>11, <2>1, StreaksReach
  <2>3. w.kind # "elapsed"
    BY <1>15
  <2>4. NdsFires(streaks, Counted(cost, streaks[n]))
          <=> \E i \in DOMAIN streaks \ {0} : streaks[i] >= w.n
    <3> HIDE DEF streaks
    <3> QED BY <1>15, <2>3, Zenon DEF NdsFires
  <2>5. MeansIn(trail', w, run.from, L)
          <=> \E q \in F + w.n..Len(G) : LowUpto(G, q, w.n)
    <3>1. MeansIn(trail', w, run.from, L)
            <=> \E q \in Len(HeardAt(trail', run.from)) + w.n..Len(trail'[L].heard) :
                  LowUpto(trail'[L].heard, q, w.n)
      <4> HIDE DEF L
      <4> QED BY <1>15 DEF MeansIn
    <3> HIDE DEF L, G
    <3> QED BY <1>3, <1>6, <3>1
  <2> HIDE DEF L, streaks, G, F
  <2> QED BY <1>13, <2>2, <2>4, <2>5, Zenon DEF L, streaks
<1> QED BY <1>12, <1>14, <1>15

-----------------------------------------------------------------------------
(* The actions.                                                              *)

LEMMA StepKeepsLoops ==
  ASSUME IInv, LoopInv, Unit, Untouched, Streak', Goes(trail', run')
  PROVE  LoopInv'
<1>1. /\ host' = host /\ skill' = skill /\ running' = running /\ log' = log
      /\ running
  BY DEF Untouched, Unit
<1>2. Valid(skill)' <=> Valid(skill)
  BY <1>1 DEF Valid, WhenOK
<1>3. skill # <<>> => Valid(skill)
  BY DEF LoopInv
<1>4. Block' = skill[run'.top]
  BY <1>1 DEF Block
<1>5. Unit' /\ ~Plain(Block') => InLoop(trail, run, Block)'
  <2> SUFFICES ASSUME Unit', ~Plain(Block')
               PROVE  InLoop(trail, run, Block)'
    OBVIOUS
  <2>1. InLoop(trail', run', skill[run'.top])
    BY <1>4 DEF Unit, Goes
  <2> QED BY <1>1, <1>4, <2>1 DEF InLoop
<1>6. AllEnded(trail, run.loops)'
  <2>1. AllEnded(trail', run'.loops)
    BY DEF Goes
  <2> QED BY <1>1, <2>1 DEF AllEnded, Ended
<1>7. log' = <<>>
  BY <1>1 DEF IInv, Spans
<1> QED BY <1>1, <1>2, <1>3, <1>5, <1>6, <1>7 DEF LoopInv

LEMMA StoppedKeepsLoops ==
  ASSUME IInv, LoopInv, Unit, Untouched, WorldUntouched,
         run'.stop # "going", run'.loops = run.loops
  PROVE  LoopInv'
<1>1. /\ host' = host /\ skill' = skill /\ running' = running /\ log' = log
      /\ running /\ trail' = trail /\ unchanged' = unchanged
  BY DEF Untouched, WorldUntouched, Unit
<1>2. Valid(skill)' <=> Valid(skill)
  BY <1>1 DEF Valid, WhenOK
<1>3. Streak'
  BY <1>1 DEF LoopInv, Streak
<1>4. AllEnded(trail, run.loops)'
  <2>1. AllEnded(trail, run.loops)
    BY <1>1 DEF LoopInv
  <2> QED BY <1>1, <2>1 DEF AllEnded, Ended
<1>5. log' = <<>> /\ ~Unit'
  BY <1>1 DEF IInv, Spans, Unit
<1> QED BY <1>1, <1>2, <1>3, <1>4, <1>5 DEF LoopInv

LEMMA BetweenKeepsLoops ==
  ASSUME IInv, LoopInv, ~running, UNCHANGED <<host, running, log>>,
         trail' \in Seq(Entries), Extends(trail', trail), Streak',
         skill' # <<>> => Valid(skill')
  PROVE  LoopInv'
<1>1. ~running' /\ host' = host /\ log' = log
  OBVIOUS
<1>2. skill' # <<>> => Valid(skill)'
  <2>1. Valid(skill)' <=> Valid(skill')
    BY <1>1 DEF Valid, WhenOK
  <2> QED BY <2>1
<1>3. ASSUME NEW i \in 1..Len(log)
      PROVE  AllEnded(trail, log[i].loops)'
  <2>1. AllEnded(trail, log[i].loops)
    BY DEF LoopInv
  <2>2. log[i] \in Records /\ trail \in Seq(Entries)
    BY DEF IInv, TypeInv
  <2>3. log[i].loops \in Loops
    BY <2>2 DEF Records
  <2>4. AllEnded(trail', log[i].loops)
    BY <2>1, <2>2, <2>3, AllEndedStays
  <2> QED BY <1>1, <2>4 DEF AllEnded, Ended
<1>4. \A i \in 1..Len(log') : AllEnded(trail, log[i].loops)'
  BY <1>1, <1>3
<1>5. ~Unit'
  BY <1>1 DEF Unit
<1> QED BY <1>1, <1>2, <1>4, <1>5 DEF LoopInv

LEMMA DefineKeepsLoops ==
  ASSUME IInv, LoopInv, NEW s \in Candidates, Define(s)
  PROVE  LoopInv'
<1>1. /\ ~running /\ UNCHANGED <<host, running, log>> /\ skill' = s /\ Valid(s)
      /\ unchanged' = unchanged /\ trail' = trail
  BY DEF Define
<1>2. trail' \in Seq(Entries) /\ Extends(trail', trail)
  BY <1>1 DEF IInv, TypeInv, Extends
<1>3. Streak'
  BY <1>1 DEF LoopInv, Streak
<1>4. skill' # <<>> => Valid(skill')
  BY <1>1
<1> QED BY <1>1, <1>2, <1>3, <1>4, BetweenKeepsLoops

LEMMA ManualKeepsLoops ==
  ASSUME IInv, LoopInv, Manual
  PROVE  LoopInv'
<1>1. ~running /\ UNCHANGED <<host, running, log>> /\ skill' = skill
  BY DEF Manual
<1>2. trail' \in Seq(Entries) /\ Extends(trail', trail) /\ Streak'
  <2>1. ASSUME NEW out \in {"same", "elsewhere"}, ArcAnswered(out, 0)
        PROVE  trail' \in Seq(Entries) /\ Extends(trail', trail) /\ Streak'
    <3>1. out \in Outcomes /\ <<out>> \in Seq(Outcomes)
      BY DEF Outcomes
    <3>2. /\ Trailed(<<out>>, 1)
          /\ unchanged' = IF out = "same" THEN unchanged + 1 ELSE 0
      BY <2>1 DEF ArcAnswered
    <3> QED BY <1>1, <3>1, <3>2, TrailGrows, StreakGrows
  <2>2. CASE UNCHANGED <<unchanged, legal, trail>>
    <3>1. trail' \in Seq(Entries) /\ Extends(trail', trail)
      BY <2>2 DEF IInv, TypeInv, Extends
    <3>2. Streak'
      BY <1>1, <2>2 DEF LoopInv, Streak
    <3> QED BY <3>1, <3>2
  <2> QED BY <2>1, <2>2 DEF Manual
<1>3. skill' # <<>> => Valid(skill')
  BY <1>1 DEF LoopInv
<1> QED BY <1>1, <1>2, <1>3, BetweenKeepsLoops

LEMMA ResetKeepsLoops ==
  ASSUME IInv, LoopInv, Reset
  PROVE  LoopInv'
<1>1. /\ ~running /\ UNCHANGED <<host, running, log>> /\ skill' = skill
      /\ unchanged' = 0 /\ Trailed(<<"reset">>, 0)
  BY DEF Reset
<1> DEFINE out == "reset"
<1>2. out \in Outcomes /\ <<out>> \in Seq(Outcomes) /\ out # "same"
  BY DEF Outcomes
<1>3. Trailed(<<out>>, 0) /\ unchanged' = IF out = "same" THEN unchanged + 1 ELSE 0
  BY <1>1
<1> HIDE DEF out
<1>4. trail' \in Seq(Entries) /\ Extends(trail', trail)
  BY <1>2, <1>3, TrailGrows
<1>5. Streak'
  BY <1>1, <1>2, <1>3, StreakGrows
<1>6. skill' # <<>> => Valid(skill')
  BY <1>1 DEF LoopInv
<1> QED BY <1>1, <1>4, <1>5, <1>6, BetweenKeepsLoops

(* The steps that are kept are as many as any threshold may ask for.         *)
LEMMA StartKeepsLoops ==
  ASSUME IInv, LoopInv, Start
  PROVE  LoopInv'
<1> DEFINE r == [FreshRun EXCEPT !.from = Kept]
<1>1. /\ ~running /\ skill # <<>> /\ running' = TRUE /\ Forgotten
      /\ run' = r /\ log' = <<>>
      /\ UNCHANGED <<host, skill, unchanged>>
  BY DEF Start
<1>2. /\ trail \in Seq(Entries) /\ Len(trail) \in Nat /\ host \in Hosts
      /\ MaxThreshold \in Nat /\ Len(skill) \in Nat \ {0}
  BY <1>1, NumberAssumption DEF IInv, TypeInv
<1>3. /\ Kept \in 0..Len(trail) /\ Kept \in Nat /\ trail' \in Seq(Entries)
      /\ Len(trail') = Kept
      /\ \A i \in 1..Kept : trail'[i].outs = trail[Len(trail) - Kept + i].outs
  BY <1>1, <1>2, TrailKept
<1>4. /\ Len(trail) > MaxThreshold => Kept = MaxThreshold
      /\ ~(Len(trail) > MaxThreshold) => Kept = Len(trail)
  BY DEF Kept
<1>5. Streak'
  <2> SUFFICES ASSUME host = "arc", NEW n \in 1..MaxThreshold
               PROVE  unchanged' >= n <=>
                        /\ Len(trail') >= n
                        /\ \A i \in Len(trail') - n + 1..Len(trail') :
                             trail'[i].outs = <<"same">>
    BY <1>1 DEF Streak
  <2>1. unchanged >= n <=>
          /\ Len(trail) >= n
          /\ \A i \in Len(trail) - n + 1..Len(trail) : trail[i].outs = <<"same">>
    BY DEF LoopInv, Streak
  <2> DEFINE k == Kept
             L == Len(trail)
             d == L - k
  <2>2. k \in 0..L /\ L \in Nat /\ n \in Nat /\ (k >= n <=> L >= n)
    BY <1>2, <1>3, <1>4
  <2>3. \A i \in 1..k : trail'[i].outs = trail[d + i].outs
    BY <1>3
  <2> HIDE DEF k, L
  <2>4. ASSUME k >= n
        PROVE  (\A i \in L - n + 1..L : trail[i].outs = <<"same">>)
                 <=> \A i \in k - n + 1..k : trail'[i].outs = <<"same">>
    <3>1. \A i \in k - n + 1..k : i \in 1..k /\ d + i \in L - n + 1..L
      BY <2>2, <2>4
    <3>2. \A i \in L - n + 1..L : i - d \in k - n + 1..k /\ d + (i - d) = i
      BY <2>2, <2>4
    <3>3. ASSUME \A i \in L - n + 1..L : trail[i].outs = <<"same">>
          PROVE  \A i \in k - n + 1..k : trail'[i].outs = <<"same">>
      BY <2>3, <3>1, <3>3
    <3>4. ASSUME \A i \in k - n + 1..k : trail'[i].outs = <<"same">>,
                 NEW i \in L - n + 1..L
          PROVE  trail[i].outs = <<"same">>
      <4> DEFINE j == i - d
      <4>1. j \in k - n + 1..k /\ d + j = i
        BY <3>2
      <4> HIDE DEF j, d
      <4>2. trail'[j].outs = <<"same">> /\ trail'[j].outs = trail[d + j].outs
        BY <2>3, <3>1, <3>4, <4>1
      <4> QED BY <4>1, <4>2
    <3> QED BY <3>3, <3>4
  <2>5. unchanged >= n <=>
          k >= n /\ \A i \in k - n + 1..k : trail'[i].outs = <<"same">>
    BY <2>1, <2>2, <2>4 DEF L
  <2>6. Len(trail') = k
    BY <1>3 DEF k
  <2> HIDE DEF d
  <2> QED BY <1>1, <2>5, <2>6
<1>6. Valid(skill)'
  <2>1. Valid(skill)
    BY <1>1 DEF LoopInv
  <2> QED BY <1>1, <2>1 DEF Valid, WhenOK
<1>7. /\ r \in Runs /\ r.top = 1 /\ r.inner = 1
  BY <1>2, <1>3, FreshFacts
<1>8. r.iter = 0 /\ r.used = 0 /\ r.idle = 0 /\ r.from = Kept /\ r.loops = <<>>
  <2>1. /\ FreshRun.iter = 0 /\ FreshRun.used = 0 /\ FreshRun.idle = 0
        /\ FreshRun.loops = <<>>
    BY DEF FreshRun
  <2>2. r.from = Kept
    BY DEF FreshRun
  <2> QED BY <2>1, <2>2 DEF FreshRun
<1> HIDE DEF r
<1>9. Unit' /\ ~Plain(Block') => InLoop(trail, run, Block)'
  <2> SUFFICES ASSUME ~Plain(Block')
               PROVE  InLoop(trail, run, Block)'
    OBVIOUS
  <2>1. Block' = skill[r.top] /\ r.top \in 1..Len(skill)
    BY <1>1, <1>2, <1>7 DEF Block
  <2>2. InLoop(trail', r, skill[r.top])
    BY <1>3, <1>7, <1>8, <2>1, LoopBegins
  <2> QED BY <1>1, <2>1, <2>2 DEF InLoop
<1>10. AllEnded(trail, run.loops)'
  BY <1>1, <1>8 DEF AllEnded
<1> QED BY <1>1, <1>5, <1>6, <1>9, <1>10 DEF LoopInv

LEMMA AbortKeepsLoops ==
  ASSUME IInv, LoopInv, Exhausted \/ Refused \/ ArcLost
  PROVE  LoopInv'
<1>1. Unit /\ Untouched /\ WorldUntouched
  BY DEF Exhausted, Refused, ArcLost
<1>2. run \in Runs
  BY DEF IInv, TypeInv
<1>3. run'.stop # "going" /\ run'.loops = run.loops
  <2>1. CASE Exhausted
    <3>1. run' = [run EXCEPT !.stop = "ceiling"]
      BY <2>1 DEF Exhausted, Abort
    <3> QED BY <1>2, <3>1 DEF Runs
  <2>2. CASE Refused
    <3>1. run' = [run EXCEPT !.stop = "refused"]
      BY <2>2 DEF Refused, Abort
    <3> QED BY <1>2, <3>1 DEF Runs
  <2>3. CASE ArcLost
    <3> DEFINE a == run.activity + 1
    <3>1. run' = [run EXCEPT !.stop = "lost", !.activity = a]
      BY <2>3 DEF ArcLost
    <3> HIDE DEF a
    <3> QED BY <1>2, <3>1 DEF Runs
  <2> QED BY <2>1, <2>2, <2>3
<1> QED BY <1>1, <1>3, StoppedKeepsLoops

LEMMA ArcStepKeepsLoops ==
  ASSUME IInv, LoopInv, ArcStep
  PROVE  LoopInv'
<1>1. PICK out \in {"same", "inside", "elsewhere"} :
        /\ ArcAnswered(out, runs)
        /\ After(Counted(1, 0), ArcFires(out, Counted(1, 0)))
  BY Zenon DEF ArcStep
<1> DEFINE fires == ArcFires(out, Counted(1, 0))
<1>2. Unit /\ Untouched /\ ~TooDear /\ host = "arc" /\ host' = host
  BY DEF ArcStep, Untouched
<1>3. out \in Outcomes /\ <<out>> \in Seq(Outcomes)
  BY DEF Outcomes
<1>4. /\ Trailed(<<out>>, 1)
      /\ unchanged' = IF out = "same" THEN unchanged + 1 ELSE 0
  BY <1>1 DEF ArcAnswered
<1>5. Streak'
  BY <1>2, <1>3, <1>4, StreakGrows
<1>6. /\ trail' \in Seq(Entries) /\ Extends(trail', trail)
      /\ Len(trail') = Len(trail) + 1
      /\ TotalAt(trail', Len(trail')) = TotalAt(trail, Len(trail)) + 1
  BY <1>3, <1>4, TrailGrows
<1>7. ~Plain(Block) => (fires <=> MeansIn(trail', Block.when, run.from, Len(trail')))
  BY <1>1, <1>2, ArcFiresRight
<1>8. 1 \in 0..run.budget
  BY <1>2, Ceilings DEF TooDear
<1>9. fires \in BOOLEAN
  BY Zenon DEF ArcFires
<1>10. After(Counted(1, 0), fires)
  BY <1>1
<1> HIDE DEF fires
<1>11. Goes(trail', run')
  BY <1>2, <1>6, <1>7, <1>8, <1>9, <1>10, AfterGoes
<1> QED BY <1>2, <1>5, <1>11, StepKeepsLoops

LEMMA KirbyStepKeepsLoops ==
  ASSUME IInv, LoopInv, KirbyStep
  PROVE  LoopInv'
<1>1. PICK out \in KirbyOuts :
        /\ KirbyPressed(out, runs)
        /\ After(Counted(1, 0), KirbyFires(out, Counted(1, 0)))
  BY Zenon DEF KirbyStep
<1> DEFINE fires == KirbyFires(out, Counted(1, 0))
<1>2. Unit /\ Untouched /\ ~TooDear /\ host = "kirby" /\ host' = host
  BY DEF KirbyStep, Untouched
<1>3. out \in {"hit", "miss"}
  BY DEF KirbyOuts
<1>4. <<out>> \in Seq(Outcomes)
  BY <1>3 DEF Outcomes
<1>5. Trailed(<<out>>, 1)
  BY <1>1 DEF KirbyPressed
<1>6. Streak'
  BY <1>2 DEF Streak
<1>7. /\ trail' \in Seq(Entries) /\ Extends(trail', trail)
      /\ Len(trail') = Len(trail) + 1
      /\ TotalAt(trail', Len(trail')) = TotalAt(trail, Len(trail)) + 1
  BY <1>4, <1>5, TrailGrows
<1>8. ~Plain(Block) => (fires <=> MeansIn(trail', Block.when, run.from, Len(trail')))
  BY <1>1, <1>2, <1>3, KirbyFiresRight
<1>9. 1 \in 0..run.budget
  BY <1>2, Ceilings DEF TooDear
<1>10. fires \in BOOLEAN
  BY Zenon DEF KirbyFires
<1>11. After(Counted(1, 0), fires)
  BY <1>1
<1> HIDE DEF fires
<1>12. Goes(trail', run')
  BY <1>2, <1>7, <1>8, <1>9, <1>10, <1>11, AfterGoes
<1> QED BY <1>2, <1>6, <1>12, StepKeepsLoops

LEMMA NdsStepKeepsLoops ==
  ASSUME IInv, LoopInv, NdsStep
  PROVE  LoopInv'
<1>1. Unit /\ ~TooDear /\ host = "nds" /\ Untouched /\ host' = host
  BY DEF NdsStep, Untouched
<1>2. PICK samples \in [1..NdsSamples -> {"low", "high"}] :
        /\ NdsPassed(samples, NdsCost)
        /\ After(Counted(NdsCost, Streaks(samples, run.idle)[NdsSamples]),
                 NdsFires(Streaks(samples, run.idle),
                          Counted(NdsCost, Streaks(samples, run.idle)[NdsSamples])))
  BY Zenon DEF NdsStep
<1> DEFINE cost == NdsCost
           n == NdsSamples
           idle == Streaks(samples, run.idle)[n]
           fires == NdsFires(Streaks(samples, run.idle), Counted(cost, idle))
<1>3. cost \in 0..run.budget /\ n \in Nat /\ cost \in Nat
  BY <1>1, NdsCosts, Ceilings
<1>4. samples \in [1..n -> {"low", "high"}] /\ run.idle \in Nat
  BY RunFields DEF IInv, TypeInv
<1>5. fires \in BOOLEAN
  BY Zenon DEF NdsFires
<1>6. NdsPassed(samples, cost) /\ Trailed(samples, cost)
  BY <1>2 DEF NdsPassed
<1>7. After(Counted(cost, idle), fires)
  BY <1>2
<1> HIDE DEF cost, n
<1>8. idle \in Nat
  BY <1>3, <1>4, StreakFacts
<1>9. samples \in Seq(Outcomes)
  <2>1. {"low", "high"} \subseteq Outcomes
    BY DEF Outcomes
  <2>2. samples \in Seq({"low", "high"})
    BY <1>3, <1>4
  <2> QED BY <2>1, <2>2
<1>10. ~Plain(Block) =>
         /\ fires <=> MeansIn(trail', Block.when, run.from, Len(trail'))
         /\ HeardIdle(trail', run.from, idle)
  BY <1>1, <1>3, <1>4, <1>6, NdsFiresRight
<1> HIDE DEF idle, fires
<1>11. /\ trail' \in Seq(Entries) /\ Extends(trail', trail)
       /\ Len(trail') = Len(trail) + 1
       /\ TotalAt(trail', Len(trail')) = TotalAt(trail, Len(trail)) + cost
  BY <1>3, <1>6, <1>9, TrailGrows
<1>12. Streak'
  BY <1>1 DEF Streak
<1>13. Goes(trail', run')
  BY <1>1, <1>3, <1>5, <1>7, <1>8, <1>10, <1>11, AfterGoes
<1> QED BY <1>1, <1>12, <1>13, StepKeepsLoops

LEMMA FinishKeepsLoops ==
  ASSUME IInv, LoopInv, Finish
  PROVE  LoopInv'
<1> DEFINE used == Ceiling[host] - run.budget
           at == Len(rows)
           e == [step |-> step, used |-> used, ok |-> run.ok, loops |-> run.loops,
                 stop |-> run.stop, call |-> runs, at |-> at]
<1>1. /\ running /\ log' = <<e>> /\ ~running'
      /\ UNCHANGED <<host, skill, unchanged, trail>>
  BY DEF Finish
<1>2. e.loops = run.loops
  OBVIOUS
<1> HIDE DEF e
<1>3. Len(log') = 1 /\ log'[1].loops = run.loops
  BY <1>1, <1>2
<1>4. AllEnded(trail, run.loops)
  BY <1>1 DEF LoopInv
<1>5. \A i \in 1..Len(log') : AllEnded(trail, log[i].loops)'
  <2>1. AllEnded(trail', log'[1].loops)
    BY <1>1, <1>3, <1>4
  <2>2. \A i \in 1..Len(log') : i = 1
    BY <1>3
  <2>3. AllEnded(trail, log[1].loops)'
    BY <1>1, <2>1 DEF AllEnded, Ended
  <2> QED BY <2>2, <2>3
<1>6. Streak' /\ (skill # <<>> => Valid(skill))'
  BY <1>1 DEF LoopInv, Streak, Valid, WhenOK
<1>7. ~Unit'
  BY <1>1 DEF Unit
<1> QED BY <1>1, <1>5, <1>6, <1>7 DEF LoopInv

LEMMA LoopRecorded ==
  ASSUME IInv, NEW i \in 1..Len(log), NEW k \in 1..Len(log[i].loops)
  PROVE  log[i].loops[k] \in LoopRecords
<1>1. log[i] \in Records
  BY DEF IInv, TypeInv
<1>2. log[i].loops \in Seq(LoopRecords)
  BY <1>1 DEF Records, Loops
<1> QED BY <1>2

LEMMA InitKeepsLoops ==
  ASSUME Init
  PROVE  LoopInv
<1>1. /\ skill = <<>> /\ ~running /\ trail = <<>> /\ unchanged = 0 /\ log = <<>>
  BY DEF Init
<1>2. Streak
  <2> SUFFICES ASSUME NEW n \in 1..MaxThreshold
               PROVE  ~(unchanged >= n) /\ ~(Len(trail) >= n)
    BY DEF Streak
  <2>1. n \in Nat /\ n > 0
    BY NumberAssumption
  <2> QED BY <1>1, <2>1
<1> QED BY <1>1, <1>2 DEF LoopInv, Unit

LEMMA StutterKeepsLoops ==
  ASSUME LoopInv, UNCHANGED vars
  PROVE  LoopInv'
<1>1. /\ host' = host /\ skill' = skill /\ running' = running /\ run' = run
      /\ unchanged' = unchanged /\ log' = log /\ trail' = trail
  BY DEF vars
<1>2. Streak' /\ (skill # <<>> => Valid(skill))'
  BY <1>1 DEF LoopInv, Streak, Valid, WhenOK
<1>3. Unit' /\ ~Plain(Block') => InLoop(trail, run, Block)'
  BY <1>1 DEF LoopInv, Unit, Block, InLoop
<1>4. running' => AllEnded(trail, run.loops)'
  BY <1>1 DEF LoopInv, AllEnded, Ended
<1>5. ASSUME NEW i \in 1..Len(log)
      PROVE  AllEnded(trail, log[i].loops)'
  <2>1. AllEnded(trail, log[i].loops)
    BY DEF LoopInv
  <2> QED BY <1>1, <2>1 DEF AllEnded, Ended
<1> QED BY <1>1, <1>2, <1>3, <1>4, <1>5 DEF LoopInv

-----------------------------------------------------------------------------
(* The theorems.                                                             *)

(* While a run stands in a loop, its counters agree with what the world did  *)
(* since the loop began, and its stop_when has not been met; the loops it    *)
(* has left were left for a reason.                                          *)
THEOREM LoopInvariance == Spec => []LoopInv
<1>1. Init => LoopInv
  BY InitKeepsLoops
<1>2. IInv /\ LoopInv /\ [Next]_vars => LoopInv'
  <2> SUFFICES ASSUME IInv, LoopInv, [Next]_vars
               PROVE  LoopInv'
    OBVIOUS
  <2>1. ASSUME NEW s \in Candidates, Define(s)
        PROVE  LoopInv'
    BY <2>1, DefineKeepsLoops
  <2>2. CASE Manual
    BY <2>2, ManualKeepsLoops
  <2>3. CASE Reset
    BY <2>3, ResetKeepsLoops
  <2>4. CASE Start
    BY <2>4, StartKeepsLoops
  <2>5. CASE Exhausted \/ Refused \/ ArcLost
    BY <2>5, AbortKeepsLoops
  <2>6. CASE ArcStep
    BY <2>6, ArcStepKeepsLoops
  <2>7. CASE KirbyStep
    BY <2>7, KirbyStepKeepsLoops
  <2>8. CASE NdsStep
    BY <2>8, NdsStepKeepsLoops
  <2>9. CASE Finish
    BY <2>9, FinishKeepsLoops
  <2>10. CASE UNCHANGED vars
    BY <2>10, StutterKeepsLoops
  <2> QED BY <2>1, <2>2, <2>3, <2>4, <2>5, <2>6, <2>7, <2>8, <2>9, <2>10 DEF Next
<1> QED BY <1>1, <1>2, Invariance, PTL DEF Spec

(* Every loop of a finished run ended with the first step after which its    *)
(* stop_when held of what the world did, and says that it fired exactly      *)
(* then; or it ended after all its passes, or on nds with no frame left. For *)
(* every skill, threshold, ceiling and settling time.                        *)
THEOREM LoopsEndRight == Spec => []LoopEndsAtFirstHit
<1>1. IInv /\ LoopInv => LoopEndsAtFirstHit
  <2> SUFFICES ASSUME IInv, LoopInv, NEW i \in 1..Len(log),
                      NEW k \in 1..Len(log[i].loops)
               PROVE  LET l == log[i].loops[k]
                          w == l.block.when
                      IN  /\ l.fired <=> Means(w, l.from, l.to)
                          /\ \A j \in l.from + 1..l.to - 1 : ~Means(w, l.from, j)
                          /\ ~l.fired =>
                               \/ l.to - l.from = l.block.iters * Len(l.block.body)
                               \/ host = "nds" /\ l.spent
    BY DEF LoopEndsAtFirstHit
  <2> DEFINE l == log[i].loops[k]
  <2>1. l \in LoopRecords
    BY LoopRecorded
  <2>2. Ended(trail, l)
    BY DEF LoopInv, AllEnded
  <2> HIDE DEF l
  <2>3. l.from \in Nat /\ l.to \in Nat /\ l.block \in Blocks
    BY <2>1 DEF LoopRecords
  <2>4. l.block.iters * Len(l.block.body) \in Nat
    <3>1. l.block.iters \in Nat /\ Len(l.block.body) \in Nat
      BY <2>3 DEF Blocks
    <3>2. \A a \in Nat, c \in Nat : a * c \in Nat
      OBVIOUS
    <3> QED BY <3>1, <3>2
  <2>5. l.to = l.from + l.block.iters * Len(l.block.body)
          => l.to - l.from = l.block.iters * Len(l.block.body)
    <3> DEFINE p == l.block.iters * Len(l.block.body)
    <3>1. p \in Nat
      BY <2>4
    <3> HIDE DEF p
    <3>2. l.to = l.from + p => l.to - l.from = p
      BY <2>3, <3>1
    <3> QED BY <3>2 DEF p
  <2>6. /\ l.fired <=> Means(l.block.when, l.from, l.to)
        /\ \A j \in l.from + 1..l.to - 1 : ~Means(l.block.when, l.from, j)
    BY <2>2, Zenon DEF Ended, Means
  <2>7. ~l.fired => \/ l.to = l.from + l.block.iters * Len(l.block.body)
                    \/ host = "nds" /\ l.spent
    BY <2>2 DEF Ended
  <2> QED BY <2>5, <2>6, <2>7 DEF l
<1> QED BY <1>1, Invariance, LoopInvariance, PTL

(* What a scorer counts as evidence is evidence: the loop a record is counted *)
(* for stopped because its condition came true of the world, and on kirby     *)
(* not before a whole pass had gone by on which it had not.                   *)
THEOREM EvidenceFaithful == Spec => []EvidenceIsReal
<1>1. IInv /\ LoopInv => EvidenceIsReal
  <2> SUFFICES ASSUME IInv, LoopInv, NEW i \in 1..Len(log)
               PROVE  IF host = "nds"
                      THEN StopWhenFired(log[i]) =>
                             \E k \in 1..Len(log[i].loops) :
                               Means(log[i].loops[k].block.when,
                                     log[i].loops[k].from, log[i].loops[k].to)
                      ELSE Qualifies(log[i]) =>
                             LET l == Last(log[i].loops)
                             IN  /\ Means(l.block.when, l.from, l.to)
                                 /\ l.block.when.kind # "elapsed"
                                 /\ l.to - l.from > Len(l.block.body)
                                 /\ ~Means(l.block.when, l.from,
                                           l.from + Len(l.block.body))
    BY Zenon DEF EvidenceIsReal
  <2> DEFINE loops == log[i].loops
  <2>1. \A k \in 1..Len(loops) : loops[k] \in LoopRecords /\ Ended(trail, loops[k])
    BY LoopRecorded DEF LoopInv, AllEnded
  <2>2. \A k \in 1..Len(loops) :
          loops[k].fired <=> Means(loops[k].block.when, loops[k].from, loops[k].to)
    BY <2>1 DEF Ended, Means
  <2>3. ASSUME StopWhenFired(log[i])
        PROVE  \E k \in 1..Len(loops) :
                 Means(loops[k].block.when, loops[k].from, loops[k].to)
    BY <2>2, <2>3 DEF StopWhenFired
  <2>4. ASSUME Qualifies(log[i])
        PROVE  LET l == Last(loops)
               IN  /\ Means(l.block.when, l.from, l.to)
                   /\ l.block.when.kind # "elapsed"
                   /\ l.to - l.from > Len(l.block.body)
                   /\ ~Means(l.block.when, l.from, l.from + Len(l.block.body))
    <3> DEFINE l == Last(loops)
    <3>1. /\ loops # <<>> /\ l.fired /\ l.block.when.kind \in WorldReading
          /\ l.iterations >= MinIterations
      BY <2>4 DEF Qualifies
    <3>2. loops \in Loops
      <4>1. log[i] \in Records
        BY DEF IInv, TypeInv
      <4> QED BY <4>1 DEF Records
    <3>3. Len(loops) \in Nat \ {0} /\ l = loops[Len(loops)]
      BY <3>1, <3>2 DEF Loops, Last
    <3>4. l \in LoopRecords /\ Ended(trail, l)
      BY <2>1, <3>3
    <3> HIDE DEF l
    <3>5. l.from \in Nat /\ l.to \in Nat /\ l.iterations \in Nat /\ l.block \in Blocks
      BY <3>4 DEF LoopRecords
    <3> DEFINE n == Len(l.block.body)
    <3>6. n \in Nat
      BY <3>5 DEF Blocks
    <3>7. l.from + (l.iterations - 1) * n < l.to
      BY <3>4 DEF Ended
    <3>8. l.from + n < l.to
      <4> DEFINE m == l.iterations - 1
                 p == m * n
      <4>1. m \in Nat /\ m >= 1
        BY <3>1, <3>5, NumberAssumption
      <4> HIDE DEF m, n
      <4>2. p \in Nat /\ p >= n
        BY <3>6, <4>1
      <4>3. l.from + p < l.to
        BY <3>7 DEF m
      <4> HIDE DEF p
      <4> QED BY <3>5, <3>6, <4>2, <4>3
    <3>9. l.to - l.from > n
      <4> HIDE DEF n
      <4> QED BY <3>5, <3>6, <3>8
    <3>10. Means(l.block.when, l.from, l.to)
      BY <3>1, <3>4 DEF Ended, Means
    <3>11. l.block.when.kind # "elapsed"
      BY <3>1 DEF WorldReading
    <3>12. ~Means(l.block.when, l.from, l.from + n)
      <4>1. n > 0
        BY <3>4 DEF Ended
      <4> DEFINE j == l.from + n
      <4>2. j \in l.from + 1..l.to - 1
        <5> HIDE DEF n
        <5> QED BY <3>5, <3>6, <3>8, <4>1
      <4> HIDE DEF j
      <4>3. ~MeansIn(trail, l.block.when, l.from, j)
        BY <3>4, <4>2 DEF Ended
      <4> QED BY <4>3 DEF Means, j
    <3> QED BY <3>9, <3>10, <3>11, <3>12 DEF l
  <2> QED BY <2>3, <2>4, Zenon
<1> QED BY <1>1, Invariance, LoopInvariance, PTL
=============================================================================
