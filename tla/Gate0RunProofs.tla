--------------------------- MODULE Gate0RunProofs ---------------------------
(***************************************************************************)
(* Theorems about the live credit breaker, LiveCreditGuard, and about one   *)
(* paid run of the launchers, all its threads together, for every limit,    *)
(* every total and every bound on the pipe and the queue.                   *)
(*                                                                          *)
(* The breaker comes first.  Its inductive invariant says where each usage  *)
(* total is while it travels from observe() to the running total: still in  *)
(* the queue, ahead of the end marker; or inside the tracker's last total,  *)
(* which is what has been added up plus what the two hand-over slots hold.  *)
(*                                                                          *)
(* Then the run.  UsesGuard says that its steps are steps of the breaker or *)
(* leave it alone, so that what was shown of the breaker holds of the run;  *)
(* the other theorems add what the threads know of each other.              *)
(***************************************************************************)
EXTENDS Gate0Run, SequenceTheorems, TLAPS

(* A slot that holds no event is worth nothing; the puller holds an item    *)
(* only between its get and its put.                                        *)
Slots ==
  /\ hold.tag # "event" => hold.delta = 0
  /\ chan.tag # "event" => chan.delta = 0
  /\ puller # "put" => hold = Empty
  /\ puller = "put" => hold.tag # "empty"

(* The books are open exactly while the guard thread is before its verdict, *)
(* and while it is in the loop the total is under the limit.                *)
Books ==
  /\ verdict = "open" <=> guard \in {"start", "get"}
  /\ guard = "get" => total < Limit
  /\ guard = "start" => puller = "off"
  /\ puller = "off" => chan = Empty /\ baseline = 0
  /\ verdict = "completed" => guard = "done"
  /\ verdict = "lost" => guard = "dead"

IInv == TypeOK /\ Slots /\ Books /\ Accounting /\ ResultBeforeTrip

(* The queue is first in, first out around the end marker. *)
BeforeSentinel(i) == \A j \in 1..(i - 1) : gq[j] # Sentinel
Waiting(t) ==
  \E i \in 1..Len(gq) :
    gq[i].kind = "usage" /\ gq[i].total = t /\ BeforeSentinel(i)

(* The puller has taken the last item it will ever take. *)
Over == puller = "ended" \/ (puller = "put" /\ hold.tag # "event")
Closing == hold.tag = "done" \/ chan.tag = "done" \/ verdict = "completed"

(* Every total observed in time is accepted or waits ahead of the end       *)
(* marker; once the end marker was taken, all of them are accepted.         *)
Complete ==
  /\ ~sealed => \A i \in 1..Len(gq) : gq[i] # Sentinel
  /\ Closing => sealed
  /\ \A t \in offered : t <= baseline \/ Waiting(t)
  /\ Closing => \A t \in offered : t <= baseline
  /\ chan.tag \in {"done", "malformed", "crash"} => puller = "ended"
  /\ verdict = "completed" => /\ puller = "ended"
                              /\ chan = Empty
                              /\ total < Limit
                              /\ result = [state |-> "final", credits |-> total]

(* Conversely, what is added up was published in time. *)
Published ==
  /\ sealed => Over \/ \E j \in 1..Len(gq) : gq[j] = Sentinel
  /\ ~Over => \A i \in 1..Len(gq) :
       gq[i].kind = "usage" /\ BeforeSentinel(i) => gq[i].total \in offered
  /\ hold.delta > 0 => baseline \in offered
  /\ chan.delta > 0 /\ verdict = "open" =>
       total - Starting + chan.delta \in offered

-----------------------------------------------------------------------------
(* What _to_credit_event makes of a message: an item of the channel, worth  *)
(* something only if it is an event, and never "no item".                   *)
LEMMA ConvertItem ==
  ASSUME NEW m \in Msg \cup {Sentinel}, baseline \in 0..MaxTotal,
         NEW b \in BaselineAfter(m)
  PROVE  /\ Convert(m) \in Items
         /\ Convert(m).tag # "empty"
         /\ Convert(m).tag # "event" => Convert(m).delta = 0
         /\ Convert(m).tag = "done" => m = Sentinel
         /\ b \in baseline..MaxTotal
         /\ Convert(m).tag # "malformed" => b = baseline + Convert(m).delta
         /\ Convert(m).delta > 0 => m.kind = "usage" /\ b = m.total
         /\ m.kind = "usage" => m.total <= b
<1> USE GuardAssumption DEF GuardAssumption
<1>1. m.kind \in AllKinds \cup {"sentinel"} /\ m.total \in 0..MaxTotal
  <2>1. CASE m \in Msg
    BY <2>1 DEF Msg
  <2>2. CASE m = Sentinel
    BY <2>2 DEF Sentinel
  <2> QED BY <2>1, <2>2
<1>2. m.kind = "sentinel" => m = Sentinel
  <2>1. CASE m \in Msg
    BY <2>1 DEF Msg, AllKinds, UsageKinds
  <2> QED BY <2>1
<1>3. CASE Accepted(m)
  BY <1>1, <1>3 DEF Convert, BaselineAfter, Accepted, Item, Items
<1>4. CASE ~Accepted(m)
  <2>1. /\ Convert(m) \in Items /\ Convert(m).tag # "empty"
        /\ Convert(m).delta = 0
        /\ Convert(m).tag = "done" => m = Sentinel
        /\ m.kind \in UsageKinds => Convert(m).tag = "malformed"
    BY <1>1, <1>2, <1>4
       DEF Convert, Accepted, Item, Items, AllKinds, UsageKinds
  <2>2. /\ b \in baseline..MaxTotal
        /\ m.kind # "badUsage" => b = baseline
    BY <1>1, <1>4 DEF BaselineAfter
  <2>3. m.kind = "usage" => m.total <= b
    BY <1>1, <1>4, <2>2 DEF Accepted
  <2> QED BY <2>1, <2>2, <2>3 DEF UsageKinds
<1> QED BY <1>3, <1>4

(* The invariant holds at the start. *)
LEMMA InitIInv == GuardInit => IInv
<1> SUFFICES ASSUME GuardInit
             PROVE  IInv
  OBVIOUS
<1> USE GuardAssumption DEF GuardAssumption, GuardInit
<1>1. Empty \in Items /\ Empty.tag = "empty" /\ Empty.delta = 0
  BY DEF Items, Empty, Item
<1>2. TypeOK
  <2>1. gq \in Seq(Msg \cup {Sentinel})
    OBVIOUS
  <2>2. result \in [state : {"none", "tripped", "final"}, credits : Nat]
    BY DEF NoResult
  <2>3. baseline \in 0..MaxTotal /\ total \in Nat /\ offered \subseteq 0..MaxTotal
    OBVIOUS
  <2>4. hold \in Items /\ chan \in Items
    BY <1>1
  <2>5. /\ sealed \in BOOLEAN
        /\ puller \in {"off", "get", "put", "ended"}
        /\ guard \in {"start", "get", "trip", "done", "dead"}
        /\ verdict \in {"open", "tripped", "malformed", "lost", "completed"}
    OBVIOUS
  <2> HIDE DEF GuardInit
  <2> QED BY <2>1, <2>2, <2>3, <2>4, <2>5 DEF TypeOK
<1>3. Slots /\ Books /\ Accounting /\ ResultBeforeTrip
  BY <1>1 DEF Slots, Faulty, Books, Accounting, ResultBeforeTrip, ReportedTripped,
              NoResult
<1> QED BY <1>2, <1>3 DEF IInv

(* Every step keeps it: the hand-overs move the value of an item from the   *)
(* tracker to the hold, from there to the channel and from there to the     *)
(* total, and a verdict is reached together with its result.                *)
LEMMA StepIInv == IInv /\ [GuardNext]_guardVars => IInv'
<1> SUFFICES ASSUME IInv, [GuardNext]_guardVars
             PROVE  IInv'
  OBVIOUS
<1> USE GuardAssumption DEF GuardAssumption
<1> USE DEF IInv, TypeOK, Slots, Books, Accounting, ResultBeforeTrip,
            ReportedTripped, Faulty
<1>1. ASSUME NEW m \in Msg, Observe(m)
      PROVE  IInv'
  <2>1. gq' \in Seq(Msg \cup {Sentinel})
    BY <1>1 DEF Observe
  <2>2. m.total \in 0..MaxTotal
    BY DEF Msg
  <2>3. offered' \subseteq 0..MaxTotal
    BY <1>1, <2>2 DEF Observe
  <2> QED BY <1>1, <2>1, <2>3 DEF Observe
<1>2. CASE Finish
  BY <1>2 DEF Finish
<1>3. CASE GuardStart
  BY <1>3 DEF GuardStart
<1>4. CASE PullerGet
  <2> DEFINE m == Head(gq)
  <2>1. m \in Msg \cup {Sentinel} /\ Tail(gq) \in Seq(Msg \cup {Sentinel})
    BY <1>4 DEF PullerGet
  <2>2. hold' = Convert(m) /\ hold.delta = 0
    BY <1>4 DEF PullerGet, Empty, Item
  <2>3. hold' \in Items /\ hold'.tag # "empty"
        /\ (hold'.tag # "event" => hold'.delta = 0)
    BY <1>4, <2>1, <2>2, ConvertItem DEF PullerGet
  <2>4. /\ baseline' \in 0..MaxTotal
        /\ hold'.tag # "malformed" => baseline' = baseline + hold'.delta
    BY <1>4, <2>1, <2>2, ConvertItem DEF PullerGet
  <2>5. chan.delta \in Nat /\ hold'.delta \in Nat /\ hold.tag = "empty"
    BY <1>4, <2>3 DEF Items, PullerGet, Empty, Item
  <2>6. UNCHANGED <<sealed, chan, guard, total, verdict, result, offered>>
        /\ puller = "get" /\ puller' = "put" /\ gq' = Tail(gq)
    BY <1>4 DEF PullerGet
  <2> HIDE DEF m
  <2>7. Accounting'
    <3>1. CASE hold'.tag = "malformed" \/ Faulty
      BY <2>5, <2>6, <3>1
    <3>2. CASE hold'.tag # "malformed" /\ ~Faulty
      BY <2>2, <2>4, <2>5, <2>6, <3>2
    <3> QED BY <3>1, <3>2
  <2> QED BY <2>1, <2>3, <2>4, <2>6, <2>7
<1>5. CASE PullerPut
  BY <1>5 DEF PullerPut, Empty, Item, Items
<1>6. CASE ConsumeEvent
  BY <1>6 DEF ConsumeEvent, Empty, Item, Items
<1>7. CASE ConsumeDone
  BY <1>7 DEF ConsumeDone, Empty, Item, Items
<1>8. CASE ConsumeMalformed
  BY <1>8 DEF ConsumeMalformed, Malformed, Empty, Item, Items
<1>9. CASE ConsumerStall
  BY <1>9 DEF ConsumerStall, Malformed, Empty, Item, Items
<1>10. CASE ConsumeCrash
  BY <1>10 DEF ConsumeCrash, Empty, Item, Items
<1>11. CASE TripDone
  BY <1>11 DEF TripDone
<1>12. CASE UNCHANGED guardVars
  BY <1>12 DEF guardVars
<1> QED
  BY <1>1, <1>2, <1>3, <1>4, <1>5, <1>6, <1>7, <1>8, <1>9, <1>10, <1>11,
     <1>12 DEF GuardNext, Environment, Puller, Guard, Consumer

(* The inductive invariant of the breaker's hand-overs and books. *)
THEOREM Invariance == GuardSpec => []IInv
  BY InitIInv, StepIInv, PTL DEF GuardSpec

(* The threads never leave their states, whatever the child sends. *)
THEOREM TypeCorrect == GuardSpec => []TypeOK
<1>1. IInv => TypeOK
  BY DEF IInv
<1> QED BY <1>1, Invariance, PTL

(* No usage is lost or priced twice on its way through the hand-overs. *)
THEOREM UsageAccounted == GuardSpec => []Accounting
<1>1. IInv => Accounting
  BY DEF IInv
<1> QED BY <1>1, Invariance, PTL

(* on_trip never runs before the tripped result can be read. *)
THEOREM ResultIsFirst == GuardSpec => []ResultBeforeTrip
<1>1. IInv => ResultBeforeTrip
  BY DEF IInv
<1> QED BY <1>1, Invariance, PTL

(* The total stops moving at the first event that reaches the limit. *)
THEOREM StopsAtLimit == GuardSpec => HaltAtLimit
<1> DEFINE Halt == total' # total => /\ total < Limit
                                     /\ verdict = "open"
                                     /\ verdict' # "open" <=> total' >= Limit
<1>1. IInv /\ [GuardNext]_guardVars => [Halt]_guardVars
  <2> SUFFICES ASSUME IInv, GuardNext, total' # total
               PROVE  Halt
    OBVIOUS
  <2>1. ConsumeEvent
    BY DEF GuardNext, Environment, Puller, Guard, Consumer, Observe, Finish,
       GuardStart, PullerGet, PullerPut, ConsumeDone, ConsumeMalformed,
       Malformed, ConsumerStall, ConsumeCrash, TripDone
  <2> QED BY <2>1, GuardAssumption
          DEF GuardAssumption, ConsumeEvent, IInv, TypeOK, Books, Items
<1> QED BY <1>1, Invariance, PTL DEF GuardSpec, HaltAtLimit

(* Every trip has the books at the limit and more, and publishes no credits:  *)
(* _run stores only that it tripped, where gate0_credit_breaker.py promises   *)
(* the exact credits at the moment of the trip.                               *)
THEOREM TripsReportNothing ==
  GuardSpec => [](verdict = "tripped" => total >= Limit /\ ReportedCredits = 0)
<1> DEFINE AtLimit == verdict = "tripped" => total >= Limit
<1>1. GuardInit => AtLimit
  BY DEF GuardInit
<1>2. IInv /\ AtLimit /\ [GuardNext]_guardVars => AtLimit'
  <2> SUFFICES ASSUME IInv, AtLimit, [GuardNext]_guardVars
               PROVE  AtLimit'
    OBVIOUS
  <2>1. CASE GuardStart
    BY <2>1 DEF GuardStart
  <2>2. CASE ConsumeEvent
    BY <2>2 DEF ConsumeEvent, IInv, Books
  <2>3. CASE UNCHANGED <<verdict, total>>
    BY <2>3
  <2>4. verdict' \in {"completed", "malformed", "lost"} => AtLimit'
    OBVIOUS
  <2> QED BY <2>1, <2>2, <2>3, <2>4
          DEF GuardNext, Environment, Puller, Guard, Consumer, Observe, Finish,
              PullerGet, PullerPut, ConsumeDone, ConsumeMalformed, Malformed,
              ConsumerStall, ConsumeCrash, TripDone, guardVars
<1>3. IInv /\ verdict = "tripped" => ReportedCredits = 0
  BY DEF IInv, ResultBeforeTrip, ReportedTripped, ReportedCredits
<1> QED BY <1>1, <1>2, <1>3, Invariance, PTL DEF GuardSpec

-----------------------------------------------------------------------------
(* A message is never the end marker. *)
LEMMA MsgNotSentinel == Sentinel \notin Msg
  BY GuardAssumption DEF GuardAssumption, Msg, Sentinel, AllKinds, UsageKinds

(* A step that leaves queue, seal, tracker and offered totals alone only    *)
(* has to keep the parts of Complete that speak of the slots.               *)
LEMMA StillComplete ==
  ASSUME Complete, UNCHANGED <<gq, sealed, baseline, offered>>,
         Closing' => Closing
  PROVE  /\ ~sealed' => \A i \in 1..Len(gq') : gq'[i] # Sentinel
         /\ Closing' => sealed'
         /\ \A t \in offered' : t <= baseline' \/ Waiting(t)'
         /\ Closing' => \A t \in offered' : t <= baseline'
  BY DEF Complete, Waiting, BeforeSentinel

(* Every step keeps each observed total in sight. *)
LEMMA StepComplete ==
  ASSUME IInv, IInv', Complete, [GuardNext]_guardVars
  PROVE  Complete'
<1> USE GuardAssumption DEF GuardAssumption
<1>t. /\ gq \in Seq(Msg \cup {Sentinel}) /\ baseline \in 0..MaxTotal
      /\ offered \subseteq 0..MaxTotal /\ total \in Nat
      /\ chan \in Items /\ hold \in Items
  BY DEF IInv, TypeOK
<1>1. ASSUME NEW m \in Msg, Observe(m)
      PROVE  Complete'
  <2>1. /\ gq' = Append(gq, m) /\ Len(gq') = Len(gq) + 1
        /\ gq'[Len(gq) + 1] = m /\ \A i \in 1..Len(gq) : gq'[i] = gq[i]
        /\ Len(gq) \in Nat
    BY <1>1, <1>t DEF Observe
  <2>2. UNCHANGED <<sealed, baseline, puller, hold, chan, total, verdict, result>>
    BY <1>1 DEF Observe
  <2>3. ~sealed' => \A i \in 1..Len(gq') : gq'[i] # Sentinel
    BY <2>1, <2>2, MsgNotSentinel DEF Complete
  <2>4. Closing' <=> Closing
    BY <2>2 DEF Closing
  <2>5. ASSUME NEW t \in offered'
        PROVE  t <= baseline' \/ Waiting(t)'
    <3>1. CASE t \in offered
      <4>1. Waiting(t) => Waiting(t)'
        BY <2>1 DEF Waiting, BeforeSentinel
      <4> QED BY <3>1, <4>1, <2>2 DEF Complete
    <3>2. CASE t \notin offered
      <4>1. ~sealed /\ m.kind = "usage" /\ m.total = t
        BY <1>1, <2>5, <3>2 DEF Observe
      <4>2. \A j \in 1..Len(gq') : gq'[j] # Sentinel
        BY <2>2, <2>3, <4>1
      <4> QED BY <2>1, <4>1, <4>2 DEF Waiting, BeforeSentinel
    <3> QED BY <3>1, <3>2
  <2>6. Closing' => offered' = offered
    BY <1>1, <2>4 DEF Observe, Complete
  <2> QED BY <2>2, <2>3, <2>4, <2>5, <2>6 DEF Complete
<1>2. CASE Finish
  <2>1. /\ gq' = Append(gq, Sentinel) /\ Len(gq') = Len(gq) + 1
        /\ \A i \in 1..Len(gq) : gq'[i] = gq[i]
        /\ Len(gq) \in Nat
    BY <1>2, <1>t DEF Finish
  <2>2. /\ UNCHANGED <<baseline, puller, hold, chan, total, verdict, result,
                       offered>>
        /\ ~sealed /\ sealed'
    BY <1>2 DEF Finish
  <2>3. \A t \in offered : Waiting(t) => Waiting(t)'
    BY <2>1 DEF Waiting, BeforeSentinel
  <2>4. Closing' <=> Closing
    BY <2>2 DEF Closing
  <2> QED BY <2>2, <2>3, <2>4 DEF Complete
<1>3. CASE PullerGet
  <2> DEFINE m == Head(gq)
  <2>1. /\ gq # <<>> /\ gq' = Tail(gq) /\ Len(gq) \in Nat \ {0}
        /\ Len(gq') = Len(gq) - 1 /\ m = gq[1]
        /\ \A i \in 1..Len(gq') : gq'[i] = gq[i + 1]
        /\ m \in Msg \cup {Sentinel}
    BY <1>3, <1>t DEF PullerGet
  <2>2. /\ UNCHANGED <<sealed, chan, total, verdict, result, offered>>
        /\ hold' = Convert(m) /\ puller = "get" /\ puller' = "put"
        /\ baseline' \in BaselineAfter(m)
    BY <1>3 DEF PullerGet
  <2>3. baseline <= baseline' /\ baseline' \in 0..MaxTotal
    BY <1>t, <2>1, <2>2, ConvertItem
  <2>4. m.kind = "usage" => m.total <= baseline'
    BY <1>t, <2>1, <2>2, ConvertItem
  <2>5. hold'.tag = "done" => m = Sentinel
    BY <1>t, <2>1, <2>2, ConvertItem
  <2>6. chan.tag # "done" /\ verdict # "completed"
    BY <2>2 DEF Complete
  <2> HIDE DEF m
  <2>7. Closing' => m = Sentinel
    BY <2>2, <2>5, <2>6 DEF Closing
  <2>8. ASSUME NEW t \in offered, Waiting(t)
        PROVE  m # Sentinel /\ (t <= baseline' \/ Waiting(t)')
    <3>1. PICK i \in 1..Len(gq) : /\ gq[i].kind = "usage" /\ gq[i].total = t
                                  /\ \A j \in 1..(i - 1) : gq[j] # Sentinel
      BY <2>8 DEF Waiting, BeforeSentinel
    <3>2. CASE i = 1
      BY <2>1, <2>4, <3>1, <3>2 DEF Sentinel
    <3>3. CASE i # 1
      <4>1. i - 1 \in 1..Len(gq') /\ gq'[i - 1] = gq[i]
        BY <2>1, <3>3
      <4>2. \A j \in 1..(i - 1 - 1) : gq'[j] # Sentinel
        BY <2>1, <3>1, <3>3
      <4>3. Waiting(t)'
        BY <3>1, <4>1, <4>2 DEF Waiting, BeforeSentinel
      <4>4. m # Sentinel
        BY <2>1, <3>1, <3>3
      <4> QED BY <4>3, <4>4
    <3> QED BY <3>2, <3>3
  <2>9. \A t \in offered : t <= baseline => t <= baseline'
    BY <1>t, <2>3
  <2>10. ~sealed' => \A i \in 1..Len(gq') : gq'[i] # Sentinel
    BY <2>1, <2>2 DEF Complete
  <2>11. m = Sentinel => sealed
    <3>1. 1 \in 1..Len(gq) /\ gq[1] = m
      BY <2>1
    <3> QED BY <3>1 DEF Complete
  <2>12. Closing' => sealed'
    BY <2>2, <2>7, <2>11
  <2>13. \A t \in offered' : t <= baseline' \/ Waiting(t)'
    BY <2>2, <2>8, <2>9 DEF Complete
  <2>14. Closing' => \A t \in offered' : t <= baseline'
    BY <2>2, <2>7, <2>8, <2>9 DEF Complete
  <2> QED BY <2>2, <2>6, <2>10, <2>12, <2>13, <2>14 DEF Complete
<1>4. CASE PullerPut
  <2>1. /\ UNCHANGED <<gq, sealed, baseline, total, verdict, result, offered>>
        /\ chan' = hold /\ hold' = Empty /\ chan = Empty /\ puller = "put"
        /\ puller' = IF hold.tag = "event" THEN "get" ELSE "ended"
    BY <1>4 DEF PullerPut
  <2>2. Closing' => Closing
    BY <2>1 DEF Closing, Empty, Item
  <2>3. verdict # "completed"
    BY <2>1 DEF Complete
  <2>4. /\ ~sealed' => \A i \in 1..Len(gq') : gq'[i] # Sentinel
        /\ Closing' => sealed'
        /\ \A t \in offered' : t <= baseline' \/ Waiting(t)'
        /\ Closing' => \A t \in offered' : t <= baseline'
    BY <2>1, <2>2, StillComplete
  <2> QED BY <2>1, <2>3, <2>4 DEF Complete
<1>5. ASSUME UNCHANGED <<gq, sealed, baseline, hold, puller, offered>>,
             Closing' => Closing,
             chan' \in {chan, Empty},
             verdict' = "completed" =>
               /\ puller' = "ended" /\ chan' = Empty /\ total' < Limit
               /\ result' = [state |-> "final", credits |-> total']
      PROVE  Complete'
  <2>1. /\ ~sealed' => \A i \in 1..Len(gq') : gq'[i] # Sentinel
        /\ Closing' => sealed'
        /\ \A t \in offered' : t <= baseline' \/ Waiting(t)'
        /\ Closing' => \A t \in offered' : t <= baseline'
    BY <1>5, StillComplete
  <2>2. chan'.tag \in {"done", "malformed", "crash"} => puller' = "ended"
    BY <1>5 DEF Complete, Empty, Item
  <2> QED BY <1>5, <2>1, <2>2 DEF Complete
<1>6. CASE GuardStart
  <2>1. chan = Empty /\ puller = "off" /\ hold = Empty
    BY <1>6 DEF GuardStart, IInv, Slots, Books
  <2>2. /\ UNCHANGED <<gq, sealed, baseline, hold, chan, offered>>
        /\ verdict = "open" /\ verdict' # "completed"
        /\ guard = "start"
    BY <1>6 DEF GuardStart, IInv, Books
  <2>3. Closing' => Closing
    BY <2>2 DEF Closing
  <2>4. /\ ~sealed' => \A i \in 1..Len(gq') : gq'[i] # Sentinel
        /\ Closing' => sealed'
        /\ \A t \in offered' : t <= baseline' \/ Waiting(t)'
        /\ Closing' => \A t \in offered' : t <= baseline'
    BY <2>2, <2>3, StillComplete
  <2> QED BY <2>1, <2>2, <2>4 DEF Complete, Empty, Item
<1>7. CASE ConsumeEvent
  BY <1>5, <1>7 DEF ConsumeEvent, Closing, Empty, Item, IInv, Books
<1>8. CASE ConsumeDone
  BY <1>5, <1>8 DEF ConsumeDone, Closing, Empty, Item, IInv, Books, Complete
<1>9. CASE ConsumeMalformed
  BY <1>5, <1>9 DEF ConsumeMalformed, Malformed, Closing, Empty, Item
<1>10. CASE ConsumerStall
  BY <1>5, <1>10 DEF ConsumerStall, Malformed, Closing
<1>11. CASE ConsumeCrash
  BY <1>5, <1>11 DEF ConsumeCrash, Closing, Empty, Item
<1>12. CASE TripDone
  BY <1>5, <1>12 DEF TripDone, Closing, Complete
<1>13. CASE UNCHANGED guardVars
  BY <1>5, <1>13 DEF guardVars, Closing, Complete
<1> QED
  BY <1>1, <1>2, <1>3, <1>4, <1>6, <1>7, <1>8, <1>9, <1>10, <1>11, <1>12,
     <1>13 DEF GuardNext, Environment, Puller, Guard, Consumer

(* Nothing is observed yet, so nothing can be missing. *)
LEMMA InitComplete == GuardInit => Complete
  BY DEF GuardInit, Complete, Closing, Empty, Item

(* A clean end vouches for every total observed before finish(), for every  *)
(* interleaving of the sender, the puller and the guard thread.             *)
THEOREM CleanEnd == GuardSpec => []CleanEndIsComplete
<1>1. IInv /\ Complete => CleanEndIsComplete
  <2> SUFFICES ASSUME IInv, Complete, verdict = "completed"
               PROVE  CleanEndIsComplete
    BY DEF CleanEndIsComplete
  <2>1. total + chan.delta + hold.delta = Starting + baseline
    BY DEF IInv, Slots, Accounting, Faulty, Complete, Empty, Item
  <2>2. chan.delta = 0 /\ hold.delta = 0 /\ total \in Nat
        /\ baseline \in 0..MaxTotal
    BY DEF IInv, TypeOK, Slots, Complete, Empty, Item
  <2>3. \A t \in offered : t <= baseline
    BY DEF Complete, Closing
  <2>4. \A t \in offered : Starting + t <= total
    BY <2>1, <2>2, <2>3, GuardAssumption DEF GuardAssumption, IInv, TypeOK
  <2> QED BY <2>4 DEF CleanEndIsComplete, Complete, Closing, ReportedCredits
<1> QED BY <1>1, InitIInv, StepIInv, InitComplete, StepComplete, PTL
        DEF GuardSpec

-----------------------------------------------------------------------------
(* Nothing is added up yet, so everything that is was published. *)
LEMMA InitPublished == GuardInit => Published
  BY DEF GuardInit, Published, Empty, Item

(* A step that takes nothing off the queue and publishes nothing. *)
LEMMA StillPublished ==
  ASSUME Published, UNCHANGED <<gq, sealed, offered>>, Over' <=> Over,
         hold'.delta > 0 => baseline' \in offered',
         chan'.delta > 0 /\ verdict' = "open" =>
           total' - Starting + chan'.delta \in offered'
  PROVE  Published'
  BY DEF Published, BeforeSentinel

(* Every step keeps what is added up, held or queued ahead of the end       *)
(* marker among the totals published in time.                               *)
LEMMA StepPublished ==
  ASSUME IInv, IInv', Complete, Published, [GuardNext]_guardVars
  PROVE  Published'
<1> USE GuardAssumption DEF GuardAssumption
<1>t. /\ gq \in Seq(Msg \cup {Sentinel}) /\ baseline \in 0..MaxTotal
      /\ offered \subseteq 0..MaxTotal /\ total \in Nat
      /\ chan \in Items /\ hold \in Items
  BY DEF IInv, TypeOK
<1>e. Empty.tag = "empty" /\ Empty.delta = 0
  BY DEF Empty, Item
<1>1. ASSUME NEW m \in Msg, Observe(m)
      PROVE  Published'
  <2>1. /\ gq' = Append(gq, m) /\ Len(gq') = Len(gq) + 1
        /\ gq'[Len(gq) + 1] = m /\ \A i \in 1..Len(gq) : gq'[i] = gq[i]
        /\ Len(gq) \in Nat
    BY <1>1, <1>t DEF Observe
  <2>2. /\ UNCHANGED <<sealed, baseline, puller, hold, chan, total, verdict>>
        /\ offered \subseteq offered'
        /\ m.kind = "usage" /\ ~sealed => m.total \in offered'
    BY <1>1 DEF Observe
  <2>3. Over' <=> Over
    BY <2>2 DEF Over
  <2>4. sealed' => Over' \/ \E j \in 1..Len(gq') : gq'[j] = Sentinel
    BY <2>1, <2>2, <2>3 DEF Published
  <2>5. ASSUME ~Over', NEW i \in 1..Len(gq'), gq'[i].kind = "usage",
               BeforeSentinel(i)'
        PROVE  gq'[i].total \in offered'
    <3>1. CASE i \in 1..Len(gq)
      <4>1. gq'[i] = gq[i] /\ BeforeSentinel(i)
        BY <2>1, <2>5, <3>1 DEF BeforeSentinel
      <4> QED BY <2>2, <2>3, <2>5, <3>1, <4>1 DEF Published
    <3>2. CASE i = Len(gq) + 1
      <4>1. \A j \in 1..Len(gq) : gq[j] # Sentinel
        BY <2>1, <2>5, <3>2 DEF BeforeSentinel
      <4>2. ~sealed
        BY <2>3, <2>5, <4>1 DEF Published
      <4> QED BY <2>1, <2>2, <2>5, <3>2, <4>2
    <3> QED BY <2>1, <3>1, <3>2
  <2> QED BY <2>2, <2>4, <2>5 DEF Published
<1>2. CASE Finish
  <2>1. /\ gq' = Append(gq, Sentinel) /\ Len(gq') = Len(gq) + 1
        /\ gq'[Len(gq) + 1] = Sentinel
        /\ \A i \in 1..Len(gq) : gq'[i] = gq[i]
        /\ Len(gq) \in Nat
    BY <1>2, <1>t DEF Finish
  <2>2. UNCHANGED <<baseline, puller, hold, chan, total, verdict, offered>>
    BY <1>2 DEF Finish
  <2>3. Over' <=> Over
    BY <2>2 DEF Over
  <2>4. ASSUME ~Over', NEW i \in 1..Len(gq'), gq'[i].kind = "usage",
               BeforeSentinel(i)'
        PROVE  gq'[i].total \in offered'
    <3>1. i # Len(gq) + 1
      BY <2>1, <2>4 DEF Sentinel
    <3>2. i \in 1..Len(gq)
      BY <2>1, <3>1
    <3>3. gq'[i] = gq[i] /\ BeforeSentinel(i)
      BY <2>1, <2>4, <3>2 DEF BeforeSentinel
    <3> QED BY <2>2, <2>3, <2>4, <3>2, <3>3 DEF Published
  <2>5. \E j \in 1..Len(gq') : gq'[j] = Sentinel
    BY <2>1
  <2> QED BY <2>2, <2>4, <2>5 DEF Published
<1>3. CASE PullerGet
  <2> DEFINE m == Head(gq)
  <2>1. /\ gq # <<>> /\ gq' = Tail(gq) /\ Len(gq) \in Nat \ {0}
        /\ Len(gq') = Len(gq) - 1 /\ m = gq[1]
        /\ \A i \in 1..Len(gq') : gq'[i] = gq[i + 1]
        /\ m \in Msg \cup {Sentinel}
    BY <1>3, <1>t DEF PullerGet
  <2>2. /\ UNCHANGED <<sealed, chan, total, verdict, offered>>
        /\ hold' = Convert(m) /\ puller = "get" /\ puller' = "put"
        /\ baseline' \in BaselineAfter(m)
    BY <1>3 DEF PullerGet
  <2>3. ~Over /\ (Over' <=> hold'.tag # "event")
    BY <2>2 DEF Over
  <2>4. m.kind = "usage" => m.total \in offered
    <3>1. 1 \in 1..Len(gq) /\ gq[1] = m /\ BeforeSentinel(1)
      BY <2>1 DEF BeforeSentinel
    <3> QED BY <2>3, <3>1 DEF Published
  <2>5. hold'.delta > 0 => baseline' \in offered'
    BY <1>t, <2>1, <2>2, <2>4, ConvertItem
  <2>6. m = Sentinel => hold'.tag # "event"
    BY <2>2 DEF Convert, Accepted, Item, Sentinel
  <2> HIDE DEF m
  <2>7. sealed' => Over' \/ \E j \in 1..Len(gq') : gq'[j] = Sentinel
    <3> SUFFICES ASSUME sealed, ~Over'
                 PROVE  \E j \in 1..Len(gq') : gq'[j] = Sentinel
      BY <2>2
    <3>1. PICK j \in 1..Len(gq) : gq[j] = Sentinel
      BY <2>3 DEF Published
    <3>2. j # 1
      BY <2>1, <2>3, <2>6, <3>1
    <3>3. j - 1 \in 1..Len(gq') /\ gq'[j - 1] = Sentinel
      BY <2>1, <3>1, <3>2
    <3> QED BY <3>3
  <2>8. ASSUME ~Over', NEW i \in 1..Len(gq'), gq'[i].kind = "usage",
               BeforeSentinel(i)'
        PROVE  gq'[i].total \in offered'
    <3>1. i + 1 \in 1..Len(gq) /\ gq[i + 1] = gq'[i] /\ m # Sentinel
      BY <2>1, <2>3, <2>6, <2>8
    <3>2. BeforeSentinel(i + 1)
      <4> SUFFICES ASSUME NEW j \in 1..i
                   PROVE  gq[j] # Sentinel
        BY DEF BeforeSentinel
      <4>1. CASE j = 1
        BY <2>1, <3>1, <4>1
      <4>2. CASE j # 1
        <5>1. j - 1 \in 1..(i - 1) /\ j - 1 \in 1..Len(gq')
              /\ gq'[j - 1] = gq[j]
          BY <2>1, <4>2
        <5> QED BY <2>8, <5>1 DEF BeforeSentinel
      <4> QED BY <4>1, <4>2
    <3> QED BY <2>2, <2>3, <2>8, <3>1, <3>2 DEF Published
  <2> QED BY <2>2, <2>5, <2>7, <2>8 DEF Published
<1>4. CASE PullerPut
  <2>1. /\ UNCHANGED <<gq, sealed, baseline, total, verdict, offered>>
        /\ chan' = hold /\ hold' = Empty /\ chan = Empty /\ puller = "put"
        /\ puller' = IF hold.tag = "event" THEN "get" ELSE "ended"
    BY <1>4 DEF PullerPut
  <2>2. hold.delta > 0 /\ verdict = "open" =>
          total - Starting + hold.delta = baseline
    <3>1. hold.delta > 0 => hold.tag = "event"
      BY DEF IInv, Slots
    <3> QED BY <1>e, <1>t, <2>1, <3>1 DEF IInv, Accounting, Faulty, Items
  <2>3. Over' <=> Over
    BY <2>1 DEF Over
  <2> QED BY <1>e, <2>1, <2>2, <2>3, StillPublished DEF Published
<1>5. CASE GuardStart
  <2>1. UNCHANGED <<gq, sealed, baseline, hold, chan, total, offered>>
        /\ (verdict' = "open" => verdict = "open")
        /\ puller = "off" /\ puller' # "ended" /\ puller' # "put"
    BY <1>5 DEF GuardStart, IInv, Books
  <2>2. Over' <=> Over
    BY <2>1 DEF Over
  <2> QED BY <2>1, <2>2, StillPublished DEF Published
<1>6. ASSUME UNCHANGED <<gq, sealed, baseline, puller, hold, offered>>,
             chan' = Empty \/ (chan' = chan /\ total' = total),
             verdict' = "open" => verdict = "open"
      PROVE  Published'
  <2>1. Over' <=> Over
    BY <1>6 DEF Over
  <2> QED BY <1>e, <1>6, <2>1, StillPublished DEF Published
<1>7. CASE ConsumeEvent
  BY <1>6, <1>7 DEF ConsumeEvent
<1>8. CASE ConsumeDone
  BY <1>6, <1>8 DEF ConsumeDone
<1>9. CASE ConsumeMalformed
  BY <1>6, <1>9 DEF ConsumeMalformed, Malformed
<1>10. CASE ConsumerStall
  BY <1>6, <1>10 DEF ConsumerStall, Malformed
<1>11. CASE ConsumeCrash
  BY <1>6, <1>11 DEF ConsumeCrash
<1>12. CASE TripDone
  BY <1>6, <1>12 DEF TripDone
<1>13. CASE UNCHANGED guardVars
  BY <1>6, <1>13 DEF guardVars
<1> QED
  BY <1>1, <1>2, <1>3, <1>4, <1>5, <1>7, <1>8, <1>9, <1>10, <1>11, <1>12,
     <1>13 DEF GuardNext, Environment, Puller, Guard, Consumer

-----------------------------------------------------------------------------
(* The guard starts with the books of the ceiling's first state. *)
LEMMA InitImplements == GuardInit => Ceiling!Init
  BY GuardAssumption DEF GuardAssumption, GuardInit, Ceiling!Init

(* Every step of the threads is a step of the abstract ceiling, or none. *)
LEMMA StepImplements ==
  ASSUME IInv, IInv', Complete, Published, [GuardNext]_guardVars
  PROVE  [Ceiling!Next]_Ceiling!vars
<1> USE GuardAssumption DEF GuardAssumption
<1>t. /\ baseline \in 0..MaxTotal /\ offered \subseteq 0..MaxTotal
      /\ total \in Nat /\ chan \in Items /\ hold \in Items
  BY DEF IInv, TypeOK
<1>1. ASSUME NEW m \in Msg, Observe(m)
      PROVE  [Ceiling!Next]_Ceiling!vars
  <2>1. UNCHANGED <<sealed, total, verdict>>
    BY <1>1 DEF Observe
  <2>2. CASE offered' = offered
    BY <2>1, <2>2 DEF Ceiling!vars
  <2>3. CASE offered' # offered
    <3>1. ~sealed /\ offered' = offered \cup {m.total} /\ m.total \in 0..MaxTotal
      BY <1>1, <2>3 DEF Observe, Msg
    <3>2. Ceiling!Offer(m.total)
      BY <2>1, <3>1 DEF Ceiling!Offer
    <3> QED BY <3>1, <3>2 DEF Ceiling!Next
  <2> QED BY <2>2, <2>3
<1>2. CASE Finish
  BY <1>2 DEF Finish, Ceiling!Next, Ceiling!Seal
<1>3. CASE GuardStart
  <2>1. verdict = "open" /\ UNCHANGED <<offered, sealed, total>>
    BY <1>3 DEF GuardStart, IInv, Books
  <2>2. CASE total >= Limit
    <3>1. verdict' = "tripped"
      BY <1>3, <2>2 DEF GuardStart
    <3>2. total = Starting
      <4>1. puller = "off" /\ chan = Empty /\ baseline = 0 /\ hold = Empty
        BY <1>3 DEF GuardStart, IInv, Books, Slots
      <4> QED BY <1>t, <2>1, <4>1 DEF IInv, Accounting, Faulty, Empty, Item
    <3>3. Ceiling!TripAtStart
      BY <2>1, <2>2, <3>1, <3>2 DEF Ceiling!TripAtStart
    <3> QED BY <3>3 DEF Ceiling!Next
  <2>3. CASE ~(total >= Limit)
    BY <1>3, <2>1, <2>3 DEF GuardStart, Ceiling!vars
  <2> QED BY <2>2, <2>3
<1>4. CASE ConsumeEvent
  <2>1. /\ guard = "get" /\ total' = total + chan.delta /\ chan.delta \in Nat
        /\ UNCHANGED <<offered, sealed>>
        /\ verdict' = IF total' >= Limit THEN "tripped" ELSE verdict
    BY <1>4, <1>t DEF ConsumeEvent, Items
  <2>2. verdict = "open" /\ total < Limit
    BY <2>1 DEF IInv, Books
  <2>3. CASE chan.delta = 0
    BY <1>t, <2>1, <2>2, <2>3 DEF Ceiling!vars
  <2>4. CASE chan.delta > 0
    <3> DEFINE t == total' - Starting
    <3>1. t \in offered /\ t \in 0..MaxTotal
      BY <1>t, <2>1, <2>2, <2>4 DEF Published
    <3>2. Ceiling!Vouch(t)
      BY <1>t, <2>1, <2>2, <3>1 DEF Ceiling!Vouch
    <3> QED BY <3>1, <3>2 DEF Ceiling!Next
  <2> QED BY <2>1, <2>3, <2>4
<1>5. CASE ConsumeDone
  <2>1. /\ verdict = "open" /\ verdict' = "completed"
        /\ UNCHANGED <<offered, sealed, total>>
        /\ chan.tag = "done"
    BY <1>5 DEF ConsumeDone, IInv, Books
  <2>2. sealed /\ (\A t \in offered : t <= baseline) /\ puller = "ended"
    BY <2>1 DEF Complete, Closing
  <2>3. /\ hold.delta = 0 /\ chan.delta = 0
        /\ total + chan.delta + hold.delta = Starting + baseline
    BY <2>1, <2>2 DEF IInv, Slots, Accounting, Faulty, Empty, Item
  <2>4. \A t \in offered : t <= total - Starting
    BY <1>t, <2>2, <2>3
  <2>5. Ceiling!Complete
    BY <2>1, <2>2, <2>4 DEF Ceiling!Complete
  <2> QED BY <2>5 DEF Ceiling!Next
<1>6. ASSUME guard = "get", verdict' \in {"malformed", "lost"},
             UNCHANGED <<offered, sealed, total>>
      PROVE  [Ceiling!Next]_Ceiling!vars
  BY <1>6 DEF IInv, Books, Ceiling!Next, Ceiling!GiveUp
<1>7. CASE ConsumeMalformed \/ ConsumerStall
  BY <1>6, <1>7 DEF ConsumeMalformed, ConsumerStall, Malformed
<1>8. CASE ConsumeCrash
  BY <1>6, <1>8 DEF ConsumeCrash
<1>9. CASE PullerGet \/ PullerPut \/ TripDone \/ UNCHANGED guardVars
  BY <1>9 DEF PullerGet, PullerPut, TripDone, guardVars, Ceiling!vars
<1> QED
  BY <1>1, <1>2, <1>3, <1>4, <1>5, <1>7, <1>8, <1>9
     DEF GuardNext, Environment, Puller, Guard, Consumer

(* The two threads, the queue and the one-slot channel implement the        *)
(* abstract ceiling.                                                        *)
THEOREM Refinement == GuardSpec => ImplementsCeiling
<1>2. GuardSpec => [](IInv /\ Complete /\ Published)
  BY InitIInv, StepIInv, InitComplete, StepComplete, InitPublished,
     StepPublished, PTL DEF GuardSpec
<1> QED BY <1>2, InitImplements, StepImplements, PTL
        DEF GuardSpec, ImplementsCeiling, Ceiling!Spec

-----------------------------------------------------------------------------
(* One paid run.                                                            *)

RunTypes ==
  /\ main \in {"boot", "created", "connected", "handshake", "turn", "wait",
               "finish", "join", "close", "closed", "done", "failed"}
  /\ client \in BOOLEAN /\ pid \in BOOLEAN /\ stop \in BOOLEAN
  /\ answered \in BOOLEAN /\ ended \in BOOLEAN
  /\ turn \in {"none", "on", "over"}
  /\ spent \in 0..MaxTotal
  /\ pipe \in Seq(Lines) /\ line \in Lines

(* Where the main thread is says what it has done.                           *)
Phases ==
  /\ main \in {"boot", "created"} =>
       child = "none" /\ reader = "off" /\ pipe = <<>>
  /\ transport = "none" <=> main \in {"boot", "created"}
  /\ client <=> main # "boot"
  /\ pid <=> main \notin {"boot", "created", "connected"}
  /\ main \in {"boot", "created", "connected", "handshake"} => turn = "none"
  /\ main \in {"boot", "created", "connected"} =>
       /\ ~answered /\ line.kind # "response"
       /\ \A i \in 1..Len(pipe) : pipe[i].kind # "response"
  /\ sealed <=> main \in {"join", "close", "closed", "done", "failed"}

(* What on_trip leaves behind.  A client it closed has no transport any more *)
(* or, closed before it had one, a reader that ends before its first line.   *)
Cut == transport = "closed" \/ (reader \in {"off", "check", "ended"} /\ ~answered)
Tripping ==
  /\ trip \in {"idle", "closed", "blind", "killed"}
  /\ trip # "idle" => verdict \in {"tripped", "malformed"}
  /\ guard = "done" /\ trip = "idle" => verdict = "completed"
  /\ trip = "closed" => stop /\ client /\ Cut
  /\ trip = "killed" => pid /\ child = "dead"
  /\ trip = "closed" /\ guard = "done" => turn = "none"

RunControl == RunTypes /\ Phases /\ Tripping

-----------------------------------------------------------------------------
(* A line of the child that the reader shows to the guard is a message.      *)
LEMMA ObservedIsMsg ==
  ASSUME NEW l \in Lines
  PROVE  /\ Observed(l) \in Msg
         /\ Observed(l).kind \in {"usage", "other"}
         /\ Observed(l).kind = "usage" <=> l.kind = "usage"
         /\ l.kind = "usage" => Observed(l) = l
<1> USE RunAssumption, GuardAssumption DEF RunAssumption, GuardAssumption
<1>1. CASE l.kind = "usage"
  BY <1>1 DEF Observed, Lines, Msg, UsageKinds
<1>2. CASE l.kind # "usage"
  <2>1. Observed(l) = [kind |-> "other", total |-> 0]
    BY <1>2 DEF Observed, Line
  <2> QED BY <1>2, <2>1 DEF Msg, UsageKinds
<1> QED BY <1>1, <1>2

(* Every step of the run is a step of the guard or leaves it alone.          *)
LEMMA StepUsesGuard ==
  ASSUME RunTypes, [Next]_vars
  PROVE  [GuardNext]_guardVars
<1>1. CASE Main
  BY <1>1 DEF Main, CreateClient, Connect, RegisterPid, StartTurn, TurnAnswered,
     RequestTimeout, TurnEnded, WaitTimeout, FinishGuard, JoinReturns,
     CloseClient, Publish, GuardNext, Environment
<1>2. CASE Child
  BY <1>2 DEF Child, ChildAnswers, ChildSpends, ChildEndsTurn, ChildGarbles,
     ChildDies
<1>3. CASE Reader
  <2>1. CASE ReaderObserves
    BY <2>1, ObservedIsMsg DEF ReaderObserves, RunTypes, GuardNext, Environment
  <2> QED BY <1>3, <2>1 DEF Reader, ReaderCheck, ReaderReads, ReaderEOF,
          ReaderDispatches
<1>4. CASE OnTrip
  BY <1>4 DEF OnTrip, TripClose, TripKill, GuardNext
<1>5. CASE GuardThreads
  BY <1>5 DEF GuardThreads, GuardNext
<1>6. CASE UNCHANGED vars
  BY <1>6 DEF vars
<1> QED BY <1>1, <1>2, <1>3, <1>4, <1>5, <1>6 DEF Next

(* What the guard's own threads may do to what the others read: nothing once *)
(* the books are closed; and they end by themselves only when complete.      *)
LEMMA GuardThreadsEffect ==
  ASSUME IInv, GuardThreads
  PROVE  /\ UNCHANGED <<mainVars, closeVars, childVars, readerVars>>
         /\ UNCHANGED <<sealed, offered>>
         /\ guard \notin {"start", "get"} => UNCHANGED <<guard, verdict, result, total>>
         /\ guard' = "done" /\ guard # "done" => verdict' = "completed"
BY DEF GuardThreads, Puller, Guard, Consumer, PullerGet, PullerPut, GuardStart,
   ConsumeEvent, ConsumeDone, ConsumeMalformed, ConsumerStall, Malformed,
   ConsumeCrash

-----------------------------------------------------------------------------
LEMMA InitControl == Init => RunControl
<1> SUFFICES ASSUME Init PROVE RunControl
  OBVIOUS
<1>1. MaxTotal \in Nat
  BY GuardAssumption DEF GuardAssumption
<1>2. pipe = <<>> /\ <<>> \in Seq(Lines)
  BY DEF Init
<1>3. NoLine \in Lines
  BY <1>1 DEF NoLine, Line, Lines
<1>4. RunTypes
  <2>1. /\ main = "boot" /\ turn = "none" /\ spent = 0 /\ line = NoLine
        /\ client = FALSE /\ pid = FALSE /\ stop = FALSE /\ answered = FALSE
        /\ ended = FALSE
    BY DEF Init
  <2>2. spent \in 0..MaxTotal
    BY <1>1, <2>1
  <2>3. /\ client \in BOOLEAN /\ pid \in BOOLEAN /\ stop \in BOOLEAN
        /\ answered \in BOOLEAN /\ ended \in BOOLEAN
    BY <2>1
  <2> QED BY <1>2, <1>3, <2>1, <2>2, <2>3 DEF RunTypes
<1>5. Phases /\ Tripping
  BY DEF Init, GuardInit, Phases, Tripping, NoLine, Line
<1> QED BY <1>4, <1>5 DEF RunControl

(* The types are kept: the child's lines are lines, its spend stays bounded. *)
LEMMA StepTypes ==
  ASSUME RunTypes, IInv, [Next]_vars
  PROVE  RunTypes'
<1> USE DEF RunTypes
<1>0. MaxTotal \in Nat /\ spent \in 0..MaxTotal
  BY GuardAssumption DEF GuardAssumption
<1>1. CASE Main
  BY <1>1 DEF Main, CreateClient, Connect, RegisterPid, StartTurn, TurnAnswered,
     RequestTimeout, TurnEnded, WaitTimeout, FinishGuard, JoinReturns,
     CloseClient, CloseEffect, Publish, SendOrRaise, mainVars, childVars,
     closeVars, readerVars
<1>2. CASE Child
  <2>1. ASSUME NEW l \in Lines, Emit(l) PROVE pipe' \in Seq(Lines)
    BY <2>1 DEF Emit
  <2>2. CASE ChildSpends
    <3>1. spent' \in 0..MaxTotal
      BY <1>0, <2>2 DEF ChildSpends
    <3>2. UsageLine(spent') \in Lines
      BY <3>1 DEF UsageLine, Lines
    <3> QED BY <2>1, <2>2, <3>1, <3>2 DEF ChildSpends, mainVars, closeVars, readerVars
  <2>3. \A k \in {"response", "terminal", "garbage"} : Line(k) \in Lines
    BY <1>0 DEF Line, Lines
  <2>4. CASE ChildAnswers \/ ChildEndsTurn \/ ChildGarbles \/ ChildDies
    BY <2>1, <2>3, <2>4 DEF ChildAnswers, ChildEndsTurn, ChildGarbles, ChildDies,
       mainVars, closeVars, readerVars
  <2> QED BY <1>2, <2>2, <2>4 DEF Child
<1>3. CASE Reader
  <2>1. NoLine \in Lines
    BY <1>0 DEF NoLine, Line, Lines
  <2>2. CASE ReaderReads
    BY <2>1, <2>2 DEF ReaderReads, mainVars, closeVars
  <2>3. CASE ReaderDispatches
    <3>1. answered' \in BOOLEAN /\ ended' \in BOOLEAN
      BY <2>3 DEF ReaderDispatches
    <3> QED BY <2>1, <2>3, <3>1 DEF ReaderDispatches, mainVars, closeVars, childVars
  <2>4. CASE ReaderCheck \/ ReaderEOF \/ ReaderObserves
    BY <2>4 DEF ReaderCheck, ReaderEOF, ReaderObserves, mainVars, closeVars,
       childVars
  <2> QED BY <1>3, <2>2, <2>3, <2>4 DEF Reader
<1>4. CASE OnTrip
  BY <1>4 DEF OnTrip, TripClose, TripKill, CloseEffect, mainVars, readerVars
<1>5. CASE GuardThreads
  BY <1>5 DEF GuardThreads, mainVars, closeVars, childVars, readerVars
<1>6. CASE UNCHANGED vars
  BY <1>6 DEF vars, mainVars, closeVars, childVars, readerVars
<1> QED BY <1>1, <1>2, <1>3, <1>4, <1>5, <1>6 DEF Next

(* What the threads know of each other is kept.                              *)
LEMMA StepPhases ==
  ASSUME RunControl, IInv, [Next]_vars
  PROVE  Phases'
<1> USE DEF RunControl, RunTypes, Phases
<1>1. CASE Main
  BY <1>1 DEF Main, CreateClient, Connect, RegisterPid, StartTurn, TurnAnswered,
     RequestTimeout, TurnEnded, WaitTimeout, FinishGuard, JoinReturns,
     CloseClient, CloseEffect, Publish, SendOrRaise, mainVars, childVars,
     closeVars, readerVars, guardVars, Finish
<1>2. CASE Child
  <2>1. CASE ChildAnswers \/ ChildDies
    BY <2>1 DEF ChildAnswers, ChildDies, Alive, mainVars, closeVars, readerVars,
       guardVars
  <2>2. CASE ChildEndsTurn \/ ChildSpends
    BY <2>2 DEF ChildEndsTurn, ChildSpends, Alive, mainVars, closeVars,
       readerVars, guardVars
  <2>3. CASE ChildGarbles
    <3> DEFINE l == Line("garbage")
    <3>1. l \in Lines /\ l.kind # "response"
      BY GuardAssumption DEF GuardAssumption, Line, Lines
    <3>2. /\ Alive /\ pipe' = Append(pipe, l)
          /\ UNCHANGED <<guardVars, mainVars, closeVars, child, turn, readerVars>>
      BY <2>3 DEF ChildGarbles, Emit
    <3> HIDE DEF l
    <3>3. main \in {"boot", "created", "connected"} =>
            \A i \in 1..Len(pipe') : pipe'[i].kind # "response"
      BY <3>1, <3>2
    <3> QED BY <3>2, <3>3 DEF Alive, mainVars, closeVars, readerVars, guardVars
  <2> QED BY <1>2, <2>1, <2>2, <2>3 DEF Child
<1>3. CASE Reader
  <2>1. CASE ReaderReads
    BY <2>1 DEF ReaderReads, mainVars, closeVars, guardVars, NoLine, Line
  <2>2. CASE ReaderDispatches
    BY <2>2 DEF ReaderDispatches, mainVars, closeVars, childVars, guardVars,
       NoLine, Line
  <2>3. CASE ReaderCheck \/ ReaderEOF \/ ReaderObserves
    BY <2>3 DEF ReaderCheck, ReaderEOF, ReaderObserves, Observe, mainVars,
       closeVars, childVars, guardVars
  <2> QED BY <1>3, <2>1, <2>2, <2>3 DEF Reader
<1>4. CASE OnTrip
  BY <1>4 DEF OnTrip, TripClose, TripKill, TripDone, CloseEffect, mainVars,
     closeVars, readerVars, guardVars
<1>5. CASE GuardThreads
  BY <1>5, GuardThreadsEffect DEF mainVars, closeVars, childVars, readerVars
<1>6. CASE UNCHANGED vars
  BY <1>6 DEF vars, mainVars, closeVars, childVars, readerVars, guardVars
<1> QED BY <1>1, <1>2, <1>3, <1>4, <1>5, <1>6 DEF Next

LEMMA StepTripping ==
  ASSUME RunControl, IInv, [Next]_vars
  PROVE  Tripping'
<1> USE DEF RunControl, RunTypes, Phases, Tripping, Cut
<1>1. CASE Main
  BY <1>1 DEF Main, CreateClient, Connect, RegisterPid, StartTurn, TurnAnswered,
     RequestTimeout, TurnEnded, WaitTimeout, FinishGuard, JoinReturns,
     CloseClient, CloseEffect, Publish, SendOrRaise, CanSend, mainVars, childVars,
     closeVars, readerVars, guardVars, Finish
<1>2. CASE Child
  BY <1>2 DEF Child, ChildAnswers, ChildSpends, ChildEndsTurn, ChildGarbles,
     ChildDies, Alive, mainVars, closeVars, readerVars, guardVars
<1>3. CASE Reader
  BY <1>3 DEF Reader, ReaderCheck, ReaderReads, ReaderEOF, ReaderObserves,
     ReaderDispatches, Observe, mainVars, closeVars, childVars, guardVars
<1>4. CASE OnTrip
  BY <1>4 DEF OnTrip, TripClose, TripKill, TripDone, CloseEffect, mainVars,
     closeVars, readerVars, guardVars, IInv, Books, TypeOK
<1>5. CASE GuardThreads
  BY <1>5, GuardThreadsEffect DEF mainVars, closeVars, childVars, readerVars,
     IInv, Books, TypeOK
<1>6. CASE UNCHANGED vars
  BY <1>6 DEF vars, mainVars, closeVars, childVars, readerVars, guardVars
<1> QED BY <1>1, <1>2, <1>3, <1>4, <1>5, <1>6 DEF Next

-----------------------------------------------------------------------------
(* The run's threads use the breaker as its module allows.                   *)
THEOREM RunUsesGuard == Spec => UsesGuard
<1>1. Init => GuardInit /\ RunTypes /\ IInv
  BY InitControl, InitIInv DEF Init, RunControl
<1>2. RunTypes /\ IInv /\ [Next]_vars => RunTypes' /\ IInv' /\ [GuardNext]_guardVars
  BY StepTypes, StepUsesGuard, StepIInv
<1> QED BY <1>1, <1>2, PTL DEF Spec, UsesGuard, GuardSpec

LEMMA ControlInvariance == Spec => [](RunControl /\ IInv)
<1>1. Init => RunControl /\ IInv
  BY InitControl, InitIInv DEF Init
<1>2. RunControl /\ IInv /\ [Next]_vars => (RunControl /\ IInv)'
  BY StepTypes, StepPhases, StepTripping, StepUsesGuard, StepIInv DEF RunControl
<1> QED BY <1>1, <1>2, PTL DEF Spec

(* Once on_trip has run, no paid turn runs on in a live child, unless there  *)
(* was no client to close when it came.                                      *)
THEOREM GuardedTurns == Spec => []NoUnguardedTurn
<1>1. RunControl /\ IInv => NoUnguardedTurn
  BY DEF RunControl, Tripping, NoUnguardedTurn
<1> QED BY <1>1, ControlInvariance, PTL

(* A client that on_trip closed starts no turn any more.                     *)
THEOREM ClosedForGood == Spec => TripStopsTurn
<1>1. ASSUME RunControl, [Next]_vars, trip = "closed", turn = "none"
      PROVE  turn' = "none"
  <2>1. CASE StartTurn
    BY <1>1, <2>1 DEF StartTurn, CanSend, RunControl, Tripping, Cut
  <2>2. CASE Main /\ ~StartTurn
    BY <1>1, <2>2 DEF Main, CreateClient, Connect, RegisterPid, TurnAnswered,
       RequestTimeout, TurnEnded, WaitTimeout, FinishGuard, JoinReturns,
       CloseClient, Publish, childVars
  <2>3. CASE Child
    BY <1>1, <2>3 DEF Child, ChildAnswers, ChildSpends, ChildEndsTurn,
       ChildGarbles, ChildDies
  <2>4. CASE Reader
    BY <1>1, <2>4 DEF Reader, ReaderCheck, ReaderReads, ReaderEOF, ReaderObserves,
       ReaderDispatches, childVars
  <2>5. CASE OnTrip \/ GuardThreads \/ UNCHANGED vars
    BY <1>1, <2>5 DEF OnTrip, TripClose, TripKill, GuardThreads, childVars, vars
  <2> QED BY <1>1, <2>1, <2>2, <2>3, <2>4, <2>5 DEF Next
<1>2. RunControl /\ [Next]_vars =>
        [trip = "closed" /\ turn = "none" => turn' = "none"]_vars
  BY <1>1
<1> QED BY <1>2, ControlInvariance, PTL DEF Spec, TripStopsTurn

(* A run whose breaker has acted is published as tripped.                    *)
THEOREM TripsArePublished == Spec => TripIsPublished
<1>1. ASSUME RunControl, IInv, [Next]_vars, main = "closed", main' = "done",
             trip # "idle"
      PROVE  report'.state = "tripped"
  <2>1. CASE Publish
    BY <1>1, <2>1 DEF Publish, RunControl, Tripping, IInv, ResultBeforeTrip,
       ReportedTripped
  <2>2. CASE Main /\ ~Publish
    BY <1>1, <2>2 DEF Main, CreateClient, Connect, RegisterPid, StartTurn,
       TurnAnswered, RequestTimeout, TurnEnded, WaitTimeout, FinishGuard,
       JoinReturns, CloseClient
  <2>3. CASE Child \/ Reader \/ OnTrip \/ GuardThreads \/ UNCHANGED vars
    BY <1>1, <2>3 DEF Child, ChildAnswers, ChildSpends, ChildEndsTurn,
       ChildGarbles, ChildDies, Reader, ReaderCheck, ReaderReads, ReaderEOF,
       ReaderObserves, ReaderDispatches, OnTrip, TripClose, TripKill,
       GuardThreads, mainVars, vars
  <2> QED BY <1>1, <2>1, <2>2, <2>3 DEF Next
<1>2. RunControl /\ IInv /\ [Next]_vars =>
        [main = "closed" /\ main' = "done" /\ trip # "idle"
           => report'.state = "tripped"]_vars
  BY <1>1
<1> QED BY <1>2, ControlInvariance, PTL DEF Spec, TripIsPublished

-----------------------------------------------------------------------------
(* The way of a unit of spend from the child to the published total.  The    *)
(* pipe is first in, first out: nothing is spent after the turn's end, and   *)
(* what the reader has passed on when it dispatches the end was observed.    *)

(* Behind observe(): the guard knows only totals that were spent.            *)
Priced ==
  /\ \A t \in offered : t <= spent
  /\ baseline <= spent
  /\ \A i \in 1..Len(gq) : /\ gq[i].kind \in {"usage", "other", "sentinel"}
                           /\ gq[i].kind = "usage" => gq[i].total <= spent
  /\ result.state = "final" => verdict = "completed"

(* Before observe(): the child's lines.                                      *)
Stream ==
  /\ \A i \in 1..Len(pipe) : pipe[i].kind = "usage" => pipe[i].total <= spent
  /\ line.kind = "usage" => line.total <= spent
  /\ turn # "over" => /\ ~ended /\ line.kind # "terminal"
                      /\ \A i \in 1..Len(pipe) : pipe[i].kind # "terminal"
  /\ \A i, j \in 1..Len(pipe) :
       pipe[i].kind = "terminal" /\ pipe[j].kind = "usage" => j < i
  /\ ended \/ line.kind = "terminal" =>
       \A i \in 1..Len(pipe) : pipe[i].kind # "usage"
  /\ ended => line.kind # "usage"

(* The last total is observed in time or still on its way to the guard.      *)
OnItsWay ==
  \/ reader = "observe" /\ line.kind = "usage" /\ line.total = spent
  \/ \E i \in 1..Len(pipe) : pipe[i].kind = "usage" /\ pipe[i].total = spent
Known == spent = 0 \/ spent \in offered
Reaches == sealed \/ Known \/ OnItsWay

(* What the main thread saw and published.                                   *)
Ends ==
  /\ outcome = "ended" => ended /\ Known
  /\ main = "done" /\ report.state = "final" =>
       report = result /\ verdict = "completed"

Flow == Priced /\ Stream /\ Reaches /\ Ends

RunInv == RunControl /\ IInv /\ Complete /\ Flow

LEMMA InitFlow == Init => Flow
<1> SUFFICES ASSUME Init PROVE Flow
  OBVIOUS
<1>1. /\ offered = {} /\ baseline = 0 /\ gq = <<>> /\ result.state = "none"
  BY DEF Init, GuardInit, NoResult
<1>2. /\ pipe = <<>> /\ line.kind = "none" /\ ~ended /\ spent = 0 /\ outcome = "open"
      /\ main = "boot"
  BY DEF Init, NoLine, Line
<1> QED BY <1>1, <1>2 DEF Flow, Priced, Stream, Reaches, Known, Ends

(* observe() is shown a line, and finish() its marker, behind the queue.     *)
LEMMA StepPriced ==
  ASSUME RunInv, [Next]_vars
  PROVE  Priced'
<1> USE DEF RunInv, RunControl, Flow
<1>0. /\ spent \in Nat /\ spent' \in Nat /\ baseline \in Nat
      /\ offered \subseteq Nat /\ spent <= spent'
      /\ \A i \in 1..Len(gq) : gq[i].total \in Nat
  <2>1. RunTypes' /\ MaxTotal \in Nat
    BY StepTypes, GuardAssumption DEF GuardAssumption
  <2>2. spent \in Nat /\ spent' \in Nat /\ baseline \in Nat /\ offered \subseteq Nat
    BY <2>1 DEF RunTypes, IInv, TypeOK
  <2>3. \A m \in Msg \cup {Sentinel} : m.total \in Nat
    BY <2>1 DEF Msg, Sentinel
  <2>4. \A i \in 1..Len(gq) : gq[i] \in Msg \cup {Sentinel}
    BY DEF IInv, TypeOK
  <2>5. spent' = spent \/ spent' = spent + 1
    BY DEF Next, Main, CreateClient, Connect, RegisterPid, StartTurn, TurnAnswered,
       RequestTimeout, TurnEnded, WaitTimeout, FinishGuard, JoinReturns,
       CloseClient, Publish, Child, ChildAnswers, ChildSpends, ChildEndsTurn,
       ChildGarbles, ChildDies, Reader, ReaderCheck, ReaderReads, ReaderEOF,
       ReaderObserves, ReaderDispatches, OnTrip, TripClose, TripKill,
       GuardThreads, childVars, vars
  <2> QED BY <2>2, <2>3, <2>4, <2>5
<1>1. CASE UNCHANGED guardVars
  <2>1. UNCHANGED <<gq, offered, baseline, result, verdict>>
    BY <1>1 DEF guardVars
  <2>2. \A t \in offered' : t <= spent'
    BY <1>0, <2>1 DEF Priced
  <2>3. \A i \in 1..Len(gq') : gq'[i].kind = "usage" => gq'[i].total <= spent'
    BY <1>0, <2>1 DEF Priced
  <2>4. baseline' <= spent'
    BY <1>0, <2>1 DEF Priced
  <2> QED BY <2>1, <2>2, <2>3, <2>4 DEF Priced
<1>2. CASE FinishGuard
  <2>1. gq' = Append(gq, Sentinel) /\ gq \in Seq(Msg \cup {Sentinel})
    BY <1>2 DEF FinishGuard, Finish, IInv, TypeOK
  <2>2. Sentinel.kind = "sentinel"
    BY DEF Sentinel
  <2>3. /\ Len(gq') = Len(gq) + 1 /\ gq'[Len(gq) + 1] = Sentinel
        /\ \A i \in 1..Len(gq) : gq'[i] = gq[i]
        /\ Len(gq) \in Nat
    BY <2>1
  <2>4. UNCHANGED <<offered, baseline, result, verdict, spent>>
    BY <1>2 DEF FinishGuard, Finish, childVars
  <2> QED BY <1>0, <2>2, <2>3, <2>4 DEF Priced
<1>3. CASE ReaderObserves
  <2> DEFINE m == Observed(line)
  <2>1. /\ m \in Msg /\ m.kind \in {"usage", "other"}
        /\ m.kind = "usage" => m.total <= spent
    BY ObservedIsMsg DEF RunTypes, Stream
  <2>2. gq' = Append(gq, m) /\ gq \in Seq(Msg \cup {Sentinel})
    BY <1>3 DEF ReaderObserves, Observe, IInv, TypeOK
  <2>3. /\ offered' = IF m.kind = "usage" /\ ~sealed
                      THEN offered \cup {m.total} ELSE offered
        /\ UNCHANGED <<baseline, result, verdict, spent>>
    BY <1>3 DEF ReaderObserves, Observe, childVars
  <2> HIDE DEF m
  <2>4. /\ Len(gq') = Len(gq) + 1 /\ gq'[Len(gq) + 1] = m
        /\ \A i \in 1..Len(gq) : gq'[i] = gq[i]
        /\ Len(gq) \in Nat
    BY <2>1, <2>2
  <2> QED BY <1>0, <2>1, <2>3, <2>4 DEF Priced
<1>4. CASE GuardThreads /\ PullerGet
  <2> DEFINE m == Head(gq)
  <2>1. gq # <<>> /\ gq' = Tail(gq) /\ baseline' \in BaselineAfter(m)
    BY <1>4 DEF PullerGet
  <2>2. gq \in Seq(Msg \cup {Sentinel})
    BY DEF IInv, TypeOK
  <2>3. /\ m.kind \in {"usage", "other", "sentinel"}
        /\ m.kind = "usage" => m.total <= spent
    BY <2>1, <2>2 DEF Priced
  <2>4. baseline' \in {baseline, m.total} /\ (m.kind # "usage" => baseline' = baseline)
    BY <2>1, <2>3 DEF BaselineAfter, Accepted
  <2>5. UNCHANGED <<offered, result, verdict, spent>>
    BY <1>4 DEF GuardThreads, PullerGet, childVars
  <2>6. Len(gq') = Len(gq) - 1 /\ \A i \in 1..Len(gq') : gq'[i] = gq[i + 1]
    BY <2>1, <2>2
  <2>7. Len(gq) \in Nat
    BY <2>2
  <2>8. baseline' <= spent
    BY <2>3, <2>4 DEF Priced
  <2> QED BY <1>0, <2>5, <2>6, <2>7, <2>8 DEF Priced
<1>5. CASE GuardThreads /\ ~PullerGet
  <2>1. UNCHANGED <<offered, baseline, gq, spent>>
    BY <1>5 DEF GuardThreads, Puller, Guard, Consumer, PullerPut, GuardStart,
       ConsumeEvent, ConsumeDone, ConsumeMalformed, ConsumerStall, Malformed,
       ConsumeCrash, childVars
  <2>2. result'.state = "final" => verdict' = "completed"
    BY <1>5 DEF GuardThreads, Puller, Guard, Consumer, PullerPut, GuardStart,
       ConsumeEvent, ConsumeDone, ConsumeMalformed, ConsumerStall, Malformed,
       ConsumeCrash, Priced, IInv, Books
  <2> QED BY <2>1, <2>2 DEF Priced
<1>6. CASE TripKill
  BY <1>6 DEF TripKill, TripDone, Priced
<1> QED
  BY <1>1, <1>2, <1>3, <1>4, <1>5, <1>6
  DEF Next, Main, CreateClient, Connect, RegisterPid, StartTurn, TurnAnswered,
      RequestTimeout, TurnEnded, WaitTimeout, JoinReturns, CloseClient, Publish,
      Child, ChildAnswers, ChildSpends, ChildEndsTurn, ChildGarbles, ChildDies,
      Reader, ReaderCheck, ReaderReads, ReaderEOF, ReaderDispatches, OnTrip,
      TripClose, vars

(* A line behind the pipe.                                                   *)
LEMMA Emitted ==
  ASSUME pipe \in Seq(Lines), NEW l \in Lines, Emit(l)
  PROVE  /\ Len(pipe') = Len(pipe) + 1 /\ pipe'[Len(pipe) + 1] = l
         /\ \A i \in 1..Len(pipe) : pipe'[i] = pipe[i]
         /\ Len(pipe) \in Nat
BY DEF Emit

LEMMA LineFacts ==
  /\ \A k \in {"response", "terminal", "garbage"} :
       Line(k) \in Lines /\ Line(k).kind = k
  /\ \A t \in 0..MaxTotal :
       UsageLine(t) \in Lines /\ UsageLine(t).kind = "usage" /\ UsageLine(t).total = t
  /\ NoLine.kind = "none"
BY GuardAssumption DEF GuardAssumption, Line, UsageLine, Lines, NoLine

(* The child's lines stay in order, and the last total is not lost.          *)
LEMMA StepStream ==
  ASSUME RunInv, [Next]_vars
  PROVE  Stream' /\ Reaches'
<1> USE DEF RunInv, RunControl, Flow
<1>0. /\ pipe \in Seq(Lines) /\ Len(pipe) \in Nat
      /\ spent \in Nat /\ line \in Lines /\ MaxTotal \in Nat
      /\ \A l \in Lines : l.total \in Nat
      /\ \A i \in 1..Len(pipe) : pipe[i] \in Lines
  <2>1. /\ pipe \in Seq(Lines) /\ line \in Lines /\ spent \in 0..MaxTotal
        /\ MaxTotal \in Nat
    BY GuardAssumption DEF GuardAssumption, RunTypes
  <2>2. \A l \in Lines : l.total \in Nat
    BY <2>1 DEF Lines
  <2>3. Len(pipe) \in Nat /\ \A i \in 1..Len(pipe) : pipe[i] \in Lines
    BY <2>1
  <2>4. spent \in Nat
    BY <2>1
  <2> QED BY <2>1, <2>2, <2>3, <2>4
<1> DEFINE Same == UNCHANGED <<pipe, line, ended, spent>>
<1>1. ASSUME Same, turn' = turn \/ turn' = "over" \/ (turn = "none" /\ turn' = "on"),
             turn = "over" => turn' = "over",
             sealed => sealed', Known => Known',
             reader' = reader \/ ~(reader = "observe")
      PROVE  Stream' /\ Reaches'
  <2>1. Stream'
    BY <1>1 DEF Stream
  <2>2. OnItsWay => OnItsWay'
    BY <1>1 DEF OnItsWay
  <2> QED BY <1>1, <2>1, <2>2 DEF Reaches
<1>2. CASE Main
  <2>1. Same /\ offered' = offered /\ (sealed => sealed')
        /\ (turn' = turn \/ (turn = "none" /\ turn' = "on"))
        /\ (reader' = reader \/ reader # "observe")
    BY <1>2 DEF Main, CreateClient, Connect, RegisterPid, StartTurn,
       TurnAnswered, RequestTimeout, TurnEnded, WaitTimeout, FinishGuard, Finish,
       JoinReturns, CloseClient, Publish, Phases, guardVars, childVars, readerVars
  <2> QED BY <1>1, <2>1 DEF Known
<1>3. CASE Child
  <2>1. ASSUME NEW l \in Lines, l.kind \in {"response", "terminal", "garbage"},
               Emit(l), UNCHANGED <<line, ended, spent, reader, sealed, offered>>,
               turn' = IF l.kind = "terminal" THEN "over" ELSE turn
        PROVE  Stream' /\ Reaches'
    <3>1. /\ Len(pipe') = Len(pipe) + 1 /\ pipe'[Len(pipe) + 1] = l
          /\ \A i \in 1..Len(pipe) : pipe'[i] = pipe[i]
      BY <1>0, <2>1, Emitted
    <3>2. /\ \A i \in 1..Len(pipe') : pipe'[i].kind = "usage" =>
               i \in 1..Len(pipe) /\ pipe'[i] = pipe[i]
          /\ \A i \in 1..Len(pipe') : pipe'[i].kind = "terminal" =>
               \/ i \in 1..Len(pipe) /\ pipe'[i] = pipe[i]
               \/ i = Len(pipe) + 1 /\ l.kind = "terminal"
      BY <1>0, <2>1, <3>1
    <3>3. Stream'
      <4>1. \A i \in 1..Len(pipe') : pipe'[i].kind = "usage" => pipe'[i].total <= spent'
        BY <2>1, <3>2 DEF Stream
      <4>2. turn' # "over" => turn # "over" /\ l.kind # "terminal"
        BY <2>1
      <4>3. turn' # "over" => /\ ~ended' /\ line'.kind # "terminal"
                              /\ \A i \in 1..Len(pipe') : pipe'[i].kind # "terminal"
        BY <2>1, <3>2, <4>2 DEF Stream
      <4>4. \A i, j \in 1..Len(pipe') :
              pipe'[i].kind = "terminal" /\ pipe'[j].kind = "usage" => j < i
        BY <1>0, <3>2 DEF Stream
      <4>5. ended' \/ line'.kind = "terminal" =>
              \A i \in 1..Len(pipe') : pipe'[i].kind # "usage"
        BY <2>1, <3>2 DEF Stream
      <4>6. /\ line'.kind = "usage" => line'.total <= spent'
            /\ ended' => line'.kind # "usage"
        BY <2>1 DEF Stream
      <4> QED BY <4>1, <4>3, <4>4, <4>5, <4>6 DEF Stream
    <3>4. OnItsWay => OnItsWay'
      BY <1>0, <2>1, <3>1 DEF OnItsWay
    <3> QED BY <2>1, <3>3, <3>4 DEF Reaches, Known
  <2>2. CASE ChildAnswers \/ ChildEndsTurn \/ ChildGarbles
    BY <2>1, <2>2, LineFacts DEF ChildAnswers, ChildEndsTurn, ChildGarbles,
       guardVars, readerVars
  <2>3. CASE ChildSpends
    <3> DEFINE l == UsageLine(spent')
    <3>1. /\ turn = "on" /\ spent' = spent + 1 /\ spent' \in 0..MaxTotal /\ Emit(l)
          /\ UNCHANGED <<turn, line, ended, sealed, offered, reader>>
      BY <1>0, <2>3 DEF ChildSpends, guardVars, readerVars
    <3>2. l \in Lines /\ l.kind = "usage" /\ l.total = spent'
      BY <3>1, LineFacts
    <3> HIDE DEF l
    <3>3. /\ Len(pipe') = Len(pipe) + 1 /\ pipe'[Len(pipe) + 1] = l
          /\ \A i \in 1..Len(pipe) : pipe'[i] = pipe[i]
      BY <1>0, <3>1, <3>2, Emitted
    <3>4. /\ \A i \in 1..Len(pipe) : pipe[i].kind = "usage" => pipe[i].total <= spent
          /\ \A i \in 1..Len(pipe) : pipe[i].kind # "terminal"
          /\ ~ended /\ line.kind # "terminal"
          /\ line.kind = "usage" => line.total <= spent
      BY <3>1 DEF Stream
    <3>5. \A i \in 1..Len(pipe') : /\ pipe'[i].kind # "terminal"
                                   /\ pipe'[i].kind = "usage" => pipe'[i].total <= spent'
      <4> SUFFICES ASSUME NEW i \in 1..Len(pipe')
                   PROVE  /\ pipe'[i].kind # "terminal"
                          /\ pipe'[i].kind = "usage" => pipe'[i].total <= spent'
        OBVIOUS
      <4>1. CASE i = Len(pipe) + 1
        BY <1>0, <3>1, <3>2, <3>3, <4>1
      <4>2. CASE i # Len(pipe) + 1
        <5>1. i \in 1..Len(pipe) /\ pipe'[i] = pipe[i] /\ pipe[i].total \in Nat
          BY <1>0, <3>3, <4>2
        <5> QED BY <1>0, <3>1, <3>4, <5>1
      <4> QED BY <4>1, <4>2
    <3>6. line'.kind = "usage" => line'.total <= spent'
      BY <1>0, <3>1, <3>4
    <3>7. Stream'
      BY <3>1, <3>4, <3>5, <3>6 DEF Stream
    <3>8. OnItsWay'
      BY <1>0, <3>2, <3>3 DEF OnItsWay
    <3> QED BY <3>7, <3>8 DEF Reaches
  <2>4. CASE ChildDies
    BY <1>1, <2>4 DEF ChildDies, guardVars, readerVars, Known
  <2> QED BY <1>3, <2>2, <2>3, <2>4 DEF Child
<1>4. CASE ReaderReads
  <2> DEFINE l == Head(pipe)
  <2>1. /\ reader = "read" /\ pipe # <<>> /\ pipe' = Tail(pipe)
        /\ IF l.kind = "garbage" THEN line' = NoLine
           ELSE reader' = "observe" /\ line' = l
        /\ UNCHANGED <<turn, spent, ended, sealed, offered>>
    BY <1>4 DEF ReaderReads, guardVars
  <2>2. /\ Len(pipe') = Len(pipe) - 1 /\ 1 \in 1..Len(pipe) /\ l = pipe[1]
        /\ \A i \in 1..Len(pipe') : i + 1 \in 1..Len(pipe) /\ pipe'[i] = pipe[i + 1]
        /\ \A i \in 1..Len(pipe) : i = 1 \/ (i - 1 \in 1..Len(pipe') /\ pipe'[i - 1] = pipe[i])
    BY <1>0, <2>1
  <2> HIDE DEF l
  <2>3. line'.kind = "usage" => line' = l
    BY <2>1, LineFacts
  <2>4. line'.kind = "terminal" => line' = l
    BY <2>1, LineFacts
  <2>5. \A i \in 1..Len(pipe') : pipe'[i].kind = "usage" => pipe'[i].total <= spent'
    BY <2>1, <2>2 DEF Stream
  <2>6. line'.kind = "usage" => line'.total <= spent'
    BY <2>1, <2>2, <2>3 DEF Stream
  <2>7. turn' # "over" => /\ ~ended' /\ line'.kind # "terminal"
                          /\ \A i \in 1..Len(pipe') : pipe'[i].kind # "terminal"
    BY <2>1, <2>2, <2>4 DEF Stream
  <2>8. \A i, j \in 1..Len(pipe') :
          pipe'[i].kind = "terminal" /\ pipe'[j].kind = "usage" => j < i
    <3> SUFFICES ASSUME NEW i \in 1..Len(pipe'), NEW j \in 1..Len(pipe'),
                        pipe'[i].kind = "terminal", pipe'[j].kind = "usage"
                 PROVE  j < i
      OBVIOUS
    <3>1. j + 1 < i + 1
      BY <2>2 DEF Stream
    <3> QED BY <3>1, <1>0, <2>2
  <2>9. ended' \/ line'.kind = "terminal" =>
          \A i \in 1..Len(pipe') : pipe'[i].kind # "usage"
    <3> SUFFICES ASSUME ended' \/ line'.kind = "terminal", NEW i \in 1..Len(pipe'),
                        pipe'[i].kind = "usage"
                 PROVE  FALSE
      OBVIOUS
    <3>1. i + 1 \in 1..Len(pipe) /\ pipe[i + 1].kind = "usage"
      BY <2>2
    <3>2. CASE ended'
      BY <2>1, <3>1, <3>2 DEF Stream
    <3>3. CASE line'.kind = "terminal"
      <4>1. i + 1 < 1
        BY <2>2, <2>4, <3>1, <3>3 DEF Stream
      <4> QED BY <4>1
    <3> QED BY <3>2, <3>3
  <2>10. ended' => line'.kind # "usage"
    BY <2>1, <2>2, <2>3 DEF Stream
  <2>11. Stream'
    BY <2>5, <2>6, <2>7, <2>8, <2>9, <2>10 DEF Stream
  <2>12. OnItsWay => OnItsWay'
    <3>1. CASE l.kind = "usage" /\ l.total = spent
      BY <2>1, <3>1 DEF OnItsWay
    <3>2. CASE ~(l.kind = "usage" /\ l.total = spent)
      BY <2>1, <2>2, <3>2 DEF OnItsWay
    <3> QED BY <3>1, <3>2
  <2> QED BY <2>1, <2>11, <2>12 DEF Reaches, Known
<1>5. CASE ReaderObserves
  <2>1. /\ reader = "observe" /\ Same /\ turn' = turn /\ sealed' = sealed
        /\ offered' = IF Observed(line).kind = "usage" /\ ~sealed
                      THEN offered \cup {Observed(line).total} ELSE offered
    BY <1>5 DEF ReaderObserves, Observe, childVars
  <2>2. Stream'
    BY <2>1 DEF Stream
  <2>3. Known => Known'
    BY <2>1 DEF Known
  <2>4. line.kind = "usage" /\ line.total = spent => sealed' \/ Known'
    BY <1>0, <2>1, ObservedIsMsg DEF Known
  <2>5. OnItsWay => sealed' \/ Known' \/ OnItsWay'
    BY <2>1, <2>4 DEF OnItsWay
  <2> QED BY <2>1, <2>2, <2>3, <2>5 DEF Reaches
<1>6. CASE ReaderDispatches
  <2>1. /\ reader = "dispatch" /\ line' = NoLine
        /\ ended' = (ended \/ line.kind = "terminal")
        /\ UNCHANGED <<pipe, turn, spent, sealed, offered>>
    BY <1>6 DEF ReaderDispatches, guardVars, childVars
  <2>2. Stream'
    BY <2>1, LineFacts DEF Stream
  <2>3. OnItsWay => OnItsWay'
    BY <2>1 DEF OnItsWay
  <2> QED BY <2>1, <2>2, <2>3 DEF Reaches, Known
<1>7. CASE ReaderCheck \/ ReaderEOF \/ OnTrip \/ GuardThreads \/ UNCHANGED vars
  <2>1. Same /\ turn' = turn /\ UNCHANGED <<offered, sealed>>
        /\ (reader' = reader \/ reader # "observe")
    BY <1>7, GuardThreadsEffect DEF ReaderCheck, ReaderEOF, OnTrip, TripClose,
       TripKill, TripDone, guardVars, childVars, readerVars, vars
  <2> QED BY <1>1, <2>1 DEF Known
<1> QED
  BY <1>2, <1>3, <1>4, <1>5, <1>6, <1>7 DEF Next, Reader

(* The main thread believes in the end only when all of it was observed, and *)
(* publishes the result of a guard that is over.                             *)
LEMMA StepEnds ==
  ASSUME RunInv, [Next]_vars
  PROVE  Ends'
<1> USE DEF RunInv, RunControl, Flow
<1>1. /\ offered \subseteq offered' /\ (ended => ended' = ended)
      /\ (turn = "over" => spent' = spent)
  BY GuardThreadsEffect
  DEF Next, Main, CreateClient, Connect, RegisterPid, StartTurn, TurnAnswered,
      RequestTimeout, TurnEnded, WaitTimeout, FinishGuard, Finish, JoinReturns,
      CloseClient, Publish, Child, ChildAnswers, ChildSpends, ChildEndsTurn,
      ChildGarbles, ChildDies, Reader, ReaderCheck, ReaderReads, ReaderEOF,
      ReaderObserves, Observe, ReaderDispatches, OnTrip, TripClose, TripKill,
      TripDone, guardVars, childVars, readerVars, vars, RunTypes
<1>2. ended => turn = "over"
  BY DEF Stream
<1>3. ended /\ Known => ended' /\ Known'
  BY <1>1, <1>2 DEF Known
<1>4. CASE TurnEnded
  <2>1. /\ main = "wait" /\ ended /\ main' = "finish"
        /\ UNCHANGED <<offered, spent, ended>>
    BY <1>4 DEF TurnEnded, guardVars, childVars, readerVars
  <2>2. ~sealed
    BY <2>1 DEF Phases
  <2>3. ~OnItsWay
    BY <2>1 DEF Stream, OnItsWay
  <2> QED BY <2>1, <2>2, <2>3, <1>3 DEF Reaches, Ends
<1>5. CASE Publish
  <2>1. /\ UNCHANGED <<result, verdict, outcome>>
        /\ main' = IF outcome = "raised" THEN "failed" ELSE "done"
        /\ report' = IF outcome = "raised" THEN report ELSE result
    BY <1>5 DEF Publish, guardVars
  <2>2. main' = "done" /\ report'.state = "final" =>
          report' = result' /\ verdict' = "completed"
    BY <2>1 DEF Priced
  <2> QED BY <1>3, <2>1, <2>2 DEF Ends
<1>6. CASE ~TurnEnded /\ ~Publish
  <2>1. /\ outcome' \in {outcome, "raised", "timeout"}
        /\ (main' = "done" => main = "done") /\ report' = report
    BY <1>6
    DEF Next, Main, CreateClient, Connect, RegisterPid, StartTurn, SendOrRaise,
        TurnAnswered, RequestTimeout, WaitTimeout, FinishGuard, JoinReturns,
        CloseClient, Child, ChildAnswers, ChildSpends, ChildEndsTurn,
        ChildGarbles, ChildDies, Reader, ReaderCheck, ReaderReads, ReaderEOF,
        ReaderObserves, ReaderDispatches, OnTrip, TripClose, TripKill,
        GuardThreads, mainVars, vars
  <2>2. verdict = "completed" => UNCHANGED <<result, verdict>>
    BY GuardThreadsEffect
    DEF Next, Main, CreateClient, Connect, RegisterPid, StartTurn, TurnAnswered,
        RequestTimeout, TurnEnded, WaitTimeout, FinishGuard, Finish, JoinReturns,
        CloseClient, Publish, Child, ChildAnswers, ChildSpends, ChildEndsTurn,
        ChildGarbles, ChildDies, Reader, ReaderCheck, ReaderReads, ReaderEOF,
        ReaderObserves, Observe, ReaderDispatches, OnTrip, TripClose, TripKill,
        TripDone, guardVars, vars, IInv, Books
  <2> QED BY <1>3, <2>1, <2>2 DEF Ends
<1> QED BY <1>4, <1>5, <1>6

LEMMA RunInvariance == Spec => []RunInv
<1>1. Init => RunInv
  BY InitControl, InitIInv, InitComplete, InitFlow DEF Init, RunInv
<1>2. RunInv /\ [Next]_vars => RunInv'
  <2> SUFFICES ASSUME RunInv, [Next]_vars PROVE RunInv'
    OBVIOUS
  <2>1. RunControl /\ IInv /\ Complete
    BY DEF RunInv
  <2>2. RunControl' /\ IInv' /\ [GuardNext]_guardVars
    BY <2>1, StepTypes, StepPhases, StepTripping, StepUsesGuard, StepIInv
    DEF RunControl
  <2>3. Complete'
    BY <2>1, <2>2, StepComplete
  <2>4. Flow'
    BY StepPriced, StepStream, StepEnds DEF Flow
  <2> QED BY <2>2, <2>3, <2>4 DEF RunInv
<1> QED BY <1>1, <1>2, PTL DEF Spec

(* A normal end prices everything: the published total of a turn whose end   *)
(* the main thread saw is what the child spent, to the token.                *)
THEOREM NormalEnds == Spec => []NormalEndPricesEverything
<1>1. RunInv => NormalEndPricesEverything
  <2> SUFFICES ASSUME RunInv, main = "done", outcome = "ended",
                      report.state = "final"
               PROVE  report.credits = Starting + spent
    BY DEF NormalEndPricesEverything
  <2>1. report = result /\ verdict = "completed" /\ Known
    BY DEF RunInv, Flow, Ends
  <2>2. /\ chan = Empty /\ hold = Empty /\ result.credits = total
        /\ \A t \in offered : t <= baseline
    BY <2>1 DEF RunInv, Complete, Closing, IInv, Slots
  <2>3. total = Starting + baseline
    <3>1. total + 0 + 0 = Starting + baseline
      BY <2>1, <2>2 DEF RunInv, IInv, Accounting, Faulty, Empty, Item
    <3>2. total \in Nat
      BY DEF RunInv, IInv, TypeOK
    <3> QED BY <3>1, <3>2
  <2>4. /\ baseline \in Nat /\ spent \in Nat /\ baseline <= spent
    BY GuardAssumption
    DEF GuardAssumption, RunInv, RunControl, RunTypes, IInv, TypeOK, Flow, Priced
  <2>5. spent <= baseline
    BY <2>1, <2>2, <2>4 DEF Known
  <2> QED BY <2>1, <2>2, <2>3, <2>4, <2>5
<1> QED BY <1>1, RunInvariance, PTL
=============================================================================
