--------------------------- MODULE LiveCreditGuard ---------------------------
(***************************************************************************)
(* The live credit breaker of the Gate 0 launchers:                        *)
(*   tools/gate0_appserver_launch.py  LiveCreditGuard, AppServerUsageTracker*)
(*   tools/gate0_credit_breaker.py    run_breaker, _timed_iter             *)
(*                                                                         *)
(* Messages of the metered child are put on an unbounded queue by whoever  *)
(* calls observe().  A puller thread (_timed_iter._pull) takes them off,   *)
(* turns each into a credit event and puts it into a one-slot channel; the *)
(* guard thread (run_breaker) takes events out of the channel, adds them   *)
(* up and closes its books at the limit, at a fault, at a stall of the     *)
(* channel or at the end marker finish() queued.                           *)
(*                                                                         *)
(* One credit is one token: the pinned rate is a positive factor that no   *)
(* property here depends on, and the four token fields of a usage total    *)
(* are one number.                                                         *)
(***************************************************************************)
EXTENDS Integers, Sequences

CONSTANTS Limit,      \* limit of run_breaker
          Starting,   \* starting_credits of run_breaker (0 in LiveCreditGuard)
          MaxTotal,   \* the largest cumulative total a child reports
          Kinds,      \* the kinds of message the child may send
          MaxQueue    \* bound: messages waiting in the queue

(* "usage": thread/tokenUsage/updated; "badUsage": a usage update the      *)
(* converter refuses with a ValueError, before or after the tracker moved  *)
(* to its total; "other": any other JSON object; "nonObject": a JSON value *)
(* that is not an object.                                                  *)
UsageKinds == {"usage", "badUsage"}
AllKinds == UsageKinds \cup {"other", "nonObject"}

ASSUME GuardAssumption ==
  /\ Limit \in Nat
  /\ Starting \in Nat
  /\ MaxTotal \in Nat
  /\ MaxQueue \in Nat
  /\ Kinds \subseteq AllKinds

VARIABLES gq,         \* LiveCreditGuard._queue
          sealed,     \* finish() has queued the end marker
          baseline,   \* AppServerUsageTracker._last_total (None is 0)
          puller,     \* program counter of the puller thread
          hold,       \* the item the puller is about to put into the channel
          chan,       \* the one-slot channel of _timed_iter
          guard,      \* program counter of the guard thread
          total,      \* run_breaker's running total
          verdict,    \* how run_breaker ended
          result,     \* LiveCreditGuard.result
          offered     \* history: the usage totals observed before finish()

guardVars == <<gq, sealed, baseline, puller, hold, chan, guard, total,
               verdict, result, offered>>

Msg == [kind : Kinds \cap UsageKinds, total : 0..MaxTotal]
       \cup [kind : Kinds \ UsageKinds, total : {0}]
Sentinel == [kind |-> "sentinel", total |-> 0]

Item(tag, delta) == [tag |-> tag, delta |-> delta]
Empty == Item("empty", 0)
Items == [tag : {"empty", "event", "done", "malformed", "crash"}, delta : Nat]

NoResult == [state |-> "none", credits |-> 0]

-----------------------------------------------------------------------------
(* AppServerUsageTracker.delta_for and _to_credit_event: a usage total that *)
(* did not go down is worth its growth over the last one, a total that went *)
(* down or a malformed update is a stream fault, any other object is worth  *)
(* nothing.  Only ValueError is turned into MalformedCreditStream: a value  *)
(* that is not an object raises AttributeError in _event_type instead.      *)
Accepted(m) == m.kind = "usage" /\ m.total >= baseline

(* Mutant: every update is priced at its cumulative total. *)
ConvertCumulative(m) ==
  CASE Accepted(m)           -> Item("event", m.total)
    [] m.kind = "other"      -> Item("event", 0)
    [] m.kind = "sentinel"   -> Item("done", 0)
    [] m.kind = "nonObject"  -> Item("crash", 0)
    [] OTHER                 -> Item("malformed", 0)

Convert(m) ==
  CASE Accepted(m)           -> Item("event", m.total - baseline)
    [] m.kind = "other"      -> Item("event", 0)
    [] m.kind = "sentinel"   -> Item("done", 0)
    [] m.kind = "nonObject"  -> Item("crash", 0)
    [] OTHER                 -> Item("malformed", 0)

(* _last_total once m was converted: a refused update may have moved it     *)
(* (cached_input_tokens_exceeds_input_tokens is found in the delta).        *)
BaselineAfter(m) ==
  CASE Accepted(m)          -> {m.total}
    [] m.kind = "badUsage" /\ m.total >= baseline -> {baseline, m.total}
    [] OTHER                -> {baseline}

-----------------------------------------------------------------------------
GuardInit ==
  /\ gq = <<>>
  /\ sealed = FALSE
  /\ baseline = 0
  /\ puller = "off"
  /\ hold = Empty
  /\ chan = Empty
  /\ guard = "start"
  /\ total = Starting
  /\ verdict = "open"
  /\ result = NoResult
  /\ offered = {}

(* observe(): whoever receives a message of the child queues it. *)
Observe(m) ==
  /\ Len(gq) < MaxQueue
  /\ gq' = Append(gq, m)
  /\ offered' = IF m.kind = "usage" /\ ~sealed
                THEN offered \cup {m.total} ELSE offered
  /\ UNCHANGED <<sealed, baseline, puller, hold, chan, guard, total, verdict,
                 result>>

(* Mutant: the end marker overtakes what is already queued. *)
FinishFirst ==
  /\ ~sealed
  /\ sealed' = TRUE
  /\ gq' = <<Sentinel>> \o gq
  /\ UNCHANGED <<baseline, puller, hold, chan, guard, total, verdict, result,
                 offered>>

(* finish(): the end marker goes behind everything observed so far. *)
Finish ==
  /\ ~sealed
  /\ sealed' = TRUE
  /\ gq' = Append(gq, Sentinel)
  /\ UNCHANGED <<baseline, puller, hold, chan, guard, total, verdict, result,
                 offered>>

(* run_breaker is entered.  A carried-over total at the limit trips before  *)
(* the stream is touched; otherwise _timed_iter starts the puller thread.   *)
GuardStart ==
  /\ guard = "start"
  /\ IF total >= Limit
     THEN /\ verdict' = "tripped"
          /\ result' = [state |-> "tripped", credits |-> 0]
          /\ guard' = "trip"
          /\ UNCHANGED puller
     ELSE /\ guard' = "get"
          /\ puller' = "get"
          /\ UNCHANGED <<verdict, result>>
  /\ UNCHANGED <<gq, sealed, baseline, hold, chan, total, offered>>

(* _events/_to_credit_event: one message off the queue, converted. *)
PullerGet ==
  /\ puller = "get"
  /\ gq # <<>>
  /\ hold' = Convert(Head(gq))
  /\ baseline' \in BaselineAfter(Head(gq))
  /\ gq' = Tail(gq)
  /\ puller' = "put"
  /\ UNCHANGED <<sealed, chan, guard, total, verdict, result, offered>>

(* channel.put: blocks while the slot is taken; after the end marker or a   *)
(* fault the generator is over and the thread ends.                         *)
PullerPut ==
  /\ puller = "put"
  /\ chan = Empty
  /\ chan' = hold
  /\ hold' = Empty
  /\ puller' = IF hold.tag = "event" THEN "get" ELSE "ended"
  /\ UNCHANGED <<gq, sealed, baseline, guard, total, verdict, result, offered>>

(* Mutant: the running total must exceed the limit. *)
ConsumeEventLate ==
  /\ guard = "get"
  /\ chan.tag = "event"
  /\ chan' = Empty
  /\ total' = total + chan.delta
  /\ IF total' > Limit
     THEN /\ verdict' = "tripped"
          /\ result' = [state |-> "tripped", credits |-> 0]
          /\ guard' = "trip"
     ELSE UNCHANGED <<verdict, result, guard>>
  /\ UNCHANGED <<gq, sealed, baseline, puller, hold, offered>>

(* Mutant: on_trip is called before the result is stored. *)
ConsumeEventTripFirst ==
  /\ guard = "get"
  /\ chan.tag = "event"
  /\ chan' = Empty
  /\ total' = total + chan.delta
  /\ IF total' >= Limit
     THEN /\ verdict' = "tripped"
          /\ guard' = "trip"
     ELSE UNCHANGED <<verdict, guard>>
  /\ UNCHANGED <<gq, sealed, baseline, puller, hold, result, offered>>

(* run_breaker's loop body: add the event, and trip the instant the running *)
(* total is at the limit.  _run stores the result before it calls on_trip.  *)
ConsumeEvent ==
  /\ guard = "get"
  /\ chan.tag = "event"
  /\ chan' = Empty
  /\ total' = total + chan.delta
  /\ IF total' >= Limit
     THEN /\ verdict' = "tripped"
          /\ result' = [state |-> "tripped", credits |-> 0]
          /\ guard' = "trip"
     ELSE UNCHANGED <<verdict, result, guard>>
  /\ UNCHANGED <<gq, sealed, baseline, puller, hold, offered>>

(* The stream ended without a trip: run_breaker returns its totals. *)
ConsumeDone ==
  /\ guard = "get"
  /\ chan.tag = "done"
  /\ chan' = Empty
  /\ verdict' = "completed"
  /\ result' = [state |-> "final", credits |-> total]
  /\ guard' = "done"
  /\ UNCHANGED <<gq, sealed, baseline, puller, hold, total, offered>>

(* The guard thread takes a MalformedCreditStream out of the channel, or    *)
(* raises one itself when the slot stayed empty for stall_timeout_s.        *)
Malformed ==
  /\ verdict' = "malformed"
  /\ result' = [state |-> "tripped", credits |-> 0]
  /\ guard' = "trip"
  /\ UNCHANGED <<gq, sealed, baseline, puller, hold, total, offered>>

ConsumeMalformed ==
  /\ guard = "get"
  /\ chan.tag = "malformed"
  /\ chan' = Empty
  /\ Malformed

(* Mutant: the pull from the channel is not timed. *)
ConsumerStallNever == FALSE

ConsumerStall ==
  /\ guard = "get"
  /\ chan = Empty
  /\ UNCHANGED chan
  /\ Malformed

(* Any other exception of the puller is re-raised in the guard thread, which *)
(* _run does not catch: the thread dies with no result and no on_trip.       *)
ConsumeCrash ==
  /\ guard = "get"
  /\ chan.tag = "crash"
  /\ chan' = Empty
  /\ verdict' = "lost"
  /\ guard' = "dead"
  /\ UNCHANGED <<gq, sealed, baseline, puller, hold, total, result, offered>>

(* on_trip ran to its end. *)
TripDone ==
  /\ guard = "trip"
  /\ guard' = "done"
  /\ UNCHANGED <<gq, sealed, baseline, puller, hold, chan, total, verdict,
                 result, offered>>

Puller == PullerGet \/ PullerPut
Consumer == ConsumeEvent \/ ConsumeDone \/ ConsumeMalformed \/ ConsumeCrash
Guard == GuardStart \/ Consumer \/ ConsumerStall

(* The normalized_credits of the launchers' artifacts: the final total if the *)
(* result has one, else credits_at_trip, which no result of _run has, else 0. *)
ReportedCredits == IF result.state = "final" THEN result.credits ELSE 0
ReportedTripped == result.state = "tripped"

Environment == Finish \/ \E m \in Msg : Observe(m)
GuardNext == Environment \/ Puller \/ Guard \/ TripDone

GuardSpec == GuardInit /\ [][GuardNext]_guardVars

(* The threads run: the puller, the guard thread and its on_trip callback   *)
(* are never starved.  Nothing is assumed of the child or of finish().      *)
GuardFairness == WF_guardVars(Puller) /\ WF_guardVars(Guard \/ TripDone)
FairGuardSpec == GuardSpec /\ GuardFairness

-----------------------------------------------------------------------------
TypeOK ==
  /\ gq \in Seq(Msg \cup {Sentinel})
  /\ sealed \in BOOLEAN
  /\ baseline \in 0..MaxTotal
  /\ puller \in {"off", "get", "put", "ended"}
  /\ hold \in Items
  /\ chan \in Items
  /\ guard \in {"start", "get", "trip", "done", "dead"}
  /\ total \in Nat
  /\ verdict \in {"open", "tripped", "malformed", "lost", "completed"}
  /\ result \in [state : {"none", "tripped", "final"}, credits : Nat]
  /\ offered \subseteq 0..MaxTotal

(* No usage is lost or priced twice on its way through the two hand-overs:  *)
(* what the guard added up and what is still in flight make up exactly the  *)
(* last cumulative total the tracker moved to (AppServerUsageTracker's      *)
(* "never re-priced" and the accountant's running total), unless a refused  *)
(* update is on its way to the guard or has closed the books.               *)
Faulty == "malformed" \in {hold.tag, chan.tag, verdict}
Accounting == Faulty \/ total + chan.delta + hold.delta = Starting + baseline

(* The books are closed at the first event that reaches the limit and never *)
(* reopened: the total only moves while it is below the limit and the       *)
(* verdict is open (run_breaker "never reads past the event that crosses    *)
(* the limit").                                                             *)
HaltAtLimit ==
  [][total' # total => /\ total < Limit
                       /\ verdict = "open"
                       /\ verdict' # "open" <=> total' >= Limit]_guardVars

(* A clean end vouches for everything: whatever the interleaving of         *)
(* observe(), finish() and the two threads, a stream that completed had     *)
(* every usage total observed before finish() priced, and stayed under the  *)
(* limit.                                                                   *)
CleanEndIsComplete ==
  verdict = "completed" =>
    /\ sealed
    /\ \A t \in offered : Starting + t <= total
    /\ total < Limit
    /\ ReportedCredits = total

(* By the time on_trip runs, the stored result already says tripped, so a   *)
(* launcher that reads it after a killed child can never report an          *)
(* untripped run (_run assigns self.result before it calls on_trip).        *)
ResultBeforeTrip ==
  guard = "trip" \/ verdict \in {"tripped", "malformed"} => ReportedTripped

(* A stream that falls silent for good ends the guard: whatever was lost or *)
(* stuck on the way, from some moment on either the books are closed or the *)
(* child keeps sending (the stall backstop of _timed_iter).                 *)
SilenceEndsGuard ==
  <>[][Len(gq') <= Len(gq)]_gq => <>(guard \in {"done", "dead"})

(* The abstract ceiling: the guard's books, seen without threads. *)
Ceiling == INSTANCE SpendCeiling WITH vouched <- total - Starting

(* The threads implement the ceiling: every total the guard thread arrives  *)
(* at is one the child published, in order, and the decisions are the       *)
(* ceiling's (run_breaker over _timed_iter over LiveCreditGuard._events).   *)
ImplementsCeiling == Ceiling!Spec

(* What the documentation says, and the code does not do. ------------------*)

(* gate0_credit_breaker.py: "Fail closed: never silently treat a malformed  *)
(* event as zero or skip it"; an object that is no event must be a          *)
(* kill-worthy fault (validate_event's event_not_object).                   *)
FailClosed == guard = "dead" => ReportedTripped
=============================================================================
